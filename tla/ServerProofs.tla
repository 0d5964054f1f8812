---------------------------- MODULE ServerProofs ----------------------------
(***************************************************************************)
(* The server is the event stream with fewer behaviours, so what is proved *)
(* of EventStream holds in it; and whatever the numbers of goroutines,     *)
(* requests and clients, the store outlives those who write to it.         *)
(***************************************************************************)
EXTENDS Server, EventStreamProofs

Waited ==
  /\ phase = "closing" /\ ~failed => \A c \in Sched \cup Pool : pc[c] = "done"
  /\ phase \in {"waiting", "closing"} /\ ~expired /\ ~failed =>
       \A c \in Http : pc[c] # "busy"

ServerInv == StreamInv /\ ServerTypeOK /\ Waited

\* A step of the server is a step of the stream or leaves the stream alone.
LEMMA ServerStepIsStreamStep == [ServerNext]_serverVars => [Next]_vars
<1> SUFFICES ASSUME [ServerNext]_serverVars PROVE Next \/ UNCHANGED vars
  OBVIOUS
<1>1. CASE Main
  <2>1. CASE StartFails
    <3>1. CASE stopping
      BY <2>1, <3>1 DEF StartFails, vars, streamVars
    <3>2. CASE ~stopping
      BY <2>1, <3>2 DEF StartFails, Stop, Next
    <3>3. QED BY <3>1, <3>2
  <2>2. CASE Exit
    BY <2>2 DEF Exit, Next
  <2>3. CASE Start \/ Listen \/ BeginShutdown \/ ShutdownDrained \/ ShutdownExpires \/ Waits
    BY <2>3 DEF Start, Listen, BeginShutdown, ShutdownDrained, ShutdownExpires, Waits
  <2>4. QED BY <1>1, <2>1, <2>2, <2>3 DEF Main
<1>2. CASE Signal
  BY <1>2 DEF Signal, Next
<1>3. ASSUME NEW c \in Caller, Begin(c) \/ Work(c) PROVE Next \/ UNCHANGED vars
  <2>1. CASE DoWrite(c)
    BY <2>1 DEF DoWrite, CallerStep, Next
  <2>2. CASE DoEmit(c)
    BY <2>2 DEF DoEmit, CallerStep, Next
  <2>3. CASE Begin(c) \/ Finish(c) \/ Leave(c)
    BY <2>3 DEF Begin, Finish, Leave
  <2>4. QED BY <1>3, <2>1, <2>2, <2>3 DEF Work
<1>4. CASE RunBroker
  BY <1>4 DEF RunBroker, Next
<1>5. CASE \E k \in Client : Stream(k)
  BY <1>5 DEF Stream, Next
<1>6. CASE UNCHANGED serverVars
  BY <1>6 DEF serverVars
<1>7. QED BY <1>1, <1>2, <1>3, <1>4, <1>5, <1>6 DEF ServerNext

\* In the process the stream behaves as it does by itself: what is proved of
\* EventStream's Spec is proved of the server.
THEOREM ServerRunsTheStream == ServerSpec => Spec
<1>1. ServerInit => Init
  BY DEF ServerInit
<1>2. QED BY <1>1, ServerStepIsStreamStep, PTL DEF ServerSpec, Spec

\* A shutdown that cuts requests off or meets open streams drops no event that
\* was not counted, and shows nobody a stale view that is not accounted for.
THEOREM ServerAccountsForEvents == ServerSpec => [](NoEventLostSilently /\ StaleViewAccounted)
BY ServerRunsTheStream, NoEventIsLostSilently, StaleViewIsAccounted, PTL

\* From the start to the exit, in whatever order goroutines stop: each write of
\* the process takes effect at most once, all or nothing and not after Close,
\* and its caller is told nothing else.
THEOREM ServerWritesAreAtomic == ServerSpec => Atomic!Spec
BY ServerRunsTheStream, StreamStoreIsAtomic, PTL

LEMMA ServerInvInit == ServerInit => ServerInv
<1> SUFFICES ASSUME ServerInit PROVE ServerInv
  OBVIOUS
<1>1. StreamInv /\ TypeOK
  BY StreamInvInit DEF ServerInit, StreamInv
<1>2. QED BY <1>1 DEF ServerInit, ServerInv, ServerTypeOK, Waited

LEMMA ServerTypeStep == ServerInv /\ [ServerNext]_serverVars => ServerTypeOK'
<1> SUFFICES ASSUME ServerInv, [ServerNext]_serverVars PROVE ServerTypeOK'
  OBVIOUS
<1>1. TypeOK'
  BY ServerStepIsStreamStep, StreamInvStep DEF ServerInv, StreamInv
<1> DEFINE PcOK == pc \in [Caller -> {"idle", "busy", "done"}]
           MainOK == /\ phase \in {"starting", "started", "serving", "shutdown",
                                   "waiting", "closing", "exited"}
                     /\ expired \in BOOLEAN /\ failed \in BOOLEAN
<1>2. PcOK /\ MainOK
  BY DEF ServerInv, ServerTypeOK
<1>3. MainOK' /\ PcOK'
  <2>1. CASE Main
    BY <1>2, <2>1 DEF Main, Start, Listen, StartFails, BeginShutdown, ShutdownDrained,
                      ShutdownExpires, Waits, Exit, Goto
  <2>2. CASE UNCHANGED <<mainVars, pc>>
    BY <1>2, <2>2 DEF mainVars
  <2>3. ASSUME NEW c \in Caller, Begin(c) \/ Work(c) PROVE MainOK' /\ PcOK'
    <3>1. CASE Begin(c) \/ Finish(c) \/ Leave(c)
      BY <1>2, <3>1 DEF Begin, Finish, Leave, mainVars
    <3>2. QED BY <2>2, <2>3, <3>1 DEF Work, DoWrite, DoEmit
  <2>4. CASE Signal \/ RunBroker \/ (\E k \in Client : Stream(k)) \/ UNCHANGED serverVars
    BY <2>2, <2>4 DEF Signal, RunBroker, Stream, serverVars
  <2>5. QED BY <2>1, <2>3, <2>4 DEF ServerNext
<1>4. QED BY <1>1, <1>3 DEF ServerTypeOK

\* No handler of a request starts once the listener is closed, and none of
\* the goroutines that were waited for starts again.
LEMMA WaitedStep == ServerInv /\ [ServerNext]_serverVars => Waited'
<1> SUFFICES ASSUME ServerInv, [ServerNext]_serverVars PROVE Waited'
  OBVIOUS
<1> USE DEF ServerInv
<1>1. pc \in [Caller -> {"idle", "busy", "done"}] /\ Sched \cup Pool \subseteq Caller
      /\ Http = Caller \ (Pool \cup Sched)
  BY ServerConstants, EventStreamConstants DEF ServerTypeOK, Http
<1>2. CASE Main
  <2>1. pc' = pc
    BY <1>2 DEF Main, Start, Listen, StartFails, BeginShutdown, ShutdownDrained,
                ShutdownExpires, Waits, Exit
  <2>2. CASE Start \/ Listen \/ BeginShutdown \/ Exit
    BY <2>2 DEF Start, Listen, BeginShutdown, Exit, Goto, Waited
  <2>3. CASE StartFails
    BY <2>3 DEF StartFails, Waited
  <2>4. CASE ShutdownDrained \/ ShutdownExpires
    BY <2>1, <2>4 DEF ShutdownDrained, ShutdownExpires, Goto, Waited
  <2>5. CASE Waits
    BY <2>1, <2>5 DEF Waits, Goto, Waited
  <2>6. QED BY <1>2, <2>2, <2>3, <2>4, <2>5 DEF Main
<1>3. CASE UNCHANGED <<mainVars, pc>>
  BY <1>3 DEF Waited, mainVars
<1>4. ASSUME NEW c \in Caller, Begin(c) \/ Work(c) PROVE Waited'
  <2>1. CASE Begin(c)
    <3>1. /\ pc[c] = "idle" /\ pc' = [pc EXCEPT ![c] = "busy"] /\ UNCHANGED <<phase, expired, failed>>
          /\ c \in Http => phase = "serving"
      BY <2>1 DEF Begin, mainVars
    <3>2. \A d \in Sched \cup Pool : pc[d] = "done" => pc'[d] = "done"
      BY <1>1, <3>1
    <3>3. phase # "serving" => \A d \in Http : pc'[d] = pc[d]
      BY <1>1, <3>1
    <3>4. QED BY <3>1, <3>2, <3>3 DEF Waited
  <2>2. CASE Finish(c) \/ Leave(c)
    <3>1. pc' = [pc EXCEPT ![c] = "done"] /\ UNCHANGED <<phase, expired, failed>>
      BY <2>2 DEF Finish, Leave, mainVars
    <3>2. \A d \in Caller : pc'[d] = pc[d] \/ pc'[d] = "done"
      BY <1>1, <3>1
    <3>3. QED BY <1>1, <3>1, <3>2 DEF Waited
  <2>3. CASE DoWrite(c) \/ DoEmit(c)
    BY <1>3, <2>3 DEF DoWrite, DoEmit
  <2>4. QED BY <1>4, <2>1, <2>2, <2>3 DEF Work
<1>5. CASE Signal \/ RunBroker \/ (\E k \in Client : Stream(k)) \/ UNCHANGED serverVars
  BY <1>3, <1>5 DEF Signal, RunBroker, Stream, serverVars
<1>6. QED BY <1>2, <1>4, <1>5 DEF ServerNext

THEOREM ServerInvariant == ServerSpec => []ServerInv
<1>1. ServerInv /\ [ServerNext]_serverVars => ServerInv'
  BY ServerTypeStep, WaitedStep, ServerStepIsStreamStep, StreamInvStep DEF ServerInv
<1>2. QED BY <1>1, ServerInvInit, PTL DEF ServerSpec

\* The channels of the stream and the states of the process are what their
\* types say, whoever runs and whenever the server stops.
THEOREM ServerTypeCorrect == ServerSpec => []ServerTypeOK
<1>1. ServerInv => ServerTypeOK
  BY DEF ServerInv
<1>2. QED BY <1>1, ServerInvariant, PTL

\* Who is refused or cut off needed a store that was being closed: only
\* requests after the 15 s, or anybody after a failed start.
LEMMA OutlivedStep ==
  ServerInv /\ [ServerNext]_serverVars =>
    \A c \in Caller : Refused(c) \/ CutOff(c) => failed \/ (c \in Http /\ expired)
<1> SUFFICES ASSUME ServerInv, [ServerNext]_serverVars,
                    NEW c \in Caller, Refused(c) \/ CutOff(c)
             PROVE  failed \/ (c \in Http /\ expired)
  OBVIOUS
<1>1. phase = "closing" /\ pc[c] = "busy"
  <2>1. CASE CutOff(c)
    <3>1. Exit
      <4>1. phase' = "exited" /\ phase # "exited"
        BY <2>1 DEF CutOff
      <4>2. Main
        BY <4>1 DEF ServerNext, serverVars, mainVars, Signal, Begin, Work, DoWrite, DoEmit,
                    Finish, Leave, RunBroker, Stream
      <4>3. QED BY <4>1, <4>2 DEF Main, Start, Listen, StartFails, BeginShutdown,
                    ShutdownDrained, ShutdownExpires, Waits, Goto
    <3>2. QED BY <2>1, <3>1 DEF CutOff, Exit, Goto
  <2>2. CASE Refused(c)
    <3>1. effect[c] = "pending" /\ answer[c] = "none" /\ answer'[c] = "rejected"
          /\ answer \in [Caller -> {"none", "ok", "rejected", "unknown"}]
      BY <2>2 DEF Refused, ServerInv, ServerTypeOK, TypeOK
    <3>2. ASSUME NEW d \in Caller, DoWrite(d) PROVE phase = "closing" /\ pc[c] = "busy"
      <4>1. pc[d] = "busy"
        BY <3>2 DEF DoWrite
      <4>2. CASE Commit(d) \/ Reject(d)
        BY <3>1, <4>2 DEF Commit, Reject, Atomic!Commit, Atomic!Reject
      <4>3. CASE phase = "closing" /\ Refuse(d)
        <5>1. answer' = [answer EXCEPT ![d] = "rejected"]
          BY <4>3 DEF Refuse, Atomic!Refuse
        <5>2. d = c
          BY <3>1, <5>1
        <5>3. QED BY <4>1, <4>3, <5>2
      <4>4. CASE Answer(d)
        <5>1. \/ effect[d] = "rejected" /\ answer' = [answer EXCEPT ![d] = "rejected"]
              \/ answer' = [answer EXCEPT ![d] = "ok"]
              \/ answer' = [answer EXCEPT ![d] = "unknown"]
          BY <4>4 DEF Answer, Atomic!Answer
        <5>2. QED BY <3>1, <5>1
      <4>5. QED BY <3>2, <4>2, <4>3, <4>4 DEF DoWrite
    <3>3. ASSUME answer' = answer PROVE FALSE
      BY <3>1, <3>3
    <3>4. \E d \in Caller : DoWrite(d)
      <4>1. CASE Main
        BY <3>3, <4>1 DEF Main, Start, Listen, StartFails, BeginShutdown, ShutdownDrained,
             ShutdownExpires, Waits, Exit, CloseStore, Atomic!Close, vars, storeVars
      <4>2. CASE Signal \/ RunBroker \/ UNCHANGED serverVars
        BY <3>3, <4>2 DEF Signal, Stop, RunBroker, BrokerStep, Take, FanOut, BrokerStop,
             serverVars, vars, storeVars
      <4>3. CASE \E k \in Client : Stream(k)
        BY <3>3, <4>3 DEF Stream, ClientStep, Subscribe, Flush, Deliver, Fetch, Unsubscribe,
             storeVars
      <4>4. ASSUME NEW d \in Caller, Begin(d) \/ Work(d) PROVE DoWrite(d)
        BY <3>3, <4>4 DEF Begin, Work, DoEmit, Emit, Finish, Leave, vars, storeVars
      <4>5. QED BY <4>1, <4>2, <4>3, <4>4 DEF ServerNext
    <3>5. QED BY <3>2, <3>4
  <2>3. QED BY <2>1, <2>2
<1>2. QED BY <1>1 DEF ServerInv, Waited, Http

\* The store is closed under nobody who still needs it, but for requests that
\* outlast the shutdown and for a start that failed.
THEOREM WritersAreOutlived == ServerSpec => WritersOutlived
BY ServerInvariant, OutlivedStep, PTL DEF ServerSpec, WritersOutlived

=============================================================================
