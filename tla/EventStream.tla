---------------------------- MODULE EventStream ----------------------------
(***************************************************************************)
(* How a committed write becomes an event of the SSE stream: Store.emit in *)
(* the goroutine of the caller, the Broker of internal/api/broker.go with  *)
(* its input channel, its fan-out goroutine and a channel per subscriber,  *)
(* and HandleEvents (internal/api/events.go), one goroutine per connected  *)
(* client.  The store is AtomicWrites, which WriteLoop implements.         *)
(*                                                                         *)
(* The events that entered the input channel are kept in published, in     *)
(* their order; taken and fanned count how many of them have been received *)
(* by the fan-out goroutine and offered to the subscribers.  A channel of  *)
(* a subscriber holds places in published.                                 *)
(***************************************************************************)
EXTENDS Naturals, Sequences

CONSTANTS
  Caller,      \* goroutines that call a write method of Store, once each
  Background,  \* those whose context is never cancelled
  Emits,       \* per caller: the events it emits, 2 for RestartTask, 0 for RequeueRetrying
  Client,      \* the programs that follow the stream
  InputBuf,    \* brokerInputBuf
  SubBuf       \* subBufSize

ASSUME EventStreamConstants ==
  /\ Background \subseteq Caller
  /\ Emits \in [Caller -> Nat]
  /\ InputBuf \in Nat \ {0} /\ SubBuf \in Nat \ {0}

VARIABLES
  effect, answer, open,  \* the store, see AtomicWrites
  emitted,    \* per caller: how many of its events it has emitted
  published,  \* the events that entered input, in order
  dropped,    \* the events that found input full
  taken,      \* events received from input by run
  fanned,     \* events run has offered to the subscribers
  broker,     \* "running" or "stopped": run has returned
  stopping,   \* the context of the server has been cancelled
  conn,       \* per client: "none", "subscribed" or "streaming"
  joined,     \* per client: the number of events fanned out when it subscribed
  buf,        \* per client: its channel, as places in published
  got,        \* per client: the places it has been sent
  missed,     \* per client: the places its channel had no room for
  seen,       \* per client: the writes whose effect its last fetch showed
  stale       \* per client: whether it has to fetch

storeVars == <<effect, answer, open>>
emitVars == <<emitted, published, dropped>>
brokerVars == <<taken, fanned, broker>>
subVars == <<conn, joined, buf, got, missed>>
viewVars == <<seen, stale>>
streamVars == <<emitVars, brokerVars, stopping, subVars, viewVars>>
vars == <<storeVars, streamVars>>

Atomic == INSTANCE AtomicWrites

EventOf(c) == {c} \X (1 .. Emits[c])

Event == UNION {EventOf(c) : c \in Caller}

Committed == {c \in Caller : effect[c] = "committed"}

TypeOK ==
  /\ effect \in [Caller -> {"pending", "committed", "rejected"}]
  /\ answer \in [Caller -> {"none", "ok", "rejected", "unknown"}]
  /\ open \in BOOLEAN /\ stopping \in BOOLEAN
  /\ emitted \in [Caller -> Nat]
  /\ published \in Seq(Event) /\ dropped \in SUBSET Event
  /\ taken \in Nat /\ fanned \in Nat
  /\ fanned <= taken /\ taken <= fanned + 1 /\ taken <= Len(published)
  /\ Len(published) - taken <= InputBuf
  /\ broker \in {"running", "stopped"}
  /\ conn \in [Client -> {"none", "subscribed", "streaming"}]
  /\ joined \in [Client -> Nat]
  /\ buf \in [Client -> Seq(Nat)] /\ \A k \in Client : Len(buf[k]) <= SubBuf
  /\ got \in [Client -> SUBSET Nat] /\ missed \in [Client -> SUBSET Nat]
  /\ seen \in [Client -> SUBSET Caller] /\ stale \in [Client -> BOOLEAN]

Init ==
  /\ Atomic!Init
  /\ emitted = [c \in Caller |-> 0]
  /\ published = <<>> /\ dropped = {}
  /\ taken = 0 /\ fanned = 0
  /\ broker = "running" /\ stopping = FALSE
  /\ conn = [k \in Client |-> "none"]
  /\ joined = [k \in Client |-> 0]
  /\ buf = [k \in Client |-> <<>>]
  /\ got = [k \in Client |-> {}] /\ missed = [k \in Client |-> {}]
  /\ seen = [k \in Client |-> {}] /\ stale = [k \in Client |-> FALSE]

-----------------------------------------------------------------------------
(* A write method of the store: the write, its answer, then emit.          *)

Commit(c) == Atomic!Commit(c) /\ UNCHANGED streamVars

Reject(c) == Atomic!Reject(c) /\ UNCHANGED streamVars

Refuse(c) == Atomic!Refuse(c) /\ UNCHANGED streamVars

\* "unknown" is ctx.Err(): the method returns without emitting, whatever
\* becomes of the write.
Answer(c) ==
  /\ Atomic!Answer(c)
  /\ c \in Background => answer'[c] # "unknown"
  /\ UNCHANGED streamVars

HasEvent(c) == answer[c] = "ok" /\ emitted[c] < Emits[c]

\* Mistake: emitting from inside the transaction, before its commit.
EmitUncommitted(c) ==
  /\ effect[c] # "rejected" /\ answer[c] # "unknown" /\ emitted[c] < Emits[c]
  /\ emitted' = [emitted EXCEPT ![c] = @ + 1]
  /\ Len(published) - taken < InputBuf
  /\ published' = Append(published, <<c, emitted[c] + 1>>)
  /\ UNCHANGED <<storeVars, dropped, brokerVars, stopping, subVars, viewVars>>

\* Mistake: a send that waits for room.
EmitBlocking(c) ==
  /\ HasEvent(c)
  /\ emitted' = [emitted EXCEPT ![c] = @ + 1]
  /\ Len(published) - taken < InputBuf
  /\ published' = Append(published, <<c, emitted[c] + 1>>)
  /\ UNCHANGED <<storeVars, dropped, brokerVars, stopping, subVars, viewVars>>

\* Mistake: one event more than the channel holds.
EmitOverfull(c) ==
  /\ HasEvent(c)
  /\ emitted' = [emitted EXCEPT ![c] = @ + 1]
  /\ Len(published) - taken <= InputBuf
  /\ published' = Append(published, <<c, emitted[c] + 1>>)
  /\ UNCHANGED <<storeVars, dropped, brokerVars, stopping, subVars, viewVars>>

\* Never blocks: an event that finds the channel full is dropped.
Emit(c) ==
  /\ HasEvent(c)
  /\ emitted' = [emitted EXCEPT ![c] = @ + 1]
  /\ LET event == <<c, emitted[c] + 1>>
     IN  \/ /\ Len(published) - taken < InputBuf
            /\ published' = Append(published, event)
            /\ UNCHANGED dropped
         \/ /\ Len(published) - taken = InputBuf
            /\ dropped' = dropped \cup {event}
            /\ UNCHANGED published
  /\ UNCHANGED <<storeVars, brokerVars, stopping, subVars, viewVars>>

CallerStep(c) == Commit(c) \/ Reject(c) \/ Refuse(c) \/ Answer(c) \/ Emit(c)

-----------------------------------------------------------------------------
(* Broker.run, a goroutine of its own.                                     *)

Take ==
  /\ broker = "running" /\ taken = fanned
  /\ taken < Len(published)
  /\ taken' = taken + 1
  /\ UNCHANGED <<storeVars, emitVars, fanned, broker, stopping, subVars, viewVars>>

Registered(k) == conn[k] # "none"

HasRoom(k) == Len(buf[k]) < SubBuf

\* Mistake: a send that waits for room.
FanOutBlocking ==
  /\ fanned < taken
  /\ \A k \in Client : Registered(k) => HasRoom(k)
  /\ fanned' = fanned + 1
  /\ buf' = [k \in Client |->
               IF Registered(k) THEN Append(buf[k], fanned + 1) ELSE buf[k]]
  /\ UNCHANGED <<storeVars, emitVars, taken, broker, stopping,
                 conn, joined, got, missed, viewVars>>

\* Mistake: a subscriber counts from the moment its headers are out.
FanOutToStreaming ==
  /\ fanned < taken
  /\ fanned' = fanned + 1
  /\ buf' = [k \in Client |->
               IF conn[k] = "streaming" /\ HasRoom(k) THEN Append(buf[k], fanned + 1) ELSE buf[k]]
  /\ missed' = [k \in Client |->
               IF conn[k] = "streaming" /\ ~HasRoom(k) THEN missed[k] \cup {fanned + 1} ELSE missed[k]]
  /\ UNCHANGED <<storeVars, emitVars, taken, broker, stopping, conn, joined, got, viewVars>>

\* Under subsMu: each subscriber gets the event or, its channel being full,
\* misses it.
FanOut ==
  /\ fanned < taken
  /\ fanned' = fanned + 1
  /\ buf' = [k \in Client |->
               IF Registered(k) /\ HasRoom(k) THEN Append(buf[k], fanned + 1) ELSE buf[k]]
  /\ missed' = [k \in Client |->
               IF Registered(k) /\ ~HasRoom(k) THEN missed[k] \cup {fanned + 1} ELSE missed[k]]
  /\ UNCHANGED <<storeVars, emitVars, taken, broker, stopping, conn, joined, got, viewVars>>

\* ctx.Done() is one case of the select: it may win over events in input.
BrokerStop ==
  /\ broker = "running" /\ taken = fanned
  /\ stopping
  /\ broker' = "stopped"
  /\ UNCHANGED <<storeVars, emitVars, taken, fanned, stopping, subVars, viewVars>>

BrokerStep == Take \/ FanOut \/ BrokerStop

\* The signal, or a failed start: the context of the server ends.
Stop ==
  /\ ~stopping
  /\ stopping' = TRUE
  /\ UNCHANGED <<storeVars, emitVars, brokerVars, subVars, viewVars>>

-----------------------------------------------------------------------------
(* HandleEvents and the client at the other end of its connection.  The    *)
(* client is external: events.go tells it to fetch through REST when it    *)
(* has connected, store.go to do so on every event.                        *)

Subscribe(k) ==
  /\ conn[k] = "none"
  /\ conn' = [conn EXCEPT ![k] = "subscribed"]
  /\ joined' = [joined EXCEPT ![k] = fanned]
  /\ UNCHANGED <<storeVars, emitVars, brokerVars, stopping, buf, got, missed, viewVars>>

\* The response headers reach the client, which starts with a fetch.
Flush(k) ==
  /\ conn[k] = "subscribed"
  /\ conn' = [conn EXCEPT ![k] = "streaming"]
  /\ stale' = [stale EXCEPT ![k] = TRUE]
  /\ UNCHANGED <<storeVars, emitVars, brokerVars, stopping, joined, buf, got, missed, seen>>

Deliver(k) ==
  /\ conn[k] = "streaming" /\ buf[k] # <<>>
  /\ got' = [got EXCEPT ![k] = @ \cup {Head(buf[k])}]
  /\ buf' = [buf EXCEPT ![k] = Tail(@)]
  /\ stale' = [stale EXCEPT ![k] = TRUE]
  /\ UNCHANGED <<storeVars, emitVars, brokerVars, stopping, conn, joined, missed, seen>>

Fetch(k) ==
  /\ stale[k] /\ open
  /\ seen' = [seen EXCEPT ![k] = Committed]
  /\ stale' = [stale EXCEPT ![k] = FALSE]
  /\ UNCHANGED <<storeVars, emitVars, brokerVars, stopping, subVars>>

\* The connection ends at either end; the deferred Unsubscribe.
Unsubscribe(k) ==
  /\ conn[k] # "none"
  /\ conn' = [conn EXCEPT ![k] = "none"]
  /\ joined' = [joined EXCEPT ![k] = 0]
  /\ buf' = [buf EXCEPT ![k] = <<>>]
  /\ got' = [got EXCEPT ![k] = {}]
  /\ missed' = [missed EXCEPT ![k] = {}]
  /\ stale' = [stale EXCEPT ![k] = FALSE]
  /\ UNCHANGED <<storeVars, emitVars, brokerVars, stopping, seen>>

\* Mistake: the headers go out first, and the client may fetch before the
\* handler has subscribed.
FlushFirst(k) ==
  /\ conn[k] = "none" /\ ~stale[k]
  /\ stale' = [stale EXCEPT ![k] = TRUE]
  /\ UNCHANGED <<storeVars, emitVars, brokerVars, stopping, subVars, seen>>
SubscribeLate(k) ==
  /\ conn[k] = "none"
  /\ conn' = [conn EXCEPT ![k] = "streaming"]
  /\ joined' = [joined EXCEPT ![k] = fanned]
  /\ UNCHANGED <<storeVars, emitVars, brokerVars, stopping, buf, got, missed, viewVars>>
ClientStepFlushFirst(k) ==
  FlushFirst(k) \/ SubscribeLate(k) \/ Deliver(k) \/ Fetch(k) \/ Unsubscribe(k)

ClientStep(k) == Subscribe(k) \/ Flush(k) \/ Deliver(k) \/ Fetch(k) \/ Unsubscribe(k)

CloseStore == Atomic!Close /\ UNCHANGED streamVars

Next ==
  \/ \E c \in Caller : CallerStep(c)
  \/ BrokerStep
  \/ Stop
  \/ \E k \in Client : ClientStep(k)
  \/ CloseStore

Spec == Init /\ [][Next]_vars

\* The goroutines of the callers and of the broker run; nobody makes a client
\* connect, read or go away, and nothing makes a write happen.
FairSpec ==
  /\ Spec
  /\ \A c \in Caller : WF_vars(Emit(c))
  /\ WF_vars(BrokerStep)

-----------------------------------------------------------------------------
(* What is checked.                                                        *)

Hints == INSTANCE LossyStream WITH
           Write <- Caller, Hint <- Event, committed <- Committed,
           stream <- published

\* Emission by concurrent callers, two channels that drop and connections
\* that come and go implement the stream of hints: no client is told of a
\* write that did not happen, or of one twice, or in another order than others.
ImplementsLossyStream == Hints!Spec

Places(k) == {buf[k][i] : i \in 1 .. Len(buf[k])}

\* Of the events fanned out since it subscribed, a client has been sent each,
\* or will be, or its channel was full: exactly one of the three.
NoEventLostSilently ==
  \A k \in Client : Registered(k) =>
    /\ got[k] \cup Places(k) \cup missed[k] = (joined[k] + 1) .. fanned
    /\ got[k] \cap Places(k) = {}
    /\ missed[k] \cap (got[k] \cup Places(k)) = {}

InFlight(c, k) ==
  \/ effect[c] = "committed" /\ answer[c] = "none"
  \/ HasEvent(c)
  \/ broker = "running" /\ \E i \in (fanned + 1) .. Len(published) : published[i][1] = c
  \/ \E i \in Places(k) : published[i][1] = c

Unannounced(c, k) ==
  \/ answer[c] = "unknown" \/ Emits[c] = 0
  \/ broker = "stopped"
  \/ EventOf(c) \subseteq dropped \cup {published[i] : i \in missed[k]}

\* What a connected client does not show is accounted for: it is about to
\* fetch, or a hint is on its way to it, or every hint about the write was
\* lost on a full channel, or there is none because the caller had given up
\* waiting or its write is of the kind that emits nothing, or the broker has
\* stopped with the server.
StaleViewAccounted ==
  \A k \in Client : conn[k] = "streaming" /\ ~stale[k] =>
    \A c \in Committed \ seen[k] : InFlight(c, k) \/ Unannounced(c, k)

\* A caller is not held up by the stream: not by a full channel, not by a
\* broker that has stopped.
EmitNeverBlocks ==
  \A c \in Caller : HasEvent(c) ~> (emitted[c] = Emits[c])

\* An event that entered input is offered to the subscribers, however slow
\* they are, unless the server is stopped before.
PublishedIsFannedOut ==
  \A e \in Event :
    (\E i \in DOMAIN published : published[i] = e) ~>
      (stopping \/ \E i \in 1 .. fanned : published[i] = e)

=============================================================================
