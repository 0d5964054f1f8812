------------------------- MODULE EventStreamProofs -------------------------
(***************************************************************************)
(* For any number of callers, clients and events, and any capacity of the  *)
(* channels, the event stream implements LossyStream, loses no event       *)
(* without a trace, and leaves no client behind without a cause.           *)
(*                                                                         *)
(* The argument: who emits has been told of a commit (Told); every event   *)
(* emitted has a place in published or was dropped (Logged); the places a  *)
(* client has been sent, will be sent and has missed divide the events     *)
(* fanned out since it subscribed, in increasing order (Divided); and what *)
(* was fanned out before it subscribed, or sent to it, was committed when  *)
(* it last fetched (Shown).                                                *)
(***************************************************************************)
EXTENDS EventStream, TLAPS

Told ==
  \A c \in Caller :
    /\ emitted[c] <= Emits[c]
    /\ answer[c] = "ok" => effect[c] = "committed"
    /\ answer[c] = "rejected" => effect[c] = "rejected"
    /\ emitted[c] # 0 => answer[c] = "ok"

Logged ==
  /\ \A i \in 1 .. Len(published) : published[i][2] <= emitted[published[i][1]]
  /\ \A c \in Caller : \A n \in 1 .. emitted[c] :
       \/ <<c, n>> \in dropped
       \/ \E i \in 1 .. Len(published) : published[i] = <<c, n>>

DividedFor(k) ==
  /\ joined[k] <= fanned
  /\ got[k] \cup Places(k) \cup missed[k] =
       IF Registered(k) THEN (joined[k] + 1) .. fanned ELSE {}
  /\ \A i, j \in 1 .. Len(buf[k]) : i < j => buf[k][i] < buf[k][j]
  /\ \A g \in got[k] : \A i \in 1 .. Len(buf[k]) : g < buf[k][i]
  /\ missed[k] \cap (got[k] \cup Places(k)) = {}

Divided == \A k \in Client : DividedFor(k)

Shown ==
  \A k \in Client : conn[k] = "streaming" /\ ~stale[k] =>
    \A i \in 1 .. Len(published) :
      i <= joined[k] \/ i \in got[k] => published[i][1] \in seen[k]

StreamInv == TypeOK /\ Told /\ Logged /\ Divided /\ Shown

-----------------------------------------------------------------------------

LEMMA EmptyFacts == \A S : <<>> \in Seq(S) /\ Len(<<>>) = 0
OBVIOUS

LEMMA AppendFacts ==
  ASSUME NEW S, NEW s \in Seq(S), NEW e \in S
  PROVE  /\ Append(s, e) \in Seq(S)
         /\ Len(s) \in Nat /\ Len(Append(s, e)) = Len(s) + 1
         /\ \A i \in 1 .. Len(s) : Append(s, e)[i] = s[i]
         /\ Append(s, e)[Len(s) + 1] = e
OBVIOUS

LEMMA TailFacts ==
  ASSUME NEW S, NEW s \in Seq(S), s # <<>>
  PROVE  /\ Tail(s) \in Seq(S) /\ Head(s) \in S /\ Head(s) = s[1]
         /\ Len(s) \in Nat \ {0} /\ Len(Tail(s)) = Len(s) - 1
         /\ \A i \in 1 .. Len(s) - 1 : Tail(s)[i] = s[i + 1]
OBVIOUS

LEMMA StreamInvInit == Init => StreamInv
<1> SUFFICES ASSUME Init PROVE StreamInv
  OBVIOUS
<1>1. /\ effect \in [Caller -> {"pending", "committed", "rejected"}]
      /\ answer \in [Caller -> {"none", "ok", "rejected", "unknown"}]
      /\ open \in BOOLEAN /\ stopping \in BOOLEAN /\ broker = "running"
      /\ emitted \in [Caller -> Nat]
      /\ \A c \in Caller : answer[c] = "none" /\ emitted[c] = 0
      /\ published = <<>> /\ dropped = {} /\ taken = 0 /\ fanned = 0
  BY DEF Init, Atomic!Init
<1>2. /\ conn \in [Client -> {"none", "subscribed", "streaming"}]
      /\ joined \in [Client -> Nat]
      /\ got \in [Client -> SUBSET Nat] /\ missed \in [Client -> SUBSET Nat]
      /\ seen \in [Client -> SUBSET Caller] /\ stale \in [Client -> BOOLEAN]
      /\ \A k \in Client : /\ conn[k] = "none" /\ joined[k] = 0 /\ buf[k] = <<>>
                           /\ got[k] = {} /\ missed[k] = {}
  BY DEF Init
<1>3. published \in Seq(Event) /\ Len(published) = 0
  BY <1>1, EmptyFacts
<1>4. buf \in [Client -> Seq(Nat)] /\ \A k \in Client : Len(buf[k]) = 0
  BY EmptyFacts DEF Init
<1>5. InputBuf \in Nat /\ SubBuf \in Nat /\ \A c \in Caller : Emits[c] \in Nat
  BY EventStreamConstants
<1>6. TypeOK
  BY <1>1, <1>2, <1>3, <1>4, <1>5 DEF TypeOK
<1>7. Told
  <2>1. ASSUME NEW c \in Caller PROVE emitted[c] <= Emits[c]
    <3>1. emitted[c] = 0 /\ Emits[c] \in Nat
      BY <1>1, <1>5
    <3>2. QED BY <3>1
  <2>2. QED BY <1>1, <2>1 DEF Told
<1>8. Logged
  BY <1>1, <1>3 DEF Logged
<1>9. Divided
  BY <1>1, <1>2, <1>4 DEF Divided, DividedFor, Places, Registered
<1>10. Shown
  BY <1>2 DEF Shown
<1>11. QED BY <1>6, <1>7, <1>8, <1>9, <1>10 DEF StreamInv

\* The places of a client change with its channel, its connection and what it
\* has been sent only.
LEMMA DividedFrame ==
  ASSUME NEW k \in Client, DividedFor(k),
         buf'[k] = buf[k], got'[k] = got[k], missed'[k] = missed[k],
         joined'[k] = joined[k], conn'[k] = conn[k], fanned' = fanned
  PROVE  DividedFor(k)'
BY DEF DividedFor, Places, Registered

\* The store moves, the stream does not.
LEMMA WriteKeeps ==
  ASSUME StreamInv, NEW c \in Caller,
         Commit(c) \/ Reject(c) \/ Refuse(c) \/ Answer(c)
  PROVE  StreamInv'
<1> USE DEF StreamInv
<1> DEFINE Stored == /\ effect \in [Caller -> {"pending", "committed", "rejected"}]
                     /\ answer \in [Caller -> {"none", "ok", "rejected", "unknown"}]
                     /\ open \in BOOLEAN
<1>0. Stored
  BY DEF TypeOK
<1>1. UNCHANGED streamVars /\ Stored'
  BY <1>0 DEF Commit, Reject, Refuse, Answer,
              Atomic!Commit, Atomic!Reject, Atomic!Refuse, Atomic!Answer
<1>2. TypeOK'
  BY <1>1 DEF TypeOK, streamVars, emitVars, brokerVars, subVars, viewVars
<1>3. Told'
  BY <1>1 DEF TypeOK, Told, Commit, Reject, Refuse, Answer, streamVars, emitVars,
              Atomic!Commit, Atomic!Reject, Atomic!Refuse, Atomic!Answer
<1>4. Logged' /\ Shown'
  BY <1>1 DEF Logged, Shown, streamVars, emitVars, brokerVars, subVars, viewVars
<1>5. Divided'
  BY <1>1, DividedFrame DEF Divided, streamVars, brokerVars, subVars
<1>6. QED BY <1>2, <1>3, <1>4, <1>5

LEMMA EmitKeeps ==
  ASSUME StreamInv, NEW c \in Caller, Emit(c)
  PROVE  StreamInv'
<1> DEFINE event == <<c, emitted[c] + 1>>
<1> USE DEF StreamInv
<1>1. /\ UNCHANGED <<storeVars, brokerVars, stopping, subVars, viewVars>>
      /\ answer[c] = "ok" /\ emitted[c] < Emits[c]
      /\ emitted' = [emitted EXCEPT ![c] = @ + 1]
  BY DEF Emit, HasEvent
<1>2. event \in Event
  <2>0. emitted[c] \in Nat /\ Emits[c] \in Nat
    BY EventStreamConstants DEF TypeOK
  <2>1. emitted[c] + 1 \in 1 .. Emits[c]
    BY <1>1, <2>0
  <2>2. event \in EventOf(c)
    BY <2>1 DEF EventOf
  <2>3. QED BY <2>2 DEF Event
<1>3. emitted' \in [Caller -> Nat]
  BY <1>1 DEF TypeOK
<1>4. Told'
  <2>1. /\ emitted \in [Caller -> Nat] /\ \A d \in Caller : Emits[d] \in Nat
        /\ effect' = effect /\ answer' = answer
    BY <1>1, EventStreamConstants DEF TypeOK, storeVars
  <2>2. QED BY <1>1, <2>1 DEF Told
<1>5. \/ /\ Len(published) - taken < InputBuf
         /\ published' = Append(published, event) /\ dropped' = dropped
      \/ published' = published /\ dropped' = dropped \cup {event}
  BY DEF Emit
<1> HIDE DEF event
<1>6. /\ published' \in Seq(Event) /\ dropped' \in SUBSET Event
      /\ Len(published') - taken <= InputBuf
      /\ Len(published') \in Nat /\ Len(published) <= Len(published')
      /\ \A i \in 1 .. Len(published) : published'[i] = published[i]
      /\ \A i \in 1 .. Len(published') : i > Len(published) => published'[i] = event
      /\ event \in dropped' \/ \E i \in 1 .. Len(published') : published'[i] = event
  <2>1. /\ published \in Seq(Event) /\ dropped \in SUBSET Event
        /\ Len(published) - taken <= InputBuf /\ taken \in Nat /\ InputBuf \in Nat
    BY EventStreamConstants DEF TypeOK
  <2>2. CASE published' = Append(published, event) /\ dropped' = dropped
                /\ Len(published) - taken < InputBuf
    <3>1. /\ published' \in Seq(Event)
          /\ Len(published) \in Nat /\ Len(published') = Len(published) + 1
          /\ \A i \in 1 .. Len(published) : published'[i] = published[i]
          /\ published'[Len(published) + 1] = event
      BY <1>2, <2>1, <2>2, AppendFacts
    <3>2. QED BY <2>1, <2>2, <3>1
  <2>3. CASE published' = published /\ dropped' = dropped \cup {event}
    BY <1>2, <2>1, <2>3
  <2>4. QED BY <1>5, <2>2, <2>3
<1>7. TypeOK'
  BY <1>1, <1>3, <1>6 DEF TypeOK, storeVars, brokerVars, subVars, viewVars
<1>8. Logged'
  <2>1. ASSUME NEW i \in 1 .. Len(published')
        PROVE  published'[i][2] <= emitted'[published'[i][1]]
    <3>1. CASE i <= Len(published)
      <4>1. published[i] \in Event
        BY <3>1 DEF TypeOK
      <4>2. published[i][1] \in Caller /\ published[i][2] \in Nat
        BY <4>1 DEF Event, EventOf
      <4>3. published'[i] = published[i]
        BY <1>6, <3>1
      <4>4. published[i][2] <= emitted[published[i][1]]
        BY <3>1 DEF Logged
      <4>5. emitted'[published[i][1]] >= emitted[published[i][1]]
        BY <1>1, <4>2 DEF TypeOK
      <4>6. emitted[published[i][1]] \in Nat /\ emitted'[published[i][1]] \in Nat
        BY <1>3, <4>2 DEF TypeOK
      <4>7. QED BY <4>2, <4>3, <4>4, <4>5, <4>6
    <3>2. CASE i > Len(published)
      <4>1. published'[i] = event
        BY <1>6, <3>2
      <4>2. QED BY <1>1, <1>3, <4>1 DEF event, TypeOK
    <3>3. QED BY <3>1, <3>2, <1>6 DEF TypeOK
  <2>2. ASSUME NEW d \in Caller, NEW n \in 1 .. emitted'[d]
        PROVE  \/ <<d, n>> \in dropped'
               \/ \E i \in 1 .. Len(published') : published'[i] = <<d, n>>
    <3>1. CASE n \in 1 .. emitted[d]
      <4>1. <<d, n>> \in dropped \/ \E i \in 1 .. Len(published) : published[i] = <<d, n>>
        BY <3>1 DEF Logged
      <4>2. CASE <<d, n>> \in dropped
        BY <1>5, <4>2
      <4>3. ASSUME NEW i \in 1 .. Len(published), published[i] = <<d, n>>
            PROVE  \E j \in 1 .. Len(published') : published'[j] = <<d, n>>
        <5>1. i \in 1 .. Len(published') /\ published'[i] = <<d, n>>
          BY <1>6, <4>3 DEF TypeOK
        <5>2. QED BY <5>1
      <4>4. QED BY <4>1, <4>2, <4>3
    <3>2. CASE n \notin 1 .. emitted[d]
      <4>1. d = c /\ n = emitted[c] + 1
        BY <1>1, <3>2 DEF TypeOK
      <4>2. QED BY <1>6, <4>1 DEF event
    <3>3. QED BY <3>1, <3>2
  <2>3. QED BY <2>1, <2>2 DEF Logged
<1>9. Divided'
  BY <1>1, DividedFrame DEF Divided, subVars, brokerVars
<1>10. Shown'
  <2>1. ASSUME NEW k \in Client, conn'[k] = "streaming", ~stale'[k],
               NEW i \in 1 .. Len(published'), i <= joined'[k] \/ i \in got'[k]
        PROVE  published'[i][1] \in seen'[k]
    <3>1. joined[k] <= Len(published) /\ \A g \in got[k] : g <= Len(published)
      BY DEF TypeOK, Divided, DividedFor
    <3>2. i \in 1 .. Len(published)
      BY <1>1, <1>6, <2>1, <3>1 DEF TypeOK, subVars
    <3>3. QED BY <1>1, <1>6, <2>1, <3>2 DEF Shown, subVars, viewVars
  <2>2. QED BY <2>1 DEF Shown
<1>11. QED BY <1>4, <1>7, <1>8, <1>9, <1>10

LEMMA TakeKeeps == StreamInv /\ (Take \/ BrokerStop \/ Stop) => StreamInv'
<1> SUFFICES ASSUME StreamInv, Take \/ BrokerStop \/ Stop PROVE StreamInv'
  OBVIOUS
<1> USE DEF StreamInv
<1>1. /\ UNCHANGED <<storeVars, emitVars, fanned, subVars, viewVars>>
      /\ broker' \in {"running", "stopped"} /\ stopping' \in BOOLEAN
      /\ \/ taken' = taken
         \/ taken = fanned /\ taken < Len(published) /\ taken' = taken + 1
  BY DEF TypeOK, Take, BrokerStop, Stop, brokerVars
<1>2. TypeOK'
  <2>1. taken \in Nat /\ fanned \in Nat /\ Len(published) \in Nat /\ InputBuf \in Nat
    BY EventStreamConstants DEF TypeOK
  <2>2. /\ taken' \in Nat /\ fanned <= taken' /\ taken' <= fanned + 1
        /\ taken' <= Len(published) /\ Len(published) - taken' <= InputBuf
    BY <1>1, <2>1 DEF TypeOK
  <2>3. QED BY <1>1, <2>2 DEF TypeOK, storeVars, emitVars, subVars, viewVars
<1>3. Told' /\ Logged' /\ Shown'
  BY <1>1 DEF Told, Logged, Shown, storeVars, emitVars, subVars, viewVars
<1>4. Divided'
  BY <1>1, DividedFrame DEF Divided, subVars
<1>5. QED BY <1>2, <1>3, <1>4

LEMMA FanOutKeeps == StreamInv /\ FanOut => StreamInv'
<1> SUFFICES ASSUME StreamInv, FanOut PROVE StreamInv'
  OBVIOUS
<1> USE DEF StreamInv
<1>1. /\ UNCHANGED <<storeVars, emitVars, taken, broker, stopping, conn, joined, got, viewVars>>
      /\ fanned < taken /\ fanned' = fanned + 1
  BY DEF FanOut
<1>2. /\ fanned \in Nat /\ taken \in Nat /\ Len(published) \in Nat /\ SubBuf \in Nat
      /\ taken <= Len(published) /\ taken <= fanned + 1
  BY EventStreamConstants DEF TypeOK
<1>3. ASSUME NEW k \in Client
      PROVE  /\ buf[k] \in Seq(Nat) /\ Len(buf[k]) \in Nat /\ Len(buf[k]) <= SubBuf
             /\ got[k] \in SUBSET Nat /\ missed[k] \in SUBSET Nat /\ joined[k] \in Nat
  BY DEF TypeOK
<1>4. ASSUME NEW k \in Client
      PROVE  \/ /\ Registered(k) /\ HasRoom(k)
                /\ buf'[k] = Append(buf[k], fanned + 1) /\ missed'[k] = missed[k]
             \/ /\ Registered(k) /\ ~HasRoom(k)
                /\ buf'[k] = buf[k] /\ missed'[k] = missed[k] \cup {fanned + 1}
             \/ /\ ~Registered(k) /\ buf'[k] = buf[k] /\ missed'[k] = missed[k]
  BY DEF FanOut
<1>5. ASSUME NEW k \in Client
      PROVE  /\ buf'[k] \in Seq(Nat) /\ Len(buf'[k]) <= SubBuf
             /\ missed'[k] \in SUBSET Nat
  <2>1. Len(Append(buf[k], fanned + 1)) = Len(buf[k]) + 1
        /\ Append(buf[k], fanned + 1) \in Seq(Nat)
    BY <1>2, <1>3, AppendFacts
  <2>2. CASE HasRoom(k) /\ buf'[k] = Append(buf[k], fanned + 1) /\ missed'[k] = missed[k]
    <3>1. Len(buf[k]) < SubBuf
      BY <2>2 DEF HasRoom
    <3>2. QED BY <1>2, <1>3, <2>1, <2>2, <3>1
  <2>3. CASE buf'[k] = buf[k] /\ missed'[k] = missed[k] \cup {fanned + 1}
    BY <1>2, <1>3, <2>3
  <2>4. CASE buf'[k] = buf[k] /\ missed'[k] = missed[k]
    BY <1>3, <2>4
  <2>5. QED BY <1>4, <2>2, <2>3, <2>4
<1>6. TypeOK'
  <2>1. buf' \in [Client -> Seq(Nat)] /\ missed' \in [Client -> SUBSET Nat]
    <3>1. /\ buf' = [k \in Client |-> buf'[k]] /\ missed' = [k \in Client |-> missed'[k]]
      BY DEF FanOut
    <3>2. QED BY <1>5, <3>1
  <2>2. fanned' \in Nat /\ fanned' <= taken /\ taken <= fanned' + 1
    BY <1>1, <1>2
  <2>3. QED BY <1>1, <1>5, <2>1, <2>2 DEF TypeOK, storeVars, emitVars, viewVars
<1>7. Told' /\ Logged' /\ Shown'
  BY <1>1 DEF Told, Logged, Shown, storeVars, emitVars, viewVars
<1>8. ASSUME NEW k \in Client PROVE DividedFor(k)'
  <2> DEFINE b == buf[k]
             n == fanned + 1
  <2>0. /\ DividedFor(k) /\ joined'[k] = joined[k] /\ got'[k] = got[k]
        /\ fanned' = n /\ (Registered(k)' <=> Registered(k))
    BY <1>1 DEF Divided, Registered
  <2>1. CASE ~Registered(k)
    <3>1. buf'[k] = buf[k] /\ missed'[k] = missed[k]
      BY <1>4, <2>1
    <3>2. joined[k] <= n
      BY <1>2, <1>3, <2>0 DEF DividedFor
    <3>3. QED BY <2>0, <2>1, <3>1, <3>2 DEF DividedFor, Places
  <2>2. CASE Registered(k)
    <3>1. /\ joined[k] <= fanned
          /\ got[k] \cup Places(k) \cup missed[k] = (joined[k] + 1) .. fanned
          /\ \A i, j \in 1 .. Len(b) : i < j => b[i] < b[j]
          /\ \A g \in got[k] : \A i \in 1 .. Len(b) : g < b[i]
          /\ missed[k] \cap (got[k] \cup Places(k)) = {}
      BY <2>0, <2>2 DEF DividedFor
    <3>2. \A p \in got[k] \cup Places(k) \cup missed[k] : p \in Nat /\ p < n
      BY <1>2, <1>3, <3>1
    <3>3. (joined[k] + 1) .. n = ((joined[k] + 1) .. fanned) \cup {n}
      BY <1>2, <1>3, <3>1
    <3>4. CASE buf'[k] = Append(b, n) /\ missed'[k] = missed[k]
      <4> DEFINE q == Append(b, n)
      <4>1. /\ Len(b) \in Nat /\ Len(q) = Len(b) + 1
            /\ \A i \in 1 .. Len(b) : q[i] = b[i]
            /\ q[Len(b) + 1] = n
        BY <1>2, <1>3, AppendFacts
      <4> HIDE DEF q
      <4>2. Places(k)' = Places(k) \cup {n}
        <5>1. Places(k)' = {q[i] : i \in 1 .. Len(b) + 1}
          BY <3>4, <4>1 DEF Places, q
        <5>2. 1 .. Len(b) + 1 = (1 .. Len(b)) \cup {Len(b) + 1}
          BY <4>1
        <5>3. Places(k) = {q[i] : i \in 1 .. Len(b)}
          BY <4>1 DEF Places
        <5>4. QED BY <4>1, <5>1, <5>2, <5>3
      <4>3. \A i \in 1 .. Len(b) : b[i] \in Places(k)
        BY DEF Places
      <4>4. \A i, j \in 1 .. Len(q) : i < j => q[i] < q[j]
        <5>1. ASSUME NEW i \in 1 .. Len(q), NEW j \in 1 .. Len(q), i < j
              PROVE  q[i] < q[j]
          <6>1. i \in 1 .. Len(b) /\ q[i] = b[i] /\ b[i] < n
            BY <3>2, <4>1, <4>3, <5>1
          <6>2. CASE j = Len(b) + 1
            BY <4>1, <6>1, <6>2
          <6>3. CASE j \in 1 .. Len(b)
            BY <3>1, <4>1, <5>1, <6>1, <6>3
          <6>4. QED BY <4>1, <6>2, <6>3
        <5>2. QED BY <5>1
      <4>5. \A g \in got[k] : \A i \in 1 .. Len(q) : g < q[i]
        <5>1. ASSUME NEW g \in got[k], NEW i \in 1 .. Len(q) PROVE g < q[i]
          <6>1. g < n
            BY <3>2
          <6>2. CASE i = Len(b) + 1
            BY <4>1, <6>1, <6>2
          <6>3. CASE i \in 1 .. Len(b)
            BY <3>1, <4>1, <6>3
          <6>4. QED BY <4>1, <6>2, <6>3
        <5>2. QED BY <5>1
      <4>6. n \notin missed[k]
        BY <1>2, <3>2
      <4>7. got'[k] \cup Places(k)' \cup missed'[k] = (joined'[k] + 1) .. fanned'
        BY <2>0, <3>1, <3>3, <3>4, <4>2
      <4>8. missed'[k] \cap (got'[k] \cup Places(k)') = {}
        BY <2>0, <3>1, <3>4, <4>2, <4>6
      <4>9. joined'[k] <= fanned'
        BY <1>2, <1>3, <2>0, <3>1
      <4>10. buf'[k] = q
        BY <3>4 DEF q
      <4>11. QED BY <2>0, <2>2, <4>4, <4>5, <4>7, <4>8, <4>9, <4>10 DEF DividedFor
    <3>5. CASE buf'[k] = b /\ missed'[k] = missed[k] \cup {n}
      <4>1. Places(k)' = Places(k)
        BY <3>5 DEF Places
      <4>2. n \notin got[k] \cup Places(k)
        BY <1>2, <3>2
      <4>3. got'[k] \cup Places(k)' \cup missed'[k] = (joined'[k] + 1) .. fanned'
        BY <2>0, <3>1, <3>3, <3>5, <4>1
      <4>4. missed'[k] \cap (got'[k] \cup Places(k)') = {}
        BY <2>0, <3>1, <3>5, <4>1, <4>2
      <4>5. joined'[k] <= fanned'
        BY <1>2, <1>3, <2>0, <3>1
      <4>6. QED BY <2>0, <2>2, <3>1, <3>5, <4>3, <4>4, <4>5 DEF DividedFor
    <3>6. QED BY <1>4, <2>2, <3>4, <3>5
  <2>3. QED BY <2>1, <2>2
<1>9. QED BY <1>6, <1>7, <1>8 DEF Divided

\* Who has emitted has been told of the commit.
LEMMA AnnouncedIsCommitted ==
  ASSUME StreamInv
  PROVE  \A i \in 1 .. Len(published) :
           published[i] \in Event /\ published[i][1] \in Committed
<1> SUFFICES ASSUME NEW i \in 1 .. Len(published)
             PROVE  published[i] \in Event /\ published[i][1] \in Committed
  OBVIOUS
<1> USE DEF StreamInv
<1>1. published[i] \in Event
  BY DEF TypeOK
<1>2. PICK c \in Caller : published[i] \in EventOf(c)
  BY <1>1 DEF Event
<1>3. published[i][1] = c /\ published[i][2] \in 1 .. Emits[c]
  BY <1>2 DEF EventOf
<1>4. published[i][2] <= emitted[c] /\ emitted[c] \in Nat
  BY <1>3 DEF Logged, TypeOK
<1>5. emitted[c] # 0
  BY <1>3, <1>4, EventStreamConstants
<1>6. QED BY <1>1, <1>3, <1>5 DEF Told, Committed

LEMMA ClientKeeps ==
  ASSUME StreamInv, NEW k \in Client, ClientStep(k)
  PROVE  StreamInv'
<1> USE DEF StreamInv
<1>0. UNCHANGED <<storeVars, emitVars, brokerVars, stopping>>
  BY DEF ClientStep, Subscribe, Flush, Deliver, Fetch, Unsubscribe
<1>1. Told' /\ Logged'
  BY <1>0 DEF Told, Logged, storeVars, emitVars
<1> DEFINE SubOK == /\ conn \in [Client -> {"none", "subscribed", "streaming"}]
                    /\ joined \in [Client -> Nat]
                    /\ buf \in [Client -> Seq(Nat)] /\ \A m \in Client : Len(buf[m]) <= SubBuf
                    /\ got \in [Client -> SUBSET Nat] /\ missed \in [Client -> SUBSET Nat]
                    /\ seen \in [Client -> SUBSET Caller] /\ stale \in [Client -> BOOLEAN]
<1>2. SubOK /\ fanned \in Nat /\ Len(published) \in Nat /\ fanned <= Len(published)
  <2>1. taken \in Nat /\ fanned \in Nat /\ Len(published) \in Nat
    BY DEF TypeOK
  <2>2. QED BY <2>1 DEF TypeOK
<1>3. ASSUME SubOK' PROVE TypeOK'
  BY <1>0, <1>3 DEF TypeOK, storeVars, emitVars, brokerVars
<1>4. /\ \A i \in 1 .. Len(published) : published[i][1] \in Committed
      /\ \A m \in Client : DividedFor(m)
      /\ fanned' = fanned /\ published' = published
  BY <1>0, AnnouncedIsCommitted DEF Divided, brokerVars, emitVars
<1>5. CASE Subscribe(k)
  <2>1. /\ conn[k] = "none" /\ conn' = [conn EXCEPT ![k] = "subscribed"]
        /\ joined' = [joined EXCEPT ![k] = fanned]
        /\ UNCHANGED <<buf, got, missed, seen, stale>>
    BY <1>5 DEF Subscribe, viewVars
  <2>2. SubOK'
    BY <1>2, <2>1
  <2>3. Shown'
    BY <1>2, <1>4, <2>1 DEF Shown
  <2>4. ASSUME NEW m \in Client PROVE DividedFor(m)'
    <3>1. CASE m # k
      BY <1>2, <1>4, <2>1, <3>1, DividedFrame
    <3>2. CASE m = k
      <4>1. got[k] \cup Places(k) \cup missed[k] = {}
        BY <1>4, <2>1 DEF DividedFor, Registered
      <4>2. (fanned + 1) .. fanned = {}
        BY <1>2
      <4>3. joined'[k] = fanned /\ conn'[k] = "subscribed"
        BY <1>2, <2>1
      <4>4. joined'[k] <= fanned'
        BY <1>2, <1>4, <4>3
      <4>5. QED BY <1>4, <2>1, <3>2, <4>1, <4>2, <4>3, <4>4 DEF DividedFor, Places, Registered
    <3>3. QED BY <3>1, <3>2
  <2>5. QED BY <1>1, <1>3, <2>2, <2>3, <2>4 DEF Divided
<1>6. CASE Flush(k)
  <2>1. /\ conn[k] = "subscribed" /\ conn' = [conn EXCEPT ![k] = "streaming"]
        /\ stale' = [stale EXCEPT ![k] = TRUE]
        /\ UNCHANGED <<joined, buf, got, missed, seen>>
    BY <1>6 DEF Flush
  <2>2. SubOK'
    BY <1>2, <2>1
  <2>3. Shown'
    BY <1>2, <1>4, <2>1 DEF Shown
  <2>4. Divided'
    BY <1>2, <1>4, <2>1 DEF Divided, DividedFor, Places, Registered
  <2>5. QED BY <1>1, <1>3, <2>2, <2>3, <2>4
<1>7. CASE Deliver(k)
  <2> DEFINE b == buf[k]
  <2>1. /\ conn[k] = "streaming" /\ b # <<>>
        /\ got' = [got EXCEPT ![k] = @ \cup {Head(b)}]
        /\ buf' = [buf EXCEPT ![k] = Tail(b)]
        /\ stale' = [stale EXCEPT ![k] = TRUE]
        /\ UNCHANGED <<conn, joined, missed, seen>>
    BY <1>7 DEF Deliver
  <2>2. b \in Seq(Nat)
    BY <1>2
  <2>3. /\ Tail(b) \in Seq(Nat) /\ Head(b) \in Nat /\ Head(b) = b[1]
        /\ Len(b) \in Nat \ {0} /\ Len(Tail(b)) = Len(b) - 1
        /\ \A i \in 1 .. Len(b) - 1 : Tail(b)[i] = b[i + 1]
    BY <2>1, <2>2, TailFacts
  <2> DEFINE t == Tail(b)
             h == Head(b)
  <2> HIDE DEF t, h
  <2>4. /\ got'[k] = got[k] \cup {h} /\ buf'[k] = t /\ missed'[k] = missed[k]
        /\ joined'[k] = joined[k] /\ (Registered(k)' <=> Registered(k))
    BY <1>2, <2>1 DEF t, h, Registered
  <2>5. SubOK'
    <3>1. Len(t) <= SubBuf
      BY <1>2, <2>3, EventStreamConstants DEF t
    <3>2. /\ buf' \in [Client -> Seq(Nat)] /\ \A m \in Client : Len(buf'[m]) <= SubBuf
      BY <1>2, <2>1, <2>3, <3>1 DEF t
    <3>3. got' \in [Client -> SUBSET Nat]
      BY <1>2, <2>1, <2>3
    <3>4. QED BY <1>2, <2>1, <3>2, <3>3
  <2>6. Shown'
    BY <1>2, <1>4, <2>1 DEF Shown
  <2>7. DividedFor(k)'
    <3>1. /\ joined[k] <= fanned
          /\ got[k] \cup Places(k) \cup missed[k] =
               IF Registered(k) THEN (joined[k] + 1) .. fanned ELSE {}
          /\ \A i, j \in 1 .. Len(b) : i < j => b[i] < b[j]
          /\ \A g \in got[k] : \A i \in 1 .. Len(b) : g < b[i]
          /\ missed[k] \cap (got[k] \cup Places(k)) = {}
      BY <1>4 DEF DividedFor
    <3>2. /\ Len(t) \in Nat /\ Len(b) = Len(t) + 1 /\ h = b[1]
          /\ \A i \in 1 .. Len(t) : i + 1 \in 1 .. Len(b) /\ t[i] = b[i + 1]
      BY <2>3 DEF t, h
    <3>3. Places(k) = {h} \cup Places(k)'
      <4>1. Places(k)' = {t[i] : i \in 1 .. Len(t)}
        BY <2>4 DEF Places
      <4>2. ASSUME NEW i \in 1 .. Len(b) PROVE b[i] = h \/ b[i] \in Places(k)'
        <5>1. CASE i = 1
          BY <3>2, <5>1
        <5>2. CASE i # 1
          <6>1. i - 1 \in 1 .. Len(t) /\ t[i - 1] = b[i]
            BY <3>2, <5>2
          <6>2. QED BY <4>1, <6>1
        <5>3. QED BY <5>1, <5>2
      <4>3. h \in Places(k)
        BY <3>2 DEF Places
      <4>4. Places(k)' \subseteq Places(k)
        BY <3>2, <4>1 DEF Places
      <4>5. QED BY <4>2, <4>3, <4>4 DEF Places
    <3>4. \A i, j \in 1 .. Len(t) : i < j => t[i] < t[j]
      BY <3>1, <3>2
    <3>5. \A g \in got'[k] : \A i \in 1 .. Len(t) : g < t[i]
      <4>1. ASSUME NEW g \in got'[k], NEW i \in 1 .. Len(t) PROVE g < t[i]
        <5>1. i + 1 \in 1 .. Len(b) /\ t[i] = b[i + 1] /\ 1 \in 1 .. Len(b) /\ 1 < i + 1
          BY <3>2
        <5>2. CASE g = h
          BY <3>1, <3>2, <5>1, <5>2
        <5>3. CASE g \in got[k]
          BY <3>1, <5>1, <5>3
        <5>4. QED BY <2>4, <5>2, <5>3
      <4>2. QED BY <4>1
    <3>6. got'[k] \cup Places(k)' = got[k] \cup Places(k)
      BY <2>4, <3>3
    <3>7. /\ got'[k] \cup Places(k)' \cup missed'[k] =
               IF Registered(k)' THEN (joined'[k] + 1) .. fanned' ELSE {}
          /\ missed'[k] \cap (got'[k] \cup Places(k)') = {}
          /\ joined'[k] <= fanned'
      BY <1>4, <2>4, <3>1, <3>6
    <3>8. QED BY <2>4, <3>4, <3>5, <3>7 DEF DividedFor
  <2>8. ASSUME NEW m \in Client PROVE DividedFor(m)'
    <3>1. CASE m # k
      BY <1>2, <1>4, <2>1, <3>1, DividedFrame
    <3>2. QED BY <2>7, <3>1
  <2>9. QED BY <1>1, <1>3, <2>5, <2>6, <2>8 DEF Divided
<1>8. CASE Fetch(k)
  <2>1. /\ seen' = [seen EXCEPT ![k] = Committed]
        /\ stale' = [stale EXCEPT ![k] = FALSE]
        /\ UNCHANGED <<conn, joined, buf, got, missed>>
    BY <1>8 DEF Fetch, subVars
  <2>2. SubOK'
    <3>1. Committed \in SUBSET Caller
      BY DEF Committed
    <3>2. QED BY <1>2, <2>1, <3>1
  <2>3. Shown'
    BY <1>2, <1>4, <2>1 DEF Shown
  <2>4. Divided'
    BY <1>4, <2>1, DividedFrame DEF Divided
  <2>5. QED BY <1>1, <1>3, <2>2, <2>3, <2>4
<1>9. CASE Unsubscribe(k)
  <2>1. /\ conn' = [conn EXCEPT ![k] = "none"] /\ joined' = [joined EXCEPT ![k] = 0]
        /\ buf' = [buf EXCEPT ![k] = <<>>] /\ got' = [got EXCEPT ![k] = {}]
        /\ missed' = [missed EXCEPT ![k] = {}] /\ stale' = [stale EXCEPT ![k] = FALSE]
        /\ UNCHANGED seen
    BY <1>9 DEF Unsubscribe
  <2>2. SubOK'
    <3>1. <<>> \in Seq(Nat) /\ Len(<<>>) <= SubBuf
      BY EmptyFacts, EventStreamConstants
    <3>2. buf' \in [Client -> Seq(Nat)] /\ \A m \in Client : Len(buf'[m]) <= SubBuf
      BY <1>2, <2>1, <3>1
    <3>3. QED BY <1>2, <2>1, <3>2
  <2>3. Shown'
    BY <1>2, <1>4, <2>1 DEF Shown
  <2>4. ASSUME NEW m \in Client PROVE DividedFor(m)'
    <3>1. CASE m # k
      BY <1>2, <1>4, <2>1, <3>1, DividedFrame
    <3>2. CASE m = k
      <4>1. /\ buf'[k] = <<>> /\ got'[k] = {} /\ missed'[k] = {} /\ joined'[k] = 0
            /\ conn'[k] = "none" /\ Len(buf'[k]) = 0
        BY <1>2, <2>1, EmptyFacts
      <4>2. Places(k)' = {}
        BY <4>1 DEF Places
      <4>3. joined'[k] <= fanned'
        BY <1>2, <1>4, <4>1
      <4>4. QED BY <3>2, <4>1, <4>2, <4>3 DEF DividedFor, Registered
    <3>3. QED BY <3>1, <3>2
  <2>5. QED BY <1>1, <1>3, <2>2, <2>3, <2>4 DEF Divided
<1>10. QED BY <1>5, <1>6, <1>7, <1>8, <1>9 DEF ClientStep

LEMMA StreamInvStep == StreamInv /\ [Next]_vars => StreamInv'
<1> SUFFICES ASSUME StreamInv, [Next]_vars PROVE StreamInv'
  OBVIOUS
<1>1. CASE \E c \in Caller : CallerStep(c)
  BY <1>1, WriteKeeps, EmitKeeps DEF CallerStep
<1>2. CASE BrokerStep \/ Stop
  BY <1>2, TakeKeeps, FanOutKeeps DEF BrokerStep
<1>3. CASE \E k \in Client : ClientStep(k)
  BY <1>3, ClientKeeps
<1>4. CASE UNCHANGED streamVars /\ UNCHANGED <<effect, answer>> /\ open' \in BOOLEAN
  <2> USE DEF StreamInv, streamVars, emitVars, brokerVars, subVars, viewVars
  <2>1. TypeOK' /\ Told' /\ Logged' /\ Shown'
    BY <1>4 DEF TypeOK, Told, Logged, Shown
  <2>2. Divided'
    BY <1>4, DividedFrame DEF Divided
  <2>3. QED BY <2>1, <2>2
<1>5. CASE CloseStore \/ UNCHANGED vars
  BY <1>4, <1>5 DEF CloseStore, Atomic!Close, vars, storeVars, StreamInv, TypeOK
<1>6. QED BY <1>1, <1>2, <1>3, <1>5 DEF Next

THEOREM StreamInvariant == Spec => []StreamInv
BY StreamInvInit, StreamInvStep, PTL DEF Spec

\* The channels hold no more than they are made for, and run is never more
\* than one event ahead of what it has offered.
THEOREM StreamTypeCorrect == Spec => []TypeOK
<1>1. StreamInv => TypeOK
  BY DEF StreamInv
<1>2. QED BY <1>1, StreamInvariant, PTL

\* Sent, on its way, or missed for want of room: exactly one of the three, for
\* each event fanned out since a client subscribed.
THEOREM NoEventIsLostSilently == Spec => []NoEventLostSilently
<1>1. ASSUME StreamInv, NEW k \in Client, Registered(k)
      PROVE  /\ got[k] \cup Places(k) \cup missed[k] = (joined[k] + 1) .. fanned
             /\ got[k] \cap Places(k) = {}
             /\ missed[k] \cap (got[k] \cup Places(k)) = {}
  <2>1. DividedFor(k) /\ got[k] \in SUBSET Nat
    BY <1>1 DEF StreamInv, Divided, TypeOK
  <2>2. ASSUME NEW g \in got[k], NEW i \in 1 .. Len(buf[k]), g = buf[k][i] PROVE FALSE
    BY <2>1, <2>2 DEF DividedFor
  <2>3. got[k] \cap Places(k) = {}
    BY <2>2 DEF Places
  <2>4. QED BY <1>1, <2>1, <2>3 DEF DividedFor
<1>2. StreamInv => NoEventLostSilently
  BY <1>1 DEF NoEventLostSilently
<1>3. QED BY <1>2, StreamInvariant, PTL

\* A connected client that has nothing to fetch shows every committed write,
\* but for those whose hint is on its way or was lost for a cause that is named.
THEOREM StaleViewIsAccounted == Spec => []StaleViewAccounted
<1>1. ASSUME StreamInv, NEW k \in Client, conn[k] = "streaming", ~stale[k],
             NEW c \in Committed \ seen[k], ~InFlight(c, k),
             answer[c] # "unknown", Emits[c] # 0, broker # "stopped"
      PROVE  EventOf(c) \subseteq dropped \cup {published[i] : i \in missed[k]}
  <2> USE <1>1 DEF StreamInv
  <2>1. c \in Caller /\ effect[c] = "committed"
    BY DEF Committed
  <2>2. answer[c] = "ok"
    BY <2>1 DEF InFlight, TypeOK, Told
  <2>3. emitted[c] = Emits[c]
    BY <2>1, <2>2, EventStreamConstants DEF InFlight, HasEvent, Told, TypeOK
  <2>4. broker = "running" /\ fanned \in Nat /\ joined[k] \in Nat /\ Len(published) \in Nat
    BY DEF TypeOK
  <2>5. ASSUME NEW n \in 1 .. Emits[c], NEW i \in 1 .. Len(published), published[i] = <<c, n>>
        PROVE  i \in missed[k]
    <3>0. published[i][1] = c
      BY <2>5
    <3>1. i <= fanned
      BY <2>4, <3>0 DEF InFlight
    <3>2. ~(i <= joined[k] \/ i \in got[k])
      BY <2>1, <3>0 DEF Shown
    <3>3. i \notin Places(k)
      BY <3>0 DEF InFlight
    <3>4. got[k] \cup Places(k) \cup missed[k] = (joined[k] + 1) .. fanned
      BY DEF Divided, DividedFor, Registered
    <3>5. QED BY <2>4, <3>1, <3>2, <3>3, <3>4
  <2>6. ASSUME NEW n \in 1 .. Emits[c]
        PROVE  <<c, n>> \in dropped \cup {published[i] : i \in missed[k]}
    BY <2>1, <2>3, <2>5 DEF Logged
  <2>7. QED BY <2>6 DEF EventOf
<1>2. StreamInv => StaleViewAccounted
  BY <1>1 DEF StaleViewAccounted, Unannounced
<1>3. QED BY <1>2, StreamInvariant, PTL

-----------------------------------------------------------------------------
(* Refinement: who runs a step of the stream runs one of LossyStream or    *)
(* none.                                                                   *)

LEMMA HintsInit == Init => Hints!Init
BY DEF Init, Atomic!Init, Hints!Init, Committed

\* The steps of the store: a commit is one, the others change no hint.
LEMMA WriteRefines ==
  ASSUME StreamInv, NEW c \in Caller,
         Commit(c) \/ Reject(c) \/ Refuse(c) \/ Answer(c)
  PROVE  Hints!Next \/ UNCHANGED Hints!vars
<1>1. UNCHANGED <<published, got>>
  BY DEF Commit, Reject, Refuse, Answer, streamVars, emitVars, subVars
<1>2. CASE effect[c] = "pending" /\ effect' = [effect EXCEPT ![c] = "committed"]
  <2>1. Committed' = Committed \cup {c}
    BY <1>2 DEF Committed, StreamInv, TypeOK
  <2>2. Hints!Commit(c)
    BY <1>1, <2>1 DEF Hints!Commit
  <2>3. QED BY <2>2 DEF Hints!Next
<1>3. CASE effect' = effect \/ (effect[c] = "pending" /\ effect' = [effect EXCEPT ![c] = "rejected"])
  <2>1. Committed' = Committed
    BY <1>3 DEF Committed, StreamInv, TypeOK
  <2>2. QED BY <1>1, <2>1 DEF Hints!vars
<1>4. QED
  BY <1>2, <1>3 DEF Commit, Reject, Refuse, Answer,
                    Atomic!Commit, Atomic!Reject, Atomic!Refuse, Atomic!Answer

LEMMA EmitRefines ==
  ASSUME StreamInv, NEW c \in Caller, Emit(c)
  PROVE  Hints!Next \/ UNCHANGED Hints!vars
<1> DEFINE event == <<c, emitted[c] + 1>>
<1>1. /\ UNCHANGED <<effect, got>> /\ answer[c] = "ok" /\ emitted[c] < Emits[c]
      /\ published' = published \/ published' = Append(published, event)
  BY DEF Emit, HasEvent, storeVars, subVars
<1>2. Committed' = Committed
  BY <1>1 DEF Committed
<1>3. c \in Committed
  BY <1>1 DEF StreamInv, Told, Committed
<1>4. emitted[c] \in Nat /\ Emits[c] \in Nat
  BY EventStreamConstants DEF StreamInv, TypeOK
<1>5. event \in Event
  <2>1. emitted[c] + 1 \in 1 .. Emits[c]
    BY <1>1, <1>4
  <2>2. QED BY <2>1 DEF EventOf, Event
<1>6. \A i \in DOMAIN published : published[i] # event
  <2>1. DOMAIN published = 1 .. Len(published)
    BY DEF StreamInv, TypeOK
  <2>2. ASSUME NEW i \in 1 .. Len(published), published[i] = event PROVE FALSE
    <3>1. published[i][2] <= emitted[published[i][1]]
      BY DEF StreamInv, Logged
    <3>2. QED BY <1>4, <2>2, <3>1
  <2>3. QED BY <2>1, <2>2
<1>7. CASE published' = Append(published, event)
  <2>1. Hints!Publish(c)
    BY <1>1, <1>2, <1>3, <1>5, <1>6, <1>7 DEF Hints!Publish
  <2>2. QED BY <2>1 DEF Hints!Next
<1>8. CASE published' = published
  BY <1>1, <1>2, <1>8 DEF Hints!vars
<1>9. QED BY <1>1, <1>7, <1>8

\* What is delivered is the least of what waits, and more than all that was
\* delivered before.
LEMMA ClientRefines ==
  ASSUME StreamInv, NEW k \in Client, ClientStep(k)
  PROVE  Hints!Next \/ UNCHANGED Hints!vars
<1>1. UNCHANGED <<effect, published>>
  BY DEF ClientStep, Subscribe, Flush, Deliver, Fetch, Unsubscribe, storeVars, emitVars
<1>2. Committed' = Committed
  BY <1>1 DEF Committed
<1>3. CASE Subscribe(k) \/ Flush(k) \/ Fetch(k)
  BY <1>1, <1>2, <1>3 DEF Subscribe, Flush, Fetch, subVars, Hints!vars
<1>4. CASE Unsubscribe(k)
  <2>1. Hints!Connect(k)
    BY <1>1, <1>2, <1>4 DEF Unsubscribe, Hints!Connect
  <2>2. QED BY <2>1 DEF Hints!Next
<1>5. CASE Deliver(k)
  <2> DEFINE i == Head(buf[k])
  <2>1. /\ conn[k] = "streaming" /\ buf[k] # <<>> /\ buf[k] \in Seq(Nat)
        /\ got' = [got EXCEPT ![k] = @ \cup {i}]
    BY <1>5 DEF Deliver, StreamInv, TypeOK
  <2>2. i = buf[k][1] /\ Len(buf[k]) \in Nat \ {0}
    BY <2>1, TailFacts
  <2>3. /\ DividedFor(k) /\ DOMAIN published = 1 .. Len(published)
        /\ joined[k] \in Nat /\ fanned \in Nat /\ taken \in Nat /\ Len(published) \in Nat
        /\ fanned <= taken /\ taken <= Len(published)
    BY DEF StreamInv, Divided, TypeOK
  <2>4. i \in Places(k)
    BY <2>2 DEF Places
  <2>5. Places(k) \subseteq (joined[k] + 1) .. fanned
    BY <2>1, <2>3 DEF DividedFor, Registered
  <2>6. i \in DOMAIN published
    BY <2>3, <2>4, <2>5
  <2>7. \A j \in got[k] : j < i
    BY <2>2, <2>3 DEF DividedFor
  <2>8. Hints!Deliver(k, i)
    BY <1>1, <1>2, <2>1, <2>6, <2>7 DEF Hints!Deliver
  <2>9. QED BY <2>6, <2>8 DEF Hints!Next
<1>6. QED BY <1>3, <1>4, <1>5 DEF ClientStep

\* Callers that emit after their writes returned, channels that drop, and
\* connections that come and go implement a stream of true hints, each at most
\* once and in one order.
THEOREM StreamImplementsHints == Spec => ImplementsLossyStream
<1>1. StreamInv /\ [Next]_vars => [Hints!Next]_(Hints!vars)
  <2> SUFFICES ASSUME StreamInv, [Next]_vars PROVE Hints!Next \/ UNCHANGED Hints!vars
    OBVIOUS
  <2>1. CASE \E c \in Caller : CallerStep(c)
    BY <2>1, WriteRefines, EmitRefines DEF CallerStep
  <2>2. CASE \E k \in Client : ClientStep(k)
    BY <2>2, ClientRefines
  <2>3. CASE UNCHANGED <<effect, published, got>>
    BY <2>3 DEF Hints!vars, Committed
  <2>4. CASE BrokerStep \/ Stop \/ CloseStore \/ UNCHANGED vars
    BY <2>3, <2>4 DEF BrokerStep, Take, FanOut, BrokerStop, Stop, CloseStore, Atomic!Close,
         vars, streamVars, storeVars, emitVars, subVars
  <2>5. QED BY <2>1, <2>2, <2>4 DEF Next
<1>2. QED BY <1>1, HintsInit, StreamInvariant, PTL DEF Spec, ImplementsLossyStream, Hints!Spec

-----------------------------------------------------------------------------
(* Behind the stream is the store.                                         *)

\* The store behind the stream takes the steps of the atomic writes that
\* WriteLoop implements, whatever emitters, the broker and clients do meanwhile.
THEOREM StreamStoreIsAtomic == Spec => Atomic!Spec
<1>1. Init => Atomic!Init
  BY DEF Init
<1>2. [Next]_vars => [Atomic!Next]_(Atomic!vars)
  <2> SUFFICES ASSUME [Next]_vars PROVE Atomic!Next \/ UNCHANGED Atomic!vars
    OBVIOUS
  <2>1. ASSUME NEW c \in Caller, CallerStep(c) PROVE Atomic!Next \/ UNCHANGED Atomic!vars
    BY <2>1 DEF CallerStep, Commit, Reject, Refuse, Answer, Emit, Atomic!Next, Atomic!vars, storeVars
  <2>2. CASE \E k \in Client : ClientStep(k)
    BY <2>2 DEF ClientStep, Subscribe, Flush, Deliver, Fetch, Unsubscribe, Atomic!vars, storeVars
  <2>3. CASE BrokerStep \/ Stop \/ UNCHANGED vars
    BY <2>3 DEF BrokerStep, Take, FanOut, BrokerStop, Stop, Atomic!vars, vars, storeVars
  <2>4. CASE CloseStore
    BY <2>4 DEF CloseStore, Atomic!Next
  <2>5. QED BY <2>1, <2>2, <2>3, <2>4 DEF Next
<1>3. QED BY <1>1, <1>2, PTL DEF Spec, Atomic!Spec

=============================================================================
