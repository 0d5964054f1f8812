--------------------------- MODULE WriteLoopProofs ---------------------------
(***************************************************************************)
(* For any number of callers and any capacity of writeCh, the write path   *)
(* of internal/store implements AtomicWrites.                              *)
(*                                                                         *)
(* The argument: an operation is in one place only, with its caller        *)
(* (pc = "send"), in the channel, with the loop, or settled, and while it  *)
(* is in the channel or with the loop its result channel is empty and its  *)
(* transaction has not been committed.  Placed says that; the rest of      *)
(* Settled ties what was returned to what was done.                        *)
(***************************************************************************)
EXTENDS WriteLoop, TLAPS

Buffered(c) == \E i \in 1..Len(writeCh) : writeCh[i] = c

Untouched(c) == res[c] = "empty" /\ commits[c] = 0

Distinct == \A i, j \in 1..Len(writeCh) : writeCh[i] = writeCh[j] => i = j

Placed ==
  /\ Distinct
  /\ \A c \in Caller : pc[c] = "send" => ~Buffered(c) /\ current # c /\ Untouched(c)
  /\ \A c \in Caller : Buffered(c) => current # c /\ Untouched(c)
  /\ loop = "exec" <=> current \in Caller
  /\ \A c \in Caller : current = c => Untouched(c)
  /\ ~dbOpen => loop = "exited"

Settled ==
  \A c \in Caller :
    /\ commits[c] = IF res[c] = "nil" THEN 1 ELSE 0
    /\ pc[c] = "done" <=> ret[c] # "none"
    /\ ret[c] \in {"nil", "error"} => res[c] = ret[c]
    /\ ret[c] = "ErrStoreClosing" =>
         \/ res[c] = "ErrStoreClosing"
         \/ Untouched(c) /\ ~Buffered(c) /\ current # c

WriteInv == TypeOK /\ Placed /\ Settled

-----------------------------------------------------------------------------

\* What a send and a receive do to the operations in the channel.
LEMMA AppendBuffered ==
  ASSUME NEW c \in Caller, TypeOK, Distinct, ~Buffered(c),
         writeCh' = Append(writeCh, c)
  PROVE  /\ Distinct'
         /\ \A d \in Caller : Buffered(d)' <=> Buffered(d) \/ d = c
<1>1. /\ writeCh \in Seq(Caller) /\ Len(writeCh') = Len(writeCh) + 1
      /\ \A i \in 1..Len(writeCh) : writeCh'[i] = writeCh[i]
      /\ writeCh'[Len(writeCh) + 1] = c
      /\ Len(writeCh) \in Nat
  BY DEF TypeOK
<1>2. QED BY <1>1 DEF Distinct, Buffered

LEMMA TailBuffered ==
  ASSUME TypeOK, Distinct, writeCh # <<>>, writeCh' = Tail(writeCh)
  PROVE  /\ Head(writeCh) \in Caller
         /\ Buffered(Head(writeCh))
         /\ Distinct'
         /\ \A d \in Caller : Buffered(d)' <=> Buffered(d) /\ d # Head(writeCh)
<1>1. /\ writeCh \in Seq(Caller) /\ Len(writeCh') = Len(writeCh) - 1
      /\ \A i \in 1..Len(writeCh') : writeCh'[i] = writeCh[i + 1]
      /\ Head(writeCh) = writeCh[1]
      /\ Len(writeCh) \in Nat \ {0}
  BY DEF TypeOK
<1>2. Head(writeCh) \in Caller
  BY <1>1
<1>3. Buffered(Head(writeCh))
  BY <1>1 DEF Buffered
<1>4. Distinct'
  BY <1>1 DEF Distinct
<1>5. ASSUME NEW d \in Caller
      PROVE  Buffered(d)' <=> Buffered(d) /\ d # Head(writeCh)
  <2>1. Buffered(d)' => Buffered(d) /\ d # Head(writeCh)
    BY <1>1 DEF Distinct, Buffered
  <2>2. ASSUME Buffered(d), d # Head(writeCh) PROVE Buffered(d)'
    <3>1. PICK i \in 1..Len(writeCh) : writeCh[i] = d
      BY <2>2 DEF Buffered
    <3>2. i - 1 \in 1..Len(writeCh') /\ writeCh'[i - 1] = d
      BY <1>1, <2>2, <3>1
    <3>3. QED BY <3>2 DEF Buffered
  <2>3. QED BY <2>1, <2>2
<1>6. QED BY <1>2, <1>3, <1>4, <1>5

-----------------------------------------------------------------------------

LEMMA WriteInvInit == Init => WriteInv
<1> SUFFICES ASSUME Init PROVE WriteInv
  OBVIOUS
<1>1. TypeOK
  <2>1. writeCh \in Seq(Caller) /\ Len(writeCh) <= Buffer
    BY WriteLoopConstants DEF Init
  <2>2. /\ pc \in [Caller -> {"send", "wait", "done"}]
        /\ ret \in [Caller -> {"none", "nil", "error", "ErrStoreClosing", "ctx.Err"}]
        /\ res \in [Caller -> {"empty", "nil", "error", "ErrStoreClosing"}]
        /\ commits \in [Caller -> Nat]
    BY DEF Init
  <2>3. QED BY <2>1, <2>2 DEF Init, TypeOK
<1>2. Placed
  BY WriteLoopConstants DEF Init, Placed, Distinct, Buffered, Untouched
<1>3. Settled
  BY DEF Init, Settled
<1>4. QED BY <1>1, <1>2, <1>3 DEF WriteInv

\* A caller that returns moves no operation.
LEMMA ReturnKeeps ==
  ASSUME WriteInv, NEW c \in Caller, NEW value \in {"nil", "error", "ErrStoreClosing", "ctx.Err"},
         Return(c, value),
         pc[c] # "done",
         value \in {"nil", "error"} => res[c] = value,
         value = "ErrStoreClosing" =>
           res[c] = "ErrStoreClosing" \/ (pc[c] = "send")
  PROVE  WriteInv'
<1> USE DEF WriteInv, Return, loopVars
<1>1. TypeOK'
  BY DEF TypeOK
<1>2. Placed'
  <2>1. UNCHANGED <<writeCh, res, commits, current, loop, dbOpen>>
    OBVIOUS
  <2>2. \A d \in Caller : pc'[d] = "send" => pc[d] = "send"
    BY DEF TypeOK
  <2>3. QED BY <2>1, <2>2 DEF Placed, Distinct, Buffered, Untouched
<1>3. Settled'
  <2>1. ASSUME NEW d \in Caller PROVE
          /\ commits'[d] = IF res'[d] = "nil" THEN 1 ELSE 0
          /\ pc'[d] = "done" <=> ret'[d] # "none"
          /\ ret'[d] \in {"nil", "error"} => res'[d] = ret'[d]
    BY DEF TypeOK, Settled
  <2>2. ASSUME NEW d \in Caller, ret'[d] = "ErrStoreClosing" PROVE
          \/ res'[d] = "ErrStoreClosing"
          \/ (Untouched(d) /\ ~Buffered(d) /\ current # d)'
    <3>1. CASE d = c
      BY <2>2, <3>1 DEF TypeOK, Placed, Untouched, Buffered
    <3>2. CASE d # c
      BY <2>2, <3>2 DEF TypeOK, Settled, Untouched, Buffered
    <3>3. QED BY <3>1, <3>2
  <2>3. QED BY <2>1, <2>2 DEF Settled
<1>4. QED BY <1>1, <1>2, <1>3

LEMMA CallerKeeps ==
  ASSUME WriteInv, NEW c \in Caller, CallerStep(c) \/ Cancel(c)
  PROVE  WriteInv'
<1>1. CASE Send(c)
  <2> USE <1>1 DEF Send, loopVars
  <2>0. TypeOK /\ Placed /\ Settled /\ Distinct /\ ~Buffered(c)
    BY DEF WriteInv, Placed
  <2>1. /\ Distinct'
        /\ \A d \in Caller : Buffered(d)' <=> Buffered(d) \/ d = c
    BY <2>0, AppendBuffered
  <2>2. TypeOK'
    <3>1. writeCh' \in Seq(Caller) /\ Len(writeCh') <= Buffer
      BY <2>0, WriteLoopConstants DEF TypeOK
    <3>2. pc' \in [Caller -> {"send", "wait", "done"}]
      BY <2>0 DEF TypeOK
    <3>3. QED BY <2>0, <3>1, <3>2 DEF TypeOK
  <2>3. \A d \in Caller : pc'[d] = IF d = c THEN "wait" ELSE pc[d]
    BY <2>0 DEF TypeOK
  <2>4. Placed'
    BY <2>0, <2>1, <2>3 DEF Placed, Untouched
  <2>5. ret[c] = "none"
    BY <2>0 DEF Settled, TypeOK
  <2>6. Settled'
    BY <2>0, <2>1, <2>3, <2>5 DEF Settled, Untouched
  <2>7. QED BY <2>2, <2>4, <2>6 DEF WriteInv
<1>2. CASE SendCancelled(c)
  BY <1>2, ReturnKeeps DEF SendCancelled
<1>3. CASE SendRefused(c)
  BY <1>3, ReturnKeeps DEF SendRefused
<1>4. CASE Receive(c)
  <2>1. res[c] \in {"nil", "error", "ErrStoreClosing"}
    BY <1>4 DEF Receive, WriteInv, TypeOK
  <2>2. QED BY <1>4, <2>1, ReturnKeeps DEF Receive
<1>5. CASE WaitCancelled(c)
  BY <1>5, ReturnKeeps DEF WaitCancelled
<1>6. CASE Cancel(c)
  <2>1. UNCHANGED <<pc, ret, writeCh, res, loop, current, commits, closed, dbOpen>>
    BY <1>6 DEF Cancel, loopVars
  <2>2. TypeOK'
    BY <1>6, <2>1 DEF WriteInv, TypeOK, Cancel
  <2>3. Placed' /\ Settled'
    BY <2>1 DEF WriteInv, Placed, Settled, Distinct, Buffered, Untouched
  <2>4. QED BY <2>2, <2>3 DEF WriteInv
<1>7. QED BY <1>1, <1>2, <1>3, <1>4, <1>5, <1>6 DEF CallerStep

LEMMA LoopKeeps ==
  ASSUME WriteInv, LoopStep
  PROVE  WriteInv'
<1>0. TypeOK /\ Placed /\ Settled /\ Distinct
  BY DEF WriteInv, Placed
<1>1. CASE TakeOp
  <2> USE <1>1 DEF TakeOp, callerVars
  <2>1. /\ Head(writeCh) \in Caller
        /\ Buffered(Head(writeCh))
        /\ Distinct'
        /\ \A d \in Caller : Buffered(d)' <=> Buffered(d) /\ d # Head(writeCh)
    BY <1>0, TailBuffered
  <2>2. TypeOK'
    <3>1. writeCh' \in Seq(Caller) /\ Len(writeCh') <= Buffer
      BY <1>0, WriteLoopConstants DEF TypeOK
    <3>2. QED BY <1>0, <2>1, <3>1 DEF TypeOK
  <2>3. Placed'
    BY <1>0, <2>1 DEF Placed, Untouched, TypeOK
  <2>4. Settled'
    BY <1>0, <2>1 DEF Settled, Untouched, TypeOK
  <2>5. QED BY <2>2, <2>3, <2>4 DEF WriteInv
<1>2. ASSUME NEW outcome \in {"nil", "error"}, ExecTx(outcome) PROVE WriteInv'
  <2> USE <1>2 DEF ExecTx, callerVars
  <2>1. current \in Caller /\ Untouched(current) /\ ~Buffered(current) /\ dbOpen
    BY <1>0 DEF Placed
  <2>2. TypeOK'
    BY <1>0, <2>1 DEF TypeOK
  <2>3. /\ \A d \in Caller \ {current} : res'[d] = res[d] /\ commits'[d] = commits[d]
        /\ res'[current] = outcome
        /\ commits'[current] = IF outcome = "nil" THEN 1 ELSE 0
    BY <1>0, <2>1 DEF TypeOK, Untouched
  <2>4. /\ UNCHANGED <<pc, ret, writeCh, dbOpen>>
        /\ \A d \in Caller : Buffered(d)' <=> Buffered(d)
        /\ Distinct'
    BY <1>0 DEF Buffered, Distinct
  <2>5. pc[current] # "send" /\ ret[current] \notin {"nil", "error", "ErrStoreClosing"}
    BY <1>0, <2>1 DEF Placed, Settled, Untouched
  <2>6. Placed'
    <3>1. /\ \A c \in Caller : pc'[c] = "send" => (~Buffered(c) /\ current # c /\ Untouched(c))'
          /\ \A c \in Caller : Buffered(c)' => (current # c /\ Untouched(c))'
      BY <1>0, <2>1, <2>3, <2>4, <2>5, WriteLoopConstants DEF Placed, Untouched
    <3>2. /\ (loop = "exec" <=> current \in Caller)'
          /\ \A c \in Caller : (current = c => Untouched(c))'
          /\ (~dbOpen => loop = "exited")'
      BY <1>0, <2>1, WriteLoopConstants DEF Placed
    <3>3. QED BY <2>4, <3>1, <3>2 DEF Placed
  <2>7. Settled'
    <3>1. ASSUME NEW d \in Caller PROVE
            /\ commits'[d] = IF res'[d] = "nil" THEN 1 ELSE 0
            /\ pc'[d] = "done" <=> ret'[d] # "none"
            /\ ret'[d] \in {"nil", "error"} => res'[d] = ret'[d]
      BY <1>0, <2>3, <2>4, <2>5 DEF Settled
    <3>2. ASSUME NEW d \in Caller, ret'[d] = "ErrStoreClosing" PROVE
            \/ res'[d] = "ErrStoreClosing"
            \/ (Untouched(d) /\ ~Buffered(d) /\ current # d)'
      BY <1>0, <2>3, <2>4, <2>5, <3>2, WriteLoopConstants DEF Settled, Untouched
    <3>3. QED BY <3>1, <3>2 DEF Settled
  <2>8. QED BY <2>2, <2>6, <2>7 DEF WriteInv
<1>3. CASE DrainOp
  <2> USE <1>3 DEF DrainOp, callerVars, loopVars
  <2> DEFINE h == Head(writeCh)
  <2>1. /\ h \in Caller /\ Buffered(h) /\ Distinct'
        /\ \A d \in Caller : Buffered(d)' <=> Buffered(d) /\ d # h
    BY <1>0, TailBuffered
  <2>2. Untouched(h) /\ current # h
    BY <1>0, <2>1 DEF Placed
  <2>3. TypeOK'
    <3>1. writeCh' \in Seq(Caller) /\ Len(writeCh') <= Buffer
      BY <1>0, WriteLoopConstants DEF TypeOK
    <3>2. QED BY <1>0, <2>1, <3>1 DEF TypeOK
  <2>4. \A d \in Caller : res'[d] = IF d = h THEN "ErrStoreClosing" ELSE res[d]
    BY <1>0 DEF TypeOK
  <2>5. pc[h] # "send" /\ ret[h] \notin {"nil", "error"}
    BY <1>0, <2>1, <2>2 DEF Placed, Settled, Untouched
  <2> HIDE DEF h
  <2>6. Placed'
    BY <1>0, <2>1, <2>2, <2>4, <2>5 DEF Placed, Untouched
  <2>7. Settled'
    BY <1>0, <2>1, <2>2, <2>4, <2>5 DEF Settled, Untouched
  <2>8. QED BY <2>3, <2>6, <2>7 DEF WriteInv
<1>4. CASE SeeClosed \/ Exit
  <2>1. /\ UNCHANGED <<pc, ret, cancelled, writeCh, res, current, commits, closed, dbOpen>>
        /\ loop \in {"select", "drain"} /\ loop' \in {"drain", "exited"}
    BY <1>4 DEF SeeClosed, Exit, callerVars
  <2>2. TypeOK'
    BY <1>0, <2>1 DEF TypeOK
  <2>3. Placed' /\ Settled'
    BY <1>0, <2>1 DEF Placed, Settled, Distinct, Buffered, Untouched
  <2>4. QED BY <2>2, <2>3 DEF WriteInv
<1>5. QED BY <1>1, <1>2, <1>3, <1>4 DEF LoopStep

LEMMA CloseKeeps ==
  ASSUME WriteInv, SignalClose \/ CloseDB \/ UNCHANGED vars
  PROVE  WriteInv'
<1>1. /\ UNCHANGED <<pc, ret, cancelled, writeCh, res, loop, current, commits>>
      /\ dbOpen' = dbOpen \/ loop = "exited"
      /\ closed' \in BOOLEAN /\ dbOpen' \in BOOLEAN
  BY DEF SignalClose, CloseDB, vars, callerVars, loopVars, WriteInv, TypeOK
<1>2. TypeOK'
  BY <1>1 DEF WriteInv, TypeOK
<1>3. Placed' /\ Settled'
  BY <1>1 DEF WriteInv, Placed, Settled, Distinct, Buffered, Untouched
<1>4. QED BY <1>2, <1>3 DEF WriteInv

\* In every state an operation is in one place, and what was returned is what
\* was done.
THEOREM WriteInvariant == Spec => []WriteInv
<1>1. WriteInv /\ [Next]_vars => WriteInv'
  BY CallerKeeps, LoopKeeps, CloseKeeps DEF Next
<1>2. QED BY WriteInvInit, <1>1, PTL DEF Spec

\* The channel holds no more than it is made for, and the loop executes one
\* write at a time.
THEOREM WriteTypeCorrect == Spec => []TypeOK
<1>1. WriteInv => TypeOK
  BY DEF WriteInv
<1>2. QED BY <1>1, WriteInvariant, PTL

-----------------------------------------------------------------------------
(* The refinement: each step of the write path is a step of AtomicWrites    *)
(* or moves nothing that AtomicWrites sees.                                 *)

LEMMA UnseenStep ==
  ASSUME UNCHANGED <<res, commits, ret, dbOpen>>
  PROVE  UNCHANGED Atomic!vars
BY DEF Atomic!vars, EffectOf, AnswerOf

LEMMA InitRefines == Init => Atomic!Init
BY DEF Init, Atomic!Init, EffectOf, AnswerOf

\* A caller that returns learns the effect of its write, gives up, or is
\* refused before its write went anywhere.
LEMMA CallerRefines ==
  ASSUME WriteInv, NEW c \in Caller, CallerStep(c) \/ Cancel(c)
  PROVE  [Atomic!Next]_(Atomic!vars)
<1>0. TypeOK /\ Placed /\ Settled
  BY DEF WriteInv
<1>1. CASE Send(c) \/ Cancel(c)
  BY <1>1, UnseenStep DEF Send, Cancel, loopVars
<1>2. ASSUME NEW value \in {"nil", "error", "ErrStoreClosing", "ctx.Err"},
             Return(c, value), pc[c] # "done",
             value # "ctx.Err" => res[c] = value
      PROVE  Atomic!Answer(c)
  <2>1. /\ UNCHANGED <<res, commits, dbOpen>>
        /\ \A d \in Caller : ret'[d] = IF d = c THEN value ELSE ret[d]
        /\ ret[c] = "none"
    BY <1>0, <1>2 DEF Return, loopVars, TypeOK, Settled
  <2>2. /\ \A d \in Caller : EffectOf(d)' = EffectOf(d)
        /\ \A d \in Caller \ {c} : AnswerOf(d)' = AnswerOf(d)
        /\ AnswerOf(c) = "none"
    <3>1. EffectOf(c)' = EffectOf(c)
      BY <1>0, <1>2, <2>1 DEF EffectOf, Settled, TypeOK
    <3>2. QED BY <2>1, <3>1 DEF EffectOf, AnswerOf
  <2>3. CASE value = "ctx.Err"
    <3>1. AnswerOf(c)' = "unknown"
      BY <2>1, <2>3 DEF AnswerOf
    <3>2. QED BY <2>1, <2>2, <3>1 DEF Atomic!Answer
  <2>4. CASE value = "nil"
    <3>1. AnswerOf(c)' = "ok" /\ EffectOf(c) = "committed"
      BY <1>0, <1>2, <2>1, <2>4 DEF AnswerOf, EffectOf, Settled
    <3>2. QED BY <2>1, <2>2, <3>1 DEF Atomic!Answer
  <2>5. CASE value \in {"error", "ErrStoreClosing"}
    <3>1. AnswerOf(c)' = "rejected" /\ EffectOf(c) = "rejected"
      BY <1>0, <1>2, <2>1, <2>5 DEF AnswerOf, EffectOf, Settled
    <3>2. QED BY <2>1, <2>2, <3>1 DEF Atomic!Answer
  <2>6. QED BY <1>2, <2>3, <2>4, <2>5
<1>3. CASE SendCancelled(c) \/ WaitCancelled(c) \/ Receive(c)
  <2>1. res[c] # "empty" => res[c] \in {"nil", "error", "ErrStoreClosing"}
    BY <1>0 DEF TypeOK
  <2>2. Atomic!Answer(c)
    BY <1>2, <1>3, <2>1 DEF SendCancelled, WaitCancelled, Receive
  <2>3. QED BY <2>2 DEF Atomic!Next
<1>4. CASE SendRefused(c)
  <2>1. /\ UNCHANGED <<res, commits, dbOpen>>
        /\ \A d \in Caller : ret'[d] = IF d = c THEN "ErrStoreClosing" ELSE ret[d]
        /\ ret[c] = "none" /\ Untouched(c)
    BY <1>0, <1>4 DEF SendRefused, Return, loopVars, TypeOK, Settled, Placed
  <2>2. /\ \A d \in Caller \ {c} : EffectOf(d)' = EffectOf(d) /\ AnswerOf(d)' = AnswerOf(d)
        /\ EffectOf(c) = "pending" /\ EffectOf(c)' = "rejected"
        /\ AnswerOf(c) = "none" /\ AnswerOf(c)' = "rejected"
    BY <2>1 DEF EffectOf, AnswerOf, Untouched
  <2>3. Atomic!Refuse(c)
    BY <2>1, <2>2 DEF Atomic!Refuse
  <2>4. QED BY <2>3 DEF Atomic!Next
<1>5. QED BY <1>1, <1>3, <1>4 DEF CallerStep

\* The loop commits or rejects one write at a time.
LEMMA LoopRefines ==
  ASSUME WriteInv, LoopStep
  PROVE  [Atomic!Next]_(Atomic!vars)
<1>0. TypeOK /\ Placed /\ Settled /\ Distinct
  BY DEF WriteInv, Placed
<1>1. CASE TakeOp \/ SeeClosed \/ Exit
  BY <1>1, UnseenStep DEF TakeOp, SeeClosed, Exit, callerVars
<1>2. ASSUME NEW c \in Caller, Untouched(c), ret[c] # "ErrStoreClosing",
             UNCHANGED <<ret, dbOpen>>,
             NEW outcome \in {"nil", "error", "ErrStoreClosing"},
             res' = [res EXCEPT ![c] = outcome],
             \A d \in Caller : commits'[d] = IF d = c /\ outcome = "nil" THEN 1
                                             ELSE commits[d],
             outcome = "nil" => dbOpen
      PROVE  Atomic!Commit(c) \/ Atomic!Reject(c)
  <2>1. /\ \A d \in Caller \ {c} : EffectOf(d)' = EffectOf(d)
        /\ \A d \in Caller : AnswerOf(d)' = AnswerOf(d)
        /\ EffectOf(c) = "pending"
        /\ EffectOf(c)' = IF outcome = "nil" THEN "committed" ELSE "rejected"
    <3>1. \A d \in Caller : res'[d] = IF d = c THEN outcome ELSE res[d]
      BY <1>0, <1>2 DEF TypeOK
    <3>2. /\ \A d \in Caller \ {c} : EffectOf(d)' = EffectOf(d)
          /\ \A d \in Caller : AnswerOf(d)' = AnswerOf(d)
      BY <1>2, <3>1 DEF EffectOf, AnswerOf
    <3>3. EffectOf(c) = "pending"
      BY <1>2 DEF EffectOf, Untouched
    <3>4. commits'[c] = (IF outcome = "nil" THEN 1 ELSE 0) /\ res'[c] = outcome
      BY <1>2, <3>1 DEF Untouched
    <3>5. EffectOf(c)' = IF outcome = "nil" THEN "committed" ELSE "rejected"
      BY <3>4 DEF EffectOf
    <3>6. QED BY <3>2, <3>3, <3>5
  <2>2. CASE outcome = "nil"
    BY <1>2, <2>1, <2>2 DEF Atomic!Commit
  <2>3. CASE outcome # "nil"
    BY <1>2, <2>1, <2>3 DEF Atomic!Reject
  <2>4. QED BY <2>2, <2>3
<1>3. ASSUME NEW outcome \in {"nil", "error"}, ExecTx(outcome)
      PROVE  [Atomic!Next]_(Atomic!vars)
  <2>1. current \in Caller /\ Untouched(current) /\ dbOpen
    BY <1>0, <1>3 DEF Placed, ExecTx
  <2>2. ret[current] # "ErrStoreClosing"
    BY <1>0, <2>1 DEF Settled, Untouched
  <2>3. /\ UNCHANGED <<ret, dbOpen>>
        /\ res' = [res EXCEPT ![current] = outcome]
        /\ \A d \in Caller : commits'[d] = IF d = current /\ outcome = "nil" THEN 1
                                           ELSE commits[d]
    BY <1>0, <1>3, <2>1 DEF ExecTx, callerVars, TypeOK, Untouched
  <2>4. Atomic!Commit(current) \/ Atomic!Reject(current)
    BY <1>2, <2>1, <2>2, <2>3
  <2>5. QED BY <2>1, <2>4 DEF Atomic!Next
<1>4. CASE DrainOp
  <2> DEFINE h == Head(writeCh)
  <2>1. h \in Caller /\ Buffered(h)
    BY <1>0, <1>4, TailBuffered DEF DrainOp
  <2>2. Untouched(h) /\ ret[h] # "ErrStoreClosing"
    BY <1>0, <2>1 DEF Placed, Settled, Untouched
  <2>3. /\ UNCHANGED <<ret, dbOpen, commits>>
        /\ res' = [res EXCEPT ![h] = "ErrStoreClosing"]
    BY <1>4 DEF DrainOp, callerVars, loopVars
  <2> HIDE DEF h
  <2>4. Atomic!Commit(h) \/ Atomic!Reject(h)
    BY <1>2, <2>1, <2>2, <2>3
  <2>5. QED BY <2>1, <2>4 DEF Atomic!Next
<1>5. QED BY <1>1, <1>3, <1>4 DEF LoopStep

LEMMA CloseRefines ==
  ASSUME WriteInv, SignalClose \/ CloseDB \/ UNCHANGED vars
  PROVE  [Atomic!Next]_(Atomic!vars)
<1>1. CASE SignalClose \/ UNCHANGED vars
  BY <1>1, UnseenStep DEF SignalClose, vars, callerVars, loopVars
<1>2. CASE CloseDB
  <2>1. UNCHANGED <<res, commits, ret>> /\ dbOpen /\ dbOpen' = FALSE
    BY <1>2 DEF CloseDB, callerVars, loopVars
  <2>2. \A c \in Caller : EffectOf(c)' = EffectOf(c) /\ AnswerOf(c)' = AnswerOf(c)
    BY <2>1 DEF EffectOf, AnswerOf
  <2>3. /\ [c \in Caller |-> EffectOf(c)]' = [c \in Caller |-> EffectOf(c)]
        /\ [c \in Caller |-> AnswerOf(c)]' = [c \in Caller |-> AnswerOf(c)]
    BY <2>2
  <2>4. Atomic!Close
    BY <2>1, <2>3 DEF Atomic!Close
  <2>5. QED BY <2>4 DEF Atomic!Next
<1>3. QED BY <1>1, <1>2

\* The write path implements atomic writes: a write takes effect at most
\* once, what write returns is what happened, and nothing is committed after
\* Close has returned.
THEOREM WritesAreAtomic == Spec => ImplementsAtomicWrites
<1>1. WriteInv /\ [Next]_vars => [Atomic!Next]_(Atomic!vars)
  BY CallerRefines, LoopRefines, CloseRefines DEF Next
<1>2. QED
  BY InitRefines, WriteInvariant, <1>1, PTL DEF Spec, ImplementsAtomicWrites, Atomic!Spec

-----------------------------------------------------------------------------
(* Who is left without an answer.                                          *)

\* A write that waits for its answer is in the channel, with the loop, or has
\* it in its result channel; and the loop drains and returns for Close only.
NobodyForgotten ==
  /\ loop \in {"drain", "exited"} => closed
  /\ \A c \in Caller :
       pc[c] = "wait" => Buffered(c) \/ current = c \/ res[c] # "empty"

LEMMA CallerForgetsNobody ==
  ASSUME WriteInv, NobodyForgotten, NEW c \in Caller, CallerStep(c) \/ Cancel(c)
  PROVE  NobodyForgotten'
<1>1. UNCHANGED <<res, loop, current, closed>>
  BY DEF CallerStep, Send, SendCancelled, SendRefused, Receive, WaitCancelled, Return,
         Cancel, loopVars
<1>2. ASSUME NEW d \in Caller, Buffered(d) PROVE Buffered(d)'
  <2>1. CASE Send(c)
    <3>1. ~Buffered(c) /\ TypeOK /\ Distinct /\ writeCh' = Append(writeCh, c)
      BY <2>1 DEF Send, WriteInv, Placed
    <3> QED
      BY <1>2, <3>1, AppendBuffered
  <2>2. CASE UNCHANGED writeCh
    BY <1>2, <2>2 DEF Buffered
  <2> QED
    BY <2>1, <2>2 DEF CallerStep, SendCancelled, SendRefused, Receive, WaitCancelled,
                      Return, Cancel
<1>3. ASSUME NEW d \in Caller, pc'[d] = "wait" PROVE pc[d] = "wait" \/ Buffered(d)'
  <2>1. CASE Send(c)
    <3>1. /\ ~Buffered(c) /\ TypeOK /\ Distinct
          /\ writeCh' = Append(writeCh, c) /\ pc' = [pc EXCEPT ![c] = "wait"]
      BY <2>1 DEF Send, WriteInv, Placed
    <3> QED
      BY <1>3, <3>1, AppendBuffered DEF TypeOK
  <2>2. CASE ~Send(c)
    BY <1>3, <2>2 DEF CallerStep, SendCancelled, SendRefused, Receive, WaitCancelled,
                      Return, Cancel, WriteInv, TypeOK
  <2> QED
    BY <2>1, <2>2
<1> QED
  BY <1>1, <1>2, <1>3 DEF NobodyForgotten

LEMMA LoopForgetsNobody ==
  ASSUME WriteInv, NobodyForgotten,
         LoopStep \/ SignalClose \/ CloseDB \/ UNCHANGED vars
  PROVE  NobodyForgotten'
<1>1. CASE TakeOp
  <2>1. /\ \A d \in Caller : Buffered(d)' <=> Buffered(d) /\ d # Head(writeCh)
        /\ current' = Head(writeCh) /\ loop' = "exec"
    BY <1>1, TailBuffered DEF TakeOp, WriteInv, Placed
  <2>2. \A d \in Caller : current # d
    BY <1>1 DEF TakeOp, WriteInv, Placed
  <2> QED
    BY <1>1, <2>1, <2>2 DEF TakeOp, NobodyForgotten, callerVars
<1>2. ASSUME NEW outcome \in {"nil", "error"}, ExecTx(outcome) PROVE NobodyForgotten'
  <2>1. /\ \A d \in Caller : res'[d] = IF d = current THEN outcome ELSE res[d]
        /\ UNCHANGED <<pc, writeCh>> /\ loop' = "select"
    BY <1>2 DEF ExecTx, WriteInv, TypeOK, callerVars
  <2> QED
    BY <2>1 DEF NobodyForgotten, Buffered
<1>3. CASE DrainOp
  <2>1. /\ \A d \in Caller : Buffered(d)' <=> Buffered(d) /\ d # Head(writeCh)
        /\ \A d \in Caller :
             res'[d] = IF d = Head(writeCh) THEN "ErrStoreClosing" ELSE res[d]
        /\ UNCHANGED <<pc, loop, current, closed>>
    BY <1>3, TailBuffered DEF DrainOp, WriteInv, Placed, TypeOK, callerVars, loopVars
  <2> QED
    BY <2>1 DEF NobodyForgotten
<1>4. CASE SeeClosed \/ Exit \/ SignalClose \/ CloseDB \/ UNCHANGED vars
  <2>1. /\ UNCHANGED <<pc, writeCh, res, current>>
        /\ closed => closed'
        /\ loop' \in {"drain", "exited"} => closed \/ loop \in {"drain", "exited"}
    BY <1>4 DEF SeeClosed, Exit, SignalClose, CloseDB, vars, callerVars, loopVars
  <2> QED
    BY <2>1 DEF NobodyForgotten, Buffered
<1> QED
  BY <1>1, <1>2, <1>3, <1>4 DEF LoopStep

LEMMA StrandedStep ==
  ASSUME WriteInv, NobodyForgotten, [Next]_vars, NEW c \in Caller,
         ~Stranded(c), Stranded(c)'
  PROVE  closed /\ loop = "exited" /\ pc[c] = "send"
<1>1. CASE Exit
  <2>1. writeCh = <<>> /\ current # c /\ UNCHANGED <<pc, res>>
    BY <1>1 DEF Exit, WriteInv, Placed, callerVars
  <2>2. ~Buffered(c)
    BY <2>1 DEF Buffered
  <2> QED
    BY <2>1, <2>2 DEF NobodyForgotten, Stranded
<1>2. CASE ~Exit
  <2>1. loop = "exited"
    BY <1>2 DEF Next, CallerStep, Send, SendCancelled, SendRefused, Receive, WaitCancelled,
                Return, Cancel, LoopStep, TakeOp, ExecTx, SeeClosed, DrainOp, SignalClose,
                CloseDB, vars, loopVars, Stranded
  <2>2. res' = res
    BY <2>1 DEF Next, CallerStep, Send, SendCancelled, SendRefused, Receive, WaitCancelled,
                Return, Cancel, LoopStep, TakeOp, ExecTx, SeeClosed, DrainOp, Exit,
                SignalClose, CloseDB, vars
  <2>3. pc[c] # "wait" /\ pc'[c] = "wait"
    BY <2>1, <2>2 DEF Stranded
  <2>4. pc[c] = "send"
    BY <2>1, <2>3 DEF Next, CallerStep, Send, SendCancelled, SendRefused, Receive,
                WaitCancelled, Return, Cancel, LoopStep, TakeOp, ExecTx, SeeClosed, DrainOp,
                Exit, SignalClose, CloseDB, vars, callerVars, WriteInv, TypeOK
  <2> QED
    BY <2>1, <2>4 DEF NobodyForgotten
<1> QED
  BY <1>1, <1>2

\* Whoever waited when Close was called has an answer by the time writeLoop
\* returns; the only writes without one were sent into the channel afterwards.
THEOREM LateSendsAreStranded == Spec => OnlyLateSendsAreStranded
<1>1. Init => NobodyForgotten
  BY DEF Init, NobodyForgotten
<1>2. WriteInv /\ NobodyForgotten /\ [Next]_vars => NobodyForgotten'
  BY CallerForgetsNobody, LoopForgetsNobody DEF Next
<1>3. WriteInv /\ NobodyForgotten /\ [Next]_vars =>
        [\A c \in Caller : ~Stranded(c) /\ Stranded(c)' =>
           closed /\ loop = "exited" /\ pc[c] = "send"]_vars
  BY StrandedStep
<1> QED
  BY <1>1, <1>2, <1>3, WriteInvariant, PTL DEF Spec, OnlyLateSendsAreStranded

=============================================================================
