---------------------------- MODULE AtomicWrites ----------------------------
(***************************************************************************)
(* What internal/store promises to the callers of Store.write: each write  *)
(* takes effect at most once, at one instant, all or nothing; a caller who *)
(* is told "ok" may rely on it, one who is told "rejected" may rely on its *)
(* absence, and one who gave up because its context ended knows nothing.   *)
(* Once the store is closed no write takes effect any more.                *)
(*                                                                         *)
(* This is the level at which module Store treats a transaction.           *)
(***************************************************************************)
CONSTANT Caller       \* each makes one write

VARIABLES
  effect,   \* per write: "pending", "committed" or "rejected"
  answer,   \* per write: "none", "ok", "rejected" or "unknown"
  open      \* whether the database is still open

vars == <<effect, answer, open>>

Init ==
  /\ effect = [c \in Caller |-> "pending"]
  /\ answer = [c \in Caller |-> "none"]
  /\ open = TRUE

Commit(c) ==
  /\ open
  /\ effect[c] = "pending"
  /\ effect' = [effect EXCEPT ![c] = "committed"]
  /\ UNCHANGED <<answer, open>>

Reject(c) ==
  /\ effect[c] = "pending"
  /\ effect' = [effect EXCEPT ![c] = "rejected"]
  /\ UNCHANGED <<answer, open>>

\* A write refused on the spot, before it is queued.
Refuse(c) ==
  /\ answer[c] = "none"
  /\ effect[c] = "pending"
  /\ effect' = [effect EXCEPT ![c] = "rejected"]
  /\ answer' = [answer EXCEPT ![c] = "rejected"]
  /\ UNCHANGED open

\* The caller learns the effect, or, its context having ended, does not.  A
\* write whose caller does not know may still be pending.
Answer(c) ==
  /\ answer[c] = "none"
  /\ \/ effect[c] = "committed" /\ answer' = [answer EXCEPT ![c] = "ok"]
     \/ effect[c] = "rejected" /\ answer' = [answer EXCEPT ![c] = "rejected"]
     \/ answer' = [answer EXCEPT ![c] = "unknown"]
  /\ UNCHANGED <<effect, open>>

Close ==
  /\ open
  /\ open' = FALSE
  /\ UNCHANGED <<effect, answer>>

Next ==
  \/ \E c \in Caller : Commit(c) \/ Reject(c) \/ Refuse(c) \/ Answer(c)
  \/ Close

Spec == Init /\ [][Next]_vars

=============================================================================
