------------------------------ MODULE MCEngine ------------------------------
(***************************************************************************)
(* Instances of Engine: one queue, one task type, no limit but the global  *)
(* one.                                                                    *)
(***************************************************************************)
EXTENDS Engine, TLC

MCQueueLimit == [q \in Queue |-> 0]
MCTypeLimit == [y \in TaskType |-> 0]

\* Ids are interchangeable.  Instead of a symmetry set, which is no use for
\* liveness, the instances number them and explore the behaviours in which
\* NewID returns them in order; all others are permutations of these.
IDsInOrder ==
  /\ \A v, w \in WorkerID :
       v < w /\ workers[w].registered => workers[v].registered
  /\ \A a, b \in AttemptID : a < b /\ FreshAttempt(a) => FreshAttempt(b)

=============================================================================
