------------------------------ MODULE MCStore ------------------------------
(***************************************************************************)
(* Instances of Store for TLC.  Ids are interchangeable: the safety runs   *)
(* use them as symmetry sets.                                              *)
(***************************************************************************)
EXTENDS Store, TLC

\* Queues and types: "q" and "y" are limited, "free" is not (limit 0).
MCQueueLimit == [q \in Queue |-> IF q = "free" THEN 0 ELSE 1]
MCTypeLimit == [y \in TaskType |-> IF y = "free" THEN 0 ELSE 1]

\* A max_retries below zero is stored as given and grants no retry.
NegativeMaxRetries == {-1}

IDSymmetry ==
  Permutations(TaskID) \cup Permutations(AttemptID) \cup Permutations(WorkerID)

=============================================================================
