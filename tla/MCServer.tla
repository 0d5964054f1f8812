------------------------------ MODULE MCServer ------------------------------
(***************************************************************************)
(* Instances of Server for TLC: callers are named by what they do.         *)
(***************************************************************************)
EXTENDS Server

MCEmits == [c \in Caller |-> IF c = "requeue" THEN 0 ELSE 1]

=============================================================================
