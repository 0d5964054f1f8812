--------------------------- MODULE MCEventStream ---------------------------
(***************************************************************************)
(* Instances of EventStream for TLC: callers are named by what they do.    *)
(***************************************************************************)
EXTENDS EventStream

MCEmits ==
  [c \in Caller |-> CASE c = "restart" -> 2 [] c = "requeue" -> 0 [] OTHER -> 1]

=============================================================================
