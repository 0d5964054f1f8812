-------------------------- MODULE MCTaskScheduler --------------------------
(***************************************************************************)
(* Instances of TaskScheduler: the intervals operators may set, sensible   *)
(* or not, and a zero time before all others.                              *)
(***************************************************************************)
EXTENDS TaskScheduler

ZeroOrOne == {0, 1}

\* Before every other instant of the instances.
YearOne == -9

=============================================================================
