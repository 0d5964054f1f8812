---------------------------- MODULE LossyStream ----------------------------
(***************************************************************************)
(* What the event stream promises to a client that is connected to it:     *)
(* hints about writes that have been committed, each at most once and in   *)
(* one order, the same for every client.  Hints may be missing, at the     *)
(* start of a connection or in its middle.                                 *)
(***************************************************************************)
EXTENDS Naturals, Sequences

CONSTANTS
  Write,    \* the writes of the store
  Hint,     \* the hints: pairs of a write and a number
  Client

VARIABLES
  committed,  \* the writes that have taken effect
  stream,     \* the hints in their order
  got         \* per client: the places in stream of the hints it has, since it connected

vars == <<committed, stream, got>>

Init ==
  /\ committed = {}
  /\ stream = <<>>
  /\ got = [k \in Client |-> {}]

Commit(c) ==
  /\ committed' = committed \cup {c}
  /\ UNCHANGED <<stream, got>>

Publish(c) ==
  /\ c \in committed
  /\ \E h \in Hint :
       /\ h[1] = c
       /\ \A i \in DOMAIN stream : stream[i] # h
       /\ stream' = Append(stream, h)
  /\ UNCHANGED <<committed, got>>

Deliver(k, i) ==
  /\ i \in DOMAIN stream
  /\ \A j \in got[k] : j < i
  /\ got' = [got EXCEPT ![k] = @ \cup {i}]
  /\ UNCHANGED <<committed, stream>>

Connect(k) ==
  /\ got' = [got EXCEPT ![k] = {}]
  /\ UNCHANGED <<committed, stream>>

Next ==
  \/ \E c \in Write : Commit(c) \/ Publish(c)
  \/ \E k \in Client : Connect(k) \/ \E i \in DOMAIN stream : Deliver(k, i)

Spec == Init /\ [][Next]_vars

=============================================================================
