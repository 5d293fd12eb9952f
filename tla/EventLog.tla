------------------------------ MODULE EventLog ------------------------------
(***************************************************************************)
(* What the transactional outbox promises: the changes of the control      *)
(* plane are committed one after the other, each is announced after it is  *)
(* committed and at least once, in any order.                              *)
(***************************************************************************)
EXTENDS Naturals

CONSTANT Capacity   \* bound on the number of changes

VARIABLES
  committed,   \* changes 1..committed are committed
  announced    \* the announced changes

vars == <<committed, announced>>

Init == committed = 0 /\ announced = {}

Commit == committed < Capacity /\ committed' = committed + 1 /\ UNCHANGED announced

Announce(e) ==
  /\ e \in 1..committed \ announced
  /\ announced' = announced \cup {e}
  /\ UNCHANGED committed

Next == Commit \/ \E e \in 1..Capacity : Announce(e)

Safety == Init /\ [][Next]_vars

Spec == Safety /\ \A e \in 1..Capacity : WF_vars(Announce(e))
=============================================================================
