----------------------------- MODULE MCRecovery -----------------------------
(***************************************************************************)
(* A small instance of IssuanceRecovery for TLC.                           *)
(***************************************************************************)
EXTENDS IssuanceRecovery

CONSTANTS d1, c1, c2, x

TwoCabinets == {<<d1, c1>>, <<d1, c2>>}

\* A rotation of everything, two that fail after they have swapped signing keys (a row that
\* fails validation, a -rotate id the inventory lacks), and one without an inventory.
WishJobs ==
  {[inv |-> TwoCabinets, rot |-> {c1, c2}, rotOp |-> TRUE, rotAcct |-> {d1}],
   [inv |-> {<<Unplaced, c1>>, <<d1, c2>>}, rot |-> {}, rotOp |-> TRUE, rotAcct |-> {d1, DMZ}],
   [inv |-> {<<d1, c1>>}, rot |-> {c2}, rotOp |-> FALSE, rotAcct |-> {d1}],
   [inv |-> None, rot |-> {}, rotOp |-> TRUE, rotAcct |-> {}]}

\* More keys than the faults and wishes can use up: the bound never binds.
EnoughKeys == [k \in KeyKinds |-> 2 + MaxFaults + MaxWishes]

=============================================================================
