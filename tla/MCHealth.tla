------------------------------- MODULE MCHealth -------------------------------
(***************************************************************************)
(* Small instances of CredHealth for TLC.                                  *)
(***************************************************************************)
EXTENDS CredHealth, TLC

CONSTANTS d1, d2, c1, c2, x

\* Neither districts nor cabinets are told apart by anything but their names.
Symmetric == Permutations(Districts) \cup Permutations(Cabinets)

=============================================================================
