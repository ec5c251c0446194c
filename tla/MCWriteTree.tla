----------------------------- MODULE MCWriteTree -----------------------------
(***************************************************************************)
(* A small instance of WriteTree for TLC: overlapping sets of paths, each  *)
(* spec with one the others lack.                                          *)
(***************************************************************************)
EXTENDS WriteTree, TLC

CONSTANTS s1, s2, s3

MCProduces == (s1 :> {1, 2, 3}) @@ (s2 :> {2, 3, 4}) @@ (s3 :> {1, 4})

=============================================================================
