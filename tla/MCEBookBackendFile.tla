------------------------- MODULE MCEBookBackendFile -------------------------
(***************************************************************************)
(* Instances of EBookBackendFile for TLC.                                  *)
(***************************************************************************)
EXTENDS EBookBackendFile, TLC

CONSTANTS i1, i2, r1, r2, v1, v2, a, b, n

Symm == Permutations({r1, r2})

Hash == i1 :> 1 @@ i2 :> 2

HashOne == i1 :> 1
=============================================================================
