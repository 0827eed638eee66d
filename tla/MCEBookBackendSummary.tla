----------------------- MODULE MCEBookBackendSummary -----------------------
(***************************************************************************)
(* Instances of EBookBackendSummary for TLC.                               *)
(***************************************************************************)
EXTENDS EBookBackendSummary, TLC

CONSTANTS x, y

Symm == Permutations({x, y})
=============================================================================
