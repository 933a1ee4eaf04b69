---------------------------- MODULE MCWorkItems ----------------------------
(***************************************************************************)
(* Two drivers and two claimers of one item.                               *)
(***************************************************************************)
EXTENDS WorkItems, TLC

CONSTANTS d1, d2, h1, h2

Interchangeable == Permutations({d1, d2}) \cup Permutations({h1, h2})
=============================================================================
