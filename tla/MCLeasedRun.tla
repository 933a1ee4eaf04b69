---------------------------- MODULE MCLeasedRun ----------------------------
(***************************************************************************)
(* Two runs of one prefix.                                                 *)
(***************************************************************************)
EXTENDS LeasedRun, TLC

CONSTANTS p1, p2, runA, runB

TwoRuns == (p1 :> runA) @@ (p2 :> runB)
=============================================================================
