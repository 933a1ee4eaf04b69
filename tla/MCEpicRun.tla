----------------------------- MODULE MCEpicRun -----------------------------
(***************************************************************************)
(* Two stacked phases: tasks 1 and 2 in the first, task 3 in the second,   *)
(* which needs task 1.  Either nothing is taken from the runs, or task 2   *)
(* has landed before and up to MaxMishaps things are.                      *)
(***************************************************************************)
EXTENDS EpicRun

MCPhaseOf == [t \in Task |-> IF t = 3 THEN 2 ELSE 1]
MCNeeds == [t \in Task |-> IF t = 3 THEN {1} ELSE {}]

MCInit ==
  /\ EpicRunInit
  /\ \/ mishaps = MaxMishaps /\ \A t \in Task : work[t] = "ready"
     \/ mishaps = 0 /\ \A t \in Task : work[t] = (IF t = 2 THEN "done" ELSE "ready")
MCSpec == MCInit /\ [][EpicRunNext]_vars
=============================================================================
