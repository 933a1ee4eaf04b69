----------------------------- MODULE MCDispatch -----------------------------
(***************************************************************************)
(* What is dispatched beside a run.  Three machines, of which a behaviour  *)
(* is one, the `program`:                                                  *)
(*   fan_out  one nested invocation, well-formed or not;                   *)
(*   cos      dispatches of the chief of staff, which make fan-outs;       *)
(*   rescue   two rescues of one task, while a driver builds it and a      *)
(*            human edits, requeues and lands it.                          *)
(***************************************************************************)
EXTENDS Cos, Rescue, TLC

CONSTANT Programs

VARIABLE program

\* The detached runs are alike, and so are the rescues.
Symmetric == Permutations(Runs) \cup Permutations(Rescuer)

-----------------------------------------------------------------------------
Node(id, graph, own) == [id |-> id, graph |-> graph, own |-> own]

\* Three well-formed nodes; a repeated id; an unknown graph; a run id of its own.
MCBatches ==
  { <<>>, <<Node(1, "sweep", FALSE), Node(2, "sweep", FALSE), Node(3, "triage", FALSE)>>,
    <<Node(1, "sweep", FALSE), Node(1, "sweep", FALSE)>>,
    <<Node(1, "other", FALSE)>>, <<Node(1, "sweep", TRUE), Node(2, "sweep", FALSE)>> }

-----------------------------------------------------------------------------
Init ==
  /\ program \in Programs
  /\ CosInit /\ RescueInit
  /\ program # "cos" => Queued = {} /\ ~alerts /\ usage = "go"

Next ==
  /\ UNCHANGED program
  /\ \/ program = "fan_out" /\ FanNext /\ UNCHANGED <<cosVars, rescueVars>>
     \/ program = "cos" /\ CosNext /\ UNCHANGED rescueVars
     \/ program = "rescue" /\ RescueNext /\ UNCHANGED dispatchVars

Spec == Init /\ [][Next]_<<program, dispatchVars, rescueVars>>
=============================================================================
