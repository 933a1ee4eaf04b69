----------------------------- MODULE MCRunners -----------------------------
(***************************************************************************)
(* What runs the model calls.  Three machines that share no state; a       *)
(* behaviour is one of one of them, the `program`:                         *)
(*   session  the calls of one role on the Claude Code runner, under six   *)
(*            sets of limits;                                              *)
(*   log      what that runner writes down of the calls of its workers;    *)
(*   api      two calls of either API runner, as single requests and as    *)
(*            tool loops.                                                  *)
(***************************************************************************)
EXTENDS ClaudeSession, CallLog, ApiRunner

CONSTANT Programs

VARIABLE program

Build == [thread |-> TRUE, patches |-> TRUE, verifies |-> TRUE, guide |-> 1, targets |-> <<1, 2>>,
          cap |-> NoLimit, role |-> 3, task |-> NoLimit, traced |-> TRUE, calls |-> 2]
Plan == [Build EXCEPT !.patches = FALSE, !.traced = FALSE]

MCSetups ==
  {Build, [Build EXCEPT !.thread = FALSE],
   [Plan EXCEPT !.role = 2, !.targets = <<1>>],
   [Plan EXCEPT !.cap = 2, !.guide = 3, !.targets = <<3>>],
   [Plan EXCEPT !.task = 2, !.targets = <<1, 3>>],
   [Plan EXCEPT !.targets = <<>>, !.role = NoLimit]}

-----------------------------------------------------------------------------
Call(id, name, file, fits, takes) ==
  [id |-> id, name |-> name, file |-> file, text |-> "b", fits |-> fits, takes |-> takes, decodes |-> TRUE]

MCFiles == {"f"}
MCTexts == {"a", "b"}

\* Two checks in one reply, the second cut short by the total; or a file that is changed and put
\* back, by an edit and a check whose output does not decode, among calls that are refused.
Garbled(c) == [c EXCEPT !.decodes = FALSE]

MCBatches ==
  { <<Call(1, "run_check", "f", TRUE, 2), Call(2, "run_check", "f", TRUE, 3)>>,
    <<Call(1, "read_file", "f", TRUE, 0), Call(2, "edit_file", "f", TRUE, 0), Call(3, "write_file", "out", TRUE, 0),
      Garbled(Call(4, "run_check", "f", TRUE, 2)), Call(5, "edit_file", "f", FALSE, 0),
      Call(6, "run_check", "f", FALSE, 1), Call(7, "other", "f", TRUE, 0),
      [Call(8, "write_file", "f", TRUE, 0) EXCEPT !.text = "a"]>> }

-----------------------------------------------------------------------------
Init ==
  /\ program \in Programs
  /\ SessionInit /\ LogInit /\ ApiInit
  /\ program # "session" => setup = Build
  /\ program # "api" => cfg = [kind |-> "openai", budget |-> Budget, price |-> "full"]

Next ==
  /\ UNCHANGED program
  /\ \/ program = "session" /\ SessionNext /\ UNCHANGED <<logVars, apiVars>>
     \/ program = "log" /\ LogNext /\ UNCHANGED <<sessionVars, apiVars>>
     \/ program = "api" /\ ApiNext /\ UNCHANGED <<sessionVars, logVars>>

Spec == Init /\ [][Next]_<<program, sessionVars, logVars, apiVars>>
=============================================================================
