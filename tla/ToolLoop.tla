------------------------------ MODULE ToolLoop ------------------------------
(***************************************************************************)
(* The vendor-neutral tool loop (runner/tool_loop.py): a build node talks  *)
(* to a model turn by turn, each turn asks for tools that read and change  *)
(* one worktree, and the loop ends with the worktree's diff.  One turn is  *)
(* one action: the request, the bill, and every tool call of the reply.    *)
(* Money is counted in output tokens.  ApiRunner drives the loop.          *)
(***************************************************************************)
EXTENDS Integers, Sequences

CONSTANTS
  Files,         \* files of the worktree
  Texts,         \* what a file may hold
  Base,          \* what every file holds before the build
  Outside,       \* a path that leaves the worktree, or an absolute one
  Batches,       \* the lists of tool calls one reply may ask for
  TurnCap,       \* the most turns of one loop
  CheckTimeout,  \* seconds one check may run
  CheckTotal,    \* seconds all checks of one loop may run
  NoBudget       \* no ceiling

\* A tool call of a reply. A reply that asks for no tool is an answer.
ToolCall ==
  [id : Nat, name : {"run_check", "read_file", "list_dir", "write_file", "edit_file", "other"},
   file : Files \cup {Outside}, text : Texts, fits : BOOLEAN, takes : Nat, decodes : BOOLEAN]

ASSUME ToolLoopAssumption ==
  /\ TurnCap \in Nat \ {0} /\ CheckTimeout \in Nat \ {0} /\ CheckTotal \in Nat
  /\ Base \in Texts /\ Outside \notin Files /\ NoBudget \notin Int
  /\ \A batch \in Batches : batch \in Seq(ToolCall) /\ batch # <<>>

VARIABLES
  tree,      \* the worktree
  messages,  \* the neutral message list, the system message left out
  turns,     \* turns sent
  usage,     \* the cost the loop has summed
  billed,    \* the cost the adapter has summed, of replies that raise too
  clock,     \* seconds the checks have run, as _CheckClock counts them
  unclocked, \* history: the checks it missed, and the seconds they ran
  ceiling,   \* budget_usd of this loop
  end        \* how the loop ended, and the patch it hands over

loopVars == <<tree, messages, turns, usage, billed, clock, unclocked, ceiling, end>>

Clean == [f \in Files |-> Base]
NoneMissed == [checks |-> 0, seconds |-> 0]
NoEnd == [what |-> "none", patch |-> Clean, error |-> "none", git |-> TRUE]
Lesser(a, b) == IF a < b THEN a ELSE b

-----------------------------------------------------------------------------
(* One tool call.  `fits` stands for what the call's text decides: the     *)
(* command is one of the checks, the old text occurs once.  A check is a   *)
(* command of the repository and may write too.  Output that does not      *)
(* decode raises out of _run_check before the clock is moved; the error is *)
(* the call's result.  A check that is cut short is not decoded.           *)
Wrote(w, call) == [w EXCEPT !.tree[call.file] = call.text, !.error = FALSE]
Refused(w) == [w EXCEPT !.error = TRUE]

RunCheck(w, call) ==
  LET remaining == CheckTotal - w.clock
      timeout == Lesser(CheckTimeout, remaining)
      ran == Lesser(call.takes, timeout)
      raises == ~call.decodes /\ call.takes <= timeout
  IN IF ~call.fits \/ remaining <= 0 THEN Refused(w)
     ELSE [tree |-> Wrote(w, call).tree,
           clock |-> IF raises THEN w.clock ELSE w.clock + ran,
           unclocked |-> IF raises THEN [checks |-> w.unclocked.checks + 1, seconds |-> w.unclocked.seconds + ran]
                         ELSE w.unclocked,
           error |-> raises \/ call.takes > timeout]

Execute(w, call) ==
  IF call.name = "run_check" THEN RunCheck(w, call)
  ELSE IF call.file = Outside THEN Refused(w)
  ELSE CASE call.name \in {"read_file", "list_dir"} -> [w EXCEPT !.error = FALSE]
         [] call.name = "write_file" -> Wrote(w, call)
         [] call.name = "edit_file" -> IF call.fits THEN Wrote(w, call) ELSE Refused(w)
         [] OTHER -> Refused(w)

\* One call after the calls before it, with its result.
ExecuteNext(done, call) ==
  LET w == Execute([tree |-> done.tree, clock |-> done.clock, unclocked |-> done.unclocked, error |-> FALSE], call)
  IN [tree |-> w.tree, clock |-> w.clock, unclocked |-> w.unclocked,
      results |-> Append(done.results, [role |-> "tool", ids |-> <<call.id>>, error |-> w.error])]

\* All calls of one reply, in order, each with its result.
ExecuteAll(batch) ==
  LET done[i \in 0..Len(batch)] ==
        IF i = 0 THEN [tree |-> tree, clock |-> clock, unclocked |-> unclocked, results |-> <<>>]
        ELSE ExecuteNext(done[i - 1], batch[i])
  IN done[Len(batch)]

\* The worktree's own diff over the model's account of it. `git` is whether git diff ran.
Reconciled(what, reported, t, git) ==
  LET computed == IF git THEN t ELSE Clean
  IN [what |-> what, patch |-> computed, git |-> git,
      error |-> IF computed # Clean THEN "none"
                ELSE IF reported THEN "patch_outside_scratch" ELSE "patch_empty"]

-----------------------------------------------------------------------------
LoopInit ==
  /\ tree = Clean /\ messages = <<>> /\ turns = 0 /\ usage = 0 /\ billed = 0
  /\ clock = 0 /\ unclocked = NoneMissed /\ ceiling = NoBudget /\ end = NoEnd

StartLoop(budget) ==
  /\ messages' = <<[role |-> "user", ids |-> <<>>, error |-> FALSE]>>
  /\ turns' = 0 /\ usage' = 0 /\ billed' = 0 /\ clock' = 0 /\ unclocked' = NoneMissed
  /\ ceiling' = budget /\ end' = NoEnd
  /\ UNCHANGED tree

Over(spent) == ceiling # NoBudget /\ spent > ceiling

Sends(price) ==
  /\ end.what = "none" /\ turns < TurnCap
  /\ turns' = turns + 1 /\ usage' = usage + price /\ billed' = billed + price
  /\ UNCHANGED ceiling

\* Mutant: the tools run before the ceiling is looked at, the diff was taken before them.
CalledThenStopped(batch, price, git) ==
  /\ Sends(price)
  /\ LET done == ExecuteAll(batch)
     IN /\ tree' = done.tree /\ clock' = done.clock /\ unclocked' = done.unclocked
        /\ messages' = messages
             \o <<[role |-> "assistant", ids |-> [i \in DOMAIN batch |-> batch[i].id], error |-> FALSE]>>
             \o done.results
        /\ end' = CASE Over(usage + price) -> Reconciled("budget", FALSE, tree, git)
                    [] turns + 1 = TurnCap -> Reconciled("turn_cap", FALSE, done.tree, git)
                    [] OTHER -> NoEnd

(* The reply asks for tools.  Over the ceiling the loop stops before it    *)
(* runs them; the last turn's tools run and the loop ends at its cap.      *)
Called(batch, price, git) ==
  /\ Sends(price)
  /\ IF Over(usage + price)
     THEN /\ end' = Reconciled("budget", FALSE, tree, git)
          /\ UNCHANGED <<tree, messages, clock, unclocked>>
     ELSE LET done == ExecuteAll(batch)
          IN /\ tree' = done.tree /\ clock' = done.clock /\ unclocked' = done.unclocked
             /\ messages' = messages
                  \o <<[role |-> "assistant", ids |-> [i \in DOMAIN batch |-> batch[i].id], error |-> FALSE]>>
                  \o done.results
             /\ end' = IF turns + 1 = TurnCap THEN Reconciled("turn_cap", FALSE, done.tree, git) ELSE NoEnd

(* The reply is the answer.                                                *)
Answered(reported, price, git) ==
  /\ Sends(price)
  /\ end' = IF Over(usage + price) THEN Reconciled("budget", FALSE, tree, git)
            ELSE Reconciled("final", reported, tree, git)
  /\ UNCHANGED <<tree, messages, clock, unclocked>>

(* The request or its reply raises out of the loop: `price` is what the    *)
(* adapter has counted of it before that.                                  *)
Raised(what, price) ==
  /\ end.what = "none" /\ turns < TurnCap
  /\ billed' = billed + price
  /\ end' = [NoEnd EXCEPT !.what = what]
  /\ UNCHANGED <<tree, messages, turns, usage, clock, unclocked, ceiling>>

-----------------------------------------------------------------------------
(* The request of the Messages API: the results of one reply are one user  *)
(* message.                                                                *)
WireMessage(m) == [role |-> IF m.role = "tool" THEN "user" ELSE m.role,
                   ids |-> m.ids, blocks |-> m.role = "tool"]

Merge(acc, m) ==
  IF acc # <<>> /\ acc[Len(acc)].role = m.role /\ m.role = "user" /\ acc[Len(acc)].blocks /\ m.blocks
  THEN [acc EXCEPT ![Len(acc)].ids = @ \o m.ids]
  ELSE Append(acc, m)

ToAnthropic(ms) ==
  LET wire[i \in 0..Len(ms)] == IF i = 0 THEN <<>> ELSE Merge(wire[i - 1], WireMessage(ms[i]))
  IN wire[Len(ms)]
=============================================================================
