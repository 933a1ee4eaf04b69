------------------------------- MODULE Rescue -------------------------------
(* The rescue of one quarantined task (harness/epic.py rescue_task, with
   rescue_select.py, rescue_checks.py, resume.py and graphs/delivery/
   rescue_review.py): the patch a harness fault stopped is checked again,
   reviewed once, put on a branch of its own and moved to approved. Beside it
   the driver builds the task again, and a human requeues it, edits its ticket,
   lands it, or lands something else on the default branch. The row is the
   store's (work_state store). A lease is taken by whoever begins: the leader is
   the one whose fence holds. *)
EXTENDS Naturals, Sequences

CONSTANTS Rescuer,      \* run ids of rescues
          Build,        \* run ids of the driver
          MaxLaunches,  \* bound: launches under one rescue's run id
          MaxAttempts, MaxBody, MaxMain  \* bounds: builds, ticket texts, landings

ASSUME RescueConstants ==
    /\ Rescuer \cap Build = {} /\ Rescuer # {} /\ Build # {}
    /\ MaxLaunches \in Nat \ {0} /\ MaxAttempts \in Nat \ {0}
    /\ MaxBody \in Nat \ {0} /\ MaxMain \in Nat

NoRun == "no run"
Fault == "harness"

VARIABLES row, body, main, \* the task's state, the version of its ticket, the default branch's head
          attempts,     \* the file's: [run, body, ts], with no cause in them
          stored,       \* the store's: [run, kind, cause, ts], oldest first; about: ghost, the body meant
          savedPatch,        \* per build run: the patch of its saved result, 0 for none
          branches,     \* rescue run -> the branch agents/<run>/<task>
          taskRow,      \* the tasks table, per rescue run
          leader, clock,
          stage, launches,
          view          \* per rescue: what it read when it began

rescueVars ==
    <<row, body, main, attempts, stored, savedPatch, branches, taskRow, leader, clock, stage, launches, view>>
ticket == <<body, main, attempts, savedPatch>>
outcome == <<stored, branches, taskRow, clock>>

Nothing == [state |-> "ready", body |-> 1, patch |-> 0, seen |-> 0]
NoBranch == [base |-> 0, patch |-> 0]

RescueInit ==
    /\ row = "ready" /\ body = 1 /\ main = 1
    /\ attempts = <<>> /\ stored = <<>> /\ clock = 1
    /\ savedPatch = [b \in Build |-> 0]
    /\ branches = [r \in Rescuer |-> NoBranch]
    /\ taskRow = [r \in Rescuer |-> "none"]
    /\ leader = NoRun
    /\ stage = [r \in Rescuer |-> "idle"] /\ launches = [r \in Rescuer |-> 0]
    /\ view = [r \in Rescuer |-> Nothing]

-----------------------------------------------------------------------------
\* Which task a rescue may take.

Stored == {stored[i] : i \in DOMAIN stored}

\* _with_stored_causes, by run and time; else with_stored_causes, the newest of
\* the run's rows.
CauseOf(a) ==
    LET exact == {s \in Stored : s.run = a.run /\ s.ts = a.ts}
        rows == IF exact # {} THEN exact ELSE {s \in Stored : s.run = a.run}
    IN  IF rows = {} THEN "none" ELSE (CHOOSE s \in rows : \A t \in rows : s.ts >= t.ts).cause

OnThisBody == {attempts[i] : i \in {j \in DOMAIN attempts : attempts[j].body = body}}

\* Mutant: a stored rescue is always about an older ticket.
NoRescuesOnThisBody == {}

\* with_stored_rescues: a stored rescue no older than the first attempt on the
\* current text is about it.
RescuesOnThisBody ==
    {s \in Stored : s.kind = "rescue_failed" /\ \E a \in OnThisBody : a.ts <= s.ts}

\* eligible: a patch is kept, the last attempt's cause is the harness, and no
\* rescue has failed on this text.
LastCause ==
    LET last == CHOOSE a \in OnThisBody : \A b \in OnThisBody : a.ts >= b.ts IN CauseOf(last)
KeptPatch == IF attempts = <<>> THEN 0 ELSE savedPatch[attempts[Len(attempts)].run]
Eligible == /\ KeptPatch # 0 /\ OnThisBody # {}
            /\ RescuesOnThisBody = {} /\ LastCause = Fault

-----------------------------------------------------------------------------
Working == {"verify", "review", "land", "gate", "move"}

Goto(r, l) == stage' = [stage EXCEPT ![r] = l]

\* _run_rescue: the lease, the item with the row's state, the patch of its last
\* attempt's run; rescue_task begins with eligible.
Begin(r) ==
    /\ stage[r] \notin Working /\ launches[r] < MaxLaunches
    /\ launches' = [launches EXCEPT ![r] = @ + 1]
    /\ leader' = r
    /\ view' = [view EXCEPT ![r] =
                  [state |-> row, body |-> body, patch |-> KeptPatch, seen |-> Len(attempts)]]
    /\ Goto(r, IF Eligible THEN "verify" ELSE "not_eligible")
    /\ UNCHANGED <<row, ticket, outcome>>

\* _fenced. A fence and the record behind it are one step here.
Fenced(r) == leader = r

\* Mutant: a finished row is set aside too.
QuarantinesAny == row # "quarantined"

\* row_should_quarantine, of a row read just before.
Quarantines == row \notin {"approved", "done", "quarantined"}

\* _record_tasks, under the fence: the first row of a run and task stays.
TaskRow(r, s) == [taskRow EXCEPT ![r] = IF @ = "none" /\ Fenced(r) THEN s ELSE @]

\* _rescue_failed: under the fence a rescue_failed attempt with the rule's cause,
\* the row set aside, and a quarantined task row. The file takes no such attempt.
Fail(r, cause) ==
    /\ Goto(r, "rescue_failed")
    /\ IF Fenced(r)
       THEN /\ stored' = Append(stored, [run |-> r, kind |-> "rescue_failed", cause |-> cause,
                                         ts |-> clock, about |-> view[r].body])
            /\ clock' = clock + 1
            /\ row' = IF Quarantines THEN "quarantined" ELSE row
            /\ taskRow' = TaskRow(r, "quarantined")
       ELSE UNCHANGED <<stored, clock, row, taskRow>>

\* verify_patch, in a fresh worktree of the default branch: the patch does not
\* apply or a check fails (code), a check could not run (harness), or all pass.
Verify(r) ==
    /\ stage[r] = "verify"
    /\ \/ Goto(r, "review") /\ UNCHANGED <<row, outcome>>
       \/ \E cause \in {"code", Fault} : Fail(r, cause) /\ UNCHANGED branches
    /\ UNCHANGED <<ticket, leader, launches, view>>

\* rescue_review.run: a patch that does not parse and an incomplete handoff are
\* revised unasked; else one round, where a reviewer may fail to answer.
Verdict(parses, handoff, round) ==
    IF ~parses THEN "revise"
    ELSE CASE handoff = "raised" -> "unanswered"
           [] handoff = "incomplete" -> "revise"
           [] OTHER -> round

\* rescue_task on the verdict; the account's limit stops the run, another raise ends it.
Review(r) ==
    /\ stage[r] = "review"
    /\ \E parses \in BOOLEAN, handoff \in {"unbound", "complete", "incomplete", "raised"},
          round \in {"approve", "revise", "unanswered", "limit"} :
         LET v == Verdict(parses, handoff, round) IN
         \/ v = "approve" /\ Goto(r, "land") /\ UNCHANGED <<row, outcome>>
         \/ v = "revise" /\ Fail(r, "review") /\ UNCHANGED branches
         \/ v = "unanswered" /\ Goto(r, "review_failed") /\ UNCHANGED <<row, outcome>>
         \/ v = "limit" /\ Goto(r, "stopped") /\ UNCHANGED <<row, outcome>>
    /\ UNCHANGED <<ticket, leader, launches, view>>

\* create_worktree: `worktree add -b` fails on a branch that exists.
MayCreate(r) == branches[r] = NoBranch

\* The branch with the patch's commit on it.
Made(r) == IF branches[r] = NoBranch THEN [base |-> main, patch |-> view[r].patch] ELSE branches[r]

\* _land_branch: the branch on the default branch's head, with the patch as one
\* commit; a patch that does not commit there takes the branch with it.
Land(r) ==
    /\ stage[r] = "land"
    /\ \/ /\ MayCreate(r)
          /\ branches' = [branches EXCEPT ![r] = Made(r)]
          /\ Goto(r, "gate")
          /\ UNCHANGED <<row, stored, taskRow, clock>>
       \/ Fail(r, Fault) /\ UNCHANGED branches
    /\ UNCHANGED <<ticket, leader, launches, view>>

\* A refused move: the branch stays, and the run's task row says quarantined.
Refused(r) == Goto(r, "move_refused") /\ taskRow' = TaskRow(r, "quarantined") /\ UNCHANGED row

\* _rescue_move: the policy or a human clears the move, and _execute reads the
\* fence. The branch was just made, so _unkept_work has nothing to say.
Gate(r) ==
    /\ stage[r] = "gate"
    /\ \/ Fenced(r) /\ Goto(r, "move") /\ UNCHANGED <<row, taskRow>>
       \/ Refused(r)
    /\ UNCHANGED <<ticket, stored, branches, clock, leader, launches, view>>

\* _store_first: the row is still in the state the rescue read.
Stands(r) == row = view[r].state

\* The move itself, with no epoch, and rescue_task's last record.
Move(r) ==
    /\ stage[r] = "move"
    /\ IF Stands(r)
       THEN row' = "approved" /\ Goto(r, "approved") /\ taskRow' = TaskRow(r, "approved")
       ELSE Refused(r)
    /\ UNCHANGED <<ticket, stored, branches, clock, leader, launches, view>>

\* The process dies; what it wrote stays, its branch too.
Kill(r) ==
    /\ stage[r] \in Working
    /\ Goto(r, "dead")
    /\ UNCHANGED <<row, ticket, outcome, leader, launches, view>>

-----------------------------------------------------------------------------
\* The driver builds a ready task under its own lease: the patch is set aside
\* with its cause, kept or not, or approved.
Attempt(b) ==
    /\ row = "ready" /\ Len(attempts) < MaxAttempts
    /\ leader' = b
    /\ \E cause \in {"code", Fault}, kept \in BOOLEAN :
        /\ stored' = Append(stored,
                [run |-> b, kind |-> "infra", cause |-> cause, ts |-> clock, about |-> body])
        /\ savedPatch' = [savedPatch EXCEPT ![b] = IF kept THEN clock ELSE @]
    /\ attempts' = Append(attempts, [run |-> b, body |-> body, ts |-> clock])
    /\ clock' = clock + 1
    /\ row' = "quarantined"
    /\ UNCHANGED <<body, main, branches, taskRow, stage, launches, view>>

BuildApproved(b) ==
    /\ row = "ready" /\ row' = "approved" /\ leader' = b
    /\ UNCHANGED <<ticket, outcome, stage, launches, view>>

\* A human edits the ticket, requeues the task, lands it, or marks it done by hand;
\* and lands other work.
Human ==
    /\ \/ body < MaxBody /\ body' = body + 1 /\ UNCHANGED <<row, main>>
       \/ row = "quarantined" /\ row' \in {"ready", "done"} /\ UNCHANGED <<body, main>>
       \/ row = "approved" /\ row' = "done" /\ main < MaxMain /\ main' = main + 1 /\ UNCHANGED body
       \/ main < MaxMain /\ main' = main + 1 /\ UNCHANGED <<row, body>>
    /\ UNCHANGED <<attempts, savedPatch, outcome, leader, stage, launches, view>>

RescueNext ==
    \/ \E r \in Rescuer : Begin(r) \/ Verify(r) \/ Review(r) \/ Land(r) \/ Gate(r) \/ Move(r) \/ Kill(r)
    \/ \E b \in Build : Attempt(b) \/ BuildApproved(b)
    \/ Human

RescueSpec == RescueInit /\ [][RescueNext]_rescueVars

-----------------------------------------------------------------------------
\* The types of the task, of the store's rows and of the rescues (epic.py).
RescueTypeOK ==
    /\ row \in {"ready", "quarantined", "approved", "done"}
    /\ body \in 1..MaxBody /\ main \in 1..(MaxMain + 1) /\ clock \in Nat
    /\ Len(attempts) <= MaxAttempts
    /\ \A i \in DOMAIN stored : stored[i].ts < clock /\ stored[i].run \in Rescuer \cup Build
    /\ leader \in Rescuer \cup Build \cup {NoRun}
    /\ \A r \in Rescuer :
        /\ branches[r].base \in 0..(MaxMain + 1) /\ view[r].patch \in 0..clock
        /\ taskRow[r] \in {"none", "quarantined", "approved"}
        /\ stage[r] \in Working \cup {"idle", "dead", "not_eligible", "rescue_failed", "review_failed",
                                   "stopped", "move_refused", "approved"}

\* One ticket text is the subject of at most one failed rescue, whichever rescues
\* overlap, die and are launched again, and however the text is edited meanwhile
\* (rescue_select.eligible, with_stored_rescues).
OneFailurePerBody ==
    \A i, j \in DOMAIN stored :
        (stored[i].kind = "rescue_failed" /\ stored[j].kind = "rescue_failed"
          /\ stored[i].about = stored[j].about) => i = j

\* A rescue at work is about a task whose last attempt, when it began, was stopped
\* by the harness (rescue_select.eligible, the merges of stored causes).
HarnessStoppedIt ==
    \A r \in Rescuer : stage[r] \in Working =>
        \E i \in DOMAIN stored : /\ stored[i].cause = Fault
                                 /\ stored[i].ts = attempts[view[r].seen].ts
                                 /\ stored[i].run = attempts[view[r].seen].run

\* A rescue that moved the task to approved left a branch with the patch it
\* checked, not an earlier launch's (_land_branch).
ApprovedHasItsPatch ==
    \A r \in Rescuer : stage[r] \in {"gate", "move", "approved"} =>
        branches[r].patch = view[r].patch /\ view[r].patch # 0

\* A task that became approved or done while its rescue ran is not set aside by
\* the rescue's failure (row_should_quarantine).
FinishedIsNotSetAside ==
    [][(row \in {"approved", "done"}) => row' # "quarantined"]_rescueVars

\* No rescue passes the gate for a task that was built again since the rescue read
\* it: a build takes the lease from it (_execute's fence; the row alone would not
\* tell, for it is quarantined again).
LastAttemptAtTheGate ==
    [][\A r \in Rescuer : (stage[r] = "gate" /\ stage'[r] = "move") => view[r].seen = Len(attempts)]_rescueVars

\* A rescue is tried once per text, of a patch the harness stopped, and that patch is
\* what it leaves (rescue_select.py, rescue_task).
RescueIsSparing == RescueTypeOK /\ OneFailurePerBody /\ HarnessStoppedIt /\ ApprovedHasItsPatch

\* A rescue gives way to what happened to its task meanwhile (row_should_quarantine,
\* _execute).
RescueGivesWay == FinishedIsNotSetAside /\ LastAttemptAtTheGate
=============================================================================
