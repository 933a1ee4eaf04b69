------------------------------ MODULE EpicRun ------------------------------
(***************************************************************************)
(* The runs of one initiative (harness/epic.py: run_epic and _run_phase).  *)
(* A run loads the states of the items, walks the phases as PhaseDag says, *)
(* and in each phase opens the phase's branch, has its ready tasks built,  *)
(* validated and gated, merges what was cleared and moves it to approved.  *)
(* Between and beside the runs a human lands and requeues tasks.  The runs *)
(* follow each other, the lease sees to that: a run that lost it is        *)
(* `stale`, and every leader write has a fence.  The store is the          *)
(* authority on states (work_state: store).                                *)
(*                                                                         *)
(* A branch is the set of commits it holds, {} when there is no branch.    *)
(***************************************************************************)
EXTENDS PhaseDag

CONSTANTS
  Task,         \* numbers: the code sorts tasks by name
  PhaseOf,      \* the phase of each task
  Needs,        \* the tasks each task needs
  GitFaults,    \* whether a git command that reads may fail
  MaxRuns,      \* bound on the number of runs
  MaxMishaps    \* bound on what is taken from a run: branches, its lease, a task, an answer of the store

ASSUME EpicRunAssumption ==
  /\ Task \subseteq Nat
  /\ PhaseOf \in [Task -> Phase]
  /\ Needs \in [Task -> SUBSET Task]
  /\ GitFaults \in BOOLEAN
  /\ MaxRuns \in Nat /\ MaxMishaps \in Nat

VARIABLES
  work,      \* the state in each task's row
  tries,     \* the causes of the attempts counted on each task's current body
  unwritten,    \* history: the rows whose move to quarantined the store failed in this run
  main,      \* the commits of the default branch
  branch,    \* the phase branches
  drafts,    \* the tasks with a draft branch
  run,       \* what the current run knows and has done
  runs,      \* how many runs there were
  mishaps    \* how often something was taken from a run

store == <<work, tries, unwritten>>
repo == <<main, branch, drafts>>
vars == <<dagVars, store, repo, run, runs, mishaps>>

ATTEMPT_CAP == 2
State == {"ready", "approved", "done", "quarantined"}
Cause == {"own", "other"}     \* "own": the ticket's or the code's

Root == <<"root", 0>>
Work(t) == <<"work", t>>          \* a task's build, as it is on its draft
Landed(t) == <<"landed", t>>      \* its squash on main, with the same patch
Amended(t) == <<"amended", t>>    \* its squash on main, with a patch changed by the landing
Trim(p) == <<"trim", p>>
Commit ==
  {Root} \cup ({"work", "landed", "amended"} \X Task) \cup ({"trim"} \X Phase)

Places == {"idle", "open", "awaiting_land", "rebase", "block", "recreate", "ready", "triage",
           "refusing", "fanout", "taking", "validate", "chunks", "drafting", "merging", "moving",
           "tail", "close", "trim", "leave", "audit", "over"}

Run == [at : Places,
        copy : [Task -> State],    \* the items as the run knows them
        stale : BOOLEAN,           \* its lease was lost
        todo : SUBSET Task,        \* what the loop it is in has still to see
        ready : SUBSET Task,       \* the phase's ready tasks below their caps
        asked : SUBSET Task,       \* the phase's tasks with a proposal of triage for the gate
        verdict : {"none", "unmet", "met"},
        stops : BOOLEAN,           \* the runner cannot authenticate
        results : SUBSET Task, alive : SUBSET Task, governed : SUBSET Task,
        scratch : SUBSET Task,     \* tasks with a scratch branch of this run
        landed : SUBSET Task, merged : SUBSET Task, moved : SUBSET Task,
        quarantined : SUBSET Task]

FreshRun(states) ==
  [at |-> "idle", copy |-> states, stale |-> FALSE, todo |-> {}, ready |-> {}, asked |-> {},
   verdict |-> "none", stops |-> FALSE, results |-> {}, alive |-> {}, governed |-> {},
   scratch |-> {}, landed |-> {}, merged |-> {}, moved |-> {}, quarantined |-> {}]

EpicRunTypeOK ==
  /\ PhaseDagTypeOK
  /\ work \in [Task -> State]
  /\ tries \in [Task -> Seq(Cause)]
  /\ unwritten \in SUBSET Task
  /\ main \in SUBSET Commit
  /\ branch \in [Phase -> SUBSET Commit]
  /\ drafts \in SUBSET Task
  /\ run \in Run
  /\ runs \in Nat /\ mishaps \in Nat

In(p) == {t \in Task : PhaseOf[t] = p}
First(S) == {t \in S : \A u \in S : t <= u}

\* phase_parents: a need that is not done stacks its phase below.
GraphOf(states) ==
  [p \in Phase |-> {PhaseOf[n] : n \in {n \in UNION {Needs[t] : t \in In(p)} : states[n] # "done"}} \ {p}]

\* Some tasks may have landed before.
EpicRunInit ==
  /\ work \in [Task -> {"ready", "done"}]
  /\ tries = [t \in Task |-> <<>>]
  /\ unwritten = {}
  /\ main = {Root} \cup {Landed(t) : t \in {u \in Task : work[u] = "done"}}
  /\ branch = [p \in Phase |-> {}]
  /\ drafts = {}
  /\ run = FreshRun(work)
  /\ runs = 1
  /\ mishaps \in 0..MaxMishaps
  /\ parents = GraphOf(work)
  /\ ordered = <<>> /\ round = {} /\ stage = "ordering" /\ next = 1
  /\ running = NoPhase
  /\ status = [p \in Phase |-> "none"]

\* A run of the initiative, in an order of its own or after a crash of the one before.
LoadRun ==
  /\ runs < MaxRuns
  /\ Load(GraphOf(work))
  /\ run' = FreshRun(work)
  /\ runs' = runs + 1
  /\ unwritten' = {}
  /\ UNCHANGED <<work, tries, repo, mishaps>>

InProgress == stage \notin Ends \/ run.at = "audit"

----------------------------------------------------------------------------
(* Quarantine *)

\* row_should_quarantine: the rows that are not finished, and none for a stale leader.
Open(S, approvedIsOpen) ==
  {t \in S : ~run.stale /\ work[t] \in (IF approvedIsOpen THEN {"ready", "approved"} ELSE {"ready"})}

\* The open rows move to quarantined.  A store that fails is logged, and the row stays as it is.
Quarantine(S, approvedIsOpen) ==
  \E failed \in SUBSET Open(S, approvedIsOpen) :
    /\ failed # {} => mishaps < MaxMishaps
    /\ mishaps' = IF failed = {} THEN mishaps ELSE mishaps + 1
    /\ unwritten' = unwritten \cup failed
    /\ work' = [t \in Task |-> IF t \in Open(S, approvedIsOpen) \ failed THEN "quarantined" ELSE work[t]]

\* Attempts with a cause are counted; "none" is an infra attempt, or no attempt.
Count(S, cause) ==
  tries' = [t \in Task |->
    IF t \in S /\ ~run.stale /\ cause[t] # "none" THEN Append(tries[t], cause[t]) ELSE tries[t]]

Blamed(S) == [S -> Cause \cup {"none"}]

----------------------------------------------------------------------------
(* The phase's branch *)

Base(p) == IF parents[p] = {} THEN main ELSE branch[CHOOSE q \in parents[p] : TRUE]

Step(place) == run' = [run EXCEPT !.at = place]

\* _run_phase returns its record.
Return(outcome, stops) ==
  /\ EndPhase(outcome, stops)
  /\ run' = [run EXCEPT !.at = IF stops THEN "audit" ELSE "idle",
                        !.todo = {}, !.ready = {}, !.asked = {}, !.verdict = "none", !.stops = FALSE,
                        !.results = {}, !.alive = {}, !.governed = {}, !.landed = {}]
  /\ UNCHANGED <<runs, mishaps>>

EnterPhase(p) ==
  /\ StartPhase(p)
  /\ Step("open")
  /\ UNCHANGED <<store, repo, runs, mishaps>>

\* A stale leader, or a worktree that could not be created.
NotOpened ==
  /\ run.at = "open"
  /\ Return("blocked", FALSE)
  /\ UNCHANGED <<store, repo>>

OpenNew(p) ==
  /\ run.at = "open" /\ p = running /\ ~run.stale
  /\ branch[p] = {} /\ Base(p) # {}
  /\ branch' = [branch EXCEPT ![p] = Base(p)]
  /\ Step("ready")
  /\ UNCHANGED <<dagVars, store, main, drafts, runs, mishaps>>

\* `git cherry`: commits whose patch is not on main, merges left out.
Unlanded(p) ==
  {c \in branch[p] : c[1] = "trim" \/ (c[1] = "work" /\ Landed(c[2]) \notin main)}

\* Mutant: an approved task's commits count as landed.
ClassifyApprovedAsLanded(commits) ==
  LET states == {IF c[1] = "work" THEN run.copy[c[2]] ELSE "none" : c \in commits}
  IN  IF states \subseteq {"done", "approved"} THEN "recreate" ELSE "block"

\* classify_unlanded and what follows for a branch behind its base.
Classify(commits) ==
  LET states == {IF c[1] = "work" THEN run.copy[c[2]] ELSE "none" : c \in commits}
  IN  CASE states \subseteq {"done"} -> "recreate"
        [] states = {"approved"} -> "awaiting_land"
        [] states = {"approved", "done"} -> "rebase"
        [] OTHER -> "block"

\* A failed `merge-base` reads as a moved head, a failed `cherry` as nothing unlanded.
OpenReused(p) ==
  /\ run.at = "open" /\ p = running /\ ~run.stale
  /\ branch[p] # {}
  /\ \E moved \in {Base(p) = {} \/ ~(Base(p) \subseteq branch[p])} \cup (IF GitFaults THEN {TRUE} ELSE {}),
        commits \in {Unlanded(p)} \cup (IF GitFaults THEN {{}} ELSE {}) :
       Step(IF moved THEN Classify(commits) ELSE "ready")
  /\ UNCHANGED <<dagVars, store, repo, runs, mishaps>>

AwaitLand ==
  /\ run.at = "awaiting_land"
  /\ Return("awaiting_land", FALSE)
  /\ UNCHANGED <<store, repo>>

Block ==
  /\ run.at = "block"
  /\ Return("blocked", FALSE)
  /\ UNCHANGED <<store, repo>>

\* The commits are replayed onto the base; those that are on it become empty and go.
Rebase(p) ==
  /\ run.at = "rebase" /\ p = running
  /\ Base(p) # {}
  /\ branch' = [branch EXCEPT ![p] =
       Base(p) \cup {c \in @ : c[1] = "trim" \/ (c[1] = "work" /\ Landed(c[2]) \notin Base(p))}]
  /\ Step("ready")
  /\ UNCHANGED <<dagVars, store, main, drafts, runs, mishaps>>

RebaseConflicts ==
  /\ run.at = "rebase"
  /\ Return("blocked", FALSE)
  /\ UNCHANGED <<store, repo>>

Recreate(p) ==
  /\ run.at = "recreate" /\ p = running /\ ~run.stale
  /\ Base(p) # {}
  /\ branch' = [branch EXCEPT ![p] = Base(p)]
  /\ Step("ready")
  /\ UNCHANGED <<dagVars, store, main, drafts, runs, mishaps>>

\* The old branch is deleted before the new one is made.
RecreateFails(p) ==
  /\ run.at = "recreate" /\ p = running
  /\ branch' = IF run.stale THEN branch ELSE [branch EXCEPT ![p] = {}]
  /\ Return("blocked", FALSE)
  /\ UNCHANGED <<store, main, drafts>>

----------------------------------------------------------------------------
(* The phase's tasks: attempt caps, triage, fan-out *)

\* Mutant: an approved need is met, merged in this run or not.
MetIfApproved(n) == run.copy[n] \in {"done", "approved"}

\* _ready_view: a need is met when it is done, or this run merged it into the stack.
Met(n) == run.copy[n] = "done" \/ (run.copy[n] = "approved" /\ n \in run.merged)

ReadyTasks(p) == {t \in In(p) : run.copy[t] = "ready" /\ \A n \in Needs[t] : Met(n)}

\* Mutant: the cap is the same whatever the newest cause.
CapOfAny(t) == ATTEMPT_CAP

Cap(t) == IF tries[t] # <<>> /\ tries[t][Len(tries[t])] = "own" THEN 1 ELSE ATTEMPT_CAP

Select(p) ==
  /\ run.at = "ready" /\ p = running
  /\ LET capped == {t \in ReadyTasks(p) : Len(tries[t]) >= Cap(t)}
     IN  run' = [run EXCEPT !.at = "triage", !.todo = capped, !.ready = ReadyTasks(p) \ capped]
  /\ UNCHANGED <<dagVars, store, repo, runs, mishaps>>

\* Triage failed, repeats itself, names a class with no write, or its amendment failed.
TriageRefuses(t) ==
  /\ run.at = "triage" /\ t \in First(run.todo)
  /\ Quarantine({t}, FALSE)
  /\ run' = [run EXCEPT !.todo = @ \ {t}, !.quarantined = @ \cup {t}]
  /\ UNCHANGED <<dagVars, tries, repo, runs>>

\* An append-only amendment is written at once: the attempts were on another body.
TriageAmends(t) ==
  /\ run.at = "triage" /\ t \in First(run.todo) /\ ~run.stale
  /\ tries' = [tries EXCEPT ![t] = <<>>]
  /\ run' = [run EXCEPT !.todo = @ \ {t}, !.ready = @ \cup {t}]
  /\ UNCHANGED <<dagVars, work, unwritten, repo, runs, mishaps>>

TriageAsks(t) ==
  /\ run.at = "triage" /\ t \in First(run.todo)
  /\ run' = [run EXCEPT !.todo = @ \ {t}, !.asked = @ \cup {t}]
  /\ UNCHANGED <<dagVars, store, repo, runs, mishaps>>

TriageEnds ==
  /\ run.at = "triage" /\ run.todo = {}
  /\ Step("refusing")
  /\ UNCHANGED <<dagVars, store, repo, runs, mishaps>>

\* Over the budget cap, or aimed at the wrong repository: refused without an attempt.
Refuse(unfit) ==
  /\ run.at = "refusing"
  /\ unfit \subseteq run.ready
  /\ Quarantine(unfit, FALSE)
  /\ run' = [run EXCEPT !.at = "fanout", !.todo = run.ready \ unfit, !.quarantined = @ \cup unfit]
  /\ UNCHANGED <<dagVars, tries, repo, runs>>

\* The fan-out returns.  What raised is quarantined; the rest has a result.
FanOut(failed, cause, stops) ==
  /\ run.at = "fanout"
  /\ failed \subseteq run.todo /\ cause \in Blamed(failed)
  /\ stops => failed # {}
  /\ Quarantine(failed, FALSE)
  /\ Count(failed, cause)
  /\ run' = [run EXCEPT !.at = "taking", !.todo = @ \ failed, !.results = run.todo \ failed,
                        !.stops = stops, !.quarantined = @ \cup failed]
  /\ UNCHANGED <<dagVars, repo, runs>>

\* Refused by the reviewers, a node failed, or the harness could not build it.
TakeRefused(t, cause) ==
  /\ run.at = "taking" /\ t \in First(run.todo)
  /\ cause \in Blamed({t})
  /\ Quarantine({t}, FALSE)
  /\ Count({t}, cause)
  /\ run' = [run EXCEPT !.todo = @ \ {t}, !.quarantined = @ \cup {t}]
  /\ UNCHANGED <<dagVars, repo, runs>>

\* Approved by the reviewers: applied on a scratch branch off the phase branch.
TakeBuilt(t, governed) ==
  /\ run.at = "taking" /\ t \in First(run.todo)
  /\ run' = [run EXCEPT !.todo = @ \ {t}, !.scratch = @ \cup {t}, !.alive = @ \cup {t},
                        !.governed = IF governed THEN @ \cup {t} ELSE @]
  /\ UNCHANGED <<dagVars, store, repo, runs, mishaps>>

\* So too, but its checks fail, through the rounds of _refix.
TakeUnverified(t, cause) ==
  /\ run.at = "taking" /\ t \in First(run.todo)
  /\ cause \in [{t} -> Cause]
  /\ Quarantine({t}, FALSE)
  /\ Count({t}, cause)
  /\ run' = [run EXCEPT !.todo = @ \ {t}, !.scratch = @ \cup {t}, !.quarantined = @ \cup {t}]
  /\ UNCHANGED <<dagVars, repo, runs>>

TakeEnds ==
  /\ run.at = "taking" /\ run.todo = {}
  /\ Step("validate")
  /\ UNCHANGED <<dagVars, store, repo, runs, mishaps>>

----------------------------------------------------------------------------
(* Validation, gate and execution *)

\* open_in_phase
OpenTasks(p) == {t \in In(p) : run.copy[t] # "done"} \ (run.results \cup run.quarantined)

Judged(p) == run.results # {} /\ OpenTasks(p) = {}

\* A phase with open tasks is not judged; the validator may fail, and then nothing is refused.
Validate(p, verdict) ==
  /\ run.at = "validate" /\ p = running
  /\ ~Judged(p) => verdict = (IF run.results = {} THEN "none" ELSE "unmet")
  /\ run' = [run EXCEPT !.at = "chunks", !.verdict = verdict,
                        !.todo = IF Judged(p) /\ verdict # "none" THEN run.alive ELSE {}]
  /\ UNCHANGED <<dagVars, store, repo, runs, mishaps>>

ChunkSatisfied(t) ==
  /\ run.at = "chunks" /\ t \in First(run.todo)
  /\ run' = [run EXCEPT !.todo = @ \ {t}]
  /\ UNCHANGED <<dagVars, store, repo, runs, mishaps>>

ChunkUnsatisfied(t, cause) ==
  /\ run.at = "chunks" /\ t \in First(run.todo)
  /\ cause \in [{t} -> Cause]
  /\ Quarantine({t}, FALSE)
  /\ Count({t}, cause)
  /\ run' = [run EXCEPT !.todo = @ \ {t}, !.alive = @ \ {t}, !.quarantined = @ \cup {t}]
  /\ UNCHANGED <<dagVars, repo, runs>>

\* The batch: every draft, then every merge, then every move, in the order of the tasks.
NextSlot(from, to) ==
  /\ run.at = from /\ run.todo = {}
  /\ run' = [run EXCEPT !.at = to, !.todo = run.alive]
  /\ UNCHANGED <<dagVars, store, repo, runs, mishaps>>

BatchStep ==
  \/ NextSlot("chunks", "drafting")
  \/ NextSlot("drafting", "merging")
  \/ NextSlot("merging", "moving")

\* Refused at the gate, nothing this driver executes, or a store that refuses the move.
Skip(t) ==
  /\ run.at \in {"drafting", "merging", "moving"} /\ t \in First(run.todo)
  /\ run' = [run EXCEPT !.todo = @ \ {t}]
  /\ UNCHANGED <<dagVars, store, repo, runs, mishaps>>

\* Cleared, but the lease is lost: not an attempt.
RefuseStale(t) ==
  /\ run.at \in {"drafting", "merging", "moving"} /\ t \in First(run.todo)
  /\ run.stale
  /\ run' = [run EXCEPT !.todo = @ \ {t}, !.quarantined = @ \cup {t}]
  /\ UNCHANGED <<dagVars, store, repo, runs, mishaps>>

\* `git branch` fails for a draft that exists.
Draft(t) ==
  /\ run.at = "drafting" /\ t \in First(run.todo) /\ ~run.stale
  /\ t \notin run.governed /\ t \notin drafts
  /\ drafts' = drafts \cup {t}
  /\ run' = [run EXCEPT !.todo = @ \ {t}, !.landed = @ \cup {t}]
  /\ UNCHANGED <<dagVars, store, main, branch, runs, mishaps>>

Merge(t) ==
  /\ run.at = "merging" /\ t \in First(run.todo) /\ ~run.stale
  /\ t \notin run.governed /\ t \in run.landed
  /\ branch' = [branch EXCEPT ![PhaseOf[t]] = @ \cup {Work(t)}]
  /\ run' = [run EXCEPT !.todo = @ \ {t}, !.merged = @ \cup {t}]
  /\ UNCHANGED <<dagVars, store, main, drafts, runs, mishaps>>

\* Mutant: the row of a task whose merge conflicts is left to its move.
ConflictLeftToMove(t) ==
  /\ run.at = "merging" /\ t \in First(run.todo) /\ ~run.stale
  /\ t \notin run.governed /\ t \in run.landed
  /\ run' = [run EXCEPT !.todo = @ \ {t}, !.quarantined = @ \cup {t}]
  /\ UNCHANGED <<dagVars, store, repo, runs, mishaps>>

MergeConflicts(t) ==
  /\ run.at = "merging" /\ t \in First(run.todo) /\ ~run.stale
  /\ t \notin run.governed /\ t \in run.landed
  /\ Quarantine({t}, TRUE)
  /\ run' = [run EXCEPT !.todo = @ \ {t}, !.quarantined = @ \cup {t}]
  /\ UNCHANGED <<dagVars, tries, repo, runs>>

\* kept_work_refusal: merged, or for a governed task on its scratch branch.
WorkKept(t) == IF t \in run.governed THEN t \in run.scratch ELSE t \in run.merged

Move(t) ==
  /\ run.at = "moving" /\ t \in First(run.todo) /\ ~run.stale
  /\ WorkKept(t)
  /\ work[t] = run.copy[t]
  /\ work' = [work EXCEPT ![t] = "approved"]
  /\ run' = [run EXCEPT !.todo = @ \ {t}, !.moved = @ \cup {t}]
  /\ UNCHANGED <<dagVars, tries, unwritten, repo, runs, mishaps>>

\* The row is in another state than the run knows of.
MoveMismatch(t) ==
  /\ run.at = "moving" /\ t \in First(run.todo) /\ ~run.stale
  /\ WorkKept(t)
  /\ work[t] # run.copy[t]
  /\ run' = [run EXCEPT !.todo = @ \ {t}, !.copy[t] = work[t]]
  /\ UNCHANGED <<dagVars, store, repo, runs, mishaps>>

MoveUnkept(t) ==
  /\ run.at = "moving" /\ t \in First(run.todo) /\ ~run.stale
  /\ ~WorkKept(t)
  /\ IF t \in run.quarantined THEN UNCHANGED <<work, unwritten, mishaps>> ELSE Quarantine({t}, FALSE)
  /\ run' = [run EXCEPT !.todo = @ \ {t}, !.quarantined = @ \cup {t}]
  /\ UNCHANGED <<dagVars, tries, repo, runs>>

\* The proposals of triage come last in the batch; an amendment makes another body.
ExecuteAsked(amended) ==
  /\ run.at = "moving" /\ run.todo = {}
  /\ amended \subseteq (IF run.stale THEN {} ELSE run.asked)
  /\ tries' = [t \in Task |-> IF t \in amended THEN <<>> ELSE tries[t]]
  /\ Step("close")
  /\ UNCHANGED <<dagVars, work, unwritten, repo, runs, mishaps>>

----------------------------------------------------------------------------
(* The end of a phase and of a run *)

\* _phase_status
PhaseStatus(p) ==
  IF \/ /\ run.ready = {} /\ In(p) \cap run.quarantined = {}
        /\ \A t \in In(p) : run.copy[t] \in {"done", "approved"}
     \/ run.verdict = "met" /\ run.alive # {} /\ run.alive \subseteq run.merged
    THEN "complete"
    ELSE "partial"

\* What was moved is approved in the run's own copy, so that its dependents become ready.
Reconcile(p) ==
  /\ run.at = "close" /\ p = running
  /\ run' = [run EXCEPT !.at = "trim",
                        !.copy = [t \in Task |-> IF t \in run.moved \cap In(p) THEN "approved" ELSE @[t]]]
  /\ UNCHANGED <<dagVars, store, repo, runs, mishaps>>

Trimmable(p) == run.at = "trim" /\ PhaseStatus(p) = "complete" /\ run.verdict = "met" /\ ~run.stale

TrimPhase(p) ==
  /\ p = running /\ Trimmable(p)
  /\ branch' = [branch EXCEPT ![p] = @ \cup {Trim(p)}]
  /\ Step("leave")
  /\ UNCHANGED <<dagVars, store, main, drafts, runs, mishaps>>

NoTrim ==
  /\ run.at = "trim"
  /\ Step("leave")
  /\ UNCHANGED <<dagVars, store, repo, runs, mishaps>>

Leave(p) ==
  /\ run.at = "leave" /\ p = running
  /\ Return(IF run.stale THEN "blocked" ELSE PhaseStatus(p), run.stops)
  /\ UNCHANGED <<store, repo>>

\* Where a model call may meet the account's limit.
LimitPoint(p) ==
  \/ run.at \in {"triage", "fanout", "taking", "chunks"} /\ run.todo # {}
  \/ run.at = "validate" /\ Judged(p)
  \/ run.at = "moving" /\ run.todo = {} /\ run.asked # {}
  \/ Trimmable(p)

LimitStop(p) ==
  /\ p = running /\ LimitPoint(p)
  /\ PausePhase
  /\ Step("audit")
  /\ UNCHANGED <<store, repo, runs, mishaps>>

EndRun ==
  /\ EndWalk
  /\ Step("audit")
  /\ UNCHANGED <<store, repo, runs, mishaps>>

\* Mutant: a phase branch that is there is taken to hold the merge.
KeptIfThere(t) ==
  IF t \in run.merged THEN t \in drafts /\ branch[PhaseOf[t]] # {} ELSE t \in run.scratch

\* The branch that holds an approved task's work is there and holds it.
StillKept(t) ==
  IF t \in run.merged THEN t \in drafts /\ Work(t) \in branch[PhaseOf[t]] ELSE t \in run.scratch

\* Tasks of the returned phases that the run moved to approved.
Audited == {t \in run.moved : status[PhaseOf[t]] # "none" /\ t \notin run.quarantined}

\* Nothing is left of what a run knew but its scratch branches.
Over == run' = [FreshRun(work') EXCEPT !.at = "over", !.scratch = run.scratch]

Audit ==
  /\ run.at = "audit"
  /\ LET lost == {t \in Audited : ~StillKept(t)}
     IN  /\ Quarantine(lost, TRUE)
         /\ Count(lost, [t \in lost |-> "other"])
         /\ Over
  /\ UNCHANGED <<dagVars, repo, runs>>

Crash ==
  /\ Raise
  /\ UNCHANGED <<store, repo, runs, mishaps>>
  /\ Over

----------------------------------------------------------------------------
(* Beside the run *)

\* A human lands an approved task, with its patch as it is or changed on the way.
Land(t, squash) ==
  /\ work[t] = "approved"
  /\ t \in drafts \/ t \in run.scratch \/ Work(t) \in branch[PhaseOf[t]]
  /\ work' = [work EXCEPT ![t] = "done"]
  /\ main' = main \cup {squash}
  /\ UNCHANGED <<dagVars, tries, unwritten, branch, drafts, run, runs, mishaps>>

\* A human makes a quarantined task ready again, with a rewritten body or not.
Requeue(t, rewritten) ==
  /\ ~InProgress
  /\ work[t] = "quarantined"
  /\ work' = [work EXCEPT ![t] = "ready"]
  /\ tries' = IF rewritten THEN [tries EXCEPT ![t] = <<>>] ELSE tries
  /\ UNCHANGED <<dagVars, unwritten, repo, run, runs, mishaps>>

\* A human takes a ready task out of the run's hands (store_cli: set-state).
SetAside(t) ==
  /\ mishaps < MaxMishaps
  /\ InProgress /\ work[t] = "ready"
  /\ work' = [work EXCEPT ![t] = "quarantined"]
  /\ mishaps' = mishaps + 1
  /\ UNCHANGED <<dagVars, tries, unwritten, repo, run, runs>>

\* Git lets nobody delete or reset a branch that is checked out.
LoseBranch(p) ==
  /\ mishaps < MaxMishaps
  /\ p # running /\ branch[p] # {}
  /\ \E left \in {{}, main} : branch' = [branch EXCEPT ![p] = left]
  /\ mishaps' = mishaps + 1
  /\ UNCHANGED <<dagVars, store, main, drafts, run, runs>>

LoseScratch(t) ==
  /\ mishaps < MaxMishaps
  /\ t \in run.scratch /\ PhaseOf[t] # running
  /\ run' = [run EXCEPT !.scratch = @ \ {t}]
  /\ mishaps' = mishaps + 1
  /\ UNCHANGED <<dagVars, store, repo, runs>>

LoseLease ==
  /\ mishaps < MaxMishaps
  /\ InProgress /\ ~run.stale
  /\ run' = [run EXCEPT !.stale = TRUE]
  /\ mishaps' = mishaps + 1
  /\ UNCHANGED <<dagVars, store, repo, runs>>

----------------------------------------------------------------------------

\* The order of the phases, as PhaseDag has it.
WalkStep ==
  /\ \/ BeginRound \/ EndOrder
     \/ \E p \in Phase : Append1(p) \/ SkipPhase(p)
  /\ UNCHANGED <<store, repo, run, runs, mishaps>>

OpenStep ==
  \/ NotOpened \/ AwaitLand \/ Block \/ RebaseConflicts
  \/ \E p \in Phase : EnterPhase(p) \/ OpenNew(p) \/ OpenReused(p) \/ Rebase(p) \/ Recreate(p) \/ RecreateFails(p)

BuildStep ==
  \/ \E p \in Phase : Select(p)
  \/ \E t \in Task : TriageRefuses(t) \/ TriageAmends(t) \/ TriageAsks(t)
  \/ TriageEnds
  \/ \E unfit \in SUBSET run.ready : Refuse(unfit)
  \/ \E failed \in SUBSET run.todo : \E cause \in Blamed(failed), stops \in BOOLEAN : FanOut(failed, cause, stops)
  \/ \E t \in Task : \E cause \in Blamed({t}) : TakeRefused(t, cause) \/ TakeUnverified(t, cause)
  \/ \E t \in Task, governed \in BOOLEAN : TakeBuilt(t, governed)
  \/ TakeEnds

GateStep ==
  \/ \E p \in Phase, verdict \in {"none", "unmet", "met"} : Validate(p, verdict)
  \/ \E t \in Task : ChunkSatisfied(t) \/ \E cause \in Blamed({t}) : ChunkUnsatisfied(t, cause)
  \/ BatchStep
  \/ \E t \in Task : Skip(t) \/ RefuseStale(t) \/ Draft(t) \/ Merge(t) \/ MergeConflicts(t)
  \/ \E t \in Task : Move(t) \/ MoveMismatch(t) \/ MoveUnkept(t)
  \/ \E amended \in SUBSET run.asked : ExecuteAsked(amended)

EndStep ==
  \/ \E p \in Phase : Reconcile(p) \/ TrimPhase(p) \/ Leave(p) \/ LimitStop(p)
  \/ NoTrim \/ EndRun \/ Audit \/ Crash

Beside ==
  \/ \E t \in Task : \E squash \in {Landed(t), Amended(t)} : Land(t, squash)
  \/ \E t \in Task, rewritten \in BOOLEAN : Requeue(t, rewritten)
  \/ \E p \in Phase : LoseBranch(p)
  \/ \E t \in Task : SetAside(t) \/ LoseScratch(t)
  \/ LoseLease

EpicRunNext == WalkStep \/ OpenStep \/ BuildStep \/ GateStep \/ EndStep \/ Beside \/ LoadRun

EpicRunSpec == EpicRunInit /\ [][EpicRunNext]_vars

----------------------------------------------------------------------------
(* Properties *)

\* What a task needs is in the ground its build is applied to, whatever was landed, recreated or
\* rebased since, unless somebody took it off the branch this run had merged it into, and the audit
\* then finds it missing (epic.py: _ready_view, _open_phase_worktree, branch_action).
BuildsOnNeeds ==
  [][\A t \in run'.scratch \ run.scratch : \A n \in Needs[t] :
       \/ {Work(n), Landed(n), Amended(n)} \cap branch[PhaseOf[t]] # {}
       \/ n \in run.merged /\ Work(n) \notin branch[PhaseOf[n]]]_vars

\* The driver takes no commit off a phase branch whose task is not landed (epic.py:2061).
UnlandedSurvives ==
  [][\/ \E p \in Phase : LoseBranch(p)
     \/ \A p \in Phase, t \in Task :
          Work(t) \in branch[p] \ branch'[p] => {Landed(t), Amended(t)} \cap main # {}]_vars

\* A task the run moved to approved is at the end of the run on its branch, or is not approved
\* any more, unless the store failed the audit's write of its row (epic.py: _audit_approved_kept).
ApprovedIsKept ==
  [][run.at = "audit" /\ run'.at = "over" /\ ~run.stale =>
       \A t \in run.moved \ unwritten' : status[PhaseOf[t]] # "none" /\ work'[t] = "approved" =>
         IF t \in run.merged THEN Work(t) \in branch[PhaseOf[t]] ELSE t \in run.scratch]_vars

\* What a run reports quarantined no later run takes for ready or approved, but for a row whose own
\* write the store failed: that is logged, and the row stays as it was (epic.py: _quarantine_row).
QuarantineIsStored ==
  [][run.at = "audit" /\ run'.at = "over" /\ ~run.stale =>
       \A t \in run.quarantined \ unwritten' : work'[t] \notin {"ready", "approved"}]_vars

\* No body is built a third time, nor a second time after a fault of its own (epic.py:1986).
CappedAttempts ==
  \A t \in Task : Len(tries[t]) <= ATTEMPT_CAP /\ (Len(tries[t]) = ATTEMPT_CAP => tries[t][1] = "other")
=============================================================================
