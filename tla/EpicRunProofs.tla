--------------------------- MODULE EpicRunProofs ---------------------------
(***************************************************************************)
(* The safety of the runs of an initiative, for every set of phases and    *)
(* tasks and any number of runs.                                           *)
(*   - The runs are runs of PhaseDag, so its theorems hold of them.        *)
(*   - A task's work leaves a phase branch only when it is on main: LandInv*)
(*     says that what the run knows as done is on main, and that a branch  *)
(*     about to be recreated holds landed work only.                       *)
(*   - Attempts are capped: HandInv says a task is in one place of the run *)
(*     only, and CapInv that what the run may still fail is below its cap. *)
(*   - What a run quarantines or keeps is so at its end: TouchInv says     *)
(*     whose tasks a run has touched, HandsOffInv that it has in hand      *)
(*     nothing it quarantined, RowInv that the rows say what the run holds.*)
(*   - A task is built on what it needs: NeedInv says where its needs are, *)
(*     MetInv that they are met, GroundInv that an opened branch holds what*)
(*     was landed and what its base holds.                                 *)
(***************************************************************************)
EXTENDS EpicRun, PhaseDagProofs, FiniteSetTheorems, SequenceTheorems

\* The part of the type invariant that is not PhaseDag's.
RunsTypeOK ==
  /\ work \in [Task -> State]
  /\ tries \in [Task -> Seq(Cause)]
  /\ unwritten \in SUBSET Task
  /\ main \in SUBSET Commit
  /\ branch \in [Phase -> SUBSET Commit]
  /\ drafts \in SUBSET Task
  /\ run \in Run
  /\ runs \in Nat /\ mishaps \in Nat

LEMMA FreshRunType ==
  ASSUME NEW states \in [Task -> State]
  PROVE  FreshRun(states) \in Run
BY DEF FreshRun, Run, Places

LEMMA GraphOfType == ASSUME NEW states PROVE GraphOf(states) \in PhaseGraph
BY EpicRunAssumption DEF GraphOf, PhaseGraph, In

LEMMA StepType ==
  ASSUME run \in Run, NEW place \in Places, Step(place)
  PROVE  run' \in Run
BY DEF Run, Step

LEMMA ReturnType ==
  ASSUME run \in Run, NEW outcome \in Outcome, NEW stops \in BOOLEAN, Return(outcome, stops)
  PROVE  run' \in Run /\ UNCHANGED <<runs, mishaps>>
BY DEF Run, Return, Places

LEMMA DagStep ==
  ASSUME run \in Run, [EpicRunNext]_vars
  PROVE  [PhaseDagNext]_dagVars
<1> USE DEF PhaseDagNext, LoopStep
<1>1. CASE WalkStep
  BY <1>1 DEF WalkStep
<1>2. CASE LoadRun
  BY <1>2, GraphOfType DEF LoadRun
<1>3. CASE OpenStep
  BY <1>3 DEF OpenStep, NotOpened, AwaitLand, Block, RebaseConflicts, Return, EnterPhase, OpenNew,
       OpenReused, Rebase, Recreate, RecreateFails, Outcome
<1>4. CASE BuildStep
  BY <1>4 DEF BuildStep, Select, TriageRefuses, TriageAmends, TriageAsks, TriageEnds, Refuse, FanOut,
       TakeRefused, TakeBuilt, TakeUnverified, TakeEnds
<1>5. CASE GateStep
  BY <1>5 DEF GateStep, Validate, ChunkSatisfied, ChunkUnsatisfied, BatchStep, NextSlot, Skip, RefuseStale,
       Draft, Merge, MergeConflicts, Move, MoveMismatch, MoveUnkept, ExecuteAsked
<1>6. CASE EndStep
  <2>1. ASSUME NEW p \in Phase, Leave(p)
        PROVE  PhaseDagNext
    <3>1. run.stops \in BOOLEAN
      BY DEF Run
    <3>2. EndPhase(IF run.stale THEN "blocked" ELSE PhaseStatus(p), run.stops)
      BY <2>1 DEF Leave, Return
    <3>3. (IF run.stale THEN "blocked" ELSE PhaseStatus(p)) \in Outcome
      BY DEF PhaseStatus, Outcome
    <3> QED
      BY <3>1, <3>2, <3>3
  <2>2. ASSUME NEW p \in Phase, Reconcile(p) \/ TrimPhase(p) \/ LimitStop(p)
        PROVE  [PhaseDagNext]_dagVars
    BY <2>2 DEF Reconcile, TrimPhase, LimitStop
  <2>3. CASE NoTrim \/ EndRun \/ Audit \/ Crash
    BY <2>3 DEF NoTrim, EndRun, Audit, Crash
  <2> QED
    BY <1>6, <2>1, <2>2, <2>3 DEF EndStep
<1>7. CASE Beside
  BY <1>7 DEF Beside, Land, Requeue, SetAside, LoseBranch, LoseScratch, LoseLease
<1>8. CASE UNCHANGED vars
  BY <1>8 DEF vars
<1> QED
  BY <1>1, <1>2, <1>3, <1>4, <1>5, <1>6, <1>7, <1>8 DEF EpicRunNext

LEMMA TaskTypes ==
  /\ \A t \in Task : {Work(t), Landed(t), Amended(t)} \subseteq Commit
  /\ \A p \in Phase : Trim(p) \in Commit
  /\ Root \in Commit
BY DEF Work, Landed, Amended, Trim, Root, Commit

\* What a write of rows leaves behind.
Rows == work \in [Task -> State] /\ unwritten \in SUBSET Task /\ mishaps \in Nat

LEMMA QuarantineType ==
  ASSUME Rows, NEW S \in SUBSET Task, NEW open, Quarantine(S, open)
  PROVE  Rows'
BY DEF Quarantine, Open, Rows, State

LEMMA CountType ==
  ASSUME tries \in [Task -> Seq(Cause)], NEW S, NEW cause \in Blamed(S), S \subseteq Task, Count(S, cause)
  PROVE  tries' \in [Task -> Seq(Cause)]
<1>1. ASSUME NEW t \in Task
      PROVE  (IF t \in S /\ ~run.stale /\ cause[t] # "none" THEN Append(tries[t], cause[t]) ELSE tries[t]) \in Seq(Cause)
  <2>1. CASE t \in S /\ cause[t] # "none"
    <3>1. cause[t] \in Cause /\ tries[t] \in Seq(Cause)
      BY <2>1 DEF Blamed
    <3>2. Append(tries[t], cause[t]) \in Seq(Cause)
      BY <3>1
    <3> QED
      BY <3>1, <3>2
  <2> QED
    BY <2>1
<1> QED
  BY <1>1 DEF Count

LEMMA WalkKeepsType == ASSUME RunsTypeOK, WalkStep PROVE RunsTypeOK'
BY DEF RunsTypeOK, WalkStep, store, repo

LEMMA LoadKeepsType == ASSUME RunsTypeOK, LoadRun PROVE RunsTypeOK'
BY FreshRunType DEF RunsTypeOK, LoadRun, store, repo

LEMMA BaseType == ASSUME PhaseDagTypeOK, RunsTypeOK, NEW p \in Phase PROVE Base(p) \subseteq Commit
<1>1. CASE parents[p] = {}
  BY <1>1 DEF Base, RunsTypeOK
<1>2. CASE parents[p] # {}
  <2>1. (CHOOSE q \in parents[p] : TRUE) \in parents[p]
    BY <1>2
  <2>2. parents[p] \subseteq Phase
    BY DEF PhaseDagTypeOK
  <2> QED
    BY <1>2, <2>1, <2>2 DEF Base, RunsTypeOK
<1> QED
  BY <1>1, <1>2

LEMMA OpenKeepsType == ASSUME PhaseDagTypeOK, RunsTypeOK, OpenStep PROVE RunsTypeOK'
<1>1. CASE NotOpened \/ AwaitLand \/ Block \/ RebaseConflicts
  BY <1>1, ReturnType DEF NotOpened, AwaitLand, Block, RebaseConflicts, RunsTypeOK, store, repo, Outcome
<1>2. ASSUME NEW p \in Phase, EnterPhase(p) \/ OpenReused(p)
      PROVE  RunsTypeOK'
  <2>1. \E place \in Places : Step(place)
    BY <1>2 DEF EnterPhase, OpenReused, Places, Classify
  <2> QED
    BY <1>2, <2>1, StepType DEF EnterPhase, OpenReused, RunsTypeOK, store, repo
<1>3. ASSUME NEW p \in Phase, OpenNew(p) \/ Rebase(p) \/ Recreate(p) \/ RecreateFails(p)
      PROVE  RunsTypeOK'
  <2>1. Base(p) \subseteq Commit
    BY BaseType
  <2>2. branch' \in [Phase -> SUBSET Commit]
    BY <1>3, <2>1 DEF OpenNew, Rebase, Recreate, RecreateFails, RunsTypeOK
  <2>3. run' \in Run /\ UNCHANGED <<runs, mishaps>>
    BY <1>3, StepType, ReturnType DEF OpenNew, Rebase, Recreate, RecreateFails, RunsTypeOK, Places, Outcome
  <2> QED
    BY <1>3, <2>2, <2>3 DEF OpenNew, Rebase, Recreate, RecreateFails, RunsTypeOK, store, repo
<1> QED
  BY <1>1, <1>2, <1>3 DEF OpenStep

LEMMA BuildRunType == ASSUME run \in Run, BuildStep PROVE run' \in Run
<1> USE DEF Run
<1>1. ASSUME NEW p \in Phase, Select(p) PROVE run' \in Run
  BY <1>1 DEF Select, ReadyTasks, In, Places
<1>2. ASSUME NEW t \in Task, TriageRefuses(t) PROVE run' \in Run
  BY <1>2 DEF TriageRefuses
<1>3. ASSUME NEW t \in Task, TriageAmends(t) PROVE run' \in Run
  BY <1>3 DEF TriageAmends
<1>4. ASSUME NEW t \in Task, TriageAsks(t) PROVE run' \in Run
  BY <1>4 DEF TriageAsks
<1>5. CASE TriageEnds \/ TakeEnds
  BY <1>5, StepType DEF TriageEnds, TakeEnds, Places
<1>6. ASSUME NEW unfit \in SUBSET run.ready, Refuse(unfit) PROVE run' \in Run
  BY <1>6 DEF Refuse, Places
<1>7. ASSUME NEW failed \in SUBSET run.todo, NEW cause \in Blamed(failed), NEW stops \in BOOLEAN,
             FanOut(failed, cause, stops)
      PROVE  run' \in Run
  BY <1>7 DEF FanOut, Places
<1>8. ASSUME NEW t \in Task, NEW cause \in Blamed({t}), TakeRefused(t, cause) PROVE run' \in Run
  BY <1>8 DEF TakeRefused
<1>9. ASSUME NEW t \in Task, NEW cause \in Blamed({t}), TakeUnverified(t, cause) PROVE run' \in Run
  BY <1>9 DEF TakeUnverified
<1>10. ASSUME NEW t \in Task, NEW governed \in BOOLEAN, TakeBuilt(t, governed) PROVE run' \in Run
  <2>1. (IF governed THEN run.governed \cup {t} ELSE run.governed) \in SUBSET Task
    OBVIOUS
  <2> QED
    BY <1>10, <2>1 DEF TakeBuilt
<1> HIDE DEF Run
<1> QED
  BY <1>1, <1>2, <1>3, <1>4, <1>5, <1>6, <1>7, <1>8, <1>9, <1>10 DEF BuildStep

LEMMA GateRunType == ASSUME run \in Run, work \in [Task -> State], GateStep PROVE run' \in Run
<1>1. ASSUME NEW p \in Phase, NEW verdict \in {"none", "unmet", "met"}, Validate(p, verdict) PROVE run' \in Run
  <2>1. (IF Judged(p) /\ verdict # "none" THEN run.alive ELSE {}) \in SUBSET Task
    BY DEF Run
  <2> QED
    BY <1>1, <2>1 DEF Validate, Run, Places
<1>2. ASSUME NEW t \in Task, ChunkSatisfied(t) \/ Skip(t) PROVE run' \in Run
  <2>1. run' = [run EXCEPT !.todo = @ \ {t}]
    BY <1>2 DEF ChunkSatisfied, Skip
  <2> QED
    BY <2>1 DEF Run
<1>3. ASSUME NEW t \in Task, RefuseStale(t) \/ MergeConflicts(t) \/ MoveUnkept(t) PROVE run' \in Run
  <2>1. run' = [run EXCEPT !.todo = @ \ {t}, !.quarantined = @ \cup {t}]
    BY <1>3 DEF RefuseStale, MergeConflicts, MoveUnkept
  <2> QED
    BY <2>1 DEF Run
<1>4. ASSUME NEW t \in Task, NEW cause \in Blamed({t}), ChunkUnsatisfied(t, cause) PROVE run' \in Run
  BY <1>4 DEF ChunkUnsatisfied, Run
<1>5. CASE BatchStep
  <2>1. PICK to \in Places : run' = [run EXCEPT !.at = to, !.todo = run.alive]
    BY <1>5 DEF BatchStep, NextSlot, Places
  <2> QED
    BY <2>1 DEF Run
<1>6. ASSUME NEW t \in Task, Draft(t) PROVE run' \in Run
  BY <1>6 DEF Draft, Run
<1>7. ASSUME NEW t \in Task, Merge(t) PROVE run' \in Run
  BY <1>7 DEF Merge, Run
<1>8. ASSUME NEW t \in Task, Move(t) PROVE run' \in Run
  BY <1>8 DEF Move, Run
<1>9. ASSUME NEW t \in Task, MoveMismatch(t) PROVE run' \in Run
  BY <1>9 DEF MoveMismatch, Run
<1>10. ASSUME NEW amended \in SUBSET run.asked, ExecuteAsked(amended) PROVE run' \in Run
  BY <1>10, StepType DEF ExecuteAsked, Places
<1> QED
  BY <1>1, <1>2, <1>3, <1>4, <1>5, <1>6, <1>7, <1>8, <1>9, <1>10 DEF GateStep

LEMMA BuildKeepsType == ASSUME RunsTypeOK, BuildStep PROVE RunsTypeOK'
<1>1. run' \in Run
  BY BuildRunType DEF RunsTypeOK
<1>2. Rows'
  <2>1. Rows /\ run.ready \in SUBSET Task /\ run.todo \in SUBSET Task
    BY DEF RunsTypeOK, Rows, Run
  <2>2. ASSUME NEW S \in SUBSET Task, NEW open, Quarantine(S, open)
        PROVE  Rows'
    BY <2>1, <2>2, QuarantineType
  <2>3. CASE UNCHANGED <<work, unwritten, mishaps>>
    BY <2>1, <2>3 DEF Rows
  <2> QED
    BY <2>1, <2>2, <2>3 DEF BuildStep, Select, TriageRefuses, TriageAmends, TriageAsks, TriageEnds,
       Refuse, FanOut, TakeRefused, TakeBuilt, TakeUnverified, TakeEnds, store
<1>3. tries' \in [Task -> Seq(Cause)]
  <2>1. ASSUME NEW t \in Task, TriageAmends(t)
        PROVE  tries' \in [Task -> Seq(Cause)]
    BY <2>1 DEF TriageAmends, RunsTypeOK
  <2>2. ASSUME NEW S \in SUBSET Task, NEW cause \in Blamed(S), Count(S, cause)
        PROVE  tries' \in [Task -> Seq(Cause)]
    BY <2>2, CountType DEF RunsTypeOK
  <2>3. run.todo \in SUBSET Task
    BY DEF RunsTypeOK, Run
  <2>4. CASE UNCHANGED tries
    BY <2>4 DEF RunsTypeOK
  <2> QED
    BY <2>1, <2>2, <2>3, <2>4 DEF BuildStep, Select, TriageRefuses, TriageAsks, TriageEnds,
       Refuse, FanOut, TakeRefused, TakeBuilt, TakeUnverified, TakeEnds, store
<1>4. UNCHANGED <<main, branch, drafts, runs>>
  BY DEF BuildStep, Select, TriageRefuses, TriageAmends, TriageAsks, TriageEnds,
     Refuse, FanOut, TakeRefused, TakeBuilt, TakeUnverified, TakeEnds, repo
<1> QED
  BY <1>1, <1>2, <1>3, <1>4 DEF RunsTypeOK, Rows

LEMMA GateKeepsType == ASSUME RunsTypeOK, GateStep PROVE RunsTypeOK'
<1>1. run' \in Run
  BY GateRunType DEF RunsTypeOK
<1>2. Rows'
  <2>1. ASSUME NEW t \in Task, Move(t)
        PROVE  Rows'
    BY <2>1 DEF Move, RunsTypeOK, State, Rows
  <2>2. ASSUME NEW t \in Task, NEW open, Quarantine({t}, open)
        PROVE  Rows'
    BY <2>2, QuarantineType DEF RunsTypeOK, Rows
  <2>3. CASE UNCHANGED <<work, unwritten, mishaps>>
    BY <2>3 DEF RunsTypeOK, Rows
  <2> QED
    BY <2>1, <2>2, <2>3 DEF GateStep, Validate, ChunkSatisfied, ChunkUnsatisfied, BatchStep, NextSlot, Skip,
       RefuseStale, Draft, Merge, MergeConflicts, MoveMismatch, MoveUnkept, ExecuteAsked, store
<1>3. tries' \in [Task -> Seq(Cause)]
  <2>1. ASSUME NEW amended \in SUBSET run.asked, ExecuteAsked(amended)
        PROVE  tries' \in [Task -> Seq(Cause)]
    BY <2>1 DEF ExecuteAsked, RunsTypeOK
  <2>2. ASSUME NEW t \in Task, NEW cause \in Blamed({t}), Count({t}, cause)
        PROVE  tries' \in [Task -> Seq(Cause)]
    BY <2>2, CountType DEF RunsTypeOK
  <2>3. CASE UNCHANGED tries
    BY <2>3 DEF RunsTypeOK
  <2> QED
    BY <2>1, <2>2, <2>3 DEF GateStep, Validate, ChunkSatisfied, ChunkUnsatisfied, BatchStep, NextSlot, Skip,
       RefuseStale, Draft, Merge, MergeConflicts, Move, MoveMismatch, MoveUnkept, store
<1>4. branch' \in [Phase -> SUBSET Commit] /\ drafts' \in SUBSET Task
  <2>1. ASSUME NEW t \in Task, Draft(t)
        PROVE  branch' \in [Phase -> SUBSET Commit] /\ drafts' \in SUBSET Task
    BY <2>1 DEF Draft, RunsTypeOK
  <2>2. ASSUME NEW t \in Task, Merge(t)
        PROVE  branch' \in [Phase -> SUBSET Commit] /\ drafts' \in SUBSET Task
    <3>1. PhaseOf[t] \in Phase /\ Work(t) \in Commit
      BY TaskTypes, EpicRunAssumption
    <3> QED
      BY <2>2, <3>1 DEF Merge, RunsTypeOK
  <2>3. CASE UNCHANGED <<branch, drafts>>
    BY <2>3 DEF RunsTypeOK
  <2> QED
    BY <2>1, <2>2, <2>3 DEF GateStep, Validate, ChunkSatisfied, ChunkUnsatisfied, BatchStep, NextSlot, Skip,
       RefuseStale, MergeConflicts, Move, MoveMismatch, MoveUnkept, ExecuteAsked, repo
<1>5. UNCHANGED <<main, runs>>
  BY DEF GateStep, Validate, ChunkSatisfied, ChunkUnsatisfied, BatchStep, NextSlot, Skip, RefuseStale,
     Draft, Merge, MergeConflicts, Move, MoveMismatch, MoveUnkept, ExecuteAsked, repo
<1> QED
  BY <1>1, <1>2, <1>3, <1>4, <1>5 DEF RunsTypeOK, Rows

LEMMA EndKeepsType == ASSUME RunsTypeOK, EndStep PROVE RunsTypeOK'
<1> USE DEF RunsTypeOK, store, repo
<1>1. ASSUME NEW p \in Phase, Reconcile(p)
      PROVE  RunsTypeOK'
  <2>1. run' \in Run
    BY <1>1 DEF Reconcile, Run, Places, State
  <2> QED
    BY <1>1, <2>1 DEF Reconcile
<1>2. ASSUME NEW p \in Phase, TrimPhase(p)
      PROVE  RunsTypeOK'
  <2>1. run' \in Run
    BY <1>2, StepType DEF TrimPhase, Places
  <2> QED
    BY <1>2, <2>1, TaskTypes DEF TrimPhase
<1>3. ASSUME NEW p \in Phase, Leave(p)
      PROVE  RunsTypeOK'
  <2>1. run.stops \in BOOLEAN /\ (IF run.stale THEN "blocked" ELSE PhaseStatus(p)) \in Outcome
    BY DEF Run, PhaseStatus, Outcome
  <2>2. run' \in Run /\ UNCHANGED <<runs, mishaps>>
    BY <1>3, <2>1, ReturnType DEF Leave
  <2> QED
    BY <1>3, <2>2 DEF Leave
<1>4. ASSUME NEW p \in Phase, LimitStop(p)
      PROVE  RunsTypeOK'
  BY <1>4, StepType DEF LimitStop, Places
<1>5. CASE NoTrim \/ EndRun
  BY <1>5, StepType DEF NoTrim, EndRun, Places
<1>6. CASE Audit \/ Crash
  <2>1. Rows'
    <3>1. Rows /\ {t \in Audited : ~StillKept(t)} \in SUBSET Task
      BY DEF Rows, Audited, Run
    <3>2. CASE Audit
      BY <3>1, <3>2, QuarantineType DEF Audit
    <3>3. CASE Crash
      BY <3>1, <3>3 DEF Crash, Rows
    <3> QED
      BY <1>6, <3>2, <3>3
  <2>2. tries' \in [Task -> Seq(Cause)]
    <3>1. CASE Crash
      BY <3>1 DEF Crash
    <3>2. CASE Audit
      <4> DEFINE lost == {t \in Audited : ~StillKept(t)}
      <4>1. lost \subseteq Task /\ [t \in lost |-> "other"] \in Blamed(lost)
        BY DEF Audited, Run, Blamed, Cause
      <4> QED
        BY <3>2, <4>1, CountType DEF Audit
    <3> QED
      BY <1>6, <3>1, <3>2
  <2>3. run' \in Run
    <3>1. run' = [FreshRun(work') EXCEPT !.at = "over", !.scratch = run.scratch]
      BY <1>6 DEF Audit, Crash, Over
    <3>2. FreshRun(work') \in Run
      BY <2>1, FreshRunType DEF Rows
    <3> QED
      BY <3>1, <3>2 DEF Run, Places
  <2> QED
    BY <1>6, <2>1, <2>2, <2>3 DEF Audit, Crash, Rows
<1> QED
  BY <1>1, <1>2, <1>3, <1>4, <1>5, <1>6 DEF EndStep

LEMMA BesideRunType == ASSUME run \in Run, Beside PROVE run' \in Run
<1>1. ASSUME NEW t \in Task, LoseScratch(t) PROVE run' \in Run
  BY <1>1 DEF LoseScratch, Run
<1>2. CASE LoseLease
  BY <1>2 DEF LoseLease, Run
<1> QED
  BY <1>1, <1>2 DEF Beside, Land, Requeue, SetAside, LoseBranch

LEMMA BesideKeepsType == ASSUME RunsTypeOK, Beside PROVE RunsTypeOK'
<1> USE DEF RunsTypeOK, store, repo
<1>1. ASSUME NEW t \in Task, NEW squash \in {Landed(t), Amended(t)}, Land(t, squash)
      PROVE  RunsTypeOK'
  BY <1>1, TaskTypes DEF Land, State
<1>2. ASSUME NEW t \in Task, NEW rewritten \in BOOLEAN, Requeue(t, rewritten)
      PROVE  RunsTypeOK'
  <2>1. tries' \in [Task -> Seq(Cause)]
    BY <1>2 DEF Requeue
  <2> QED
    BY <1>2, <2>1 DEF Requeue, State
<1>3. ASSUME NEW p \in Phase, LoseBranch(p)
      PROVE  RunsTypeOK'
  BY <1>3 DEF LoseBranch
<1>4. ASSUME NEW t \in Task, SetAside(t)
      PROVE  RunsTypeOK'
  BY <1>4 DEF SetAside, State
<1>5. CASE LoseLease \/ \E t \in Task : LoseScratch(t)
  BY <1>5, BesideRunType DEF LoseScratch, LoseLease
<1> QED
  BY <1>1, <1>2, <1>3, <1>4, <1>5 DEF Beside

LEMMA InitHasEpicType == EpicRunInit => PhaseDagInit /\ RunsTypeOK
<1> SUFFICES ASSUME EpicRunInit PROVE PhaseDagInit /\ RunsTypeOK
  OBVIOUS
<1>1. PhaseDagInit
  BY GraphOfType DEF EpicRunInit, PhaseDagInit
<1>2. work \in [Task -> State] /\ tries \in [Task -> Seq(Cause)]
  BY DEF EpicRunInit, State
<1>3. main \in SUBSET Commit /\ branch \in [Phase -> SUBSET Commit]
  BY TaskTypes DEF EpicRunInit, Root, Commit
<1>4. run \in Run
  BY <1>2, FreshRunType DEF EpicRunInit
<1> QED
  BY <1>1, <1>2, <1>3, <1>4, EpicRunAssumption DEF RunsTypeOK, EpicRunInit

LEMMA StepKeepsEpicType ==
  ASSUME DagInv, RunsTypeOK, [EpicRunNext]_vars
  PROVE  DagInv' /\ RunsTypeOK' /\ [PhaseDagNext]_dagVars
<1>1. [PhaseDagNext]_dagVars
  BY DagStep DEF RunsTypeOK
<1>2. DagInv'
  BY <1>1, StepKeepsDagInv
<1>3. PhaseDagTypeOK
  BY DEF DagInv
<1>4. ASSUME UNCHANGED vars PROVE RunsTypeOK'
  BY <1>4 DEF vars, store, repo, RunsTypeOK
<1>5. RunsTypeOK'
  BY <1>3, <1>4, WalkKeepsType, LoadKeepsType, OpenKeepsType, BuildKeepsType, GateKeepsType, EndKeepsType,
     BesideKeepsType DEF EpicRunNext
<1> QED
  BY <1>1, <1>2, <1>5

LEMMA EpicInvariant == EpicRunSpec => [](DagInv /\ RunsTypeOK)
<1>1. EpicRunInit => DagInv /\ RunsTypeOK
  BY InitHasEpicType, InitHasDagInv
<1>2. DagInv /\ RunsTypeOK /\ [EpicRunNext]_vars => (DagInv /\ RunsTypeOK)'
  BY StepKeepsEpicType
<1> QED
  BY <1>1, <1>2, PTL DEF EpicRunSpec

\* Whatever happens in a phase, the runs walk the phases as PhaseDag says (run_epic, epic.py:1177),
\* so that what is proved of PhaseDag holds of them.
THEOREM RunsFollowPhaseDag == EpicRunSpec => PhaseDagSpec
<1>1. EpicRunInit => PhaseDagInit
  BY InitHasEpicType
<1>2. DagInv /\ RunsTypeOK /\ [EpicRunNext]_vars => [PhaseDagNext]_dagVars
  BY StepKeepsEpicType
<1> QED
  BY <1>1, <1>2, EpicInvariant, PTL DEF EpicRunSpec, PhaseDagSpec

\* No phase of an epic run is built on a parent that did not complete (epic.py:1187).
THEOREM EpicRunsAreOnCompleteParents == EpicRunSpec => []RunsOnCompleteParents
BY RunsFollowPhaseDag, RunsAreOnCompleteParents, PTL

\* Type correctness of the runs of an initiative.
THEOREM EpicRunTypeCorrect == EpicRunSpec => []EpicRunTypeOK
<1>1. DagInv /\ RunsTypeOK => EpicRunTypeOK
  BY DEF DagInv, RunsTypeOK, EpicRunTypeOK
<1> QED
  BY <1>1, EpicInvariant, PTL

----------------------------------------------------------------------------
(* Work that has not landed *)

\* A task whose work is on main, as it was built or as the landing changed it.
OnMain(t) == {Landed(t), Amended(t)} \cap main # {}

\* What is known to be done is on the default branch.
MainInv == \A t \in Task : work[t] = "done" \/ run.copy[t] = "done" => OnMain(t)

\* What the run decided from the states it loaded stays true while humans land.
LandInv ==
  /\ MainInv
  /\ \A p \in Phase, t \in Task : Landed(t) \in branch[p] => Landed(t) \in main
  /\ run.at = "recreate" =>
       \A p \in Phase, t \in Task : p = running /\ Work(t) \in branch[p] => OnMain(t)

LEMMA CommitKinds ==
  ASSUME NEW t, NEW p
  PROVE  /\ Work(t)[1] = "work" /\ Work(t)[2] = t /\ Trim(p)[1] = "trim" /\ Landed(t)[1] = "landed"
         /\ Amended(t)[1] = "amended" /\ Root[1] = "root"
BY DEF Work, Landed, Amended, Trim, Root

LEMMA LandedIsNoWork == ASSUME NEW t, NEW u, NEW p PROVE Landed(t) # Work(u) /\ Landed(t) # Trim(p)
BY DEF Work, Landed, Trim

\* Only landings change the default branch.
LEMMA MainFrame ==
  ASSUME EpicRunNext
  PROVE  main' = main \/ \E t \in Task : \E squash \in {Landed(t), Amended(t)} : Land(t, squash)
<1> USE DEF repo
<1>1. CASE WalkStep
  BY <1>1 DEF WalkStep
<1>2. CASE LoadRun
  BY <1>2 DEF LoadRun
<1>3. CASE OpenStep
  BY <1>3 DEF OpenStep, NotOpened, AwaitLand, Block, RebaseConflicts, EnterPhase, OpenNew,
     OpenReused, Rebase, Recreate, RecreateFails
<1>4. CASE BuildStep
  BY <1>4 DEF BuildStep, Select, TriageRefuses, TriageAmends, TriageAsks, TriageEnds, Refuse, FanOut,
     TakeRefused, TakeBuilt, TakeUnverified, TakeEnds
<1>5. CASE GateStep
  BY <1>5 DEF GateStep, Validate, ChunkSatisfied, ChunkUnsatisfied, BatchStep, NextSlot, Skip, RefuseStale,
     Draft, Merge, MergeConflicts, Move, MoveMismatch, MoveUnkept, ExecuteAsked
<1>6. CASE EndStep
  BY <1>6 DEF EndStep, Reconcile, TrimPhase, Leave, LimitStop, NoTrim, EndRun, Audit, Crash
<1>7. CASE Beside
  BY <1>7 DEF Beside, Requeue, SetAside, LoseBranch, LoseScratch, LoseLease
<1> QED
  BY <1>1, <1>2, <1>3, <1>4, <1>5, <1>6, <1>7 DEF EpicRunNext

LEMMA MainGrows == ASSUME EpicRunNext PROVE main \subseteq main'
BY MainFrame DEF Land

\* The actions that touch a phase branch.
LEMMA BranchFrame ==
  ASSUME EpicRunNext
  PROVE  \/ branch' = branch
         \/ \E p \in Phase : OpenNew(p) \/ Rebase(p) \/ Recreate(p) \/ RecreateFails(p) \/ TrimPhase(p) \/ LoseBranch(p)
         \/ \E t \in Task : Merge(t)
<1> USE DEF repo
<1>1. CASE WalkStep
  BY <1>1 DEF WalkStep
<1>2. CASE LoadRun
  BY <1>2 DEF LoadRun
<1>3. CASE OpenStep
  BY <1>3 DEF OpenStep, NotOpened, AwaitLand, Block, RebaseConflicts, EnterPhase, OpenReused
<1>4. CASE BuildStep
  BY <1>4 DEF BuildStep, Select, TriageRefuses, TriageAmends, TriageAsks, TriageEnds, Refuse, FanOut,
     TakeRefused, TakeBuilt, TakeUnverified, TakeEnds
<1>5. CASE GateStep
  BY <1>5 DEF GateStep, Validate, ChunkSatisfied, ChunkUnsatisfied, BatchStep, NextSlot, Skip, RefuseStale,
     Draft, MergeConflicts, Move, MoveMismatch, MoveUnkept, ExecuteAsked
<1>6. CASE EndStep
  BY <1>6 DEF EndStep, Reconcile, Leave, LimitStop, NoTrim, EndRun, Audit, Crash
<1>7. CASE Beside
  BY <1>7 DEF Beside, Land, Requeue, SetAside, LoseScratch, LoseLease
<1> QED
  BY <1>1, <1>2, <1>3, <1>4, <1>5, <1>6, <1>7 DEF EpicRunNext

\* A row becomes done by a landing only.
LEMMA WorkFrame ==
  ASSUME RunsTypeOK, EpicRunNext, NEW t \in Task, work'[t] = "done"
  PROVE  work[t] = "done" \/ \E squash \in {Landed(t), Amended(t)} : Land(t, squash)
<1> USE DEF store
<1>1. ASSUME NEW S, NEW open, Quarantine(S, open)
      PROVE  work[t] = "done"
  BY <1>1 DEF Quarantine, Open
<1>2. CASE WalkStep
  BY <1>2 DEF WalkStep
<1>3. CASE LoadRun
  BY <1>3 DEF LoadRun
<1>4. CASE OpenStep
  BY <1>4 DEF OpenStep, NotOpened, AwaitLand, Block, RebaseConflicts, EnterPhase, OpenNew,
     OpenReused, Rebase, Recreate, RecreateFails
<1>5. CASE BuildStep
  BY <1>1, <1>5 DEF BuildStep, Select, TriageRefuses, TriageAmends, TriageAsks, TriageEnds, Refuse, FanOut,
     TakeRefused, TakeBuilt, TakeUnverified, TakeEnds
<1>6. CASE GateStep
  <2>1. ASSUME NEW u \in Task, Move(u)
        PROVE  work[t] = "done"
    BY <2>1 DEF Move, RunsTypeOK
  <2> QED
    BY <1>1, <1>6, <2>1 DEF GateStep, Validate, ChunkSatisfied, ChunkUnsatisfied, BatchStep, NextSlot, Skip,
       RefuseStale, Draft, Merge, MergeConflicts, MoveMismatch, MoveUnkept, ExecuteAsked
<1>7. CASE EndStep
  BY <1>1, <1>7 DEF EndStep, Reconcile, TrimPhase, Leave, LimitStop, NoTrim, EndRun, Audit, Crash
<1>8. CASE Beside
  BY <1>8 DEF Beside, Land, Requeue, SetAside, LoseBranch, LoseScratch, LoseLease, RunsTypeOK
<1> QED
  BY <1>2, <1>3, <1>4, <1>5, <1>6, <1>7, <1>8 DEF EpicRunNext

\* A run's copy of a state becomes done only when it reads it from a row.
LEMMA CopyFrame ==
  ASSUME RunsTypeOK, EpicRunNext, NEW t \in Task, run'.copy[t] = "done"
  PROVE  run.copy[t] = "done" \/ work'[t] = "done"
<1> USE DEF store
<1>0. run \in Run
  BY DEF RunsTypeOK
<1>1. CASE WalkStep
  BY <1>1 DEF WalkStep
<1>2. CASE LoadRun
  BY <1>2 DEF LoadRun, FreshRun
<1>3. ASSUME NEW place, Step(place)
      PROVE  run'.copy = run.copy
  BY <1>0, <1>3 DEF Step, Run
<1>4. ASSUME NEW outcome, NEW stops, Return(outcome, stops)
      PROVE  run'.copy = run.copy
  BY <1>0, <1>4 DEF Return, Run
<1>5. CASE OpenStep
  BY <1>3, <1>4, <1>5 DEF OpenStep, NotOpened, AwaitLand, Block, RebaseConflicts, EnterPhase, OpenNew,
     OpenReused, Rebase, Recreate, RecreateFails
<1>6. CASE BuildStep
  <2>1. run'.copy = run.copy
    BY <1>0, <1>3, <1>6 DEF BuildStep, Select, TriageRefuses, TriageAmends, TriageAsks, TriageEnds, Refuse, FanOut,
       TakeRefused, TakeBuilt, TakeUnverified, TakeEnds, Run
  <2> QED
    BY <2>1
<1>7. CASE GateStep
  <2>1. ASSUME NEW u \in Task, MoveMismatch(u)
        PROVE  run.copy[t] = "done" \/ work'[t] = "done"
    BY <1>0, <2>1 DEF MoveMismatch, Run
  <2>2. ASSUME NEW p \in Phase, NEW verdict \in {"none", "unmet", "met"}, Validate(p, verdict)
        PROVE  run'.copy = run.copy
    BY <1>0, <2>2 DEF Validate, Run
  <2>3. CASE BatchStep
    BY <1>0, <2>3 DEF BatchStep, NextSlot, Run
  <2>4. ASSUME NEW u \in Task, NEW cause \in Blamed({u}), ChunkSatisfied(u) \/ ChunkUnsatisfied(u, cause)
        PROVE  run'.copy = run.copy
    BY <1>0, <2>4 DEF ChunkSatisfied, ChunkUnsatisfied, Run
  <2>5. ASSUME NEW u \in Task, Skip(u) \/ RefuseStale(u) \/ Draft(u) \/ Merge(u) \/ MergeConflicts(u)
        PROVE  run'.copy = run.copy
    BY <1>0, <2>5 DEF Skip, RefuseStale, Draft, Merge, MergeConflicts, Run
  <2>6. ASSUME NEW u \in Task, Move(u) \/ MoveUnkept(u)
        PROVE  run'.copy = run.copy
    BY <1>0, <2>6 DEF Move, MoveUnkept, Run
  <2>7. ASSUME NEW amended \in SUBSET run.asked, ExecuteAsked(amended)
        PROVE  run'.copy = run.copy
    BY <1>3, <2>7 DEF ExecuteAsked
  <2>8. ASSUME NEW u \in Task, ChunkSatisfied(u)
        PROVE  run'.copy = run.copy
    BY <1>0, <2>8 DEF ChunkSatisfied, Run
  <2> QED
    BY <1>7, <2>1, <2>2, <2>3, <2>4, <2>5, <2>6, <2>7, <2>8 DEF GateStep
<1>8. CASE EndStep
  <2>1. ASSUME NEW p \in Phase, Reconcile(p)
        PROVE  run.copy[t] = "done"
    BY <1>0, <2>1 DEF Reconcile, Run
  <2>2. CASE Audit \/ Crash
    BY <2>2 DEF Audit, Crash, Over, FreshRun
  <2> QED
    BY <1>3, <1>4, <1>8, <2>1, <2>2 DEF EndStep, TrimPhase, Leave, LimitStop, NoTrim, EndRun
<1>9. CASE Beside
  BY <1>0, <1>9 DEF Beside, Land, Requeue, SetAside, LoseBranch, LoseScratch, LoseLease, Run
<1> QED
  BY <1>1, <1>2, <1>5, <1>6, <1>7, <1>8, <1>9 DEF EpicRunNext

\* A landing is on the default branch at once, and stays.
LEMMA StepKeepsMainInv ==
  ASSUME RunsTypeOK, MainInv, [EpicRunNext]_vars
  PROVE  MainInv'
<1>1. CASE UNCHANGED vars
  BY <1>1 DEF vars, store, repo, MainInv, OnMain
<1>2. ASSUME EpicRunNext, NEW t \in Task, work'[t] = "done" \/ run'.copy[t] = "done"
      PROVE  OnMain(t)'
  <2>1. ASSUME NEW squash \in {Landed(t), Amended(t)}, Land(t, squash)
        PROVE  OnMain(t)'
    BY <2>1 DEF Land, OnMain, Landed, Amended
  <2>2. CASE OnMain(t)
    BY <1>2, <2>2, MainGrows DEF OnMain, Landed, Amended
  <2> QED
    BY <1>2, <2>1, <2>2, WorkFrame, CopyFrame DEF MainInv
<1> QED
  BY <1>1, <1>2 DEF MainInv

\* A run is about to delete a phase branch because it decided so now, or did and has not done it.
LEMMA RecreateFrame ==
  ASSUME RunsTypeOK, EpicRunNext, run'.at = "recreate"
  PROVE  \/ \E p \in Phase : OpenReused(p)
         \/ run.at = "recreate" /\ running' = running /\ (branch' = branch \/ \E p \in Phase : LoseBranch(p))
<1> USE DEF repo, dagVars
<1>0. run \in Run
  BY DEF RunsTypeOK
<1>1. CASE WalkStep
  BY <1>1 DEF WalkStep, BeginRound, EndOrder, Append1, SkipPhase
<1>2. CASE LoadRun
  BY <1>2 DEF LoadRun, FreshRun
<1>3. ASSUME NEW place, Step(place), place # "recreate"
      PROVE  FALSE
  BY <1>0, <1>3 DEF Step, Run
<1>4. ASSUME NEW outcome, NEW stops, Return(outcome, stops)
      PROVE  FALSE
  BY <1>0, <1>4 DEF Return, Run
<1>5. CASE OpenStep
  BY <1>3, <1>4, <1>5 DEF OpenStep, NotOpened, AwaitLand, Block, RebaseConflicts, EnterPhase, OpenNew,
     Rebase, Recreate, RecreateFails
<1>6. CASE BuildStep
  <2>1. run'.at # "recreate"
    BY <1>0, <1>3, <1>6 DEF BuildStep, Select, TriageRefuses, TriageAmends, TriageAsks, TriageEnds, Refuse, FanOut,
       TakeRefused, TakeBuilt, TakeUnverified, TakeEnds, Run
  <2> QED
    BY <2>1
<1>7. CASE GateStep
  <2>2. ASSUME NEW p \in Phase, NEW verdict \in {"none", "unmet", "met"}, Validate(p, verdict)
        PROVE  FALSE
    BY <1>0, <2>2 DEF Validate, Run
  <2>3. CASE BatchStep
    BY <1>0, <2>3 DEF BatchStep, NextSlot, Run
  <2>4. ASSUME NEW u \in Task, NEW cause \in Blamed({u}), ChunkUnsatisfied(u, cause)
        PROVE  FALSE
    BY <1>0, <2>4 DEF ChunkUnsatisfied, Run
  <2>5. ASSUME NEW u \in Task, Skip(u) \/ RefuseStale(u) \/ Draft(u) \/ Merge(u) \/ MergeConflicts(u)
        PROVE  FALSE
    BY <1>0, <2>5 DEF Skip, RefuseStale, Draft, Merge, MergeConflicts, Run
  <2>6. ASSUME NEW u \in Task, Move(u) \/ MoveMismatch(u) \/ MoveUnkept(u)
        PROVE  FALSE
    BY <1>0, <2>6 DEF Move, MoveMismatch, MoveUnkept, Run
  <2>7. ASSUME NEW amended \in SUBSET run.asked, ExecuteAsked(amended)
        PROVE  FALSE
    BY <1>3, <2>7 DEF ExecuteAsked
  <2>8. ASSUME NEW u \in Task, ChunkSatisfied(u)
        PROVE  FALSE
    BY <1>0, <2>8 DEF ChunkSatisfied, Run
  <2> QED
    BY <1>7, <2>2, <2>3, <2>4, <2>5, <2>6, <2>7, <2>8 DEF GateStep
<1>8. CASE EndStep
  <2>1. ASSUME NEW p \in Phase, Reconcile(p)
        PROVE  FALSE
    BY <1>0, <2>1 DEF Reconcile, Run
  <2>2. CASE Audit \/ Crash
    BY <2>2 DEF Audit, Crash, Over, FreshRun
  <2> QED
    BY <1>3, <1>4, <1>8, <2>1, <2>2 DEF EndStep, TrimPhase, Leave, LimitStop, NoTrim, EndRun
<1>9. CASE Beside
  <2>1. run'.at = run.at /\ running' = running
    BY <1>0, <1>9 DEF Beside, Land, Requeue, SetAside, LoseBranch, LoseScratch, LoseLease, Run
  <2> QED
    BY <1>9, <2>1 DEF Beside, Land, Requeue, SetAside, LoseScratch, LoseLease
<1> QED
  BY <1>1, <1>2, <1>5, <1>6, <1>7, <1>8, <1>9 DEF EpicRunNext

\* What a base holds is on main or on a phase branch.
LEMMA BaseHolds ==
  ASSUME PhaseDagTypeOK, LandInv, NEW p \in Phase, NEW t \in Task, Landed(t) \in Base(p)
  PROVE  Landed(t) \in main
<1>1. CASE parents[p] = {}
  BY <1>1 DEF Base
<1>2. CASE parents[p] # {}
  <2>1. (CHOOSE q \in parents[p] : TRUE) \in parents[p]
    BY <1>2
  <2>2. parents[p] \subseteq Phase
    BY DEF PhaseDagTypeOK
  <2> QED
    BY <1>2, <2>1, <2>2 DEF Base, LandInv
<1> QED
  BY <1>1, <1>2

\* A branch that is to be deleted has only commits of done tasks.
LEMMA RecreatesLanded ==
  ASSUME ~GitFaults, RunsTypeOK, LandInv, NEW p \in Phase, OpenReused(p), run'.at = "recreate", NEW t \in Task,
         Work(t) \in branch[p]
  PROVE  OnMain(t)
<1>1. PICK moved \in BOOLEAN : Step(IF moved THEN Classify(Unlanded(p)) ELSE "ready")
  BY DEF OpenReused
<1>2. Classify(Unlanded(p)) = "recreate"
  BY <1>1 DEF Step, RunsTypeOK, Run
<1>3. CASE Landed(t) \in main
  BY <1>3 DEF OnMain
<1>4. CASE Landed(t) \notin main
  <2>1. Work(t) \in Unlanded(p)
    BY <1>4, CommitKinds DEF Unlanded
  <2>2. {IF c[1] = "work" THEN run.copy[c[2]] ELSE "none" : c \in Unlanded(p)} \subseteq {"done"}
    BY <1>2 DEF Classify
  <2>3. (IF Work(t)[1] = "work" THEN run.copy[Work(t)[2]] ELSE "none") = "done"
    BY <2>1, <2>2
  <2>4. run.copy[t] = "done"
    BY <2>3, CommitKinds
  <2> QED
    BY <2>4 DEF LandInv, MainInv
<1> QED
  BY <1>3, <1>4

LEMMA InitHasLandInv == EpicRunInit => LandInv
<1> SUFFICES ASSUME EpicRunInit PROVE LandInv
  OBVIOUS
<1>1. run.at = "idle" /\ run.copy = work
  BY DEF EpicRunInit, FreshRun
<1>2. ASSUME NEW t \in Task, work[t] = "done" PROVE OnMain(t)
  <2>1. Landed(t) \in {Landed(u) : u \in {v \in Task : work[v] = "done"}}
    BY <1>2
  <2> QED
    BY <2>1 DEF OnMain, EpicRunInit
<1>3. \A p \in Phase : branch[p] = {}
  BY DEF EpicRunInit
<1> QED
  BY <1>1, <1>2, <1>3 DEF LandInv, MainInv

LEMMA StepKeepsLandInv ==
  ASSUME ~GitFaults, DagInv, RunsTypeOK, LandInv, EpicRunNext
  PROVE  LandInv'
<1>1. PhaseDagTypeOK
  BY DEF DagInv
<1>2. ASSUME NEW t \in Task, OnMain(t)
      PROVE  OnMain(t)'
  BY <1>2, MainGrows DEF OnMain, Landed, Amended
<1>3. MainInv'
  BY StepKeepsMainInv DEF LandInv
<1>4. ASSUME NEW q \in Phase, NEW t \in Task, Landed(t) \in branch'[q]
      PROVE  Landed(t) \in main'
  <2>1. CASE branch' = branch
    BY <1>4, <2>1, MainGrows DEF LandInv
  <2>2. ASSUME NEW p \in Phase, OpenNew(p) \/ Rebase(p) \/ Recreate(p) \/ RecreateFails(p)
        PROVE  Landed(t) \in main'
    <3>1. branch'[q] \subseteq branch[q] \cup Base(p)
      BY <2>2 DEF OpenNew, Rebase, Recreate, RecreateFails, RunsTypeOK
    <3> QED
      BY <1>1, <1>4, <3>1, BaseHolds, MainGrows DEF LandInv
  <2>3. ASSUME NEW p \in Phase, TrimPhase(p) \/ LoseBranch(p)
        PROVE  Landed(t) \in main'
    <3>1. CASE TrimPhase(p)
      <4>1. Landed(t) \in branch[q]
        BY <1>4, <3>1, LandedIsNoWork DEF TrimPhase, RunsTypeOK
      <4> QED
        BY <4>1, MainGrows DEF LandInv
    <3>2. CASE LoseBranch(p)
      <4>1. Landed(t) \in branch[q] \cup main
        BY <1>4, <3>2 DEF LoseBranch, RunsTypeOK
      <4> QED
        BY <4>1, MainGrows DEF LandInv
    <3> QED
      BY <2>3, <3>1, <3>2
  <2>4. ASSUME NEW u \in Task, Merge(u)
        PROVE  Landed(t) \in main'
    <3>1. Landed(t) \in branch[q]
      BY <1>4, <2>4, LandedIsNoWork DEF Merge, RunsTypeOK
    <3> QED
      BY <3>1, MainGrows DEF LandInv
  <2> QED
    BY <2>1, <2>2, <2>3, <2>4, BranchFrame
<1>5. ASSUME run'.at = "recreate", NEW q \in Phase, q = running', NEW t \in Task, Work(t) \in branch'[q]
      PROVE  OnMain(t)'
  <2>1. ASSUME NEW p \in Phase, OpenReused(p)
        PROVE  OnMain(t)
    <3>1. p = running /\ running' = running /\ branch' = branch
      BY <2>1 DEF OpenReused, dagVars, repo
    <3> QED
      BY <1>5, <2>1, <3>1, RecreatesLanded
  <2>2. ASSUME run.at = "recreate", running' = running, branch' = branch
        PROVE  OnMain(t)
    BY <1>5, <2>2 DEF LandInv
  <2>3. ASSUME run.at = "recreate", running' = running, NEW p \in Phase, LoseBranch(p)
        PROVE  OnMain(t)
    <3>1. p # running
      BY <2>3 DEF LoseBranch
    <3>2. branch'[q] = branch[q]
      BY <1>5, <2>3, <3>1 DEF LoseBranch, RunsTypeOK
    <3> QED
      BY <1>5, <2>3, <3>2 DEF LandInv
  <2>4. OnMain(t)
    BY <1>5, <2>1, <2>2, <2>3, RecreateFrame
  <2> QED
    BY <1>2, <2>4
<1> QED
  BY <1>3, <1>4, <1>5 DEF LandInv

\* Unless a git command fails, the driver takes no commit off a phase branch whose task is not
\* landed (epic.py:2061), however landings, crashes and reruns interleave.
THEOREM UnlandedWorkSurvives == ~GitFaults => (EpicRunSpec => UnlandedSurvives)
<1>1. SUFFICES ASSUME ~GitFaults PROVE EpicRunSpec => UnlandedSurvives
  OBVIOUS
<1> DEFINE Inv == DagInv /\ RunsTypeOK /\ LandInv
<1> DEFINE Kept == \/ \E p \in Phase : LoseBranch(p)
                   \/ \A p \in Phase, t \in Task :
                        Work(t) \in branch[p] \ branch'[p] => {Landed(t), Amended(t)} \cap main # {}
<1>2. EpicRunInit => Inv
  BY InitHasEpicType, InitHasDagInv, InitHasLandInv
<1>3. ASSUME Inv, [EpicRunNext]_vars PROVE Inv'
  <2>1. (DagInv /\ RunsTypeOK)'
    BY <1>3, StepKeepsEpicType
  <2>2. CASE UNCHANGED vars
    <3>1. LandInv'
      BY <1>3, <2>2 DEF vars, store, repo, dagVars, LandInv, MainInv, OnMain, Landed, Amended, Work
    <3> QED
      BY <2>1, <3>1
  <2> QED
    BY <1>1, <1>3, <2>1, <2>2, StepKeepsLandInv
<1>4. ASSUME Inv, [EpicRunNext]_vars PROVE [Kept]_vars
  <2> SUFFICES ASSUME EpicRunNext, NEW p \in Phase, NEW t \in Task, Work(t) \in branch[p], Work(t) \notin branch'[p],
                      \A q \in Phase : ~LoseBranch(q)
               PROVE  OnMain(t)
    BY <1>4 DEF OnMain
  <2>1. ASSUME NEW q \in Phase, Recreate(q) \/ RecreateFails(q)
        PROVE  OnMain(t)
    <3>1. p = running /\ run.at = "recreate"
      BY <2>1, <1>4 DEF Recreate, RecreateFails, RunsTypeOK
    <3> QED
      BY <1>4, <3>1 DEF LandInv
  <2>2. ASSUME NEW q \in Phase, Rebase(q)
        PROVE  OnMain(t)
    <3>1. Landed(t) \in Base(q)
      BY <2>2, <1>4, CommitKinds DEF Rebase, RunsTypeOK
    <3>2. Landed(t) \in main
      BY <1>4, <3>1, BaseHolds DEF DagInv
    <3> QED
      BY <3>2 DEF OnMain
  <2>3. ASSUME NEW q \in Phase, OpenNew(q) \/ TrimPhase(q)
        PROVE  FALSE
    BY <2>3, <1>4 DEF OpenNew, TrimPhase, RunsTypeOK
  <2>4. ASSUME NEW u \in Task, Merge(u)
        PROVE  FALSE
    BY <2>4, <1>4 DEF Merge, RunsTypeOK
  <2> QED
    BY <2>1, <2>2, <2>3, <2>4, BranchFrame
<1>5. Inv /\ [EpicRunNext]_vars => Inv'
  BY <1>3
<1>6. Inv /\ [EpicRunNext]_vars => [Kept]_vars
  BY <1>4
<1> QED
  BY <1>2, <1>5, <1>6, PTL DEF EpicRunSpec, UnlandedSurvives

----------------------------------------------------------------------------
(* The caps of attempts *)

\* The places of a run before its fan-out returns, and those of its gate.
Early == {"idle", "open", "awaiting_land", "rebase", "block", "recreate", "ready", "triage", "refusing", "fanout"}
Batch == {"chunks", "drafting", "merging", "moving"}

\* The tasks of the phase that the run may still build, has built, or has in its batch.
InHand ==
  (IF run.at \in {"triage", "refusing"} THEN run.ready ELSE {})
    \cup (IF run.at \in {"triage", "fanout", "taking"} THEN run.todo ELSE {})
    \cup run.alive

\* A task is in one place of the run only, and leaves the phase approved when it was moved.
HandInv ==
  /\ stage \notin Ends /\ running = NoPhase => run.at = "idle"
  /\ run.at \in Early => run.alive = {}
  /\ run.at = "taking" => run.todo \cap run.alive = {}
  /\ run.at \in Batch => run.todo \subseteq run.alive
  /\ run.at \notin {"idle", "audit", "over"} => InHand \subseteq In(running)
  /\ run.at \notin {"moving", "close", "trim", "leave", "audit", "over"} => \A t \in InHand : run.copy[t] = "ready"
  /\ run.at \notin {"moving", "close", "audit", "over"} => \A t \in run.moved : run.copy[t] = "approved"
  /\ run.at \in {"moving", "close"} => \A t \in run.moved : run.copy[t] = "approved" \/ PhaseOf[t] = running

LEMMA InitHasHandInv == EpicRunInit => HandInv
<1> SUFFICES ASSUME EpicRunInit PROVE HandInv
  OBVIOUS
<1>1. run.at = "idle" /\ run.alive = {} /\ run.moved = {} /\ run.todo = {} /\ run.ready = {}
  BY DEF EpicRunInit, FreshRun
<1> QED
  BY <1>1 DEF HandInv, InHand, Early, Batch

LEMMA ReturnKeepsHandInv ==
  ASSUME PhaseDagTypeOK, RunsTypeOK, HandInv, NEW outcome, NEW stops \in BOOLEAN, Return(outcome, stops),
         run.at \notin {"moving", "close", "audit", "over"}
  PROVE  HandInv'
<1>1. run'.at = (IF stops THEN "audit" ELSE "idle") /\ run'.todo = {} /\ run'.ready = {} /\ run'.alive = {}
      /\ run'.moved = run.moved /\ run'.copy = run.copy
  BY DEF Return, RunsTypeOK, Run
<1>2. running' = NoPhase /\ stage' = IF stops THEN "stopped" ELSE stage
  BY DEF Return, EndPhase
<1>3. InHand' = {}
  BY <1>1 DEF InHand
<1> QED
  BY <1>1, <1>2, <1>3 DEF HandInv, Early, Batch, Ends

LEMMA OpenKeepsHandInv ==
  ASSUME PhaseDagTypeOK, RunsTypeOK, HandInv, OpenStep
  PROVE  HandInv'
<1>0. run \in Run
  BY DEF RunsTypeOK
<1>1. CASE NotOpened \/ AwaitLand \/ Block \/ RebaseConflicts
  BY <1>1, ReturnKeepsHandInv DEF NotOpened, AwaitLand, Block, RebaseConflicts
<1>2. ASSUME NEW p \in Phase, RecreateFails(p)
      PROVE  HandInv'
  BY <1>2, ReturnKeepsHandInv DEF RecreateFails
<1>3. ASSUME NEW p \in Phase, EnterPhase(p)
      PROVE  HandInv'
  <2>1. run.at = "idle"
    BY <1>3 DEF EnterPhase, StartPhase, AtPhase, HandInv, Ends
  <2>2. run' = [run EXCEPT !.at = "open"] /\ running' = p /\ NoPhase # p
    BY <1>3, PhaseDagAssumption DEF EnterPhase, Step, StartPhase
  <2>3. InHand' = {}
    BY <1>0, <2>1, <2>2 DEF InHand, Run, HandInv, Early
  <2> QED
    BY <1>0, <2>1, <2>2, <2>3 DEF HandInv, Run, Early, Batch
<1>4. ASSUME NEW p \in Phase, OpenNew(p) \/ OpenReused(p) \/ Rebase(p) \/ Recreate(p)
      PROVE  HandInv'
  <2>1. run.at \in {"open", "rebase", "recreate"} /\ running' = running /\ stage' = stage
    BY <1>4 DEF OpenNew, OpenReused, Rebase, Recreate, dagVars
  <2>2. PICK place \in {"awaiting_land", "rebase", "block", "recreate", "ready"} : run' = [run EXCEPT !.at = place]
    BY <1>4 DEF OpenNew, OpenReused, Rebase, Recreate, Step, Classify
  <2>3. InHand' = {}
    BY <1>0, <2>1, <2>2 DEF InHand, Run, HandInv, Early
  <2> QED
    BY <1>0, <2>1, <2>2, <2>3 DEF HandInv, Run, Early, Batch
<1> QED
  BY <1>1, <1>2, <1>3, <1>4 DEF OpenStep

LEMMA BuildKeepsHandInv ==
  ASSUME RunsTypeOK, HandInv, BuildStep
  PROVE  HandInv'
<1>0. run \in Run
  BY DEF RunsTypeOK
<1>1. running' = running /\ stage' = stage
  BY DEF BuildStep, Select, TriageRefuses, TriageAmends, TriageAsks, TriageEnds, Refuse, FanOut,
     TakeRefused, TakeBuilt, TakeUnverified, TakeEnds, dagVars
<1> USE DEF HandInv, InHand, Early, Batch, Run
<1>2. ASSUME NEW p \in Phase, Select(p)
      PROVE  HandInv'
  <2>1. p = running /\ run.at = "ready" /\ ReadyTasks(p) \subseteq In(running)
        /\ \A t \in ReadyTasks(p) : run.copy[t] = "ready"
    BY <1>2 DEF Select, ReadyTasks
  <2> QED
    BY <1>0, <1>1, <1>2, <2>1 DEF Select
<1>3. ASSUME NEW t \in Task, TriageRefuses(t)
      PROVE  HandInv'
  BY <1>0, <1>1, <1>3 DEF TriageRefuses, First
<1>4. ASSUME NEW t \in Task, TriageAmends(t)
      PROVE  HandInv'
  BY <1>0, <1>1, <1>4 DEF TriageAmends, First
<1>5. ASSUME NEW t \in Task, TriageAsks(t)
      PROVE  HandInv'
  BY <1>0, <1>1, <1>5 DEF TriageAsks, First
<1>6. CASE TriageEnds
  BY <1>0, <1>1, <1>6 DEF TriageEnds, Step
<1>7. CASE TakeEnds
  BY <1>0, <1>1, <1>7 DEF TakeEnds, Step
<1>8. ASSUME NEW unfit \in SUBSET run.ready, Refuse(unfit)
      PROVE  HandInv'
  BY <1>0, <1>1, <1>8 DEF Refuse
<1>9. ASSUME NEW failed \in SUBSET run.todo, NEW cause \in Blamed(failed), NEW stops \in BOOLEAN,
             FanOut(failed, cause, stops)
      PROVE  HandInv'
  BY <1>0, <1>1, <1>9 DEF FanOut
<1>10. ASSUME NEW t \in Task, NEW cause \in Blamed({t}), TakeRefused(t, cause)
      PROVE  HandInv'
  BY <1>0, <1>1, <1>10 DEF TakeRefused, First
<1>11. ASSUME NEW t \in Task, NEW cause \in Blamed({t}), TakeUnverified(t, cause)
      PROVE  HandInv'
  BY <1>0, <1>1, <1>11 DEF TakeUnverified, First
<1>12. ASSUME NEW t \in Task, NEW governed \in BOOLEAN, TakeBuilt(t, governed)
      PROVE  HandInv'
  BY <1>0, <1>1, <1>12 DEF TakeBuilt, First
<1> HIDE DEF HandInv
<1> QED
  BY <1>2, <1>3, <1>4, <1>5, <1>6, <1>7, <1>8, <1>9, <1>10, <1>11, <1>12 DEF BuildStep

LEMMA GateKeepsHandInv ==
  ASSUME RunsTypeOK, HandInv, GateStep
  PROVE  HandInv'
<1>0. run \in Run /\ work \in [Task -> State]
  BY DEF RunsTypeOK
<1>1. running' = running /\ stage' = stage
  BY DEF GateStep, Validate, ChunkSatisfied, ChunkUnsatisfied, BatchStep, NextSlot, Skip, RefuseStale,
     Draft, Merge, MergeConflicts, Move, MoveMismatch, MoveUnkept, ExecuteAsked, dagVars
<1> USE DEF HandInv, InHand, Early, Batch, Run
<1>2. ASSUME NEW p \in Phase, NEW verdict \in {"none", "unmet", "met"}, Validate(p, verdict)
      PROVE  HandInv'
  <2>1. PICK S \in SUBSET run.alive : run' = [run EXCEPT !.at = "chunks", !.verdict = verdict, !.todo = S]
    BY <1>2 DEF Validate
  <2> QED
    BY <1>0, <1>1, <1>2, <2>1 DEF Validate
<1>3. ASSUME NEW t \in Task, ChunkSatisfied(t) \/ Skip(t)
      PROVE  HandInv'
  <2>1. run' = [run EXCEPT !.todo = @ \ {t}] /\ run.at \in Batch
    BY <1>3 DEF ChunkSatisfied, Skip
  <2> QED
    BY <1>0, <1>1, <2>1
<1>4. ASSUME NEW t \in Task, RefuseStale(t) \/ MergeConflicts(t) \/ MoveUnkept(t)
      PROVE  HandInv'
  <2>1. run' = [run EXCEPT !.todo = @ \ {t}, !.quarantined = @ \cup {t}] /\ run.at \in Batch
    BY <1>4 DEF RefuseStale, MergeConflicts, MoveUnkept
  <2> QED
    BY <1>0, <1>1, <2>1
<1>5. ASSUME NEW t \in Task, NEW cause \in Blamed({t}), ChunkUnsatisfied(t, cause)
      PROVE  HandInv'
  BY <1>0, <1>1, <1>5 DEF ChunkUnsatisfied
<1>6. CASE BatchStep
  <2>1. PICK to \in {"drafting", "merging", "moving"} : run' = [run EXCEPT !.at = to, !.todo = run.alive]
    BY <1>6 DEF BatchStep, NextSlot
  <2>2. run.at \in {"chunks", "drafting", "merging"}
    BY <1>6 DEF BatchStep, NextSlot
  <2> QED
    BY <1>0, <1>1, <2>1, <2>2
<1>7. ASSUME NEW t \in Task, Draft(t)
      PROVE  HandInv'
  BY <1>0, <1>1, <1>7 DEF Draft
<1>8. ASSUME NEW t \in Task, Merge(t)
      PROVE  HandInv'
  BY <1>0, <1>1, <1>8 DEF Merge
<1>9. ASSUME NEW t \in Task, Move(t)
      PROVE  HandInv'
  <2>1. t \in In(running)
    BY <1>9 DEF Move, First
  <2> QED
    BY <1>0, <1>1, <1>9, <2>1 DEF Move, In
<1>10. ASSUME NEW t \in Task, MoveMismatch(t)
      PROVE  HandInv'
  <2>1. PhaseOf[t] = running
    BY <1>10 DEF MoveMismatch, First, In
  <2> QED
    BY <1>0, <1>1, <1>10, <2>1 DEF MoveMismatch
<1>11. ASSUME NEW amended \in SUBSET run.asked, ExecuteAsked(amended)
      PROVE  HandInv'
  BY <1>0, <1>1, <1>11 DEF ExecuteAsked, Step
<1> HIDE DEF HandInv
<1> QED
  BY <1>2, <1>3, <1>4, <1>5, <1>6, <1>7, <1>8, <1>9, <1>10, <1>11 DEF GateStep

LEMMA EndKeepsHandInv ==
  ASSUME PhaseDagTypeOK, RunsTypeOK, HandInv, EndStep
  PROVE  HandInv'
<1>0. run \in Run
  BY DEF RunsTypeOK
<1>1. ASSUME NEW p \in Phase, Reconcile(p)
      PROVE  HandInv'
  <2>1. run' = [run EXCEPT !.at = "trim",
                           !.copy = [t \in Task |-> IF t \in run.moved \cap In(p) THEN "approved" ELSE run.copy[t]]]
    BY <1>0, <1>1 DEF Reconcile, Run
  <2>2. run.at = "close" /\ p = running /\ running' = running /\ stage' = stage
    BY <1>1 DEF Reconcile, dagVars
  <2>3. run'.at = "trim" /\ run'.alive = run.alive /\ run'.moved = run.moved
        /\ run'.copy = [t \in Task |-> IF t \in run.moved \cap In(p) THEN "approved" ELSE run.copy[t]]
    BY <1>0, <2>1 DEF Run
  <2>4. \A t \in run.moved : run'.copy[t] = "approved"
    BY <1>0, <2>2, <2>3 DEF HandInv, Run, In
  <2>5. InHand' = run.alive /\ run.alive \subseteq In(running)
    BY <2>2, <2>3 DEF InHand, HandInv
  <2> QED
    BY <2>2, <2>3, <2>4, <2>5 DEF HandInv, Early, Batch
<1>2. ASSUME NoTrim \/ \E p \in Phase : TrimPhase(p)
      PROVE  HandInv'
  <2>1. run' = [run EXCEPT !.at = "leave"] /\ run.at = "trim" /\ running' = running /\ stage' = stage
    BY <1>2 DEF TrimPhase, NoTrim, Step, Trimmable, dagVars
  <2> QED
    BY <1>0, <2>1 DEF HandInv, InHand, Early, Batch, Run
<1>3. ASSUME NEW p \in Phase, Leave(p)
      PROVE  HandInv'
  <2>1. run.stops \in BOOLEAN
    BY <1>0 DEF Run
  <2> QED
    BY <1>3, <2>1, ReturnKeepsHandInv DEF Leave
<1>4. ASSUME EndRun \/ \E p \in Phase : LimitStop(p)
      PROVE  HandInv'
  <2>1. run' = [run EXCEPT !.at = "audit"] /\ stage' \in Ends
    BY <1>4 DEF LimitStop, EndRun, Step, PausePhase, EndWalk, Ends
  <2> QED
    BY <1>0, <2>1 DEF HandInv, InHand, Early, Batch, Run
<1>5. CASE Audit \/ Crash
  <2>1. run' = [FreshRun(work') EXCEPT !.at = "over", !.scratch = run.scratch]
    BY <1>5 DEF Audit, Crash, Over
  <2>2. run'.at = "over" /\ run'.alive = {}
    BY <2>1 DEF FreshRun
  <2>3. ~(stage' \notin Ends /\ running' = NoPhase)
    <3>1. CASE Crash
      BY <3>1 DEF Crash, Raise, Ends
    <3>2. CASE Audit
      BY <3>2 DEF Audit, dagVars, HandInv
    <3> QED
      BY <1>5, <3>1, <3>2
  <2>4. InHand' = {}
    BY <2>2 DEF InHand
  <2> QED
    BY <2>2, <2>3, <2>4 DEF HandInv, Early, Batch
<1> QED
  BY <1>1, <1>2, <1>3, <1>4, <1>5 DEF EndStep

LEMMA BesideKeepsHandInv ==
  ASSUME RunsTypeOK, HandInv, Beside
  PROVE  HandInv'
<1>0. run \in Run
  BY DEF RunsTypeOK
<1>1. UNCHANGED <<running, stage>>
  BY DEF Beside, Land, Requeue, SetAside, LoseBranch, LoseScratch, LoseLease, dagVars
<1>2. /\ run'.at = run.at /\ run'.copy = run.copy /\ run'.todo = run.todo
      /\ run'.ready = run.ready /\ run'.alive = run.alive /\ run'.moved = run.moved
  BY <1>0 DEF Beside, Land, Requeue, SetAside, LoseBranch, LoseScratch, LoseLease, Run
<1> QED
  BY <1>1, <1>2 DEF HandInv, InHand

LEMMA WalkKeepsHandInv ==
  ASSUME HandInv, WalkStep
  PROVE  HandInv'
<1>1. UNCHANGED <<running, run>> /\ (stage' \notin Ends => stage \notin Ends)
  BY DEF WalkStep, BeginRound, EndOrder, Append1, SkipPhase, AtPhase, Ends
<1> QED
  BY <1>1 DEF HandInv, InHand

LEMMA LoadKeepsHandInv ==
  ASSUME LoadRun
  PROVE  HandInv'
<1>1. run'.at = "idle" /\ run'.alive = {} /\ run'.moved = {} /\ run'.todo = {} /\ run'.ready = {}
  BY DEF LoadRun, FreshRun
<1> QED
  BY <1>1 DEF HandInv, InHand, Early, Batch

LEMMA StepKeepsHandInv ==
  ASSUME PhaseDagTypeOK, RunsTypeOK, HandInv, [EpicRunNext]_vars
  PROVE  HandInv'
<1>1. CASE UNCHANGED vars
  BY <1>1 DEF vars, dagVars, HandInv, InHand
<1> QED
  BY <1>1, WalkKeepsHandInv, OpenKeepsHandInv, BuildKeepsHandInv, GateKeepsHandInv, EndKeepsHandInv,
     BesideKeepsHandInv, LoadKeepsHandInv DEF EpicRunNext

\* The tasks on which the run may still count an attempt.
MayFail ==
  run.alive \cup run.moved
    \cup (IF run.at \in {"triage", "refusing"} THEN run.ready ELSE {})
    \cup (IF run.at \in {"fanout", "taking"} THEN run.todo ELSE {})

CapInv == CappedAttempts /\ \A t \in MayFail \cap Task : Len(tries[t]) < Cap(t)

\* What may still fail has failed at most once, and then for no fault of its own.
LEMMA BelowCap ==
  ASSUME NEW s \in Seq(Cause),
         Len(s) < (IF s # <<>> /\ s[Len(s)] = "own" THEN 1 ELSE ATTEMPT_CAP)
  PROVE  Len(s) = 0 \/ (Len(s) = 1 /\ s[1] = "other")
<1> DEFINE n == Len(s)
<1>1. n \in Nat /\ (s = <<>> <=> n = 0)
  BY EmptySeq
<1>2. n < 2 /\ (s # <<>> /\ s[n] = "own" => n < 1)
  BY <1>1 DEF ATTEMPT_CAP
<1>3. s # <<>> => s[n] \in Cause
  BY <1>1
<1> HIDE DEF n
<1>4. n = 0 \/ (n = 1 /\ s[n] = "other")
  BY <1>1, <1>2, <1>3 DEF Cause
<1> QED
  BY <1>4 DEF n

LEMMA OneMore ==
  ASSUME NEW s \in Seq(Cause), NEW c \in Cause,
         Len(s) = 0 \/ (Len(s) = 1 /\ s[1] = "other")
  PROVE  /\ Len(Append(s, c)) <= ATTEMPT_CAP
         /\ Len(Append(s, c)) = ATTEMPT_CAP => Append(s, c)[1] = "other"
<1> DEFINE grown == Append(s, c)
<1>1. Len(grown) = Len(s) + 1 /\ (Len(s) = 1 => grown[1] = s[1])
  OBVIOUS
<1>3. CASE Len(s) = 0
  BY <1>1, <1>3 DEF grown, ATTEMPT_CAP
<1>4. CASE Len(s) = 1
  BY <1>1, <1>4 DEF grown, ATTEMPT_CAP
<1> QED
  BY <1>3, <1>4
LEMMA SameTriesKeepCaps ==
  ASSUME CapInv, tries' = tries, MayFail' \cap Task \subseteq MayFail
  PROVE  CapInv'
BY DEF CapInv, CappedAttempts, Cap

LEMMA ClearedTriesKeepCaps ==
  ASSUME tries \in [Task -> Seq(Cause)], CapInv, NEW S,
         tries' = [t \in Task |-> IF t \in S THEN <<>> ELSE tries[t]],
         MayFail' \subseteq MayFail \cup S
  PROVE  CapInv'
<1>1. ASSUME NEW t \in Task, t \in S
      PROVE  Len(tries'[t]) = 0 /\ Cap(t)' = 2
  <2>1. tries'[t] = <<>>
    BY <1>1
  <2> QED
    BY <2>1 DEF Cap, ATTEMPT_CAP
<1>2. ASSUME NEW t \in Task, t \notin S
      PROVE  tries'[t] = tries[t] /\ Cap(t)' = Cap(t)
  BY <1>2 DEF Cap
<1> QED
  BY <1>1, <1>2 DEF CapInv, CappedAttempts, ATTEMPT_CAP

LEMMA CountKeepsCaps ==
  ASSUME tries \in [Task -> Seq(Cause)], CapInv, NEW S, S \subseteq Task, S \subseteq MayFail,
         NEW cause \in Blamed(S), Count(S, cause),
         MayFail' \subseteq MayFail, MayFail' \cap S = {}
  PROVE  CapInv'
<1>1. ASSUME NEW t \in Task
      PROVE  \/ tries'[t] = tries[t] /\ Cap(t)' = Cap(t)
             \/ t \in S /\ cause[t] \in Cause /\ tries'[t] = Append(tries[t], cause[t])
  BY DEF Count, Blamed, Cap
<1>2. ASSUME NEW t \in S, cause[t] \in Cause, tries'[t] = Append(tries[t], cause[t])
      PROVE  Len(tries'[t]) <= ATTEMPT_CAP /\ (Len(tries'[t]) = ATTEMPT_CAP => tries'[t][1] = "other")
  <2>1. tries[t] \in Seq(Cause) /\ t \in Task
    OBVIOUS
  <2>2. Len(tries[t]) < (IF tries[t] # <<>> /\ tries[t][Len(tries[t])] = "own" THEN 1 ELSE ATTEMPT_CAP)
    BY <2>1 DEF CapInv, Cap
  <2> QED
    BY <1>2, <2>1, <2>2, BelowCap, OneMore
<1>3. CappedAttempts'
  BY <1>1, <1>2 DEF CapInv, CappedAttempts
<1>4. ASSUME NEW t \in MayFail' \cap Task
      PROVE  Len(tries'[t]) < Cap(t)'
  <2>1. t \notin S /\ t \in MayFail
    OBVIOUS
  <2> QED
    BY <1>1, <2>1 DEF CapInv
<1> QED
  BY <1>3, <1>4 DEF CapInv

LEMMA InitHasCapInv == EpicRunInit => CapInv
<1> SUFFICES ASSUME EpicRunInit PROVE CapInv
  OBVIOUS
<1>1. MayFail = {}
  BY DEF EpicRunInit, FreshRun, MayFail
<1>2. \A t \in Task : Len(tries[t]) = 0
  BY DEF EpicRunInit
<1> QED
  BY <1>1, <1>2 DEF CapInv, CappedAttempts, ATTEMPT_CAP

LEMMA OpenKeepsCaps ==
  ASSUME RunsTypeOK, HandInv, CapInv, OpenStep
  PROVE  CapInv'
<1>0. run \in Run
  BY DEF RunsTypeOK
<1>1. UNCHANGED tries
  BY DEF OpenStep, NotOpened, AwaitLand, Block, RebaseConflicts, EnterPhase, OpenNew, OpenReused,
     Rebase, Recreate, RecreateFails, store
<1>2. ASSUME NEW outcome, Return(outcome, FALSE)
      PROVE  MayFail' \subseteq MayFail
  BY <1>0, <1>2 DEF Return, MayFail, Run
<1>3. ASSUME NEW place \in {"open", "awaiting_land", "rebase", "block", "recreate", "ready"}, Step(place)
      PROVE  MayFail' \subseteq MayFail
  BY <1>0, <1>3 DEF Step, MayFail, Run
<1>4. MayFail' \subseteq MayFail
  BY <1>2, <1>3 DEF OpenStep, NotOpened, AwaitLand, Block, RebaseConflicts, EnterPhase, OpenNew, OpenReused,
     Rebase, Recreate, RecreateFails, Classify
<1> QED
  BY <1>1, <1>4, SameTriesKeepCaps

LEMMA BuildKeepsCaps ==
  ASSUME RunsTypeOK, HandInv, CapInv, BuildStep
  PROVE  CapInv'
<1>0. run \in Run /\ tries \in [Task -> Seq(Cause)]
  BY DEF RunsTypeOK
<1>1. ASSUME NEW p \in Phase, Select(p)
      PROVE  CapInv'
  <2>1. \A t \in run'.ready \cap Task : Len(tries[t]) < Cap(t)
    <3>1. \A t \in Task : Len(tries[t]) \in Nat /\ Cap(t) \in Nat
      BY <1>0 DEF Cap, ATTEMPT_CAP
    <3>2. run'.ready = ReadyTasks(p) \ {t \in ReadyTasks(p) : Len(tries[t]) >= Cap(t)}
      BY <1>0, <1>1 DEF Select, Run
    <3> QED
      BY <3>1, <3>2
  <2>2. MayFail' \subseteq MayFail \cup run'.ready /\ tries' = tries
    BY <1>0, <1>1 DEF Select, MayFail, Run, store
  <2>3. \A t \in Task : Cap(t)' = Cap(t)
    BY <2>2 DEF Cap
  <2> QED
    BY <2>1, <2>2, <2>3 DEF CapInv, CappedAttempts
<1>2. ASSUME NEW t \in Task, TriageRefuses(t)
      PROVE  CapInv'
  <2>1. MayFail' \subseteq MayFail /\ tries' = tries
    BY <1>0, <1>2 DEF TriageRefuses, MayFail, Run
  <2> QED
    BY <2>1, SameTriesKeepCaps
<1>3. ASSUME NEW t \in Task, TriageAmends(t)
      PROVE  CapInv'
  <2>1. MayFail' \subseteq MayFail \cup {t}
    BY <1>0, <1>3 DEF TriageAmends, MayFail, Run
  <2>2. tries' = [u \in Task |-> IF u \in {t} THEN <<>> ELSE tries[u]]
    BY <1>0, <1>3 DEF TriageAmends
  <2> QED
    BY <1>0, <2>1, <2>2, ClearedTriesKeepCaps
<1>4. ASSUME NEW t \in Task, TriageAsks(t)
      PROVE  CapInv'
  <2>1. MayFail' \subseteq MayFail /\ tries' = tries
    BY <1>0, <1>4 DEF TriageAsks, MayFail, Run, store
  <2> QED
    BY <2>1, SameTriesKeepCaps
<1>5. CASE TriageEnds \/ TakeEnds
  <2>1. MayFail' \subseteq MayFail /\ tries' = tries
    BY <1>0, <1>5 DEF TriageEnds, TakeEnds, Step, MayFail, Run, store
  <2> QED
    BY <2>1, SameTriesKeepCaps
<1>6. ASSUME NEW unfit \in SUBSET run.ready, Refuse(unfit)
      PROVE  CapInv'
  <2>1. MayFail' \subseteq MayFail /\ tries' = tries
    BY <1>0, <1>6 DEF Refuse, MayFail, Run
  <2> QED
    BY <2>1, SameTriesKeepCaps
<1>7. ASSUME NEW failed \in SUBSET run.todo, NEW cause \in Blamed(failed), NEW stops \in BOOLEAN,
             FanOut(failed, cause, stops)
      PROVE  CapInv'
  <2>1. failed \subseteq MayFail /\ failed \subseteq Task
    BY <1>0, <1>7 DEF FanOut, MayFail, Run
  <2>2. failed \cap run.moved = {} /\ run.alive = {}
    BY <1>0, <1>7 DEF FanOut, HandInv, InHand, Early, Run
  <2>3. MayFail' = run.moved \cup (run.todo \ failed)
    BY <1>0, <1>7, <2>2 DEF FanOut, MayFail, Run
  <2>4. MayFail' \subseteq MayFail /\ MayFail' \cap failed = {}
    BY <1>7, <2>2, <2>3 DEF FanOut, MayFail
  <2>5. Count(failed, cause)
    BY <1>7 DEF FanOut
  <2> QED
    BY <1>0, <2>1, <2>4, <2>5, CountKeepsCaps
<1>8. ASSUME NEW t \in Task, NEW cause \in Blamed({t}), TakeRefused(t, cause) \/ TakeUnverified(t, cause)
      PROVE  CapInv'
  <2>1. run.at = "taking" /\ t \in run.todo /\ Count({t}, cause)
    BY <1>8 DEF TakeRefused, TakeUnverified, First
  <2>2. t \notin run.moved \cup run.alive
    BY <1>0, <2>1 DEF HandInv, InHand, Run
  <2>3. /\ run'.at = "taking" /\ run'.alive = run.alive /\ run'.moved = run.moved
        /\ run'.todo = run.todo \ {t}
    BY <1>0, <1>8 DEF TakeRefused, TakeUnverified, Run
  <2>4. {t} \subseteq MayFail /\ MayFail' \subseteq MayFail /\ MayFail' \cap {t} = {}
    BY <2>1, <2>2, <2>3 DEF MayFail
  <2> QED
    BY <1>0, <2>1, <2>4, CountKeepsCaps
<1>9. ASSUME NEW t \in Task, NEW governed \in BOOLEAN, TakeBuilt(t, governed)
      PROVE  CapInv'
  <2>1. t \in run.todo /\ run.at = "taking" /\ tries' = tries
    BY <1>9 DEF TakeBuilt, First, store
  <2>2. run'.at = run.at /\ run'.moved = run.moved /\ run'.alive = run.alive \cup {t} /\ run'.todo \subseteq run.todo
    BY <1>0, <1>9 DEF TakeBuilt, Run
  <2>3. MayFail' \subseteq MayFail
    BY <2>1, <2>2 DEF MayFail
  <2> QED
    BY <2>1, <2>3, SameTriesKeepCaps
<1> QED
  BY <1>1, <1>2, <1>3, <1>4, <1>5, <1>6, <1>7, <1>8, <1>9 DEF BuildStep

LEMMA GateKeepsCaps ==
  ASSUME RunsTypeOK, HandInv, CapInv, GateStep
  PROVE  CapInv'
<1>0. run \in Run /\ tries \in [Task -> Seq(Cause)]
  BY DEF RunsTypeOK
<1>1. ASSUME NEW t \in Task, NEW cause \in Blamed({t}), ChunkUnsatisfied(t, cause)
      PROVE  CapInv'
  <2>1. run.at = "chunks" /\ t \in run.todo /\ Count({t}, cause)
    BY <1>1 DEF ChunkUnsatisfied, First
  <2>2. t \in run.alive /\ t \notin run.moved
    BY <1>0, <2>1 DEF HandInv, InHand, Batch, Run
  <2>3. run'.at = "chunks" /\ run'.alive = run.alive \ {t} /\ run'.moved = run.moved
    BY <1>0, <1>1 DEF ChunkUnsatisfied, Run
  <2>4. {t} \subseteq MayFail /\ MayFail' \subseteq MayFail /\ MayFail' \cap {t} = {}
    BY <2>1, <2>2, <2>3 DEF MayFail
  <2> QED
    BY <1>0, <2>1, <2>4, CountKeepsCaps
<1>2. ASSUME NEW amended \in SUBSET run.asked, ExecuteAsked(amended)
      PROVE  CapInv'
  <2>1. MayFail' \subseteq MayFail \cup amended
    BY <1>0, <1>2 DEF ExecuteAsked, Step, MayFail, Run
  <2>2. tries' = [t \in Task |-> IF t \in amended THEN <<>> ELSE tries[t]]
    BY <1>2 DEF ExecuteAsked
  <2> QED
    BY <1>0, <2>1, <2>2, ClearedTriesKeepCaps
<1>3. ASSUME NEW t \in Task, Move(t)
      PROVE  CapInv'
  <2>1. t \in run.alive /\ tries' = tries
    BY <1>3 DEF Move, First, HandInv, Batch
  <2>2. run'.at = run.at /\ run'.alive = run.alive /\ run'.moved = run.moved \cup {t} /\ run.at = "moving"
    BY <1>0, <1>3 DEF Move, Run
  <2>3. MayFail' \subseteq MayFail
    BY <2>1, <2>2 DEF MayFail
  <2> QED
    BY <2>1, <2>3, SameTriesKeepCaps
<1>4. ASSUME NEW t \in Task, ChunkSatisfied(t) \/ Skip(t) \/ RefuseStale(t) \/ Draft(t) \/ Merge(t)
                             \/ MergeConflicts(t) \/ MoveMismatch(t) \/ MoveUnkept(t)
      PROVE  CapInv'
  <2>1. /\ tries' = tries
        /\ run.at \in Batch
        /\ run'.at = run.at /\ run'.alive = run.alive /\ run'.moved = run.moved
    BY <1>0, <1>4 DEF ChunkSatisfied, Skip, RefuseStale, Draft, Merge, MergeConflicts, MoveMismatch, MoveUnkept,
       Run, Batch, store
  <2>2. MayFail' \subseteq MayFail
    BY <2>1 DEF MayFail, Batch
  <2> QED
    BY <2>1, <2>2, SameTriesKeepCaps
<1>5. ASSUME BatchStep \/ \E p \in Phase, verdict \in {"none", "unmet", "met"} : Validate(p, verdict)
      PROVE  CapInv'
  <2>1. tries' = tries /\ run'.at \in Batch /\ run'.alive = run.alive /\ run'.moved = run.moved
    BY <1>0, <1>5 DEF Validate, BatchStep, NextSlot, Run, Batch, store
  <2>2. MayFail' \subseteq MayFail
    BY <2>1 DEF MayFail, Batch
  <2> QED
    BY <2>1, <2>2, SameTriesKeepCaps
<1> QED
  BY <1>1, <1>2, <1>3, <1>4, <1>5 DEF GateStep

LEMMA EndKeepsCaps ==
  ASSUME RunsTypeOK, CapInv, EndStep
  PROVE  CapInv'
<1>0. run \in Run /\ tries \in [Task -> Seq(Cause)]
  BY DEF RunsTypeOK
<1>1. ASSUME NEW place \in {"trim", "leave", "audit"}, run'.at = place, run'.alive = run.alive,
             run'.moved = run.moved, tries' = tries
      PROVE  CapInv'
  <2>1. MayFail' \subseteq MayFail
    BY <1>1 DEF MayFail
  <2> QED
    BY <1>1, <2>1, SameTriesKeepCaps
<1>2. ASSUME NEW p \in Phase, Reconcile(p)
      PROVE  CapInv'
  BY <1>0, <1>1, <1>2 DEF Reconcile, Run, store
<1>3. ASSUME NoTrim \/ EndRun \/ \E p \in Phase : TrimPhase(p) \/ LimitStop(p)
      PROVE  CapInv'
  <2>1. PICK place \in {"leave", "audit"} : Step(place)
    BY <1>3 DEF NoTrim, EndRun, TrimPhase, LimitStop
  <2>2. tries' = tries
    BY <1>3 DEF NoTrim, EndRun, TrimPhase, LimitStop, store
  <2> QED
    BY <1>0, <1>1, <2>1, <2>2 DEF Step, Run
<1>4. ASSUME NEW p \in Phase, Leave(p)
      PROVE  CapInv'
  <2>1. /\ run'.at \in {"audit", "idle"} /\ run'.alive = {} /\ run'.moved = run.moved
        /\ tries' = tries
    BY <1>0, <1>4 DEF Leave, Return, Run, store
  <2>2. MayFail' \subseteq MayFail
    BY <2>1 DEF MayFail
  <2> QED
    BY <2>1, <2>2, SameTriesKeepCaps
<1>5. ASSUME Over
      PROVE  MayFail' = {}
  BY <1>5 DEF Over, FreshRun, MayFail
<1>6. CASE Audit
  <2> DEFINE lost == {t \in Audited : ~StillKept(t)}
  <2>1. lost \subseteq Task /\ lost \subseteq MayFail
    BY <1>0 DEF Audited, MayFail, Run
  <2>2. [t \in lost |-> "other"] \in Blamed(lost)
    BY DEF Blamed, Cause
  <2>3. Count(lost, [t \in lost |-> "other"]) /\ MayFail' = {}
    BY <1>5, <1>6 DEF Audit
  <2> QED
    BY <1>0, <2>1, <2>2, <2>3, CountKeepsCaps
<1>7. CASE Crash
  BY <1>5, <1>7, SameTriesKeepCaps DEF Crash, store
<1> QED
  BY <1>2, <1>3, <1>4, <1>6, <1>7 DEF EndStep

LEMMA BesideKeepsCaps ==
  ASSUME RunsTypeOK, CapInv, Beside
  PROVE  CapInv'
<1>0. run \in Run /\ tries \in [Task -> Seq(Cause)]
  BY DEF RunsTypeOK
<1>1. MayFail' = MayFail
  <2>1. /\ run'.at = run.at /\ run'.todo = run.todo /\ run'.ready = run.ready
        /\ run'.alive = run.alive /\ run'.moved = run.moved
    BY <1>0 DEF Beside, Land, Requeue, SetAside, LoseBranch, LoseScratch, LoseLease, Run
  <2> QED
    BY <2>1 DEF MayFail
<1>2. ASSUME NEW t \in Task, NEW rewritten \in BOOLEAN, Requeue(t, rewritten)
      PROVE  CapInv'
  <2>1. PICK S \in {{}, {t}} : tries' = [u \in Task |-> IF u \in S THEN <<>> ELSE tries[u]]
    <3>1. CASE rewritten
      BY <1>0, <1>2, <3>1 DEF Requeue
    <3>2. CASE ~rewritten
      BY <1>0, <1>2, <3>2 DEF Requeue
    <3> QED
      BY <3>1, <3>2
  <2> QED
    BY <1>0, <1>1, <2>1, ClearedTriesKeepCaps
<1>3. ASSUME tries' = tries
      PROVE  CapInv'
  BY <1>1, <1>3, SameTriesKeepCaps
<1> QED
  BY <1>2, <1>3 DEF Beside, Land, SetAside, LoseBranch, LoseScratch, LoseLease, store

LEMMA StepKeepsCapInv ==
  ASSUME RunsTypeOK, HandInv, CapInv, [EpicRunNext]_vars
  PROVE  CapInv'
<1>1. CASE WalkStep \/ UNCHANGED vars
  BY <1>1, SameTriesKeepCaps DEF WalkStep, vars, store, MayFail
<1>2. CASE LoadRun
  <2>1. MayFail' = {} /\ tries' = tries
    BY <1>2 DEF LoadRun, FreshRun, MayFail, store
  <2> QED
    BY <2>1, SameTriesKeepCaps
<1> QED
  BY <1>1, <1>2, OpenKeepsCaps, BuildKeepsCaps, GateKeepsCaps, EndKeepsCaps, BesideKeepsCaps DEF EpicRunNext

\* No body of a task is built a third time, and none a second time after a fault of its own, in any
\* order of runs, crashes, triage, audits and requeues (epic.py: _attempt_cap, _triage_pass).
THEOREM AttemptsAreCapped == EpicRunSpec => []CappedAttempts
<1>1. EpicRunInit => HandInv /\ CapInv
  BY InitHasHandInv, InitHasCapInv
<1>2. EpicRunTypeOK /\ HandInv /\ CapInv /\ [EpicRunNext]_vars => HandInv' /\ CapInv'
  BY StepKeepsHandInv, StepKeepsCapInv DEF EpicRunTypeOK, RunsTypeOK
<1>3. HandInv /\ CapInv => CappedAttempts
  BY DEF CapInv
<1> QED
  BY <1>1, <1>2, <1>3, EpicRunTypeCorrect, PTL DEF EpicRunSpec

----------------------------------------------------------------------------
(* What a run quarantined, and what it kept *)

\* The places of a run between its ready view and its merges.
Building == {"triage", "refusing", "fanout", "taking", "validate", "chunks", "drafting"}

\* The tasks a run has reported on.
Touched == run.quarantined \cup run.merged \cup run.moved

\* A run touches the tasks of the phases it has run, and those of a phase only after its ready view.
TouchInv ==
  /\ stage \in Ends <=> run.at \in {"audit", "over"}
  /\ run.at = "over" => Touched = {}
  /\ stage = "ordering" => Touched = {}
  /\ stage \notin Ends => \A t \in Touched : PhaseOf[t] = running \/ status[PhaseOf[t]] # "none"
  /\ run.at \in {"open", "awaiting_land", "rebase", "block", "recreate", "ready"} => Touched \cap In(running) = {}

\* A run that holds its lease has in hand nothing it has quarantined or merged.
HandsOffInv ==
  /\ run.at = "triage" => run.todo \cap run.ready = {}
  /\ run.at = "moving" => \A t \in run.todo : run.copy[t] = "ready" /\ t \notin run.moved
  /\ ~run.stale =>
       /\ run.at \in Building => InHand \cap (run.quarantined \cup run.merged) = {}
       /\ run.at = "merging" => run.todo \cap (run.quarantined \cup run.merged) = {}
       /\ run.at = "merging" => \A t \in run.alive \cap run.quarantined : t \notin run.governed \cup run.merged
       /\ run.at = "moving" => \A t \in run.todo \cap run.quarantined : t \notin run.governed \cup run.merged

\* What a run holds as ready and has not moved nobody else approved; what it quarantined is so stored, but
\* for the rows whose write the store failed.
RowInv ==
  /\ \A t \in Task :
       run.copy[t] = "ready" /\ t \notin run.moved => work[t] \in {"ready", "quarantined"}
  /\ ~run.stale => \A t \in run.quarantined \ unwritten : work[t] \notin {"ready", "approved"}

LEMMA InitHasTouchInv == EpicRunInit => TouchInv
BY DEF EpicRunInit, FreshRun, TouchInv, Touched, Ends

\* A step in a phase touches the tasks of the phase only.
LEMMA StepInPhaseTouches ==
  ASSUME HandInv, TouchInv, ReportsInOrder, UNCHANGED <<stage, running, status>>,
         run.at \notin {"idle", "audit", "over"},
         Touched' \subseteq Touched \cup In(running),
         run'.at \in {"open", "awaiting_land", "rebase", "block", "recreate", "ready"} =>
           Touched' = Touched /\ run.at \in {"open", "awaiting_land", "rebase", "block", "recreate", "ready"},
         run'.at \notin {"audit", "over"}
  PROVE  TouchInv'
<1>1. stage \notin Ends /\ running # NoPhase
  BY DEF TouchInv, HandInv
<1>2. stage # "ordering"
  BY <1>1 DEF ReportsInOrder
<1>3. ASSUME NEW t \in Touched'
      PROVE  PhaseOf[t] = running \/ status[PhaseOf[t]] # "none"
  BY <1>1, <1>3 DEF TouchInv, In
<1>4. ASSUME run'.at \in {"open", "awaiting_land", "rebase", "block", "recreate", "ready"}
      PROVE  Touched' \cap In(running) = {}
  BY <1>4 DEF TouchInv
<1> HIDE DEF Touched
<1>5. In(running)' = In(running)
  BY DEF In
<1> QED
  BY <1>1, <1>2, <1>3, <1>4, <1>5 DEF TouchInv

LEMMA ReturnKeepsTouchInv ==
  ASSUME PhaseDagTypeOK, RunsTypeOK, TouchInv, NEW outcome \in Outcome, NEW stops \in BOOLEAN, Return(outcome, stops),
         run.at \notin {"audit", "over"}
  PROVE  TouchInv'
<1>1. run'.at = (IF stops THEN "audit" ELSE "idle") /\ Touched' = Touched /\ Touched \subseteq Task
  BY DEF Return, RunsTypeOK, Run, Touched
<1>2. running' = NoPhase /\ running # NoPhase /\ stage' = (IF stops THEN "stopped" ELSE stage)
      /\ status' = [status EXCEPT ![running] = outcome]
  BY DEF Return, EndPhase
<1>3. running \in Phase /\ status \in [Phase -> Outcome \cup {"none"}] /\ outcome # "none"
  BY <1>2 DEF PhaseDagTypeOK, Outcome
<1>4. ASSUME NEW t \in Touched, stage' \notin Ends
      PROVE  status'[PhaseOf[t]] # "none"
  <2>1. PhaseOf[t] \in Phase
    BY <1>1, EpicRunAssumption
  <2>2. stage \notin Ends
    BY <1>2, <1>4 DEF Ends
  <2> QED
    BY <1>2, <1>3, <2>1, <2>2 DEF TouchInv
<1>5. stage' = "ordering" => Touched = {}
  BY <1>2 DEF TouchInv
<1>6. stage' \in Ends <=> run'.at = "audit"
  <2>1. stage \notin Ends /\ "stopped" \in Ends
    BY DEF TouchInv, Ends
  <2> QED
    BY <1>1, <1>2, <2>1
<1> HIDE DEF Touched
<1> QED
  BY <1>1, <1>4, <1>5, <1>6 DEF TouchInv

LEMMA OpenKeepsTouchInv ==
  ASSUME DagInv, RunsTypeOK, HandInv, TouchInv, OpenStep
  PROVE  TouchInv'
<1>0. run \in Run /\ PhaseDagTypeOK /\ ReportsInOrder
  BY DEF RunsTypeOK, DagInv
<1>1. CASE NotOpened \/ AwaitLand \/ Block \/ RebaseConflicts
  BY <1>0, <1>1, ReturnKeepsTouchInv DEF NotOpened, AwaitLand, Block, RebaseConflicts, Outcome
<1>2. ASSUME NEW p \in Phase, RecreateFails(p)
      PROVE  TouchInv'
  BY <1>0, <1>2, ReturnKeepsTouchInv DEF RecreateFails, Outcome
<1>3. ASSUME NEW p \in Phase, EnterPhase(p)
      PROVE  TouchInv'
  <2>1. stage = "walking" /\ running = NoPhase /\ running' = p /\ stage' = stage /\ status' = status
        /\ run' = [run EXCEPT !.at = "open"]
    BY <1>3 DEF EnterPhase, StartPhase, AtPhase, Step
  <2>2. status[p] = "none"
    <3>1. next \in Nat \ {0} /\ Len(ordered) \in Nat /\ next <= Len(ordered) /\ p = ordered[next]
      BY <1>0, <1>3 DEF PhaseDagTypeOK, EnterPhase, StartPhase, AtPhase
    <3>2. next \in 1..Len(ordered) /\ next >= next
      BY <3>1
    <3> QED
      BY <1>0, <3>1, <3>2 DEF ReportsInOrder
  <2>3. Touched' = Touched /\ Touched \subseteq Task /\ run'.at = "open"
    BY <1>0, <2>1 DEF Touched, Run
  <2>4. ASSUME NEW t \in Touched
        PROVE  status[PhaseOf[t]] # "none"
    <3>1. PhaseOf[t] # NoPhase
      BY <2>3, EpicRunAssumption, PhaseDagAssumption
    <3> QED
      BY <2>1, <3>1 DEF TouchInv, Ends
  <2>5. Touched \cap In(p) = {}
    BY <2>2, <2>4 DEF In
  <2>6. In(running)' = In(p)
    BY <2>1 DEF In
  <2> HIDE DEF Touched
  <2> QED
    BY <2>1, <2>3, <2>4, <2>5, <2>6 DEF TouchInv, Ends
<1>4. ASSUME NEW p \in Phase, OpenNew(p) \/ OpenReused(p) \/ Rebase(p) \/ Recreate(p)
      PROVE  TouchInv'
  <2>1. run.at \in {"open", "rebase", "recreate"} /\ UNCHANGED <<running, stage, status>>
    BY <1>4 DEF OpenNew, OpenReused, Rebase, Recreate, dagVars
  <2>2. PICK place \in {"awaiting_land", "rebase", "block", "recreate", "ready"} : run' = [run EXCEPT !.at = place]
    BY <1>4 DEF OpenNew, OpenReused, Rebase, Recreate, Step, Classify
  <2>3. Touched' = Touched /\ run'.at = place
    BY <1>0, <2>2 DEF Touched, Run
  <2> HIDE DEF Touched
  <2> QED
    BY <1>0, <2>1, <2>3, StepInPhaseTouches
<1> QED
  BY <1>1, <1>2, <1>3, <1>4 DEF OpenStep

LEMMA WalkKeepsTouchInv ==
  ASSUME DagInv, RunsTypeOK, TouchInv, WalkStep
  PROVE  TouchInv'
<1>1. UNCHANGED <<running, run>> /\ stage \in {"ordering", "walking"} /\ stage' \in {"ordering", "walking"}
  BY DEF WalkStep, BeginRound, EndOrder, Append1, SkipPhase, AtPhase, Ends
<1>2. Touched' = Touched /\ In(running)' = In(running)
  BY <1>1 DEF Touched, In
<1>3. CASE stage = "ordering"
  <2>1. Touched = {} /\ stage' \notin Ends
    BY <1>1, <1>3 DEF TouchInv, Ends
  <2> HIDE DEF Touched
  <2> QED
    BY <1>1, <1>2, <2>1 DEF TouchInv, Ends
<1>4. CASE stage # "ordering"
  <2>1. PICK p \in Phase : SkipPhase(p)
    BY <1>4 DEF WalkStep, BeginRound, EndOrder, Append1
  <2>2. status' = [status EXCEPT ![p] = "blocked"] /\ stage' = stage
    BY <2>1 DEF SkipPhase
  <2>3. \A q : q \in Phase /\ status[q] # "none" => status'[q] # "none"
    BY <2>2 DEF DagInv, PhaseDagTypeOK
  <2>4. \A t \in Touched : PhaseOf[t] \in Phase
    BY EpicRunAssumption DEF RunsTypeOK, Run, Touched
  <2> HIDE DEF Touched
  <2> QED
    BY <1>1, <1>2, <1>4, <2>2, <2>3, <2>4 DEF TouchInv, Ends
<1> QED
  BY <1>3, <1>4

LEMMA BuildKeepsTouchInv ==
  ASSUME DagInv, RunsTypeOK, HandInv, TouchInv, BuildStep
  PROVE  TouchInv'
<1>0. run \in Run
  BY DEF RunsTypeOK
<1>1. UNCHANGED <<stage, running, status>>
  BY DEF BuildStep, Select, TriageRefuses, TriageAmends, TriageAsks, TriageEnds, Refuse, FanOut,
     TakeRefused, TakeBuilt, TakeUnverified, TakeEnds, dagVars
<1> DEFINE Stays == /\ run.at \in {"ready", "triage", "refusing", "fanout", "taking"}
                    /\ run'.at \in {"triage", "refusing", "fanout", "taking", "validate"}
                    /\ run'.quarantined \subseteq run.quarantined \cup InHand
                    /\ run'.merged = run.merged /\ run'.moved = run.moved
<1> USE DEF InHand, Run
<1>2. ASSUME NEW p \in Phase, Select(p)
      PROVE  Stays
  BY <1>0, <1>2 DEF Select
<1>3. ASSUME NEW t \in Task, TriageRefuses(t) \/ TriageAmends(t) \/ TriageAsks(t)
      PROVE  Stays
  <2>1. run.at = "triage" /\ t \in InHand
    BY <1>3 DEF TriageRefuses, TriageAmends, TriageAsks, First
  <2>2. run'.at = run.at /\ run'.merged = run.merged /\ run'.moved = run.moved
        /\ run'.quarantined \subseteq run.quarantined \cup {t}
    BY <1>0, <1>3 DEF TriageRefuses, TriageAmends, TriageAsks
  <2> HIDE DEF InHand
  <2> QED
    BY <2>1, <2>2
<1>4. ASSUME TriageEnds \/ TakeEnds
      PROVE  Stays
  BY <1>0, <1>4 DEF TriageEnds, TakeEnds, Step
<1>5. ASSUME NEW unfit \in SUBSET run.ready, Refuse(unfit)
      PROVE  Stays
  BY <1>0, <1>5 DEF Refuse
<1>6. ASSUME NEW failed \in SUBSET run.todo, NEW cause \in Blamed(failed), NEW stops \in BOOLEAN,
             FanOut(failed, cause, stops)
      PROVE  Stays
  BY <1>0, <1>6 DEF FanOut
<1>7. ASSUME NEW t \in Task, NEW cause \in Blamed({t}), TakeRefused(t, cause) \/ TakeUnverified(t, cause)
      PROVE  Stays
  <2>1. run.at = "taking" /\ t \in InHand
    BY <1>7 DEF TakeRefused, TakeUnverified, First
  <2>2. run'.at = run.at /\ run'.merged = run.merged /\ run'.moved = run.moved
        /\ run'.quarantined \subseteq run.quarantined \cup {t}
    BY <1>0, <1>7 DEF TakeRefused, TakeUnverified
  <2> HIDE DEF InHand
  <2> QED
    BY <2>1, <2>2
<1>8. ASSUME NEW t \in Task, NEW governed \in BOOLEAN, TakeBuilt(t, governed)
      PROVE  Stays
  BY <1>0, <1>8 DEF TakeBuilt
<1> HIDE DEF InHand, Run
<1>9. Stays
  <2> HIDE DEF Stays
  <2> QED
    BY <1>2, <1>3, <1>4, <1>5, <1>6, <1>7, <1>8 DEF BuildStep
<1>10. Touched' \subseteq Touched \cup In(running)
  BY <1>9 DEF Touched, HandInv
<1> HIDE DEF Touched
<1> QED
  BY <1>1, <1>9, <1>10, StepInPhaseTouches DEF DagInv

LEMMA GateKeepsTouchInv ==
  ASSUME DagInv, RunsTypeOK, HandInv, TouchInv, GateStep
  PROVE  TouchInv'
<1>0. run \in Run
  BY DEF RunsTypeOK
<1>1. UNCHANGED <<stage, running, status>>
  BY DEF GateStep, Validate, ChunkSatisfied, ChunkUnsatisfied, BatchStep, NextSlot, Skip, RefuseStale,
     Draft, Merge, MergeConflicts, Move, MoveMismatch, MoveUnkept, ExecuteAsked, dagVars
<1> DEFINE Stays == /\ run.at \in Batch \cup {"validate"}
                    /\ run'.at \in Batch \cup {"close"}
                    /\ \E S \in SUBSET InHand :
                         /\ run'.quarantined \subseteq run.quarantined \cup S
                         /\ run'.merged \subseteq run.merged \cup S
                         /\ run'.moved \subseteq run.moved \cup S
<1> USE DEF Batch, Run
<1>2. ASSUME NEW p \in Phase, NEW verdict \in {"none", "unmet", "met"}, Validate(p, verdict)
      PROVE  Stays
  BY <1>0, <1>2 DEF Validate
<1>3. ASSUME NEW t \in Task, ChunkSatisfied(t)
      PROVE  Stays
  BY <1>0, <1>3 DEF ChunkSatisfied
<1>4. ASSUME BatchStep
      PROVE  Stays
  <2>1. PICK to \in {"drafting", "merging", "moving"} : run' = [run EXCEPT !.at = to, !.todo = run.alive]
    BY <1>4 DEF BatchStep, NextSlot
  <2>2. run.at \in {"chunks", "drafting", "merging"}
    BY <1>4 DEF BatchStep, NextSlot
  <2> QED
    BY <1>0, <2>1, <2>2
<1>5. ASSUME NEW amended \in SUBSET run.asked, ExecuteAsked(amended)
      PROVE  Stays
  BY <1>0, <1>5 DEF ExecuteAsked, Step
<1>6. ASSUME NEW t \in Task, run.at \in Batch, t \in First(run.todo)
      PROVE  {t} \in SUBSET InHand
  BY <1>6 DEF First, InHand, HandInv
<1>7. ASSUME NEW t \in Task, NEW cause \in Blamed({t}), ChunkUnsatisfied(t, cause)
      PROVE  Stays
  <2>1. {t} \in SUBSET InHand /\ run.at = "chunks"
    BY <1>6, <1>7 DEF ChunkUnsatisfied
  <2>2. run'.at = run.at /\ run'.quarantined = run.quarantined \cup {t} /\ run'.merged = run.merged
        /\ run'.moved = run.moved
    BY <1>0, <1>7 DEF ChunkUnsatisfied
  <2> QED
    BY <2>1, <2>2
<1>8. ASSUME NEW t \in Task, Skip(t) \/ RefuseStale(t) \/ Draft(t) \/ Merge(t) \/ MergeConflicts(t)
      PROVE  Stays
  <2>1. {t} \in SUBSET InHand /\ run.at \in Batch
    BY <1>6, <1>8 DEF Skip, RefuseStale, Draft, Merge, MergeConflicts
  <2>2. run'.at = run.at /\ run'.quarantined \subseteq run.quarantined \cup {t}
        /\ run'.merged \subseteq run.merged \cup {t} /\ run'.moved = run.moved
    BY <1>0, <1>8 DEF Skip, RefuseStale, Draft, Merge, MergeConflicts
  <2> QED
    BY <2>1, <2>2
<1>9. ASSUME NEW t \in Task, Move(t) \/ MoveMismatch(t) \/ MoveUnkept(t)
      PROVE  Stays
  <2>1. {t} \in SUBSET InHand /\ run.at \in Batch
    BY <1>6, <1>9 DEF Move, MoveMismatch, MoveUnkept
  <2>2. run'.at = run.at /\ run'.quarantined \subseteq run.quarantined \cup {t}
        /\ run'.merged = run.merged /\ run'.moved \subseteq run.moved \cup {t}
    BY <1>0, <1>9 DEF Move, MoveMismatch, MoveUnkept
  <2> QED
    BY <2>1, <2>2
<1>10. Stays
  <2> HIDE DEF Stays
  <2> QED
    BY <1>2, <1>3, <1>4, <1>5, <1>7, <1>8, <1>9 DEF GateStep
<1> HIDE DEF Run
<1>11. Touched' \subseteq Touched \cup In(running)
  BY <1>10 DEF Touched, HandInv
<1> HIDE DEF Touched
<1> QED
  BY <1>1, <1>10, <1>11, StepInPhaseTouches DEF DagInv

LEMMA EndKeepsTouchInv ==
  ASSUME DagInv, RunsTypeOK, HandInv, TouchInv, EndStep
  PROVE  TouchInv'
<1>0. run \in Run /\ PhaseDagTypeOK
  BY DEF RunsTypeOK, DagInv
<1>1. ASSUME \/ NoTrim
             \/ \E p \in Phase : Reconcile(p) \/ TrimPhase(p)
      PROVE  TouchInv'
  <2>1. UNCHANGED <<stage, running, status>> /\ run.at \in {"close", "trim"} /\ run'.at \in {"trim", "leave"}
        /\ run'.quarantined = run.quarantined /\ run'.merged = run.merged /\ run'.moved = run.moved
    BY <1>0, <1>1 DEF NoTrim, Reconcile, TrimPhase, Trimmable, Step, dagVars, Run
  <2>2. Touched' = Touched
    BY <2>1 DEF Touched
  <2> HIDE DEF Touched
  <2> QED
    BY <2>1, <2>2, StepInPhaseTouches DEF DagInv
<1>2. ASSUME NEW p \in Phase, Leave(p)
      PROVE  TouchInv'
  <2>1. run.stops \in BOOLEAN /\ (IF run.stale THEN "blocked" ELSE PhaseStatus(p)) \in Outcome
    BY <1>0 DEF Run, PhaseStatus, Outcome
  <2> QED
    BY <1>0, <1>2, <2>1, ReturnKeepsTouchInv DEF Leave
<1>3. ASSUME EndRun \/ \E p \in Phase : LimitStop(p)
      PROVE  TouchInv'
  <2>1. run' = [run EXCEPT !.at = "audit"] /\ stage' \in {"ended", "paused"}
    BY <1>3 DEF LimitStop, EndRun, Step, PausePhase, EndWalk
  <2>2. run'.at = "audit"
    BY <1>0, <2>1 DEF Run
  <2> QED
    BY <2>1, <2>2 DEF TouchInv, Ends
<1>4. CASE Audit \/ Crash
  <2>1. run' = [FreshRun(work') EXCEPT !.at = "over", !.scratch = run.scratch]
    BY <1>4 DEF Audit, Crash, Over
  <2>2. run'.at = "over" /\ Touched' = {}
    BY <2>1 DEF FreshRun, Touched
  <2>3. stage' \in Ends
    BY <1>4 DEF Audit, Crash, Raise, dagVars, TouchInv, Ends
  <2>4. stage' # "ordering"
    BY <2>3 DEF Ends
  <2> HIDE DEF Touched
  <2> QED
    BY <2>2, <2>3, <2>4 DEF TouchInv
<1> QED
  BY <1>1, <1>2, <1>3, <1>4 DEF EndStep

LEMMA StepKeepsTouchInv ==
  ASSUME DagInv, RunsTypeOK, HandInv, TouchInv, [EpicRunNext]_vars
  PROVE  TouchInv'
<1>1. CASE Beside
  <2>1. UNCHANGED <<stage, running, status>>
    BY <1>1 DEF Beside, Land, Requeue, SetAside, LoseBranch, LoseScratch, LoseLease, dagVars
  <2>2. run'.at = run.at /\ run'.quarantined = run.quarantined /\ run'.merged = run.merged /\ run'.moved = run.moved
    BY <1>1 DEF Beside, Land, Requeue, SetAside, LoseBranch, LoseScratch, LoseLease, RunsTypeOK, Run
  <2>3. Touched' = Touched /\ In(running)' = In(running)
    BY <2>1, <2>2 DEF Touched, In
  <2> HIDE DEF Touched
  <2> QED
    BY <2>1, <2>2, <2>3 DEF TouchInv
<1>2. CASE LoadRun
  BY <1>2 DEF LoadRun, FreshRun, Load, Start, TouchInv, Touched, Ends
<1>3. CASE UNCHANGED vars
  BY <1>3 DEF vars, dagVars, TouchInv, Touched, In
<1> QED
  BY <1>1, <1>2, <1>3, WalkKeepsTouchInv, OpenKeepsTouchInv, BuildKeepsTouchInv, GateKeepsTouchInv,
     EndKeepsTouchInv DEF EpicRunNext

LEMMA InitHasHandsOff == EpicRunInit => HandsOffInv /\ RowInv
<1> SUFFICES ASSUME EpicRunInit PROVE HandsOffInv /\ RowInv
  OBVIOUS
<1>1. run.at = "idle" /\ run.quarantined = {} /\ run.copy = work
  BY DEF EpicRunInit, FreshRun
<1>2. \A t \in Task : work[t] \in {"ready", "done"}
  BY DEF EpicRunInit
<1> QED
  BY <1>1, <1>2 DEF HandsOffInv, RowInv, Building

\* Where nothing is in hand yet, or any more, nothing in hand is quarantined.
LEMMA HandsOffElsewhere ==
  ASSUME run'.at \notin Building \cup {"merging", "moving"}
  PROVE  HandsOffInv'
BY DEF HandsOffInv, Building

LEMMA BuildKeepsHandsOff ==
  ASSUME RunsTypeOK, HandInv, TouchInv, HandsOffInv, BuildStep
  PROVE  HandsOffInv'
<1>0. run \in Run
  BY DEF RunsTypeOK
<1> USE DEF HandsOffInv, InHand, Building, Run
<1>1. ASSUME NEW p \in Phase, Select(p)
      PROVE  HandsOffInv'
  <2>1. p = running /\ run.at = "ready" /\ ReadyTasks(p) \subseteq In(running) /\ run.alive = {}
    BY <1>1 DEF Select, ReadyTasks, HandInv, Early
  <2>2. ReadyTasks(p) \cap (run.quarantined \cup run.merged) = {}
    BY <2>1 DEF TouchInv, Touched
  <2> DEFINE capped == {t \in ReadyTasks(p) : Len(tries[t]) >= Cap(t)}
  <2>3. /\ run'.at = "triage" /\ run'.todo = capped /\ run'.ready = ReadyTasks(p) \ capped
        /\ run'.alive = run.alive /\ run'.quarantined = run.quarantined /\ run'.merged = run.merged
    BY <1>0, <1>1 DEF Select
  <2>4. capped \subseteq ReadyTasks(p)
    OBVIOUS
  <2> HIDE DEF capped
  <2> QED
    BY <2>1, <2>2, <2>3, <2>4
<1>2. ASSUME NEW t \in Task, TriageRefuses(t)
      PROVE  HandsOffInv'
  BY <1>0, <1>2 DEF TriageRefuses, First, HandInv, Early
<1>3. ASSUME NEW t \in Task, TriageAmends(t)
      PROVE  HandsOffInv'
  BY <1>0, <1>3 DEF TriageAmends, First
<1>4. ASSUME NEW t \in Task, TriageAsks(t)
      PROVE  HandsOffInv'
  BY <1>0, <1>4 DEF TriageAsks, First
<1>5. ASSUME TriageEnds \/ TakeEnds
      PROVE  HandsOffInv'
  BY <1>0, <1>5 DEF TriageEnds, TakeEnds, Step
<1>6. ASSUME NEW unfit \in SUBSET run.ready, Refuse(unfit)
      PROVE  HandsOffInv'
  BY <1>0, <1>6 DEF Refuse, HandInv, Early
<1>7. ASSUME NEW failed \in SUBSET run.todo, NEW cause \in Blamed(failed), NEW stops \in BOOLEAN,
             FanOut(failed, cause, stops)
      PROVE  HandsOffInv'
  BY <1>0, <1>7 DEF FanOut, HandInv, Early
<1>8. ASSUME NEW t \in Task, NEW cause \in Blamed({t}), TakeRefused(t, cause)
      PROVE  HandsOffInv'
  BY <1>0, <1>8 DEF TakeRefused, First, HandInv
<1>9. ASSUME NEW t \in Task, NEW cause \in Blamed({t}), TakeUnverified(t, cause)
      PROVE  HandsOffInv'
  BY <1>0, <1>9 DEF TakeUnverified, First, HandInv
<1>10. ASSUME NEW t \in Task, NEW governed \in BOOLEAN, TakeBuilt(t, governed)
      PROVE  HandsOffInv'
  BY <1>0, <1>10 DEF TakeBuilt, First
<1> HIDE DEF HandsOffInv
<1> QED
  BY <1>1, <1>2, <1>3, <1>4, <1>5, <1>6, <1>7, <1>8, <1>9, <1>10 DEF BuildStep

LEMMA GateKeepsHandsOff ==
  ASSUME RunsTypeOK, HandInv, HandsOffInv, GateStep
  PROVE  HandsOffInv'
<1>0. run \in Run
  BY DEF RunsTypeOK
<1> USE DEF HandsOffInv, InHand, Building, Run
<1>1. ASSUME NEW p \in Phase, NEW verdict \in {"none", "unmet", "met"}, Validate(p, verdict)
      PROVE  HandsOffInv'
  <2>1. PICK S \in SUBSET run.alive : run' = [run EXCEPT !.at = "chunks", !.verdict = verdict, !.todo = S]
    BY <1>1 DEF Validate
  <2>2. run.at = "validate"
    BY <1>1 DEF Validate
  <2> QED
    BY <1>0, <2>1, <2>2
<1>2. ASSUME NEW t \in Task, ChunkSatisfied(t) \/ Skip(t)
      PROVE  HandsOffInv'
  <2>1. run' = [run EXCEPT !.todo = @ \ {t}] /\ run.at \in Batch
    BY <1>2 DEF ChunkSatisfied, Skip, Batch
  <2> QED
    BY <1>0, <2>1 DEF Batch
<1>3. ASSUME NEW t \in Task, NEW cause \in Blamed({t}), ChunkUnsatisfied(t, cause)
      PROVE  HandsOffInv'
  BY <1>0, <1>3 DEF ChunkUnsatisfied
<1>4. ASSUME NextSlot("chunks", "drafting")
      PROVE  HandsOffInv'
  BY <1>0, <1>4 DEF NextSlot
<1>5. ASSUME NextSlot("drafting", "merging")
      PROVE  HandsOffInv'
  BY <1>0, <1>5 DEF NextSlot
<1>6. ASSUME NextSlot("merging", "moving")
      PROVE  HandsOffInv'
  <2>1. run.at = "merging" /\ run' = [run EXCEPT !.at = "moving", !.todo = run.alive]
    BY <1>6 DEF NextSlot
  <2>2. \A t \in run.alive : run.copy[t] = "ready"
    BY <2>1 DEF HandInv
  <2>3. \A t \in run.moved : run.copy[t] = "approved"
    BY <2>1 DEF HandInv
  <2>4. \A t \in run.alive : t \notin run.moved
    BY <2>2, <2>3
  <2> QED
    BY <1>0, <2>1, <2>2, <2>4
<1>7. ASSUME NEW t \in Task, RefuseStale(t)
      PROVE  HandsOffInv'
  BY <1>0, <1>7 DEF RefuseStale
<1>8. ASSUME NEW t \in Task, Draft(t)
      PROVE  HandsOffInv'
  BY <1>0, <1>8 DEF Draft
<1>9. ASSUME NEW t \in Task, Merge(t)
      PROVE  HandsOffInv'
  BY <1>0, <1>9 DEF Merge, First
<1>10. ASSUME NEW t \in Task, MergeConflicts(t)
      PROVE  HandsOffInv'
  BY <1>0, <1>10 DEF MergeConflicts, First
<1>11. ASSUME NEW t \in Task, Move(t)
      PROVE  HandsOffInv'
  BY <1>0, <1>11 DEF Move, First
<1>12. ASSUME NEW t \in Task, MoveMismatch(t)
      PROVE  HandsOffInv'
  BY <1>0, <1>12 DEF MoveMismatch, First
<1>13. ASSUME NEW t \in Task, MoveUnkept(t)
      PROVE  HandsOffInv'
  BY <1>0, <1>13 DEF MoveUnkept, First
<1>14. ASSUME NEW amended \in SUBSET run.asked, ExecuteAsked(amended)
      PROVE  HandsOffInv'
  BY <1>0, <1>14 DEF ExecuteAsked, Step
<1> HIDE DEF HandsOffInv
<1> QED
  BY <1>1, <1>2, <1>3, <1>4, <1>5, <1>6, <1>7, <1>8, <1>9, <1>10, <1>11, <1>12, <1>13, <1>14 DEF GateStep, BatchStep

\* A run opens and leaves a phase outside its build.
LEMMA OutsideTheBuild ==
  ASSUME RunsTypeOK, OpenStep \/ EndStep
  PROVE  run'.at \notin Building \cup {"merging", "moving"}
<1>0. run \in Run
  BY DEF RunsTypeOK
<1> DEFINE Elsewhere == run'.at \notin Building \cup {"merging", "moving"}
<1>1. ASSUME NEW outcome, NEW stops, Return(outcome, stops)
      PROVE  Elsewhere
  BY <1>0, <1>1 DEF Return, Building, Run
<1>2. ASSUME NEW place \in {"open", "awaiting_land", "rebase", "block", "recreate", "ready", "leave", "audit"},
             Step(place)
      PROVE  Elsewhere
  BY <1>0, <1>2 DEF Step, Building, Run
<1>3. ASSUME NEW p \in Phase, OpenReused(p)
      PROVE  Elsewhere
  <2>1. PICK place \in {"awaiting_land", "rebase", "block", "recreate", "ready"} : Step(place)
    BY <1>3 DEF OpenReused, Classify
  <2> QED
    BY <1>2, <2>1
<1>4. ASSUME NEW p \in Phase, Reconcile(p)
      PROVE  Elsewhere
  BY <1>0, <1>4 DEF Reconcile, Building, Run
<1>5. ASSUME Over
      PROVE  Elsewhere
  BY <1>5 DEF Over, FreshRun, Building
<1> HIDE DEF Elsewhere
<1>6. CASE OpenStep
  BY <1>1, <1>2, <1>3, <1>6 DEF OpenStep, NotOpened, AwaitLand, Block, RebaseConflicts, EnterPhase, OpenNew,
     Rebase, Recreate, RecreateFails, Elsewhere
<1>7. CASE EndStep
  BY <1>1, <1>2, <1>4, <1>5, <1>7 DEF EndStep, TrimPhase, Leave, LimitStop, NoTrim, EndRun, Audit, Crash, Elsewhere
<1> QED
  BY <1>6, <1>7

LEMMA StepKeepsHandsOff ==
  ASSUME RunsTypeOK, HandInv, TouchInv, HandsOffInv, [EpicRunNext]_vars
  PROVE  HandsOffInv'
<1>0. run \in Run
  BY DEF RunsTypeOK
<1>1. CASE WalkStep \/ UNCHANGED vars
  BY <1>1 DEF WalkStep, vars, HandsOffInv, InHand
<1>2. CASE OpenStep \/ EndStep
  BY <1>2, OutsideTheBuild, HandsOffElsewhere
<1>4. CASE Beside
  <2>1. run'.stale \/ run'.stale = run.stale
    BY <1>0, <1>4 DEF Beside, Land, Requeue, SetAside, LoseBranch, LoseScratch, LoseLease, Run
  <2>2. /\ run'.at = run.at /\ run'.todo = run.todo /\ run'.ready = run.ready /\ run'.copy = run.copy
        /\ run'.moved = run.moved /\ run'.alive = run.alive /\ run'.governed = run.governed
        /\ run'.quarantined = run.quarantined /\ run'.merged = run.merged
    BY <1>0, <1>4 DEF Beside, Land, Requeue, SetAside, LoseBranch, LoseScratch, LoseLease, Run
  <2> QED
    BY <2>1, <2>2 DEF HandsOffInv, InHand
<1>5. CASE LoadRun
  <2>1. run'.at = "idle"
    BY <1>5 DEF LoadRun, FreshRun
  <2> QED
    BY <2>1, HandsOffElsewhere DEF Building
<1> QED
  BY <1>1, <1>2, <1>4, <1>5, BuildKeepsHandsOff, GateKeepsHandsOff DEF EpicRunNext

\* A write of the row to quarantined, of tasks that the run holds as ready or has approved itself.
LEMMA QuarantineKeepsRows ==
  ASSUME RunsTypeOK, RowInv, NEW S \in SUBSET Task, NEW open \in BOOLEAN, Quarantine(S, open),
         run'.copy = run.copy, run'.moved = run.moved, run'.stale = run.stale,
         run'.quarantined \subseteq run.quarantined \cup S,
         open \/ \A t \in S : run.copy[t] = "ready" /\ t \notin run.moved
  PROVE  RowInv'
<1>0. work \in [Task -> State] /\ run.quarantined \subseteq Task
  BY DEF RunsTypeOK, Run
<1>1. PICK failed \in SUBSET Open(S, open) :
        /\ unwritten' = unwritten \cup failed
        /\ work' = [t \in Task |-> IF t \in Open(S, open) \ failed THEN "quarantined" ELSE work[t]]
  BY DEF Quarantine
<1>2. ASSUME NEW t \in Task
      PROVE  work'[t] = work[t] \/ work'[t] = "quarantined"
  BY <1>1
<1>3. ASSUME NEW t \in S, ~run.stale, t \notin unwritten'
      PROVE  work'[t] \notin {"ready", "approved"}
  <2>1. t \in Task /\ t \notin unwritten /\ t \notin failed
    BY <1>1, <1>3
  <2>2. open \/ work[t] \in {"ready", "quarantined"}
    BY <1>3, <2>1 DEF RowInv
  <2>3. t \in Open(S, open) \/ work[t] \notin {"ready", "approved"}
    BY <1>3, <2>2 DEF Open
  <2> QED
    BY <1>1, <2>1, <2>3
<1>4. ASSUME NEW t \in run'.quarantined, ~run.stale, t \notin unwritten'
      PROVE  work'[t] \notin {"ready", "approved"}
  <2>1. CASE t \in S
    BY <1>3, <1>4, <2>1
  <2>2. CASE t \in run.quarantined
    <3>1. work[t] \notin {"ready", "approved"} /\ t \in Task
      BY <1>0, <1>1, <1>4, <2>2 DEF RowInv
    <3> QED
      BY <1>2, <3>1
  <2> QED
    BY <1>4, <2>1, <2>2
<1>5. ASSUME NEW t \in Task, run'.copy[t] = "ready", t \notin run'.moved
      PROVE  work'[t] \in {"ready", "quarantined"}
  <2>1. work[t] \in {"ready", "quarantined"}
    BY <1>1, <1>5 DEF RowInv
  <2> QED
    BY <1>2, <2>1
<1> QED
  BY <1>4, <1>5 DEF RowInv

LEMMA SameRowsKeepRows ==
  ASSUME RowInv, work' = work, unwritten' = unwritten, run'.copy = run.copy, run'.moved = run.moved,
         run'.stale = run.stale, run'.quarantined \subseteq run.quarantined \/ run.stale
  PROVE  RowInv'
BY DEF RowInv

\* What a run has in hand it holds as ready, and has not moved.
LEMMA InHandIsReady ==
  ASSUME RunsTypeOK, HandInv, run.at \in Building \cup {"merging"}, NEW t \in InHand
  PROVE  t \in Task /\ run.copy[t] = "ready" /\ t \notin run.moved
<1>1. run.copy[t] = "ready" /\ \A u \in run.moved : run.copy[u] = "approved"
  BY DEF HandInv, Building
<1>2. t \in Task
  BY DEF InHand, RunsTypeOK, Run
<1> QED
  BY <1>1, <1>2

LEMMA BuildKeepsRows ==
  ASSUME RunsTypeOK, HandInv, RowInv, BuildStep
  PROVE  RowInv'
<1>0. run \in Run
  BY DEF RunsTypeOK
<1>1. ASSUME NEW S \in SUBSET InHand, run.at \in Building, Quarantine(S, FALSE),
             run'.copy = run.copy, run'.moved = run.moved, run'.stale = run.stale,
             run'.quarantined \subseteq run.quarantined \cup S
      PROVE  RowInv'
  <2>1. S \in SUBSET Task /\ \A t \in S : run.copy[t] = "ready" /\ t \notin run.moved
    BY <1>1, InHandIsReady
  <2> QED
    BY <1>1, <2>1, QuarantineKeepsRows
<1>2. ASSUME \/ TriageEnds \/ TakeEnds
             \/ \E p \in Phase : Select(p)
             \/ \E t \in Task : TriageAmends(t) \/ TriageAsks(t)
             \/ \E t \in Task, governed \in BOOLEAN : TakeBuilt(t, governed)
      PROVE  RowInv'
  <2>1. /\ work' = work /\ unwritten' = unwritten /\ run'.copy = run.copy /\ run'.moved = run.moved /\ run'.stale = run.stale
        /\ run'.quarantined = run.quarantined
    BY <1>0, <1>2 DEF TriageEnds, TakeEnds, Select, TriageAmends, TriageAsks, TakeBuilt, Step, store, Run
  <2> QED
    BY <2>1, SameRowsKeepRows
<1>3. ASSUME NEW t \in Task, TriageRefuses(t)
      PROVE  RowInv'
  <2>1. {t} \in SUBSET InHand /\ run.at \in Building /\ Quarantine({t}, FALSE)
    BY <1>3 DEF TriageRefuses, First, InHand, Building
  <2>2. run'.copy = run.copy /\ run'.moved = run.moved /\ run'.stale = run.stale
        /\ run'.quarantined \subseteq run.quarantined \cup {t}
    BY <1>0, <1>3 DEF TriageRefuses, Run
  <2> QED
    BY <1>1, <2>1, <2>2
<1>4. ASSUME NEW unfit \in SUBSET run.ready, Refuse(unfit)
      PROVE  RowInv'
  <2>1. unfit \in SUBSET InHand /\ run.at \in Building /\ Quarantine(unfit, FALSE)
    BY <1>4 DEF Refuse, InHand, Building
  <2>2. run'.copy = run.copy /\ run'.moved = run.moved /\ run'.stale = run.stale
        /\ run'.quarantined \subseteq run.quarantined \cup unfit
    BY <1>0, <1>4 DEF Refuse, Run
  <2> QED
    BY <1>1, <2>1, <2>2
<1>5. ASSUME NEW failed \in SUBSET run.todo, NEW cause \in Blamed(failed), NEW stops \in BOOLEAN,
             FanOut(failed, cause, stops)
      PROVE  RowInv'
  <2>1. failed \in SUBSET InHand /\ run.at \in Building /\ Quarantine(failed, FALSE)
    BY <1>5 DEF FanOut, InHand, Building
  <2>2. run'.copy = run.copy /\ run'.moved = run.moved /\ run'.stale = run.stale
        /\ run'.quarantined \subseteq run.quarantined \cup failed
    BY <1>0, <1>5 DEF FanOut, Run
  <2> QED
    BY <1>1, <2>1, <2>2
<1>6. ASSUME NEW t \in Task, NEW cause \in Blamed({t}), TakeRefused(t, cause) \/ TakeUnverified(t, cause)
      PROVE  RowInv'
  <2>1. {t} \in SUBSET InHand /\ run.at \in Building /\ Quarantine({t}, FALSE)
    BY <1>6 DEF TakeRefused, TakeUnverified, First, InHand, Building
  <2>2. run'.copy = run.copy /\ run'.moved = run.moved /\ run'.stale = run.stale
        /\ run'.quarantined \subseteq run.quarantined \cup {t}
    BY <1>0, <1>6 DEF TakeRefused, TakeUnverified, Run
  <2> QED
    BY <1>1, <2>1, <2>2
<1> QED
  BY <1>2, <1>3, <1>4, <1>5, <1>6 DEF BuildStep

LEMMA GateKeepsRows ==
  ASSUME RunsTypeOK, HandInv, HandsOffInv, RowInv, GateStep
  PROVE  RowInv'
<1>0. run \in Run /\ work \in [Task -> State]
  BY DEF RunsTypeOK
<1>1. ASSUME NEW p \in Phase, NEW verdict \in {"none", "unmet", "met"}, Validate(p, verdict)
      PROVE  RowInv'
  BY <1>0, <1>1, SameRowsKeepRows DEF Validate, store, Run
<1>2. ASSUME \/ BatchStep
             \/ \E amended \in SUBSET run.asked : ExecuteAsked(amended)
             \/ \E t \in Task : ChunkSatisfied(t) \/ Skip(t) \/ Draft(t) \/ Merge(t)
      PROVE  RowInv'
  <2>1. /\ work' = work /\ unwritten' = unwritten /\ run'.copy = run.copy /\ run'.moved = run.moved /\ run'.stale = run.stale
        /\ run'.quarantined = run.quarantined
    BY <1>0, <1>2 DEF BatchStep, NextSlot, ExecuteAsked, ChunkSatisfied, Skip, Draft, Merge, Step, store, Run
  <2> QED
    BY <2>1, SameRowsKeepRows
<1>3. ASSUME NEW t \in Task, NEW cause \in Blamed({t}), ChunkUnsatisfied(t, cause)
      PROVE  RowInv'
  <2>1. t \in InHand /\ run.at \in Building /\ Quarantine({t}, FALSE)
    BY <1>3 DEF ChunkUnsatisfied, First, InHand, Building, HandInv, Batch
  <2>2. run'.copy = run.copy /\ run'.moved = run.moved /\ run'.stale = run.stale
        /\ run'.quarantined \subseteq run.quarantined \cup {t}
    BY <1>0, <1>3 DEF ChunkUnsatisfied, Run
  <2> QED
    BY <2>1, <2>2, InHandIsReady, QuarantineKeepsRows
<1>4. ASSUME NEW t \in Task, RefuseStale(t)
      PROVE  RowInv'
  BY <1>0, <1>4, SameRowsKeepRows DEF RefuseStale, store, Run
<1>5. ASSUME NEW t \in Task, MergeConflicts(t)
      PROVE  RowInv'
  <2>1. run'.copy = run.copy /\ run'.moved = run.moved /\ run'.stale = run.stale
        /\ run'.quarantined \subseteq run.quarantined \cup {t}
    BY <1>0, <1>5 DEF MergeConflicts, Run
  <2> QED
    BY <1>5, <2>1, QuarantineKeepsRows DEF MergeConflicts
<1>6. ASSUME NEW t \in Task, Move(t)
      PROVE  RowInv'
  <2>1. t \notin run.quarantined
    BY <1>6 DEF Move, WorkKept, First, HandsOffInv
  <2>2. work' = [work EXCEPT ![t] = "approved"] /\ unwritten' = unwritten
    BY <1>6 DEF Move
  <2>3. run'.copy = run.copy /\ run'.moved = run.moved \cup {t} /\ run'.stale = run.stale
        /\ run'.quarantined = run.quarantined
    BY <1>0, <1>6 DEF Move, Run
  <2> QED
    BY <1>0, <2>1, <2>2, <2>3 DEF RowInv, Run
<1>7. ASSUME NEW t \in Task, MoveMismatch(t)
      PROVE  RowInv'
  <2>1. run'.copy = [run.copy EXCEPT ![t] = work[t]] /\ work' = work /\ unwritten' = unwritten /\ run'.moved = run.moved
        /\ run'.stale = run.stale /\ run'.quarantined = run.quarantined
    BY <1>0, <1>7 DEF MoveMismatch, store, Run
  <2>2. run.copy \in [Task -> State]
    BY <1>0 DEF Run
  <2> QED
    BY <2>1, <2>2 DEF RowInv
<1>8. ASSUME NEW t \in Task, MoveUnkept(t)
      PROVE  RowInv'
  <2>1. run'.copy = run.copy /\ run'.moved = run.moved /\ run'.stale = run.stale
        /\ run'.quarantined = run.quarantined \cup {t}
    BY <1>0, <1>8 DEF MoveUnkept, Run
  <2>2. CASE t \in run.quarantined
    BY <1>8, <2>1, <2>2, SameRowsKeepRows DEF MoveUnkept
  <2>3. CASE t \notin run.quarantined
    <3>1. Quarantine({t}, FALSE) /\ run.copy[t] = "ready" /\ t \notin run.moved
      BY <1>8, <2>3 DEF MoveUnkept, First, HandsOffInv
    <3> QED
      BY <2>1, <3>1, QuarantineKeepsRows
  <2> QED
    BY <2>2, <2>3
<1> QED
  BY <1>1, <1>2, <1>3, <1>4, <1>5, <1>6, <1>7, <1>8 DEF GateStep

LEMMA StepKeepsRows ==
  ASSUME RunsTypeOK, HandInv, TouchInv, HandsOffInv, RowInv, [EpicRunNext]_vars
  PROVE  RowInv'
<1>0. run \in Run /\ work \in [Task -> State]
  BY DEF RunsTypeOK
<1>1. ASSUME NEW outcome, NEW stops, Return(outcome, stops), work' = work, unwritten' = unwritten
      PROVE  RowInv'
  BY <1>0, <1>1, SameRowsKeepRows DEF Return, Run
<1>2. ASSUME NEW place, Step(place), work' = work, unwritten' = unwritten
      PROVE  RowInv'
  BY <1>0, <1>2, SameRowsKeepRows DEF Step, Run
<1>3. CASE WalkStep \/ UNCHANGED vars
  BY <1>3, SameRowsKeepRows DEF WalkStep, vars, store
<1>4. CASE OpenStep
  BY <1>1, <1>2, <1>4 DEF OpenStep, NotOpened, AwaitLand, Block, RebaseConflicts, EnterPhase, OpenNew, OpenReused,
     Rebase, Recreate, RecreateFails, store
<1>5. ASSUME Over \/ (run' = FreshRun(work) /\ work' = work)
      PROVE  RowInv'
  <2>1. CASE Over
    BY <2>1 DEF Over, FreshRun, RowInv
  <2>2. CASE run' = FreshRun(work) /\ work' = work
    BY <2>2 DEF FreshRun, RowInv
  <2> QED
    BY <1>5, <2>1, <2>2
<1>6. CASE EndStep
  <2>1. ASSUME NEW p \in Phase, Reconcile(p)
        PROVE  RowInv'
    <3>1. run'.copy = [t \in Task |-> IF t \in run.moved \cap In(p) THEN "approved" ELSE run.copy[t]]
          /\ run'.moved = run.moved /\ run'.stale = run.stale /\ run'.quarantined = run.quarantined /\ work' = work
          /\ unwritten' = unwritten
      BY <1>0, <2>1 DEF Reconcile, store, Run
    <3> QED
      BY <3>1 DEF RowInv
  <2> QED
    BY <1>1, <1>2, <1>5, <1>6, <2>1 DEF EndStep, TrimPhase, Leave, LimitStop, NoTrim, EndRun, Audit, Crash, store
<1>7. CASE LoadRun
  BY <1>5, <1>7 DEF LoadRun, store
<1>8. ASSUME NEW t \in Task, NEW squash, Land(t, squash)
      PROVE  RowInv'
  BY <1>0, <1>8 DEF Land, RowInv
<1>9. ASSUME NEW t \in Task, NEW rewritten \in BOOLEAN, Requeue(t, rewritten)
      PROVE  RowInv'
  <2>1. run.quarantined = {}
    BY <1>9 DEF Requeue, InProgress, TouchInv, Touched
  <2> QED
    BY <1>0, <1>9, <2>1 DEF Requeue, RowInv
<1>10. ASSUME NEW t \in Task, SetAside(t)
      PROVE  RowInv'
  BY <1>0, <1>10 DEF SetAside, RowInv
<1>11. CASE \/ \E p \in Phase : LoseBranch(p)
            \/ \E t \in Task : LoseScratch(t)
            \/ LoseLease
  <2>1. /\ work' = work /\ unwritten' = unwritten /\ run'.copy = run.copy /\ run'.moved = run.moved /\ run'.quarantined = run.quarantined
        /\ run'.stale \/ run'.stale = run.stale
    BY <1>0, <1>11 DEF LoseBranch, LoseScratch, LoseLease, store, Run
  <2> QED
    BY <2>1 DEF RowInv
<1> QED
  BY <1>3, <1>4, <1>6, <1>7, <1>8, <1>9, <1>10, <1>11, BuildKeepsRows, GateKeepsRows DEF EpicRunNext, Beside

\* All a run may rely on at its audit.
KeptInv == DagInv /\ RunsTypeOK /\ HandInv /\ TouchInv /\ HandsOffInv /\ RowInv

LEMMA KeptInvariant == EpicRunSpec => []KeptInv
<1>1. EpicRunInit => KeptInv
  BY InitHasEpicType, InitHasDagInv, InitHasHandInv, InitHasTouchInv, InitHasHandsOff DEF KeptInv
<1>2. KeptInv /\ [EpicRunNext]_vars => KeptInv'
  BY StepKeepsEpicType, StepKeepsHandInv, StepKeepsTouchInv, StepKeepsHandsOff, StepKeepsRows DEF KeptInv, DagInv
<1> QED
  BY <1>1, <1>2, PTL DEF EpicRunSpec

\* The audit is the only step from its place to the end of the run.
LEMMA AuditEndsTheRun ==
  ASSUME RunsTypeOK, TouchInv, EpicRunNext, run.at = "audit", run'.at = "over"
  PROVE  Audit
<1>0. run \in Run /\ stage \in Ends
  BY DEF RunsTypeOK, TouchInv
<1>1. ASSUME NEW place \in Places \ {"over"}, Step(place)
      PROVE  FALSE
  BY <1>0, <1>1 DEF Step, Run
<1>2. ~WalkStep
  BY DEF WalkStep
<1>3. ~LoadRun
  BY DEF LoadRun, FreshRun
<1>4. ~OpenStep
  BY <1>0, <1>1 DEF OpenStep, NotOpened, AwaitLand, Block, RebaseConflicts, EnterPhase, OpenNew, OpenReused, Rebase,
     Recreate, RecreateFails, Places
<1>5. ~BuildStep
  BY DEF BuildStep, Select, TriageRefuses, TriageAmends, TriageAsks, TriageEnds, Refuse, FanOut, TakeRefused,
     TakeBuilt, TakeUnverified, TakeEnds
<1>6. ~GateStep
  BY DEF GateStep, Validate, ChunkSatisfied, ChunkUnsatisfied, BatchStep, NextSlot, Skip, RefuseStale, Draft, Merge,
     MergeConflicts, Move, MoveMismatch, MoveUnkept, ExecuteAsked
<1>7. ~Beside
  BY <1>0 DEF Beside, Land, Requeue, SetAside, LoseBranch, LoseScratch, LoseLease, Run
<1>8. EndStep
  BY <1>2, <1>3, <1>4, <1>5, <1>6, <1>7 DEF EpicRunNext
<1> QED
  BY <1>0, <1>1, <1>8 DEF EndStep, Reconcile, TrimPhase, Trimmable, Leave, LimitStop, LimitPoint, NoTrim, EndRun, Crash,
     Raise, Places

\* What the audit's writes leave of the rows.
LEMMA AuditWrites ==
  ASSUME RunsTypeOK, Audit
  PROVE  /\ unwritten \subseteq unwritten'
         /\ \A t \in Task : work'[t] = work[t] \/ work'[t] = "quarantined"
         /\ \A t \in Audited \ unwritten' : ~run.stale /\ ~StillKept(t) => work'[t] # "approved"
<1> DEFINE lost == {t \in Audited : ~StillKept(t)}
<1>1. Quarantine(lost, TRUE)
  BY DEF Audit
<1>2. Audited \in SUBSET Task
  BY DEF RunsTypeOK, Run, Audited
<1>3. PICK failed \in SUBSET Open(lost, TRUE) :
        /\ unwritten' = unwritten \cup failed
        /\ work' = [t \in Task |-> IF t \in Open(lost, TRUE) \ failed THEN "quarantined" ELSE work[t]]
  BY <1>1 DEF Quarantine
<1>4. ASSUME NEW t \in Audited, t \notin unwritten', ~run.stale, ~StillKept(t)
      PROVE  work'[t] # "approved"
  <2>1. t \in Open(lost, TRUE) \/ work[t] \notin {"ready", "approved"}
    BY <1>4 DEF Open
  <2> HIDE DEF lost
  <2> QED
    BY <1>2, <1>3, <1>4, <2>1
<1> HIDE DEF lost
<1> QED
  BY <1>3, <1>4

\* What a run that kept its lease reports quarantined is so stored when it ends, whatever its merges, the
\* humans beside it and the other phases did to the row in between, unless the store failed on that very
\* row (epic.py: _quarantine_row).
THEOREM QuarantinesAreStored == EpicRunSpec => QuarantineIsStored
<1> DEFINE Stored ==
      run.at = "audit" /\ run'.at = "over" /\ ~run.stale =>
        \A t \in run.quarantined \ unwritten' : work'[t] \notin {"ready", "approved"}
<1>1. KeptInv /\ [EpicRunNext]_vars => [Stored]_vars
  <2> SUFFICES ASSUME KeptInv, EpicRunNext, run.at = "audit", run'.at = "over", ~run.stale,
                      NEW t \in run.quarantined, t \notin unwritten'
               PROVE  work'[t] \notin {"ready", "approved"}
    OBVIOUS
  <2>1. Audit /\ t \in Task /\ RunsTypeOK
    BY AuditEndsTheRun DEF KeptInv, RunsTypeOK, Run
  <2>2. work[t] \notin {"ready", "approved"}
    BY <2>1, AuditWrites DEF KeptInv, RowInv
  <2> QED
    BY <2>1, <2>2, AuditWrites
<1> QED
  BY <1>1, KeptInvariant, PTL DEF EpicRunSpec, QuarantineIsStored

\* A task the run leaves approved at its end is on the branch that holds it, since the audit quarantines
\* what is not, and what was quarantined before is not approved any more, unless the store failed on that
\* very row (epic.py: _audit_approved_kept).
THEOREM ApprovedWorkIsKept == EpicRunSpec => ApprovedIsKept
<1> DEFINE Kept ==
      run.at = "audit" /\ run'.at = "over" /\ ~run.stale =>
        \A t \in run.moved \ unwritten' : status[PhaseOf[t]] # "none" /\ work'[t] = "approved" =>
          IF t \in run.merged THEN Work(t) \in branch[PhaseOf[t]] ELSE t \in run.scratch
<1>1. KeptInv /\ [EpicRunNext]_vars => [Kept]_vars
  <2> SUFFICES ASSUME KeptInv, EpicRunNext, run.at = "audit", run'.at = "over", ~run.stale, NEW t \in run.moved,
                      t \notin unwritten', status[PhaseOf[t]] # "none", work'[t] = "approved"
               PROVE  StillKept(t)
    BY DEF StillKept
  <2>1. Audit /\ t \in Task /\ RunsTypeOK
    BY AuditEndsTheRun DEF KeptInv, RunsTypeOK, Run
  <2>2. work[t] = "approved" /\ t \notin unwritten
    BY <2>1, AuditWrites
  <2>3. t \notin run.quarantined
    BY <2>2 DEF KeptInv, RowInv
  <2>4. t \in Audited
    BY <2>3 DEF Audited
  <2> QED
    BY <2>1, <2>4, AuditWrites
<1> QED
  BY <1>1, KeptInvariant, PTL DEF EpicRunSpec, ApprovedIsKept

----------------------------------------------------------------------------
(* What a build stands on *)

\* The places of a run in a phase whose branch it has opened, and those before a task of it is taken.
Opened == {"ready", "triage", "refusing", "fanout", "taking", "validate", "chunks", "drafting", "merging", "moving",
           "close", "trim", "leave"}
Picking == {"triage", "refusing", "fanout", "taking"}

\* A branch that holds all that was landed when the run began.
Grounded(commits) == \A n \in Task : run.copy[n] = "done" => {Landed(n), Amended(n)} \cap commits # {}

\* A need that was not landed is of the same phase or of a parent; the run learns of no other landing.
NeedInv ==
  /\ run.at # "over" =>
       \A t \in Task : \A n \in Needs[t] :
         run.copy[n] = "done" \/ PhaseOf[n] = PhaseOf[t] \/ PhaseOf[n] \in parents[PhaseOf[t]]
  /\ \A t \in run.moved : run.copy[t] \in {"ready", "approved"}

\* An open phase stands on what was landed and on its base, and a complete one did so until somebody took its branch.
GroundInv ==
  /\ \A n \in Task : Work(n) \notin main
  /\ run.at # "over" => \A q \in Complete : branch[q] = {} \/ Grounded(branch[q])
  /\ run.at \in Opened =>
       /\ Grounded(branch[running])
       /\ \A n \in Task : Work(n) \in Base(running) => Work(n) \in branch[running]

\* The tasks of the phase that wait for their build.
Waiting ==
  (IF run.at \in {"triage", "refusing"} THEN run.ready ELSE {})
    \cup (IF run.at \in {"triage", "fanout", "taking"} THEN run.todo ELSE {})

\* The needs of what waits are met, by nothing of this phase that is not landed.
MetInv ==
  run.at \in Picking =>
    /\ \A t \in Waiting : \A n \in Needs[t] : Met(n)
    /\ run.merged \cap In(running) = {}

\* The parents of a phase are the phases of the needs it has yet to see landed.
LEMMA GraphHasNeeds ==
  ASSUME NEW states, NEW t \in Task, NEW n \in Needs[t]
  PROVE  states[n] = "done" \/ PhaseOf[n] = PhaseOf[t] \/ PhaseOf[n] \in GraphOf(states)[PhaseOf[t]]
<1> SUFFICES ASSUME states[n] # "done", PhaseOf[n] # PhaseOf[t]
             PROVE  PhaseOf[n] \in GraphOf(states)[PhaseOf[t]]
  OBVIOUS
<1> DEFINE needed == UNION {Needs[u] : u \in In(PhaseOf[t])}
<1>1. n \in needed
  BY DEF In
<1> HIDE DEF needed
<1>2. n \in {m \in needed : states[m] # "done"}
  BY <1>1
<1>3. PhaseOf[t] \in Phase
  BY EpicRunAssumption
<1> QED
  BY <1>2, <1>3 DEF GraphOf, needed

\* What a run knows and has done changes in its gate and at its ends only.
LEMMA KnowledgeFrame ==
  ASSUME RunsTypeOK, WalkStep \/ OpenStep \/ BuildStep \/ Beside
  PROVE  run'.copy = run.copy /\ run'.moved = run.moved /\ run'.merged = run.merged
<1>0. run \in Run
  BY DEF RunsTypeOK
<1> DEFINE Same == run'.copy = run.copy /\ run'.moved = run.moved /\ run'.merged = run.merged
<1>1. ASSUME NEW place, Step(place)
      PROVE  Same
  BY <1>0, <1>1 DEF Step, Run
<1>2. ASSUME NEW outcome, NEW stops, Return(outcome, stops)
      PROVE  Same
  BY <1>0, <1>2 DEF Return, Run
<1>3. CASE WalkStep
  BY <1>3 DEF WalkStep
<1>4. CASE OpenStep
  BY <1>1, <1>2, <1>4 DEF OpenStep, NotOpened, AwaitLand, Block, RebaseConflicts, EnterPhase, OpenNew,
     OpenReused, Rebase, Recreate, RecreateFails
<1>5. CASE BuildStep
  BY <1>0, <1>1, <1>5 DEF BuildStep, Select, TriageRefuses, TriageAmends, TriageAsks, TriageEnds, Refuse, FanOut,
     TakeRefused, TakeBuilt, TakeUnverified, TakeEnds, Run
<1>6. CASE Beside
  BY <1>0, <1>6 DEF Beside, Land, Requeue, SetAside, LoseBranch, LoseScratch, LoseLease, Run
<1> QED
  BY <1>3, <1>4, <1>5, <1>6

LEMMA GateFrame ==
  ASSUME RunsTypeOK, GateStep
  PROVE  /\ run.at \in Batch \cup {"validate"} /\ run'.at \in Batch \cup {"close"}
         /\ run'.copy = run.copy \/ \E t \in Task : MoveMismatch(t)
         /\ run'.moved = run.moved \/ \E t \in Task : Move(t) /\ run'.moved = run.moved \cup {t}
<1>0. run \in Run
  BY DEF RunsTypeOK
<1> DEFINE Framed == /\ run.at \in Batch \cup {"validate"} /\ run'.at \in Batch \cup {"close"}
                     /\ run'.copy = run.copy \/ \E t \in Task : MoveMismatch(t)
                     /\ run'.moved = run.moved \/ \E t \in Task : Move(t) /\ run'.moved = run.moved \cup {t}
<1> USE DEF Batch, Run
<1>1. ASSUME NEW p \in Phase, NEW verdict \in {"none", "unmet", "met"}, Validate(p, verdict)
      PROVE  Framed
  BY <1>0, <1>1 DEF Validate
<1>2. ASSUME NEW t \in Task, ChunkSatisfied(t) \/ Skip(t)
      PROVE  Framed
  BY <1>0, <1>2 DEF ChunkSatisfied, Skip
<1>3. ASSUME NEW t \in Task, NEW cause \in Blamed({t}), ChunkUnsatisfied(t, cause)
      PROVE  Framed
  BY <1>0, <1>3 DEF ChunkUnsatisfied
<1>4. ASSUME BatchStep
      PROVE  Framed
  BY <1>0, <1>4 DEF BatchStep, NextSlot
<1>5. ASSUME NEW t \in Task, RefuseStale(t) \/ Draft(t) \/ Merge(t) \/ MergeConflicts(t) \/ MoveUnkept(t)
      PROVE  Framed
  BY <1>0, <1>5 DEF RefuseStale, Draft, Merge, MergeConflicts, MoveUnkept
<1>6. ASSUME NEW t \in Task, Move(t)
      PROVE  Framed
  <2>1. run.at = "moving" /\ run'.at = run.at /\ run'.copy = run.copy /\ run'.moved = run.moved \cup {t}
    BY <1>0, <1>6 DEF Move
  <2> QED
    BY <1>6, <2>1
<1>7. ASSUME NEW t \in Task, MoveMismatch(t)
      PROVE  Framed
  <2>1. run.at = "moving" /\ run'.at = run.at /\ run'.moved = run.moved
    BY <1>0, <1>7 DEF MoveMismatch
  <2> QED
    BY <1>7, <2>1
<1>8. ASSUME NEW amended \in SUBSET run.asked, ExecuteAsked(amended)
      PROVE  Framed
  BY <1>0, <1>8 DEF ExecuteAsked, Step
<1> HIDE DEF Framed
<1>9. Framed
  BY <1>1, <1>2, <1>3, <1>4, <1>5, <1>6, <1>7, <1>8 DEF GateStep
<1> QED
  BY <1>9 DEF Framed

LEMMA EndFrame ==
  ASSUME RunsTypeOK, EndStep
  PROVE  \/ Over
         \/ \E p \in Phase : Reconcile(p)
         \/ run'.copy = run.copy /\ run'.moved = run.moved /\ run'.merged = run.merged
<1>0. run \in Run
  BY DEF RunsTypeOK
<1>1. ASSUME NEW place, Step(place)
      PROVE  run'.copy = run.copy /\ run'.moved = run.moved /\ run'.merged = run.merged
  BY <1>0, <1>1 DEF Step, Run
<1>2. ASSUME NEW outcome, NEW stops, Return(outcome, stops)
      PROVE  run'.copy = run.copy /\ run'.moved = run.moved /\ run'.merged = run.merged
  BY <1>0, <1>2 DEF Return, Run
<1> QED
  BY <1>1, <1>2 DEF EndStep, TrimPhase, Leave, LimitStop, NoTrim, EndRun, Audit, Crash

\* The phase graph is that of the states the run loaded.
LEMMA ParentsFrame ==
  ASSUME EpicRunNext
  PROVE  parents' = parents \/ LoadRun
<1> USE DEF dagVars
<1>1. CASE WalkStep
  BY <1>1 DEF WalkStep, BeginRound, EndOrder, Append1, SkipPhase
<1>2. CASE OpenStep
  BY <1>2 DEF OpenStep, NotOpened, AwaitLand, Block, RebaseConflicts, EnterPhase, OpenNew, OpenReused, Rebase,
     Recreate, RecreateFails, StartPhase, Return, EndPhase
<1>3. CASE BuildStep
  BY <1>3 DEF BuildStep, Select, TriageRefuses, TriageAmends, TriageAsks, TriageEnds, Refuse, FanOut,
     TakeRefused, TakeBuilt, TakeUnverified, TakeEnds
<1>4. CASE GateStep
  BY <1>4 DEF GateStep, Validate, ChunkSatisfied, ChunkUnsatisfied, BatchStep, NextSlot, Skip, RefuseStale,
     Draft, Merge, MergeConflicts, Move, MoveMismatch, MoveUnkept, ExecuteAsked
<1>5. CASE EndStep
  BY <1>5 DEF EndStep, Reconcile, TrimPhase, Leave, LimitStop, NoTrim, EndRun, Audit, Crash, Return, EndPhase,
     PausePhase, EndWalk, Raise
<1>6. CASE Beside
  BY <1>6 DEF Beside, Land, Requeue, SetAside, LoseBranch, LoseScratch, LoseLease
<1> QED
  BY <1>1, <1>2, <1>3, <1>4, <1>5, <1>6 DEF EpicRunNext

\* What is over stays so until another run begins.
LEMMA OverStays ==
  ASSUME RunsTypeOK, TouchInv, EpicRunNext, run.at = "over", run'.at # "over"
  PROVE  LoadRun
<1>0. stage \in Ends /\ run \in Run
  BY DEF TouchInv, RunsTypeOK
<1>1. ~WalkStep
  BY DEF WalkStep
<1>2. ~OpenStep
  BY <1>0 DEF OpenStep, NotOpened, AwaitLand, Block, RebaseConflicts, EnterPhase, OpenNew, OpenReused, Rebase,
     Recreate, RecreateFails, StartPhase, AtPhase, Ends
<1>3. ~BuildStep
  BY DEF BuildStep, Select, TriageRefuses, TriageAmends, TriageAsks, TriageEnds, Refuse, FanOut,
     TakeRefused, TakeBuilt, TakeUnverified, TakeEnds
<1>4. ~GateStep
  BY GateFrame DEF Batch
<1>5. ~EndStep
  BY <1>0 DEF EndStep, Reconcile, TrimPhase, Trimmable, Leave, LimitStop, LimitPoint, NoTrim, EndRun, EndWalk, Audit,
     Crash, Raise, Ends
<1>6. ~Beside
  BY <1>0 DEF Beside, Land, Requeue, SetAside, LoseBranch, LoseScratch, LoseLease, Run
<1> QED
  BY <1>1, <1>2, <1>3, <1>4, <1>5, <1>6 DEF EpicRunNext

\* A run learns of no landing after its start, and forgets none.
LEMMA DoneIsKnown ==
  ASSUME RunsTypeOK, HandsOffInv, RowInv, NeedInv, EpicRunNext, ~LoadRun, run'.at # "over", NEW n \in Task
  PROVE  run'.copy[n] = "done" <=> run.copy[n] = "done"
<1>0. run \in Run /\ run.copy \in [Task -> State]
  BY DEF RunsTypeOK, Run
<1>1. ASSUME NEW t \in Task, MoveMismatch(t)
      PROVE  run'.copy[n] = "done" <=> run.copy[n] = "done"
  <2>1. run.copy[t] = "ready" /\ t \notin run.moved
    BY <1>1 DEF MoveMismatch, First, HandsOffInv
  <2>2. work[t] # "done"
    BY <2>1 DEF RowInv
  <2>3. run'.copy = [run.copy EXCEPT ![t] = work[t]]
    BY <1>0, <1>1 DEF MoveMismatch, Run
  <2> QED
    BY <1>0, <2>1, <2>2, <2>3
<1>2. ASSUME NEW p \in Phase, Reconcile(p)
      PROVE  run'.copy[n] = "done" <=> run.copy[n] = "done"
  <2>1. run'.copy = [t \in Task |-> IF t \in run.moved \cap In(p) THEN "approved" ELSE run.copy[t]]
    BY <1>0, <1>2 DEF Reconcile, Run
  <2> QED
    BY <2>1 DEF NeedInv
<1>3. ~Over
  BY DEF Over, FreshRun
<1> QED
  BY <1>1, <1>2, <1>3, KnowledgeFrame, GateFrame, EndFrame DEF EpicRunNext

LEMMA InitHasNeedInv == EpicRunInit => NeedInv
<1> SUFFICES ASSUME EpicRunInit PROVE NeedInv
  OBVIOUS
<1>1. run.copy = work /\ run.moved = {} /\ parents = GraphOf(work)
  BY DEF EpicRunInit, FreshRun
<1> QED
  BY <1>1, GraphHasNeeds DEF NeedInv

LEMMA StepKeepsNeedInv ==
  ASSUME RunsTypeOK, TouchInv, HandsOffInv, RowInv, NeedInv, [EpicRunNext]_vars
  PROVE  NeedInv'
<1>0. run \in Run
  BY DEF RunsTypeOK
<1>1. CASE LoadRun
  <2>1. run'.copy = work /\ run'.moved = {} /\ parents' = GraphOf(work)
    BY <1>1 DEF LoadRun, FreshRun, Load, Start
  <2> QED
    BY <2>1, GraphHasNeeds DEF NeedInv
<1>2. CASE UNCHANGED vars
  BY <1>2 DEF vars, dagVars, NeedInv
<1>3. CASE EpicRunNext /\ ~LoadRun
  <2>1. ASSUME run'.at # "over", NEW t \in Task, NEW n \in Needs[t]
        PROVE  run'.copy[n] = "done" \/ PhaseOf[n] = PhaseOf[t] \/ PhaseOf[n] \in parents'[PhaseOf[t]]
    <3>1. run.at # "over" /\ parents' = parents
      BY <1>3, <2>1, OverStays, ParentsFrame
    <3>2. n \in Task
      BY EpicRunAssumption
    <3> QED
      BY <1>3, <2>1, <3>1, <3>2, DoneIsKnown DEF NeedInv
  <2>2. ASSUME NEW t \in run'.moved
        PROVE  run'.copy[t] \in {"ready", "approved"}
    <3>1. ~Over
      BY <2>2 DEF Over, FreshRun
    <3>2. ASSUME NEW p \in Phase, Reconcile(p)
          PROVE  run'.copy[t] \in {"ready", "approved"}
      <4>1. run'.copy = [u \in Task |-> IF u \in run.moved \cap In(p) THEN "approved" ELSE run.copy[u]]
            /\ run'.moved = run.moved /\ t \in Task
        BY <1>0, <2>2, <3>2 DEF Reconcile, Run
      <4> QED
        BY <2>2, <4>1 DEF NeedInv
    <3>3. CASE GateStep
      <4>1. CASE run'.copy = run.copy
        <5>1. ASSUME NEW u \in Task, Move(u), run'.moved = run.moved \cup {u}
              PROVE  run.copy[t] \in {"ready", "approved"}
          BY <2>2, <5>1 DEF Move, First, HandsOffInv, NeedInv
        <5> QED
          BY <2>2, <3>3, <4>1, <5>1, GateFrame DEF NeedInv
      <4>2. ASSUME NEW u \in Task, MoveMismatch(u)
            PROVE  run'.copy[t] \in {"ready", "approved"}
        <5>1. u \notin run.moved /\ run'.moved = run.moved /\ run'.copy = [run.copy EXCEPT ![u] = work[u]]
              /\ t \in Task /\ run.copy \in [Task -> State]
          BY <1>0, <2>2, <4>2 DEF MoveMismatch, First, HandsOffInv, Run
        <5> QED
          BY <2>2, <5>1 DEF NeedInv
      <4> QED
        BY <3>3, <4>1, <4>2, GateFrame
    <3> QED
      BY <1>3, <2>2, <3>1, <3>2, <3>3, KnowledgeFrame, EndFrame DEF EpicRunNext, NeedInv
  <2> QED
    BY <2>1, <2>2 DEF NeedInv
<1> QED
  BY <1>1, <1>2, <1>3

\* The ready view is over met needs only, and they stay met until the tasks are built.
LEMMA StepKeepsMetInv ==
  ASSUME RunsTypeOK, HandInv, TouchInv, MetInv, [EpicRunNext]_vars
  PROVE  MetInv'
<1>0. run \in Run
  BY DEF RunsTypeOK
<1>1. ASSUME run.at \in Picking, run'.copy = run.copy, run'.merged = run.merged, running' = running,
             Waiting' \subseteq Waiting
      PROVE  MetInv'
  <2>1. In(running)' = In(running) /\ \A n : Met(n) => Met(n)'
    BY <1>1 DEF In, Met
  <2> HIDE DEF Waiting, Met, In
  <2> QED
    BY <1>1, <2>1 DEF MetInv
<1>2. CASE WalkStep \/ UNCHANGED vars
  <2>1. run' = run /\ (run.at \in Picking => running' = running)
    BY <1>2 DEF WalkStep, BeginRound, EndOrder, Append1, SkipPhase, vars, dagVars
  <2> QED
    BY <1>1, <2>1 DEF MetInv, Waiting
<1>3. CASE OpenStep \/ EndStep
  BY <1>3, OutsideTheBuild DEF MetInv, Picking, Building
<1>4. CASE GateStep
  BY <1>4, GateFrame DEF MetInv, Picking, Batch
<1>5. CASE LoadRun
  BY <1>5 DEF LoadRun, FreshRun, MetInv, Picking
<1>6. CASE Beside
  <2>1. run'.at = run.at /\ run'.todo = run.todo /\ run'.ready = run.ready /\ running' = running
    BY <1>0, <1>6 DEF Beside, Land, Requeue, SetAside, LoseBranch, LoseScratch, LoseLease, Run, dagVars
  <2>2. Waiting' = Waiting
    BY <2>1 DEF Waiting
  <2> QED
    BY <1>1, <1>6, <2>1, <2>2, KnowledgeFrame DEF MetInv
<1>7. CASE BuildStep
  <2>0. running' = running
    BY <1>7 DEF BuildStep, Select, TriageRefuses, TriageAmends, TriageAsks, TriageEnds, Refuse, FanOut,
       TakeRefused, TakeBuilt, TakeUnverified, TakeEnds, dagVars
  <2>1. ASSUME NEW p \in Phase, Select(p)
        PROVE  MetInv'
    <3> DEFINE capped == {t \in ReadyTasks(p) : Len(tries[t]) >= Cap(t)}
    <3>1. p = running /\ run.at = "ready" /\ run'.at = "triage" /\ run'.todo = capped
          /\ run'.ready = ReadyTasks(p) \ capped /\ run'.merged = run.merged /\ run'.copy = run.copy
      BY <1>0, <2>1 DEF Select, Run
    <3>2. capped \subseteq ReadyTasks(p)
      OBVIOUS
    <3> HIDE DEF capped
    <3>3. Waiting' = ReadyTasks(p)
      BY <3>1, <3>2 DEF Waiting
    <3>4. \A t \in ReadyTasks(p) : \A n \in Needs[t] : Met(n)
      BY DEF ReadyTasks
    <3>5. In(running)' = In(running) /\ \A n : Met(n) => Met(n)'
      BY <2>0, <3>1 DEF In, Met
    <3>6. run.merged \cap In(running) = {}
      BY <3>1 DEF TouchInv, Touched
    <3> HIDE DEF Waiting, Met, In
    <3> QED
      BY <3>1, <3>3, <3>4, <3>5, <3>6 DEF MetInv
  <2> DEFINE Goes == run.at \in Picking /\ Waiting' \subseteq Waiting
  <2> USE DEF Waiting, Picking, Run
  <2>2. ASSUME NEW t \in Task, TriageRefuses(t)
        PROVE  Goes
    BY <1>0, <2>2 DEF TriageRefuses
  <2>3. ASSUME NEW t \in Task, TriageAmends(t)
        PROVE  Goes
    BY <1>0, <2>3 DEF TriageAmends, First
  <2>4. ASSUME NEW t \in Task, TriageAsks(t)
        PROVE  Goes
    BY <1>0, <2>4 DEF TriageAsks
  <2>5. ASSUME TriageEnds \/ TakeEnds
        PROVE  Goes
    BY <1>0, <2>5 DEF TriageEnds, TakeEnds, Step
  <2>6. ASSUME NEW unfit \in SUBSET run.ready, Refuse(unfit)
        PROVE  Goes
    BY <1>0, <2>6 DEF Refuse
  <2>7. ASSUME NEW failed \in SUBSET run.todo, NEW cause \in Blamed(failed), NEW stops \in BOOLEAN,
               FanOut(failed, cause, stops)
        PROVE  Goes
    BY <1>0, <2>7 DEF FanOut
  <2>8. ASSUME NEW t \in Task, NEW cause \in Blamed({t}), TakeRefused(t, cause)
        PROVE  Goes
    BY <1>0, <2>8 DEF TakeRefused
  <2>9. ASSUME NEW t \in Task, NEW cause \in Blamed({t}), TakeUnverified(t, cause)
        PROVE  Goes
    BY <1>0, <2>9 DEF TakeUnverified
  <2>10. ASSUME NEW t \in Task, NEW governed \in BOOLEAN, TakeBuilt(t, governed)
        PROVE  Goes
    BY <1>0, <2>10 DEF TakeBuilt
  <2> HIDE DEF Goes, Waiting, Picking, Run
  <2>11. Goes \/ \E p \in Phase : Select(p)
    BY <1>7, <2>2, <2>3, <2>4, <2>5, <2>6, <2>7, <2>8, <2>9, <2>10 DEF BuildStep
  <2> QED
    BY <1>1, <1>7, <2>0, <2>1, <2>11, KnowledgeFrame DEF Goes
<1> QED
  BY <1>2, <1>3, <1>4, <1>5, <1>6, <1>7 DEF EpicRunNext

\* A phase that runs has no report yet.
LEMMA RunningHasNoReport ==
  ASSUME DagInv, running # NoPhase
  PROVE  running \in Phase /\ running \notin Complete
<1>1. next <= Len(ordered) /\ running = ordered[next] /\ running \in Phase
  BY DEF DagInv, ReportsInOrder, PhaseDagTypeOK
<1>2. next \in Nat \ {0} /\ Len(ordered) \in Nat
  BY DEF DagInv, PhaseDagTypeOK
<1>3. next \in 1..Len(ordered) /\ next >= next
  BY <1>1, <1>2
<1>4. status[running] = "none"
  BY <1>1, <1>3 DEF DagInv, ReportsInOrder
<1> QED
  BY <1>1, <1>4 DEF Complete

LEMMA RunsInPhase ==
  ASSUME HandInv, TouchInv, run.at \notin {"idle", "audit", "over"}
  PROVE  running # NoPhase
BY DEF TouchInv, HandInv

\* A phase completes by leaving it.
LEMMA CompleteFrame ==
  ASSUME PhaseDagTypeOK, EpicRunNext, NEW q \in Complete'
  PROVE  q \in Complete \/ (q = running /\ \E p \in Phase : Leave(p))
<1> USE DEF dagVars, Complete
<1>1. CASE WalkStep
  BY <1>1 DEF WalkStep, BeginRound, EndOrder, Append1, SkipPhase, PhaseDagTypeOK
<1>2. CASE LoadRun
  BY <1>2 DEF LoadRun, Load, Start
<1>3. ASSUME NEW outcome, NEW stops, Return(outcome, stops), q # running \/ outcome # "complete"
      PROVE  q \in Complete
  BY <1>3 DEF Return, EndPhase, PhaseDagTypeOK
<1>4. CASE OpenStep
  BY <1>3, <1>4 DEF OpenStep, NotOpened, AwaitLand, Block, RebaseConflicts, EnterPhase, OpenNew, OpenReused, Rebase,
     Recreate, RecreateFails, StartPhase
<1>5. CASE BuildStep
  BY <1>5 DEF BuildStep, Select, TriageRefuses, TriageAmends, TriageAsks, TriageEnds, Refuse, FanOut,
     TakeRefused, TakeBuilt, TakeUnverified, TakeEnds
<1>6. CASE GateStep
  BY <1>6 DEF GateStep, Validate, ChunkSatisfied, ChunkUnsatisfied, BatchStep, NextSlot, Skip, RefuseStale,
     Draft, Merge, MergeConflicts, Move, MoveMismatch, MoveUnkept, ExecuteAsked
<1>7. CASE EndStep
  <2>1. ASSUME NEW p \in Phase, Leave(p), q # running
        PROVE  q \in Complete
    BY <1>3, <2>1 DEF Leave
  <2>2. ASSUME ~\E p \in Phase : Leave(p)
        PROVE  q \in Complete
    BY <1>7, <2>2 DEF EndStep, Reconcile, TrimPhase, LimitStop, NoTrim, EndRun, Audit, Crash, PausePhase, EndWalk, Raise
  <2> QED
    BY <2>1, <2>2
<1>8. CASE Beside
  BY <1>8 DEF Beside, Land, Requeue, SetAside, LoseBranch, LoseScratch, LoseLease
<1> QED
  BY <1>1, <1>2, <1>4, <1>5, <1>6, <1>7, <1>8 DEF EpicRunNext

\* Where the run may be in an opened phase after a step it was in before, or it has opened the phase's branch.
LEMMA OpenedFrame ==
  ASSUME RunsTypeOK, EpicRunNext, run'.at \in Opened
  PROVE  \/ run.at \in Opened /\ running' = running
         \/ \E p \in Phase : OpenNew(p) \/ OpenReused(p) \/ Rebase(p) \/ Recreate(p)
<1>0. run \in Run
  BY DEF RunsTypeOK
<1> USE DEF dagVars
<1>1. CASE WalkStep
  BY <1>1 DEF WalkStep, BeginRound, EndOrder, Append1, SkipPhase
<1>2. CASE LoadRun
  BY <1>2 DEF LoadRun, FreshRun, Opened
<1>3. ASSUME NEW outcome, NEW stops, Return(outcome, stops)
      PROVE  FALSE
  BY <1>0, <1>3 DEF Return, Run, Opened
<1>4. ASSUME NEW place \in {"open", "audit"}, Step(place)
      PROVE  FALSE
  BY <1>0, <1>4 DEF Step, Run, Opened
<1>5. CASE OpenStep
  BY <1>3, <1>4, <1>5 DEF OpenStep, NotOpened, AwaitLand, Block, RebaseConflicts, EnterPhase, RecreateFails
<1>6. CASE BuildStep
  BY <1>6 DEF BuildStep, Select, TriageRefuses, TriageAmends, TriageAsks, TriageEnds, Refuse, FanOut,
     TakeRefused, TakeBuilt, TakeUnverified, TakeEnds, Opened
<1>7. CASE GateStep
  <2>1. running' = running
    BY <1>7 DEF GateStep, Validate, ChunkSatisfied, ChunkUnsatisfied, BatchStep, NextSlot, Skip, RefuseStale,
       Draft, Merge, MergeConflicts, Move, MoveMismatch, MoveUnkept, ExecuteAsked
  <2> QED
    BY <1>7, <2>1, GateFrame DEF Opened, Batch
<1>8. CASE EndStep
  <2>1. ~Over
    BY DEF Over, FreshRun, Opened
  <2> QED
    BY <1>3, <1>4, <1>8, <2>1 DEF EndStep, Reconcile, TrimPhase, Trimmable, Leave, LimitStop, NoTrim, EndRun, Audit,
       Crash, Opened
<1>9. CASE Beside
  BY <1>0, <1>9 DEF Beside, Land, Requeue, SetAside, LoseBranch, LoseScratch, LoseLease, Run
<1> QED
  BY <1>1, <1>2, <1>5, <1>6, <1>7, <1>8, <1>9 DEF EpicRunNext

\* An opened branch holds all that its base holds.
LEMMA OpenedOnBase ==
  ASSUME RunsTypeOK, NEW p \in Phase, OpenNew(p) \/ OpenReused(p) \/ Rebase(p) \/ Recreate(p), run'.at = "ready"
  PROVE  /\ p = running /\ running' = running /\ run'.copy = run.copy
         /\ Base(p) # {} /\ Base(p) \subseteq branch'[p]
         /\ \A q \in Phase : q # p => branch'[q] = branch[q]
<1>0. run \in Run /\ branch \in [Phase -> SUBSET Commit]
  BY DEF RunsTypeOK
<1>1. p = running /\ running' = running
  BY DEF OpenNew, OpenReused, Rebase, Recreate, dagVars
<1>2. run'.copy = run.copy
  BY <1>0 DEF OpenNew, OpenReused, Rebase, Recreate, Step, Run
<1>3. CASE OpenNew(p) \/ Rebase(p) \/ Recreate(p)
  BY <1>0, <1>1, <1>2, <1>3 DEF OpenNew, Rebase, Recreate
<1>4. CASE OpenReused(p)
  <2>1. PICK place : Step(place) /\ (place = "ready" => Base(p) # {} /\ Base(p) \subseteq branch[p])
    <3>1. PICK moved \in {Base(p) = {} \/ ~(Base(p) \subseteq branch[p]), TRUE} :
            \E commits : Step(IF moved THEN Classify(commits) ELSE "ready")
      BY <1>4 DEF OpenReused
    <3>2. \A commits : Classify(commits) # "ready"
      BY DEF Classify
    <3> HIDE DEF Classify
    <3>3. CASE moved
      BY <3>1, <3>2, <3>3
    <3>4. CASE ~moved
      <4>1. Base(p) # {} /\ Base(p) \subseteq branch[p]
        BY <3>1, <3>4
      <4> QED
        BY <3>1, <3>4, <4>1
    <3> QED
      BY <3>3, <3>4
  <2>2. place = "ready"
    BY <1>0, <2>1 DEF Step, Run
  <2> QED
    BY <1>1, <1>2, <1>4, <2>1, <2>2 DEF OpenReused, repo
<1> QED
  BY <1>3, <1>4

LEMMA InitHasGroundInv == EpicRunInit => MainInv /\ GroundInv /\ MetInv
<1> SUFFICES ASSUME EpicRunInit PROVE MainInv /\ GroundInv /\ MetInv
  OBVIOUS
<1>1. run.at = "idle" /\ run.copy = work
  BY DEF EpicRunInit, FreshRun
<1>2. MainInv
  BY InitHasLandInv DEF LandInv
<1>3. \A n \in Task : Work(n) \notin main
  BY DEF EpicRunInit, Work, Landed, Root
<1>4. \A q \in Phase : branch[q] = {}
  BY DEF EpicRunInit
<1> QED
  BY <1>1, <1>2, <1>3, <1>4 DEF GroundInv, MetInv, Picking, Opened, Complete

\* Nothing but landings comes to the default branch.
LEMMA NoWorkComesToMain ==
  ASSUME EpicRunNext, NEW n \in Task, Work(n) \notin main
  PROVE  Work(n) \notin main'
<1>1. ASSUME NEW t \in Task, NEW squash \in {Landed(t), Amended(t)}
      PROVE  Work(n) # squash
  BY <1>1, CommitKinds
<1> QED
  BY <1>1, MainFrame DEF Land

\* The base of the phase that runs holds no work it did not hold before, whatever is landed or taken.
LEMMA BaseWorkFrame ==
  ASSUME DagInv, RunsTypeOK, GroundInv, EpicRunNext, NEW p \in Phase, parents' = parents,
         NEW n \in Task, Work(n) \in Base(p)',
         \A q \in Phase : Work(n) \in branch'[q] => Work(n) \in branch[q] \/ q = p
  PROVE  Work(n) \in Base(p) \/ Work(n) \in branch'[p]
<1>1. Work(n) \notin main'
  BY NoWorkComesToMain DEF GroundInv
<1>2. CASE parents[p] = {}
  BY <1>1, <1>2 DEF Base
<1>3. CASE parents[p] # {}
  <2> DEFINE q == CHOOSE r \in parents[p] : TRUE
  <2>1. q \in parents[p]
    BY <1>3
  <2>2. q \in Phase
    BY <2>1 DEF DagInv, PhaseDagTypeOK
  <2>3. Base(p)' = branch'[q] /\ Base(p) = branch[q]
    BY <1>3 DEF Base
  <2> HIDE DEF q
  <2> QED
    BY <2>2, <2>3
<1> QED
  BY <1>2, <1>3

\* What a step does to the branches of the phases.
LEMMA BranchMoves ==
  ASSUME DagInv, RunsTypeOK, HandInv, TouchInv, EpicRunNext, NEW q \in Phase
  PROVE  \/ branch'[q] = branch[q]
         \/ q = running /\ branch[q] \subseteq branch'[q]
         \/ q = running /\ \E p \in Phase : OpenNew(p) \/ Rebase(p) \/ Recreate(p) \/ RecreateFails(p)
         \/ q # running /\ branch'[q] \in {{}, main}
<1>0. branch \in [Phase -> SUBSET Commit]
  BY DEF RunsTypeOK
<1>1. ASSUME NEW p \in Phase, OpenNew(p) \/ Rebase(p) \/ Recreate(p) \/ RecreateFails(p)
      PROVE  q = running \/ branch'[q] = branch[q]
  <2>1. p = running /\ \E commits : branch' = branch \/ branch' = [branch EXCEPT ![p] = commits]
    BY <1>1 DEF OpenNew, Rebase, Recreate, RecreateFails
  <2> QED
    BY <1>0, <2>1
<1>2. ASSUME NEW p \in Phase, TrimPhase(p)
      PROVE  branch'[q] = branch[q] \/ (q = running /\ branch[q] \subseteq branch'[q])
  BY <1>0, <1>2 DEF TrimPhase
<1>3. ASSUME NEW p \in Phase, LoseBranch(p)
      PROVE  branch'[q] = branch[q] \/ (q # running /\ branch'[q] \in {{}, main})
  BY <1>0, <1>3 DEF LoseBranch
<1>4. ASSUME NEW t \in Task, Merge(t)
      PROVE  branch'[q] = branch[q] \/ (q = running /\ branch[q] \subseteq branch'[q])
  <2>1. PhaseOf[t] = running
    BY <1>4 DEF Merge, First, HandInv, Batch, InHand, In
  <2> QED
    BY <1>0, <1>4, <2>1 DEF Merge
<1> QED
  BY <1>1, <1>2, <1>3, <1>4, BranchFrame

LEMMA StepKeepsGroundInv ==
  ASSUME DagInv, RunsTypeOK, HandInv, TouchInv, HandsOffInv, RowInv, NeedInv, MainInv, GroundInv, EpicRunNext
  PROVE  GroundInv'
<1>0. run \in Run /\ PhaseDagTypeOK /\ branch \in [Phase -> SUBSET Commit]
  BY DEF RunsTypeOK, DagInv
<1>1. \A n \in Task : Work(n) \notin main'
  BY NoWorkComesToMain DEF GroundInv
<1>2. Grounded(main)
  BY DEF Grounded, MainInv, OnMain
<1>3. ASSUME run'.at # "over", ~LoadRun, NEW commits, NEW grown, Grounded(commits), commits \subseteq grown,
             NEW n \in Task, run'.copy[n] = "done"
      PROVE  {Landed(n), Amended(n)} \cap grown # {}
  BY <1>3, DoneIsKnown DEF Grounded
<1>4. ASSUME LoadRun
      PROVE  GroundInv'
  <2>1. run'.at = "idle" /\ Complete' = {}
    BY <1>4 DEF LoadRun, FreshRun, Load, Start, Complete
  <2> QED
    BY <1>1, <2>1 DEF GroundInv, Opened
<1>5. ASSUME ~LoadRun, run'.at # "over", NEW q \in Complete', branch'[q] # {}
      PROVE  Grounded(branch[q])'
  <2>1. q \in Phase /\ run.at # "over"
    BY <1>5, OverStays DEF Complete
  <2>2. CASE q \in Complete
    <3>1. q # running
      BY <2>1, <2>2, RunningHasNoReport, PhaseDagAssumption
    <3>2. branch[q] = {} \/ Grounded(branch[q])
      BY <2>1, <2>2 DEF GroundInv
    <3>3. \/ branch'[q] = branch[q]
          \/ branch'[q] = main
      BY <1>5, <2>1, <2>2, <3>1, BranchMoves
    <3>4. \E commits \in {branch[q], main} : Grounded(commits) /\ commits \subseteq branch'[q]
      BY <1>2, <1>5, <3>2, <3>3
    <3> QED
      BY <1>3, <1>5, <3>4 DEF Grounded
  <2>3. ASSUME NEW p \in Phase, Leave(p), q = running
        PROVE  Grounded(branch[q])'
    <3>1. Grounded(branch[q]) /\ branch' = branch
      BY <2>3 DEF Leave, GroundInv, Opened, repo
    <3> QED
      BY <1>3, <1>5, <3>1 DEF Grounded
  <2> QED
    BY <1>0, <2>2, <2>3, CompleteFrame
<1>6. ASSUME ~LoadRun, run'.at \in Opened, run.at \in Opened, running' = running
      PROVE  /\ Grounded(branch[running])'
             /\ \A n \in Task : Work(n) \in Base(running)' => Work(n) \in branch'[running']
  <2>1. PICK p \in Phase : p = running
    BY <1>6, RunsInPhase, RunningHasNoReport DEF Opened
  <2>2. branch[p] \subseteq branch'[p]
    <3>1. ~\E r \in Phase : OpenNew(r) \/ Rebase(r) \/ Recreate(r) \/ RecreateFails(r)
      BY <1>6 DEF OpenNew, Rebase, Recreate, RecreateFails, Opened
    <3> QED
      BY <2>1, <3>1, BranchMoves
  <2>3. Grounded(branch[p]) /\ \A n \in Task : Work(n) \in Base(p) => Work(n) \in branch[p]
    BY <1>6, <2>1 DEF GroundInv
  <2>4. run'.at # "over" /\ parents' = parents
    BY <1>6, ParentsFrame DEF Opened
  <2>5. Grounded(branch[p])'
    BY <1>3, <1>6, <2>2, <2>3, <2>4 DEF Grounded
  <2>6. ASSUME NEW n \in Task, Work(n) \in Base(p)'
        PROVE  Work(n) \in branch'[p]
    <3>1. ASSUME NEW q \in Phase, Work(n) \in branch'[q], q # p
          PROVE  Work(n) \in branch[q]
      <4>1. ~\E r \in Phase : OpenNew(r) \/ Rebase(r) \/ Recreate(r) \/ RecreateFails(r)
        BY <1>6 DEF OpenNew, Rebase, Recreate, RecreateFails, Opened
      <4> QED
        BY <2>1, <3>1, <4>1, BranchMoves DEF GroundInv
    <3>2. Work(n) \in Base(p) \/ Work(n) \in branch'[p]
      BY <2>4, <2>6, <3>1, BaseWorkFrame
    <3> QED
      BY <2>2, <2>3, <3>2
  <2>7. Base(running)' = Base(p)' /\ Grounded(branch[running])' = Grounded(branch[p])'
    BY <1>6, <2>1 DEF Base, Grounded
  <2> QED
    BY <1>6, <2>1, <2>5, <2>6, <2>7
<1>7. ASSUME run'.at \in Opened, NEW p \in Phase, OpenNew(p) \/ OpenReused(p) \/ Rebase(p) \/ Recreate(p)
      PROVE  /\ Grounded(branch[running])'
             /\ \A n \in Task : Work(n) \in Base(running)' => Work(n) \in branch'[running']
  <2>1. run'.at = "ready" /\ run.at \in {"open", "rebase", "recreate"} /\ parents' = parents
    <3>1. PICK place \in {"awaiting_land", "rebase", "block", "recreate", "ready"} : run' = [run EXCEPT !.at = place]
      BY <1>7 DEF OpenNew, OpenReused, Rebase, Recreate, Step, Classify
    <3>2. run'.at = place
      BY <1>0, <3>1 DEF Run
    <3> QED
      BY <1>7, <3>2 DEF OpenNew, OpenReused, Rebase, Recreate, Opened, dagVars
  <2>2. /\ p = running /\ running' = running /\ run'.copy = run.copy
        /\ Base(p) # {} /\ Base(p) \subseteq branch'[p]
        /\ \A q \in Phase : q # p => branch'[q] = branch[q]
    BY <1>7, <2>1, OpenedOnBase
  <2>3. Grounded(Base(p))
    <3>1. CASE parents[p] = {}
      BY <1>2, <3>1 DEF Base
    <3>2. CASE parents[p] # {}
      <4> DEFINE q == CHOOSE r \in parents[p] : TRUE
      <4>1. q \in parents[p] /\ Base(p) = branch[q]
        BY <3>2 DEF Base
      <4> HIDE DEF q
      <4>2. q \in Complete
        BY <2>2, <4>1 DEF DagInv, RunsOnCompleteParents
      <4> QED
        BY <2>1, <2>2, <4>1, <4>2 DEF GroundInv
    <3> QED
      BY <3>1, <3>2
  <2>4. Grounded(branch[p])'
    BY <2>2, <2>3 DEF Grounded
  <2>5. ASSUME NEW n \in Task, Work(n) \in Base(p)'
        PROVE  Work(n) \in branch'[p]
    <3>1. Work(n) \in Base(p) \/ Work(n) \in branch'[p]
      BY <2>1, <2>2, <2>5, BaseWorkFrame
    <3> QED
      BY <2>2, <3>1
  <2>6. Base(running)' = Base(p)' /\ Grounded(branch[running])' = Grounded(branch[p])'
    BY <2>2 DEF Base, Grounded
  <2> QED
    BY <2>2, <2>4, <2>5, <2>6
<1>8. ASSUME ~LoadRun
      PROVE  GroundInv'
  <2>1. run'.at \in Opened =>
          /\ Grounded(branch[running])'
          /\ \A n \in Task : Work(n) \in Base(running)' => Work(n) \in branch'[running']
    BY <1>6, <1>7, <1>8, OpenedFrame
  <2> QED
    BY <1>1, <1>5, <1>8, <2>1 DEF GroundInv
<1> QED
  BY <1>4, <1>8

\* A phase that runs has one base, its only parent's branch.
LEMMA OneParent ==
  ASSUME DagInv, running # NoPhase, NEW q \in parents[running]
  PROVE  Base(running) = branch[q]
<1> DEFINE before == {ordered[j] : j \in 1..(next - 1)}
           base == CHOOSE r \in parents[running] : TRUE
<1>1. next <= Len(ordered) /\ running = ordered[next] /\ running \in Phase
  BY DEF DagInv, ReportsInOrder, PhaseDagTypeOK
<1>2. next \in Nat \ {0} /\ Len(ordered) \in Nat
  BY DEF DagInv, PhaseDagTypeOK
<1>3. next \in 1..Len(ordered)
  BY <1>1, <1>2
<1>4. parents[running] \in SUBSET before
  BY <1>1, <1>3 DEF DagInv, OrderIsTopological
<1>5. IsFiniteSet(before)
  <2>1. IsFiniteSet(1..(next - 1))
    BY <1>2, FS_Interval
  <2>2. [j \in 1..(next - 1) |-> ordered[j]] \in Surjection(1..(next - 1), before)
    BY DEF Surjection
  <2> QED
    BY <2>1, <2>2, FS_Surjection
<1> HIDE DEF before
<1>6. IsFiniteSet(parents[running])
  BY <1>4, <1>5, FS_Subset
<1>7. Cardinality(parents[running]) <= 1
  BY <1>1 DEF DagInv, RunsOnCompleteParents
<1>8. base \in parents[running] /\ Base(running) = branch[base]
  BY DEF Base
<1> HIDE DEF base
<1>9. base = q
  <2> SUFFICES ASSUME base # q PROVE FALSE
    OBVIOUS
  <2>1. IsFiniteSet({q}) /\ Cardinality({q}) = 1
    BY FS_Singleton
  <2>2. Cardinality({q} \cup {base}) = Cardinality({q}) + 1
    BY <2>1, FS_AddElement
  <2>3. ({q} \cup {base}) \in SUBSET parents[running]
    BY <1>8
  <2>4. Cardinality({q} \cup {base}) <= Cardinality(parents[running]) /\ Cardinality(parents[running]) \in Nat
    BY <1>6, <2>3, FS_Subset, FS_CardinalityType
  <2> QED
    BY <1>7, <2>1, <2>2, <2>4
<1> QED
  BY <1>8, <1>9

\* A scratch branch is made for what is taken.
LEMMA ScratchFrame ==
  ASSUME RunsTypeOK, EpicRunNext, NEW t \in run'.scratch, t \notin run.scratch
  PROVE  run.at = "taking" /\ t \in run.todo
<1>0. run \in Run
  BY DEF RunsTypeOK
<1> DEFINE Old == t \in run.scratch
<1>1. ASSUME NEW place, Step(place)
      PROVE  Old
  BY <1>0, <1>1 DEF Step, Run
<1>2. ASSUME NEW outcome, NEW stops, Return(outcome, stops)
      PROVE  Old
  BY <1>0, <1>2 DEF Return, Run
<1>3. ~WalkStep
  BY DEF WalkStep
<1>4. ~LoadRun
  BY DEF LoadRun, FreshRun
<1>5. ~OpenStep
  BY <1>1, <1>2 DEF OpenStep, NotOpened, AwaitLand, Block, RebaseConflicts, EnterPhase, OpenNew, OpenReused, Rebase,
     Recreate, RecreateFails
<1>6. ASSUME GateStep
      PROVE  Old
  <2>1. ASSUME NEW p \in Phase, NEW verdict \in {"none", "unmet", "met"}, Validate(p, verdict)
        PROVE  Old
    BY <1>0, <2>1 DEF Validate, Run
  <2>2. ASSUME NEW u \in Task, NEW cause \in Blamed({u}), ChunkSatisfied(u) \/ ChunkUnsatisfied(u, cause)
        PROVE  Old
    BY <1>0, <2>2 DEF ChunkSatisfied, ChunkUnsatisfied, Run
  <2>3. ASSUME NEW u \in Task, ChunkSatisfied(u)
        PROVE  Old
    BY <1>0, <2>3 DEF ChunkSatisfied, Run
  <2>4. ASSUME BatchStep
        PROVE  Old
    BY <1>0, <2>4 DEF BatchStep, NextSlot, Run
  <2>5. ASSUME NEW u \in Task, Skip(u) \/ RefuseStale(u) \/ Draft(u) \/ Merge(u) \/ MergeConflicts(u)
        PROVE  Old
    BY <1>0, <2>5 DEF Skip, RefuseStale, Draft, Merge, MergeConflicts, Run
  <2>6. ASSUME NEW u \in Task, Move(u) \/ MoveMismatch(u) \/ MoveUnkept(u)
        PROVE  Old
    BY <1>0, <2>6 DEF Move, MoveMismatch, MoveUnkept, Run
  <2>7. ASSUME NEW amended \in SUBSET run.asked, ExecuteAsked(amended)
        PROVE  Old
    BY <1>1, <2>7 DEF ExecuteAsked
  <2> QED
    BY <1>6, <2>1, <2>2, <2>3, <2>4, <2>5, <2>6, <2>7 DEF GateStep
<1>7. ASSUME EndStep
      PROVE  Old
  <2>1. ASSUME NEW p \in Phase, Reconcile(p)
        PROVE  Old
    BY <1>0, <2>1 DEF Reconcile, Run
  <2>2. ASSUME Over
        PROVE  Old
    BY <2>2 DEF Over, FreshRun
  <2> QED
    BY <1>1, <1>2, <1>7, <2>1, <2>2 DEF EndStep, TrimPhase, Leave, LimitStop, NoTrim, EndRun, Audit, Crash
<1>8. ~Beside
  BY <1>0 DEF Beside, Land, Requeue, SetAside, LoseBranch, LoseScratch, LoseLease, Run
<1>9. ASSUME NEW u \in Task, NEW cause, NEW governed, TakeBuilt(u, governed) \/ TakeUnverified(u, cause)
      PROVE  run.at = "taking" /\ t \in run.todo
  <2>1. run.at = "taking" /\ u \in run.todo
    BY <1>9 DEF TakeBuilt, TakeUnverified, First
  <2>2. run'.scratch = run.scratch \cup {u}
    BY <1>0, <1>9 DEF TakeBuilt, TakeUnverified, Run
  <2> QED
    BY <2>1, <2>2
<1>10. CASE BuildStep
  <2>1. ASSUME \/ \E p \in Phase : Select(p)
               \/ \E u \in Task : TriageRefuses(u) \/ TriageAmends(u) \/ TriageAsks(u)
               \/ TriageEnds \/ TakeEnds
        PROVE  Old
    BY <1>0, <1>1, <2>1 DEF Select, TriageRefuses, TriageAmends, TriageAsks, TriageEnds, TakeEnds, Run
  <2>2. ASSUME NEW unfit \in SUBSET run.ready, Refuse(unfit)
        PROVE  Old
    BY <1>0, <2>2 DEF Refuse, Run
  <2>3. ASSUME NEW failed \in SUBSET run.todo, NEW cause \in Blamed(failed), NEW stops \in BOOLEAN,
               FanOut(failed, cause, stops)
        PROVE  Old
    BY <1>0, <2>3 DEF FanOut, Run
  <2>4. ASSUME NEW u \in Task, NEW cause \in Blamed({u}), TakeRefused(u, cause)
        PROVE  Old
    BY <1>0, <2>4 DEF TakeRefused, Run
  <2> QED
    BY <1>9, <1>10, <2>1, <2>2, <2>3, <2>4 DEF BuildStep
<1> QED
  BY <1>3, <1>4, <1>5, <1>6, <1>7, <1>8, <1>10 DEF EpicRunNext

\* All a run may rely on when it builds.
BuildInv == KeptInv /\ NeedInv /\ MainInv /\ GroundInv /\ MetInv

LEMMA BuildInvariant == EpicRunSpec => []BuildInv
<1>1. EpicRunInit => BuildInv
  BY InitHasEpicType, InitHasDagInv, InitHasHandInv, InitHasTouchInv, InitHasHandsOff, InitHasNeedInv, InitHasGroundInv
     DEF BuildInv, KeptInv
<1>2. ASSUME UNCHANGED vars, GroundInv
      PROVE  GroundInv'
  BY <1>2 DEF vars, dagVars, repo, GroundInv, Grounded, Base, Complete
<1>3. BuildInv /\ [EpicRunNext]_vars => BuildInv'
  BY <1>2, StepKeepsEpicType, StepKeepsHandInv, StepKeepsTouchInv, StepKeepsHandsOff, StepKeepsRows, StepKeepsNeedInv,
     StepKeepsMainInv, StepKeepsMetInv, StepKeepsGroundInv DEF BuildInv, KeptInv, DagInv
<1> QED
  BY <1>1, <1>3, PTL DEF EpicRunSpec

\* A task is built on ground that holds all it needs, as it was landed or as it was merged, for every graph of
\* phases and tasks, whatever was landed, recreated or rebased since; a need that is missing was taken off the
\* branch it was merged into (epic.py: _ready_view, _open_phase_worktree, branch_action).
THEOREM TasksAreBuiltOnNeeds == EpicRunSpec => BuildsOnNeeds
<1> DEFINE Built ==
      \A t \in run'.scratch \ run.scratch : \A n \in Needs[t] :
        \/ {Work(n), Landed(n), Amended(n)} \cap branch[PhaseOf[t]] # {}
        \/ n \in run.merged /\ Work(n) \notin branch[PhaseOf[n]]
<1>1. BuildInv /\ [EpicRunNext]_vars => [Built]_vars
  <2> SUFFICES ASSUME BuildInv, EpicRunNext, NEW t \in run'.scratch \ run.scratch, NEW n \in Needs[t]
               PROVE  \/ {Work(n), Landed(n), Amended(n)} \cap branch[PhaseOf[t]] # {}
                      \/ n \in run.merged /\ Work(n) \notin branch[PhaseOf[n]]
    OBVIOUS
  <2> USE DEF BuildInv, KeptInv
  <2>1. run.at = "taking" /\ t \in run.todo
    BY ScratchFrame
  <2>2. t \in Task /\ n \in Task /\ PhaseOf[t] = running /\ running # NoPhase
    <3>1. t \in In(running)
      BY <2>1 DEF HandInv, InHand
    <3> QED
      BY <2>1, <3>1, EpicRunAssumption, RunsInPhase DEF In
  <2>3. Met(n) /\ (n \in run.merged => PhaseOf[n] # running)
    BY <2>1, <2>2 DEF MetInv, Picking, Waiting, In
  <2>4. CASE run.copy[n] = "done"
    BY <2>1, <2>2, <2>4 DEF GroundInv, Grounded, Opened
  <2>5. CASE run.copy[n] # "done"
    <3>1. n \in run.merged /\ PhaseOf[n] \in parents[running]
      BY <2>1, <2>2, <2>3, <2>5 DEF Met, NeedInv
    <3>2. Base(running) = branch[PhaseOf[n]]
      BY <2>2, <3>1, OneParent
    <3>3. Work(n) \in branch[PhaseOf[n]] => Work(n) \in branch[running]
      BY <2>1, <2>2, <3>2 DEF GroundInv, Opened
    <3> QED
      BY <2>2, <3>1, <3>3
  <2> QED
    BY <2>4, <2>5
<1> QED
  BY <1>1, BuildInvariant, PTL DEF EpicRunSpec, BuildsOnNeeds
=============================================================================
