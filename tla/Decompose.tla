----------------------------- MODULE Decompose -----------------------------
(***************************************************************************)
(* initiative-decompose (graphs/delivery/initiative_decompose.py, with     *)
(* decompose_size.py, phase_split.py and ticket_lint.py): an idea becomes  *)
(* phases and tasks, or the run is refused and proposes nothing.  What the *)
(* model answers is an input: the size of an intake, a plan, a challenge   *)
(* of its edges, a correction of its surfaces and needs.                   *)
(*                                                                         *)
(* A task id is a sequence: a task that is split over two repositories     *)
(* becomes two, each with a repository at its end.  A phase name is a base *)
(* and the level that the split of same-phase needs gave it ("p", "p-b",   *)
(* "p-c").  A surface is one of the kinds that the gates tell apart:       *)
(*   "one", "two", "test", "json"  files of the tree, "two" in the second  *)
(*                                 repository; "json" is a .json fixture   *)
(*   "short"    prose that is part of the path of "one"                    *)
(*   "astray"   a path that names the file of "test" in the wrong place    *)
(*   "gone"     a path that nothing in the tree has                        *)
(*   "new"      a path with the marker of a new file                       *)
(*   "prose"    words                                                      *)
(***************************************************************************)
EXTENDS Integers, Sequences, FiniteSets

CONSTANTS
  Modes,        \* [tree, adversary, ordinal, size]: what the run is given
  Declared,     \* bases of phase names that plans declare
  Near,         \* Near[b]: the declared bases that differ from b in one letter
  Plans,        \* plans that decompose may answer: id -> task
  Sizes,        \* answers of the size node: [verdict, surfaces, override, body]
  Challenges,   \* [spurious, missing]: sets of <<task, need>>
  Corrections   \* [surfaces: id -> (surface -> surface), tasks: id -> task]

VARIABLES
  mode, at, turn, tasks, phases, single, sizeRecord, agreed, refusal

decomposeVars == <<mode, at, turn, tasks, phases, single, sizeRecord, agreed, refusal>>

Ids == DOMAIN tasks
Empty == [i \in {} |-> 0]

InTree == {"one", "two", "test", "json"}
Surfaces == InTree \cup {"short", "astray", "gone", "new", "prose"}

\* The id of a part begins with the id of its task; ids are apart when none begins another.
IsPartOf(i, t) == Len(t) <= Len(i) /\ SubSeq(i, 1, Len(t)) = t
Apart(ids) == \A t, u \in ids : IsPartOf(t, u) => t = u

IsTask(task) ==
  /\ task = [phase |-> task.phase, needs |-> task.needs, surfaces |-> task.surfaces,
             body |-> task.body, side |-> task.side, repo |-> task.repo]
  /\ task.phase = <<task.phase[1], task.phase[2]>> /\ task.phase[2] \in Nat
  /\ task.surfaces \subseteq Surfaces

IsPlan(ts) ==
  /\ ts = [t \in DOMAIN ts |-> ts[t]] /\ IsFiniteSet(DOMAIN ts)
  /\ DOMAIN ts \subseteq Seq(Nat) /\ Apart(DOMAIN ts)
  /\ \A t \in DOMAIN ts : IsTask(ts[t])

\* Answers have the shape of their schema, and no answer has two tasks under ids that a
\* split would make one.
ASSUME DecomposeAssumption ==
  /\ IsFiniteSet(Declared)
  /\ \A plan \in Plans : IsPlan(plan) /\ \A t \in DOMAIN plan : plan[t].phase[2] = 0
  /\ \A size \in Sizes : size.verdict \in {"task", "epic", "error"}
  /\ \A c \in Corrections :
       /\ c = [surfaces |-> c.surfaces, tasks |-> c.tasks] /\ IsPlan(c.tasks)
       /\ \A t \in DOMAIN c.surfaces : \A s \in DOMAIN c.surfaces[t] : c.surfaces[t][s] \in Surfaces

-----------------------------------------------------------------------------
(* Same-phase needs: phase_split.                                          *)
SamePhaseNeeds(ts, t) == {n \in ts[t].needs \cap DOMAIN ts : ts[n].phase = ts[t].phase}

\* The level of a task when it is reached along a path: an edge back into it is ignored.
LevelFrom(ts) ==
  LET from[way \in (DOMAIN ts) \X (SUBSET DOMAIN ts)] ==
        LET needed == SamePhaseNeeds(ts, way[1]) \ way[2]
            below == {from[<<n, way[2] \cup {way[1]}>>] : n \in needed}
        IN IF needed = {} THEN 0 ELSE 1 + CHOOSE k \in below : \A l \in below : l <= k
  IN from

Level(ts, t) == LevelFrom(ts)[<<t, {}>>]

SplitPhases(ts) == [t \in DOMAIN ts |-> [ts[t] EXCEPT !.phase = <<@[1], Level(ts, t)>>]]

\* A declared phase gets one more for each level that its own tasks use.
SplitDeclared(ts) ==
  {<<b, 0>> : b \in Declared} \cup {<<ts[t].phase[1], Level(ts, t)>> : t \in {u \in DOMAIN ts : ts[u].phase[1] \in Declared}}

(* The names of phases: one letter apart in the base, one in the level     *)
(* ("-b", "-c"), two when only one name has a level.                       *)
Distance(a, b) ==
  (IF a[1] = b[1] THEN 0 ELSE IF b[1] \in Near[a[1]] THEN 1 ELSE 9)
  + (IF a[2] = b[2] THEN 0 ELSE IF 0 \in {a[2], b[2]} THEN 2 ELSE 1)

CloseTo(name, declared) ==
  IF name \in declared THEN {name} ELSE {d \in declared : Distance(name, d) <= 2}

-----------------------------------------------------------------------------
(* Edges.                                                                  *)
Foreign(ts) ==
  {edge \in (DOMAIN ts) \X UNION {ts[t].needs : t \in DOMAIN ts} :
     edge[2] \in ts[edge[1]].needs /\ edge[2] \notin DOMAIN ts}

Apply(ts, c) ==
  [t \in DOMAIN ts |->
    [ts[t] EXCEPT !.needs = (@ \ {n \in @ : <<t, n>> \in c.spurious})
                            \cup {n \in DOMAIN ts : n # t /\ <<t, n>> \in c.missing}]]

\* What a task waits for: its needs, theirs, and so on.
Closed(ts, set) == \A t \in set : ts[t].needs \cap DOMAIN ts \subseteq set

Above(ts, t) ==
  {u \in DOMAIN ts :
     \A set \in SUBSET DOMAIN ts : ts[t].needs \cap DOMAIN ts \subseteq set /\ Closed(ts, set) => u \in set}

LocalCycle(ts) == \E t \in DOMAIN ts : t \in Above(ts, t)

DropForeignNeeds(ts) == [t \in DOMAIN ts |-> [ts[t] EXCEPT !.needs = @ \cap DOMAIN ts]]

-----------------------------------------------------------------------------
(* Surfaces.                                                               *)
RepoOf(s) == IF s = "two" THEN 2 ELSE 1
Resolves == InTree \cup {"short"}
LooksLikeASurface(s) == s \notin {"short", "prose"}

Resolved(ts) == [t \in DOMAIN ts |-> [ts[t] EXCEPT !.surfaces = {IF s = "short" THEN "one" ELSE s : s \in @}]]
UnresolvedIn(ts) == {t \in DOMAIN ts : ~(ts[t].surfaces \subseteq Resolves)}

\* A path astray is put right; a path that names nothing is a failure.
Placed(ts) == [t \in DOMAIN ts |-> [ts[t] EXCEPT !.surfaces = {IF s = "astray" THEN "test" ELSE s : s \in @}]]
Misplaced(ts) == {t \in DOMAIN ts : "gone" \in ts[t].surfaces}

ReposOf(task) == {RepoOf(s) : s \in task.surfaces \cap InTree}

PartsOf(ts, t) == IF Cardinality(ReposOf(ts[t])) <= 1 THEN {t} ELSE {Append(t, r) : r \in ReposOf(ts[t])}
PartOf(ts, i) == CHOOSE t \in DOMAIN ts : i \in PartsOf(ts, t)
OnlyIn(task, r) == {s \in task.surfaces : s \in InTree /\ RepoOf(s) = r}

\* Mutant: the parts take over the surfaces, and those who waited for the whole still name it.
SplitUnnamed(ts) ==
  [i \in UNION {PartsOf(ts, t) : t \in DOMAIN ts} |->
    LET t == PartOf(ts, i)
    IN IF i = t THEN ts[t] ELSE [ts[t] EXCEPT !.surfaces = OnlyIn(ts[t], i[Len(i)])]]

(* One task per repository, and everyone who needed the task needs its     *)
(* every part.                                                             *)
SplitCrossRepo(ts) ==
  [i \in UNION {PartsOf(ts, t) : t \in DOMAIN ts} |->
    LET t == PartOf(ts, i)
    IN [ts[t] EXCEPT
         !.needs = UNION {IF n \in DOMAIN ts THEN PartsOf(ts, n) ELSE {n} : n \in @},
         !.surfaces = IF i = t THEN @ ELSE OnlyIn(ts[t], i[Len(i)])]]

(* A correction replaces the surfaces it names, restates the needs of      *)
(* tasks of the plan and adds others.                                      *)
Corrected(ts, c) ==
  [t \in DOMAIN ts \cup DOMAIN c.tasks |->
    IF t \notin DOMAIN ts THEN c.tasks[t]
    ELSE [ts[t] EXCEPT
           !.surfaces = {IF t \in DOMAIN c.surfaces /\ s \in DOMAIN c.surfaces[t] THEN c.surfaces[t][s] ELSE s : s \in @},
           !.needs = IF t \in DOMAIN c.tasks THEN c.tasks[t].needs ELSE @]]

SurfacesOnly(c) == [c EXCEPT !.tasks = Empty]

-----------------------------------------------------------------------------
(* Ticket lint.  One interface: tasks with a side are its group.  A test   *)
(* file in common stands for two modules that import one another, too.     *)
Coupled(ts, t, u) ==
  /\ t # u /\ ts[t].phase = ts[u].phase /\ "test" \in ts[t].surfaces \cap ts[u].surfaces
  /\ t \notin Above(ts, u) /\ u \notin Above(ts, t)

Side(ts, s) == {t \in DOMAIN ts : ts[t].side = s}
Group(ts) == DOMAIN ts \ Side(ts, "none")

Contract(ts) ==
  LET contracts == Side(ts, "contract")
      producers == Side(ts, "producer")
  IN IF Cardinality({ts[t].repo : t \in Group(ts)}) < 2 THEN {}
     ELSE IF contracts = {} THEN Side(ts, "consumer")
     ELSE {t \in producers \cup Side(ts, "consumer") : ts[t].needs \cap contracts = {}}
          \cup {k \in contracts : "json" \notin ts[k].surfaces
                                  \/ (producers # {} /\ ts[k].repo \notin {ts[t].repo : t \in producers})}

Rewritable(ts) == {t \in DOMAIN ts : ts[t].body = "command"}

OutOfReach(ts) == {t \in DOMAIN ts : ts[t].body = "reach"}
InCouples(ts) == {t \in DOMAIN ts : \E u \in DOMAIN ts : Coupled(ts, t, u)}

Refused(ts) == Rewritable(ts) \cup OutOfReach(ts) \cup InCouples(ts) \cup Contract(ts)

-----------------------------------------------------------------------------
Refuse(why) == at' = "refused" /\ refusal' = why

(* The size of the intake.  An answer that does not parse, or a task that  *)
(* cannot become a ticket, runs the epic path as a fallback.               *)
Routed(size) ==
  CASE size.override = "bad" -> "fallback"
    [] size.override = "epic" -> "epic"
    [] size.override = "task" -> IF size.verdict = "task" THEN "task" ELSE "fallback"
    [] OTHER -> IF size.verdict = "error" THEN "fallback" ELSE size.verdict

\* The repository's files are those of the tree: without one, every file is new.
MarkNew(s) == IF mode.tree /\ s \in InTree THEN s ELSE "new"

SingleTicket(size) ==
  [t \in {<<1>>} |-> [phase |-> <<CHOOSE b \in Declared : TRUE, 0>>, needs |-> {}, body |-> size.body, side |-> "none", repo |-> 1,
                      surfaces |-> {MarkNew(s) : s \in size.surfaces}]]

Size ==
  /\ at = "start" /\ mode.size
  /\ \E size \in Sizes :
       /\ sizeRecord' = Routed(size)
       /\ single' = (Routed(size) = "task")
       /\ IF Routed(size) = "task"
          THEN tasks' = SingleTicket(size) /\ phases' = {<<CHOOSE b \in Declared : TRUE, 0>>} /\ at' = "cycle"
          ELSE tasks' = tasks /\ phases' = phases /\ at' = "decompose"
       /\ agreed' = tasks'
  /\ UNCHANGED <<mode, turn, refusal>>

NoSize ==
  /\ at = "start" /\ ~mode.size
  /\ at' = "decompose"
  /\ UNCHANGED <<mode, turn, tasks, phases, single, sizeRecord, agreed, refusal>>

(* A plan, the first or the rewritten one.                                 *)
Decompose ==
  /\ at = "decompose"
  /\ \E plan \in Plans :
       IF mode.ordinal /\ Foreign(plan) # {}
       THEN Refuse("unknown key") /\ UNCHANGED <<tasks, phases, agreed>>
       ELSE /\ tasks' = SplitPhases(plan)
            /\ phases' = SplitDeclared(plan)
            /\ agreed' = tasks'
            /\ at' = IF mode.adversary THEN "challenge" ELSE "cycle"
            /\ UNCHANGED refusal
  /\ UNCHANGED <<mode, turn, single, sizeRecord>>

Challenge ==
  /\ at = "challenge"
  /\ \E c \in Challenges : tasks' = Apply(tasks, c)
  /\ agreed' = tasks'
  /\ at' = "cycle"
  /\ UNCHANGED <<mode, turn, phases, single, sizeRecord, refusal>>

CheckCycle ==
  /\ at = "cycle"
  /\ IF LocalCycle(tasks) THEN Refuse("cycle") ELSE at' = (IF mode.tree THEN "surfaces" ELSE "lint") /\ UNCHANGED refusal
  /\ UNCHANGED <<mode, turn, tasks, phases, single, sizeRecord, agreed>>

(* Every surface has to resolve; the adversary is asked once, for the      *)
(* first plan.                                                             *)
CheckSurfaces ==
  /\ at = "surfaces"
  /\ LET placed == Placed(tasks)
     IN IF Misplaced(tasks) # {}
        THEN Refuse("surface not found") /\ UNCHANGED tasks
        ELSE IF UnresolvedIn(placed) = {}
        THEN tasks' = SplitCrossRepo(Resolved(placed)) /\ at' = "lint" /\ UNCHANGED refusal
        ELSE IF turn = 1 /\ mode.adversary
        THEN tasks' = placed /\ at' = "resolve" /\ UNCHANGED refusal
        ELSE Refuse("prose") /\ tasks' = placed
  /\ UNCHANGED <<mode, turn, phases, single, sizeRecord, agreed>>

Resolve ==
  /\ at = "resolve"
  /\ \E c \in Corrections :
       LET corrected == Corrected(tasks, SurfacesOnly(c))
       IN IF UnresolvedIn(corrected) # {}
          THEN Refuse("prose") /\ UNCHANGED tasks
          ELSE tasks' = SplitCrossRepo(Resolved(corrected)) /\ at' = "lint" /\ UNCHANGED refusal
  /\ UNCHANGED <<mode, turn, phases, single, sizeRecord, agreed>>

(* A plan that names what the build was not granted is rewritten once; the *)
(* other refusals are put to a seat once, or refuse the run.               *)
Lint ==
  /\ at = "lint"
  /\ IF Rewritable(tasks) # {}
     THEN IF single \/ turn = 2
          THEN Refuse("lint") /\ UNCHANGED turn
          ELSE at' = "decompose" /\ turn' = 2 /\ UNCHANGED refusal
     ELSE /\ UNCHANGED turn
          /\ IF Refused(tasks) = {} THEN at' = "emit" /\ UNCHANGED refusal
             ELSE IF mode.adversary \/ OutOfReach(tasks) \cup InCouples(tasks) = {}
             THEN at' = "correct" /\ UNCHANGED refusal
             ELSE Refuse("lint")
  /\ UNCHANGED <<mode, tasks, phases, single, sizeRecord, agreed>>

\* The surface gates again, for the tasks that were not in the plan.
Gated(ts, added) ==
  LET checked == Resolved(Placed([t \in added |-> ts[t]]))
  IN SplitCrossRepo([t \in DOMAIN ts |-> IF t \in added THEN checked[t] ELSE ts[t]])

GateFails(ts, added) ==
  LET new == [t \in added |-> ts[t]] IN Misplaced(new) # {} \/ UnresolvedIn(Placed(new)) # {}

\* A task that an answer adds has an id of its own, not that of a task that became parts.
Additions == {c \in Corrections : Apart(Ids \cup DOMAIN c.tasks)}

Correct ==
  /\ at = "correct"
  /\ \E c \in Additions :
       LET corrected == Corrected(tasks, c)
           added == DOMAIN c.tasks \ DOMAIN tasks
           gated == IF mode.tree THEN Gated(corrected, added) ELSE corrected
       IN /\ agreed' = corrected
          /\ IF mode.tree /\ GateFails(corrected, added) THEN Refuse("surface not found") /\ UNCHANGED tasks
             ELSE /\ tasks' = gated
                  /\ IF LocalCycle(gated) THEN Refuse("cycle")
                     ELSE IF Refused(gated) # {} THEN Refuse("lint") ELSE at' = "emit" /\ UNCHANGED refusal
  /\ UNCHANGED <<mode, turn, phases, single, sizeRecord>>

\* Mutant: the first declared phase that is close enough will do.
EmitGuesses ==
  /\ at = "emit"
  /\ LET kept == [t \in Ids |-> [tasks[t] EXCEPT !.surfaces = {s \in @ : LooksLikeASurface(s)}]]
         closest(t) == CloseTo(tasks[t].phase, phases)
     IN IF \E t \in Ids : closest(t) = {}
        THEN Refuse("phase") /\ UNCHANGED tasks
        ELSE /\ tasks' = [t \in Ids |-> [DropForeignNeeds(kept)[t] EXCEPT !.phase = CHOOSE d \in closest(t) : TRUE]]
             /\ at' = "proposed" /\ UNCHANGED refusal
  /\ UNCHANGED <<mode, turn, phases, single, sizeRecord, agreed>>

(* What does not look like a path leaves the surfaces, foreign needs are   *)
(* dropped, and a phase is the declared one that it is close to.           *)
Emit ==
  /\ at = "emit"
  /\ LET kept == [t \in Ids |-> [tasks[t] EXCEPT !.surfaces = {s \in @ : LooksLikeASurface(s)}]]
         closest(t) == CloseTo(tasks[t].phase, phases)
     IN IF \E t \in Ids : Cardinality(closest(t)) # 1
        THEN Refuse("phase") /\ UNCHANGED tasks
        ELSE /\ tasks' = [t \in Ids |-> [DropForeignNeeds(kept)[t] EXCEPT !.phase = CHOOSE d \in closest(t) : TRUE]]
             /\ at' = "proposed" /\ UNCHANGED refusal
  /\ UNCHANGED <<mode, turn, phases, single, sizeRecord, agreed>>

-----------------------------------------------------------------------------
DecomposeInit ==
  /\ mode \in Modes
  /\ at = "start" /\ turn = 1 /\ tasks = Empty /\ phases = {} /\ single = FALSE
  /\ sizeRecord = "none" /\ agreed = Empty /\ refusal = "none"

DecomposeNext == Size \/ NoSize \/ Decompose \/ Challenge \/ CheckCycle \/ CheckSurfaces \/ Resolve \/ Lint \/ Correct \/ Emit

DecomposeSpec == DecomposeInit /\ [][DecomposeNext]_decomposeVars
-----------------------------------------------------------------------------
(* Types; what is proposed needs tasks of its own and is of declared       *)
(* phases.                                                                 *)
DecomposeTypeOK ==
  /\ mode \in Modes /\ turn \in 1..2 /\ single \in BOOLEAN
  /\ sizeRecord \in {"none", "task", "epic", "fallback"}
  /\ \A t \in Ids : tasks[t].surfaces \subseteq Surfaces
  /\ at = "proposed" => \A t \in Ids : tasks[t].needs \subseteq Ids /\ tasks[t].phase \in phases

(* Nothing is proposed that waits for itself, whoever drew the last edge:  *)
(* the plan, the challenge, the rewrite or the correction.  Of any set of  *)
(* proposed tasks, one needs none of the others.                           *)
PlanIsADag ==
  at = "proposed" => \A set \in (SUBSET Ids) \ {{}} : \E t \in set : tasks[t].needs \cap set = {}

(* No agreed edge is lost on the way to the proposals: each part that a    *)
(* task became waits for each part of what the task needed.                *)
EdgesSurvive ==
  at = "proposed" =>
    \A t \in DOMAIN agreed : \A n \in agreed[t].needs \cap DOMAIN agreed :
      \A i \in {k \in Ids : IsPartOf(k, t)}, j \in {k \in Ids : IsPartOf(k, n)} : j \in tasks[i].needs

(* No proposed task has surfaces in two repositories, and every surface of *)
(* a task that was split is with one of its parts.                         *)
OneRepoEach ==
  at = "proposed" /\ mode.tree => \A t \in Ids : Cardinality(ReposOf(tasks[t])) <= 1

(* The split of a plan without cycles leaves no need within a phase: the   *)
(* tasks of each of the new phases can all start when the phase does, and  *)
(* every need of a task that was moved is in an earlier one.               *)
SplitIsOrdered ==
  at \in {"challenge", "cycle"} /\ ~single /\ agreed = tasks /\ (mode.adversary => at = "challenge") /\ ~LocalCycle(tasks) =>
    \A t \in Ids : \A n \in tasks[t].needs \cap Ids :
      tasks[n].phase[1] = tasks[t].phase[1] => tasks[n].phase[2] < tasks[t].phase[2]

(* The recorded size is the one that ran: "task" for the one ticket of the *)
(* intake, "epic" or the fallback for a plan.                              *)
SizeRecordTrue ==
  at = "proposed" => (sizeRecord = "task") = single

(* A phase that was misspelt is moved only to a declared phase that no     *)
(* other could be taken for, and a phase that was declared is left alone.  *)
PhaseIsNoGuess ==
  at = "proposed" =>
    \A t \in DOMAIN agreed : \A i \in {k \in Ids : IsPartOf(k, t)} :
      \A d \in phases : Distance(agreed[t].phase, d) <= Distance(agreed[t].phase, tasks[i].phase) => d = tasks[i].phase

(* What is proposed can be worked on: it has no cycle, no edge that was     *)
(* agreed is missing, and a phase's tasks can start together.               *)
PlanIsSound == DecomposeTypeOK /\ PlanIsADag /\ EdgesSurvive /\ SplitIsOrdered

(* Nothing is settled by a guess: neither a phase, nor a task's repository, *)
(* nor the recorded size.                                                   *)
NothingIsGuessed == PhaseIsNoGuess /\ OneRepoEach /\ SizeRecordTrue
=============================================================================
