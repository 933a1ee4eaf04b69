------------------------------ MODULE PhaseDag ------------------------------
(***************************************************************************)
(* The loop of an epic run over the phases of an initiative                *)
(* (harness/epic.py: phase_order and run_epic).  The phases and what each  *)
(* is stacked on are put in order, round by round; then each phase in turn *)
(* is run, or reported blocked.  What a phase does while it runs is in     *)
(* EpicRun; here it only ends, in any of the ways it can.                  *)
(*                                                                         *)
(* A behaviour is a sequence of runs of one initiative: between two runs   *)
(* the phase graph may change in any way.  Phases are numbers because the  *)
(* code breaks ties by name.                                               *)
(***************************************************************************)
EXTENDS Naturals, Sequences, FiniteSets

CONSTANTS
  Phase,       \* the phases of the initiative, in the order of their names
  NoPhase      \* not a phase

ASSUME PhaseDagAssumption == Phase \subseteq Nat /\ NoPhase \notin Phase

VARIABLES
  parents,   \* the phases each phase depends on
  ordered,   \* the phases ordered so far
  round,     \* the phases of the current ordering round still to be appended
  stage,     \* what the loop is doing, or how it ended
  next,      \* index in `ordered` of the phase that is to run
  running,   \* the phase in _run_phase, or NoPhase
  status     \* what is reported of each phase

dagVars == <<parents, ordered, round, stage, next, running, status>>

Ends == {"ended", "stopped", "paused", "raised"}
Outcome == {"complete", "partial", "blocked", "awaiting_land"}
PhaseGraph == {g \in [Phase -> SUBSET Phase] : \A p \in Phase : p \notin g[p]}

Ordered == {ordered[i] : i \in 1..Len(ordered)}
Leftover == Phase \ Ordered
Complete == {p \in Phase : status[p] = "complete"}

PhaseDagTypeOK ==
  /\ parents \in [Phase -> SUBSET Phase]
  /\ ordered \in Seq(Phase)
  /\ round \subseteq Phase
  /\ stage \in {"ordering", "walking"} \cup Ends
  /\ next \in Nat \ {0}
  /\ running \in Phase \cup {NoPhase}
  /\ status \in [Phase -> Outcome \cup {"none"}]

\* run_epic begins on the phase graph its items induce.
Start(graph) ==
  /\ parents' = graph
  /\ ordered' = <<>>
  /\ round' = {}
  /\ stage' = "ordering"
  /\ next' = 1
  /\ running' = NoPhase
  /\ status' = [p \in Phase |-> "none"]

PhaseDagInit ==
  /\ parents \in PhaseGraph
  /\ ordered = <<>>
  /\ round = {}
  /\ stage = "ordering"
  /\ next = 1
  /\ running = NoPhase
  /\ status = [p \in Phase |-> "none"]

\* Another run of the initiative.
Load(graph) ==
  /\ stage \in Ends
  /\ Start(graph)

----------------------------------------------------------------------------
(* phase_order *)

\* Mutant: what is already ordered is not taken off the parents.
FreeRoots == {p \in Leftover : parents[p] = {}}

\* Phases whose parents are all ordered.
Free == {p \in Leftover : parents[p] \subseteq Ordered}

BeginRound ==
  /\ stage = "ordering"
  /\ round = {}
  /\ Free # {}
  /\ round' = Free
  /\ UNCHANGED <<parents, ordered, stage, next, running, status>>

\* Within a round the order is that of the names.
Append1(p) ==
  /\ stage = "ordering"
  /\ p \in round
  /\ \A q \in round : p <= q
  /\ ordered' = Append(ordered, p)
  /\ round' = round \ {p}
  /\ UNCHANGED <<parents, stage, next, running, status>>

\* Nothing is free: what is left over is reported as a cycle.
EndOrder ==
  /\ stage = "ordering"
  /\ round = {}
  /\ Free = {}
  /\ stage' = "walking"
  /\ status' = [p \in Phase |-> IF p \in Leftover THEN "blocked" ELSE "none"]
  /\ UNCHANGED <<parents, ordered, round, next, running>>

----------------------------------------------------------------------------
(* The loop over the ordered phases *)

AtPhase(p) ==
  /\ stage = "walking"
  /\ running = NoPhase
  /\ next <= Len(ordered)
  /\ p = ordered[next]

\* Mutant: the phase only needs a parent that was reported.
RunnableAfterAny(p) == Cardinality(parents[p]) <= 1 /\ \A q \in parents[p] : status[q] # "none"

\* One base to stack on, and it met its goal.
Runnable(p) == Cardinality(parents[p]) <= 1 /\ parents[p] \subseteq Complete

\* Several parents, or a parent that did not meet its goal.
SkipPhase(p) ==
  /\ AtPhase(p)
  /\ ~Runnable(p)
  /\ status' = [status EXCEPT ![p] = "blocked"]
  /\ next' = next + 1
  /\ UNCHANGED <<parents, ordered, round, stage, running>>

StartPhase(p) ==
  /\ AtPhase(p)
  /\ Runnable(p)
  /\ running' = p
  /\ UNCHANGED <<parents, ordered, round, stage, next, status>>

\* _run_phase returns.  With `stops`, the runner cannot authenticate and no later phase is run.
EndPhase(outcome, stops) ==
  /\ running # NoPhase
  /\ status' = [status EXCEPT ![running] = outcome]
  /\ running' = NoPhase
  /\ next' = next + 1
  /\ stage' = IF stops THEN "stopped" ELSE stage
  /\ UNCHANGED <<parents, ordered, round>>

\* A LimitStop leaves _run_phase: no record of the phase is kept.
PausePhase ==
  /\ running # NoPhase
  /\ running' = NoPhase
  /\ stage' = "paused"
  /\ UNCHANGED <<parents, ordered, round, next, status>>

EndWalk ==
  /\ stage = "walking"
  /\ running = NoPhase
  /\ next > Len(ordered)
  /\ stage' = "ended"
  /\ UNCHANGED <<parents, ordered, round, next, running, status>>

\* Any other exception, or a signal.
Raise ==
  /\ stage \notin Ends
  /\ stage' = "raised"
  /\ running' = NoPhase
  /\ UNCHANGED <<parents, ordered, round, next, status>>

LoopStep ==
  \/ BeginRound
  \/ EndOrder
  \/ \E p \in Phase : Append1(p) \/ SkipPhase(p) \/ StartPhase(p)
  \/ \E outcome \in Outcome, stops \in BOOLEAN : EndPhase(outcome, stops)
  \/ PausePhase
  \/ EndWalk

PhaseDagNext ==
  \/ LoopStep
  \/ Raise
  \/ \E graph \in PhaseGraph : Load(graph)

PhaseDagSpec == PhaseDagInit /\ [][PhaseDagNext]_dagVars

\* A phase that runs comes to an end: its model calls and commands have timeouts, and
\* a human who pauses a run resumes it.
FairPhaseDagSpec == PhaseDagSpec /\ WF_dagVars(LoopStep)

----------------------------------------------------------------------------
(* Properties *)

\* Phases that can never be ordered: some set of phases that all wait for one of the set.
Stuck == UNION {X \in SUBSET Phase : \A p \in X : parents[p] \cap X # {}}

\* The order is topological: a phase comes after all it depends on (phase_order, epic.py:419).
OrderIsTopological ==
  \A i \in 1..Len(ordered) : parents[ordered[i]] \subseteq {ordered[j] : j \in 1..(i - 1)}

\* What phase_order leaves over is exactly what no order could place, and it is reported blocked.
LeftoverIsStuck ==
  stage \in {"walking", "ended", "stopped", "paused"} =>
    /\ Leftover = Stuck
    /\ \A p \in Leftover : status[p] = "blocked"

\* A phase runs, or completes, only on a single parent that met its goal, and so do all below it:
\* run_epic looks at `complete` once per phase, in the computed order (epic.py:1187).
RunsOnCompleteParents ==
  \A p \in Phase : (p = running \/ status[p] \in {"complete", "partial", "awaiting_land"})
    => parents[p] \subseteq Complete /\ Cardinality(parents[p]) <= 1

\* A run that was not cut short has reported on every phase, those it never ran included.
EveryPhaseIsReported == stage = "ended" => \A p \in Phase : status[p] # "none"

\* The order is found or given up on and the loop ends, whatever the graph (epic.py:430, 1187).
LoopEnds == [](stage = "ordering" => <>(stage \in Ends))
=============================================================================
