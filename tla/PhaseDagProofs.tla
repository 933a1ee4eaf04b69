--------------------------- MODULE PhaseDagProofs ---------------------------
(***************************************************************************)
(* The safety of PhaseDag for every set of phases and every phase graph,   *)
(* cyclic ones included.                                                   *)
(***************************************************************************)
EXTENDS PhaseDag, TLAPS

\* Each phase is ordered once.
OrderedOnce == \A i, j \in 1..Len(ordered) : ordered[i] = ordered[j] => i = j

\* A set of phases that wait for each other is never entered.
StuckIsLeft ==
  \A X \in SUBSET Phase : (\A p \in X : parents[p] \cap X # {}) => X \cap Ordered = {}

\* What is in a round stays free until it is appended, and the order ends with nothing free.
RoundIsFree ==
  /\ round \subseteq Free
  /\ stage \in {"walking", "ended", "stopped", "paused"} =>
       Free = {} /\ \A p \in Leftover : status[p] = "blocked"

\* The phases before `next` are reported, those from it on are not.
ReportsInOrder ==
  /\ stage = "ordering" => next = 1 /\ running = NoPhase /\ \A p \in Phase : status[p] = "none"
  /\ \A i \in 1..Len(ordered) : status[ordered[i]] = "none" <=> i >= next
  /\ running # NoPhase => stage = "walking" /\ next <= Len(ordered) /\ running = ordered[next]
  /\ stage = "ended" => next > Len(ordered)

DagInv ==
  /\ PhaseDagTypeOK
  /\ OrderIsTopological
  /\ OrderedOnce
  /\ StuckIsLeft
  /\ RoundIsFree
  /\ ReportsInOrder
  /\ RunsOnCompleteParents

----------------------------------------------------------------------------

\* What a start leaves is a state of the invariant.
LEMMA StartHasDagInv ==
  ASSUME NEW graph \in PhaseGraph, Start(graph)
  PROVE  DagInv'
<1> USE DEF Start
<1>1. PhaseDagTypeOK'
  BY DEF PhaseDagTypeOK, PhaseGraph, Outcome, Ends
<1>2. Ordered' = {}
  BY DEF Ordered
<1>3. OrderIsTopological' /\ OrderedOnce'
  BY DEF OrderIsTopological, OrderedOnce
<1>4. StuckIsLeft'
  BY <1>2 DEF StuckIsLeft
<1>5. RoundIsFree' /\ ReportsInOrder'
  BY DEF RoundIsFree, ReportsInOrder
<1>6. RunsOnCompleteParents'
  BY PhaseDagAssumption DEF RunsOnCompleteParents
<1> QED
  BY <1>1, <1>3, <1>4, <1>5, <1>6 DEF DagInv

LEMMA InitHasDagInv == PhaseDagInit => DagInv
<1> SUFFICES ASSUME PhaseDagInit PROVE DagInv
  OBVIOUS
<1> USE DEF PhaseDagInit
<1>1. PhaseDagTypeOK
  BY DEF PhaseDagTypeOK, PhaseGraph, Outcome, Ends
<1>2. Ordered = {}
  BY DEF Ordered
<1>3. OrderIsTopological /\ OrderedOnce
  BY DEF OrderIsTopological, OrderedOnce
<1>4. StuckIsLeft
  BY <1>2 DEF StuckIsLeft
<1>5. RoundIsFree /\ ReportsInOrder
  BY DEF RoundIsFree, ReportsInOrder
<1>6. RunsOnCompleteParents
  BY PhaseDagAssumption DEF RunsOnCompleteParents
<1> QED
  BY <1>1, <1>3, <1>4, <1>5, <1>6 DEF DagInv

\* The order has one more phase, and all the others keep their places.
LEMMA AppendExtends ==
  ASSUME PhaseDagTypeOK, NEW p \in Phase, ordered' = Append(ordered, p)
  PROVE  /\ Len(ordered') = Len(ordered) + 1
         /\ ordered'[Len(ordered) + 1] = p
         /\ \A i \in 1..Len(ordered) : ordered'[i] = ordered[i]
         /\ Ordered' = Ordered \cup {p}
<1>1. /\ Len(ordered) \in Nat
      /\ Len(ordered') = Len(ordered) + 1
      /\ ordered'[Len(ordered) + 1] = p
      /\ \A i \in 1..Len(ordered) : ordered'[i] = ordered[i]
  BY DEF PhaseDagTypeOK
<1>2. 1..Len(ordered') = 1..Len(ordered) \cup {Len(ordered) + 1}
  BY <1>1
<1> QED
  BY <1>1, <1>2 DEF Ordered

\* Appending a free phase keeps the order topological, free of repetitions and of stuck phases.
LEMMA AppendKeeps ==
  ASSUME DagInv, NEW p \in Phase, Append1(p)
  PROVE  DagInv'
<1>1. /\ p \in Leftover
      /\ parents[p] \subseteq Ordered
      /\ stage = "ordering"
  BY DEF DagInv, RoundIsFree, Append1, Free
<1>2. /\ Len(ordered') = Len(ordered) + 1
      /\ Len(ordered) \in Nat
      /\ ordered'[Len(ordered) + 1] = p
      /\ \A i \in 1..Len(ordered) : ordered'[i] = ordered[i]
      /\ Ordered' = Ordered \cup {p}
  BY AppendExtends DEF DagInv, Append1, PhaseDagTypeOK
<1>3. PhaseDagTypeOK'
  BY DEF DagInv, PhaseDagTypeOK, Append1
<1>4. OrderIsTopological'
  <2> SUFFICES ASSUME NEW i \in 1..Len(ordered')
               PROVE  parents[ordered'[i]] \subseteq {ordered'[j] : j \in 1..(i - 1)}
    BY DEF OrderIsTopological, Append1
  <2>1. CASE i = Len(ordered) + 1
    <3>1. Ordered = {ordered'[j] : j \in 1..(i - 1)}
      BY <1>2, <2>1 DEF Ordered
    <3> QED
      BY <1>1, <1>2, <2>1, <3>1
  <2>2. CASE i \in 1..Len(ordered)
    <3>1. {ordered[j] : j \in 1..(i - 1)} = {ordered'[j] : j \in 1..(i - 1)}
      BY <1>2, <2>2
    <3> QED
      BY <1>2, <2>2, <3>1 DEF DagInv, OrderIsTopological
  <2> QED
    BY <1>2, <2>1, <2>2
<1>5. OrderedOnce'
  <2>1. \A i \in 1..Len(ordered) : ordered[i] # p
    BY <1>1 DEF Leftover, Ordered
  <2> QED
    BY <1>2, <2>1 DEF DagInv, OrderedOnce
<1>6. StuckIsLeft'
  <2> SUFFICES ASSUME NEW X \in SUBSET Phase, \A q \in X : parents[q] \cap X # {}
               PROVE  X \cap Ordered' = {}
    BY DEF StuckIsLeft, Append1
  <2>1. X \cap Ordered = {}
    BY DEF DagInv, StuckIsLeft
  <2>2. p \notin X
    BY <1>1, <2>1
  <2> QED
    BY <1>2, <2>1, <2>2
<1>7. RoundIsFree'
  BY <1>1, <1>2 DEF DagInv, RoundIsFree, Append1, Free, Leftover
<1>8. ReportsInOrder'
  <2>1. \A i \in 1..Len(ordered') : i >= next /\ ordered'[i] \in Phase
    BY <1>1, <1>2, <1>3 DEF DagInv, ReportsInOrder, PhaseDagTypeOK
  <2> QED
    BY <1>1, <2>1 DEF DagInv, ReportsInOrder, Append1
<1>9. RunsOnCompleteParents'
  BY DEF DagInv, RunsOnCompleteParents, Complete, Append1
<1> QED
  BY <1>3, <1>4, <1>5, <1>6, <1>7, <1>8, <1>9 DEF DagInv

\* While the order stands, only what concerns the walk has to be shown.
LEMMA OrderStands ==
  ASSUME DagInv, UNCHANGED <<parents, ordered>>
  PROVE  /\ OrderIsTopological' /\ OrderedOnce' /\ StuckIsLeft'
         /\ Ordered' = Ordered /\ Leftover' = Leftover /\ Free' = Free
<1>1. Ordered' = Ordered /\ Leftover' = Leftover /\ Free' = Free
  BY DEF Ordered, Leftover, Free
<1>2. OrderIsTopological'
  BY DEF DagInv, OrderIsTopological
<1>3. OrderedOnce' /\ StuckIsLeft'
  BY <1>1 DEF DagInv, OrderedOnce, StuckIsLeft
<1> QED
  BY <1>1, <1>2, <1>3

\* A report of the phase at `next` disturbs no other report, and takes nothing from Complete.
LEMMA ReportKeeps ==
  ASSUME DagInv, NEW p \in Phase, NEW outcome \in Outcome,
         stage = "walking", next <= Len(ordered), p = ordered[next],
         status' = [status EXCEPT ![p] = outcome], next' = next + 1,
         stage' \in {"walking", "stopped"}, running' = NoPhase,
         outcome # "blocked" => parents[p] \subseteq Complete /\ Cardinality(parents[p]) <= 1,
         UNCHANGED <<parents, ordered, round>>
  PROVE  DagInv'
<1>0. /\ next \in 1..Len(ordered)
      /\ status \in [Phase -> Outcome \cup {"none"}]
      /\ \A i \in 1..Len(ordered) : ordered[i] \in Phase
  BY DEF DagInv, PhaseDagTypeOK
<1>1. PhaseDagTypeOK'
  BY <1>0 DEF DagInv, PhaseDagTypeOK, Ends
<1>2. \A i \in 1..Len(ordered) : i # next => ordered[i] # p
  BY <1>0 DEF DagInv, OrderedOnce
<1>3. status[p] = "none" /\ status'[p] # "none" /\ p \in Ordered
  BY <1>0 DEF DagInv, ReportsInOrder, Ordered, Outcome
<1>4. Complete \subseteq Complete'
  BY <1>0, <1>3 DEF Complete
<1>5. RoundIsFree'
  BY <1>0, <1>3, OrderStands DEF DagInv, RoundIsFree, Leftover
<1>6. ReportsInOrder'
  <2>1. \A i \in 1..Len(ordered) : status'[ordered[i]] = "none" <=> i >= next'
    <3> SUFFICES ASSUME NEW i \in 1..Len(ordered)
                 PROVE  status'[ordered[i]] = "none" <=> i >= next'
      OBVIOUS
    <3>1. CASE i = next
      BY <1>0, <1>3, <3>1
    <3>2. CASE i # next
      <4>1. status'[ordered[i]] = status[ordered[i]]
        BY <1>0, <1>2, <3>2
      <4>2. i >= next <=> i >= next + 1
        BY <1>0, <3>2
      <4> QED
        BY <4>1, <4>2 DEF DagInv, ReportsInOrder
    <3> QED
      BY <3>1, <3>2
  <2> QED
    BY <2>1 DEF ReportsInOrder
<1>7. RunsOnCompleteParents'
  <2> SUFFICES ASSUME NEW q \in Phase, status'[q] \in {"complete", "partial", "awaiting_land"}
               PROVE  parents[q] \subseteq Complete' /\ Cardinality(parents[q]) <= 1
    BY PhaseDagAssumption DEF RunsOnCompleteParents
  <2>1. CASE q = p
    BY <1>0, <1>4, <2>1
  <2>2. CASE q # p
    BY <1>0, <1>4, <2>2 DEF DagInv, RunsOnCompleteParents
  <2> QED
    BY <2>1, <2>2
<1> QED
  BY <1>1, <1>5, <1>6, <1>7, OrderStands DEF DagInv

LEMMA StepKeepsDagInv == DagInv /\ [PhaseDagNext]_dagVars => DagInv'
<1> SUFFICES ASSUME DagInv, [PhaseDagNext]_dagVars PROVE DagInv'
  OBVIOUS
<1> USE PhaseDagAssumption
<1>1. CASE BeginRound
  <2>1. PhaseDagTypeOK' /\ RoundIsFree'
    BY <1>1, OrderStands DEF DagInv, BeginRound, PhaseDagTypeOK, RoundIsFree, Free, Leftover
  <2>2. ReportsInOrder' /\ RunsOnCompleteParents'
    BY <1>1 DEF DagInv, BeginRound, ReportsInOrder, RunsOnCompleteParents, Complete
  <2> QED
    BY <1>1, <2>1, <2>2, OrderStands DEF DagInv, BeginRound
<1>2. CASE EndOrder
  <2>0. /\ \A p \in Phase : status[p] = "none"
        /\ next = 1 /\ running = NoPhase
        /\ \A i \in 1..Len(ordered) : ordered[i] \in Phase /\ ordered[i] \in Ordered /\ i >= 1
    BY <1>2 DEF DagInv, EndOrder, ReportsInOrder, PhaseDagTypeOK, Ordered
  <2>1. PhaseDagTypeOK'
    BY <1>2 DEF DagInv, EndOrder, PhaseDagTypeOK, Outcome
  <2>2. RoundIsFree'
    BY <1>2, OrderStands DEF DagInv, EndOrder, RoundIsFree, Leftover
  <2>3. ReportsInOrder'
    BY <1>2, <2>0 DEF EndOrder, ReportsInOrder, Leftover
  <2>4. RunsOnCompleteParents'
    BY <1>2, <2>0 DEF EndOrder, RunsOnCompleteParents
  <2> QED
    BY <1>2, <2>1, <2>2, <2>3, <2>4, OrderStands DEF DagInv, EndOrder
<1>3. ASSUME NEW p \in Phase, Append1(p)
      PROVE  DagInv'
  BY <1>3, AppendKeeps
<1>4. ASSUME NEW p \in Phase, SkipPhase(p)
      PROVE  DagInv'
  <2>1. running' = NoPhase /\ stage' = "walking"
    BY <1>4 DEF SkipPhase, AtPhase
  <2> QED
    BY <1>4, <2>1, ReportKeeps DEF SkipPhase, AtPhase, Outcome
<1>5. ASSUME NEW p \in Phase, StartPhase(p)
      PROVE  DagInv'
  <2> USE <1>5
  <2>1. PhaseDagTypeOK' /\ RoundIsFree'
    BY OrderStands DEF DagInv, StartPhase, AtPhase, PhaseDagTypeOK, RoundIsFree
  <2>2. ReportsInOrder'
    BY DEF DagInv, StartPhase, AtPhase, ReportsInOrder
  <2>3. RunsOnCompleteParents'
    BY DEF DagInv, StartPhase, Runnable, RunsOnCompleteParents, Complete
  <2> QED
    BY <2>1, <2>2, <2>3, OrderStands DEF DagInv, StartPhase
<1>6. ASSUME NEW outcome \in Outcome, NEW stops \in BOOLEAN, EndPhase(outcome, stops)
      PROVE  DagInv'
  <2>1. /\ running \in Phase
        /\ stage = "walking" /\ next <= Len(ordered) /\ running = ordered[next]
        /\ parents[running] \subseteq Complete /\ Cardinality(parents[running]) <= 1
    BY <1>6 DEF DagInv, EndPhase, ReportsInOrder, PhaseDagTypeOK, RunsOnCompleteParents
  <2>2. stage' \in {"walking", "stopped"} /\ running' = NoPhase
    BY <1>6, <2>1 DEF EndPhase
  <2> QED
    BY <1>6, <2>1, <2>2, ReportKeeps DEF EndPhase
<1>7. ASSUME PausePhase \/ EndWalk \/ Raise
      PROVE  DagInv'
  <2>1. /\ UNCHANGED <<parents, ordered, round, next, status>>
        /\ running' = NoPhase
        /\ stage' \in {"paused", "ended", "raised"}
        /\ stage' # "raised" => stage = "walking"
        /\ stage' = "ended" => next > Len(ordered)
    BY <1>7 DEF DagInv, PausePhase, EndWalk, Raise, ReportsInOrder
  <2>2. PhaseDagTypeOK' /\ RoundIsFree'
    BY <2>1, OrderStands DEF DagInv, PhaseDagTypeOK, RoundIsFree, Ends
  <2>3. ReportsInOrder' /\ RunsOnCompleteParents'
    BY <2>1 DEF DagInv, ReportsInOrder, RunsOnCompleteParents, Complete
  <2> QED
    BY <2>1, <2>2, <2>3, OrderStands DEF DagInv
<1>8. ASSUME NEW graph \in PhaseGraph, Load(graph)
      PROVE  DagInv'
  BY <1>8, StartHasDagInv DEF Load
<1>9. CASE UNCHANGED dagVars
  <2>1. /\ UNCHANGED <<parents, ordered>>
        /\ UNCHANGED <<round, stage, next, running, status>>
    BY <1>9 DEF dagVars
  <2> QED
    BY <2>1, OrderStands DEF DagInv, PhaseDagTypeOK, RoundIsFree, ReportsInOrder,
                             RunsOnCompleteParents, Complete
<1> QED
  BY <1>1, <1>2, <1>3, <1>4, <1>5, <1>6, <1>7, <1>8, <1>9 DEF PhaseDagNext, LoopStep

\* Every reachable state of the loop satisfies the invariant.
THEOREM DagInvariant == PhaseDagSpec => []DagInv
BY InitHasDagInv, StepKeepsDagInv, PTL DEF PhaseDagSpec

----------------------------------------------------------------------------

\* The loop's variables stay in their types.
THEOREM PhaseDagTypeCorrect == PhaseDagSpec => []PhaseDagTypeOK
<1>1. DagInv => PhaseDagTypeOK
  BY DEF DagInv
<1> QED
  BY <1>1, DagInvariant, PTL

\* phase_order returns a topological order of whatever it orders.
THEOREM OrdersAreTopological == PhaseDagSpec => []OrderIsTopological
<1>1. DagInv => OrderIsTopological
  BY DEF DagInv
<1> QED
  BY <1>1, DagInvariant, PTL

\* phase_order leaves over exactly the phases no order could place: it gives up on none too many.
THEOREM LeftoversAreStuck == PhaseDagSpec => []LeftoverIsStuck
<1>1. DagInv => LeftoverIsStuck
  <2> SUFFICES ASSUME DagInv, stage \in {"walking", "ended", "stopped", "paused"}
               PROVE  Leftover = Stuck
    BY DEF DagInv, RoundIsFree, LeftoverIsStuck
  <2>1. ASSUME NEW p \in Leftover
        PROVE  parents[p] \cap Leftover # {}
    <3>1. ~(parents[p] \subseteq Ordered) /\ parents[p] \subseteq Phase
      BY DEF DagInv, RoundIsFree, Free, Leftover, PhaseDagTypeOK
    <3> QED
      BY <3>1 DEF Leftover
  <2>2. Leftover \subseteq Stuck
    BY <2>1 DEF Stuck, Leftover
  <2>3. Stuck \subseteq Leftover
    BY DEF DagInv, StuckIsLeft, Stuck, Leftover
  <2> QED
    BY <2>2, <2>3
<1> QED
  BY <1>1, DagInvariant, PTL

\* No phase runs or completes unless the one phase below it completed.
THEOREM RunsAreOnCompleteParents == PhaseDagSpec => []RunsOnCompleteParents
<1>1. DagInv => RunsOnCompleteParents
  BY DEF DagInv
<1> QED
  BY <1>1, DagInvariant, PTL

\* A run that came to its end has a record of every phase.
THEOREM PhasesAreReported == PhaseDagSpec => []EveryPhaseIsReported
<1>1. DagInv => EveryPhaseIsReported
  <2> SUFFICES ASSUME DagInv, stage = "ended", NEW p \in Phase
               PROVE  status[p] # "none"
    BY DEF EveryPhaseIsReported
  <2>1. CASE p \in Leftover
    BY <2>1 DEF DagInv, RoundIsFree
  <2>2. CASE p \in Ordered
    <3>1. PICK i \in 1..Len(ordered) : p = ordered[i]
      BY <2>2 DEF Ordered
    <3>2. ~(i >= next)
      BY <3>1 DEF DagInv, ReportsInOrder, PhaseDagTypeOK
    <3> QED
      BY <3>1, <3>2 DEF DagInv, ReportsInOrder
  <2> QED
    BY <2>1, <2>2 DEF Leftover
<1> QED
  BY <1>1, DagInvariant, PTL
=============================================================================
