-------------------------------- MODULE Cos --------------------------------
(***************************************************************************)
(* The chief of staff (harness/cos.py, graphs/ops/coxswain.py, the cos arm *)
(* of harness/cli.py): it reads what is on hand into a docket, a model     *)
(* selects graphs of the docket, the driver invokes as many as were free   *)
(* through FanOut, marks the ideas it decomposed as handled, and hands the *)
(* proposals to the gate.  Detached runs come and go meanwhile, and leave  *)
(* their pid files; the process may be killed between two of its steps.    *)
(***************************************************************************)
EXTENDS FanOut

CONSTANTS
  Items,         \* ideas of the intake, in the order of their names
  Runs,          \* detached runs that may leave a pid file
  Registry,      \* the graphs the registry offers
  MaxInFlight,   \* policy.dispatch.max_in_flight
  MaxPicks,      \* bound: selections of one answer
  MaxDispatches  \* bound: starts of the dispatcher

ASSUME CosAssumption ==
  /\ Items \subseteq Nat \ {0} /\ IsFiniteSet(Items) /\ IsFiniteSet(Runs)
  /\ MaxInFlight \in Nat

VARIABLES
  intake,   \* per idea: absent, queued, consumed
  run,      \* per detached run: none, alive, gone, dead, reused (its pid names another process)
  alerts,   \* whether the caller has alerts in hand
  usage,    \* the verdict of the usage window
  docket,   \* what the dispatcher read
  cpc,      \* where the dispatcher is
  queue,    \* the ideas run_cos read
  held,     \* per invocation: the idea it decomposes, or 0
  gated,    \* ideas whose proposals reached the gate
  ran,      \* per idea: how often a decompose of it has finished
  stops,    \* dispatches that did not come back from their fan-out, or died
  started,  \* detached runs started since the docket
  n         \* dispatches so far

cosVars == <<intake, run, alerts, usage, docket, cpc, queue, held, gated, ran, stops, started, n>>
dispatchVars == <<fanVars, cosVars>>


Recipes == {"retro", "decompose", "triage"}
NoDocket == [runnable |-> {}, free |-> 0, alive |-> 0]

Queued == {i \in Items : intake[i] = "queued"}
\* The ideas of S, by their names.
InOrder(S) == [i \in 1..Cardinality(S) |-> CHOOSE x \in S : Cardinality({y \in S : y < x}) = i - 1]
Alive == {r \in Runs : run[r] = "alive"}

\* A pid file whose process answers: a reused pid answers too.
PidAlive == {r \in Runs : run[r] \in {"alive", "reused"}}
LessNotNeg(a, b) == IF a > b THEN a - b ELSE 0
Lesser(a, b) == IF a < b THEN a ELSE b

FreeSlots(alive) == LessNotNeg(MaxInFlight, alive)

\* Mutant: a stop of the usage window does not empty the slots.
GatedFreeSlotsUngated(alive) == FreeSlots(alive)

GatedFreeSlots(alive) == IF usage = "stop" THEN 0 ELSE FreeSlots(alive)

Offered ==
  {"retro"} \cup (IF Queued # {} THEN {"decompose", "sweep"} ELSE {})
            \cup (IF alerts THEN {"triage"} ELSE {})
Runnable == Offered \cap Registry

-----------------------------------------------------------------------------
CosInit ==
  /\ FanInit
  /\ intake \in [Items -> {"absent", "queued"}] /\ run = [r \in Runs |-> "none"]
  /\ alerts \in BOOLEAN /\ usage \in {"go", "stop"}
  /\ docket = NoDocket /\ cpc = "off" /\ queue = <<>> /\ held = <<>>
  /\ gated = {} /\ ran = [i \in Items |-> 0] /\ stops = 0 /\ started = 0 /\ n = 0

(* The docket: which graphs have their inputs, how many slots are free.    *)
AssembleDocket ==
  /\ cpc = "off" /\ n < MaxDispatches
  /\ n' = n + 1 /\ cpc' = "docket" /\ started' = 0
  /\ docket' = [runnable |-> Runnable, free |-> GatedFreeSlots(Cardinality(PidAlive)),
                alive |-> Cardinality(Alive)]
  /\ UNCHANGED <<fanVars, intake, run, alerts, usage, queue, held, gated, ran, stops>>

(* run_cos reads the intake again, before the model is asked.              *)
ReadIntake ==
  /\ cpc = "docket"
  /\ queue' = InOrder(Queued) /\ cpc' = "read"
  /\ UNCHANGED <<fanVars, intake, run, alerts, usage, docket, held, gated, ran, stops, started, n>>

\* The graph refuses a selection of what the docket does not offer.
PicksOffered(chosen) == \A i \in DOMAIN chosen : chosen[i] \in docket.runnable

Decomposes(chosen) == {i \in DOMAIN chosen : chosen[i] = "decompose"}

Allowed(chosen) == SubSeq(chosen, 1, Lesser(Len(chosen), docket.free))

\* Mutant: every decompose takes the first idea.
ItemForFirst(chosen, i) == IF chosen[i] = "decompose" THEN queue[1] ELSE 0

\* The ideas go to the decomposes in the order of the queue.
ItemFor(chosen, i) ==
  IF chosen[i] = "decompose" THEN queue[Cardinality({j \in Decomposes(chosen) : j <= i})] ELSE 0

(* The model answers. A selection past the docket fails the dispatch; so   *)
(* does one the driver has no recipe for, or an idea too many, before      *)
(* anything is invoked.  The first `free_slots` selections are invoked.    *)
Dispatch(chosen) ==
  /\ cpc = "read"
  /\ LET allowed == Allowed(chosen)
     IN IF ~PicksOffered(chosen)
        THEN cpc' = "refused" /\ UNCHANGED <<fanVars, held>>
        ELSE IF \/ \E i \in DOMAIN allowed : allowed[i] \notin Recipes
                \/ Cardinality(Decomposes(allowed)) > Len(queue)
        THEN cpc' = "cos_error" /\ UNCHANGED <<fanVars, held>>
        ELSE /\ held' = [i \in DOMAIN allowed |-> ItemFor(allowed, i)]
             /\ Invoke([i \in DOMAIN allowed |-> [id |-> i, graph |-> allowed[i], own |-> FALSE]])
             /\ cpc' = "invoking"
  /\ UNCHANGED <<intake, run, alerts, usage, docket, queue, gated, ran, stops, started, n>>

(* The fan-out goes on beside; a decompose that finishes has been run.     *)
Fan ==
  /\ cpc = "invoking" /\ (Driver \/ Pool \/ Term)
  /\ ran' = [i \in Items |->
       ran[i] + Cardinality({k \in DOMAIN node : held[k] = i /\ node[k] = "running" /\ node'[k] = "ok"})]
  /\ UNCHANGED <<intake, run, alerts, usage, docket, cpc, queue, held, gated, stops, started, n>>

\* It came back: the ideas are next, or it left run_cos by an exception.
FanReturns ==
  /\ cpc = "invoking" /\ pc = "returned"
  /\ cpc' = "consuming"
  /\ UNCHANGED <<fanVars, intake, run, alerts, usage, docket, queue, held, gated, ran, stops, started, n>>
FanRaises ==
  /\ cpc = "invoking" /\ pc \in {"raised_limit", "raised_bug", "left"}
  /\ cpc' = "raised" /\ stops' = stops + 1
  /\ UNCHANGED <<fanVars, intake, run, alerts, usage, docket, queue, held, gated, ran, started, n>>

\* The ideas whose decompose is not among the failures.
Handled == {held[i] : i \in DOMAIN held \ failures} \ {0}

(* Each is marked handled, one file at a time, in their order.             *)
Consume ==
  /\ cpc = "consuming"
  /\ LET left == {i \in Handled : intake[i] = "queued"}
     IN IF left = {} THEN cpc' = "gating" /\ UNCHANGED intake
        ELSE intake' = [intake EXCEPT ![InOrder(left)[1]] = "consumed"] /\ UNCHANGED cpc
  /\ UNCHANGED <<fanVars, run, alerts, usage, docket, queue, held, gated, ran, stops, started, n>>

(* The proposals of the results go to the policy and the gate.             *)
GateProposals ==
  /\ cpc = "gating"
  /\ gated' = gated \cup Handled /\ cpc' = "done"
  /\ UNCHANGED <<fanVars, intake, run, alerts, usage, docket, queue, held, ran, stops, started, n>>

(* The process is killed while it marks or before it gates.                *)
Die ==
  /\ cpc \in {"consuming", "gating"}
  /\ cpc' = "dead" /\ stops' = stops + 1
  /\ UNCHANGED <<fanVars, intake, run, alerts, usage, docket, queue, held, gated, ran, started, n>>

\* The next dispatch, in a new process.
Again ==
  /\ cpc \in {"done", "refused", "cos_error", "raised", "dead"} /\ n < MaxDispatches
  /\ cpc' = "off" /\ docket' = NoDocket /\ queue' = <<>> /\ held' = <<>>
  /\ batch' = <<>> /\ submitted' = 0 /\ node' = <<>> /\ taken' = {}
  /\ results' = {} /\ failures' = {} /\ pc' = "idle"
  /\ \E u \in {"go", "stop"} : usage' = u
  /\ UNCHANGED <<intake, run, alerts, gated, ran, stops, started, n>>

-----------------------------------------------------------------------------
(* Beside it: an idea arrives; a detached run starts, ends and leaves its  *)
(* pid file, whose number goes to another process.  What happens of this   *)
(* after the intake and the docket are read, the dispatch does not see.    *)
Arrives(i) ==
  /\ intake[i] = "absent" /\ cpc \in {"off", "docket", "read"}
  /\ intake' = [intake EXCEPT ![i] = "queued"]
  /\ UNCHANGED <<fanVars, run, alerts, usage, docket, cpc, queue, held, gated, ran, stops, started, n>>

RunStarts(r) ==
  /\ run[r] = "none" /\ cpc \in {"off", "docket", "read"}
  /\ run' = [run EXCEPT ![r] = "alive"] /\ started' = started + 1
  /\ UNCHANGED <<fanVars, intake, alerts, usage, docket, cpc, queue, held, gated, ran, stops, n>>

RunEnds(r) ==
  /\ run[r] = "alive" /\ cpc \in {"off", "docket", "read"}
  /\ \E after \in {"gone", "dead", "reused"} : run' = [run EXCEPT ![r] = after]
  /\ UNCHANGED <<fanVars, intake, alerts, usage, docket, cpc, queue, held, gated, ran, stops, started, n>>

Chosen == UNION {[1..k -> Registry] : k \in 0..MaxPicks}

CosNext ==
  \/ AssembleDocket \/ ReadIntake \/ Fan \/ FanReturns \/ FanRaises \/ Consume \/ GateProposals \/ Die \/ Again
  \/ \E chosen \in Chosen : Dispatch(chosen)
  \/ \E i \in Items : Arrives(i)
  \/ \E r \in Runs : RunStarts(r) \/ RunEnds(r)

CosSpec == CosInit /\ [][CosNext]_dispatchVars

-----------------------------------------------------------------------------
Invoked == Len(held)

(* The variables hold what the driver's values may hold.                   *)
CosTypeOK ==
  /\ intake \in [Items -> {"absent", "queued", "consumed"}]
  /\ run \in [Runs -> {"none", "alive", "gone", "dead", "reused"}]
  /\ docket.free \in 0..MaxInFlight /\ docket.runnable \subseteq Registry
  /\ \A i \in DOMAIN held : held[i] \in Items \cup {0}
  /\ cpc \in {"off", "docket", "read", "invoking", "consuming", "gating", "done", "refused", "cos_error", "raised", "dead"}
  /\ FanOutTypeOK

(* An idea is marked as handled only when a decompose of it has finished.  *)
(* (run_cos: consumption means processed)                                  *)
ConsumedRan == \A i \in Items : intake[i] = "consumed" => ran[i] > 0

(* One dispatch never gives one idea to two decomposes.  (decompose_queue) *)
OneItemEach == \A i, j \in DOMAIN held : i # j /\ held[i] # 0 => held[i] # held[j]

(* No graph is invoked without the inputs it is there for, though the      *)
(* docket is older than the dispatch: an idea in hand for each decompose,  *)
(* alerts for a triage, and what the registry does not make runnable is    *)
(* never invoked.  (assemble_docket, coxswain.run, run_cos)                *)
NeverPastInputs ==
  cpc = "invoking" =>
    \A i \in DOMAIN batch :
      /\ batch[i].graph = "decompose" => held[i] \in Items /\ intake[held[i]] = "queued"
      /\ batch[i].graph = "triage" => alerts
      /\ batch[i].graph \in docket.runnable

(* What a dispatch invokes fits beside the runs that were alive when the   *)
(* docket was read: the bound is passed only by runs started since, and a  *)
(* stop of the usage window means nothing is invoked.  (_gated_free_slots) *)
FitsTheBound ==
  cpc = "invoking" =>
    /\ Invoked > 0 => Invoked + docket.alive <= MaxInFlight
    /\ Cardinality(Alive) + Invoked <= MaxInFlight + started \/ Invoked = 0
    /\ usage = "stop" => Invoked = 0

(* An idea is decomposed again only after a dispatch that did not come     *)
(* back from its fan-out or was killed: a dispatch that came back has      *)
(* marked every idea it decomposed.  (the consume loop of run_cos)         *)
TwiceOnlyAfterAStop == \A i \in Items : ran[i] > 1 => stops > 0

(* What a dispatch invokes fits: the slots, the window and the inputs.     *)
DispatchFits == CosTypeOK /\ FitsTheBound /\ NeverPastInputs

(* An idea is handled once, and as handled only what was.                  *)
IdeasAreHandledOnce == ConsumedRan /\ OneItemEach /\ TwiceOnlyAfterAStop

-----------------------------------------------------------------------------
(* Every dispatched proposal lands in the gate: an idea that is marked     *)
(* handled has had its proposals gated.  (cli.py:1230)                     *)
ConsumedIsGated ==
  cpc \in {"done", "dead"} => \A i \in Items : intake[i] = "consumed" => i \in gated
=============================================================================
