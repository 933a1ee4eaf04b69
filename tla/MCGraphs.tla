------------------------------ MODULE MCGraphs ------------------------------
(***************************************************************************)
(* Three graphs of steps.  They share no state, and a behaviour is one of  *)
(* one of them, the `program`:                                             *)
(*   phases     every phase graph over three phases: alone, in stacks,     *)
(*              with two parents, with cycles and with phases behind one;  *)
(*   lifecycle  three tickets that bind different seats;                   *)
(*   decompose  every graph on three tasks of two phases, and families of  *)
(*              surfaces, of misspelt phases and of interfaces.            *)
(***************************************************************************)
EXTENDS PhaseDag, Lifecycle, Decompose, TLC

VARIABLE program

-----------------------------------------------------------------------------
(* Tickets of the lifecycle *)

Plain == [bound |-> {"handoff", "review_adversary", "arbitrate"}, compete |-> FALSE, tiers |-> {},
          workItem |-> TRUE, ceiling |-> TRUE, prefixes |-> TRUE]

MCTickets ==
  {Plain,
   [Plain EXCEPT !.bound = {"scope_epic", "competition", "plan_adversary"}, !.compete = TRUE,
                 !.ceiling = FALSE, !.workItem = FALSE],
   [Plain EXCEPT !.bound = {"review_adversary"}, !.tiers = {"review"}]}

-----------------------------------------------------------------------------
(* Plans for decompose *)

Task(phase, needs, surfaces, body) ==
  [phase |-> <<phase, 0>>, needs |-> needs, surfaces |-> surfaces, body |-> body, side |-> "none", repo |-> 1]
Sided(phase, needs, surfaces, side, repo) == [Task(phase, needs, surfaces, "fine") EXCEPT !.side = side, !.repo = repo]

MCNear == [b \in {"p", "q", "typo", "torn", "far"} |->
            CASE b = "typo" -> {"p"} [] b = "torn" -> {"p", "q"} [] OTHER -> {}]

A == <<1>>
B == <<2>>
C == <<3>>
K == <<4>>

\* Every graph on three tasks of two phases, one of which may need a task of elsewhere.
Graphs == {(A :> Task(f[1], a, {"one"}, "fine")) @@ (B :> Task(f[2], b, {"one"}, "fine")) @@ (C :> Task(f[3], c, {"one"}, "fine")) :
            f \in [1..3 -> {"p", "q"}], a \in SUBSET {B, C, K}, b \in SUBSET {A, C}, c \in SUBSET {A, B}}

\* Two tasks, the first with any one or two kinds of surface.
Kinds == {{s, t} : s, t \in Surfaces}
Surfaced == {(A :> Task("p", {}, s, "fine")) @@ (B :> Task("q", n, t, "fine")) : s \in Kinds, t \in {{"test"}, {"two"}}, n \in {{}, {A}}}

\* Two tasks of phases that are right, misspelt, between two, or unknown.
Spelt == {(A :> Task(f, {}, {s}, "fine")) @@ (B :> Task(g, n, {t}, x)) :
           f, g \in {"p", "q", "typo", "torn", "far"}, s, t \in {"test", "one"}, n \in {{}, {A}}, x \in {"fine", "command", "reach"}}

\* An interface between two repositories, with and without its contract.
Interfaces == {(A :> Sided("p", a, {"one"}, "producer", 1)) @@ (B :> Sided("p", b, {"two"}, "consumer", 2)) @@ k :
                a \in {{}, {K}}, b \in {{}, {A}, {K}},
                k \in {Empty} \cup {K :> Sided("p", {}, {s}, "contract", r) : s \in {"json", "one"}, r \in {1, 2}}}

MCPlans == Graphs \cup Surfaced \cup Spelt \cup Interfaces

Edge == {<<A, B>>, <<B, A>>, <<B, C>>, <<C, A>>}
MCChallenges == {[spurious |-> s, missing |-> m] : s, m \in {{}} \cup {{e} : e \in Edge}}

Replace == {Empty} \cup {A :> (s :> t) : s \in {"prose", "new", "one", "test"}, t \in {"one", "two", "gone", "json"}}
Restate == {Empty, A :> Task("p", {B}, {}, "fine"), B :> Task("p", {A}, {}, "fine"),
            K :> Sided("p", {}, {"json", "two"}, "contract", 1)}
           \cup {(A :> Task("p", a, {}, "fine")) @@ (B :> Task("p", {K}, {}, "fine")) @@ (K :> Sided("p", k, {s}, "contract", 1)) :
                  a \in {{K}, {K, B}}, k \in {{}, {B}}, s \in {"json", "new", "gone"}}
MCCorrections == {[surfaces |-> r, tasks |-> t] : r \in Replace, t \in Restate}

MCSizes == {[verdict |-> v, surfaces |-> s, override |-> o, body |-> b] :
             v \in {"task", "epic", "error"}, s \in {{"one"}, {"gone"}, {"one", "two"}},
             o \in {"none", "task", "epic", "bad"}, b \in {"fine", "command", "reach"}}

Mode(t, a, o, s) == [tree |-> t, adversary |-> a, ordinal |-> o, size |-> s]
MCModes == {Mode(TRUE, TRUE, FALSE, FALSE), Mode(TRUE, FALSE, FALSE, TRUE), Mode(FALSE, TRUE, TRUE, TRUE),
            Mode(FALSE, FALSE, TRUE, FALSE)}

-----------------------------------------------------------------------------
all == <<program, dagVars, lifecycleVars, decomposeVars>>

Init ==
  /\ program \in {"phases", "lifecycle", "decompose"}
  /\ PhaseDagInit /\ LifecycleInit /\ DecomposeInit
  /\ program # "phases" => parents = [p \in Phase |-> {}]
  /\ program # "lifecycle" => ticket = Plain
  /\ program # "decompose" => mode = Mode(TRUE, TRUE, FALSE, FALSE)

Phases(step) == program = "phases" /\ step /\ UNCHANGED <<program, lifecycleVars, decomposeVars>>
Lifecycles(step) == program = "lifecycle" /\ step /\ UNCHANGED <<program, dagVars, decomposeVars>>
Decomposes(step) == program = "decompose" /\ step /\ UNCHANGED <<program, dagVars, lifecycleVars>>

Next == Phases(PhaseDagNext) \/ Lifecycles(LifecycleStep) \/ Decomposes(DecomposeNext)

\* The fairness of FairPhaseDagSpec and of FairLifecycleSpec.
Spec ==
  /\ Init /\ [][Next]_all
  /\ WF_all(Phases(LoopStep)) /\ WF_all(Lifecycles(LifecycleStep))

\* The phase loop ends whatever the graph, and a lifecycle ends whatever is answered and
\* however often a session stops at its budget (run_epic, lifecycle_propose.py: _run).
EveryGraphEnds ==
  /\ program = "phases" => LoopEnds
  /\ program = "lifecycle" => LifecycleEnds
=============================================================================
