---------------------------- MODULE GraphsProofs ----------------------------
(***************************************************************************)
(* Proofs about the lifecycle graph: the record of a run is true of the    *)
(* build it holds, and the fix loop keeps its own rules, for any tickets,  *)
(* any claims an adversary may raise, any budget and any number of fix     *)
(* attempts; and about initiative-decompose: what it proposes can be       *)
(* worked on and nothing of it is guessed, for any plans, challenges and   *)
(* corrections.                                                            *)
(***************************************************************************)
EXTENDS Lifecycle, Decompose, FiniteSetTheorems, SequenceTheorems, WellFoundedInduction, TLAPS

-----------------------------------------------------------------------------
(* The records of the state. *)
Early == {"scope", "plan", "compete", "attack"}
Building == {"build", "resume", "stop", "built"}
Judging == {"handoff", "charter", "adversary", "judge"}
Places == Early \cup Building \cup Judging \cup {"loop", "finish", "done"}
Outcomes == {"none", "record", "infra", "contract"} \cup Failures
Sites == {"first", "cut", "invalid", "retry"}
StopRecord ==
  [index : -1..(Fractions - 1), patch : {"empty", "inside", "outside"},
   session : BOOLEAN, grew : BOOLEAN, checks : BOOLEAN]
ResumeRecord == [site : Sites, stop : StopRecord, conts : Nat, prev : BOOLEAN]
Planners == {"none", "plan", "plan_alternative", "plan_arbitrate"}
PlanRecord == [author : Planners, reviser : Planners, by : Planners]
SessionRecord == [spent : 0..Ceiling, ckpt : 0..Fractions]
BuildRecord == [id : Nat, patch : Patch]
JudgedRecord ==
  [of : Nat, tier : 0..2, handoff : {"none", "complete", "incomplete"}, charter : Reviews \cup {"none"},
   adversary : Reviews \cup {"none"}, claims : SUBSET Claims, arbiter : Verdict \cup {"none"},
   scope : {"none", "any", "files"}]
StopReasons ==
  {"none", "checkpoint", "budget", "patch_truncated", "build_output_invalid", "no_progress", "harness fault",
   "objection_standing", "attempts_exhausted"}
LoopRecord ==
  [verdict : Verdict \cup {"none"}, halves : Int, standing : SUBSET Claims, stopped : StopReasons,
   frozen : BOOLEAN, silent : BOOLEAN, prior : BOOLEAN]
ResultRecord ==
  [scope : {"none", "scoped", "files"}, proposals : SUBSET {"item_create", "draft_pr_create"}, attempts : Int]
SeenRecord == [sent : Nat, escalated : SUBSET Nat, raised : [Claims -> Nat]]

LifeTypes ==
  /\ ticket \in Tickets /\ place \in Places /\ outcome \in Outcomes
  /\ plan \in PlanRecord /\ session \in SessionRecord /\ resume \in ResumeRecord
  /\ build \in BuildRecord /\ answer \in Answers
  /\ judged \in JudgedRecord /\ loop \in LoopRecord
  /\ record \in ResultRecord /\ seen \in SeenRecord

\* The seat that wrote the plan is the one it names, and nobody revised it before the attack.
PlanInv ==
  /\ plan.author = plan.by
  /\ place \in Early => plan.reviser = "none"
  /\ RevisedByItsAuthor

\* The half attempts count the changes sent back, two for each that was judged.
CountInv ==
  /\ resume.site = "retry" <=> seen.sent > 0
  /\ seen.sent = 0 => loop.halves = 2 /\ loop.standing = {}
  /\ loop.halves >= 2 /\ loop.halves <= 2 * FixAttempts + 2
  /\ place \in Early => seen.sent = 0 /\ resume.site = "first"
  /\ seen.sent > 0 =>
       /\ place \in Building => loop.halves <= 2 * FixAttempts
       /\ place \in Judging => loop.halves >= 4
       /\ place \in {"loop", "finish"} => loop.halves >= 3
       /\ place = "loop" => loop.prior \/ loop.halves >= 4
  /\ EscalatesOnce

\* What a whole round said of the build at hand: an approval by all who are bound.
Whole ==
  /\ Bound("handoff") => judged.handoff = "complete"
  /\ (judged.tier >= 1 /\ Bound("review_adversary")) => judged.adversary # "none"
  /\ IF judged.arbiter # "none" THEN judged.arbiter = "approve"
     ELSE /\ ~ArbiterNeeded
          /\ {judged.charter, judged.adversary} \subseteq {"approve", "abstain", "none"}
          /\ {judged.charter, judged.adversary} \cap {"approve"} # {}

\* How far the round has got at each place of it.
RoundInv ==
  /\ judged.of = build.id
  /\ place \in Early \cup Building \cup {"handoff", "charter", "adversary"} => judged.claims = {}
  /\ place \in {"handoff", "charter"} => judged.arbiter = "none" /\ judged.adversary = "none"
  /\ place = "adversary" => judged.arbiter = "none"
  /\ place \in {"charter", "adversary", "judge"} /\ Bound("handoff") => judged.handoff = "complete"
  /\ (place = "judge" /\ judged.tier >= 1 /\ Bound("review_adversary")) => judged.adversary # "none"
  /\ place \in {"adversary", "judge"} => judged.charter \in Reviews

\* Nothing is approved before a whole round said so, and nothing sent back against a silence.
VerdictInv ==
  /\ place \in Early \cup Building \cup Judging => loop.verdict # "approve"
  /\ place \in {"loop", "finish"} /\ loop.verdict = "approve" => Whole
  /\ place = "loop" =>
       loop.frozen \/ loop.silent \/ judged.handoff = "incomplete" \/ Usable(judged.charter) \/ Usable(judged.adversary)

\* A draft PR is proposed by the last step only.
EndInv ==
  /\ outcome = "record" => place = "done"
  /\ place # "done" => "draft_pr_create" \notin record.proposals
  /\ "draft_pr_create" \in record.proposals => Whole /\ (record.attempts > 0 <=> seen.sent > 0)

\* An objection that was raised stands, and one raised again is about to end the loop.
RaisedInv ==
  /\ \A c \in Claims : seen.raised[c] > 0 => c \in loop.standing \cup judged.claims
  /\ place \notin {"judge", "finish", "done"} => \A c \in Claims : seen.raised[c] <= 1
  /\ place = "judge" => \A c \in Claims : seen.raised[c] > 1 => c \in loop.standing \cap judged.claims
  /\ place = "finish" \/ outcome = "record" =>
       loop.verdict = "approve" \/ (\A c \in Claims : seen.raised[c] <= 1)
       \/ loop.stopped \in {"objection_standing", "harness fault"}

LifeInv == LifeTypes /\ PlanInv /\ CountInv /\ RoundInv /\ VerdictInv /\ EndInv /\ RaisedInv

LEMMA FirstAnswersAre ==
  NoAnswer \in Answers /\ FirstAnswers \subseteq Answers
<1>1. \A p \in Patch : [NoAnswer EXCEPT !.patch = p] \in Answers
  BY DEF NoAnswer, Answers
<1>2. NoAnswer \in Answers
  BY DEF NoAnswer, Answers, Patch
<1> QED BY <1>1, <1>2 DEF FirstAnswers

\* What is in a record of the loop.
LEMMA LoopIs ==
  ASSUME NEW l \in LoopRecord
  PROVE  /\ l.verdict \in Verdict \cup {"none"} /\ l.halves \in Int /\ l.standing \in SUBSET Claims
         /\ l.stopped \in StopReasons /\ l.frozen \in BOOLEAN /\ l.silent \in BOOLEAN /\ l.prior \in BOOLEAN
  BY DEF LoopRecord

\* What a stop of the runner may hold.
LEMMA StopsAre == Stops \subseteq StopRecord /\ NoStop \in StopRecord
<1>1. Stops \subseteq StopRecord
  BY DEF Stops, StopRecord
<1>2. NoStop \in StopRecord
  BY DEF NoStop, StopRecord, Fractions
<1> QED BY <1>1, <1>2

-----------------------------------------------------------------------------
(* The branches of the actions that decide. *)
HandoffStops ==
  /\ place = "handoff" /\ EndWith("contract")
  /\ UNCHANGED <<ticket, plan, session, resume, build, answer, judged, loop, record, seen>>
HandoffPasses ==
  /\ place = "handoff" /\ place' = "charter"
  /\ judged' = [judged EXCEPT !.handoff = "complete"]
  /\ loop' = [loop EXCEPT !.prior = FALSE]
  /\ UNCHANGED <<ticket, outcome, plan, session, resume, build, answer, record, seen>>
HandoffSendsBack ==
  /\ place = "handoff" /\ place' = "loop"
  /\ judged' = [judged EXCEPT !.handoff = "incomplete"]
  /\ loop' = [loop EXCEPT !.prior = TRUE, !.verdict = "revise",
              !.halves = IF resume.site = "retry" THEN @ - 1 ELSE @]
  /\ UNCHANGED <<ticket, outcome, plan, session, resume, build, answer, record, seen>>
LEMMA HandoffSplits == Handoff => HandoffStops \/ HandoffPasses \/ HandoffSendsBack
  BY Zenon DEF Handoff, HandoffStops, HandoffPasses, HandoffSendsBack, EndWith

DropRetry ==
  /\ place = "built" /\ resume.site = "retry" /\ place' = "finish"
  /\ loop' = [loop EXCEPT !.halves = @ + 2, !.stopped = "no_progress"]
  /\ record' = [record EXCEPT !.scope = IF judged.scope = "none" THEN "none" ELSE "files"]
  /\ answer' = NoAnswer
  /\ UNCHANGED <<ticket, outcome, plan, session, resume, build, judged, seen>>
KeepRetry ==
  /\ place = "built" /\ resume.site = "retry" /\ place' = AfterBuild
  /\ loop' = [loop EXCEPT !.halves = @ + 2]
  /\ record' = [record EXCEPT !.scope = IF judged.scope = "none" THEN "none" ELSE "files"]
  /\ TakeBuild /\ judged' = [NoRound EXCEPT !.of = Attempt]
  /\ UNCHANGED <<ticket, outcome, plan, session, resume, seen>>
LEMMA TakeRetrySplits == TakeRetry => DropRetry \/ KeepRetry
  BY Zenon DEF TakeRetry, DropRetry, KeepRetry

\* The end of a round, with its verdict and what stops the loop.
EndRound(verdict, why) ==
  /\ place = "judge" /\ ~(ArbiterNeeded /\ judged.arbiter = "none")
  /\ loop' = [loop EXCEPT !.verdict = verdict, !.silent = Silent, !.stopped = why]
  /\ UNCHANGED <<ticket, outcome, plan, session, resume, build, answer, judged, record, seen>>

LEMMA LifeInitInv == LifecycleInit => LifeInv
<1> SUFFICES ASSUME LifecycleInit PROVE LifeInv
  OBVIOUS
<1> USE LifecycleAssumption DEF LifecycleInit
<1>1. LifeTypes
  <2>1. resume \in ResumeRecord
    BY DEF ResumeRecord, StopRecord, NoStop, Sites, Fractions
  <2>2. judged \in JudgedRecord /\ build \in BuildRecord /\ answer \in Answers
    BY DEF JudgedRecord, NoRound, Reviews, BuildRecord, Patch, Answers, NoAnswer
  <2>3. session \in SessionRecord
    BY DEF SessionRecord, Fractions
  <2>5. plan \in PlanRecord
    BY DEF PlanRecord, Planners
  <2>6. loop \in LoopRecord
    BY DEF LoopRecord, Verdict, StopReasons
  <2>4. record \in ResultRecord /\ seen \in SeenRecord
    BY DEF ResultRecord, SeenRecord
  <2> QED BY <2>1, <2>2, <2>3, <2>4, <2>5, <2>6 DEF LifeTypes, Places, Early, Outcomes
<1>2. PlanInv /\ CountInv
  BY DEF PlanInv, RevisedByItsAuthor, CountInv, EscalatesOnce, Early, Building, Judging
<1>3. RoundInv /\ VerdictInv /\ EndInv /\ RaisedInv
  BY DEF RoundInv, VerdictInv, EndInv, RaisedInv, NoRound, Early, Building, Judging
<1> QED BY <1>1, <1>2, <1>3 DEF LifeInv

\* The verdict of a round that was not silent.
LEMMA RoundVerdictIs ==
  ASSUME LifeInv, place = "judge", ~(ArbiterNeeded /\ judged.arbiter = "none"), ~Silent
  PROVE  RoundVerdict \in Verdict /\ (RoundVerdict = "approve" => Whole)
<1> USE DEF LifeInv
<1>1. /\ judged.charter \in Reviews /\ judged.adversary \in Reviews \cup {"none"}
      /\ judged.arbiter \in Verdict \cup {"none"}
      /\ Bound("handoff") => judged.handoff = "complete"
      /\ (judged.tier >= 1 /\ Bound("review_adversary")) => judged.adversary # "none"
  BY DEF RoundInv, LifeTypes, JudgedRecord
<1>2. Usable(judged.charter) \/ Usable(judged.adversary)
  BY DEF Silent
<1>3. \A said : Usable(said) <=> said \in Verdict
  BY DEF Usable
<1>4. CASE judged.arbiter # "none"
  <2>1. RoundVerdict = judged.arbiter
    BY <1>4 DEF RoundVerdict
  <2> QED BY <1>1, <1>4, <2>1 DEF Whole
<1>5. CASE judged.arbiter = "none" /\ judged.adversary = "none"
  <2>1. RoundVerdict = judged.charter
    BY <1>5 DEF RoundVerdict
  <2>2. judged.charter \in Verdict
    BY <1>2, <1>3, <1>5 DEF Verdict
  <2> QED BY <1>1, <1>5, <2>1, <2>2 DEF Whole, ArbiterNeeded
<1>6. CASE judged.arbiter = "none" /\ judged.adversary # "none"
  <2>1. CASE judged.charter \notin Verdict
    <3>1. judged.adversary \in Verdict /\ judged.charter = "abstain"
      BY <1>1, <1>2, <1>3, <2>1 DEF Reviews
    <3>2. RoundVerdict = judged.adversary
      BY <1>3, <1>6, <2>1, <3>1 DEF RoundVerdict
    <3> QED BY <1>1, <1>6, <3>1, <3>2 DEF Whole
  <2>2. CASE judged.charter \in Verdict /\ judged.adversary \notin Verdict
    <3>1. judged.adversary = "abstain"
      BY <1>1, <1>6, <2>2 DEF Reviews
    <3>2. RoundVerdict = judged.charter
      BY <1>3, <1>6, <2>2 DEF RoundVerdict
    <3> QED BY <1>1, <1>6, <2>2, <3>1, <3>2 DEF Whole
  <2>3. CASE judged.charter \in Verdict /\ judged.adversary \in Verdict
    <3>1. RoundVerdict = IF judged.charter = "approve" /\ judged.adversary = "approve" THEN "approve" ELSE "revise"
      BY <1>3, <1>6, <2>3 DEF RoundVerdict
    <3> QED BY <1>1, <1>6, <3>1 DEF Whole, Verdict
  <2> QED BY <2>1, <2>2, <2>3
<1> QED BY <1>4, <1>5, <1>6

LEMMA ScopeEpicInv ==
  ASSUME LifeInv, ScopeEpic PROVE LifeInv'
<1> USE LifecycleAssumption DEF LifeInv
<1>1. LifeTypes'
  <2>1. record' \in ResultRecord
    BY DEF ScopeEpic, LifeTypes, ResultRecord
  <2> QED BY <2>1 DEF ScopeEpic, EndWith, LifeTypes, Places, Early, Building, Judging, Outcomes, Failures
<1>2. PlanInv'
  BY DEF ScopeEpic, EndWith, PlanInv, RevisedByItsAuthor, Early, LifeTypes, PlanRecord
<1>3. CountInv'
  BY DEF ScopeEpic, EndWith, CountInv, EscalatesOnce, Early, Building, Judging, LifeTypes, LoopRecord, ResumeRecord, SeenRecord
<1>4. RoundInv'
  BY DEF ScopeEpic, EndWith, RoundInv, Bound, Early, Building, Judging, LifeTypes, JudgedRecord, NoRound, BuildRecord
<1>5. VerdictInv'
  BY DEF ScopeEpic, EndWith, VerdictInv, RoundInv, Whole, Bound, ArbiterNeeded, Usable, Early, Building, Judging, LifeTypes, LoopRecord
<1>6. EndInv'
  BY DEF ScopeEpic, EndWith, EndInv, Whole, Bound, ArbiterNeeded, Usable, LifeTypes, ResultRecord
<1>7. RaisedInv'
  BY DEF ScopeEpic, EndWith, RaisedInv, RoundInv, CountInv, LifeTypes, SeenRecord, LoopRecord, JudgedRecord, Early, Building, Judging
<1> QED BY <1>1, <1>2, <1>3, <1>4, <1>5, <1>6, <1>7

LEMMA FirstPlanInv ==
  ASSUME LifeInv, FirstPlan PROVE LifeInv'
<1> USE LifecycleAssumption DEF LifeInv
<1>1. LifeTypes'
  <2>1. plan' \in PlanRecord
    BY DEF FirstPlan, AfterPlan, LifeTypes, PlanRecord, Planners
  <2> QED BY <2>1 DEF FirstPlan, AfterPlan, EndWith, LifeTypes, Places, Early, Building, Judging, Outcomes, Failures
<1>2. PlanInv'
  BY DEF FirstPlan, AfterPlan, EndWith, PlanInv, RevisedByItsAuthor, Early, LifeTypes, PlanRecord
<1>3. CountInv'
  BY DEF FirstPlan, AfterPlan, EndWith, CountInv, EscalatesOnce, Early, Building, Judging, LifeTypes, LoopRecord, ResumeRecord, SeenRecord
<1>4. RoundInv'
  BY DEF FirstPlan, AfterPlan, EndWith, RoundInv, Bound, Early, Building, Judging, LifeTypes, JudgedRecord, NoRound, BuildRecord
<1>5. VerdictInv'
  BY DEF FirstPlan, AfterPlan, EndWith, VerdictInv, RoundInv, Whole, Bound, ArbiterNeeded, Usable, Early, Building, Judging, LifeTypes, LoopRecord
<1>6. EndInv'
  BY DEF FirstPlan, AfterPlan, EndWith, EndInv, Whole, Bound, ArbiterNeeded, Usable, LifeTypes, ResultRecord
<1>7. RaisedInv'
  BY DEF FirstPlan, AfterPlan, EndWith, RaisedInv, RoundInv, CountInv, LifeTypes, SeenRecord, LoopRecord, JudgedRecord, Early, Building, Judging
<1> QED BY <1>1, <1>2, <1>3, <1>4, <1>5, <1>6, <1>7

LEMMA PlanCompetitionInv ==
  ASSUME LifeInv, PlanCompetition PROVE LifeInv'
<1> USE LifecycleAssumption DEF LifeInv
<1>1. LifeTypes'
  <2>1. plan' \in PlanRecord
    BY DEF PlanCompetition, AfterPlan, LifeTypes, PlanRecord, Planners
  <2> QED BY <2>1 DEF PlanCompetition, AfterPlan, EndWith, LifeTypes, Places, Early, Building, Judging, Outcomes, Failures
<1>2. PlanInv'
  BY DEF PlanCompetition, AfterPlan, EndWith, PlanInv, RevisedByItsAuthor, Early, LifeTypes, PlanRecord
<1>3. CountInv'
  BY DEF PlanCompetition, AfterPlan, EndWith, CountInv, EscalatesOnce, Early, Building, Judging, LifeTypes, LoopRecord, ResumeRecord, SeenRecord
<1>4. RoundInv'
  BY DEF PlanCompetition, AfterPlan, EndWith, RoundInv, Bound, Early, Building, Judging, LifeTypes, JudgedRecord, NoRound, BuildRecord
<1>5. VerdictInv'
  BY DEF PlanCompetition, AfterPlan, EndWith, VerdictInv, RoundInv, Whole, Bound, ArbiterNeeded, Usable, Early, Building, Judging, LifeTypes, LoopRecord
<1>6. EndInv'
  BY DEF PlanCompetition, AfterPlan, EndWith, EndInv, Whole, Bound, ArbiterNeeded, Usable, LifeTypes, ResultRecord
<1>7. RaisedInv'
  BY DEF PlanCompetition, AfterPlan, EndWith, RaisedInv, RoundInv, CountInv, LifeTypes, SeenRecord, LoopRecord, JudgedRecord, Early, Building, Judging
<1> QED BY <1>1, <1>2, <1>3, <1>4, <1>5, <1>6, <1>7

LEMMA PlanAttackInv ==
  ASSUME LifeInv, PlanAttack PROVE LifeInv'
<1> USE LifecycleAssumption DEF LifeInv
<1>1. LifeTypes'
  <2>1. plan' \in PlanRecord
    BY DEF PlanAttack, LifeTypes, PlanRecord, Planners
  <2> QED BY <2>1 DEF PlanAttack, EndWith, LifeTypes, Places, Early, Building, Judging, Outcomes, Failures
<1>2. PlanInv'
  BY DEF PlanAttack, EndWith, PlanInv, RevisedByItsAuthor, Early, LifeTypes, PlanRecord
<1>3. CountInv'
  BY DEF PlanAttack, EndWith, CountInv, EscalatesOnce, Early, Building, Judging, LifeTypes, LoopRecord, ResumeRecord, SeenRecord
<1>4. RoundInv'
  BY DEF PlanAttack, EndWith, RoundInv, Bound, Early, Building, Judging, LifeTypes, JudgedRecord, NoRound, BuildRecord
<1>5. VerdictInv'
  BY DEF PlanAttack, EndWith, VerdictInv, RoundInv, Whole, Bound, ArbiterNeeded, Usable, Early, Building, Judging, LifeTypes, LoopRecord
<1>6. EndInv'
  BY DEF PlanAttack, EndWith, EndInv, Whole, Bound, ArbiterNeeded, Usable, LifeTypes, ResultRecord
<1>7. RaisedInv'
  BY DEF PlanAttack, EndWith, RaisedInv, RoundInv, CountInv, LifeTypes, SeenRecord, LoopRecord, JudgedRecord, Early, Building, Judging
<1> QED BY <1>1, <1>2, <1>3, <1>4, <1>5, <1>6, <1>7

LEMMA PlanFailsInv ==
  ASSUME LifeInv, PlanFails PROVE LifeInv'
<1> USE LifecycleAssumption DEF LifeInv
<1>1. LifeTypes'
  BY DEF PlanFails, Unguarded, EndWith, LifeTypes, Places, Early, Building, Judging, Outcomes, Failures
<1>2. PlanInv'
  BY DEF PlanFails, Unguarded, EndWith, PlanInv, RevisedByItsAuthor, Early, LifeTypes, PlanRecord
<1>3. CountInv'
  BY DEF PlanFails, Unguarded, EndWith, CountInv, EscalatesOnce, Early, Building, Judging, LifeTypes, LoopRecord, ResumeRecord, SeenRecord
<1>4. RoundInv'
  BY DEF PlanFails, Unguarded, EndWith, RoundInv, Bound, Early, Building, Judging, LifeTypes, JudgedRecord, NoRound, BuildRecord
<1>5. VerdictInv'
  BY DEF PlanFails, Unguarded, EndWith, VerdictInv, RoundInv, Whole, Bound, ArbiterNeeded, Usable, Early, Building, Judging, LifeTypes, LoopRecord
<1>6. EndInv'
  BY DEF PlanFails, Unguarded, EndWith, EndInv, Whole, Bound, ArbiterNeeded, Usable, LifeTypes, ResultRecord
<1>7. RaisedInv'
  BY DEF PlanFails, Unguarded, EndWith, RaisedInv, RoundInv, CountInv, LifeTypes, SeenRecord, LoopRecord, JudgedRecord, Early, Building, Judging
<1> QED BY <1>1, <1>2, <1>3, <1>4, <1>5, <1>6, <1>7

LEMMA BuildsInv ==
  ASSUME LifeInv, Builds PROVE LifeInv'
<1> USE LifecycleAssumption DEF LifeInv
<1>1. LifeTypes'
  <2>1. answer' \in Answers
    <3>1. answer' \in Answers \/ answer' \in FirstAnswers
      BY DEF Builds
    <3> QED BY <3>1, FirstAnswersAre
  <2>2. resume' \in ResumeRecord
    <3> DEFINE k == IF place = "resume" THEN resume.conts + 1 ELSE resume.conts
           s == NoStop
    <3>1. resume \in ResumeRecord
      BY DEF LifeTypes
    <3>2. resume' = [resume EXCEPT !.conts = k, !.stop = s]
      BY Zenon DEF Builds
    <3>3. k \in Nat /\ s \in StopRecord
      BY <3>1, StopsAre DEF ResumeRecord
    <3> HIDE DEF k, s
    <3> QED BY <3>1, <3>2, <3>3 DEF ResumeRecord
  <2> QED BY <2>1, <2>2 DEF Builds, AtCeiling, FirstAnswers, EndWith, LifeTypes, Places, Early, Building, Judging, Outcomes, Failures
<1>2. PlanInv'
  BY DEF Builds, AtCeiling, FirstAnswers, EndWith, PlanInv, RevisedByItsAuthor, Early, LifeTypes, PlanRecord
<1>3. CountInv'
  BY DEF Builds, AtCeiling, FirstAnswers, EndWith, CountInv, EscalatesOnce, Early, Building, Judging, LifeTypes, LoopRecord, ResumeRecord, SeenRecord
<1>4. RoundInv'
  BY DEF Builds, AtCeiling, FirstAnswers, EndWith, RoundInv, Bound, Early, Building, Judging, LifeTypes, JudgedRecord, NoRound, BuildRecord
<1>5. VerdictInv'
  BY DEF Builds, AtCeiling, FirstAnswers, EndWith, VerdictInv, RoundInv, Whole, Bound, ArbiterNeeded, Usable, Early, Building, Judging, LifeTypes, LoopRecord
<1>6. EndInv'
  BY DEF Builds, AtCeiling, FirstAnswers, EndWith, EndInv, Whole, Bound, ArbiterNeeded, Usable, LifeTypes, ResultRecord
<1>7. RaisedInv'
  BY DEF Builds, AtCeiling, FirstAnswers, EndWith, RaisedInv, RoundInv, CountInv, LifeTypes, SeenRecord, LoopRecord, JudgedRecord, Early, Building, Judging
<1> QED BY <1>1, <1>2, <1>3, <1>4, <1>5, <1>6, <1>7

LEMMA BuildStopsInv ==
  ASSUME LifeInv, BuildStops PROVE LifeInv'
<1> USE LifecycleAssumption DEF LifeInv
<1>1. LifeTypes'
  <2>1. resume' \in ResumeRecord
    <3> DEFINE k == IF place = "resume" THEN resume.conts + 1 ELSE resume.conts
    <3>1. resume \in ResumeRecord
      BY DEF LifeTypes
    <3>2. PICK stop \in Stops : resume' = [resume EXCEPT !.stop = stop, !.conts = k]
      BY Zenon DEF BuildStops
    <3>3. k \in Nat /\ stop \in StopRecord
      BY <3>1, StopsAre DEF ResumeRecord
    <3> HIDE DEF k
    <3> QED BY <3>1, <3>2, <3>3 DEF ResumeRecord
  <2>2. session' \in SessionRecord
    BY DEF BuildStops, AtCeiling, Stops, LifeTypes, SessionRecord, Fractions, StopRecord
  <2> QED BY <2>1, <2>2 DEF BuildStops, AtCeiling, Stops, EndWith, LifeTypes, Places, Early, Building, Judging, Outcomes, Failures
<1>2. PlanInv'
  BY DEF BuildStops, AtCeiling, Stops, EndWith, PlanInv, RevisedByItsAuthor, Early, LifeTypes, PlanRecord
<1>3. CountInv'
  BY DEF BuildStops, AtCeiling, Stops, EndWith, CountInv, EscalatesOnce, Early, Building, Judging, LifeTypes, LoopRecord, ResumeRecord, SeenRecord
<1>4. RoundInv'
  BY DEF BuildStops, AtCeiling, Stops, EndWith, RoundInv, Bound, Early, Building, Judging, LifeTypes, JudgedRecord, NoRound, BuildRecord
<1>5. VerdictInv'
  BY DEF BuildStops, AtCeiling, Stops, EndWith, VerdictInv, RoundInv, Whole, Bound, ArbiterNeeded, Usable, Early, Building, Judging, LifeTypes, LoopRecord
<1>6. EndInv'
  BY DEF BuildStops, AtCeiling, Stops, EndWith, EndInv, Whole, Bound, ArbiterNeeded, Usable, LifeTypes, ResultRecord
<1>7. RaisedInv'
  BY DEF BuildStops, AtCeiling, Stops, EndWith, RaisedInv, RoundInv, CountInv, LifeTypes, SeenRecord, LoopRecord, JudgedRecord, Early, Building, Judging
<1> QED BY <1>1, <1>2, <1>3, <1>4, <1>5, <1>6, <1>7

LEMMA BuildFailsInv ==
  ASSUME LifeInv, BuildFails PROVE LifeInv'
<1> USE LifecycleAssumption DEF LifeInv
<1>1. LifeTypes'
  BY DEF BuildFails, EndWith, LifeTypes, Places, Early, Building, Judging, Outcomes, Failures
<1>2. PlanInv'
  BY DEF BuildFails, EndWith, PlanInv, RevisedByItsAuthor, Early, LifeTypes, PlanRecord
<1>3. CountInv'
  BY DEF BuildFails, EndWith, CountInv, EscalatesOnce, Early, Building, Judging, LifeTypes, LoopRecord, ResumeRecord, SeenRecord
<1>4. RoundInv'
  BY DEF BuildFails, EndWith, RoundInv, Bound, Early, Building, Judging, LifeTypes, JudgedRecord, NoRound, BuildRecord
<1>5. VerdictInv'
  BY DEF BuildFails, EndWith, VerdictInv, RoundInv, Whole, Bound, ArbiterNeeded, Usable, Early, Building, Judging, LifeTypes, LoopRecord
<1>6. EndInv'
  BY DEF BuildFails, EndWith, EndInv, Whole, Bound, ArbiterNeeded, Usable, LifeTypes, ResultRecord
<1>7. RaisedInv'
  BY DEF BuildFails, EndWith, RaisedInv, RoundInv, CountInv, LifeTypes, SeenRecord, LoopRecord, JudgedRecord, Early, Building, Judging
<1> QED BY <1>1, <1>2, <1>3, <1>4, <1>5, <1>6, <1>7

LEMMA ResumeBuildInv ==
  ASSUME LifeInv, ResumeBuild PROVE LifeInv'
<1> USE LifecycleAssumption DEF LifeInv
<1>1. LifeTypes'
  <2>1. resume' \in ResumeRecord
    <3> DEFINE b == resume.prev \/ resume.stop.index >= 0
           s == NoStop
    <3>1. resume \in ResumeRecord
      BY DEF LifeTypes
    <3>2. resume' = [resume EXCEPT !.prev = b, !.stop = s]
      BY Zenon DEF ResumeBuild
    <3>3. b \in BOOLEAN /\ s \in StopRecord
      BY <3>1, StopsAre DEF ResumeRecord
    <3> HIDE DEF b, s
    <3> QED BY <3>1, <3>2, <3>3 DEF ResumeRecord
  <2> QED BY <2>1 DEF ResumeBuild, EndWith, LifeTypes, Places, Early, Building, Judging, Outcomes, Failures
<1>2. PlanInv'
  BY DEF ResumeBuild, EndWith, PlanInv, RevisedByItsAuthor, Early, LifeTypes, PlanRecord
<1>3. CountInv'
  BY DEF ResumeBuild, EndWith, CountInv, EscalatesOnce, Early, Building, Judging, LifeTypes, LoopRecord, ResumeRecord, SeenRecord
<1>4. RoundInv'
  BY DEF ResumeBuild, EndWith, RoundInv, Bound, Early, Building, Judging, LifeTypes, JudgedRecord, NoRound, BuildRecord
<1>5. VerdictInv'
  BY DEF ResumeBuild, EndWith, VerdictInv, RoundInv, Whole, Bound, ArbiterNeeded, Usable, Early, Building, Judging, LifeTypes, LoopRecord
<1>6. EndInv'
  BY DEF ResumeBuild, EndWith, EndInv, Whole, Bound, ArbiterNeeded, Usable, LifeTypes, ResultRecord
<1>7. RaisedInv'
  BY DEF ResumeBuild, EndWith, RaisedInv, RoundInv, CountInv, LifeTypes, SeenRecord, LoopRecord, JudgedRecord, Early, Building, Judging
<1> QED BY <1>1, <1>2, <1>3, <1>4, <1>5, <1>6, <1>7

LEMMA CheckpointStopsBuildInv ==
  ASSUME LifeInv, CheckpointStopsBuild PROVE LifeInv'
<1> USE LifecycleAssumption DEF LifeInv
<1>1. LifeTypes'
  <2>1. build' \in BuildRecord
    BY DEF CheckpointStopsBuild, Attempt, LifeTypes, BuildRecord, Patch, SeenRecord, Answers
  <2>2. judged' \in JudgedRecord
    BY DEF CheckpointStopsBuild, Attempt, LifeTypes, JudgedRecord, NoRound, Reviews, Verdict, SeenRecord
  <2>3. loop' \in LoopRecord
    BY DEF CheckpointStopsBuild, Attempt, LifeTypes, LoopRecord, Verdict, StopReasons
  <2> QED BY <2>1, <2>2, <2>3 DEF CheckpointStopsBuild, Attempt, EndWith, LifeTypes, Places, Early, Building, Judging, Outcomes, Failures
<1>2. PlanInv'
  BY DEF CheckpointStopsBuild, Attempt, EndWith, PlanInv, RevisedByItsAuthor, Early, LifeTypes, PlanRecord
<1>3. CountInv'
  BY DEF CheckpointStopsBuild, Attempt, EndWith, CountInv, EscalatesOnce, Early, Building, Judging, LifeTypes, LoopRecord, ResumeRecord, SeenRecord
<1>4. RoundInv'
  BY DEF CheckpointStopsBuild, Attempt, EndWith, RoundInv, Bound, Early, Building, Judging, LifeTypes, JudgedRecord, NoRound, BuildRecord
<1>5. VerdictInv'
  BY DEF CheckpointStopsBuild, Attempt, EndWith, VerdictInv, RoundInv, Whole, Bound, ArbiterNeeded, Usable, Early, Building, Judging, LifeTypes, LoopRecord
<1>6. EndInv'
  BY DEF CheckpointStopsBuild, Attempt, EndWith, EndInv, Whole, Bound, ArbiterNeeded, Usable, LifeTypes, ResultRecord
<1>7. RaisedInv'
  BY DEF CheckpointStopsBuild, Attempt, EndWith, RaisedInv, RoundInv, CountInv, LifeTypes, SeenRecord, LoopRecord, JudgedRecord, Early, Building, Judging
<1> QED BY <1>1, <1>2, <1>3, <1>4, <1>5, <1>6, <1>7

LEMMA ContinuationRefusedInv ==
  ASSUME LifeInv, ContinuationRefused PROVE LifeInv'
<1> USE LifecycleAssumption DEF LifeInv
<1>1. LifeTypes'
  BY DEF ContinuationRefused, EndWith, LifeTypes, Places, Early, Building, Judging, Outcomes, Failures
<1>2. PlanInv'
  BY DEF ContinuationRefused, EndWith, PlanInv, RevisedByItsAuthor, Early, LifeTypes, PlanRecord
<1>3. CountInv'
  BY DEF ContinuationRefused, EndWith, CountInv, EscalatesOnce, Early, Building, Judging, LifeTypes, LoopRecord, ResumeRecord, SeenRecord
<1>4. RoundInv'
  BY DEF ContinuationRefused, EndWith, RoundInv, Bound, Early, Building, Judging, LifeTypes, JudgedRecord, NoRound, BuildRecord
<1>5. VerdictInv'
  BY DEF ContinuationRefused, EndWith, VerdictInv, RoundInv, Whole, Bound, ArbiterNeeded, Usable, Early, Building, Judging, LifeTypes, LoopRecord
<1>6. EndInv'
  BY DEF ContinuationRefused, EndWith, EndInv, Whole, Bound, ArbiterNeeded, Usable, LifeTypes, ResultRecord
<1>7. RaisedInv'
  BY DEF ContinuationRefused, EndWith, RaisedInv, RoundInv, CountInv, LifeTypes, SeenRecord, LoopRecord, JudgedRecord, Early, Building, Judging
<1> QED BY <1>1, <1>2, <1>3, <1>4, <1>5, <1>6, <1>7

LEMMA RetryStoppedInv ==
  ASSUME LifeInv, RetryStopped PROVE LifeInv'
<1> USE LifecycleAssumption DEF LifeInv
<1>1. LifeTypes'
  <2>1. loop' \in LoopRecord
    <3> DEFINE h == loop.halves + 2
           why == IF resume.stop.index >= 0 THEN "checkpoint" ELSE "budget"
    <3>1. loop \in LoopRecord
      BY DEF LifeTypes
    <3>2. loop' = [loop EXCEPT !.halves = h, !.stopped = why]
      BY Zenon DEF RetryStopped
    <3>3. h \in Int
      BY <3>1, LoopIs
    <3>4. why \in StopReasons
      BY DEF StopReasons
    <3> HIDE DEF h, why
    <3> QED BY <3>1, <3>2, <3>3, <3>4 DEF LoopRecord
  <2> QED BY <2>1 DEF RetryStopped, EndWith, LifeTypes, Places, Early, Building, Judging, Outcomes, Failures
<1>2. PlanInv'
  BY DEF RetryStopped, EndWith, PlanInv, RevisedByItsAuthor, Early, LifeTypes, PlanRecord
<1>3. CountInv'
  BY DEF RetryStopped, EndWith, CountInv, EscalatesOnce, Early, Building, Judging, LifeTypes, LoopRecord, ResumeRecord, SeenRecord
<1>4. RoundInv'
  BY DEF RetryStopped, EndWith, RoundInv, Bound, Early, Building, Judging, LifeTypes, JudgedRecord, NoRound, BuildRecord
<1>5. VerdictInv'
  BY DEF RetryStopped, EndWith, VerdictInv, RoundInv, Whole, Bound, ArbiterNeeded, Usable, Early, Building, Judging, LifeTypes, LoopRecord
<1>6. EndInv'
  BY DEF RetryStopped, EndWith, EndInv, Whole, Bound, ArbiterNeeded, Usable, LifeTypes, ResultRecord
<1>7. RaisedInv'
  BY DEF RetryStopped, EndWith, RaisedInv, RoundInv, CountInv, LifeTypes, SeenRecord, LoopRecord, JudgedRecord, Early, Building, Judging
<1> QED BY <1>1, <1>2, <1>3, <1>4, <1>5, <1>6, <1>7

LEMMA AskAgainInv ==
  ASSUME LifeInv, AskAgain PROVE LifeInv'
<1> USE LifecycleAssumption DEF LifeInv
<1>1. LifeTypes'
  <2>1. resume' \in ResumeRecord
    BY DEF AskAgain, LifeTypes, ResumeRecord, Sites
  <2> QED BY <2>1 DEF AskAgain, EndWith, LifeTypes, Places, Early, Building, Judging, Outcomes, Failures
<1>2. PlanInv'
  BY DEF AskAgain, EndWith, PlanInv, RevisedByItsAuthor, Early, LifeTypes, PlanRecord
<1>3. CountInv'
  BY DEF AskAgain, EndWith, CountInv, EscalatesOnce, Early, Building, Judging, LifeTypes, LoopRecord, ResumeRecord, SeenRecord
<1>4. RoundInv'
  BY DEF AskAgain, EndWith, RoundInv, Bound, Early, Building, Judging, LifeTypes, JudgedRecord, NoRound, BuildRecord
<1>5. VerdictInv'
  BY DEF AskAgain, EndWith, VerdictInv, RoundInv, Whole, Bound, ArbiterNeeded, Usable, Early, Building, Judging, LifeTypes, LoopRecord
<1>6. EndInv'
  BY DEF AskAgain, EndWith, EndInv, Whole, Bound, ArbiterNeeded, Usable, LifeTypes, ResultRecord
<1>7. RaisedInv'
  BY DEF AskAgain, EndWith, RaisedInv, RoundInv, CountInv, LifeTypes, SeenRecord, LoopRecord, JudgedRecord, Early, Building, Judging
<1> QED BY <1>1, <1>2, <1>3, <1>4, <1>5, <1>6, <1>7

LEMMA FreezeBuildInv ==
  ASSUME LifeInv, FreezeBuild PROVE LifeInv'
<1> USE LifecycleAssumption DEF LifeInv
<1>1. LifeTypes'
  <2>1. build' \in BuildRecord
    BY DEF FreezeBuild, TakeBuild, Attempt, LifeTypes, BuildRecord, Patch, SeenRecord, Answers
  <2>2. answer' \in Answers
    BY DEF FreezeBuild, TakeBuild, Attempt, LifeTypes, Answers, NoAnswer, Patch
  <2>3. judged' \in JudgedRecord
    BY DEF FreezeBuild, TakeBuild, Attempt, LifeTypes, JudgedRecord, NoRound, Reviews, Verdict, SeenRecord
  <2>4. loop' \in LoopRecord
    BY DEF FreezeBuild, TakeBuild, Attempt, LifeTypes, LoopRecord, Verdict, StopReasons
  <2> QED BY <2>1, <2>2, <2>3, <2>4 DEF FreezeBuild, TakeBuild, Attempt, EndWith, LifeTypes, Places, Early, Building, Judging, Outcomes, Failures
<1>2. PlanInv'
  BY DEF FreezeBuild, TakeBuild, Attempt, EndWith, PlanInv, RevisedByItsAuthor, Early, LifeTypes, PlanRecord
<1>3. CountInv'
  BY DEF FreezeBuild, TakeBuild, Attempt, EndWith, CountInv, EscalatesOnce, Early, Building, Judging, LifeTypes, LoopRecord, ResumeRecord, SeenRecord
<1>4. RoundInv'
  BY DEF FreezeBuild, TakeBuild, Attempt, EndWith, RoundInv, Bound, Early, Building, Judging, LifeTypes, JudgedRecord, NoRound, BuildRecord
<1>5. VerdictInv'
  BY DEF FreezeBuild, TakeBuild, Attempt, EndWith, VerdictInv, RoundInv, Whole, Bound, ArbiterNeeded, Usable, Early, Building, Judging, LifeTypes, LoopRecord
<1>6. EndInv'
  BY DEF FreezeBuild, TakeBuild, Attempt, EndWith, EndInv, Whole, Bound, ArbiterNeeded, Usable, LifeTypes, ResultRecord
<1>7. RaisedInv'
  BY DEF FreezeBuild, TakeBuild, Attempt, EndWith, RaisedInv, RoundInv, CountInv, LifeTypes, SeenRecord, LoopRecord, JudgedRecord, Early, Building, Judging
<1> QED BY <1>1, <1>2, <1>3, <1>4, <1>5, <1>6, <1>7

LEMMA TakeFirstBuildInv ==
  ASSUME LifeInv, TakeFirstBuild PROVE LifeInv'
<1> USE LifecycleAssumption DEF LifeInv
<1>1. LifeTypes'
  <2>1. build' \in BuildRecord
    BY DEF TakeFirstBuild, TakeBuild, Attempt, AfterBuild, LifeTypes, BuildRecord, Patch, SeenRecord, Answers
  <2>2. answer' \in Answers
    BY DEF TakeFirstBuild, TakeBuild, Attempt, AfterBuild, LifeTypes, Answers, NoAnswer, Patch
  <2>3. judged' \in JudgedRecord
    BY DEF TakeFirstBuild, TakeBuild, Attempt, AfterBuild, LifeTypes, JudgedRecord, NoRound, Reviews, Verdict, SeenRecord
  <2> QED BY <2>1, <2>2, <2>3 DEF TakeFirstBuild, TakeBuild, Attempt, AfterBuild, EndWith, LifeTypes, Places, Early, Building, Judging, Outcomes, Failures
<1>2. PlanInv'
  BY DEF TakeFirstBuild, TakeBuild, Attempt, AfterBuild, EndWith, PlanInv, RevisedByItsAuthor, Early, LifeTypes, PlanRecord
<1>3. CountInv'
  BY DEF TakeFirstBuild, TakeBuild, Attempt, AfterBuild, EndWith, CountInv, EscalatesOnce, Early, Building, Judging, LifeTypes, LoopRecord, ResumeRecord, SeenRecord
<1>4. RoundInv'
  BY DEF TakeFirstBuild, TakeBuild, Attempt, AfterBuild, EndWith, RoundInv, Bound, Early, Building, Judging, LifeTypes, JudgedRecord, NoRound, BuildRecord
<1>5. VerdictInv'
  BY DEF TakeFirstBuild, TakeBuild, Attempt, AfterBuild, EndWith, VerdictInv, RoundInv, Whole, Bound, ArbiterNeeded, Usable, Early, Building, Judging, LifeTypes, LoopRecord
<1>6. EndInv'
  BY DEF TakeFirstBuild, TakeBuild, Attempt, AfterBuild, EndWith, EndInv, Whole, Bound, ArbiterNeeded, Usable, LifeTypes, ResultRecord
<1>7. RaisedInv'
  BY DEF TakeFirstBuild, TakeBuild, Attempt, AfterBuild, EndWith, RaisedInv, RoundInv, CountInv, LifeTypes, SeenRecord, LoopRecord, JudgedRecord, Early, Building, Judging
<1> QED BY <1>1, <1>2, <1>3, <1>4, <1>5, <1>6, <1>7

LEMMA DropRetryInv ==
  ASSUME LifeInv, DropRetry PROVE LifeInv'
<1> USE LifecycleAssumption DEF LifeInv
<1>1. LifeTypes'
  <2>1. loop' \in LoopRecord
    <3> DEFINE h == loop.halves + 2
           why == "no_progress"
    <3>1. loop \in LoopRecord
      BY DEF LifeTypes
    <3>2. loop' = [loop EXCEPT !.halves = h, !.stopped = why]
      BY Zenon DEF DropRetry
    <3>3. h \in Int
      BY <3>1, LoopIs
    <3>4. why \in StopReasons
      BY DEF StopReasons
    <3> HIDE DEF h, why
    <3> QED BY <3>1, <3>2, <3>3, <3>4 DEF LoopRecord
  <2>2. record' \in ResultRecord
    BY DEF DropRetry, LifeTypes, ResultRecord
  <2>3. answer' \in Answers
    BY FirstAnswersAre DEF DropRetry, TakeBuild
  <2> QED BY <2>1, <2>2, <2>3 DEF DropRetry, EndWith, LifeTypes, Places, Early, Building, Judging, Outcomes, Failures
<1>2. PlanInv'
  BY DEF DropRetry, EndWith, PlanInv, RevisedByItsAuthor, Early, LifeTypes, PlanRecord
<1>3. CountInv'
  BY DEF DropRetry, EndWith, CountInv, EscalatesOnce, Early, Building, Judging, LifeTypes, LoopRecord, ResumeRecord, SeenRecord
<1>4. RoundInv'
  BY DEF DropRetry, EndWith, RoundInv, Bound, Early, Building, Judging, LifeTypes, JudgedRecord, NoRound, BuildRecord
<1>5. VerdictInv'
  BY DEF DropRetry, EndWith, VerdictInv, RoundInv, Whole, Bound, ArbiterNeeded, Usable, Early, Building, Judging, LifeTypes, LoopRecord
<1>6. EndInv'
  BY DEF DropRetry, EndWith, EndInv, Whole, Bound, ArbiterNeeded, Usable, LifeTypes, ResultRecord
<1>7. RaisedInv'
  BY DEF DropRetry, EndWith, RaisedInv, RoundInv, CountInv, LifeTypes, SeenRecord, LoopRecord, JudgedRecord, Early, Building, Judging
<1> QED BY <1>1, <1>2, <1>3, <1>4, <1>5, <1>6, <1>7

LEMMA KeepRetryInv ==
  ASSUME LifeInv, KeepRetry PROVE LifeInv'
<1> USE LifecycleAssumption DEF LifeInv
<1>1. LifeTypes'
  <2>1. build' \in BuildRecord
    BY DEF KeepRetry, TakeBuild, Attempt, AfterBuild, LifeTypes, BuildRecord, Patch, SeenRecord, Answers
  <2>2. judged' \in JudgedRecord
    BY DEF KeepRetry, TakeBuild, Attempt, AfterBuild, LifeTypes, JudgedRecord, NoRound, Reviews, Verdict, SeenRecord
  <2>3. loop' \in LoopRecord
    <3> DEFINE h == loop.halves + 2
    <3>1. loop \in LoopRecord
      BY DEF LifeTypes
    <3>2. loop' = [loop EXCEPT !.halves = h]
      BY Zenon DEF KeepRetry
    <3>3. h \in Int
      BY <3>1, LoopIs
    <3> HIDE DEF h
    <3> QED BY <3>1, <3>2, <3>3 DEF LoopRecord
  <2>4. record' \in ResultRecord
    BY DEF KeepRetry, TakeBuild, Attempt, AfterBuild, LifeTypes, ResultRecord
  <2>5. answer' \in Answers
    BY FirstAnswersAre DEF KeepRetry, TakeBuild
  <2> QED BY <2>1, <2>2, <2>3, <2>4, <2>5 DEF KeepRetry, TakeBuild, Attempt, AfterBuild, EndWith, LifeTypes, Places, Early, Building, Judging, Outcomes, Failures
<1>2. PlanInv'
  BY DEF KeepRetry, TakeBuild, Attempt, AfterBuild, EndWith, PlanInv, RevisedByItsAuthor, Early, LifeTypes, PlanRecord
<1>3. CountInv'
  BY DEF KeepRetry, TakeBuild, Attempt, AfterBuild, EndWith, CountInv, EscalatesOnce, Early, Building, Judging, LifeTypes, LoopRecord, ResumeRecord, SeenRecord
<1>4. RoundInv'
  BY DEF KeepRetry, TakeBuild, Attempt, AfterBuild, EndWith, RoundInv, Bound, Early, Building, Judging, LifeTypes, JudgedRecord, NoRound, BuildRecord
<1>5. VerdictInv'
  BY DEF KeepRetry, TakeBuild, Attempt, AfterBuild, EndWith, VerdictInv, RoundInv, Whole, Bound, ArbiterNeeded, Usable, Early, Building, Judging, LifeTypes, LoopRecord
<1>6. EndInv'
  BY DEF KeepRetry, TakeBuild, Attempt, AfterBuild, EndWith, EndInv, Whole, Bound, ArbiterNeeded, Usable, LifeTypes, ResultRecord
<1>7. RaisedInv'
  BY DEF KeepRetry, TakeBuild, Attempt, AfterBuild, EndWith, RaisedInv, RoundInv, CountInv, LifeTypes, SeenRecord, LoopRecord, JudgedRecord, Early, Building, Judging
<1> QED BY <1>1, <1>2, <1>3, <1>4, <1>5, <1>6, <1>7

LEMMA HandoffStopsInv ==
  ASSUME LifeInv, HandoffStops PROVE LifeInv'
<1> USE LifecycleAssumption DEF LifeInv
<1>1. LifeTypes'
  BY DEF HandoffStops, EndWith, LifeTypes, Places, Early, Building, Judging, Outcomes, Failures
<1>2. PlanInv'
  BY DEF HandoffStops, EndWith, PlanInv, RevisedByItsAuthor, Early, LifeTypes, PlanRecord
<1>3. CountInv'
  BY DEF HandoffStops, EndWith, CountInv, EscalatesOnce, Early, Building, Judging, LifeTypes, LoopRecord, ResumeRecord, SeenRecord
<1>4. RoundInv'
  BY DEF HandoffStops, EndWith, RoundInv, Bound, Early, Building, Judging, LifeTypes, JudgedRecord, NoRound, BuildRecord
<1>5. VerdictInv'
  BY DEF HandoffStops, EndWith, VerdictInv, RoundInv, Whole, Bound, ArbiterNeeded, Usable, Early, Building, Judging, LifeTypes, LoopRecord
<1>6. EndInv'
  BY DEF HandoffStops, EndWith, EndInv, Whole, Bound, ArbiterNeeded, Usable, LifeTypes, ResultRecord
<1>7. RaisedInv'
  BY DEF HandoffStops, EndWith, RaisedInv, RoundInv, CountInv, LifeTypes, SeenRecord, LoopRecord, JudgedRecord, Early, Building, Judging
<1> QED BY <1>1, <1>2, <1>3, <1>4, <1>5, <1>6, <1>7

LEMMA HandoffPassesInv ==
  ASSUME LifeInv, HandoffPasses PROVE LifeInv'
<1> USE LifecycleAssumption DEF LifeInv
<1>1. LifeTypes'
  <2>1. judged' \in JudgedRecord
    BY DEF HandoffPasses, LifeTypes, JudgedRecord, NoRound, Reviews, Verdict
  <2>2. loop' \in LoopRecord
    BY DEF HandoffPasses, LifeTypes, LoopRecord, Verdict, StopReasons
  <2> QED BY <2>1, <2>2 DEF HandoffPasses, EndWith, LifeTypes, Places, Early, Building, Judging, Outcomes, Failures
<1>2. PlanInv'
  BY DEF HandoffPasses, EndWith, PlanInv, RevisedByItsAuthor, Early, LifeTypes, PlanRecord
<1>3. CountInv'
  BY DEF HandoffPasses, EndWith, CountInv, EscalatesOnce, Early, Building, Judging, LifeTypes, LoopRecord, ResumeRecord, SeenRecord
<1>4. RoundInv'
  BY DEF HandoffPasses, EndWith, RoundInv, Bound, Early, Building, Judging, LifeTypes, JudgedRecord, NoRound, BuildRecord
<1>5. VerdictInv'
  BY DEF HandoffPasses, EndWith, VerdictInv, RoundInv, Whole, Bound, ArbiterNeeded, Usable, Early, Building, Judging, LifeTypes, LoopRecord
<1>6. EndInv'
  BY DEF HandoffPasses, EndWith, EndInv, Whole, Bound, ArbiterNeeded, Usable, LifeTypes, ResultRecord
<1>7. RaisedInv'
  BY DEF HandoffPasses, EndWith, RaisedInv, RoundInv, CountInv, LifeTypes, SeenRecord, LoopRecord, JudgedRecord, Early, Building, Judging
<1> QED BY <1>1, <1>2, <1>3, <1>4, <1>5, <1>6, <1>7

LEMMA HandoffSendsBackInv ==
  ASSUME LifeInv, HandoffSendsBack PROVE LifeInv'
<1> USE LifecycleAssumption DEF LifeInv
<1>1. LifeTypes'
  <2>1. judged' \in JudgedRecord
    BY DEF HandoffSendsBack, LifeTypes, JudgedRecord, NoRound, Reviews, Verdict
  <2>2. loop' \in LoopRecord
    <3> DEFINE b == TRUE
           v == "revise"
           h == IF resume.site = "retry" THEN loop.halves - 1 ELSE loop.halves
    <3>1. loop \in LoopRecord
      BY DEF LifeTypes
    <3>2. loop' = [loop EXCEPT !.prior = b, !.verdict = v, !.halves = h]
      BY Zenon DEF HandoffSendsBack
    <3>3. b \in BOOLEAN /\ v \in Verdict /\ h \in Int
      BY <3>1, LoopIs DEF Verdict
    <3> HIDE DEF b, v, h
    <3> QED BY <3>1, <3>2, <3>3 DEF LoopRecord
  <2> QED BY <2>1, <2>2 DEF HandoffSendsBack, EndWith, LifeTypes, Places, Early, Building, Judging, Outcomes, Failures
<1>2. PlanInv'
  BY DEF HandoffSendsBack, EndWith, PlanInv, RevisedByItsAuthor, Early, LifeTypes, PlanRecord
<1>3. CountInv'
  BY DEF HandoffSendsBack, EndWith, CountInv, EscalatesOnce, Early, Building, Judging, LifeTypes, LoopRecord, ResumeRecord, SeenRecord
<1>4. RoundInv'
  BY DEF HandoffSendsBack, EndWith, RoundInv, Bound, Early, Building, Judging, LifeTypes, JudgedRecord, NoRound, BuildRecord
<1>5. VerdictInv'
  BY DEF HandoffSendsBack, EndWith, VerdictInv, RoundInv, Whole, Bound, ArbiterNeeded, Usable, Early, Building, Judging, LifeTypes, LoopRecord
<1>6. EndInv'
  BY DEF HandoffSendsBack, EndWith, EndInv, Whole, Bound, ArbiterNeeded, Usable, LifeTypes, ResultRecord
<1>7. RaisedInv'
  BY DEF HandoffSendsBack, EndWith, RaisedInv, RoundInv, CountInv, LifeTypes, SeenRecord, LoopRecord, JudgedRecord, Early, Building, Judging
<1> QED BY <1>1, <1>2, <1>3, <1>4, <1>5, <1>6, <1>7

LEMMA ReviewCharterInv ==
  ASSUME LifeInv, ReviewCharter PROVE LifeInv'
<1> USE LifecycleAssumption DEF LifeInv
<1>1. LifeTypes'
  <2>1. judged' \in JudgedRecord
    BY DEF ReviewCharter, LifeTypes, JudgedRecord, NoRound, Reviews, Verdict
  <2>2. loop' \in LoopRecord
    BY DEF ReviewCharter, LifeTypes, LoopRecord, Verdict, StopReasons
  <2> QED BY <2>1, <2>2 DEF ReviewCharter, EndWith, LifeTypes, Places, Early, Building, Judging, Outcomes, Failures
<1>2. PlanInv'
  BY DEF ReviewCharter, EndWith, PlanInv, RevisedByItsAuthor, Early, LifeTypes, PlanRecord
<1>3. CountInv'
  BY DEF ReviewCharter, EndWith, CountInv, EscalatesOnce, Early, Building, Judging, LifeTypes, LoopRecord, ResumeRecord, SeenRecord
<1>4. RoundInv'
  BY DEF ReviewCharter, EndWith, RoundInv, Bound, Early, Building, Judging, LifeTypes, JudgedRecord, NoRound, BuildRecord
<1>5. VerdictInv'
  BY DEF ReviewCharter, EndWith, VerdictInv, RoundInv, Whole, Bound, ArbiterNeeded, Usable, Early, Building, Judging, LifeTypes, LoopRecord
<1>6. EndInv'
  BY DEF ReviewCharter, EndWith, EndInv, Whole, Bound, ArbiterNeeded, Usable, LifeTypes, ResultRecord
<1>7. RaisedInv'
  <2>1. /\ place = "charter" /\ place' \in {"adversary", "judge"} /\ seen' = seen /\ outcome' = outcome
        /\ judged'.claims = judged.claims /\ loop'.standing = loop.standing
    BY DEF ReviewCharter, LifeTypes, JudgedRecord, LoopRecord
  <2>2. \A c \in Claims : seen.raised[c] \in Nat
    BY DEF LifeTypes, SeenRecord
  <2>3. /\ \A c \in Claims : seen.raised[c] > 0 => c \in loop.standing \cup judged.claims
        /\ \A c \in Claims : seen.raised[c] <= 1
        /\ outcome # "record"
    BY <2>1 DEF RaisedInv, EndInv
  <2>4. \A c \in Claims : ~(seen.raised[c] > 1)
    BY <2>2, <2>3
  <2> HIDE DEF LifeInv
  <2> QED BY <2>1, <2>3, <2>4 DEF RaisedInv
<1> QED BY <1>1, <1>2, <1>3, <1>4, <1>5, <1>6, <1>7

LEMMA ReviewAdversaryInv ==
  ASSUME LifeInv, ReviewAdversary PROVE LifeInv'
<1> USE LifecycleAssumption DEF LifeInv
<1>1. LifeTypes'
  <2>1. judged' \in JudgedRecord
    BY DEF ReviewAdversary, LifeTypes, JudgedRecord, NoRound, Reviews, Verdict
  <2>2. seen' \in SeenRecord
    BY DEF ReviewAdversary, LifeTypes, SeenRecord
  <2> QED BY <2>1, <2>2 DEF ReviewAdversary, EndWith, LifeTypes, Places, Early, Building, Judging, Outcomes, Failures
<1>2. PlanInv'
  BY DEF ReviewAdversary, EndWith, PlanInv, RevisedByItsAuthor, Early, LifeTypes, PlanRecord
<1>3. CountInv'
  BY DEF ReviewAdversary, EndWith, CountInv, EscalatesOnce, Early, Building, Judging, LifeTypes, LoopRecord, ResumeRecord, SeenRecord
<1>4. RoundInv'
  <2>1. /\ place = "adversary" /\ place' = "judge" /\ UNCHANGED <<ticket, build>>
        /\ judged'.of = judged.of /\ judged'.handoff = judged.handoff /\ judged'.charter = judged.charter
        /\ judged'.adversary \in Reviews
    BY DEF ReviewAdversary, LifeTypes, JudgedRecord
  <2> QED BY <2>1 DEF RoundInv, Bound, Reviews, Verdict, Early, Building
<1>5. VerdictInv'
  BY DEF ReviewAdversary, EndWith, VerdictInv, RoundInv, Whole, Bound, ArbiterNeeded, Usable, Early, Building, Judging, LifeTypes, LoopRecord
<1>6. EndInv'
  BY DEF ReviewAdversary, EndWith, EndInv, Whole, Bound, ArbiterNeeded, Usable, LifeTypes, ResultRecord
<1>7. RaisedInv'
  <2>1. PICK said \in Reviews, claims \in SUBSET Claims :
          /\ judged' = [judged EXCEPT !.adversary = said, !.claims = claims]
          /\ seen' = [seen EXCEPT !.raised = [c \in Claims |-> @[c] + (IF c \in claims THEN 1 ELSE 0)]]
    BY DEF ReviewAdversary
  <2>2. /\ place = "adversary" /\ place' = "judge" /\ outcome' = outcome /\ loop' = loop
        /\ judged'.claims = claims
    BY <2>1 DEF ReviewAdversary, LifeTypes, JudgedRecord
  <2>3. \A c \in Claims : seen.raised[c] \in Nat
    BY DEF LifeTypes, SeenRecord
  <2>4. \A c \in Claims : seen'.raised[c] = seen.raised[c] + (IF c \in claims THEN 1 ELSE 0)
    BY <2>1 DEF LifeTypes, SeenRecord
  <2>5. /\ \A c \in Claims : seen.raised[c] > 0 => c \in loop.standing
        /\ \A c \in Claims : seen.raised[c] <= 1
    BY <2>2 DEF RaisedInv, RoundInv
  <2>6. outcome' # "record"
    BY <2>2 DEF EndInv
  <2>7. \A c \in Claims : seen'.raised[c] > 0 => c \in loop.standing \cup claims
    BY <2>3, <2>4, <2>5
  <2>8. \A c \in Claims : seen'.raised[c] > 1 => c \in loop.standing \cap claims
    BY <2>3, <2>4, <2>5
  <2> HIDE DEF LifeInv
  <2> QED BY <2>2, <2>6, <2>7, <2>8 DEF RaisedInv
<1> QED BY <1>1, <1>2, <1>3, <1>4, <1>5, <1>6, <1>7

LEMMA ArbitrateInv ==
  ASSUME LifeInv, Arbitrate PROVE LifeInv'
<1> USE LifecycleAssumption DEF LifeInv
<1>1. LifeTypes'
  <2>1. judged' \in JudgedRecord
    BY DEF Arbitrate, LifeTypes, JudgedRecord, NoRound, Reviews, Verdict
  <2> QED BY <2>1 DEF Arbitrate, EndWith, LifeTypes, Places, Early, Building, Judging, Outcomes, Failures
<1>2. PlanInv'
  BY DEF Arbitrate, EndWith, PlanInv, RevisedByItsAuthor, Early, LifeTypes, PlanRecord
<1>3. CountInv'
  BY DEF Arbitrate, EndWith, CountInv, EscalatesOnce, Early, Building, Judging, LifeTypes, LoopRecord, ResumeRecord, SeenRecord
<1>4. RoundInv'
  BY DEF Arbitrate, EndWith, RoundInv, Bound, Early, Building, Judging, LifeTypes, JudgedRecord, NoRound, BuildRecord
<1>5. VerdictInv'
  BY DEF Arbitrate, EndWith, VerdictInv, RoundInv, Whole, Bound, ArbiterNeeded, Usable, Early, Building, Judging, LifeTypes, LoopRecord
<1>6. EndInv'
  BY DEF Arbitrate, EndWith, EndInv, Whole, Bound, ArbiterNeeded, Usable, LifeTypes, ResultRecord
<1>7. RaisedInv'
  BY DEF Arbitrate, EndWith, RaisedInv, RoundInv, CountInv, LifeTypes, SeenRecord, LoopRecord, JudgedRecord, Early, Building, Judging
<1> QED BY <1>1, <1>2, <1>3, <1>4, <1>5, <1>6, <1>7

LEMMA ReviewRoundInv ==
  ASSUME LifeInv, ReviewRound PROVE LifeInv'
<1> USE LifecycleAssumption DEF LifeInv
<1> DEFINE verdict == IF Silent THEN "revise" ELSE RoundVerdict
           again == resume.site = "retry" /\ verdict # "approve" /\ loop.standing \cap judged.claims # {}
           why == IF Silent THEN "harness fault" ELSE IF again THEN "objection_standing" ELSE loop.stopped
<1>0. /\ EndRound(verdict, why)
      /\ place' = IF resume.site = "retry" /\ (Silent \/ again \/ verdict = "approve") THEN "finish" ELSE "loop"
  BY Zenon DEF ReviewRound, EndRound
<1>8. verdict \in Verdict /\ (verdict = "approve" => Whole)
  <2>1. "revise" \in Verdict /\ "revise" # "approve"
    BY DEF Verdict
  <2>2. ~Silent => RoundVerdict \in Verdict /\ (RoundVerdict = "approve" => Whole)
    BY <1>0, RoundVerdictIs DEF EndRound, LifeInv
  <2> QED BY <2>1, <2>2
<1>9. loop \in LoopRecord /\ why \in StopReasons /\ Silent \in BOOLEAN
  BY LoopIs DEF LifeTypes, StopReasons, Silent
<1>11. /\ Silent => why = "harness fault"
       /\ ~Silent /\ again => why = "objection_standing"
  BY Zenon
<1> HIDE DEF verdict, why
<1>10. /\ loop'.verdict = verdict /\ loop'.stopped = why /\ loop'.silent = Silent
       /\ loop'.standing = loop.standing /\ loop'.frozen = loop.frozen
       /\ loop' \in LoopRecord
  <2>1. loop' = [loop EXCEPT !.verdict = verdict, !.silent = Silent, !.stopped = why]
    BY <1>0 DEF EndRound
  <2>2. loop' \in LoopRecord
    BY <1>8, <1>9, <2>1 DEF LoopRecord
  <2> QED BY <1>9, <2>1, <2>2 DEF LoopRecord
<1>1. LifeTypes'
  BY <1>0, <1>10 DEF EndRound, LifeTypes, Places, Early, Building, Judging
<1>2. PlanInv'
  BY DEF ReviewRound, EndWith, PlanInv, RevisedByItsAuthor, Early, LifeTypes, PlanRecord
<1>3. CountInv'
  BY DEF ReviewRound, EndWith, CountInv, EscalatesOnce, Early, Building, Judging, LifeTypes, LoopRecord, ResumeRecord, SeenRecord
<1>4. RoundInv'
  BY DEF ReviewRound, EndWith, RoundInv, Bound, Early, Building, Judging, LifeTypes, JudgedRecord, NoRound, BuildRecord
<1>5. VerdictInv'
  <2>1. Whole' = Whole
    BY <1>0 DEF EndRound, Whole, Bound, ArbiterNeeded, Usable
  <2>2. /\ place' \in {"loop", "finish"} /\ judged' = judged
        /\ Silent \/ Usable(judged.charter) \/ Usable(judged.adversary)
    BY <1>0 DEF EndRound, Silent
  <2>3. Usable(judged.charter)' = Usable(judged.charter) /\ Usable(judged.adversary)' = Usable(judged.adversary)
    BY <2>2 DEF Usable
  <2> QED BY <1>8, <1>10, <2>1, <2>2, <2>3 DEF VerdictInv, Early, Building, Judging
<1>6. EndInv'
  BY DEF ReviewRound, EndWith, EndInv, Whole, Bound, ArbiterNeeded, Usable, LifeTypes, ResultRecord
<1>7. RaisedInv'
  <2>1. place = "judge" /\ place' \in {"loop", "finish"} /\ judged' = judged /\ seen' = seen /\ outcome' = outcome
        /\ outcome # "record"
    BY <1>0 DEF EndRound, EndInv
  <2>2. /\ \A c \in Claims : seen.raised[c] > 0 => c \in loop.standing \cup judged.claims
        /\ \A c \in Claims : seen.raised[c] > 1 => c \in loop.standing \cap judged.claims
        /\ \A c \in Claims : seen.raised[c] \in Nat
    BY <2>1 DEF RaisedInv, LifeTypes, SeenRecord
  <2>3. resume.site # "retry" => loop.standing = {}
    BY DEF CountInv, LifeTypes, SeenRecord
  <2>4. ~again /\ ~Silent /\ verdict # "approve" => \A c \in Claims : seen.raised[c] <= 1
    BY <2>2, <2>3
  <2>5. place' = "loop" => \A c \in Claims : seen.raised[c] <= 1
    BY <1>0, <2>2, <2>3, <2>4
  <2>6. place' = "finish" =>
          verdict = "approve" \/ (\A c \in Claims : seen.raised[c] <= 1) \/ why \in {"objection_standing", "harness fault"}
    BY <1>11, <2>4
  <2> QED BY <1>10, <2>1, <2>2, <2>5, <2>6 DEF RaisedInv
<1> QED BY <1>1, <1>2, <1>3, <1>4, <1>5, <1>6, <1>7

LEMMA RoundFailsInv ==
  ASSUME LifeInv, RoundFails PROVE LifeInv'
<1> USE LifecycleAssumption DEF LifeInv
<1>1. LifeTypes'
  <2>1. record' \in ResultRecord
    BY DEF RoundFails, NodeFailure, LifeTypes, ResultRecord
  <2> QED BY <2>1 DEF RoundFails, NodeFailure, EndWith, LifeTypes, Places, Early, Building, Judging, Outcomes, Failures
<1>2. PlanInv'
  BY DEF RoundFails, NodeFailure, EndWith, PlanInv, RevisedByItsAuthor, Early, LifeTypes, PlanRecord
<1>3. CountInv'
  BY DEF RoundFails, NodeFailure, EndWith, CountInv, EscalatesOnce, Early, Building, Judging, LifeTypes, LoopRecord, ResumeRecord, SeenRecord
<1>4. RoundInv'
  BY DEF RoundFails, NodeFailure, EndWith, RoundInv, Bound, Early, Building, Judging, LifeTypes, JudgedRecord, NoRound, BuildRecord
<1>5. VerdictInv'
  BY DEF RoundFails, NodeFailure, EndWith, VerdictInv, RoundInv, Whole, Bound, ArbiterNeeded, Usable, Early, Building, Judging, LifeTypes, LoopRecord
<1>6. EndInv'
  BY DEF RoundFails, NodeFailure, EndWith, EndInv, Whole, Bound, ArbiterNeeded, Usable, LifeTypes, ResultRecord
<1>7. RaisedInv'
  BY DEF RoundFails, NodeFailure, EndWith, RaisedInv, RoundInv, CountInv, LifeTypes, SeenRecord, LoopRecord, JudgedRecord, Early, Building, Judging
<1> QED BY <1>1, <1>2, <1>3, <1>4, <1>5, <1>6, <1>7

LEMMA ArbiterFailsInv ==
  ASSUME LifeInv, ArbiterFails PROVE LifeInv'
<1> USE LifecycleAssumption DEF LifeInv
<1>1. LifeTypes'
  <2>1. record' \in ResultRecord
    BY DEF ArbiterFails, NodeFailure, LifeTypes, ResultRecord
  <2> QED BY <2>1 DEF ArbiterFails, NodeFailure, EndWith, LifeTypes, Places, Early, Building, Judging, Outcomes, Failures
<1>2. PlanInv'
  BY DEF ArbiterFails, NodeFailure, EndWith, PlanInv, RevisedByItsAuthor, Early, LifeTypes, PlanRecord
<1>3. CountInv'
  BY DEF ArbiterFails, NodeFailure, EndWith, CountInv, EscalatesOnce, Early, Building, Judging, LifeTypes, LoopRecord, ResumeRecord, SeenRecord
<1>4. RoundInv'
  BY DEF ArbiterFails, NodeFailure, EndWith, RoundInv, Bound, Early, Building, Judging, LifeTypes, JudgedRecord, NoRound, BuildRecord
<1>5. VerdictInv'
  BY DEF ArbiterFails, NodeFailure, EndWith, VerdictInv, RoundInv, Whole, Bound, ArbiterNeeded, Usable, Early, Building, Judging, LifeTypes, LoopRecord
<1>6. EndInv'
  BY DEF ArbiterFails, NodeFailure, EndWith, EndInv, Whole, Bound, ArbiterNeeded, Usable, LifeTypes, ResultRecord
<1>7. RaisedInv'
  BY DEF ArbiterFails, NodeFailure, EndWith, RaisedInv, RoundInv, CountInv, LifeTypes, SeenRecord, LoopRecord, JudgedRecord, Early, Building, Judging
<1> QED BY <1>1, <1>2, <1>3, <1>4, <1>5, <1>6, <1>7

LEMMA SendBackInv ==
  ASSUME LifeInv, SendBack PROVE LifeInv'
<1> USE LifecycleAssumption DEF LifeInv
<1>1. LifeTypes'
  <2>1. loop' \in LoopRecord
    <3> DEFINE C == loop.standing \cup judged.claims
    <3>1. loop \in LoopRecord
      BY DEF LifeTypes
    <3>2. loop' = [loop EXCEPT !.standing = C]
      BY Zenon DEF SendBack
    <3>3. C \in SUBSET Claims
      BY <3>1, LoopIs DEF LifeTypes, JudgedRecord
    <3> HIDE DEF C
    <3> QED BY <3>1, <3>2, <3>3 DEF LoopRecord
  <2>2. judged' \in JudgedRecord
    <3>1. judged.of \in Nat /\ judged.scope \in {"none", "any", "files"}
      BY DEF LifeTypes, JudgedRecord
    <3>2. judged' = [NoRound EXCEPT !.of = judged.of, !.scope = judged.scope]
      BY Zenon DEF SendBack
    <3>3. NoRound \in JudgedRecord
      BY DEF NoRound, JudgedRecord
    <3> HIDE DEF JudgedRecord
    <3> QED BY <3>1, <3>2, <3>3 DEF JudgedRecord
  <2>3. resume' \in ResumeRecord
    BY DEF SendBack, LoopGoesOn, Escalates, LifeTypes, ResumeRecord, Sites
  <2>4. seen' \in SeenRecord
    <3> DEFINE m == seen.sent + 1
           e == IF Escalates THEN seen.escalated \cup {seen.sent + 1} ELSE seen.escalated
    <3>1. seen \in SeenRecord
      BY DEF LifeTypes
    <3>2. seen' = [seen EXCEPT !.sent = m, !.escalated = e]
      BY Zenon DEF SendBack
    <3>3. m \in Nat /\ e \in SUBSET Nat
      BY <3>1 DEF SeenRecord
    <3> HIDE DEF m, e
    <3> QED BY <3>1, <3>2, <3>3 DEF SeenRecord
  <2> QED BY <2>1, <2>2, <2>3, <2>4 DEF SendBack, LoopGoesOn, Escalates, EndWith, LifeTypes, Places, Early, Building, Judging, Outcomes, Failures
<1>2. PlanInv'
  BY DEF SendBack, LoopGoesOn, Escalates, EndWith, PlanInv, RevisedByItsAuthor, Early, LifeTypes, PlanRecord
<1>3. CountInv'
  <2>1. /\ place = "loop" /\ place' = "build" /\ loop'.halves = loop.halves /\ resume'.site = "retry"
        /\ seen'.sent = seen.sent + 1 /\ loop.halves <= 2 * FixAttempts /\ loop.halves \in Int /\ seen.sent \in Nat
    BY DEF SendBack, LoopGoesOn, LifeTypes, LoopRecord, ResumeRecord, SeenRecord
  <2>2. EscalatesOnce'
    <3>1. CASE ~Escalates
      <4>1. seen'.escalated = seen.escalated
        BY <3>1 DEF SendBack, LifeTypes, SeenRecord
      <4> QED BY <4>1 DEF CountInv, EscalatesOnce
    <3>2. CASE Escalates
      <4>1. seen'.escalated = seen.escalated \cup {seen.sent + 1}
        BY <3>2 DEF SendBack, LifeTypes, SeenRecord
      <4>2. loop.halves < 4 /\ ~loop.prior
        BY <2>1, <3>2 DEF Escalates
      <4>3. seen.sent = 0
        BY <2>1, <4>2 DEF CountInv
      <4> QED BY <4>1, <4>3 DEF CountInv, EscalatesOnce
    <3> QED BY <3>1, <3>2
  <2> QED BY <2>1, <2>2 DEF CountInv, Early, Building, Judging
<1>4. RoundInv'
  BY DEF SendBack, LoopGoesOn, Escalates, EndWith, RoundInv, Bound, Early, Building, Judging, LifeTypes, JudgedRecord, NoRound, BuildRecord
<1>5. VerdictInv'
  BY DEF SendBack, LoopGoesOn, Escalates, EndWith, VerdictInv, RoundInv, Whole, Bound, ArbiterNeeded, Usable, Early, Building, Judging, LifeTypes, LoopRecord
<1>6. EndInv'
  BY DEF SendBack, LoopGoesOn, Escalates, EndWith, EndInv, Whole, Bound, ArbiterNeeded, Usable, LifeTypes, ResultRecord
<1>7. RaisedInv'
  BY DEF SendBack, LoopGoesOn, Escalates, EndWith, RaisedInv, RoundInv, CountInv, LifeTypes, SeenRecord, LoopRecord, JudgedRecord, Early, Building, Judging
<1> QED BY <1>1, <1>2, <1>3, <1>4, <1>5, <1>6, <1>7

LEMMA LoopIsOverInv ==
  ASSUME LifeInv, LoopIsOver PROVE LifeInv'
<1> USE LifecycleAssumption DEF LifeInv
<1>1. LifeTypes'
  BY DEF LoopIsOver, EndWith, LifeTypes, Places, Early, Building, Judging, Outcomes, Failures
<1>2. PlanInv'
  BY DEF LoopIsOver, EndWith, PlanInv, RevisedByItsAuthor, Early, LifeTypes, PlanRecord
<1>3. CountInv'
  BY DEF LoopIsOver, EndWith, CountInv, EscalatesOnce, Early, Building, Judging, LifeTypes, LoopRecord, ResumeRecord, SeenRecord
<1>4. RoundInv'
  BY DEF LoopIsOver, EndWith, RoundInv, Bound, Early, Building, Judging, LifeTypes, JudgedRecord, NoRound, BuildRecord
<1>5. VerdictInv'
  BY DEF LoopIsOver, EndWith, VerdictInv, RoundInv, Whole, Bound, ArbiterNeeded, Usable, Early, Building, Judging, LifeTypes, LoopRecord
<1>6. EndInv'
  BY DEF LoopIsOver, EndWith, EndInv, Whole, Bound, ArbiterNeeded, Usable, LifeTypes, ResultRecord
<1>7. RaisedInv'
  BY DEF LoopIsOver, EndWith, RaisedInv, RoundInv, CountInv, LifeTypes, SeenRecord, LoopRecord, JudgedRecord, Early, Building, Judging
<1> QED BY <1>1, <1>2, <1>3, <1>4, <1>5, <1>6, <1>7

LEMMA FinishInv ==
  ASSUME LifeInv, Finish PROVE LifeInv'
<1> USE LifecycleAssumption DEF LifeInv
<1>1. LifeTypes'
  <2>1. loop' \in LoopRecord
    BY DEF Finish, LifeTypes, LoopRecord, Verdict, StopReasons
  <2>2. record' \in ResultRecord
    <3> DEFINE k == IF loop.halves > 2 THEN loop.halves ELSE 0
               P == record.proposals \cup {"draft_pr_create"}
    <3>1. record \in ResultRecord /\ k \in Int
      BY LoopIs DEF LifeTypes
    <3>2. P \in SUBSET {"item_create", "draft_pr_create"}
      BY <3>1 DEF ResultRecord
    <3>3. record' = record \/ record' = [record EXCEPT !.proposals = P, !.attempts = k]
      BY Zenon DEF Finish
    <3> HIDE DEF k, P
    <3> QED BY <3>1, <3>2, <3>3 DEF ResultRecord
  <2> QED BY <2>1, <2>2 DEF Finish, EndWith, LifeTypes, Places, Early, Building, Judging, Outcomes, Failures
<1>2. PlanInv'
  BY DEF Finish, EndWith, PlanInv, RevisedByItsAuthor, Early, LifeTypes, PlanRecord
<1>3. CountInv'
  BY DEF Finish, EndWith, CountInv, EscalatesOnce, Early, Building, Judging, LifeTypes, LoopRecord, ResumeRecord, SeenRecord
<1>4. RoundInv'
  BY DEF Finish, EndWith, RoundInv, Bound, Early, Building, Judging, LifeTypes, JudgedRecord, NoRound, BuildRecord
<1>5. VerdictInv'
  BY DEF Finish, EndWith, VerdictInv, RoundInv, Whole, Bound, ArbiterNeeded, Usable, Early, Building, Judging, LifeTypes, LoopRecord
<1>6. EndInv'
  <2>1. Whole' = Whole /\ place = "finish" /\ place' = "done" /\ seen' = seen
    BY DEF Finish, EndWith, Whole, Bound, ArbiterNeeded, Usable
  <2>2. CASE loop.verdict # "approve"
    <3>1. record' = record
      BY <2>2 DEF Finish
    <3> QED BY <2>1, <3>1 DEF EndInv
  <2>3. CASE loop.verdict = "approve"
    <3>1. Whole
      BY <2>1, <2>3 DEF VerdictInv
    <3>2. record'.attempts = IF loop.halves > 2 THEN loop.halves ELSE 0
      BY <2>3 DEF Finish, LifeTypes, ResultRecord
    <3>3. loop.halves > 2 <=> seen.sent > 0
      <4>1. loop.halves \in Int /\ seen.sent \in Nat
        BY LoopIs DEF LifeTypes, SeenRecord
      <4> QED BY <2>1, <4>1 DEF CountInv
    <3>4. loop.halves \in Int
      BY LoopIs DEF LifeTypes
    <3> QED BY <2>1, <3>1, <3>2, <3>3, <3>4 DEF EndInv
  <2> QED BY <2>2, <2>3
<1>7. RaisedInv'
  BY DEF Finish, EndWith, RaisedInv, RoundInv, CountInv, LifeTypes, SeenRecord, LoopRecord, JudgedRecord, Early, Building, Judging
<1> QED BY <1>1, <1>2, <1>3, <1>4, <1>5, <1>6, <1>7

LEMMA LifeStepInv == LifeInv /\ [LifecycleStep]_lifecycleVars => LifeInv'
<1> SUFFICES ASSUME LifeInv, [LifecycleStep]_lifecycleVars
             PROVE  LifeInv'
  OBVIOUS
<1>1. CASE UNCHANGED lifecycleVars
  <2>1. UNCHANGED <<ticket, place, outcome, plan, session, resume>> /\ UNCHANGED <<build, answer, judged, loop, record, seen>>
    BY <1>1 DEF lifecycleVars
  <2>2. LifeTypes' /\ PlanInv' /\ CountInv'
    BY <2>1 DEF LifeInv, LifeTypes, PlanInv, RevisedByItsAuthor, CountInv, EscalatesOnce
  <2>3. RoundInv' /\ RaisedInv'
    BY <2>1 DEF LifeInv, RoundInv, Bound, RaisedInv
  <2>4. VerdictInv' /\ EndInv'
    BY <2>1 DEF LifeInv, VerdictInv, EndInv, Whole, Bound, ArbiterNeeded, Usable
  <2> QED BY <2>2, <2>3, <2>4 DEF LifeInv
<1>2. CASE Handoff \/ TakeRetry
  BY <1>2, HandoffSplits, TakeRetrySplits, HandoffStopsInv, HandoffPassesInv, HandoffSendsBackInv, DropRetryInv,
     KeepRetryInv
<1>3. CASE ScopeEpic \/ FirstPlan \/ PlanCompetition \/ PlanAttack \/ PlanFails
  BY <1>3, ScopeEpicInv, FirstPlanInv, PlanCompetitionInv, PlanAttackInv, PlanFailsInv
<1>4. CASE Builds \/ BuildStops \/ BuildFails \/ ResumeBuild \/ CheckpointStopsBuild \/ ContinuationRefused \/ RetryStopped
  BY <1>4, BuildsInv, BuildStopsInv, BuildFailsInv, ResumeBuildInv, CheckpointStopsBuildInv, ContinuationRefusedInv,
     RetryStoppedInv
<1>5. CASE AskAgain \/ FreezeBuild \/ TakeFirstBuild
  BY <1>5, AskAgainInv, FreezeBuildInv, TakeFirstBuildInv
<1>6. CASE ReviewCharter \/ ReviewAdversary \/ Arbitrate \/ ReviewRound \/ RoundFails \/ ArbiterFails
  BY <1>6, ReviewCharterInv, ReviewAdversaryInv, ArbitrateInv, ReviewRoundInv, RoundFailsInv, ArbiterFailsInv
<1>7. CASE SendBack \/ LoopIsOver \/ Finish
  BY <1>7, SendBackInv, LoopIsOverInv, FinishInv
<1> QED BY <1>1, <1>2, <1>3, <1>4, <1>5, <1>6, <1>7 DEF LifecycleStep

-----------------------------------------------------------------------------
(* The record of a run is true of it: the build it holds is the one that    *)
(* was judged, a draft PR is of a build a whole round approved, and it says *)
(* whether a change was sent back, for any tickets, claims and bounds.      *)
THEOREM TheRecordIsHonest == LifecycleSpec => []RecordIsHonest
<1>1. LifeInv => RecordIsHonest
  <2> SUFFICES ASSUME LifeInv
               PROVE  RecordIsHonest
    OBVIOUS
  <2> USE DEF LifeInv
  <2>1. LifecycleTypeOK
    <3>1. /\ resume.site \in {"first", "cut", "invalid", "retry"} /\ resume.conts \in Nat
          /\ resume.stop.index \in -1..(Fractions - 1)
      BY DEF LifeTypes, ResumeRecord, StopRecord, Sites
    <3>2. judged.claims \subseteq Claims /\ judged.tier \in 0..2
      BY DEF LifeTypes, JudgedRecord
    <3>3. loop.halves \in 2..(2 * FixAttempts + 2) /\ loop.standing \subseteq Claims
      BY LifecycleAssumption, LoopIs DEF LifeTypes, CountInv
    <3>4. record.proposals \subseteq {"item_create", "draft_pr_create"} /\ seen.raised \in [Claims -> Nat]
      BY DEF LifeTypes, ResultRecord, SeenRecord
    <3> QED BY <3>1, <3>2, <3>3, <3>4 DEF LifecycleTypeOK, LifeTypes, Outcomes, SessionRecord, BuildRecord
  <2>2. RecordDescribesOneBuild
    BY DEF RecordDescribesOneBuild, RoundInv
  <2>3. ApprovedByAWholeRound
    BY DEF ApprovedByAWholeRound, RoundInv, EndInv, Whole
  <2>4. AttemptsAreCarried
    BY DEF AttemptsAreCarried, EndInv
  <2> QED BY <2>1, <2>2, <2>3, <2>4 DEF RecordIsHonest
<1> QED BY <1>1, LifeInitInv, LifeStepInv, PTL DEF LifecycleSpec

(* The fix loop keeps its rules: one build a tier up, the second; one       *)
(* hearing of an objection; a plan revised by the seat that wrote it; and   *)
(* no rebuild of what neither a reviewer nor the handoff spoke of.          *)
THEOREM TheFixLoopIsFair == LifecycleSpec => FixLoopIsFair
<1>1. LifeInv => EscalatesOnce /\ RepeatedObjectionEnds /\ RevisedByItsAuthor
  <2> SUFFICES ASSUME LifeInv
               PROVE  RepeatedObjectionEnds
    BY DEF LifeInv, CountInv, PlanInv
  <2>1. \A c \in Claims : seen.raised[c] \in Nat
    BY DEF LifeInv, LifeTypes, SeenRecord
  <2>2. \A c \in Claims : seen.raised[c] <= 1 <=> ~(seen.raised[c] > 1)
    BY <2>1
  <2>3. /\ place = "build" => \A c \in Claims : seen.raised[c] <= 1
        /\ outcome = "record" =>
             loop.verdict = "approve" \/ (\A c \in Claims : seen.raised[c] <= 1)
             \/ loop.stopped \in {"objection_standing", "harness fault"}
    BY DEF LifeInv, RaisedInv
  <2> QED BY <2>2, <2>3 DEF RepeatedObjectionEnds
<1>2. LifeInv /\ [LifecycleStep]_lifecycleVars =>
        [place = "loop" /\ place' = "build" =>
           /\ judged.of = build.id
           /\ judged.handoff = "incomplete" \/ Usable(judged.charter) \/ Usable(judged.adversary)]_lifecycleVars
  <2> SUFFICES ASSUME LifeInv, LifecycleStep, place = "loop", place' = "build"
               PROVE  /\ judged.of = build.id
                      /\ judged.handoff = "incomplete" \/ Usable(judged.charter) \/ Usable(judged.adversary)
    OBVIOUS
  <2>1. ~loop.frozen /\ ~loop.silent
    <3>1. SendBack
      BY DEF LifecycleStep, ScopeEpic, FirstPlan, PlanCompetition, PlanAttack, PlanFails, Builds, BuildStops,
         BuildFails, ResumeBuild, CheckpointStopsBuild, ContinuationRefused, RetryStopped, AskAgain, FreezeBuild,
         TakeFirstBuild, TakeRetry, Handoff, ReviewCharter, ReviewAdversary, Arbitrate, ReviewRound, RoundFails,
         ArbiterFails, LoopIsOver, Finish
    <3> QED BY <3>1 DEF SendBack, LoopGoesOn
  <2> QED BY <2>1 DEF LifeInv, RoundInv, VerdictInv
<1> QED BY <1>1, <1>2, LifeInitInv, LifeStepInv, PTL DEF LifecycleSpec, FixLoopIsFair, NoRebuildAgainstSilence

-----------------------------------------------------------------------------
(* initiative-decompose: the invariant.  A plan keeps its edges and phases *)
(* until it is split by repository, and its parts keep them after.         *)
Stages == {"start", "decompose", "challenge", "cycle", "surfaces", "resolve", "lint", "correct", "emit",
           "proposed", "refused"}

\* Of any set of tasks, one needs none of the others.
Acyclic(ts) == \A set \in (SUBSET DOMAIN ts) \ {{}} : \E t \in set : ts[t].needs \cap set = {}

\* The tasks of a plan with its needs and phases, whatever their surfaces.
SameGraph(ts, whole) ==
  /\ DOMAIN ts = DOMAIN whole
  /\ \A t \in DOMAIN whole : ts[t].needs = whole[t].needs /\ ts[t].phase = whole[t].phase

\* The parts of a plan's tasks: in the task's phase, and waiting for what the task waited for.
PartsKeep(ts, whole) ==
  \A t \in DOMAIN whole, i \in DOMAIN ts : IsPartOf(i, t) =>
    /\ ts[i].phase = whole[t].phase
    /\ \A n \in whole[t].needs \cap DOMAIN whole, j \in DOMAIN ts : IsPartOf(j, n) => j \in ts[i].needs

\* No need names a part of a task that is not split yet.
WholesNamed(ts) == \A t, u \in DOMAIN ts : \A n \in ts[t].needs : IsPartOf(n, u) => n = u
NoPartIsNamed == \A whole \in Plans : WholesNamed(whole)

InOneRepo(ts) == \A t \in DOMAIN ts : Cardinality(ReposOf(ts[t])) <= 1

Books ==
  /\ mode \in Modes /\ turn \in 1..2 /\ single \in BOOLEAN /\ at \in Stages
  /\ sizeRecord \in {"none", "task", "epic", "fallback"}
  /\ (sizeRecord = "task") = single
  /\ IsPlan(tasks) /\ IsPlan(agreed)
  /\ IsFiniteSet(phases) /\ \A d \in phases : d = <<d[1], d[2]>> /\ d[2] \in Nat
  /\ at = "challenge" => mode.adversary

\* Where the plan is on its way, and what is known of it there.
DraftInv ==
  /\ Books
  /\ at \in {"challenge", "cycle"} => tasks = agreed
  /\ at \in {"surfaces", "resolve"} => SameGraph(tasks, agreed)
  /\ at \in {"lint", "correct", "emit"} => PartsKeep(tasks, agreed)
  /\ at \in {"surfaces", "resolve"} => Acyclic(tasks)
  /\ at \in {"lint", "correct", "emit"} /\ mode.tree => InOneRepo(tasks)
  /\ SplitIsOrdered
  /\ at = "proposed" => \A t \in Ids : tasks[t].needs \subseteq Ids /\ tasks[t].phase \in phases
  /\ EdgesSurvive /\ PhaseIsNoGuess /\ OneRepoEach

\* That no task waits for itself is kept by a split, unless a need is the name of a part.
DagInv ==
  /\ at \in {"challenge", "cycle", "surfaces", "resolve"} => WholesNamed(tasks)
  /\ at \in {"lint", "correct", "emit"} => Acyclic(tasks)
  /\ PlanIsADag

-----------------------------------------------------------------------------
(* Ids and their parts *)

\* A part begins with the id of its task, number by number.
LEMMA BeginsWith ==
  ASSUME NEW i \in Seq(Nat), NEW t \in Seq(Nat)
  PROVE  IsPartOf(i, t) <=> Len(t) <= Len(i) /\ \A x \in 1..Len(t) : i[x] = t[x]
<1>1. ASSUME Len(t) <= Len(i)
      PROVE  /\ SubSeq(i, 1, Len(t)) \in Seq(Nat) /\ Len(SubSeq(i, 1, Len(t))) = Len(t)
             /\ \A x \in 1..Len(t) : SubSeq(i, 1, Len(t))[x] = i[x]
  BY <1>1
<1>2. ASSUME Len(t) <= Len(i), \A x \in 1..Len(t) : i[x] = t[x]
      PROVE  SubSeq(i, 1, Len(t)) = t
  BY <1>1, <1>2, SeqEqual
<1> QED
  BY <1>1, <1>2 DEF IsPartOf

\* Of two beginnings of one id, one begins the other.
LEMMA OneBeginsTheOther ==
  ASSUME NEW i \in Seq(Nat), NEW t \in Seq(Nat), NEW u \in Seq(Nat), IsPartOf(i, t), IsPartOf(i, u)
  PROVE  IsPartOf(t, u) \/ IsPartOf(u, t)
<1>1. Len(t) \in Nat /\ Len(u) \in Nat
  OBVIOUS
<1>2. CASE Len(t) <= Len(u)
  BY <1>1, <1>2, BeginsWith
<1>3. CASE Len(u) <= Len(t)
  BY <1>1, <1>3, BeginsWith
<1> QED
  BY <1>1, <1>2, <1>3

LEMMA BeginsItself ==
  ASSUME NEW t \in Seq(Nat)
  PROVE  IsPartOf(t, t)
  BY BeginsWith

LEMMA BeginningsChain ==
  ASSUME NEW i \in Seq(Nat), NEW t \in Seq(Nat), NEW u \in Seq(Nat), IsPartOf(i, t), IsPartOf(t, u)
  PROVE  IsPartOf(i, u)
<1>1. Len(u) <= Len(t) /\ Len(t) <= Len(i) /\ Len(t) \in Nat /\ Len(u) \in Nat /\ Len(i) \in Nat
  BY BeginsWith
<1>2. ASSUME NEW x \in 1..Len(u)
      PROVE  i[x] = u[x]
  <2>1. x \in 1..Len(t)
    BY <1>1
  <2> QED
    BY <1>2, <2>1, BeginsWith
<1> QED
  BY <1>1, <1>2, BeginsWith

\* A task touches no more than the two repositories of the model.
LEMMA ReposAre ==
  ASSUME NEW task
  PROVE  ReposOf(task) \subseteq {1, 2}
  BY DEF ReposOf, RepoOf

\* The parts of a task: the task itself, or one with each repository at its end.
LEMMA PartsAre ==
  ASSUME NEW ts, NEW t \in Seq(Nat), NEW k \in PartsOf(ts, t)
  PROVE  /\ k \in Seq(Nat) /\ IsPartOf(k, t)
         /\ \/ k = t /\ PartsOf(ts, t) = {t} /\ Cardinality(ReposOf(ts[t])) <= 1
            \/ /\ k # t /\ Len(k) = Len(t) + 1 /\ k[Len(k)] \in ReposOf(ts[t])
               /\ ~(Cardinality(ReposOf(ts[t])) <= 1)
<1>1. CASE Cardinality(ReposOf(ts[t])) <= 1
  BY <1>1, BeginsItself DEF PartsOf
<1>2. CASE ~(Cardinality(ReposOf(ts[t])) <= 1)
  <2>1. PICK r \in ReposOf(ts[t]) : k = Append(t, r)
    BY <1>2 DEF PartsOf
  <2>2. r \in Nat
    BY ReposAre
  <2>3. /\ k \in Seq(Nat) /\ Len(k) = Len(t) + 1 /\ k[Len(t) + 1] = r
        /\ \A x \in 1..Len(t) : k[x] = t[x]
    BY <2>1, <2>2
  <2>4. Len(t) \in Nat
    OBVIOUS
  <2> QED
    BY <1>2, <2>3, <2>4, BeginsWith
<1> QED
  BY <1>1, <1>2

\* Two parts of a task of which one begins the other are one part.
LEMMA PartsAreApart ==
  ASSUME NEW ts, NEW t \in Seq(Nat), NEW k \in PartsOf(ts, t), NEW i \in PartsOf(ts, t), IsPartOf(k, i)
  PROVE  k = i
<1>1. /\ k \in Seq(Nat) /\ i \in Seq(Nat) /\ Len(k) = Len(i)
  BY PartsAre
<1>2. \A x \in 1..Len(i) : k[x] = i[x]
  BY <1>1, BeginsWith
<1> QED
  BY <1>1, <1>2, SeqEqual

-----------------------------------------------------------------------------
(* The split by repository *)

\* What a change of its needs, or of its surfaces, leaves of a task.
LEMMA RestatedTask ==
  ASSUME NEW task, IsTask(task), NEW needs
  PROVE  /\ IsTask([task EXCEPT !.needs = needs])
         /\ [task EXCEPT !.needs = needs].needs = needs
         /\ [task EXCEPT !.needs = needs].phase = task.phase
         /\ [task EXCEPT !.needs = needs].surfaces = task.surfaces
<1>1. task = [phase |-> task.phase, needs |-> task.needs, surfaces |-> task.surfaces,
              body |-> task.body, side |-> task.side, repo |-> task.repo]
  BY DEF IsTask
<1>2. [task EXCEPT !.needs = needs]
        = [phase |-> task.phase, needs |-> needs, surfaces |-> task.surfaces,
           body |-> task.body, side |-> task.side, repo |-> task.repo]
  BY <1>1
<1>3. task.phase = <<task.phase[1], task.phase[2]>> /\ task.phase[2] \in Nat /\ task.surfaces \subseteq Surfaces
  BY DEF IsTask
<1> QED
  BY <1>2, <1>3 DEF IsTask

LEMMA ResurfacedTask ==
  ASSUME NEW task, IsTask(task), NEW surfaces \in SUBSET Surfaces
  PROVE  /\ IsTask([task EXCEPT !.surfaces = surfaces])
         /\ [task EXCEPT !.surfaces = surfaces].surfaces = surfaces
         /\ [task EXCEPT !.surfaces = surfaces].phase = task.phase
         /\ [task EXCEPT !.surfaces = surfaces].needs = task.needs
<1>1. task = [phase |-> task.phase, needs |-> task.needs, surfaces |-> task.surfaces,
              body |-> task.body, side |-> task.side, repo |-> task.repo]
  BY DEF IsTask
<1>2. [task EXCEPT !.surfaces = surfaces]
        = [phase |-> task.phase, needs |-> task.needs, surfaces |-> surfaces,
           body |-> task.body, side |-> task.side, repo |-> task.repo]
  BY <1>1
<1>3. task.phase = <<task.phase[1], task.phase[2]>> /\ task.phase[2] \in Nat
  BY DEF IsTask
<1> QED
  BY <1>2, <1>3 DEF IsTask

LEMMA MovedTask ==
  ASSUME NEW task, IsTask(task), NEW base, NEW level \in Nat
  PROVE  /\ IsTask([task EXCEPT !.phase = <<base, level>>])
         /\ [task EXCEPT !.phase = <<base, level>>].phase = <<base, level>>
         /\ [task EXCEPT !.phase = <<base, level>>].needs = task.needs
         /\ [task EXCEPT !.phase = <<base, level>>].surfaces = task.surfaces
<1>1. task = [phase |-> task.phase, needs |-> task.needs, surfaces |-> task.surfaces,
              body |-> task.body, side |-> task.side, repo |-> task.repo]
  BY DEF IsTask
<1>2. [task EXCEPT !.phase = <<base, level>>]
        = [phase |-> <<base, level>>, needs |-> task.needs, surfaces |-> task.surfaces,
           body |-> task.body, side |-> task.side, repo |-> task.repo]
  BY <1>1
<1>3. task.surfaces \subseteq Surfaces
  BY DEF IsTask
<1>4. <<base, level>>[1] = base /\ <<base, level>>[2] = level
  OBVIOUS
<1> QED
  BY <1>2, <1>3, <1>4 DEF IsTask

\* Every id of the split plan is a part of one task.
LEMMA SplitIds ==
  ASSUME NEW ts, IsPlan(ts), NEW k \in DOMAIN SplitCrossRepo(ts)
  PROVE  /\ PartOf(ts, k) \in DOMAIN ts /\ k \in PartsOf(ts, PartOf(ts, k)) /\ k \in Seq(Nat)
         /\ \A t \in DOMAIN ts : IsPartOf(k, t) => t = PartOf(ts, k)
<1>1. k \in UNION {PartsOf(ts, t) : t \in DOMAIN ts}
  BY DEF SplitCrossRepo
<1>2. \E t \in DOMAIN ts : k \in PartsOf(ts, t)
  BY <1>1
<1>3. PartOf(ts, k) \in DOMAIN ts /\ k \in PartsOf(ts, PartOf(ts, k))
  BY <1>2 DEF PartOf
<1>4. DOMAIN ts \subseteq Seq(Nat) /\ Apart(DOMAIN ts)
  BY DEF IsPlan
<1>5. k \in Seq(Nat) /\ IsPartOf(k, PartOf(ts, k))
  BY <1>3, <1>4, PartsAre
<1>6. ASSUME NEW t \in DOMAIN ts, IsPartOf(k, t)
      PROVE  t = PartOf(ts, k)
  <2>1. IsPartOf(t, PartOf(ts, k)) \/ IsPartOf(PartOf(ts, k), t)
    BY <1>3, <1>4, <1>5, <1>6, OneBeginsTheOther
  <2> QED
    BY <1>3, <1>4, <2>1 DEF Apart
<1> QED
  BY <1>3, <1>5, <1>6

LEMMA PartsAreThere ==
  ASSUME NEW ts, NEW t \in DOMAIN ts, NEW k \in PartsOf(ts, t)
  PROVE  k \in DOMAIN SplitCrossRepo(ts)
<1>1. k \in UNION {PartsOf(ts, u) : u \in DOMAIN ts}
  OBVIOUS
<1> QED
  BY <1>1 DEF SplitCrossRepo

\* What a part has of its task.
LEMMA SplitTask ==
  ASSUME NEW ts, IsPlan(ts), NEW k \in DOMAIN SplitCrossRepo(ts)
  PROVE  /\ IsTask(SplitCrossRepo(ts)[k])
         /\ SplitCrossRepo(ts)[k].phase = ts[PartOf(ts, k)].phase
         /\ SplitCrossRepo(ts)[k].needs =
              UNION {IF n \in DOMAIN ts THEN PartsOf(ts, n) ELSE {n} : n \in ts[PartOf(ts, k)].needs}
         /\ SplitCrossRepo(ts)[k].surfaces =
              (IF k = PartOf(ts, k) THEN ts[PartOf(ts, k)].surfaces ELSE OnlyIn(ts[PartOf(ts, k)], k[Len(k)]))
<1> DEFINE task == ts[PartOf(ts, k)]
           needs == UNION {IF n \in DOMAIN ts THEN PartsOf(ts, n) ELSE {n} : n \in task.needs}
           surfaces == IF k = PartOf(ts, k) THEN task.surfaces ELSE OnlyIn(task, k[Len(k)])
<1>1. SplitCrossRepo(ts)[k] = [task EXCEPT !.needs = needs, !.surfaces = surfaces]
  BY DEF SplitCrossRepo
<1>2. IsTask(task)
  BY SplitIds DEF IsPlan
<1>3. surfaces \in SUBSET Surfaces
  BY <1>2 DEF IsTask, OnlyIn
<1> HIDE DEF task, needs, surfaces
<1>4. SplitCrossRepo(ts)[k] = [[task EXCEPT !.needs = needs] EXCEPT !.surfaces = surfaces]
  BY <1>1
<1>5. /\ IsTask([task EXCEPT !.needs = needs])
      /\ [task EXCEPT !.needs = needs].needs = needs
      /\ [task EXCEPT !.needs = needs].phase = task.phase
  BY <1>2, RestatedTask
<1> DEFINE first == [task EXCEPT !.needs = needs]
<1> HIDE DEF first
<1>6. /\ IsTask([first EXCEPT !.surfaces = surfaces])
      /\ [first EXCEPT !.surfaces = surfaces].surfaces = surfaces
      /\ [first EXCEPT !.surfaces = surfaces].phase = first.phase
      /\ [first EXCEPT !.surfaces = surfaces].needs = first.needs
  BY <1>3, <1>5, ResurfacedTask DEF first
<1> QED
  BY <1>4, <1>5, <1>6 DEF first, task, needs, surfaces

\* A split plan is a plan.
LEMMA SplitIsPlan ==
  ASSUME NEW ts, IsPlan(ts)
  PROVE  IsPlan(SplitCrossRepo(ts))
<1> DEFINE new == SplitCrossRepo(ts)
<1>1. new = [k \in DOMAIN new |-> new[k]]
  BY DEF SplitCrossRepo
<1>2. IsFiniteSet(DOMAIN new)
  <2>1. IsFiniteSet({PartsOf(ts, t) : t \in DOMAIN ts})
    <3>1. [t \in DOMAIN ts |-> PartsOf(ts, t)] \in Surjection(DOMAIN ts, {PartsOf(ts, t) : t \in DOMAIN ts})
      BY DEF Surjection
    <3> QED
      BY <3>1, FS_Surjection, Zenon DEF IsPlan
  <2>2. ASSUME NEW t \in DOMAIN ts
        PROVE  IsFiniteSet(PartsOf(ts, t))
    <3>1. PartsOf(ts, t) \in SUBSET (({t} \cup {Append(t, 1)}) \cup {Append(t, 2)})
      BY ReposAre DEF PartsOf
    <3>2. IsFiniteSet({t}) /\ IsFiniteSet({Append(t, 1)}) /\ IsFiniteSet({Append(t, 2)})
      BY FS_Singleton
    <3>3. IsFiniteSet(({t} \cup {Append(t, 1)}) \cup {Append(t, 2)})
      BY <3>2, FS_Union
    <3> QED
      BY <3>1, <3>3, FS_Subset
  <2>3. IsFiniteSet(UNION {PartsOf(ts, t) : t \in DOMAIN ts})
    BY <2>1, <2>2, FS_UNION
  <2> QED
    BY <2>3 DEF SplitCrossRepo
<1>3. DOMAIN new \subseteq Seq(Nat)
  BY SplitIds
<1>4. ASSUME NEW k \in DOMAIN new, NEW i \in DOMAIN new, IsPartOf(k, i)
      PROVE  k = i
  <2>1. /\ PartOf(ts, i) \in DOMAIN ts /\ PartOf(ts, i) \in Seq(Nat) /\ i \in PartsOf(ts, PartOf(ts, i))
        /\ k \in PartsOf(ts, PartOf(ts, k)) /\ k \in Seq(Nat) /\ i \in Seq(Nat)
    BY SplitIds DEF IsPlan
  <2>2. IsPartOf(k, PartOf(ts, i))
    BY <1>4, <2>1, PartsAre, BeginningsChain
  <2>3. PartOf(ts, i) = PartOf(ts, k)
    BY <2>1, <2>2, SplitIds
  <2> QED
    BY <1>4, <2>1, <2>3, PartsAreApart
<1>5. \A k \in DOMAIN new : IsTask(new[k])
  BY SplitTask
<1> HIDE DEF new
<1>6. Apart(DOMAIN new)
  BY <1>4 DEF Apart
<1>7. IsPlan(new)
  BY <1>1, <1>2, <1>3, <1>5, <1>6 DEF IsPlan
<1> QED
  BY <1>7 DEF new

\* The parts keep phase and needs of the plan that was split.
LEMMA SplitKeeps ==
  ASSUME NEW ts, NEW whole, IsPlan(ts), SameGraph(ts, whole)
  PROVE  PartsKeep(SplitCrossRepo(ts), whole)
<1> SUFFICES ASSUME NEW t \in DOMAIN whole, NEW i \in DOMAIN SplitCrossRepo(ts), IsPartOf(i, t)
             PROVE  /\ SplitCrossRepo(ts)[i].phase = whole[t].phase
                    /\ \A n \in whole[t].needs \cap DOMAIN whole, j \in DOMAIN SplitCrossRepo(ts) :
                         IsPartOf(j, n) => j \in SplitCrossRepo(ts)[i].needs
  BY DEF PartsKeep
<1>1. t \in DOMAIN ts /\ t = PartOf(ts, i) /\ ts[t].phase = whole[t].phase /\ ts[t].needs = whole[t].needs
  BY SplitIds DEF SameGraph
<1>2. ASSUME NEW n \in whole[t].needs \cap DOMAIN whole, NEW j \in DOMAIN SplitCrossRepo(ts), IsPartOf(j, n)
      PROVE  j \in SplitCrossRepo(ts)[i].needs
  <2>1. n \in DOMAIN ts
    BY DEF SameGraph
  <2>2. n = PartOf(ts, j) /\ j \in PartsOf(ts, n)
    BY <1>2, <2>1, SplitIds
  <2>3. n \in ts[PartOf(ts, i)].needs
    BY <1>1
  <2> QED
    BY <2>1, <2>2, <2>3, SplitTask
<1> QED
  BY <1>1, <1>2, SplitTask

\* A plan that is not split keeps them as it is.
LEMMA WholeKeeps ==
  ASSUME NEW ts, NEW whole, IsPlan(ts), SameGraph(ts, whole)
  PROVE  PartsKeep(ts, whole)
  BY DEF PartsKeep, SameGraph, IsPlan, Apart

\* Waiting for each other is not brought in by a split.
LEMMA SplitIsAcyclic ==
  ASSUME NEW ts, IsPlan(ts), Acyclic(ts), WholesNamed(ts)
  PROVE  Acyclic(SplitCrossRepo(ts))
<1> SUFFICES ASSUME NEW set \in (SUBSET DOMAIN SplitCrossRepo(ts)) \ {{}}
             PROVE  \E i \in set : SplitCrossRepo(ts)[i].needs \cap set = {}
  BY DEF Acyclic
<1> DEFINE wholes == {PartOf(ts, i) : i \in set}
<1>1. wholes \in (SUBSET DOMAIN ts) \ {{}}
  <2>1. PICK i : i \in set
    OBVIOUS
  <2>2. PartOf(ts, i) \in wholes
    BY <2>1
  <2>3. wholes \subseteq DOMAIN ts
    BY SplitIds
  <2> QED
    BY <2>2, <2>3
<1>2. PICK t \in wholes : ts[t].needs \cap wholes = {}
  <2> HIDE DEF wholes
  <2> QED
    BY <1>1 DEF Acyclic
<1>3. PICK i \in set : t = PartOf(ts, i)
  OBVIOUS
<1>4. ASSUME NEW j \in set, j \in SplitCrossRepo(ts)[i].needs
      PROVE  FALSE
  <2>1. /\ j \in DOMAIN SplitCrossRepo(ts) /\ i \in DOMAIN SplitCrossRepo(ts)
        /\ PartOf(ts, j) \in wholes /\ PartOf(ts, j) \in DOMAIN ts
    BY SplitIds
  <2>2. PICK n \in ts[t].needs : j \in (IF n \in DOMAIN ts THEN PartsOf(ts, n) ELSE {n})
    BY <1>3, <1>4, <2>1, SplitTask
  <2>3. CASE n \in DOMAIN ts
    <3>1. n \in Seq(Nat) /\ j \in PartsOf(ts, n)
      BY <2>2, <2>3 DEF IsPlan
    <3>2. IsPartOf(j, n)
      BY <3>1, PartsAre
    <3>3. n = PartOf(ts, j)
      BY <2>1, <2>3, <3>2, SplitIds
    <3> QED
      BY <1>2, <2>1, <3>3
  <2>4. CASE n \notin DOMAIN ts
    <3>1. j = n /\ t \in DOMAIN ts
      <4>1. t \in DOMAIN ts
        BY <1>3, <2>1, SplitIds
      <4> QED
        BY <2>2, <2>4, <4>1
    <3>2. PartOf(ts, j) \in Seq(Nat) /\ j \in PartsOf(ts, PartOf(ts, j))
      BY <2>1, SplitIds DEF IsPlan
    <3>3. IsPartOf(j, PartOf(ts, j))
      BY <3>2, PartsAre
    <3> QED
      BY <2>1, <2>4, <3>1, <3>3 DEF WholesNamed
  <2> QED
    BY <2>3, <2>4
<1> QED
  BY <1>3, <1>4

-----------------------------------------------------------------------------
(* What a task waits for *)

(* Induction over data *)

\* A set of numbers has a least one: the well-foundedness of < in a form that names no operator.
LEMMA LeastNumber ==
  ASSUME NEW S, S \subseteq Nat, S # {}
  PROVE  \E m \in S : \A k \in S : m <= k
<1> DEFINE R == {p \in Nat \X Nat : p[1] < p[2]}
<1>1. OpToRel(<, Nat) = R
  BY DEF OpToRel
<1>2. IsWellFoundedOn(R, Nat)
  BY <1>1, NatLessThanWellFounded
<1>3. \A a, b \in Nat : a < b => <<a, b>> \in R
  <2> SUFFICES ASSUME NEW a \in Nat, NEW b \in Nat, a < b PROVE <<a, b>> \in R
    OBVIOUS
  <2>1. <<a, b>> \in Nat \X Nat
    OBVIOUS
  <2>2. <<a, b>>[1] < <<a, b>>[2]
    OBVIOUS
  <2> QED BY <2>1, <2>2
<1> HIDE DEF R
<1>4. PICK x \in S : \A y \in S : ~ (<<y, x>> \in R)
  BY <1>2, WFMin
<1>5. ASSUME NEW k \in S PROVE x <= k
  <2>1. k \in Nat /\ x \in Nat /\ ~ (k < x)
    BY <1>3, <1>4, ZenonT(20)
  <2> QED BY <2>1
<1> QED
  BY <1>5


\* The needs of a task are above it, and what is above those is above it too.
LEMMA AboveIsClosed ==
  ASSUME NEW ts, NEW t \in DOMAIN ts
  PROVE  /\ Above(ts, t) \in SUBSET DOMAIN ts
         /\ ts[t].needs \cap DOMAIN ts \subseteq Above(ts, t)
         /\ \A u \in Above(ts, t) : Above(ts, u) \subseteq Above(ts, t)
<1>1. Above(ts, t) \in SUBSET DOMAIN ts /\ ts[t].needs \cap DOMAIN ts \subseteq Above(ts, t)
  BY DEF Above
<1>2. ASSUME NEW u \in Above(ts, t), NEW v \in Above(ts, u)
      PROVE  v \in Above(ts, t)
  <2>1. v \in DOMAIN ts
    BY <1>2 DEF Above
  <2>2. ASSUME NEW set \in SUBSET DOMAIN ts, ts[t].needs \cap DOMAIN ts \subseteq set, Closed(ts, set)
        PROVE  v \in set
    <3>1. u \in set
      BY <2>2 DEF Above
    <3>2. ts[u].needs \cap DOMAIN ts \subseteq set
      BY <2>2, <3>1 DEF Closed
    <3> QED
      BY <1>2, <2>2, <3>2 DEF Above
  <2> QED
    BY <2>1, <2>2 DEF Above
<1> QED
  BY <1>1, <1>2

\* Without a cycle there is less above a need than above the task.
LEMMA LessAboveANeed ==
  ASSUME NEW ts, IsFiniteSet(DOMAIN ts), ~LocalCycle(ts), NEW t \in DOMAIN ts, NEW n \in ts[t].needs \cap DOMAIN ts
  PROVE  /\ Cardinality(Above(ts, n)) \in Nat /\ Cardinality(Above(ts, t)) \in Nat
         /\ Cardinality(Above(ts, n)) < Cardinality(Above(ts, t))
<1>1. Above(ts, t) \in SUBSET DOMAIN ts /\ n \in Above(ts, t) /\ Above(ts, n) \in SUBSET Above(ts, t)
  BY AboveIsClosed
<1>2. n \notin Above(ts, n)
  BY DEF LocalCycle
<1>3. IsFiniteSet(Above(ts, t)) /\ IsFiniteSet(Above(ts, n))
  BY <1>1, FS_Subset
<1>4. Cardinality(Above(ts, n)) \in Nat /\ Cardinality(Above(ts, t)) \in Nat
  BY <1>3, FS_CardinalityType
<1>5. /\ Cardinality(Above(ts, n)) <= Cardinality(Above(ts, t))
      /\ Cardinality(Above(ts, t)) # Cardinality(Above(ts, n))
  BY <1>1, <1>2, <1>3, FS_Subset
<1> QED
  BY <1>4, <1>5

\* A plan of which no task is above itself has in any set one that needs none of the set:
\* the one with the least above it.
LEMMA NoCycleIsAcyclic ==
  ASSUME NEW ts, IsFiniteSet(DOMAIN ts), ~LocalCycle(ts)
  PROVE  Acyclic(ts)
<1> SUFFICES ASSUME NEW set \in (SUBSET DOMAIN ts) \ {{}}
             PROVE  \E t \in set : ts[t].needs \cap set = {}
  BY DEF Acyclic
<1> DEFINE sizes == {Cardinality(Above(ts, t)) : t \in set}
<1>1. ASSUME NEW t \in DOMAIN ts
      PROVE  Cardinality(Above(ts, t)) \in Nat
  <2>1. Above(ts, t) \in SUBSET DOMAIN ts
    BY AboveIsClosed
  <2> QED
    BY <2>1, FS_Subset, FS_CardinalityType
<1>2. sizes \subseteq Nat /\ sizes # {}
  BY <1>1
<1>3. PICK m \in sizes : \A k \in sizes : m <= k
  <2> HIDE DEF sizes
  <2> QED
    BY <1>2, LeastNumber
<1>4. PICK t \in set : m = Cardinality(Above(ts, t))
  OBVIOUS
<1>5. ASSUME NEW n \in ts[t].needs \cap set
      PROVE  FALSE
  <2>1. /\ Cardinality(Above(ts, n)) \in Nat /\ Cardinality(Above(ts, t)) \in Nat
        /\ Cardinality(Above(ts, n)) < Cardinality(Above(ts, t))
    BY LessAboveANeed
  <2>2. Cardinality(Above(ts, t)) <= Cardinality(Above(ts, n))
    BY <1>3, <1>4
  <2> QED
    BY <2>1, <2>2
<1> QED
  BY <1>5

\* Cycles are a matter of ids and needs.
LEMMA SameCycles ==
  ASSUME NEW ts, NEW whole, DOMAIN ts = DOMAIN whole, \A t \in DOMAIN ts : ts[t].needs = whole[t].needs
  PROVE  /\ LocalCycle(ts) <=> LocalCycle(whole)
         /\ Acyclic(ts) <=> Acyclic(whole)
         /\ WholesNamed(ts) <=> WholesNamed(whole)
<1>1. \A set \in SUBSET DOMAIN ts : Closed(ts, set) <=> Closed(whole, set)
  BY DEF Closed
<1>2. \A t \in DOMAIN ts : Above(ts, t) = Above(whole, t)
  BY <1>1 DEF Above
<1>3. LocalCycle(ts) <=> LocalCycle(whole)
  BY <1>2 DEF LocalCycle
<1>4. Acyclic(ts) <=> Acyclic(whole)
  BY DEF Acyclic
<1> QED
  BY <1>3, <1>4 DEF WholesNamed

-----------------------------------------------------------------------------
(* Levels *)

\* A finite set of numbers has a greatest one.
LEMMA GreatestNumber ==
  ASSUME NEW S, S \subseteq Nat, S # {}, IsFiniteSet(S)
  PROVE  \E k \in S : \A l \in S : l <= k
<1> DEFINE beyond(k) == {l \in S : l > k}
           sizes == {Cardinality(beyond(k)) : k \in S}
<1>1. ASSUME NEW k \in S
      PROVE  IsFiniteSet(beyond(k)) /\ Cardinality(beyond(k)) \in Nat
  <2>1. beyond(k) \in SUBSET S
    OBVIOUS
  <2> QED
    BY <2>1, FS_Subset, FS_CardinalityType
<1>2. sizes \subseteq Nat /\ sizes # {}
  BY <1>1
<1>3. PICK m \in sizes : \A k \in sizes : m <= k
  <2> HIDE DEF sizes
  <2> QED
    BY <1>2, LeastNumber
<1>4. PICK k \in S : m = Cardinality(beyond(k))
  OBVIOUS
<1>5. ASSUME NEW l \in S, l > k
      PROVE  FALSE
  <2>1. beyond(l) \in SUBSET beyond(k) /\ l \in beyond(k) /\ l \notin beyond(l)
    <3>1. l \in Nat /\ k \in Nat /\ \A j \in S : j \in Nat
      OBVIOUS
    <3>2. \A j \in S : j > l => j > k
      BY <1>5, <3>1
    <3>3. ~(l > l)
      BY <3>1
    <3> QED
      BY <1>5, <3>2, <3>3
  <2>2. Cardinality(beyond(l)) <= Cardinality(beyond(k)) /\ Cardinality(beyond(l)) # Cardinality(beyond(k))
    <3> HIDE DEF beyond
    <3> QED
      BY <1>1, <2>1, FS_Subset
  <2>3. Cardinality(beyond(k)) <= Cardinality(beyond(l))
    BY <1>3, <1>4
  <2> HIDE DEF beyond
  <2> QED
    BY <1>1, <2>2, <2>3
<1> QED
  BY <1>5

\* The level of a task along a path, by the levels of what it needs.
Deepest(S) == CHOOSE k \in S : \A l \in S : l <= k
Needed(ts, t, path) == SamePhaseNeeds(ts, t) \ path
LevelBy(ts, f, t, path) ==
  IF Needed(ts, t, path) = {} THEN 0 ELSE 1 + Deepest({f[<<n, path \cup {t}>>] : n \in Needed(ts, t, path)})

LEMMA DeepestIs ==
  ASSUME NEW S, S \subseteq Nat, S # {}, IsFiniteSet(S)
  PROVE  Deepest(S) \in Nat /\ \A l \in S : l <= Deepest(S)
<1>1. \E k \in S : \A l \in S : l <= k
  BY GreatestNumber
<1>2. Deepest(S) \in S /\ \A l \in S : l <= Deepest(S)
  BY <1>1, Zenon DEF Deepest
<1> QED
  BY <1>2

\* What is left of a way: it gets shorter with each need.
Left(ts, t, path) == 2 * Cardinality(DOMAIN ts \ path) + (IF t \in path THEN 1 ELSE 0)

LEMMA WayGetsShorter ==
  ASSUME NEW ts, IsFiniteSet(DOMAIN ts), NEW t \in DOMAIN ts, NEW path \in SUBSET DOMAIN ts,
         NEW n \in Needed(ts, t, path)
  PROVE  /\ n \in DOMAIN ts /\ path \cup {t} \in SUBSET DOMAIN ts
         /\ Left(ts, n, path \cup {t}) \in Nat /\ Left(ts, t, path) \in Nat
         /\ Left(ts, n, path \cup {t}) < Left(ts, t, path)
<1>1. n \in DOMAIN ts /\ n \notin path
  BY DEF Needed, SamePhaseNeeds
<1> DEFINE rest == (DOMAIN ts) \ path
           after == (DOMAIN ts) \ (path \cup {t})
<1>2. rest \in SUBSET DOMAIN ts /\ after \in SUBSET rest
  OBVIOUS
<1>3. IsFiniteSet(rest) /\ IsFiniteSet(after)
  BY <1>2, FS_Subset
<1>4. Cardinality(rest) \in Nat /\ Cardinality(after) \in Nat
  BY <1>3, FS_CardinalityType
<1>5. CASE t \in path
  <2>1. after = rest /\ n \notin path \cup {t}
    BY <1>1, <1>5
  <2>2. Left(ts, n, path \cup {t}) = 2 * Cardinality(after) + 0 /\ Left(ts, t, path) = 2 * Cardinality(rest) + 1
    BY <1>5, <2>1 DEF Left
  <2> HIDE DEF rest, after
  <2> QED
    BY <1>1, <1>4, <2>1, <2>2
<1>6. CASE t \notin path
  <2>1. t \in rest /\ t \notin after
    BY <1>6
  <2> HIDE DEF rest, after
  <2>2. Cardinality(after) <= Cardinality(rest) /\ Cardinality(after) # Cardinality(rest)
    BY <1>2, <1>3, <2>1, FS_Subset
  <2>3. Cardinality(after) + 1 <= Cardinality(rest)
    BY <1>4, <2>2
  <2>4. Left(ts, t, path) = 2 * Cardinality(rest)
    BY <1>4, <1>6 DEF Left, rest
  <2>5. \/ Left(ts, n, path \cup {t}) = 2 * Cardinality(after)
        \/ Left(ts, n, path \cup {t}) = 2 * Cardinality(after) + 1
    BY <1>4 DEF Left, after
  <2> QED
    BY <1>1, <1>4, <2>3, <2>4, <2>5
<1> QED
  BY <1>5, <1>6

\* Levels for all the ways of which no more than m is left.
LevelsUpTo(ts, m) ==
  \E f : \A t \in DOMAIN ts : \A path \in SUBSET DOMAIN ts :
    Left(ts, t, path) <= m => f[<<t, path>>] \in Nat /\ f[<<t, path>>] = LevelBy(ts, f, t, path)

\* The levels along a way are numbers when those after it are, and depend on those only.
LEMMA LevelByIs ==
  ASSUME NEW ts, IsFiniteSet(DOMAIN ts), NEW t \in DOMAIN ts, NEW path \in SUBSET DOMAIN ts, NEW f, NEW g,
         \A n \in Needed(ts, t, path) : f[<<n, path \cup {t}>>] \in Nat /\ f[<<n, path \cup {t}>>] = g[<<n, path \cup {t}>>]
  PROVE  /\ LevelBy(ts, f, t, path) \in Nat /\ LevelBy(ts, f, t, path) = LevelBy(ts, g, t, path)
         /\ \A n \in Needed(ts, t, path) : f[<<n, path \cup {t}>>] < LevelBy(ts, f, t, path)
<1> DEFINE below(h) == {h[<<n, path \cup {t}>>] : n \in Needed(ts, t, path)}
<1>1. below(f) = below(g) /\ below(f) \subseteq Nat
  OBVIOUS
<1>2. IsFiniteSet(below(f))
  <2>1. Needed(ts, t, path) \in SUBSET DOMAIN ts
    BY DEF Needed, SamePhaseNeeds
  <2>2. IsFiniteSet(Needed(ts, t, path))
    BY <2>1, FS_Subset
  <2>3. [n \in Needed(ts, t, path) |-> f[<<n, path \cup {t}>>]] \in Surjection(Needed(ts, t, path), below(f))
    BY DEF Surjection
  <2> QED
    BY <2>2, <2>3, FS_Surjection
<1>3. CASE Needed(ts, t, path) = {}
  BY <1>3 DEF LevelBy
<1>4. CASE Needed(ts, t, path) # {}
  <2>1. below(f) # {}
    BY <1>4
  <2>2. /\ LevelBy(ts, f, t, path) = 1 + Deepest(below(f))
        /\ LevelBy(ts, g, t, path) = 1 + Deepest(below(g))
    BY <1>4 DEF LevelBy
  <2>3. \A n \in Needed(ts, t, path) : f[<<n, path \cup {t}>>] \in below(f)
    OBVIOUS
  <2> HIDE DEF below
  <2>4. Deepest(below(f)) \in Nat /\ \A l \in below(f) : l <= Deepest(below(f))
    BY <1>1, <1>2, <2>1, DeepestIs
  <2>5. \A l \in below(f) : l < 1 + Deepest(below(f))
    BY <1>1, <2>4
  <2> QED
    BY <1>1, <2>2, <2>3, <2>4, <2>5
<1> QED
  BY <1>3, <1>4

LEMMA LevelsGoOn ==
  ASSUME NEW ts, IsFiniteSet(DOMAIN ts), NEW m \in Nat, LevelsUpTo(ts, m)
  PROVE  LevelsUpTo(ts, m + 1)
<1>1. PICK f : \A t \in DOMAIN ts : \A path \in SUBSET DOMAIN ts :
                 Left(ts, t, path) <= m => f[<<t, path>>] \in Nat /\ f[<<t, path>>] = LevelBy(ts, f, t, path)
  BY DEF LevelsUpTo
<1> DEFINE g == [way \in (DOMAIN ts) \X (SUBSET DOMAIN ts) |->
                   IF Left(ts, way[1], way[2]) <= m THEN f[way] ELSE LevelBy(ts, f, way[1], way[2])]
<1>2. ASSUME NEW t \in DOMAIN ts, NEW path \in SUBSET DOMAIN ts
      PROVE  g[<<t, path>>] = IF Left(ts, t, path) <= m THEN f[<<t, path>>] ELSE LevelBy(ts, f, t, path)
  OBVIOUS
<1> HIDE DEF g
<1>3. ASSUME NEW t \in DOMAIN ts, NEW path \in SUBSET DOMAIN ts, Left(ts, t, path) <= m + 1
      PROVE  g[<<t, path>>] \in Nat /\ g[<<t, path>>] = LevelBy(ts, g, t, path)
  <2>1. ASSUME NEW n \in Needed(ts, t, path)
        PROVE  f[<<n, path \cup {t}>>] \in Nat /\ f[<<n, path \cup {t}>>] = g[<<n, path \cup {t}>>]
    <3>1. /\ n \in DOMAIN ts /\ path \cup {t} \in SUBSET DOMAIN ts
          /\ Left(ts, n, path \cup {t}) \in Nat /\ Left(ts, t, path) \in Nat
          /\ Left(ts, n, path \cup {t}) < Left(ts, t, path)
      BY WayGetsShorter
    <3>2. Left(ts, n, path \cup {t}) <= m
      BY <1>3, <3>1
    <3> QED
      BY <1>1, <1>2, <3>1, <3>2
  <2>2. LevelBy(ts, f, t, path) \in Nat /\ LevelBy(ts, f, t, path) = LevelBy(ts, g, t, path)
    BY <2>1, LevelByIs
  <2> QED
    BY <1>1, <1>2, <2>2
<1>4. \A t \in DOMAIN ts : \A path \in SUBSET DOMAIN ts :
        Left(ts, t, path) <= m + 1 => g[<<t, path>>] \in Nat /\ g[<<t, path>>] = LevelBy(ts, g, t, path)
  BY <1>3
<1> QED
  BY <1>4 DEF LevelsUpTo

\* Of every way something is left, and never more than of the first.
LEMMA LeftIs ==
  ASSUME NEW ts, IsFiniteSet(DOMAIN ts), NEW t \in DOMAIN ts, NEW path \in SUBSET DOMAIN ts
  PROVE  /\ Left(ts, t, path) \in Nat /\ Left(ts, t, path) > 0
         /\ Cardinality(DOMAIN ts) \in Nat /\ Left(ts, t, path) <= 2 * Cardinality(DOMAIN ts) + 1
<1> DEFINE rest == (DOMAIN ts) \ path
<1>1. rest \in SUBSET DOMAIN ts /\ (t \notin path => rest # {})
  OBVIOUS
<1>2. /\ IsFiniteSet(rest) /\ Cardinality(rest) <= Cardinality(DOMAIN ts)
  BY <1>1, FS_Subset
<1>3. Cardinality(rest) \in Nat /\ Cardinality(DOMAIN ts) \in Nat /\ (t \notin path => Cardinality(rest) # 0)
  BY <1>1, <1>2, FS_CardinalityType, FS_EmptySet
<1>4. /\ t \in path => Left(ts, t, path) = 2 * Cardinality(rest) + 1
      /\ t \notin path => Left(ts, t, path) = 2 * Cardinality(rest) + 0
  BY DEF Left
<1> HIDE DEF rest
<1> QED
  BY <1>2, <1>3, <1>4

LEMMA LevelsAll ==
  ASSUME NEW ts, IsFiniteSet(DOMAIN ts), NEW m \in Nat
  PROVE  LevelsUpTo(ts, m)
<1> DEFINE without == {k \in Nat : ~LevelsUpTo(ts, k)}
<1> SUFFICES ASSUME without # {}
             PROVE  FALSE
  OBVIOUS
<1>1. PICK k \in without : \A l \in without : k <= l
  <2>1. without \subseteq Nat
    OBVIOUS
  <2> HIDE DEF without
  <2> QED
    BY <2>1, LeastNumber
<1>2. LevelsUpTo(ts, 0)
  <2>1. ASSUME NEW t \in DOMAIN ts, NEW path \in SUBSET DOMAIN ts
        PROVE  ~(Left(ts, t, path) <= 0)
    BY LeftIs
  <2> QED
    BY <2>1 DEF LevelsUpTo
<1>3. k \in Nat /\ k # 0
  BY <1>2
<1>4. k - 1 \in Nat /\ ~(k <= k - 1) /\ (k - 1) + 1 = k
  BY <1>3
<1>5. LevelsUpTo(ts, k - 1)
  BY <1>1, <1>4
<1> QED
  BY <1>4, <1>5, LevelsGoOn

\* The definition of the levels defines them.
LEMMA LevelsAreDefined ==
  ASSUME NEW ts, IsFiniteSet(DOMAIN ts), NEW t \in DOMAIN ts, NEW path \in SUBSET DOMAIN ts
  PROVE  LevelFrom(ts)[<<t, path>>] = LevelBy(ts, LevelFrom(ts), t, path)
<1> DEFINE Is(g) == g = [way \in (DOMAIN ts) \X (SUBSET DOMAIN ts) |->
                           IF SamePhaseNeeds(ts, way[1]) \ way[2] = {} THEN 0
                           ELSE 1 + CHOOSE k \in {g[<<n, way[2] \cup {way[1]}>>] : n \in SamePhaseNeeds(ts, way[1]) \ way[2]} :
                                      \A l \in {g[<<n, way[2] \cup {way[1]}>>] : n \in SamePhaseNeeds(ts, way[1]) \ way[2]} : l <= k]
           from == CHOOSE g : Is(g)
           max == 2 * Cardinality(DOMAIN ts) + 1
<1>1. Cardinality(DOMAIN ts) \in Nat /\ max \in Nat
  BY FS_CardinalityType
<1>2. PICK f : \A u \in DOMAIN ts : \A way \in SUBSET DOMAIN ts :
                 Left(ts, u, way) <= max => f[<<u, way>>] \in Nat /\ f[<<u, way>>] = LevelBy(ts, f, u, way)
  <2> HIDE DEF max
  <2> QED
    BY <1>1, LevelsAll DEF LevelsUpTo
<1>3. \A u \in DOMAIN ts : \A way \in SUBSET DOMAIN ts : f[<<u, way>>] = LevelBy(ts, f, u, way)
  BY <1>2, LeftIs
<1> DEFINE g == [way \in (DOMAIN ts) \X (SUBSET DOMAIN ts) |-> f[way]]
<1>4. Is(g)
  <2>1. ASSUME NEW u \in DOMAIN ts, NEW way \in SUBSET DOMAIN ts
        PROVE  /\ g[<<u, way>>] = LevelBy(ts, g, u, way)
    <3>1. ASSUME NEW n \in Needed(ts, u, way)
          PROVE  g[<<n, way \cup {u}>>] = f[<<n, way \cup {u}>>]
      BY WayGetsShorter
    <3>2. {g[<<n, way \cup {u}>>] : n \in Needed(ts, u, way)} = {f[<<n, way \cup {u}>>] : n \in Needed(ts, u, way)}
      <4> HIDE DEF g
      <4> QED
        BY <3>1
    <3>3. g[<<u, way>>] = f[<<u, way>>]
      OBVIOUS
    <3> HIDE DEF g
    <3> QED
      BY <1>3, <3>2, <3>3 DEF LevelBy
  <2>2. ASSUME NEW x \in (DOMAIN ts) \X (SUBSET DOMAIN ts)
        PROVE  g[x] = LevelBy(ts, g, x[1], x[2])
    <3>1. x = <<x[1], x[2]>> /\ x[1] \in DOMAIN ts /\ x[2] \in SUBSET DOMAIN ts
      BY <2>2
    <3> HIDE DEF g
    <3> QED
      BY <2>1, <3>1
  <2>3. g = [way \in (DOMAIN ts) \X (SUBSET DOMAIN ts) |-> g[way]]
    OBVIOUS
  <2> HIDE DEF g
  <2>4. g = [way \in (DOMAIN ts) \X (SUBSET DOMAIN ts) |-> LevelBy(ts, g, way[1], way[2])]
    BY <2>2, <2>3
  <2> QED
    BY <2>4 DEF LevelBy, Needed, Deepest
<1>5. Is(from)
  <2> HIDE DEF Is
  <2> QED
    BY <1>4
<1>6. LevelFrom(ts) = from
  BY Zenon DEF LevelFrom
<1> HIDE DEF from
<1>7. /\ \A way \in (DOMAIN ts) \X (SUBSET DOMAIN ts) : from[way] = LevelBy(ts, from, way[1], way[2])
      /\ from = [way \in (DOMAIN ts) \X (SUBSET DOMAIN ts) |-> from[way]]
  BY <1>5 DEF LevelBy, Needed, Deepest
<1>8. <<t, path>> \in (DOMAIN ts) \X (SUBSET DOMAIN ts) /\ <<t, path>>[1] = t /\ <<t, path>>[2] = path
  OBVIOUS
<1>9. from[<<t, path>>] = LevelBy(ts, from, t, path)
  BY <1>7, <1>8
<1> QED
  BY <1>6, <1>9

\* Every level is a number, and more than those it is drawn from.
LEMMA LevelsAreNumbers ==
  ASSUME NEW ts, IsFiniteSet(DOMAIN ts), NEW t \in DOMAIN ts, NEW path \in SUBSET DOMAIN ts
  PROVE  LevelFrom(ts)[<<t, path>>] \in Nat
<1> DEFINE from == LevelFrom(ts)
           astray == {k \in Nat : \E u \in DOMAIN ts : \E way \in SUBSET DOMAIN ts :
                                    Left(ts, u, way) = k /\ from[<<u, way>>] \notin Nat}
<1> HIDE DEF from
<1> SUFFICES ASSUME astray # {}
             PROVE  FALSE
  <2>1. Left(ts, t, path) \in Nat
    BY LeftIs
  <2> QED
    BY <2>1 DEF from
<1>1. PICK k \in astray : \A l \in astray : k <= l
  <2>1. astray \subseteq Nat
    OBVIOUS
  <2> HIDE DEF astray
  <2> QED
    BY <2>1, LeastNumber
<1>2. PICK u \in DOMAIN ts : \E way \in SUBSET DOMAIN ts : Left(ts, u, way) = k /\ from[<<u, way>>] \notin Nat
  OBVIOUS
<1>3. PICK way \in SUBSET DOMAIN ts : Left(ts, u, way) = k /\ from[<<u, way>>] \notin Nat
  BY <1>2
<1>4. ASSUME NEW n \in Needed(ts, u, way)
      PROVE  from[<<n, way \cup {u}>>] \in Nat
  <2>1. /\ n \in DOMAIN ts /\ way \cup {u} \in SUBSET DOMAIN ts
        /\ Left(ts, n, way \cup {u}) \in Nat /\ Left(ts, u, way) \in Nat
        /\ Left(ts, n, way \cup {u}) < Left(ts, u, way)
    BY WayGetsShorter
  <2>2. ASSUME from[<<n, way \cup {u}>>] \notin Nat
        PROVE  Left(ts, n, way \cup {u}) \in astray
    BY <2>1, <2>2
  <2>3. Left(ts, n, way \cup {u}) \notin astray
    <3> HIDE DEF astray
    <3> QED
      BY <1>1, <1>3, <2>1
  <2> QED
    BY <2>2, <2>3
<1>5. LevelBy(ts, from, u, way) \in Nat
  BY <1>4, LevelByIs
<1>6. from[<<u, way>>] = LevelBy(ts, from, u, way)
  BY LevelsAreDefined DEF from
<1> QED
  BY <1>3, <1>5, <1>6

\* Without a cycle a path that leads to a task has nothing in common with what the task
\* waits for, and its level is the same along every such path.
Steady(ts, t) ==
  \A path \in SUBSET DOMAIN ts : path \cap Above(ts, t) = {} => LevelFrom(ts)[<<t, path>>] = Level(ts, t)

LEMMA NeedsAreApart ==
  ASSUME NEW ts, ~LocalCycle(ts), NEW t \in DOMAIN ts, NEW path \in SUBSET DOMAIN ts, path \cap Above(ts, t) = {},
         NEW n \in SamePhaseNeeds(ts, t)
  PROVE  /\ n \in Needed(ts, t, path) /\ n \in ts[t].needs \cap DOMAIN ts
         /\ path \cup {t} \in SUBSET DOMAIN ts /\ (path \cup {t}) \cap Above(ts, n) = {}
<1>1. n \in ts[t].needs \cap DOMAIN ts
  BY DEF SamePhaseNeeds
<1>2. n \in Above(ts, t) /\ Above(ts, n) \subseteq Above(ts, t)
  BY <1>1, AboveIsClosed
<1>3. t \notin Above(ts, t)
  BY DEF LocalCycle
<1> QED
  BY <1>1, <1>2, <1>3 DEF Needed

LEMMA LevelIsSteady ==
  ASSUME NEW ts, IsFiniteSet(DOMAIN ts), ~LocalCycle(ts), NEW t \in DOMAIN ts
  PROVE  Steady(ts, t)
<1> DEFINE size(u) == Cardinality(Above(ts, u))
           astray == {k \in Nat : \E u \in DOMAIN ts : size(u) = k /\ ~Steady(ts, u)}
<1>1. ASSUME NEW u \in DOMAIN ts
      PROVE  size(u) \in Nat
  <2>1. Above(ts, u) \in SUBSET DOMAIN ts
    BY AboveIsClosed
  <2> QED
    BY <2>1, FS_Subset, FS_CardinalityType
<1> SUFFICES ASSUME astray # {}
             PROVE  FALSE
  <2> HIDE DEF size
  <2> QED
    BY <1>1
<1>2. PICK k \in astray : \A l \in astray : k <= l
  <2>1. astray \subseteq Nat
    OBVIOUS
  <2> HIDE DEF astray
  <2> QED
    BY <2>1, LeastNumber
<1>3. PICK u \in DOMAIN ts : size(u) = k /\ ~Steady(ts, u)
  OBVIOUS
<1>4. ASSUME NEW n \in ts[u].needs \cap DOMAIN ts
      PROVE  Steady(ts, n)
  <2>1. size(n) \in Nat /\ size(u) \in Nat /\ size(n) < size(u)
    BY LessAboveANeed
  <2>2. size(n) \notin astray
    <3> HIDE DEF astray, size
    <3> QED
      BY <1>2, <1>3, <2>1
  <2>3. ~Steady(ts, n) => size(n) \in astray
    <3> HIDE DEF size
    <3> QED
      BY <2>1
  <2> QED
    BY <2>2, <2>3
<1>5. PICK path \in SUBSET DOMAIN ts : path \cap Above(ts, u) = {} /\ LevelFrom(ts)[<<u, path>>] # Level(ts, u)
  BY <1>3 DEF Steady
<1>6. ASSUME NEW way \in SUBSET DOMAIN ts, way \cap Above(ts, u) = {}
      PROVE  LevelBy(ts, LevelFrom(ts), u, way) =
               IF SamePhaseNeeds(ts, u) = {} THEN 0 ELSE 1 + Deepest({Level(ts, n) : n \in SamePhaseNeeds(ts, u)})
  <2>1. Needed(ts, u, way) = SamePhaseNeeds(ts, u)
    BY <1>6, NeedsAreApart DEF Needed
  <2>2. ASSUME NEW n \in SamePhaseNeeds(ts, u)
        PROVE  LevelFrom(ts)[<<n, way \cup {u}>>] = Level(ts, n)
    <3>1. /\ n \in ts[u].needs \cap DOMAIN ts
          /\ way \cup {u} \in SUBSET DOMAIN ts /\ (way \cup {u}) \cap Above(ts, n) = {}
      BY <1>6, NeedsAreApart
    <3> QED
      BY <1>4, <3>1 DEF Steady
  <2>3. {LevelFrom(ts)[<<n, way \cup {u}>>] : n \in SamePhaseNeeds(ts, u)} = {Level(ts, n) : n \in SamePhaseNeeds(ts, u)}
    BY <2>2
  <2> QED
    BY <2>1, <2>3 DEF LevelBy
<1>7. LevelBy(ts, LevelFrom(ts), u, path) = LevelBy(ts, LevelFrom(ts), u, {})
  <2>1. {} \in SUBSET DOMAIN ts /\ {} \cap Above(ts, u) = {}
    OBVIOUS
  <2>2. LevelBy(ts, LevelFrom(ts), u, {}) =
          IF SamePhaseNeeds(ts, u) = {} THEN 0 ELSE 1 + Deepest({Level(ts, n) : n \in SamePhaseNeeds(ts, u)})
    BY <1>6, <2>1
  <2>3. LevelBy(ts, LevelFrom(ts), u, path) =
          IF SamePhaseNeeds(ts, u) = {} THEN 0 ELSE 1 + Deepest({Level(ts, n) : n \in SamePhaseNeeds(ts, u)})
    BY <1>5, <1>6
  <2> QED
    BY <2>2, <2>3
<1>8. /\ LevelFrom(ts)[<<u, path>>] = LevelBy(ts, LevelFrom(ts), u, path)
      /\ LevelFrom(ts)[<<u, {}>>] = LevelBy(ts, LevelFrom(ts), u, {})
  BY LevelsAreDefined
<1> QED
  BY <1>5, <1>7, <1>8 DEF Level

\* Without a cycle a task is on a later level than every task of its phase that it needs.
LEMMA LevelsDescend ==
  ASSUME NEW ts, IsFiniteSet(DOMAIN ts), ~LocalCycle(ts), NEW t \in DOMAIN ts, NEW n \in SamePhaseNeeds(ts, t)
  PROVE  Level(ts, n) < Level(ts, t)
<1>1. {} \in SUBSET DOMAIN ts /\ {} \cap Above(ts, t) = {}
  OBVIOUS
<1>2. /\ n \in Needed(ts, t, {}) /\ n \in DOMAIN ts
      /\ {} \cup {t} \in SUBSET DOMAIN ts /\ ({} \cup {t}) \cap Above(ts, n) = {}
  BY <1>1, NeedsAreApart
<1>3. LevelFrom(ts)[<<n, {} \cup {t}>>] = Level(ts, n)
  BY <1>2, LevelIsSteady DEF Steady
<1>4. \A m \in Needed(ts, t, {}) : LevelFrom(ts)[<<m, {} \cup {t}>>] \in Nat
  BY WayGetsShorter, LevelsAreNumbers
<1>5. LevelFrom(ts)[<<n, {} \cup {t}>>] < LevelBy(ts, LevelFrom(ts), t, {})
  BY <1>2, <1>4, LevelByIs
<1>6. Level(ts, t) = LevelBy(ts, LevelFrom(ts), t, {})
  BY LevelsAreDefined DEF Level
<1> QED
  BY <1>3, <1>5, <1>6

-----------------------------------------------------------------------------
(* What the gates do to a plan *)

\* A plan with levels: the same tasks and needs, each phase with the level of the task.
LEMMA SplitByPhase ==
  ASSUME NEW ts, IsPlan(ts)
  PROVE  /\ IsPlan(SplitPhases(ts)) /\ DOMAIN SplitPhases(ts) = DOMAIN ts
         /\ \A t \in DOMAIN ts : /\ SplitPhases(ts)[t].needs = ts[t].needs
                                 /\ SplitPhases(ts)[t].phase = <<ts[t].phase[1], Level(ts, t)>>
<1> DEFINE new == SplitPhases(ts)
<1>1. DOMAIN new = DOMAIN ts /\ new = [t \in DOMAIN new |-> new[t]]
  BY DEF SplitPhases
<1>2. ASSUME NEW t \in DOMAIN ts
      PROVE  /\ IsTask(new[t]) /\ new[t].needs = ts[t].needs
             /\ new[t].phase = <<ts[t].phase[1], Level(ts, t)>>
  <2>1. IsTask(ts[t]) /\ IsFiniteSet(DOMAIN ts)
    BY DEF IsPlan
  <2>2. Level(ts, t) \in Nat
    BY <2>1, LevelsAreNumbers DEF Level
  <2>3. new[t] = [ts[t] EXCEPT !.phase = <<ts[t].phase[1], Level(ts, t)>>]
    BY DEF SplitPhases
  <2> HIDE DEF new
  <2> QED
    BY <2>1, <2>2, <2>3, MovedTask
<1> HIDE DEF new
<1>3. IsPlan(new)
  BY <1>1, <1>2 DEF IsPlan
<1> QED
  BY <1>1, <1>2, <1>3 DEF new

\* A challenge changes needs only.
LEMMA ApplyIsPlan ==
  ASSUME NEW ts, IsPlan(ts), NEW c
  PROVE  IsPlan(Apply(ts, c)) /\ DOMAIN Apply(ts, c) = DOMAIN ts
<1> DEFINE new == Apply(ts, c)
<1>1. DOMAIN new = DOMAIN ts /\ new = [t \in DOMAIN new |-> new[t]]
  BY DEF Apply
<1>2. ASSUME NEW t \in DOMAIN ts
      PROVE  IsTask(new[t])
  <2>1. IsTask(ts[t])
    BY DEF IsPlan
  <2> DEFINE needs == (ts[t].needs \ {n \in ts[t].needs : <<t, n>> \in c.spurious})
                        \cup {n \in DOMAIN ts : n # t /\ <<t, n>> \in c.missing}
  <2>2. new[t] = [ts[t] EXCEPT !.needs = needs]
    BY DEF Apply
  <2> HIDE DEF new, needs
  <2> QED
    BY <2>1, <2>2, RestatedTask
<1> HIDE DEF new
<1>3. IsPlan(new)
  BY <1>1, <1>2 DEF IsPlan
<1> QED
  BY <1>1, <1>3 DEF new

\* The surface gates change surfaces only.
LEMMA ResurfacedPlan ==
  ASSUME NEW ts, IsPlan(ts), NEW surfacesOf, \A t \in DOMAIN ts : surfacesOf[t] \in SUBSET Surfaces,
         NEW new, new = [t \in DOMAIN ts |-> [ts[t] EXCEPT !.surfaces = surfacesOf[t]]]
  PROVE  IsPlan(new) /\ SameGraph(new, ts) /\ \A t \in DOMAIN ts : new[t].surfaces = surfacesOf[t]
<1>1. DOMAIN new = DOMAIN ts /\ new = [t \in DOMAIN new |-> new[t]]
  OBVIOUS
<1>2. ASSUME NEW t \in DOMAIN ts
      PROVE  /\ IsTask(new[t]) /\ new[t].needs = ts[t].needs /\ new[t].phase = ts[t].phase
             /\ new[t].surfaces = surfacesOf[t]
  <2>1. IsTask(ts[t]) /\ surfacesOf[t] \in SUBSET Surfaces
    BY DEF IsPlan
  <2>2. new[t] = [ts[t] EXCEPT !.surfaces = surfacesOf[t]]
    OBVIOUS
  <2> QED
    BY <2>1, <2>2, ResurfacedTask
<1>3. IsPlan(new)
  BY <1>1, <1>2 DEF IsPlan
<1>4. SameGraph(new, ts)
  BY <1>1, <1>2 DEF SameGraph
<1> QED
  BY <1>2, <1>3, <1>4

LEMMA PlacedAndResolved ==
  ASSUME NEW ts, IsPlan(ts)
  PROVE  /\ IsPlan(Placed(ts)) /\ SameGraph(Placed(ts), ts)
         /\ IsPlan(Resolved(ts)) /\ SameGraph(Resolved(ts), ts)
<1> DEFINE placed == [t \in DOMAIN ts |-> {IF s = "astray" THEN "test" ELSE s : s \in ts[t].surfaces}]
           resolved == [t \in DOMAIN ts |-> {IF s = "short" THEN "one" ELSE s : s \in ts[t].surfaces}]
<1>1. \A t \in DOMAIN ts : ts[t].surfaces \subseteq Surfaces
  BY DEF IsPlan, IsTask
<1>2. \A t \in DOMAIN ts : placed[t] \in SUBSET Surfaces /\ resolved[t] \in SUBSET Surfaces
  BY <1>1 DEF Surfaces, InTree
<1>3. Placed(ts) = [t \in DOMAIN ts |-> [ts[t] EXCEPT !.surfaces = placed[t]]]
  BY DEF Placed
<1>4. Resolved(ts) = [t \in DOMAIN ts |-> [ts[t] EXCEPT !.surfaces = resolved[t]]]
  BY DEF Resolved
<1> HIDE DEF placed, resolved
<1>5. IsPlan(Placed(ts)) /\ SameGraph(Placed(ts), ts)
  BY <1>2, <1>3, ResurfacedPlan
<1>6. IsPlan(Resolved(ts)) /\ SameGraph(Resolved(ts), ts)
  BY <1>2, <1>4, ResurfacedPlan
<1> QED
  BY <1>5, <1>6

LEMMA SameGraphChains ==
  ASSUME NEW ts, NEW mid, NEW whole, SameGraph(ts, mid), SameGraph(mid, whole)
  PROVE  SameGraph(ts, whole)
  BY DEF SameGraph

LEMMA EmptyIsPlan ==
  IsPlan(Empty) /\ DOMAIN Empty = {}
  BY FS_EmptySet DEF Empty, IsPlan, Apart

LEMMA TicketIsPlan ==
  ASSUME NEW size
  PROVE  /\ IsPlan(SingleTicket(size)) /\ WholesNamed(SingleTicket(size))
<1> DEFINE new == SingleTicket(size)
<1>1. DOMAIN new = {<<1>>} /\ new = [t \in DOMAIN new |-> new[t]]
  BY DEF SingleTicket
<1>2. new[<<1>>] = [phase |-> <<CHOOSE b \in Declared : TRUE, 0>>, needs |-> {}, body |-> size.body, side |-> "none",
                    repo |-> 1, surfaces |-> {MarkNew(s) : s \in size.surfaces}]
  BY DEF SingleTicket
<1>3. {MarkNew(s) : s \in size.surfaces} \subseteq Surfaces
  BY DEF MarkNew, Surfaces, InTree
<1>4. IsTask(new[<<1>>]) /\ new[<<1>>].needs = {}
  <2> DEFINE surfaces == {MarkNew(s) : s \in size.surfaces}
             base == CHOOSE b \in Declared : TRUE
  <2> HIDE DEF new, surfaces, base
  <2>1. new[<<1>>] = [phase |-> <<base, 0>>, needs |-> {}, body |-> size.body, side |-> "none",
                      repo |-> 1, surfaces |-> surfaces]
    BY <1>2 DEF surfaces, base
  <2> QED
    BY <1>3, <2>1 DEF IsTask, surfaces
<1>5. IsFiniteSet({<<1>>})
  BY FS_Singleton
<1>6. <<1>> \in Seq(Nat)
  OBVIOUS
<1> HIDE DEF new
<1>7. IsPlan(new)
  BY <1>1, <1>4, <1>5, <1>6 DEF IsPlan, Apart
<1>8. WholesNamed(new)
  BY <1>1, <1>4 DEF WholesNamed
<1> QED
  BY <1>7, <1>8 DEF new

\* A set with no more than one member has no subset with more.
LEMMA FewerRepos ==
  ASSUME NEW task, NEW other, ReposOf(task) \subseteq ReposOf(other), Cardinality(ReposOf(other)) <= 1
  PROVE  Cardinality(ReposOf(task)) <= 1
<1>1. IsFiniteSet(ReposOf(other))
  <2>1. IsFiniteSet({1}) /\ IsFiniteSet({2})
    BY FS_Singleton
  <2>2. IsFiniteSet({1} \cup {2})
    BY <2>1, FS_Union
  <2>3. ReposOf(other) \in SUBSET ({1} \cup {2})
    BY ReposAre
  <2> QED
    BY <2>2, <2>3, FS_Subset
<1>2. ReposOf(task) \in SUBSET ReposOf(other)
  OBVIOUS
<1>3. IsFiniteSet(ReposOf(task)) /\ Cardinality(ReposOf(task)) <= Cardinality(ReposOf(other))
  BY <1>1, <1>2, FS_Subset
<1>4. Cardinality(ReposOf(task)) \in Nat /\ Cardinality(ReposOf(other)) \in Nat
  BY <1>1, <1>3, FS_CardinalityType
<1> QED
  BY <1>3, <1>4

\* A part has the surfaces of one repository.
LEMMA SplitInOneRepo ==
  ASSUME NEW ts, IsPlan(ts)
  PROVE  InOneRepo(SplitCrossRepo(ts))
<1> SUFFICES ASSUME NEW k \in DOMAIN SplitCrossRepo(ts)
             PROVE  Cardinality(ReposOf(SplitCrossRepo(ts)[k])) <= 1
  BY DEF InOneRepo
<1> DEFINE t == PartOf(ts, k)
           part == SplitCrossRepo(ts)[k]
<1>1. t \in DOMAIN ts /\ t \in Seq(Nat) /\ k \in PartsOf(ts, t)
  BY SplitIds DEF IsPlan
<1>2. part.surfaces = IF k = t THEN ts[t].surfaces ELSE OnlyIn(ts[t], k[Len(k)])
  BY SplitTask
<1> HIDE DEF t, part
<1>3. CASE k = t
  <2>1. ReposOf(part) = ReposOf(ts[t])
    BY <1>2, <1>3 DEF ReposOf
  <2>2. Cardinality(ReposOf(ts[t])) <= 1
    BY <1>1, <1>3, PartsAre
  <2> QED
    BY <2>1, <2>2 DEF part
<1>4. CASE k # t
  <2>1. part.surfaces = OnlyIn(ts[t], k[Len(k)])
    BY <1>2, <1>4
  <2>2. ReposOf(part) \subseteq {k[Len(k)]}
    BY <2>1 DEF ReposOf, OnlyIn
  <2>3. IsFiniteSet({k[Len(k)]}) /\ Cardinality({k[Len(k)]}) = 1
    BY FS_Singleton
  <2>4. ReposOf(part) \in SUBSET {k[Len(k)]}
    BY <2>2
  <2>5. IsFiniteSet(ReposOf(part)) /\ Cardinality(ReposOf(part)) <= Cardinality({k[Len(k)]})
    BY <2>3, <2>4, FS_Subset
  <2>6. Cardinality(ReposOf(part)) \in Nat
    BY <2>5, FS_CardinalityType
  <2> QED
    BY <2>3, <2>5, <2>6 DEF part
<1> QED
  BY <1>3, <1>4

\* A corrected plan: the tasks of both, and those of the plan in their phases.
LEMMA CorrectedIsPlan ==
  ASSUME NEW ts, IsPlan(ts), NEW c, IsPlan(c.tasks), Apart(DOMAIN ts \cup DOMAIN c.tasks),
         \A t \in DOMAIN c.surfaces : \A s \in DOMAIN c.surfaces[t] : c.surfaces[t][s] \in Surfaces
  PROVE  /\ IsPlan(Corrected(ts, c)) /\ DOMAIN Corrected(ts, c) = DOMAIN ts \cup DOMAIN c.tasks
         /\ \A t \in DOMAIN ts : /\ Corrected(ts, c)[t].phase = ts[t].phase
                                 /\ t \notin DOMAIN c.tasks => Corrected(ts, c)[t].needs = ts[t].needs
<1> DEFINE new == Corrected(ts, c)
<1>1. DOMAIN new = DOMAIN ts \cup DOMAIN c.tasks /\ new = [t \in DOMAIN new |-> new[t]]
  BY DEF Corrected
<1>2. ASSUME NEW t \in DOMAIN ts
      PROVE  /\ IsTask(new[t]) /\ new[t].phase = ts[t].phase
             /\ t \notin DOMAIN c.tasks => new[t].needs = ts[t].needs
  <2> DEFINE task == ts[t]
             surfaces == {IF t \in DOMAIN c.surfaces /\ s \in DOMAIN c.surfaces[t] THEN c.surfaces[t][s] ELSE s : s \in task.surfaces}
             needs == IF t \in DOMAIN c.tasks THEN c.tasks[t].needs ELSE task.needs
  <2>1. new[t] = [task EXCEPT !.surfaces = surfaces, !.needs = needs]
    BY DEF Corrected
  <2>2. IsTask(task)
    BY DEF IsPlan
  <2>3. surfaces \in SUBSET Surfaces
    BY <2>2 DEF IsTask
  <2>4. t \notin DOMAIN c.tasks => needs = task.needs
    OBVIOUS
  <2> HIDE DEF task, surfaces, needs, new
  <2>5. new[t] = [[task EXCEPT !.surfaces = surfaces] EXCEPT !.needs = needs]
    BY <2>1
  <2>6. /\ IsTask([task EXCEPT !.surfaces = surfaces])
        /\ [task EXCEPT !.surfaces = surfaces].phase = task.phase
    BY <2>2, <2>3, ResurfacedTask
  <2> DEFINE first == [task EXCEPT !.surfaces = surfaces]
  <2> HIDE DEF first
  <2>7. /\ IsTask([first EXCEPT !.needs = needs])
        /\ [first EXCEPT !.needs = needs].needs = needs
        /\ [first EXCEPT !.needs = needs].phase = first.phase
    BY <2>6, RestatedTask DEF first
  <2> QED
    BY <2>4, <2>5, <2>6, <2>7 DEF first, task
<1>3. ASSUME NEW t \in DOMAIN c.tasks, t \notin DOMAIN ts
      PROVE  IsTask(new[t])
  <2>1. new[t] = c.tasks[t]
    BY <1>3 DEF Corrected
  <2> QED
    BY <2>1 DEF IsPlan
<1>4. IsFiniteSet(DOMAIN ts \cup DOMAIN c.tasks)
  BY FS_Union DEF IsPlan
<1>5. DOMAIN ts \subseteq Seq(Nat) /\ DOMAIN c.tasks \subseteq Seq(Nat)
  BY DEF IsPlan
<1> HIDE DEF new
<1>6. \A t \in DOMAIN new : IsTask(new[t])
  BY <1>1, <1>2, <1>3
<1>7. IsPlan(new)
  BY <1>1, <1>4, <1>5, <1>6 DEF IsPlan
<1> QED
  BY <1>1, <1>2, <1>7 DEF new

\* A correction of surfaces only leaves the graph alone.
LEMMA ResolvedGraph ==
  ASSUME NEW ts, IsPlan(ts), NEW c \in Corrections
  PROVE  IsPlan(Corrected(ts, SurfacesOnly(c))) /\ SameGraph(Corrected(ts, SurfacesOnly(c)), ts)
<1> DEFINE d == SurfacesOnly(c)
<1>1. /\ c = [surfaces |-> c.surfaces, tasks |-> c.tasks]
      /\ \A t \in DOMAIN c.surfaces : \A s \in DOMAIN c.surfaces[t] : c.surfaces[t][s] \in Surfaces
  BY DecomposeAssumption
<1>2. d.surfaces = c.surfaces /\ d.tasks = Empty
  BY <1>1 DEF SurfacesOnly
<1> HIDE DEF d
<1>3. /\ IsPlan(d.tasks) /\ DOMAIN d.tasks = {}
      /\ \A t \in DOMAIN d.surfaces : \A s \in DOMAIN d.surfaces[t] : d.surfaces[t][s] \in Surfaces
  BY <1>1, <1>2, EmptyIsPlan
<1>4. Apart(DOMAIN ts \cup DOMAIN d.tasks) /\ DOMAIN ts \cup DOMAIN d.tasks = DOMAIN ts
  BY <1>3 DEF IsPlan
<1>5. /\ IsPlan(Corrected(ts, d)) /\ DOMAIN Corrected(ts, d) = DOMAIN ts
      /\ \A t \in DOMAIN ts : /\ Corrected(ts, d)[t].phase = ts[t].phase
                              /\ t \notin DOMAIN d.tasks => Corrected(ts, d)[t].needs = ts[t].needs
  BY <1>3, <1>4, CorrectedIsPlan
<1>6. SameGraph(Corrected(ts, d), ts)
  BY <1>3, <1>5 DEF SameGraph
<1> QED
  BY <1>5, <1>6 DEF d

\* The gates for the added tasks: the plan that is split has the graph of the corrected one.
LEMMA GatedPlan ==
  ASSUME NEW ts, IsPlan(ts), NEW added \in SUBSET DOMAIN ts
  PROVE  IsPlan(Gated(ts, added)) /\ PartsKeep(Gated(ts, added), ts) /\ InOneRepo(Gated(ts, added))
<1> DEFINE new == [t \in added |-> ts[t]]
           checked == Resolved(Placed(new))
           mid == [t \in DOMAIN ts |-> IF t \in added THEN checked[t] ELSE ts[t]]
<1>1. IsPlan(new) /\ DOMAIN new = added /\ \A t \in added : new[t] = ts[t]
  <2>1. IsFiniteSet(DOMAIN ts) /\ DOMAIN ts \subseteq Seq(Nat) /\ Apart(DOMAIN ts)
    BY DEF IsPlan
  <2>2. IsFiniteSet(added)
    BY <2>1, FS_Subset
  <2>3. Apart(added)
    BY <2>1 DEF Apart
  <2>4. DOMAIN new = added /\ new = [t \in added |-> new[t]] /\ \A t \in added : new[t] = ts[t]
    OBVIOUS
  <2> HIDE DEF new
  <2>5. \A t \in added : IsTask(new[t])
    BY <2>4 DEF IsPlan
  <2> QED
    BY <2>1, <2>2, <2>3, <2>4, <2>5 DEF IsPlan
<1>2. IsPlan(checked) /\ SameGraph(checked, new)
  <2> HIDE DEF new
  <2>1. IsPlan(Placed(new)) /\ SameGraph(Placed(new), new)
    BY <1>1, PlacedAndResolved
  <2>2. IsPlan(Resolved(Placed(new))) /\ SameGraph(Resolved(Placed(new)), Placed(new))
    BY <2>1, PlacedAndResolved
  <2> QED
    BY <2>1, <2>2, SameGraphChains
<1> HIDE DEF new
<1>3. \A t \in added : IsTask(checked[t]) /\ checked[t].needs = ts[t].needs /\ checked[t].phase = ts[t].phase
  <2> HIDE DEF checked
  <2> QED
    BY <1>1, <1>2 DEF IsPlan, SameGraph
<1> HIDE DEF checked
<1>4. /\ DOMAIN mid = DOMAIN ts /\ mid = [t \in DOMAIN mid |-> mid[t]]
      /\ \A t \in DOMAIN ts : mid[t] = IF t \in added THEN checked[t] ELSE ts[t]
  OBVIOUS
<1>5. Gated(ts, added) = SplitCrossRepo(mid)
  BY DEF Gated, new, checked
<1> HIDE DEF mid
<1>6. \A t \in DOMAIN ts : IsTask(mid[t]) /\ mid[t].needs = ts[t].needs /\ mid[t].phase = ts[t].phase
  BY <1>3, <1>4 DEF IsPlan
<1>7. IsPlan(mid)
  BY <1>4, <1>6 DEF IsPlan
<1>8. SameGraph(mid, ts)
  BY <1>4, <1>6 DEF SameGraph
<1>9. IsPlan(SplitCrossRepo(mid)) /\ PartsKeep(SplitCrossRepo(mid), ts) /\ InOneRepo(SplitCrossRepo(mid))
  BY <1>7, <1>8, SplitIsPlan, SplitKeeps, SplitInOneRepo
<1> QED
  BY <1>5, <1>9

\* No other declared phase is as close as the only one that is close.
LEMMA OnlyOneIsClose ==
  ASSUME NEW base, NEW level \in Nat, NEW declared, IsFiniteSet(declared), \A d \in declared : d = <<d[1], d[2]>> /\ d[2] \in Nat,
         Cardinality(CloseTo(<<base, level>>, declared)) = 1
  PROVE  \E q \in declared : /\ CloseTo(<<base, level>>, declared) = {q}
                             /\ \A d \in declared : Distance(<<base, level>>, d) <= Distance(<<base, level>>, q) => d = q
<1> DEFINE name == <<base, level>>
<1>1. name[1] = base /\ name[2] = level /\ name = <<name[1], name[2]>>
  OBVIOUS
<1> HIDE DEF name
<1>2. \A d \in declared : Distance(name, d) \in Nat
  BY DEF Distance
<1>3. CASE name \in declared
  <2>1. CloseTo(name, declared) = {name}
    BY <1>3 DEF CloseTo
  <2>2. Distance(name, name) = 0
    BY DEF Distance
  <2>3. ASSUME NEW d \in declared, Distance(name, d) <= 0
        PROVE  d = name
    <3>1. d[1] = name[1] /\ d[2] = name[2]
      BY <2>3 DEF Distance
    <3> QED
      BY <1>1, <3>1
  <2> QED
    BY <1>3, <2>1, <2>2, <2>3 DEF name
<1>4. CASE name \notin declared
  <2>1. CloseTo(name, declared) = {d \in declared : Distance(name, d) <= 2}
    BY <1>4 DEF CloseTo
  <2>2. PICK q : CloseTo(name, declared) = {q}
    <3> DEFINE close == CloseTo(name, declared)
    <3>1. Cardinality(close) = 1
      BY DEF name
    <3>2. \E q : close = {q}
      <4>1. IsFiniteSet(close)
        <5>1. close \in SUBSET declared
          BY <2>1
        <5> QED
          BY <5>1, FS_Subset
      <4> QED
        BY <3>1, <4>1, FS_Singleton
    <3> QED
      BY <3>2
  <2>3. q \in declared /\ Distance(name, q) <= 2
    BY <2>1, <2>2
  <2>4. ASSUME NEW d \in declared, Distance(name, d) <= Distance(name, q)
        PROVE  d = q
    <3>1. Distance(name, d) <= 2
      BY <1>2, <2>3, <2>4
    <3> QED
      BY <2>1, <2>2, <3>1
  <2> QED
    BY <2>2, <2>3, <2>4 DEF name
<1> QED
  BY <1>3, <1>4

-----------------------------------------------------------------------------
(* The steps *)

LEMMA DeclaredArePairs ==
  ASSUME NEW ts, IsPlan(ts)
  PROVE  /\ IsFiniteSet(SplitDeclared(ts))
         /\ \A d \in SplitDeclared(ts) : d = <<d[1], d[2]>> /\ d[2] \in Nat
<1> DEFINE own == {u \in DOMAIN ts : ts[u].phase[1] \in Declared}
           kept == {<<b, 0>> : b \in Declared}
           later == {<<ts[t].phase[1], Level(ts, t)>> : t \in own}
<1>1. IsFiniteSet(DOMAIN ts) /\ IsFiniteSet(Declared)
  BY DecomposeAssumption DEF IsPlan
<1>2. \A t \in DOMAIN ts : Level(ts, t) \in Nat
  BY <1>1, LevelsAreNumbers DEF Level
<1>3. SplitDeclared(ts) = kept \cup later
  BY DEF SplitDeclared
<1>4. \A d \in kept \cup later : d = <<d[1], d[2]>> /\ d[2] \in Nat
  BY <1>2
<1>5. IsFiniteSet(kept)
  <2>1. [b \in Declared |-> <<b, 0>>] \in Surjection(Declared, kept)
    BY DEF Surjection
  <2> QED
    BY <1>1, <2>1, FS_Surjection
<1>6. IsFiniteSet(later)
  <2>1. own \in SUBSET DOMAIN ts
    OBVIOUS
  <2>2. IsFiniteSet(own)
    BY <1>1, <2>1, FS_Subset
  <2>3. [t \in own |-> <<ts[t].phase[1], Level(ts, t)>>] \in Surjection(own, later)
    BY DEF Surjection
  <2> QED
    BY <2>2, <2>3, FS_Surjection
<1> HIDE DEF kept, later
<1>7. IsFiniteSet(kept \cup later)
  BY <1>5, <1>6, FS_Union
<1> QED
  BY <1>3, <1>4, <1>7

\* Where nothing is proposed, nothing has to hold of what is.
LEMMA NotProposed ==
  ASSUME at' # "proposed"
  PROVE  /\ (at = "proposed" => \A t \in Ids : tasks[t].needs \subseteq Ids /\ tasks[t].phase \in phases)'
         /\ EdgesSurvive' /\ PhaseIsNoGuess' /\ OneRepoEach' /\ PlanIsADag'
  BY DEF EdgesSurvive, PhaseIsNoGuess, OneRepoEach, PlanIsADag

LEMMA NotSplitting ==
  ASSUME at' \notin {"challenge", "cycle"}
  PROVE  SplitIsOrdered'
  BY DEF SplitIsOrdered

LEMMA SizeKeepsPlan ==
  ASSUME DraftInv, Size
  PROVE  DraftInv'
<1> USE DEF Size
<1>1. PICK size \in Sizes :
        /\ sizeRecord' = Routed(size)
        /\ single' = (Routed(size) = "task")
        /\ IF Routed(size) = "task"
           THEN tasks' = SingleTicket(size) /\ phases' = {<<CHOOSE b \in Declared : TRUE, 0>>} /\ at' = "cycle"
           ELSE tasks' = tasks /\ phases' = phases /\ at' = "decompose"
        /\ agreed' = tasks' /\ UNCHANGED <<mode, turn, refusal>>
  OBVIOUS
<1>2. Routed(size) \in {"task", "epic", "fallback"}
  BY DecomposeAssumption DEF Routed
<1>3. IsPlan(tasks') /\ IsPlan(agreed')
  <2>1. CASE Routed(size) = "task"
    BY <1>1, <2>1, TicketIsPlan
  <2>2. CASE Routed(size) # "task"
    BY <1>1, <2>2 DEF DraftInv, Books
  <2> QED
    BY <2>1, <2>2
<1>4. IsFiniteSet(phases') /\ \A d \in phases' : d = <<d[1], d[2]>> /\ d[2] \in Nat
  <2>1. CASE Routed(size) = "task"
    <3> DEFINE base == CHOOSE b \in Declared : TRUE
    <3> HIDE DEF base
    <3>1. phases' = {<<base, 0>>}
      BY <1>1, <2>1 DEF base
    <3>2. IsFiniteSet({<<base, 0>>})
      BY FS_Singleton
    <3> QED
      BY <3>1, <3>2
  <2>2. CASE Routed(size) # "task"
    BY <1>1, <2>2 DEF DraftInv, Books
  <2> QED
    BY <2>1, <2>2
<1>5. at' \in {"cycle", "decompose"} /\ (at' = "cycle" => single')
  BY <1>1
<1>6. Books'
  BY <1>1, <1>2, <1>3, <1>4, <1>5 DEF DraftInv, Books, Stages
<1>7. SplitIsOrdered'
  BY <1>5 DEF SplitIsOrdered
<1>8. at' # "proposed"
  BY <1>5
<1> QED
  BY <1>1, <1>5, <1>6, <1>7, <1>8, NotProposed DEF DraftInv

LEMMA NoSizeKeepsPlan ==
  ASSUME DraftInv, NoSize
  PROVE  DraftInv'
<1>1. at' = "decompose" /\ UNCHANGED <<mode, turn, tasks, phases, single, sizeRecord, agreed, refusal>>
  BY DEF NoSize
<1>2. Books'
  BY <1>1 DEF DraftInv, Books, Stages
<1>3. SplitIsOrdered'
  BY <1>1, NotSplitting
<1> QED
  BY <1>1, <1>2, <1>3, NotProposed DEF DraftInv

LEMMA DecomposeKeepsPlan ==
  ASSUME DraftInv, Decompose
  PROVE  DraftInv'
<1>1. PICK drawn \in Plans :
        /\ IF mode.ordinal /\ Foreign(drawn) # {}
           THEN Refuse("unknown key") /\ UNCHANGED <<tasks, phases, agreed>>
           ELSE /\ tasks' = SplitPhases(drawn)
                /\ phases' = SplitDeclared(drawn)
                /\ agreed' = tasks'
                /\ at' = IF mode.adversary THEN "challenge" ELSE "cycle"
                /\ UNCHANGED refusal
        /\ UNCHANGED <<mode, turn, single, sizeRecord>>
  BY DEF Decompose
<1>2. IsPlan(drawn) /\ \A t \in DOMAIN drawn : drawn[t].phase[2] = 0
  BY DecomposeAssumption
<1>3. CASE mode.ordinal /\ Foreign(drawn) # {}
  <2>1. at' = "refused" /\ UNCHANGED <<mode, turn, tasks, phases, single, sizeRecord, agreed>>
    BY <1>1, <1>3 DEF Refuse
  <2>2. Books'
    BY <2>1 DEF DraftInv, Books, Stages
  <2>3. SplitIsOrdered'
    BY <2>1, NotSplitting
  <2> QED
    BY <2>1, <2>2, <2>3, NotProposed DEF DraftInv
<1>4. CASE ~(mode.ordinal /\ Foreign(drawn) # {})
  <2>1. /\ tasks' = SplitPhases(drawn) /\ phases' = SplitDeclared(drawn) /\ agreed' = tasks'
        /\ at' = (IF mode.adversary THEN "challenge" ELSE "cycle") /\ UNCHANGED <<mode, turn, single, sizeRecord>>
    BY <1>1, <1>4
  <2>2. /\ IsPlan(tasks') /\ DOMAIN tasks' = DOMAIN drawn
        /\ \A t \in DOMAIN drawn : /\ tasks'[t].needs = drawn[t].needs
                                  /\ tasks'[t].phase = <<drawn[t].phase[1], Level(drawn, t)>>
    BY <1>2, <2>1, SplitByPhase
  <2>3. IsFiniteSet(phases') /\ \A d \in phases' : d = <<d[1], d[2]>> /\ d[2] \in Nat
    BY <1>2, <2>1, DeclaredArePairs
  <2>4. Books'
    BY <2>1, <2>2, <2>3 DEF DraftInv, Books, Stages
  <2>5. SplitIsOrdered'
    <3> SUFFICES ASSUME ~LocalCycle(tasks'), NEW t \in DOMAIN tasks', NEW n \in tasks'[t].needs \cap DOMAIN tasks',
                        tasks'[n].phase[1] = tasks'[t].phase[1]
                 PROVE  tasks'[n].phase[2] < tasks'[t].phase[2]
      BY DEF SplitIsOrdered, Ids
    <3>1. ~LocalCycle(drawn)
      BY <2>2, SameCycles
    <3>2. n \in drawn[t].needs \cap DOMAIN drawn /\ drawn[n].phase[1] = drawn[t].phase[1]
      BY <2>2
    <3>3. drawn[n].phase = drawn[t].phase
      <4>1. IsTask(drawn[n]) /\ IsTask(drawn[t])
        BY <1>2, <2>2, <3>2 DEF IsPlan
      <4>2. drawn[n].phase = <<drawn[n].phase[1], drawn[n].phase[2]>> /\ drawn[t].phase = <<drawn[t].phase[1], drawn[t].phase[2]>>
        BY <4>1 DEF IsTask
      <4>3. drawn[n].phase[2] = drawn[t].phase[2]
        BY <1>2, <2>2, <3>2
      <4> QED
        BY <3>2, <4>2, <4>3
    <3>4. n \in SamePhaseNeeds(drawn, t) /\ IsFiniteSet(DOMAIN drawn) /\ t \in DOMAIN drawn
      BY <1>2, <2>2, <3>2, <3>3 DEF SamePhaseNeeds, IsPlan
    <3>5. Level(drawn, n) < Level(drawn, t)
      BY <3>1, <3>4, LevelsDescend
    <3> QED
      BY <2>2, <3>2, <3>4, <3>5
  <2>6. at' \in {"challenge", "cycle"}
    BY <2>1
  <2> QED
    BY <2>1, <2>4, <2>5, <2>6, NotProposed DEF DraftInv
<1> QED
  BY <1>3, <1>4

LEMMA ChallengeKeepsPlan ==
  ASSUME DraftInv, Challenge
  PROVE  DraftInv'
<1>1. PICK c \in Challenges : tasks' = Apply(tasks, c)
  BY DEF Challenge
<1>2. at = "challenge" /\ agreed' = tasks' /\ at' = "cycle" /\ UNCHANGED <<mode, turn, phases, single, sizeRecord, refusal>>
  BY DEF Challenge
<1>3. IsPlan(tasks')
  BY <1>1, ApplyIsPlan DEF DraftInv, Books
<1>4. mode'.adversary
  BY <1>2 DEF DraftInv, Books
<1>5. Books'
  BY <1>2, <1>3 DEF DraftInv, Books, Stages
<1>6. SplitIsOrdered'
  BY <1>2, <1>4 DEF SplitIsOrdered
<1> QED
  BY <1>2, <1>5, <1>6, NotProposed DEF DraftInv

LEMMA CheckCycleKeepsPlan ==
  ASSUME DraftInv, CheckCycle
  PROVE  DraftInv'
<1>1. /\ at = "cycle" /\ UNCHANGED <<mode, turn, tasks, phases, single, sizeRecord, agreed>>
      /\ IF LocalCycle(tasks) THEN at' = "refused" ELSE at' = (IF mode.tree THEN "surfaces" ELSE "lint")
  BY DEF CheckCycle, Refuse
<1>2. at' \in {"refused", "surfaces", "lint"} /\ (at' # "refused" => ~LocalCycle(tasks)) /\ (at' = "lint" => ~mode'.tree)
  BY <1>1
<1>3. Books'
  BY <1>1, <1>2 DEF DraftInv, Books, Stages
<1>4. SplitIsOrdered'
  BY <1>2, NotSplitting
<1>5. IsPlan(tasks) /\ tasks = agreed /\ IsFiniteSet(DOMAIN tasks)
  BY <1>1 DEF DraftInv, Books, IsPlan
<1>6. SameGraph(tasks, agreed)
  BY <1>5 DEF SameGraph
<1>7. PartsKeep(tasks, agreed)
  BY <1>5, <1>6, WholeKeeps
<1>8. ~LocalCycle(tasks) => Acyclic(tasks)
  BY <1>5, NoCycleIsAcyclic
<1> QED
  BY <1>1, <1>2, <1>3, <1>4, <1>6, <1>7, <1>8, NotProposed DEF DraftInv

LEMMA CheckSurfacesKeepsPlan ==
  ASSUME DraftInv, CheckSurfaces
  PROVE  DraftInv'
<1> DEFINE placed == Placed(tasks)
           split == SplitCrossRepo(Resolved(placed))
<1>1. /\ at = "surfaces" /\ UNCHANGED <<mode, turn, phases, single, sizeRecord, agreed>>
      /\ \/ at' = "refused" /\ tasks' = tasks
         \/ at' = "refused" /\ tasks' = placed
         \/ at' = "resolve" /\ tasks' = placed
         \/ at' = "lint" /\ tasks' = split
  BY DEF CheckSurfaces, Refuse
<1>2. IsPlan(tasks) /\ SameGraph(tasks, agreed) /\ Acyclic(tasks)
  BY <1>1 DEF DraftInv, Books
<1>3. IsPlan(placed) /\ SameGraph(placed, tasks)
  BY <1>2, PlacedAndResolved
<1>4. SameGraph(placed, agreed)
  BY <1>2, <1>3, SameGraphChains
<1>5. Acyclic(placed)
  BY <1>2, <1>3, SameCycles DEF SameGraph
<1>6. IsPlan(split) /\ PartsKeep(split, agreed) /\ InOneRepo(split)
  <2> HIDE DEF placed
  <2>1. IsPlan(Resolved(placed)) /\ SameGraph(Resolved(placed), placed)
    BY <1>3, PlacedAndResolved
  <2>2. SameGraph(Resolved(placed), agreed)
    BY <1>4, <2>1, SameGraphChains
  <2> QED
    BY <2>1, <2>2, SplitIsPlan, SplitKeeps, SplitInOneRepo
<1> HIDE DEF split, placed
<1>7. IsPlan(tasks') /\ at' \in {"refused", "resolve", "lint"}
  BY <1>1, <1>2, <1>3, <1>6
<1>8. Books'
  BY <1>1, <1>7 DEF DraftInv, Books, Stages
<1>9. SplitIsOrdered'
  BY <1>7, NotSplitting
<1>10. /\ at' = "resolve" => tasks' = placed
       /\ at' = "lint" => tasks' = split
  BY <1>1
<1> QED
  BY <1>1, <1>4, <1>5, <1>6, <1>7, <1>8, <1>9, <1>10, NotProposed DEF DraftInv

LEMMA ResolveKeepsPlan ==
  ASSUME DraftInv, Resolve
  PROVE  DraftInv'
<1>1. PICK c \in Corrections :
        IF UnresolvedIn(Corrected(tasks, SurfacesOnly(c))) # {}
        THEN Refuse("prose") /\ UNCHANGED tasks
        ELSE /\ tasks' = SplitCrossRepo(Resolved(Corrected(tasks, SurfacesOnly(c))))
             /\ at' = "lint" /\ UNCHANGED refusal
  BY DEF Resolve
<1> DEFINE corrected == Corrected(tasks, SurfacesOnly(c))
           split == SplitCrossRepo(Resolved(corrected))
<1>2. /\ at = "resolve" /\ UNCHANGED <<mode, turn, phases, single, sizeRecord, agreed>>
      /\ \/ at' = "refused" /\ tasks' = tasks
         \/ at' = "lint" /\ tasks' = split
  BY <1>1 DEF Resolve, Refuse
<1>3. IsPlan(tasks) /\ SameGraph(tasks, agreed)
  BY <1>2 DEF DraftInv, Books
<1>4. IsPlan(corrected) /\ SameGraph(corrected, tasks)
  BY <1>3, ResolvedGraph
<1>5. IsPlan(split) /\ PartsKeep(split, agreed) /\ InOneRepo(split)
  <2> HIDE DEF corrected
  <2>1. IsPlan(Resolved(corrected)) /\ SameGraph(Resolved(corrected), corrected)
    BY <1>4, PlacedAndResolved
  <2>2. SameGraph(Resolved(corrected), agreed)
    BY <1>3, <1>4, <2>1, SameGraphChains
  <2> QED
    BY <2>1, <2>2, SplitIsPlan, SplitKeeps, SplitInOneRepo
<1> HIDE DEF split, corrected
<1>6. IsPlan(tasks') /\ at' \in {"refused", "lint"}
  BY <1>2, <1>3, <1>5
<1>7. Books'
  BY <1>2, <1>6 DEF DraftInv, Books, Stages
<1>8. SplitIsOrdered'
  BY <1>6, NotSplitting
<1>9. at' = "lint" => tasks' = split
  BY <1>2
<1> QED
  BY <1>2, <1>5, <1>6, <1>7, <1>8, <1>9, NotProposed DEF DraftInv

LEMMA LintKeepsPlan ==
  ASSUME DraftInv, Lint
  PROVE  DraftInv'
<1>1. /\ at = "lint" /\ at' \in {"refused", "decompose", "emit", "correct"}
      /\ turn' = turn \/ turn' = 2
      /\ UNCHANGED <<mode, tasks, phases, single, sizeRecord, agreed>>
  BY DEF Lint, Refuse
<1>2. Books'
  BY <1>1 DEF DraftInv, Books, Stages
<1>3. SplitIsOrdered'
  BY <1>1, NotSplitting
<1>4. /\ PartsKeep(tasks, agreed) => PartsKeep(tasks', agreed')
      /\ InOneRepo(tasks) => InOneRepo(tasks')
  BY <1>1
<1> QED
  BY <1>1, <1>2, <1>3, <1>4, NotProposed DEF DraftInv

LEMMA CorrectKeepsPlan ==
  ASSUME DraftInv, Correct
  PROVE  DraftInv' /\ (at' # "refused" => ~LocalCycle(tasks'))
<1> DEFINE corrected(c) == Corrected(tasks, c)
           added(c) == DOMAIN c.tasks \ DOMAIN tasks
           gated(c) == IF mode.tree THEN Gated(corrected(c), added(c)) ELSE corrected(c)
<1>1. PICK c \in Additions :
        /\ agreed' = corrected(c)
        /\ IF mode.tree /\ GateFails(corrected(c), added(c)) THEN Refuse("surface not found") /\ UNCHANGED tasks
           ELSE /\ tasks' = gated(c)
                /\ IF LocalCycle(gated(c)) THEN Refuse("cycle")
                   ELSE IF Refused(gated(c)) # {} THEN Refuse("lint") ELSE at' = "emit" /\ UNCHANGED refusal
  BY DEF Correct
<1>2. /\ at = "correct" /\ UNCHANGED <<mode, turn, phases, single, sizeRecord>>
      /\ at' \in {"refused", "emit"} /\ tasks' \in {tasks, gated(c)}
      /\ at' = "emit" => tasks' = gated(c) /\ ~LocalCycle(gated(c))
  BY <1>1 DEF Correct, Refuse
<1>3. /\ IsPlan(c.tasks) /\ Apart(DOMAIN tasks \cup DOMAIN c.tasks)
      /\ \A t \in DOMAIN c.surfaces : \A s \in DOMAIN c.surfaces[t] : c.surfaces[t][s] \in Surfaces
  BY DecomposeAssumption DEF Additions, Ids
<1>4. IsPlan(tasks)
  BY DEF DraftInv, Books
<1>5. IsPlan(corrected(c)) /\ DOMAIN corrected(c) = DOMAIN tasks \cup DOMAIN c.tasks
  BY <1>3, <1>4, CorrectedIsPlan
<1>6. added(c) \in SUBSET DOMAIN corrected(c)
  BY <1>5
<1>7. /\ IsPlan(gated(c)) /\ PartsKeep(gated(c), corrected(c))
      /\ mode.tree => InOneRepo(gated(c))
  <2>1. CASE mode.tree
    <3>1. gated(c) = Gated(corrected(c), added(c))
      BY <2>1
    <3> HIDE DEF corrected, added, gated
    <3> QED
      BY <1>5, <1>6, <3>1, GatedPlan
  <2>2. CASE ~mode.tree
    <3>1. gated(c) = corrected(c)
      BY <2>2
    <3> HIDE DEF corrected, added, gated
    <3>2. SameGraph(corrected(c), corrected(c))
      BY DEF SameGraph
    <3> QED
      BY <1>5, <2>2, <3>1, <3>2, WholeKeeps
  <2> QED
    BY <2>1, <2>2
<1>8. agreed' = corrected(c)
  BY <1>1
<1> HIDE DEF corrected, added, gated
<1>9. IsPlan(tasks') /\ IsPlan(agreed')
  BY <1>2, <1>4, <1>5, <1>7, <1>8
<1>10. Books'
  BY <1>2, <1>9 DEF DraftInv, Books, Stages
<1>11. SplitIsOrdered'
  BY <1>2, NotSplitting
<1>12. DraftInv'
  BY <1>2, <1>7, <1>8, <1>10, <1>11, NotProposed DEF DraftInv
<1> QED
  BY <1>2, <1>12

\* What is proposed: fewer surfaces, the needs that are tasks, the only phase that is close.
LEMMA EmitIs ==
  ASSUME DraftInv, Emit, at' # "refused"
  PROVE  /\ at = "emit" /\ at' = "proposed" /\ UNCHANGED <<mode, turn, phases, single, sizeRecord, agreed>>
         /\ IsPlan(tasks') /\ DOMAIN tasks' = Ids
         /\ \A t \in Ids : /\ tasks'[t].needs = tasks[t].needs \cap Ids
                           /\ CloseTo(tasks[t].phase, phases) = {tasks'[t].phase} /\ tasks'[t].phase \in phases
                           /\ \A d \in phases : Distance(tasks[t].phase, d) <= Distance(tasks[t].phase, tasks'[t].phase)
                                                  => d = tasks'[t].phase
                           /\ ReposOf(tasks'[t]) \subseteq ReposOf(tasks[t])
<1> DEFINE kept == [t \in Ids |-> [tasks[t] EXCEPT !.surfaces = {s \in @ : LooksLikeASurface(s)}]]
           closest(t) == CloseTo(tasks[t].phase, phases)
           phase(t) == CHOOSE d \in closest(t) : TRUE
<1>1. /\ at = "emit" /\ at' = "proposed" /\ UNCHANGED <<mode, turn, phases, single, sizeRecord, agreed>>
      /\ \A t \in Ids : Cardinality(closest(t)) = 1
      /\ tasks' = [t \in Ids |-> [DropForeignNeeds(kept)[t] EXCEPT !.phase = phase(t)]]
  BY DEF Emit, Refuse
<1>2. /\ IsPlan(tasks) /\ IsFiniteSet(phases)
      /\ \A d \in phases : d = <<d[1], d[2]>> /\ d[2] \in Nat
  BY DEF DraftInv, Books
<1>3. ASSUME NEW t \in Ids
      PROVE  /\ IsTask(tasks'[t]) /\ tasks'[t].needs = tasks[t].needs \cap Ids
             /\ closest(t) = {tasks'[t].phase} /\ tasks'[t].phase \in phases
             /\ \A d \in phases : Distance(tasks[t].phase, d) <= Distance(tasks[t].phase, tasks'[t].phase)
                                    => d = tasks'[t].phase
             /\ ReposOf(tasks'[t]) \subseteq ReposOf(tasks[t])
  <2> DEFINE task == tasks[t]
             surfaces == {s \in task.surfaces : LooksLikeASurface(s)}
             needs == task.needs \cap Ids
             base == task.phase[1]
             level == task.phase[2]
  <2>1. IsTask(task)
    BY <1>2 DEF IsPlan, Ids
  <2>2. task.phase = <<base, level>> /\ level \in Nat
    BY <2>1 DEF IsTask
  <2>3. PICK q \in phases :
          /\ closest(t) = {q}
          /\ \A d \in phases : Distance(task.phase, d) <= Distance(task.phase, q) => d = q
    <3> HIDE DEF base, level
    <3>1. Cardinality(CloseTo(<<base, level>>, phases)) = 1
      BY <1>1, <2>2
    <3> QED
      BY <1>2, <2>2, <3>1, OnlyOneIsClose
  <2>4. phase(t) = q
    BY <2>3
  <2>5. DropForeignNeeds(kept)[t] = [[task EXCEPT !.surfaces = surfaces] EXCEPT !.needs = needs]
    <3>1. DOMAIN kept = Ids /\ kept[t] = [task EXCEPT !.surfaces = surfaces]
      OBVIOUS
    <3>2. kept[t].needs = task.needs
      <4>1. surfaces \in SUBSET Surfaces
        BY <2>1 DEF IsTask
      <4> HIDE DEF task, surfaces, kept
      <4> QED
        BY <2>1, <3>1, <4>1, ResurfacedTask
    <3>3. DropForeignNeeds(kept)[t] = [kept[t] EXCEPT !.needs = kept[t].needs \cap Ids]
      <4> HIDE DEF kept
      <4> QED
        BY <3>1 DEF DropForeignNeeds
    <3> HIDE DEF kept
    <3> QED
      BY <3>1, <3>2, <3>3
  <2>6. tasks'[t] = [DropForeignNeeds(kept)[t] EXCEPT !.phase = phase(t)]
    BY <1>1
  <2> HIDE DEF task, surfaces, needs, kept, phase, closest
  <2> DEFINE first == [task EXCEPT !.surfaces = surfaces]
             second == [first EXCEPT !.needs = needs]
             name == q[1]
             rank == q[2]
             new == [second EXCEPT !.phase = <<name, rank>>]
  <2>7. surfaces \in SUBSET Surfaces /\ surfaces \subseteq task.surfaces
    BY <2>1 DEF IsTask, surfaces
  <2>8. q = <<name, rank>> /\ rank \in Nat
    BY <1>2
  <2> HIDE DEF name, rank
  <2>9. tasks'[t] = new
    BY <2>4, <2>5, <2>6, <2>8
  <2>10. IsTask(first) /\ first.surfaces = surfaces
    BY <2>1, <2>7, ResurfacedTask
  <2> HIDE DEF first
  <2>11. IsTask(second) /\ second.needs = needs /\ second.surfaces = first.surfaces
    BY <2>10, RestatedTask
  <2> HIDE DEF second
  <2>12. IsTask(new) /\ new.phase = <<name, rank>> /\ new.needs = second.needs /\ new.surfaces = second.surfaces
    BY <2>8, <2>11, MovedTask
  <2> HIDE DEF new
  <2>13. ReposOf(new) \subseteq ReposOf(task)
    BY <2>7, <2>10, <2>11, <2>12 DEF ReposOf
  <2>14. new.needs = needs /\ new.phase = q
    BY <2>8, <2>11, <2>12
  <2> QED
    BY <2>3, <2>9, <2>12, <2>13, <2>14 DEF task, needs
<1>4. DOMAIN tasks' = Ids /\ tasks' = [t \in DOMAIN tasks' |-> tasks'[t]]
  BY <1>1
<1>5. IsPlan(tasks')
  BY <1>2, <1>3, <1>4 DEF IsPlan, Ids
<1> QED
  BY <1>1, <1>3, <1>4, <1>5

LEMMA EmitKeepsPlan ==
  ASSUME DraftInv, Emit
  PROVE  DraftInv'
<1>1. CASE at' = "refused"
  <2>1. at' = "refused" /\ UNCHANGED <<mode, turn, tasks, phases, single, sizeRecord, agreed>>
    BY <1>1 DEF Emit, Refuse
  <2>2. Books'
    BY <2>1 DEF DraftInv, Books, Stages
  <2>3. SplitIsOrdered'
    BY <2>1, NotSplitting
  <2> QED
    BY <2>1, <2>2, <2>3, NotProposed DEF DraftInv
<1>2. CASE at' # "refused"
  <2>1. /\ at = "emit" /\ at' = "proposed" /\ UNCHANGED <<mode, turn, phases, single, sizeRecord, agreed>>
        /\ IsPlan(tasks') /\ DOMAIN tasks' = Ids
        /\ \A t \in Ids : /\ tasks'[t].needs = tasks[t].needs \cap Ids
                          /\ CloseTo(tasks[t].phase, phases) = {tasks'[t].phase} /\ tasks'[t].phase \in phases
                          /\ \A d \in phases : Distance(tasks[t].phase, d) <= Distance(tasks[t].phase, tasks'[t].phase)
                                                 => d = tasks'[t].phase
                          /\ ReposOf(tasks'[t]) \subseteq ReposOf(tasks[t])
    BY <1>2, EmitIs
  <2>2. PartsKeep(tasks, agreed) /\ (mode.tree => InOneRepo(tasks))
    BY <2>1 DEF DraftInv
  <2>3. Books'
    BY <2>1 DEF DraftInv, Books, Stages
  <2>4. SplitIsOrdered'
    BY <2>1, NotSplitting
  <2>5. \A t \in Ids' : tasks'[t].needs \subseteq Ids' /\ tasks'[t].phase \in phases'
    BY <2>1 DEF Ids
  <2>6. EdgesSurvive'
    <3> SUFFICES ASSUME NEW t \in DOMAIN agreed, NEW n \in agreed[t].needs \cap DOMAIN agreed,
                        NEW i \in Ids, IsPartOf(i, t), NEW j \in Ids, IsPartOf(j, n)
                 PROVE  j \in tasks'[i].needs
      BY <2>1 DEF EdgesSurvive, Ids
    <3>1. j \in tasks[i].needs
      BY <2>2 DEF PartsKeep, Ids
    <3> QED
      BY <2>1, <3>1
  <2>7. PhaseIsNoGuess'
    <3> SUFFICES ASSUME NEW t \in DOMAIN agreed, NEW i \in Ids, IsPartOf(i, t), NEW d \in phases,
                        Distance(agreed[t].phase, d) <= Distance(agreed[t].phase, tasks'[i].phase)
                 PROVE  d = tasks'[i].phase
      BY <2>1 DEF PhaseIsNoGuess, Ids
    <3>1. agreed[t].phase = tasks[i].phase
      BY <2>2 DEF PartsKeep, Ids
    <3> QED
      BY <2>1, <3>1
  <2>8. OneRepoEach'
    <3> SUFFICES ASSUME mode.tree, NEW t \in Ids
                 PROVE  Cardinality(ReposOf(tasks'[t])) <= 1
      BY <2>1 DEF OneRepoEach, Ids
    <3>1. Cardinality(ReposOf(tasks[t])) <= 1
      BY <2>2 DEF InOneRepo, Ids
    <3> QED
      BY <2>1, <3>1, FewerRepos
  <2> QED
    BY <2>1, <2>3, <2>4, <2>5, <2>6, <2>7, <2>8 DEF DraftInv
<1> QED
  BY <1>1, <1>2

LEMMA PlanStep ==
  ASSUME DraftInv, [DecomposeNext]_decomposeVars
  PROVE  DraftInv'
<1>1. ASSUME UNCHANGED decomposeVars
      PROVE  DraftInv'
  BY <1>1 DEF decomposeVars, DraftInv, Books, PartsKeep, SameGraph, Acyclic, InOneRepo, SplitIsOrdered, LocalCycle, Above,
              Closed, Ids, EdgesSurvive, PhaseIsNoGuess, OneRepoEach
<1> QED
  BY <1>1, SizeKeepsPlan, NoSizeKeepsPlan, DecomposeKeepsPlan, ChallengeKeepsPlan, CheckCycleKeepsPlan, CheckSurfacesKeepsPlan,
     ResolveKeepsPlan, LintKeepsPlan, CorrectKeepsPlan, EmitKeepsPlan DEF DecomposeNext

LEMMA PlanStart ==
  ASSUME DecomposeInit
  PROVE  DraftInv
<1>1. IsPlan(Empty)
  BY EmptyIsPlan
<1>2. IsFiniteSet({})
  BY FS_EmptySet
<1>3. Books
  <2>1. (sizeRecord = "task") = single
    <3>1. sizeRecord # "task" /\ single = FALSE
      BY DEF DecomposeInit
    <3> QED
      BY <3>1, Zenon
  <2>2. IsPlan(tasks) /\ IsPlan(agreed) /\ IsFiniteSet(phases) /\ \A d \in phases : d = <<d[1], d[2]>> /\ d[2] \in Nat
    BY <1>1, <1>2 DEF DecomposeInit
  <2>3. mode \in Modes /\ turn = 1 /\ single = FALSE /\ at = "start" /\ sizeRecord = "none"
    BY DEF DecomposeInit
  <2>4. turn \in 1..2 /\ at \in Stages /\ at # "challenge"
    BY <2>3 DEF Stages
  <2>5. single \in BOOLEAN
    BY <2>3, Zenon
  <2> QED
    BY <2>1, <2>2, <2>3, <2>4, <2>5 DEF Books
<1>4. SplitIsOrdered /\ EdgesSurvive /\ PhaseIsNoGuess /\ OneRepoEach
  BY DEF DecomposeInit, SplitIsOrdered, EdgesSurvive, PhaseIsNoGuess, OneRepoEach
<1> QED
  BY <1>3, <1>4 DEF DecomposeInit, DraftInv

\* That nothing waits for itself, step by step.
LEMMA DagStep ==
  ASSUME NoPartIsNamed, DraftInv, DraftInv', DagInv, [DecomposeNext]_decomposeVars
  PROVE  DagInv'
<1>1. ASSUME Size
      PROVE  DagInv'
  <2>1. /\ at' \in {"cycle", "decompose"}
        /\ at' = "cycle" => \E size \in Sizes : tasks' = SingleTicket(size)
    BY <1>1 DEF Size
  <2> QED
    BY <2>1, TicketIsPlan, NotProposed DEF DagInv
<1>2. ASSUME NoSize
      PROVE  DagInv'
  BY <1>2, NotProposed DEF NoSize, DagInv
<1>3. ASSUME Decompose
      PROVE  DagInv'
  <2>1. /\ at' \in {"refused", "challenge", "cycle"}
        /\ at' # "refused" => \E drawn \in Plans : tasks' = SplitPhases(drawn)
    BY <1>3 DEF Decompose, Refuse
  <2>2. ASSUME NEW drawn \in Plans
        PROVE  WholesNamed(SplitPhases(drawn))
    <3>1. IsPlan(drawn) /\ WholesNamed(drawn)
      BY DecomposeAssumption DEF NoPartIsNamed
    <3> QED
      BY <3>1, SplitByPhase, SameCycles
  <2> QED
    BY <2>1, <2>2, NotProposed DEF DagInv
<1>4. ASSUME Challenge
      PROVE  DagInv'
  <2>1. PICK c \in Challenges : tasks' = Apply(tasks, c)
    BY <1>4 DEF Challenge
  <2>2. at = "challenge" /\ at' = "cycle"
    BY <1>4 DEF Challenge
  <2>3. WholesNamed(tasks) /\ Apart(DOMAIN tasks) /\ DOMAIN tasks' = DOMAIN tasks
    BY <2>1, <2>2, ApplyIsPlan DEF DagInv, DraftInv, Books, IsPlan
  <2>4. ASSUME NEW t \in DOMAIN tasks, NEW n \in tasks'[t].needs
        PROVE  n \in tasks[t].needs \/ n \in DOMAIN tasks
    <3>1. IsTask(tasks[t])
      BY DEF DraftInv, Books, IsPlan
    <3> DEFINE needs == (tasks[t].needs \ {m \in tasks[t].needs : <<t, m>> \in c.spurious})
                          \cup {m \in DOMAIN tasks : m # t /\ <<t, m>> \in c.missing}
    <3>2. tasks'[t] = [tasks[t] EXCEPT !.needs = needs]
      BY <2>1 DEF Apply
    <3>3. needs \subseteq tasks[t].needs \cup DOMAIN tasks
      OBVIOUS
    <3> HIDE DEF needs
    <3>4. tasks'[t].needs = needs
      BY <3>1, <3>2, RestatedTask
    <3> QED
      BY <3>3, <3>4
  <2>5. WholesNamed(tasks')
    BY <2>3, <2>4 DEF WholesNamed, Apart
  <2> QED
    BY <2>2, <2>5, NotProposed DEF DagInv
<1>5. ASSUME CheckCycle
      PROVE  DagInv'
  <2>1. /\ at = "cycle" /\ at' \in {"refused", "surfaces", "lint"} /\ tasks' = tasks
        /\ at' # "refused" => ~LocalCycle(tasks)
    BY <1>5 DEF CheckCycle, Refuse
  <2>2. ~LocalCycle(tasks) => Acyclic(tasks)
    BY NoCycleIsAcyclic DEF DraftInv, Books, IsPlan
  <2> QED
    BY <2>1, <2>2, NotProposed DEF DagInv
<1>6. ASSUME CheckSurfaces
      PROVE  DagInv'
  <2> DEFINE placed == Placed(tasks)
             split == SplitCrossRepo(Resolved(placed))
  <2>1. /\ at = "surfaces"
        /\ \/ at' = "refused"
           \/ at' = "resolve" /\ tasks' = placed
           \/ at' = "lint" /\ tasks' = split
    BY <1>6 DEF CheckSurfaces, Refuse
  <2>2. IsPlan(tasks) /\ Acyclic(tasks) /\ WholesNamed(tasks)
    BY <2>1 DEF DraftInv, Books, DagInv
  <2>3. IsPlan(placed) /\ SameGraph(placed, tasks)
    BY <2>2, PlacedAndResolved
  <2>4. Acyclic(placed) /\ WholesNamed(placed)
    BY <2>2, <2>3, SameCycles DEF SameGraph
  <2>5. Acyclic(split)
    <3> HIDE DEF placed
    <3>1. IsPlan(Resolved(placed)) /\ SameGraph(Resolved(placed), placed)
      BY <2>3, PlacedAndResolved
    <3>2. Acyclic(Resolved(placed)) /\ WholesNamed(Resolved(placed))
      BY <2>4, <3>1, SameCycles DEF SameGraph
    <3> QED
      BY <3>1, <3>2, SplitIsAcyclic
  <2> HIDE DEF placed, split
  <2>6. /\ at' \in {"refused", "resolve", "lint"}
        /\ at' = "resolve" => tasks' = placed
        /\ at' = "lint" => tasks' = split
    BY <2>1
  <2> QED
    BY <2>4, <2>5, <2>6, NotProposed DEF DagInv
<1>7. ASSUME Resolve
      PROVE  DagInv'
  <2>1. /\ at = "resolve" /\ at' \in {"refused", "lint"}
        /\ at' = "lint" => \E c \in Corrections : tasks' = SplitCrossRepo(Resolved(Corrected(tasks, SurfacesOnly(c))))
    BY <1>7 DEF Resolve, Refuse
  <2>2. IsPlan(tasks) /\ Acyclic(tasks) /\ WholesNamed(tasks)
    BY <2>1 DEF DraftInv, Books, DagInv
  <2>3. ASSUME NEW c \in Corrections
        PROVE  Acyclic(SplitCrossRepo(Resolved(Corrected(tasks, SurfacesOnly(c)))))
    <3> DEFINE corrected == Corrected(tasks, SurfacesOnly(c))
    <3>1. IsPlan(corrected) /\ SameGraph(corrected, tasks)
      BY <2>2, ResolvedGraph
    <3>2. Acyclic(corrected) /\ WholesNamed(corrected)
      BY <2>2, <3>1, SameCycles DEF SameGraph
    <3> HIDE DEF corrected
    <3>3. IsPlan(Resolved(corrected)) /\ SameGraph(Resolved(corrected), corrected)
      BY <3>1, PlacedAndResolved
    <3>4. Acyclic(Resolved(corrected)) /\ WholesNamed(Resolved(corrected))
      BY <3>2, <3>3, SameCycles DEF SameGraph
    <3>5. Acyclic(SplitCrossRepo(Resolved(corrected)))
      BY <3>3, <3>4, SplitIsAcyclic
    <3> QED
      BY <3>5 DEF corrected
  <2> QED
    BY <2>1, <2>3, NotProposed DEF DagInv
<1>8. ASSUME Lint
      PROVE  DagInv'
  <2>1. at = "lint" /\ at' \in {"refused", "decompose", "emit", "correct"} /\ tasks' = tasks
    BY <1>8 DEF Lint, Refuse
  <2> QED
    BY <2>1, NotProposed DEF DagInv, Acyclic
<1>9. ASSUME Correct
      PROVE  DagInv'
  <2>1. at' \in {"refused", "emit"} /\ (at' # "refused" => ~LocalCycle(tasks'))
    BY <1>9, CorrectKeepsPlan DEF Correct, Refuse
  <2>2. ~LocalCycle(tasks') => Acyclic(tasks')
    BY NoCycleIsAcyclic DEF DraftInv, Books, IsPlan
  <2> QED
    BY <2>1, <2>2, NotProposed DEF DagInv
<1>10. ASSUME Emit
       PROVE  DagInv'
  <2>1. CASE at' = "refused"
    BY <2>1, NotProposed DEF DagInv
  <2>2. CASE at' # "refused"
    <3>1. /\ at = "emit" /\ at' = "proposed" /\ DOMAIN tasks' = Ids
          /\ \A t \in Ids : tasks'[t].needs = tasks[t].needs \cap Ids
      BY <1>10, <2>2, EmitIs
    <3>2. Acyclic(tasks)
      BY <3>1 DEF DagInv
    <3>3. PlanIsADag'
      BY <3>1, <3>2 DEF PlanIsADag, Acyclic, Ids
    <3> QED
      BY <3>1, <3>3 DEF DagInv
  <2> QED
    BY <2>1, <2>2
<1>11. ASSUME UNCHANGED decomposeVars
       PROVE  DagInv'
  BY <1>11 DEF decomposeVars, DagInv, WholesNamed, Acyclic, PlanIsADag, Ids
<1> QED
  BY <1>1, <1>2, <1>3, <1>4, <1>5, <1>6, <1>7, <1>8, <1>9, <1>10, <1>11 DEF DecomposeNext

\* The plan, on its way from the answer to the proposals, keeps its edges and its phases, and
\* no task touches two repositories after the split (initiative_decompose.py:858-1080).
THEOREM PlansAreKept == DecomposeSpec => []DraftInv
<1>1. DecomposeInit => DraftInv
  BY PlanStart
<1>2. DraftInv /\ [DecomposeNext]_decomposeVars => DraftInv'
  BY PlanStep
<1> QED
  BY <1>1, <1>2, PTL DEF DecomposeSpec

\* Nothing is settled by a guess, for every tree, every plan and every answer: neither the
\* phase of a task, nor its repository, nor the recorded size.
THEOREM NothingIsSettledByAGuess == DecomposeSpec => []NothingIsGuessed
<1>1. DraftInv => NothingIsGuessed
  BY DEF DraftInv, Books, NothingIsGuessed, SizeRecordTrue
<1> QED
  BY <1>1, PlansAreKept, PTL

\* What is proposed can be worked on: no cycle, no agreed edge lost, and a split plan in the
\* order of its needs - when no need names a part of a task that is still whole.
THEOREM ProposedPlansAreSound ==
  ASSUME NoPartIsNamed
  PROVE  DecomposeSpec => []PlanIsSound
<1>1. DecomposeInit => DraftInv /\ DagInv
  BY PlanStart DEF DecomposeInit, DagInv, PlanIsADag
<1>2. (DraftInv /\ DagInv) /\ [DecomposeNext]_decomposeVars => (DraftInv /\ DagInv)'
  BY PlanStep, DagStep
<1>3. DraftInv /\ DagInv => PlanIsSound
  <2> SUFFICES ASSUME DraftInv, DagInv
               PROVE  PlanIsSound
    OBVIOUS
  <2>1. DecomposeTypeOK
    BY DEF DraftInv, Books, DecomposeTypeOK, IsPlan, IsTask, Ids
  <2> QED
    BY <2>1 DEF DraftInv, DagInv, PlanIsSound
<1> QED
  BY <1>1, <1>2, <1>3, PTL DEF DecomposeSpec
=============================================================================
