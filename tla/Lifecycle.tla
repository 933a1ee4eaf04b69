----------------------------- MODULE Lifecycle -----------------------------
(***************************************************************************)
(* One run of the lifecycle graph for one task                             *)
(* (graphs/delivery/lifecycle_propose.py: _run): scope, plan, build,       *)
(* handoff, review, and the bounded loop that sends a change back.  Each   *)
(* action is one runner call with what the code does on its answer or on   *)
(* its failure.  What a model answers is a choice; a patch is known by     *)
(* the number of the attempt that returned it and by what the checks of    *)
(* the graph can tell of it.                                               *)
(***************************************************************************)
EXTENDS Integers, FiniteSets

CONSTANTS
  Tickets,       \* what is fixed for a run, see TicketFacts
  Claims,        \* the objections an adversary may raise
  FixAttempts,   \* the argument fix_attempts
  Ceiling        \* the runaway ceiling of the build role, in budget slices

CONTINUATIONS_MAX == 2
Fractions == 2   \* Len(CHECKPOINT_FRACTIONS)

Seats == {"scope_epic", "competition", "plan_adversary", "handoff", "review_adversary", "arbitrate"}

(* bound: the optional roles the cartridge binds; compete: the floor of     *)
(* the plan gate is cleared; tiers: what the ticket names a tier for;       *)
(* ceiling: the runner has a runaway ceiling for build; prefixes: the       *)
(* runner lists the commands a build session may run.                       *)
TicketFacts ==
  [bound : SUBSET Seats, compete : BOOLEAN, tiers : SUBSET {"build", "review"},
   workItem : BOOLEAN, ceiling : BOOLEAN, prefixes : BOOLEAN]

ASSUME LifecycleAssumption ==
  /\ Tickets \subseteq TicketFacts
  /\ FixAttempts \in Nat
  /\ Ceiling \in Nat \ {0}

VARIABLES
  ticket,    \* the facts of this run's ticket
  place,     \* where _run is
  outcome,   \* how it ended
  plan,      \* who wrote the plan, and who revised it
  session,   \* the build thread: spend in slices, checkpoints crossed
  resume,    \* the budget stop at hand, and what _resume_build carries
  build,     \* the build the record will hold
  answer,    \* what the build call just returned
  judged,    \* the judgement of `build`
  loop,      \* the variables of the fix loop
  record,    \* the scope and the proposals of the result
  seen       \* history, read by properties only

lifecycleVars == <<ticket, place, outcome, plan, session, resume, build, answer, judged, loop, record, seen>>

Verdict == {"approve", "revise", "reject"}
Patch == {"good", "cut", "mismatch", "empty"}
NoAnswer == [patch |-> "empty", similar |-> FALSE, moved |-> "scoped", evidence |-> FALSE]
NoStop == [index |-> -1, patch |-> "empty", session |-> TRUE, grew |-> TRUE, checks |-> TRUE]
(* A BudgetStop: the checkpoint it crossed or -1, and of the partial patch  *)
(* whether it stays in the surfaces, grew since the last checkpoint and     *)
(* passes the named checks.  A checkpoint is crossed on a session only.     *)
Stops ==
  {s \in [index : -1..(Fractions - 1), patch : {"empty", "inside", "outside"},
          session : BOOLEAN, grew : BOOLEAN, checks : BOOLEAN] :
     IF s.index = -1 THEN s.grew /\ s.checks ELSE s.session}
NoRound == [of |-> 0, tier |-> 0, handoff |-> "none", charter |-> "none",
            adversary |-> "none", claims |-> {}, arbiter |-> "none", scope |-> "none"]

Bound(seat) == seat \in ticket.bound
Elevated == ticket.tiers # {}

(***************************************************************************)
(* What the checks of the graph make of an answer.                         *)
(***************************************************************************)
PatchParses(b) == b.patch # "cut"
BuildOutputValid(b) == b.patch # "mismatch"

(* A retry against the build it replaces.  `similar`: the texts match to    *)
(* 0.98; `moved`: whether no file's diff moved, one the arbiter did not     *)
(* name, or one it named; `evidence`: commands_run or the summary moved.    *)
Answers ==
  {a \in [patch : Patch, similar : BOOLEAN, moved : {"no", "elsewhere", "scoped"}, evidence : BOOLEAN] :
     a.moved = "no" => a.similar}
FirstAnswers == {[NoAnswer EXCEPT !.patch = p] : p \in Patch}

NoProgress(a) ==
  /\ CASE judged.scope = "none"  -> a.similar
       [] judged.scope = "any"   -> a.moved = "no"
       [] judged.scope = "files" -> a.moved # "scoped"
  /\ loop.prior => ~a.evidence

(* The attributes of the runner are read off the wrapper that carries the   *)
(* ticket's tiers, and it forwards none.                                    *)
RunnerCeiling == ticket.ceiling /\ ~Elevated
RunnerPrefixes == ticket.prefixes /\ ~Elevated

Missing == {"measured", "impossible", "evidence"}
Kept(missing) == (missing \ {"measured"}) \ (IF RunnerPrefixes THEN {"impossible"} ELSE {})

(***************************************************************************)
(* The checkpoint and the continuation rules.                              *)
(***************************************************************************)
CheckpointRevises(s) ==
  \/ s.patch = "outside"
  \/ ~s.grew
  \/ s.index = Fractions - 1 /\ ~s.checks

ContinueOk(s) ==
  /\ s.session
  /\ s.patch # "outside"
  /\ IF s.patch = "empty" THEN resume.conts = 0
     ELSE IF RunnerCeiling THEN session.spent < Ceiling
     ELSE resume.conts < CONTINUATIONS_MAX

-----------------------------------------------------------------------------
(* The number of the build at work: one more than the changes sent back. *)
Attempt == seen.sent + 1

EndWith(why) == place' = "done" /\ outcome' = why

(* A RunnerError of a node whose call is not guarded ends the graph. *)
Failures == {"failed", "limit", "budget"}
Unguarded ==
  /\ \E f \in Failures : EndWith(f)
  /\ UNCHANGED <<ticket, plan, session, resume, build, answer, judged, loop, record, seen>>

(* handoff, review_charter, review_adversary and arbitrate: a BudgetStop    *)
(* goes on, any other RunnerError becomes the record of a failed node.      *)
NodeFailure ==
  /\ \/ EndWith("budget") /\ UNCHANGED <<record, seen>>
     \/ EndWith("infra") /\ record' = [record EXCEPT !.proposals = {}] /\ UNCHANGED seen
  /\ UNCHANGED <<ticket, plan, session, resume, build, answer, judged, loop>>

ScopeEpic ==
  /\ place = "scope"
  /\ \/ /\ Bound("scope_epic")
        /\ record' = [scope |-> "scoped",
                      proposals |-> IF ticket.workItem THEN {} ELSE {"item_create"}, attempts |-> 0]
        /\ place' = "plan" /\ UNCHANGED outcome
     \/ /\ ~Bound("scope_epic")
        /\ place' = "plan" /\ UNCHANGED <<outcome, record>>
     \/ Bound("scope_epic") /\ (\E f \in Failures : EndWith(f)) /\ UNCHANGED record
  /\ UNCHANGED <<ticket, plan, session, resume, build, answer, judged, loop, seen>>

AfterPlan == IF Bound("plan_adversary") /\ ticket.compete THEN "attack" ELSE "build"

FirstPlan ==
  /\ place = "plan"
  /\ place' = IF Bound("competition") /\ ticket.compete THEN "compete" ELSE AfterPlan
  /\ plan' = [author |-> "plan", reviser |-> "none", by |-> "plan"]
  /\ UNCHANGED <<ticket, outcome, session, resume, build, answer, judged, loop, record, seen>>

(* The second plan and the arbiter's choice.  A merge without a plan stops  *)
(* the graph.                                                               *)
PlanCompetition ==
  /\ place = "compete"
  /\ \/ \E chosen \in {"first", "second", "merged"} :
          /\ plan' = CASE chosen = "first"  -> plan
                       [] chosen = "second" -> [plan EXCEPT !.author = "plan_alternative", !.by = "plan_alternative"]
                       [] chosen = "merged" -> [plan EXCEPT !.author = "plan_arbitrate", !.by = "plan_arbitrate"]
          /\ place' = AfterPlan /\ UNCHANGED outcome
     \/ EndWith("contract") /\ UNCHANGED plan
  /\ UNCHANGED <<ticket, session, resume, build, answer, judged, loop, record, seen>>

PlanAttack ==
  /\ place = "attack"
  /\ \E verdict \in {"proceed", "revise"} :
       plan' = IF verdict = "revise" THEN [plan EXCEPT !.reviser = plan.author] ELSE plan
  /\ place' = "build"
  /\ UNCHANGED <<ticket, outcome, session, resume, build, answer, judged, loop, record, seen>>

PlanFails == place \in {"plan", "compete", "attack"} /\ Unguarded

-----------------------------------------------------------------------------
(***************************************************************************)
(* The build call, in the places _run makes it (resume.site), and its      *)
(* resumption.                                                             *)
(***************************************************************************)
AtCeiling == ticket.ceiling /\ session.spent >= Ceiling

Builds ==
  /\ place \in {"build", "resume"}
  /\ ~AtCeiling
  /\ answer' \in IF resume.site = "retry" THEN Answers ELSE FirstAnswers
  /\ resume' = [resume EXCEPT !.conts = IF place = "resume" THEN @ + 1 ELSE @, !.stop = NoStop]
  /\ place' = "built"
  /\ UNCHANGED <<ticket, outcome, plan, session, build, judged, loop, record, seen>>

\* Mutant: a continuation counts only when it answers.
BuildStopsUncounted ==
  /\ place \in {"build", "resume"}
  /\ \E stop \in Stops :
       /\ stop.index \in {-1, session.ckpt}
       /\ AtCeiling => stop.index = -1
       /\ ~resume.prev => stop.grew
       /\ resume' = [resume EXCEPT !.stop = stop]
       /\ session' = [spent |-> IF ticket.ceiling /\ ~AtCeiling THEN session.spent + 1 ELSE session.spent,
                      ckpt |-> IF stop.index = -1 THEN session.ckpt ELSE session.ckpt + 1]
  /\ place' = "stop"
  /\ UNCHANGED <<ticket, outcome, plan, build, answer, judged, loop, record, seen>>

(* The runner's stop: at the next checkpoint of the session, or with no     *)
(* index at a cap or at the ceiling.  A session at its ceiling stops        *)
(* without a call.                                                          *)
BuildStops ==
  /\ place \in {"build", "resume"}
  /\ \E stop \in Stops :
       /\ stop.index \in {-1, session.ckpt}
       /\ AtCeiling => stop.index = -1
       /\ ~resume.prev => stop.grew
       /\ resume' = [resume EXCEPT !.stop = stop, !.conts = IF place = "resume" THEN @ + 1 ELSE @]
       /\ session' = [spent |-> IF ticket.ceiling /\ ~AtCeiling THEN session.spent + 1 ELSE session.spent,
                      ckpt |-> IF stop.index = -1 THEN session.ckpt ELSE session.ckpt + 1]
  /\ place' = "stop"
  /\ UNCHANGED <<ticket, outcome, plan, build, answer, judged, loop, record, seen>>

BuildFails ==
  /\ place \in {"build", "resume"}
  /\ \E f \in {"failed", "limit"} : EndWith(f)
  /\ UNCHANGED <<ticket, plan, session, resume, build, answer, judged, loop, record, seen>>

(* _resume_build: go on, or hand the no-go to the site the build was        *)
(* called from.                                                             *)
ResumeBuild ==
  /\ place = "stop"
  /\ IF resume.stop.index >= 0 THEN ~CheckpointRevises(resume.stop) ELSE ContinueOk(resume.stop)
  /\ resume' = [resume EXCEPT !.prev = @ \/ resume.stop.index >= 0, !.stop = NoStop]
  /\ place' = "resume"
  /\ UNCHANGED <<ticket, outcome, plan, session, build, answer, judged, loop, record, seen>>

(* A checkpoint revised before any review: the partial patch is the build,  *)
(* and it is frozen.                                                        *)
CheckpointStopsBuild ==
  /\ place = "stop" /\ resume.site # "retry"
  /\ resume.stop.index >= 0 /\ CheckpointRevises(resume.stop)
  /\ build' = [id |-> Attempt, patch |-> "good"]
  /\ judged' = [NoRound EXCEPT !.of = Attempt]
  /\ loop' = [loop EXCEPT !.verdict = "revise", !.frozen = TRUE, !.stopped = "checkpoint"]
  /\ place' = "loop"
  /\ UNCHANGED <<ticket, outcome, plan, session, resume, answer, record, seen>>

ContinuationRefused ==
  /\ place = "stop" /\ resume.site # "retry"
  /\ resume.stop.index < 0 /\ ~ContinueOk(resume.stop)
  /\ EndWith("budget")
  /\ UNCHANGED <<ticket, plan, session, resume, build, answer, judged, loop, record, seen>>

(* A retry that ran out: the build and its review stay, the attempt counts. *)
RetryStopped ==
  /\ place = "stop" /\ resume.site = "retry"
  /\ LET revised == resume.stop.index >= 0 IN
       /\ IF revised THEN CheckpointRevises(resume.stop) ELSE ~ContinueOk(resume.stop)
       /\ loop' = [loop EXCEPT !.halves = @ + 2, !.stopped = IF revised THEN "checkpoint" ELSE "budget"]
  /\ place' = "finish"
  /\ UNCHANGED <<ticket, outcome, plan, session, resume, build, answer, judged, record, seen>>

-----------------------------------------------------------------------------
(***************************************************************************)
(* The first build: asked again once when it is cut off, once when its     *)
(* own account of it is wrong, and frozen when that does not help.         *)
(***************************************************************************)
AfterBuild == IF Bound("handoff") THEN "handoff" ELSE "charter"
TakeBuild == build' = [id |-> Attempt, patch |-> answer.patch] /\ answer' = NoAnswer

AskAgain ==
  /\ place = "built"
  /\ \/ resume.site = "first" /\ ~PatchParses(answer) /\ resume' = [resume EXCEPT !.site = "cut"]
     \/ /\ resume.site \in {"first", "cut"} /\ PatchParses(answer) /\ ~BuildOutputValid(answer)
        /\ resume' = [resume EXCEPT !.site = "invalid"]
  /\ place' = "build"
  /\ UNCHANGED <<ticket, outcome, plan, session, build, answer, judged, loop, record, seen>>

FreezeBuild ==
  /\ place = "built"
  /\ \/ resume.site = "cut" /\ ~PatchParses(answer)
     \/ resume.site = "invalid" /\ ~BuildOutputValid(answer)
  /\ TakeBuild
  /\ judged' = [NoRound EXCEPT !.of = Attempt]
  /\ loop' = [loop EXCEPT !.verdict = "revise", !.frozen = TRUE,
              !.stopped = IF resume.site = "cut" THEN "patch_truncated" ELSE "build_output_invalid"]
  /\ place' = "loop"
  /\ UNCHANGED <<ticket, outcome, plan, session, resume, record, seen>>

(* The answer to the last question is not asked whether it parses. *)
TakeFirstBuild ==
  /\ place = "built"
  /\ \/ resume.site \in {"first", "cut"} /\ PatchParses(answer) /\ BuildOutputValid(answer)
     \/ resume.site = "invalid" /\ BuildOutputValid(answer)
  /\ TakeBuild
  /\ judged' = [NoRound EXCEPT !.of = Attempt]
  /\ place' = AfterBuild
  /\ UNCHANGED <<ticket, outcome, plan, session, resume, loop, record, seen>>

\* Mutant: the retry replaces the build before it is compared with it.
TakeRetryAtOnce ==
  /\ place = "built" /\ resume.site = "retry"
  /\ loop' = [loop EXCEPT !.halves = @ + 2, !.stopped = IF NoProgress(answer) THEN "no_progress" ELSE @]
  /\ TakeBuild
  /\ judged' = IF NoProgress(answer) THEN judged ELSE [NoRound EXCEPT !.of = Attempt]
  /\ place' = IF NoProgress(answer) THEN "finish" ELSE AfterBuild
  /\ UNCHANGED <<ticket, outcome, plan, session, resume, record, seen>>

(* A retry: counted, and dropped when it is no progress.  The local `scope` *)
(* of _run is the arbiter's from here on.                                   *)
TakeRetry ==
  /\ place = "built" /\ resume.site = "retry"
  /\ record' = [record EXCEPT !.scope = IF judged.scope = "none" THEN "none" ELSE "files"]
  /\ \/ /\ NoProgress(answer)
        /\ loop' = [loop EXCEPT !.halves = @ + 2, !.stopped = "no_progress"]
        /\ place' = "finish" /\ answer' = NoAnswer
        /\ UNCHANGED <<build, judged>>
     \/ /\ ~NoProgress(answer)
        /\ loop' = [loop EXCEPT !.halves = @ + 2]
        /\ TakeBuild
        /\ judged' = [NoRound EXCEPT !.of = Attempt]
        /\ place' = AfterBuild
  /\ UNCHANGED <<ticket, outcome, plan, session, resume, seen>>

-----------------------------------------------------------------------------
(***************************************************************************)
(* The judgement of a build.                                               *)
(***************************************************************************)
Handoff ==
  /\ place = "handoff"
  /\ \E missing \in SUBSET Missing, said, blocking \in BOOLEAN :
       LET kept == Kept(missing)
           complete == said \/ kept = {}
           stop == ~complete /\ (build.patch = "empty" \/ blocking)
       IN \/ stop /\ EndWith("contract") /\ UNCHANGED <<judged, loop>>
          \/ /\ complete
             /\ judged' = [judged EXCEPT !.handoff = "complete"]
             /\ loop' = [loop EXCEPT !.prior = FALSE]
             /\ place' = "charter" /\ UNCHANGED outcome
          \/ /\ ~complete /\ ~stop
             /\ judged' = [judged EXCEPT !.handoff = "incomplete"]
             /\ loop' = [loop EXCEPT !.prior = TRUE, !.verdict = "revise",
                         !.halves = IF resume.site = "retry" THEN @ - 1 ELSE @]
             /\ place' = "loop" /\ UNCHANGED outcome
  /\ UNCHANGED <<ticket, plan, session, resume, build, answer, record, seen>>

(* A reviewer is asked twice at most; a placeholder twice is an abstention. *)
Reviews == Verdict \cup {"abstain"}

ReviewCharter ==
  /\ place = "charter"
  /\ \E tier \in 0..2, said \in Reviews :
       /\ judged' = [judged EXCEPT !.tier = tier, !.charter = said]
       /\ place' = IF tier >= 1 /\ Bound("review_adversary") THEN "adversary" ELSE "judge"
  /\ loop' = [loop EXCEPT !.prior = FALSE]
  /\ UNCHANGED <<ticket, outcome, plan, session, resume, build, answer, record, seen>>

ReviewAdversary ==
  /\ place = "adversary"
  /\ \E said \in Reviews, claims \in SUBSET Claims :
       /\ said = "abstain" => claims = {}
       /\ judged' = [judged EXCEPT !.adversary = said, !.claims = claims]
       /\ seen' = [seen EXCEPT !.raised = [c \in Claims |-> @[c] + (IF c \in claims THEN 1 ELSE 0)]]
  /\ place' = "judge"
  /\ UNCHANGED <<ticket, outcome, plan, session, resume, build, answer, loop, record>>

Usable(said) == said \in Verdict
ArbiterNeeded ==
  /\ Bound("arbitrate")
  /\ judged.adversary # "none"
  /\ \/ Usable(judged.charter) # Usable(judged.adversary)
     \/ /\ Usable(judged.charter) /\ Usable(judged.adversary)
        /\ \/ judged.charter # judged.adversary
           \/ judged.tier = 2 /\ judged.charter # "approve"

Arbitrate ==
  /\ place = "judge" /\ ArbiterNeeded /\ judged.arbiter = "none"
  /\ \E said \in Verdict, named \in {"any", "files"} :
       judged' = [judged EXCEPT !.arbiter = said, !.scope = IF said = "revise" THEN named ELSE "none"]
  /\ UNCHANGED <<ticket, place, outcome, plan, session, resume, build, answer, loop, record, seen>>

RoundVerdict ==
  IF judged.arbiter # "none" THEN judged.arbiter
  ELSE IF judged.adversary = "none" THEN judged.charter
  ELSE IF ~Usable(judged.charter) THEN judged.adversary
  ELSE IF ~Usable(judged.adversary) THEN judged.charter
  ELSE IF judged.charter = "approve" /\ judged.adversary = "approve" THEN "approve" ELSE "revise"

Silent == ~Usable(judged.charter) /\ ~Usable(judged.adversary)

(* The end of a round: the verdict, and in the loop the check of the        *)
(* standing objections.                                                     *)
ReviewRound ==
  /\ place = "judge" /\ ~(ArbiterNeeded /\ judged.arbiter = "none")
  /\ LET verdict == IF Silent THEN "revise" ELSE RoundVerdict
         retried == resume.site = "retry"
         again == retried /\ verdict # "approve" /\ loop.standing \cap judged.claims # {}
     IN /\ loop' = [loop EXCEPT !.verdict = verdict, !.silent = Silent,
                    !.stopped = IF Silent THEN "harness fault"
                                ELSE IF again THEN "objection_standing" ELSE @]
        /\ place' = IF retried /\ (Silent \/ again \/ verdict = "approve") THEN "finish" ELSE "loop"
  /\ UNCHANGED <<ticket, outcome, plan, session, resume, build, answer, judged, record, seen>>

RoundFails == place \in {"handoff", "charter", "adversary"} /\ NodeFailure
ArbiterFails == place = "judge" /\ ArbiterNeeded /\ judged.arbiter = "none" /\ NodeFailure

-----------------------------------------------------------------------------
(***************************************************************************)
(* The fix loop.  Attempts are counted in halves: a handoff that sends a   *)
(* retry back costs a half.                                                *)
(***************************************************************************)
LoopGoesOn ==
  /\ loop.verdict # "approve"
  /\ loop.halves <= 2 * FixAttempts
  /\ ~loop.silent
  /\ ~loop.frozen

Escalates ==
  /\ loop.halves \div 2 = 1
  /\ loop.verdict = "revise"
  /\ ~loop.prior
  /\ "build" \notin ticket.tiers

\* Mutant: only the claims of the last round stand.
SendBackForgets ==
  /\ place = "loop" /\ LoopGoesOn
  /\ loop' = [loop EXCEPT !.standing = judged.claims]
  /\ judged' = [NoRound EXCEPT !.of = judged.of, !.scope = judged.scope]
  /\ resume' = [resume EXCEPT !.site = "retry"]
  /\ seen' = [seen EXCEPT !.sent = @ + 1]
  /\ place' = "build"
  /\ UNCHANGED <<ticket, outcome, plan, session, build, answer, record>>

SendBack ==
  /\ place = "loop" /\ LoopGoesOn
  /\ loop' = [loop EXCEPT !.standing = @ \cup judged.claims]
  /\ judged' = [NoRound EXCEPT !.of = judged.of, !.scope = judged.scope]
  /\ resume' = [resume EXCEPT !.site = "retry"]
  /\ seen' = [seen EXCEPT !.sent = @ + 1, !.escalated = IF Escalates THEN @ \cup {seen.sent + 1} ELSE @]
  /\ place' = "build"
  /\ UNCHANGED <<ticket, outcome, plan, session, build, answer, record>>

LoopIsOver ==
  /\ place = "loop" /\ ~LoopGoesOn
  /\ place' = "finish"
  /\ UNCHANGED <<ticket, outcome, plan, session, resume, build, answer, judged, loop, record, seen>>

(* The record, with a draft PR only for an approved build. *)
Finish ==
  /\ place = "finish"
  /\ loop' = [loop EXCEPT !.stopped = IF loop.verdict # "approve" /\ @ = "none" THEN "attempts_exhausted" ELSE @]
  /\ record' = IF loop.verdict = "approve"
               THEN [record EXCEPT !.proposals = @ \cup {"draft_pr_create"},
                                   !.attempts = IF loop.halves > 2 THEN loop.halves ELSE 0]
               ELSE record
  /\ EndWith("record")
  /\ UNCHANGED <<ticket, plan, session, resume, build, answer, judged, seen>>

-----------------------------------------------------------------------------
LifecycleInit ==
  /\ ticket \in Tickets
  /\ place = "scope" /\ outcome = "none"
  /\ plan = [author |-> "none", reviser |-> "none", by |-> "none"]
  /\ session = [spent |-> 0, ckpt |-> 0]
  /\ resume = [site |-> "first", stop |-> NoStop, conts |-> 0, prev |-> FALSE]
  /\ build = [id |-> 0, patch |-> "empty"]
  /\ answer = NoAnswer
  /\ judged = NoRound
  /\ loop = [verdict |-> "none", halves |-> 2, standing |-> {}, stopped |-> "none",
             frozen |-> FALSE, silent |-> FALSE, prior |-> FALSE]
  /\ record = [scope |-> "none", proposals |-> {}, attempts |-> 0]
  /\ seen = [sent |-> 0, escalated |-> {}, raised |-> [c \in Claims |-> 0]]

LifecycleStep ==
  \/ ScopeEpic \/ FirstPlan \/ PlanCompetition \/ PlanAttack \/ PlanFails
  \/ Builds \/ BuildStops \/ BuildFails \/ ResumeBuild
  \/ CheckpointStopsBuild \/ ContinuationRefused \/ RetryStopped
  \/ AskAgain \/ FreezeBuild \/ TakeFirstBuild \/ TakeRetry
  \/ Handoff \/ ReviewCharter \/ ReviewAdversary \/ Arbitrate \/ ReviewRound
  \/ RoundFails \/ ArbiterFails
  \/ SendBack \/ LoopIsOver \/ Finish

LifecycleSpec == LifecycleInit /\ [][LifecycleStep]_lifecycleVars

(* Every call of a runner ends: it answers, or its process is killed at its *)
(* timeout, and nothing else keeps the graph from its next statement.       *)
FairLifecycleSpec == LifecycleSpec /\ WF_lifecycleVars(LifecycleStep)
-----------------------------------------------------------------------------
LifecycleTypeOK ==
  /\ ticket \in Tickets
  /\ outcome \in {"none", "record", "infra", "contract"} \cup Failures
  /\ session \in [spent : 0..Ceiling, ckpt : 0..Fractions]
  /\ resume.site \in {"first", "cut", "invalid", "retry"} /\ resume.conts \in Nat
  /\ resume.stop.index \in -1..(Fractions - 1)
  /\ build \in [id : Nat, patch : Patch]
  /\ answer \in Answers \cup {NoAnswer}
  /\ judged.claims \subseteq Claims /\ judged.tier \in 0..2
  /\ loop.halves \in 2..(2 * FixAttempts + 2) /\ loop.standing \subseteq Claims
  /\ record.proposals \subseteq {"item_create", "draft_pr_create"}
  /\ seen.raised \in [Claims -> Nat]

(* The build and the review in the record describe the same patch, also    *)
(* when a retry was dropped, refused or stopped ("or the record lies about *)
(* what was reviewed").                                                     *)
RecordDescribesOneBuild == outcome = "record" => judged.of = build.id

(* A draft PR is proposed only for the build that the whole round judged:   *)
(* the same handoff, reviewers and arbitration for a retry as for the       *)
(* first try.                                                               *)
ApprovedByAWholeRound ==
  "draft_pr_create" \in record.proposals =>
    /\ judged.of = build.id
    /\ Bound("handoff") => judged.handoff = "complete"
    /\ judged.tier >= 1 /\ Bound("review_adversary") => judged.adversary # "none"
    /\ IF judged.arbiter # "none" THEN judged.arbiter = "approve"
       ELSE /\ ~ArbiterNeeded
            /\ {judged.charter, judged.adversary} \subseteq {"approve", "abstain", "none"}
            /\ {judged.charter, judged.adversary} \cap {"approve"} # {}

(* A change that was sent back says so: the draft PR carries the attempts   *)
(* whenever there was a second one, so a repeated pass cannot look like a   *)
(* first-try one.                                                           *)
AttemptsAreCarried ==
  "draft_pr_create" \in record.proposals => (record.attempts > 0 <=> seen.sent > 0)

(* Only the second build is asked a tier up, and only after a review:       *)
(* never a third, whatever the half attempts add up to.                     *)
EscalatesOnce == seen.escalated \subseteq {1}

(* An objection that is raised again in any later round ends the loop: the  *)
(* reviewers are not ground down by a claim from two rounds ago.            *)
RepeatedObjectionEnds ==
  /\ place = "build" /\ resume.site = "retry" => \A c \in Claims : seen.raised[c] <= 1
  /\ outcome = "record" /\ loop.verdict # "approve" /\ (\E c \in Claims : seen.raised[c] > 1) =>
       loop.stopped \in {"objection_standing", "harness fault"}

(* Nothing is rebuilt against a silence: a change goes back to the builder  *)
(* only for what a reviewer or the handoff said of that very build.         *)
NoRebuildAgainstSilence ==
  [][place = "loop" /\ place' = "build" =>
       /\ judged.of = build.id
       /\ judged.handoff = "incomplete" \/ Usable(judged.charter) \/ Usable(judged.adversary)]_lifecycleVars

(* The graph ends, whatever is answered and however often a session stops   *)
(* at its budget.                                                           *)
LifecycleEnds == <>(place = "done")

(* The chosen plan is revised by the seat that wrote it, whichever of the   *)
(* three seats of a competition that was.                                   *)
RevisedByItsAuthor == plan.reviser \in {"none", plan.by}

(* A record says what happened: of one build, of the round that judged it   *)
(* and of the attempts it took.                                             *)
RecordIsHonest ==
  LifecycleTypeOK /\ RecordDescribesOneBuild /\ ApprovedByAWholeRound /\ AttemptsAreCarried

(* The fix loop neither gives up on its own rules nor bends them: one step  *)
(* up, one hearing of an objection, the author's own revision, and a build  *)
(* only against something said.                                             *)
FixLoopIsFair ==
  [](EscalatesOnce /\ RepeatedObjectionEnds /\ RevisedByItsAuthor) /\ NoRebuildAgainstSilence
=============================================================================
