----------------------------- MODULE ApiRunner -----------------------------
(***************************************************************************)
(* The two runners that call a model's API themselves: the Messages API    *)
(* (runner/anthropic_runner.py) and an OpenAI-compatible endpoint          *)
(* (runner/openai_compatible_runner.py), which hands the models of the     *)
(* first to a runner of that kind it builds for itself.  A call is either  *)
(* one request (with one retry on the endpoint) or, for a build in a       *)
(* worktree, the tool loop.  What is modelled of a call is its money: the  *)
(* max_tokens asked for, what is charged to the thread, the rows handed to *)
(* the store, the budget stops.  A model has no price, a price for its     *)
(* prompts only, or one unit per output token on top of it; `Inputs`       *)
(* stands for what a prompt costs.                                         *)
(***************************************************************************)
EXTENDS ToolLoop, FiniteSets, FiniteSetsExt

CONSTANTS
  Threads,    \* thread keys, NoThread among them
  NoThread,
  MaxTokens,  \* max_tokens of the runner
  Longest,    \* the longest reply of a model that nothing limits
  Inputs,     \* what a prompt may cost
  Budget,     \* the budget a caller or a profile sets
  MaxCalls    \* bound: calls of the runner

ASSUME ApiRunnerAssumption ==
  /\ MaxTokens \in Nat \ {0} /\ Longest \in Nat /\ MaxTokens <= Longest
  /\ Inputs \subseteq Nat /\ Budget \in Nat /\ MaxCalls \in Nat
  /\ NoThread \in Threads /\ \E most \in Inputs : \A i \in Inputs : i <= most

VARIABLES
  cfg,     \* which runner, the profile's budget, what the profile prices of the model
  pc,      \* idle, asked, retry, loop
  ask,     \* the call being made
  spent,   \* per runner and thread: what it has charged
  calls,   \* runner.calls of the endpoint's runner: costs
  rows,    \* the rows handed to the store
  out,     \* how the last call ended
  n,       \* calls so far
  paid,    \* what the vendor has billed at the profile's prices
  dropped, \* of that, billed with a reply that has no content
  late,    \* history: of that, billed to a thread that was past its budget when it asked
  real,    \* what the turns of the running loop cost, priced or not
  asked    \* max_tokens of the last request

runnerVars == <<cfg, pc, ask, spent, calls, rows, out, n, paid, dropped, late, real, asked>>
apiVars == <<loopVars, runnerVars>>

Runners == {"own", "delegate"}
NoAsk == [build |-> FALSE, thread |-> NoThread, budget |-> NoBudget, by |-> "own", schema |-> TRUE]
Nothing == [r \in Runners |-> [t \in Threads |-> 0]]

\* The Messages API answers the call: this runner's own kind, or its delegate.
Messages == cfg.kind = "anthropic" \/ ask.by = "delegate"
InWorktree == ask.build /\ ask.by = "own"
Priced == cfg.price # "none"
\* A model whose output costs nothing has a price and no cap.
Capped == cfg.price = "full"
Price(cost) == IF Priced THEN cost ELSE 0
SpentBefore == IF Messages /\ ask.thread = NoThread THEN 0 ELSE spent[ask.by][ask.thread]

\* The costs a reply may have under a max_tokens. An endpoint that does not refuse one below 1
\* takes it for no limit.
Costs(maxTokens) ==
  IF cfg.price = "input" THEN Inputs
  ELSE {i + o : i \in Inputs, o \in 0..(IF maxTokens < 1 THEN Longest ELSE maxTokens)}

\* A new row, under the next number of the one sequence. What it is the row of, its role and
\* its task, is known here by the thread.
NextSeq == Len(rows) + 1
Row(cost, ok) == rows' = Append(rows, [seq |-> NextSeq, by |-> ask.by, thread |-> ask.thread, cost |-> cost, ok |-> ok])

Finish(what) == out' = what /\ pc' = "idle" /\ ask' = NoAsk

Pay(cost) == paid' = [paid EXCEPT ![ask.by][ask.thread] = @ + Price(cost)]

\* Only the Messages API's runner leaves a call without a thread uncharged.
Charge(price) ==
  spent' = IF Messages /\ ask.thread = NoThread THEN spent
           ELSE [spent EXCEPT ![ask.by][ask.thread] = @ + price]

-----------------------------------------------------------------------------
ApiInit ==
  /\ LoopInit
  /\ cfg \in [kind : {"anthropic", "openai"}, budget : {NoBudget, Budget}, price : {"none", "input", "full"}]
  /\ cfg.kind = "anthropic" => cfg.budget = NoBudget
  /\ pc = "idle" /\ ask = NoAsk /\ spent = Nothing /\ calls = <<>> /\ rows = <<>>
  /\ out = "none" /\ n = 0 /\ paid = Nothing /\ dropped = Nothing /\ late = Nothing /\ real = 0 /\ asked = MaxTokens

(* A caller asks. It gives its own budget or none, the same on every call  *)
(* of a thread; a model of the Messages API goes to the delegate.          *)
Ask ==
  /\ pc = "idle" /\ n < MaxCalls
  /\ n' = n + 1 /\ pc' = "asked" /\ out' = "none"
  /\ \E build, schema \in BOOLEAN, t \in Threads, by \in Runners :
       /\ by = "delegate" => cfg.kind = "openai"
       /\ ask' = [build |-> build, thread |-> t, by |-> by, schema |-> schema,
                  budget |-> IF t = NoThread THEN NoBudget ELSE Budget]
  /\ UNCHANGED <<loopVars, cfg, spent, calls, rows, paid, dropped, late, real, asked>>

-----------------------------------------------------------------------------
(* The runner of the Messages API.                                         *)

\* The endpoint's runner lists a call of its delegate however it ends, without its cost.
ListDelegated == calls' = IF ask.by = "delegate" THEN Append(calls, 0) ELSE calls

\* The thread has nothing left: a stop before the call, and no row.
Broke ==
  /\ pc = "asked" /\ Messages
  /\ ask.budget # NoBudget /\ ask.thread # NoThread /\ SpentBefore >= ask.budget
  /\ ListDelegated /\ Finish("budget")
  /\ UNCHANGED <<loopVars, cfg, spent, rows, n, paid, dropped, late, real, asked>>

Affords == ~(ask.budget # NoBudget /\ ask.thread # NoThread /\ SpentBefore >= ask.budget)

MaxTokensOfMessages ==
  IF ask.budget # NoBudget /\ Capped
  THEN Max({1, Lesser(MaxTokens, ask.budget - SpentBefore)})
  ELSE MaxTokens

\* A build whose budget could never trip is refused.
Unpriced == ask.budget # NoBudget /\ ~Priced

RefuseUnpriced ==
  /\ pc = "asked" /\ Messages /\ Affords /\ InWorktree /\ Unpriced
  /\ Finish("failed")
  /\ UNCHANGED <<loopVars, cfg, spent, calls, rows, n, paid, dropped, late, real, asked>>

BuildByMessages ==
  /\ pc = "asked" /\ Messages /\ Affords /\ InWorktree /\ ~Unpriced
  /\ StartLoop(IF ask.budget = NoBudget THEN NoBudget ELSE ask.budget - SpentBefore)
  /\ pc' = "loop" /\ asked' = MaxTokensOfMessages /\ real' = 0
  /\ UNCHANGED <<cfg, ask, spent, calls, rows, out, n, paid, dropped, late>>

(* The request fails, or meets a limit: nothing is billed, and no row.     *)
MessagesFails(what) ==
  /\ pc = "asked" /\ Messages /\ Affords /\ ~InWorktree
  /\ asked' = MaxTokensOfMessages
  /\ ListDelegated
  /\ Finish(what)
  /\ UNCHANGED <<loopVars, cfg, spent, rows, n, paid, dropped, late, real>>

(* It is answered, and billed whatever the content: charged, then read. A  *)
(* refusal, a reply with no text, with no JSON object: a failed row.       *)
MessagesAnswers(cost, usable) ==
  /\ pc = "asked" /\ Messages /\ Affords /\ ~InWorktree
  /\ asked' = MaxTokensOfMessages
  /\ cost \in Costs(MaxTokensOfMessages)
  /\ Pay(cost) /\ Charge(Price(cost)) /\ Row(Price(cost), usable)
  /\ ListDelegated
  /\ Finish(CASE ~usable -> "failed"
              [] usable /\ ask.budget # NoBudget /\ SpentBefore + Price(cost) > ask.budget -> "budget"
              [] OTHER -> "answer")
  /\ UNCHANGED <<loopVars, cfg, n, dropped, late, real>>

-----------------------------------------------------------------------------
(* The runner of an OpenAI-compatible endpoint.                            *)
Endpoint == ~Messages
Left == cfg.budget - SpentBefore

\* No floor of one token here, and no stop when nothing is left.
MaxTokensOfPost == IF cfg.budget # NoBudget /\ Capped THEN Lesser(MaxTokens, Left) ELSE MaxTokens

Posting == Endpoint /\ (pc = "retry" \/ (pc = "asked" /\ ~InWorktree))

(* Transport failure, limit, an HTTP error: the call is listed and its row *)
(* has failed.  An endpoint may refuse a max_tokens below 1 this way.      *)
PostFails(what) ==
  /\ Posting
  /\ asked' = MaxTokensOfPost
  /\ calls' = Append(calls, 0) /\ Row(0, FALSE) /\ Finish(what)
  /\ UNCHANGED <<loopVars, cfg, spent, n, paid, dropped, late, real>>

(* A reply with no content is an error, and its usage is not read.         *)
PostEmpty(cost) ==
  /\ Posting
  /\ asked' = MaxTokensOfPost
  /\ cost \in Costs(MaxTokensOfPost)
  /\ Pay(cost)
  /\ dropped' = [dropped EXCEPT ![ask.by][ask.thread] = @ + Price(cost)]
  /\ calls' = Append(calls, 0) /\ Row(0, FALSE) /\ Finish("failed")
  /\ UNCHANGED <<loopVars, cfg, spent, n, late, real>>

(* A reply: counted, charged when the profile has a budget, a stop past    *)
(* it; then the answer, one retry, or a failure.                           *)
PostAnswers(cost, fits) ==
  /\ Posting
  /\ asked' = MaxTokensOfPost
  /\ cost \in Costs(MaxTokensOfPost)
  /\ Pay(cost)
  /\ calls' = Append(calls, Price(cost))
  /\ IF cfg.budget # NoBudget /\ Priced THEN Charge(cost) ELSE UNCHANGED spent
  /\ late' = IF cfg.budget # NoBudget /\ Priced /\ Left < 0
             THEN [late EXCEPT ![ask.by][ask.thread] = @ + cost] ELSE late
  /\ IF cfg.budget # NoBudget /\ Priced /\ SpentBefore + cost > cfg.budget
     THEN Row(cost, FALSE) /\ Finish("budget")
     ELSE IF fits \/ ~ask.schema THEN Row(Price(cost), TRUE) /\ Finish("answer")
     ELSE /\ Row(Price(cost), FALSE)
          /\ IF pc = "asked" THEN pc' = "retry" /\ UNCHANGED <<ask, out>> ELSE Finish("failed")
  /\ UNCHANGED <<loopVars, cfg, n, dropped, real>>

\* A build on the endpoint: a stop when the profile's budget is gone,
BrokeBuild ==
  /\ pc = "asked" /\ Endpoint /\ InWorktree /\ cfg.budget # NoBudget /\ Left <= 0
  /\ Finish("budget")
  /\ UNCHANGED <<loopVars, cfg, spent, calls, rows, n, paid, dropped, late, real, asked>>

\* else the loop, under the smaller of the two budgets.
Ceiling ==
  LET ceilings == {b \in {ask.budget, IF cfg.budget = NoBudget THEN NoBudget ELSE Left} : b # NoBudget}
  IN IF ceilings = {} THEN NoBudget ELSE Min(ceilings)

BuildByEndpoint ==
  /\ pc = "asked" /\ Endpoint /\ InWorktree /\ (cfg.budget # NoBudget => Left > 0)
  /\ StartLoop(Ceiling)
  /\ pc' = "loop" /\ real' = 0
  /\ asked' = IF cfg.budget # NoBudget /\ Capped THEN Max({1, Lesser(MaxTokens, Left)}) ELSE MaxTokens
  /\ UNCHANGED <<cfg, ask, spent, calls, rows, out, n, paid, dropped, late>>

-----------------------------------------------------------------------------
(* The turns of the tool loop, through the adapter of either runner.       *)
LoopCalls(batch, cost, git) ==
  /\ pc = "loop" /\ cost \in Costs(asked)
  /\ Called(batch, Price(cost), git)
  /\ Pay(cost) /\ real' = real + cost
  /\ UNCHANGED <<cfg, pc, ask, spent, calls, rows, out, n, dropped, late, asked>>

LoopFinal(reported, cost, git) ==
  /\ pc = "loop" /\ cost \in Costs(asked)
  /\ Answered(reported, Price(cost), git)
  /\ Pay(cost) /\ real' = real + cost
  /\ UNCHANGED <<cfg, pc, ask, spent, calls, rows, out, n, dropped, late, asked>>

\* A refusal, a malformed tool call, an answer that is not of the schema: billed, then raised.
LoopUnusable(cost) ==
  /\ pc = "loop" /\ cost \in Costs(asked)
  /\ Raised("failed", Price(cost))
  /\ Pay(cost) /\ real' = real + cost
  /\ UNCHANGED <<cfg, pc, ask, spent, calls, rows, out, n, dropped, late, asked>>

\* The endpoint's reply with no content raises before it is counted.
LoopEmpty(cost) ==
  /\ pc = "loop" /\ Endpoint /\ cost \in Costs(asked)
  /\ Raised("failed", 0)
  /\ Pay(cost) /\ real' = real + cost
  /\ dropped' = [dropped EXCEPT ![ask.by][ask.thread] = @ + Price(cost)]
  /\ UNCHANGED <<cfg, pc, ask, spent, calls, rows, out, n, late, asked>>

LoopFails(what) ==
  /\ pc = "loop"
  /\ Raised(what, 0)
  /\ UNCHANGED runnerVars

Outcome == CASE end.what = "final" -> "answer"
             [] end.what = "turn_cap" -> "failed"
             [] OTHER -> end.what

ListLoop == calls' = IF Endpoint THEN Append(calls, billed) ELSE calls

\* Mutant: what the loop summed is charged, which misses the turn that raised.
CloseLoopByUsage ==
  /\ pc = "loop" /\ end.what # "none"
  /\ Charge(usage)
  /\ Row(billed, end.what = "final")
  /\ ListLoop /\ Finish(Outcome)
  /\ UNCHANGED <<loopVars, cfg, n, paid, dropped, late, real, asked>>

(* The loop has ended, one way or another: every turn billed is charged,   *)
(* and the loop is one row.                                                *)
CloseLoop ==
  /\ pc = "loop" /\ end.what # "none"
  /\ Charge(billed)
  /\ Row(billed, end.what = "final")
  /\ ListLoop /\ Finish(Outcome)
  /\ UNCHANGED <<loopVars, cfg, n, paid, dropped, late, real, asked>>

-----------------------------------------------------------------------------
MaxCost == Longest + Max(Inputs)

ApiNext ==
  \/ Ask \/ Broke \/ RefuseUnpriced \/ BuildByMessages \/ BrokeBuild \/ BuildByEndpoint \/ CloseLoop
  \/ \E what \in {"failed", "limit"} : MessagesFails(what) \/ PostFails(what) \/ LoopFails(what)
  \/ \E cost \in 0..MaxCost :
       \/ PostEmpty(cost) \/ LoopUnusable(cost) \/ LoopEmpty(cost)
       \/ \E ok \in BOOLEAN : MessagesAnswers(cost, ok) \/ PostAnswers(cost, ok)
       \/ \E git \in BOOLEAN :
            \/ \E batch \in Batches : LoopCalls(batch, cost, git)
            \/ \E reported \in BOOLEAN : LoopFinal(reported, cost, git)

ApiSpec == ApiInit /\ [][ApiNext]_apiVars

-----------------------------------------------------------------------------
Total(s) ==
  LET upto[i \in 0..Len(s)] == IF i = 0 THEN 0 ELSE upto[i - 1] + s[i]
  IN upto[Len(s)]
Recorded(by, t) == Total([i \in DOMAIN rows |-> IF rows[i].by = by /\ rows[i].thread = t THEN rows[i].cost ELSE 0])
RecordedBy(by) == Total([i \in DOMAIN rows |-> IF rows[i].by = by THEN rows[i].cost ELSE 0])

(* The variables hold what the code's fields may hold.                     *)
ApiRunnerTypeOK ==
  /\ tree \in [Files -> Texts] /\ turns \in 0..TurnCap /\ usage \in Nat /\ billed \in Nat
  /\ clock \in Nat /\ unclocked \in [checks : Nat, seconds : Nat]
  /\ ceiling \in Int \cup {NoBudget}
  /\ end.what \in {"none", "final", "turn_cap", "budget", "failed", "limit"}
  /\ pc \in {"idle", "asked", "retry", "loop"}
  /\ out \in {"none", "answer", "failed", "limit", "budget"}
  /\ spent \in [Runners -> [Threads -> Nat]] /\ n \in 0..MaxCalls

(* Between two calls a thread has been charged everything the vendor       *)
(* billed it, the refused, malformed and stopped replies included, but for *)
(* the endpoint's replies with no content, which nothing charges.          *)
(* (_charge_loop, the charge of run and of _post)                          *)
BilledIsCharged ==
  pc = "idle" =>
    \A t \in Threads :
      /\ (cfg.kind = "anthropic" => t # NoThread) /\ (cfg.kind = "openai" => cfg.budget # NoBudget)
           => spent["own"][t] + dropped["own"][t] = paid["own"][t]
      /\ t # NoThread => spent["delegate"][t] = paid["delegate"][t]

(* The rows of a thread add up to what it was billed: no reply that was    *)
(* paid for leaves no row, whichever way its call ended, and none is       *)
(* counted twice by a retry or by the loop's one row. (_record_to_store)   *)
RowsAddUp ==
  pc = "idle" => \A by \in Runners, t \in Threads : Recorded(by, t) + dropped[by][t] = paid[by][t]

(* No two rows have one number, the delegate's among them.                 *)
(* (_SharedSeqStore)                                                       *)
RowsNumbered == \A i, j \in DOMAIN rows : i < j => rows[i].seq < rows[j].seq

(* Whether the calls of a thread on a runner share a budget.               *)
Limited(by, t) == t # NoThread /\ (by = "delegate" \/ cfg.kind = "anthropic" \/ cfg.budget # NoBudget)

(* A thread with a budget ends at most one reply past it, whatever mix of  *)
(* single requests, retries and loops it has been through, but for what is *)
(* billed to posts that were sent when it was past it already: the         *)
(* endpoint's runner stops no post beforehand, every other call it or the  *)
(* Messages API's runner makes is stopped.  (run, _post,                   *)
(* _build_through_tool_loop)                                               *)
WithinBudget ==
  pc = "idle" /\ Priced =>
    \A by \in Runners, t \in Threads : Limited(by, t) => spent[by][t] - late[by][t] <= Budget + MaxCost

(* Nobody is given an answer by a thread that is past its budget: the      *)
(* reply that passes it, and each one after it, ends in a stop.  (_post,   *)
(* run, run_tool_loop)                                                     *)
NoAnswerPastBudget ==
  pc = "idle" /\ out = "answer" /\ Priced =>
    LET r == rows[Len(rows)] IN Limited(r.by, r.thread) => spent[r.by][r.thread] <= Budget

(* A loop with a ceiling sends no turn after the turns before it have cost *)
(* more: for a price the profile does not name the Messages API's runner   *)
(* refuses the build, the endpoint's does not.  (run_tool_loop, run)       *)
CeilingHolds ==
  pc = "loop" /\ turns > 0 /\ (Messages \/ Priced) /\ ceiling # NoBudget /\ real > ceiling
    => end.what # "none"

(* The ceiling of an endpoint's loop is within what is left of the         *)
(* profile's budget on the thread.  (_build_through_tool_loop)             *)
CeilingWithinProfile ==
  pc = "loop" /\ Endpoint /\ cfg.budget # NoBudget => ceiling <= Left

(* What the loop hands over is the worktree as it is: neither the model's  *)
(* word for it nor an earlier diff.  (_reconciled)                         *)
PatchIsTheTree ==
  pc = "loop" /\ end.what \in {"final", "turn_cap", "budget"} =>
    /\ end.git => end.patch = tree
    /\ end.error = "none" <=> end.patch # Clean

(* Every tool call of a reply has its result, in order, before the next    *)
(* request, and the request of the Messages API takes turns: user,         *)
(* assistant, user.  (run_tool_loop, _merge_results)                       *)
ResultsAnswer ==
  pc = "loop" =>
    LET wire == ToAnthropic(messages)
    IN /\ \A i \in DOMAIN wire : wire[i].role = (IF i % 2 = 1 THEN "user" ELSE "assistant")
       /\ \A i \in DOMAIN wire : wire[i].role = "assistant" =>
            i < Len(wire) /\ wire[i + 1].ids = wire[i].ids

(* The checks of one loop run for no more than their total, but for those  *)
(* whose output does not decode: each of them runs for no more than one    *)
(* check may.  (_run_check, _execute)                                      *)
CheckTimeBounded ==
  /\ clock <= CheckTotal
  /\ unclocked.seconds <= CheckTimeout * unclocked.checks

(* What the endpoint's runner lists of its own calls, which the driver      *)
(* reads, adds up to the rows the store was handed of them: a delegated     *)
(* call is listed too, but without its cost.  (_post, _record_loop,         *)
(* _delegate_run)                                                           *)
CallsMatchRows == cfg.kind = "openai" /\ pc = "idle" => Total(calls) = RecordedBy("own")

(* The thread's total, the store's rows and the driver's list of the        *)
(* endpoint's own calls each hold what the vendor billed once, and no       *)
(* answer is given past the budget.                                         *)
BooksBalance ==
  /\ ApiRunnerTypeOK /\ BilledIsCharged /\ RowsAddUp /\ RowsNumbered
  /\ WithinBudget /\ NoAnswerPastBudget /\ CallsMatchRows

(* A tool loop keeps its ceiling and its time, is understood by the API,    *)
(* and hands over the worktree.                                             *)
LoopKeepsItsBounds ==
  /\ CeilingHolds /\ CeilingWithinProfile /\ CheckTimeBounded
  /\ PatchIsTheTree /\ ResultsAnswer
=============================================================================
