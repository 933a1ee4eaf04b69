--------------------------- MODULE ClaudeSession ---------------------------
(***************************************************************************)
(* The calls of one role on the Claude Code runner                         *)
(* (runner/claude_code_runner.py: run), one after the other, on a thread   *)
(* or without one: what each call may spend, the two attempts, the         *)
(* checkpoints and ceilings a session stops at, the rows of the call       *)
(* ledger, and the scratch tree the patch is read from.  The CLI is        *)
(* outside: it spends, overshoots what it was sent, fails, and may start   *)
(* a session over.  Money is counted in whole units.  A call that comes    *)
(* back leaves a trace file when traces are kept, numbered by the calls    *)
(* that were answered, and a call that is killed reads the file of its     *)
(* number.                                                                 *)
(***************************************************************************)
EXTENDS Integers, Sequences, FiniteSetsExt

CONSTANTS
  Setups,    \* what is fixed for the role, see SetupFacts
  NoLimit,   \* stands for an unset limit
  Stale,     \* what the trace files of an earlier runner in the same directory say they cost
  Overshoot, \* how far the CLI overshoots
  MaxOwn,    \* bound: what one call spends when nothing limits it
  MaxMishaps \* bound: calls of a session that start it over or do not tell what they spent

Limits == Nat

(* targets: the checkpoint fractions times the guide, as session totals;   *)
(* traced: whether traces are kept; calls: a bound, the calls of the       *)
(* runner.                                                                 *)
SetupFacts ==
  [thread : BOOLEAN, patches : BOOLEAN, verifies : BOOLEAN, guide : Limits, targets : Seq(Nat),
   cap : Limits, role : Limits, task : Limits, traced : BOOLEAN, calls : Nat]

ASSUME ClaudeSessionAssumption ==
  /\ Setups \subseteq SetupFacts
  /\ NoLimit \in Nat /\ Overshoot \in Nat /\ MaxOwn \in Nat /\ MaxMishaps \in Nat
  /\ MaxOwn + Overshoot < NoLimit /\ Stale \subseteq Nat

VARIABLES
  setup,   \* the facts of this run's role
  th,      \* the thread's state in the runner
  cli,     \* the CLI's session: whether it exists, and its running total
  call,    \* the call at work: where it is, its attempt, what the CLI did
  scratch, \* who wrote into the scratch: the builder, a verify command
  last,    \* how the last call ended
  books,   \* the ledger: rows, the sum of their costs; what the trace file numbered next says, 0 for nothing
  seen     \* history, read by properties only

sessionVars == <<setup, th, cli, call, scratch, last, books, seen>>

NewThread == [open |-> FALSE, resumes |-> FALSE, reported |-> 0, spent |-> 0, ckpt |-> 1]
NoCall == [at |-> "idle", attempt |-> 1, model |-> "first", sent |-> 0, said |-> "nothing",
           told |-> FALSE, total |-> 0]
NoLast == [end |-> "none", index |-> 0, kind |-> "none", sent |-> 0, patch |-> {}]

Least(a, b) == Min({a, b})

(***************************************************************************)
(* What a call is sent.  A limit that is not set is NoLimit.               *)
(***************************************************************************)
Spent == IF setup.thread THEN th.spent ELSE 0
Index == IF setup.thread THEN th.ckpt ELSE 1

Target == IF Index <= Len(setup.targets) THEN setup.targets[Index] ELSE NoLimit

\* The thread's own ceiling when it is the tighter one, else the role's.
HardCeiling == IF setup.thread THEN Least(setup.task, setup.role) ELSE setup.role

\* A checkpoint is a session total and a slice is not: the first is sent as what is left of it.
Slice ==
  IF Target # NoLimit THEN Least(Target - Spent, setup.cap)
  ELSE IF Least(setup.guide, setup.cap) = NoLimit THEN NoLimit
  ELSE Spent + Least(setup.guide, setup.cap)

\* Mutant: the ceiling is sent whole on every slice.
SentWhole == Least(Slice, HardCeiling)

Sent == IF HardCeiling = NoLimit THEN Slice ELSE Least(Slice, HardCeiling - Spent)

-----------------------------------------------------------------------------
(***************************************************************************)
(* The ledger.                                                             *)
(***************************************************************************)

\* Mutant: every row of a thread carries the session's total.
CostTotal(total) == total

\* A resumed call's cost is the rise of the total; a fall is a session started over.
Cost(total) ==
  IF ~setup.thread \/ ~th.resumes \/ total < th.reported THEN total ELSE total - th.reported

\* A row, with no cost when the answer names no total.
BookedAs(cost, trace) == [rows |-> books.rows + 1, cost |-> books.cost + cost, trace |-> trace]
RowCost == IF call.told THEN Cost(call.total) ELSE 0
LedgerRow == BookedAs(RowCost, books.trace)

\* The file under a number that no call of this runner has written.
Leftovers == IF setup.traced THEN Stale \cup {0} ELSE {0}

Reported == IF call.told THEN call.total ELSE th.reported
Moved == [th EXCEPT !.reported = Reported, !.spent = Reported]

End(how) == call' = NoCall /\ last' = [NoLast EXCEPT !.end = how]

-----------------------------------------------------------------------------
Begin ==
  /\ call.at = "idle" /\ seen.calls < setup.calls
  /\ call' = [NoCall EXCEPT !.at = "try"]
  /\ last' = [NoLast EXCEPT !.end = last.end]
  /\ seen' = [seen EXCEPT !.calls = @ + 1]
  /\ UNCHANGED <<setup, th, cli, scratch, books>>

\* The thread's scratch is made on first use; an unthreaded call has a fresh one.
Open ==
  /\ call.at = "try"
  /\ setup.thread => ~th.open
  /\ \/ call' = [call EXCEPT !.at = "ready"] /\ th' = [th EXCEPT !.open = setup.thread] /\ scratch' = {} /\ UNCHANGED last
     \/ setup.patches /\ End("failed") /\ UNCHANGED <<th, scratch>>
  /\ UNCHANGED <<setup, cli, books, seen>>

Reopen ==
  /\ call.at = "try" /\ setup.thread /\ th.open
  /\ call' = [call EXCEPT !.at = "ready"]
  /\ UNCHANGED <<setup, th, cli, scratch, last, books, seen>>

Partial == IF setup.patches THEN scratch ELSE {}

\* The session has spent its ceiling: a stop without a call.
AtCeiling == setup.thread /\ HardCeiling # NoLimit /\ Spent >= HardCeiling

StopAtCeiling ==
  /\ call.at = "ready" /\ AtCeiling
  /\ call' = NoCall
  /\ last' = [NoLast EXCEPT !.end = "stop", !.kind = "ceiling", !.patch = Partial]
  /\ UNCHANGED <<setup, th, cli, scratch, books, seen>>

\* The CLI overshot past the next target: the stop crosses it without a call.
AtCheckpoint == setup.thread /\ Target # NoLimit /\ Spent >= Target

StopAtCheckpoint ==
  /\ call.at = "ready" /\ ~AtCeiling /\ AtCheckpoint
  /\ th' = [th EXCEPT !.ckpt = @ + 1]
  /\ call' = NoCall
  /\ last' = [NoLast EXCEPT !.end = "stop", !.kind = "checkpoint", !.index = th.ckpt, !.patch = Partial]
  /\ UNCHANGED <<setup, cli, scratch, books, seen>>

\* The builder's edits; in a clean scratch a reported patch that applies stands for them.
Edited == scratch \cup {"build"}

(***************************************************************************)
(* The CLI runs.  It is killed at its timeout, prints nothing, or nothing  *)
(* that can be read, or answers: an answer, the account's banner with or   *)
(* without the error flag, a stop at the budget it was sent, an error      *)
(* about the call (the safeguards or the CLI's own retries of a structured *)
(* output, or a token refresh that two sessions raced for) or one about    *)
(* the work.  What it printed is its trace.                                *)
(***************************************************************************)
Transient == {"refused", "oauth"}
Mute == {"silence", "garble"}
Said == {"timeout", "answer", "prose", "banner", "banner error", "budget", "error"} \cup Mute \cup Transient

TraceOf(said, told, total) ==
  IF ~setup.traced \/ said \in {"timeout", "silence"} THEN books.trace
  ELSE IF told THEN total ELSE 0

Invoke ==
  /\ call.at = "ready" /\ ~AtCeiling /\ ~AtCheckpoint
  /\ \E said \in Said, own \in 0..(MaxOwn + Overshoot), told \in BOOLEAN, restarts \in BOOLEAN, wrote \in BOOLEAN :
       /\ said = "budget" => Sent # NoLimit /\ own >= Sent
       /\ own <= IF Sent = NoLimit THEN MaxOwn ELSE Sent + Overshoot
       /\ said \in {"timeout"} \cup Mute => ~told
       /\ restarts => cli.exists /\ setup.thread
       /\ restarts \/ ~told => seen.mishaps < MaxMishaps
       /\ wrote => setup.patches
       /\ LET total == IF setup.thread /\ cli.exists /\ ~restarts THEN cli.total + own ELSE own
          IN /\ cli' = [exists |-> setup.thread, total |-> total]
             /\ call' = [call EXCEPT !.at = "back", !.sent = Sent, !.said = said, !.told = told, !.total = total]
             /\ books' = [books EXCEPT !.trace = TraceOf(said, told, total)]
       /\ scratch' = IF wrote THEN Edited ELSE scratch
       /\ seen' = [seen EXCEPT !.paid = @ + own, !.ran = @ + 1, !.mute = @ + (IF said \in Mute THEN 1 ELSE 0),
                               !.unsaid = IF ~told THEN @ + own ELSE IF setup.thread THEN 0 ELSE @,
                               !.untold = @ \/ ~told, !.restarted = @ \/ restarts,
                               !.mishaps = @ + (IF restarts \/ ~told THEN 1 ELSE 0)]
  /\ UNCHANGED <<setup, th, last>>

\* The row of a call that was killed takes its cost from the trace file of its number, which is
\* another call's: one that was not answered, or one of an earlier runner.
TimedOut ==
  /\ call.at = "back" /\ call.said = "timeout"
  /\ books' = BookedAs(books.trace, books.trace) /\ End("failed")
  /\ seen' = [seen EXCEPT !.rebooked = @ + books.trace]
  /\ UNCHANGED <<setup, th, cli, scratch>>

\* No output, or none with a result in it: the node fails, and the call has no row.
Unreadable ==
  /\ call.at = "back" /\ call.said \in Mute
  /\ End("failed")
  /\ UNCHANGED <<setup, th, cli, scratch, books, seen>>

\* The account's limit, said as an error: the row is written, the thread is left as it was.
BannerError ==
  /\ call.at = "back" /\ call.said = "banner error"
  /\ books' = LedgerRow /\ End("limit")
  /\ seen' = [seen EXCEPT !.failed = TRUE]
  /\ UNCHANGED <<setup, th, cli, scratch>>

CapGoverns == setup.cap < (IF Target = NoLimit THEN setup.guide ELSE Target)
Ended == call.attempt = 2 \/ call.said \notin Transient
Errors == {"budget", "error"} \cup Transient

\* The session met its runaway ceiling, or the ceiling of its task.
Runaway(total) == ~CapGoverns /\ HardCeiling # NoLimit /\ total >= HardCeiling

\* A stop at the budget moves the thread's totals, and its checkpoint when neither cap nor ceiling was what it met.
BudgetStop ==
  /\ call.at = "back" /\ call.said = "budget"
  /\ LET total == IF setup.thread THEN Reported ELSE IF call.told THEN call.total ELSE 0
         crossed == setup.thread /\ Target # NoLimit /\ ~CapGoverns /\ ~Runaway(total)
     IN /\ last' = [end |-> "stop", index |-> IF crossed THEN th.ckpt ELSE 0, sent |-> call.sent,
                    kind |-> IF CapGoverns THEN "cap" ELSE IF Runaway(total) THEN "ceiling" ELSE "budget",
                    patch |-> IF setup.thread THEN Partial ELSE {}]
        /\ th' = IF setup.thread THEN [Moved EXCEPT !.ckpt = IF crossed THEN @ + 1 ELSE @] ELSE th
  /\ books' = LedgerRow
  /\ call' = NoCall
  /\ seen' = [seen EXCEPT !.loose = @ \/ (setup.thread /\ ~th.resumes)]
  /\ UNCHANGED <<setup, cli, scratch>>

Fail ==
  /\ call.at = "back" /\ call.said \in Errors \ {"budget"} /\ Ended
  /\ books' = LedgerRow /\ End("failed")
  /\ seen' = [seen EXCEPT !.failed = TRUE]
  /\ UNCHANGED <<setup, th, cli, scratch>>

\* One more attempt, for an error about the call: on the tier's next model when the first refused the work.
\* The trace of the first is renamed.
Retry ==
  /\ call.at = "back" /\ call.said \in Transient /\ ~Ended
  /\ books' = BookedAs(RowCost, IF setup.traced THEN 0 ELSE books.trace)
  /\ call' = [NoCall EXCEPT !.at = "try", !.attempt = 2,
                            !.model = IF call.said = "oauth" THEN "first" ELSE "alternate"]
  /\ seen' = [seen EXCEPT !.failed = TRUE]
  /\ UNCHANGED <<setup, th, cli, scratch, last>>

-----------------------------------------------------------------------------
(***************************************************************************)
(* A call that is no error moves the thread, whatever its text turns out   *)
(* to be.                                                                  *)
(***************************************************************************)
Succeed ==
  /\ call.at = "back" /\ call.said \in {"answer", "prose", "banner"}
  /\ th' = IF setup.thread THEN [Moved EXCEPT !.resumes = TRUE] ELSE th
  /\ books' = LedgerRow
  /\ call' = [call EXCEPT !.at = "settle"]
  /\ UNCHANGED <<setup, cli, scratch, last, seen>>

BannerOrProse ==
  /\ call.at = "settle" /\ call.said # "answer"
  /\ End(IF call.said = "banner" THEN "limit" ELSE "failed")
  /\ UNCHANGED <<setup, th, cli, scratch, books, seen>>

Verifies == setup.patches /\ setup.verifies /\ scratch # {}

VerifyRows ==
  \/ UNCHANGED <<scratch, seen>>
  \/ Verifies /\ setup.thread /\ scratch' = scratch \cup {"verify"} /\ seen' = [seen EXCEPT !.noted = TRUE]

\* The patch is what the scratch held before the verify commands ran in it; they are
\* undone, or a row says that they could not be. The answer keeps its trace file's number.
Settle ==
  /\ call.at = "settle" /\ call.said = "answer"
  /\ \E trace \in Leftovers : books' = [books EXCEPT !.trace = trace]
  /\ IF setup.patches /\ scratch = {} THEN End("failed")
     ELSE call' = NoCall /\ last' = [NoLast EXCEPT !.end = "answer", !.patch = Partial]
  /\ VerifyRows
  /\ UNCHANGED <<setup, th, cli>>

-----------------------------------------------------------------------------
NoHistory == [calls |-> 0, paid |-> 0, ran |-> 0, mute |-> 0, unsaid |-> 0, rebooked |-> 0, failed |-> FALSE,
              untold |-> FALSE, restarted |-> FALSE, loose |-> FALSE, noted |-> FALSE, mishaps |-> 0]

SessionInit ==
  /\ setup \in Setups
  /\ th = NewThread
  /\ cli = [exists |-> FALSE, total |-> 0]
  /\ call = NoCall
  /\ scratch = {}
  /\ last = NoLast
  /\ \E trace \in Leftovers : books = [rows |-> 0, cost |-> 0, trace |-> trace]
  /\ seen = NoHistory

\* The phase is done: threads and their scratch trees go; the next phase begins new ones.
Close ==
  /\ call.at = "idle" /\ th.open
  /\ th' = NewThread /\ cli' = [exists |-> FALSE, total |-> 0] /\ scratch' = {} /\ last' = NoLast
  /\ books' = [rows |-> 0, cost |-> 0, trace |-> books.trace]
  /\ seen' = [NoHistory EXCEPT !.calls = seen.calls]
  /\ UNCHANGED <<setup, call>>

SessionNext ==
  \/ Begin \/ Open \/ Reopen \/ StopAtCeiling \/ StopAtCheckpoint \/ Invoke
  \/ TimedOut \/ Unreadable \/ BannerError \/ BudgetStop \/ Fail \/ Retry
  \/ Succeed \/ BannerOrProse \/ Settle \/ Close

SessionSpec == SessionInit /\ [][SessionNext]_sessionVars
-----------------------------------------------------------------------------
ClaudeSessionTypeOK ==
  /\ setup \in Setups
  /\ th \in [open : BOOLEAN, resumes : BOOLEAN, reported : Nat, spent : Nat, ckpt : Nat \ {0}]
  /\ th.ckpt <= Len(setup.targets) + 1
  /\ cli \in [exists : BOOLEAN, total : Nat]
  /\ call.at \in {"idle", "try", "ready", "back", "settle"} /\ call.attempt \in {1, 2}
  /\ scratch \subseteq {"build", "verify"}
  /\ last.end \in {"none", "answer", "stop", "failed", "limit"} /\ last.patch \subseteq {"build", "verify"}
  /\ books \in [rows : Nat, cost : Nat, trace : Nat]

(* Every call of the CLI has its own row, however the node ended ("Every   *)
(* failed attempt that ends the node is billed", and so is every one that  *)
(* does not), but for the calls that came back with nothing to read: those *)
(* have none.                                                              *)
RowPerCall == call.at = "idle" => books.rows + seen.mute = seen.ran

(* What was paid is in the ledger, but for what no call of the session has *)
(* said since it was spent; and what was booked is what was paid, but for  *)
(* the rows of killed calls, which book another call's trace, and for      *)
(* failed attempts and stops before a session's first answer, whose cost   *)
(* the next row carries again.  A session that is started over is out of   *)
(* reach.                                                                  *)
LedgerAddsUp ==
  call.at = "idle" /\ ~seen.restarted =>
    /\ books.cost + seen.unsaid >= seen.paid + seen.rebooked
    /\ ~seen.failed /\ ~seen.loose => books.cost + seen.unsaid = seen.paid + seen.rebooked

(* As long as the runner is told what its calls spend, a session passes    *)
(* its ceiling by no more than the CLI's overshoot, over any number of     *)
(* slices, checkpoints and stops.                                          *)
Blind == seen.failed \/ seen.untold \/ seen.restarted
SessionCeilingHolds ==
  setup.thread /\ HardCeiling # NoLimit /\ ~Blind => seen.paid <= HardCeiling + Overshoot

(* A call is made only with something left to spend: a target or a ceiling *)
(* that an overshoot passed stops the session without "a $0.00 call".      *)
SentIsPositive == call.at = "back" => call.sent > 0

(* A checkpoint is crossed in order, and only when the session's spend     *)
(* reached it: a stop at the cap or at the ceiling crosses none.           *)
CheckpointsAreReached ==
  [][th'.ckpt > th.ckpt /\ ~Blind' => th'.ckpt = th.ckpt + 1 /\ th'.spent >= setup.targets[th.ckpt]]_sessionVars

(* What a verify command wrote is in no patch of the thread, this one or a *)
(* later one, unless a row of the build said that it might be.             *)
PatchIsTheBuilders == "verify" \in last.patch => seen.noted

(* The books of a session are those of what happened: a row for every call  *)
(* that could be read or was killed, money that adds up to what the calls   *)
(* said, and a patch that is the builder's own.                             *)
SessionBooks == ClaudeSessionTypeOK /\ RowPerCall /\ LedgerAddsUp /\ PatchIsTheBuilders

(* However slices, stops and retries follow each other, a session's limits  *)
(* hold over the whole of it.                                               *)
SessionKeepsItsLimits == [](SessionCeilingHolds /\ SentIsPositive) /\ CheckpointsAreReached
=============================================================================
