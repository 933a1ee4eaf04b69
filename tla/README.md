# A verification of coxswain-graphs in TLA+

coxswain-graphs drives software work with model-backed graphs: an *epic run* takes an
initiative's phases in dependency order, builds each phase's tasks in worktrees through
build/review/fix graphs, asks a gate for approval, and moves work items from `ready` to
`approved`. Several runs, command lines and humans share one SQL store, a directory of work
files, and a git repository. This directory holds TLA+ models of the parts whose
correctness depends on the order of concurrent steps or on long sequences of legal ones, TLC
configurations that check them on small instances, and proofs (TLAPS) of what matters most
for every instance.

## The system

| Component | State it keeps | Operations | Talks to |
|---|---|---|---|
| Run lease (`harness/store_lease.py`) | one `leases` row per prefix: holder, epoch, expiry, status | acquire, steal, renew, release, assert_epoch | every leader write goes through the fence |
| Launch and exit (`harness/cli.py`) | the run row, the process, its signal handler | launch, refuse, run, stamp, wait for quiet workers, release | lease, heartbeat, epic driver |
| Heartbeat (`harness/run_lease.py`) | a thread, its stop event | renew every interval, stop | lease |
| Pause (`harness/store_pause.py`, `epic.py`) | `runs.paused_at` | pause, resume, wait, clear at exit | lease (renews while it waits) |
| Work items (`work_mirror.py`, `store_work_state.py`, `store_queue.py`, `epic.py`) | a row and a file per item: state, stamp, content, claim | mirror, compare-and-set move, quarantine, set-state, regenerate, upsert, claim, release | epic driver, rescue, command line |
| Epic driver, phase DAG (`epic.py: run_epic`) | phases done, quarantined and landed so far | order phases, run each, stop, audit | phases, pause, lease |
| Epic driver, one phase (`epic.py: _run_phase`) | results, batch, merges, quarantines, the ledger | resume, cap attempts, fan out, validate, gate, execute, reconcile, record | graphs, gate, worktrees, store |
| Worktrees and branches (`worktree.py`, `epic.py`) | phase branches, task worktrees, pid files | create, reuse, rebase, keep, trim, remove stale holders | git |
| Fan-out (`invoke.py`) | a thread pool, futures, results and failures | refuse, submit, read in order of completion, shut down four ways | lifecycle graphs, drivers |
| Lifecycle graph (`lifecycle_propose.py`) | the record of one ticket's build, its session | scope, plan, compete, build, continue, hand off, review, arbitrate, retry | model runners |
| Initiative decomposition (`initiative_decompose.py`, `decompose_size.py`, `phase_split.py`, `ticket_lint.py`) | a plan: tasks, phases, needs, surfaces | size, plan, challenge, split, lint, rewrite, correct, put phases right | model runners, the tree |
| Claude Code runner (`claude_code_runner.py`) | sessions, scratch trees, the list of calls, rows, traces | call, resume, stop at a checkpoint or ceiling, retry, verify, record | the CLI, store |
| API runners and tool loop (`anthropic_runner.py`, `openai_compatible_runner.py`, `tool_loop.py`) | what a thread has spent, rows; a worktree per loop | ask, retry, take turns, run tools and checks, charge | HTTP endpoints, store |
| Chief of staff (`cos.py`, `graphs/ops/coxswain.py`) | dockets, intake files, pid files | build a docket, select, invoke, mark ideas, gate | fan-out, epic runs as child processes |
| Rescue (`epic.rescue_task`, `rescue_*.py`) | a kept patch, attempts, a branch | choose, check, review, branch, gate, move, fail | work items, gate, lease |
| Store migration (`store_migrate.py`) | `schema_version`, backup files | open, back up, apply, read back | every command that opens a store |
| Store copy (`store_copy.py`) | two stores | plan, copy in batches, count, verify | both stores |
| Store writes, retries, reads | SQL rows | insert, upsert, retry, query | all |
| Gate and apply arms (`gate.py`, `autonomy.py`, `escalate.py`) | decisions | split by policy, ask, apply | work files, models |
| Backfills, system-one tier, other graphs | none, or an append-only log | one-off rewrites, straight sequences of model calls | store, runners |

What makes it hard: two runs of one prefix (or one run id launched twice) act on the same
rows; every SQL statement is a separate step under Postgres; a model call of minutes lies
between a check and the write it allows; a SIGTERM can arrive at any line of the main
thread while other threads go on; a file and a row say the same thing and are written one
after the other; a store call may fail, or succeed and lose its answer; and a graph is a
long sequence of answers, any of which may fail, stop at a budget or meet the account's
limit, with what the steps before it left still in hand.

Per component, what makes it correct:

* **Lease**: no epoch is granted twice, only the newest grant passes the fence, a released
  lease is never revived, an unexpired lease of another name changes hands only by a steal.
* **Runs**: a fenced write in time is the leader's; what a pause wait outlasted is not
  executed; a successor starts alone; a stopped run gives its lease back.
* **Work items**: a move is made only from the state the mover knows; a file never runs
  ahead of its row; a mirror settles what a crash left; a claim stands until it expires.
* **Phase DAG**: the order found is topological and gives up on no phase it could place; a
  dependent phase never runs on an incomplete parent; every phase is reported.
* **Epic runs**: attempts are capped over runs; a task builds on what it needs; no commit
  that a human has not landed leaves a phase branch; what a run leaves approved is on a
  branch, and what it reports quarantined is not open unless the store failed that write.
* **Fan-out**: a caller is told of every node once and by what it came to, a limit is never
  read over, nothing runs on behind a caller that was answered.
* **Lifecycle**: the record describes one build and the judgement of that build; an approval
  follows a round in which everybody answered; the loop ends, and steps up in tier once.
* **Decomposition**: what is proposed is acyclic, in one repository a task, keeps the edges
  asked for, and guesses no phase; a correction does not undo what an earlier check settled.
* **Runners**: every attempt whose outcome can be read, or that is killed, is one row, and the
  rows add up to what was charged; a ceiling bounds what is sent; a patch is what the builder left in its tree; a loop's turns, checks
  and clock stay bounded.
* **Chief of staff**: no more invocations than slots, none without its inputs, an idea to
  one decompose, and marked only when that has run.
* **Rescue**: one failed rescue per ticket text, of a patch the harness stopped; an approval
  leaves the patch that was checked; a rescue gives way to whoever builds or finishes the task.
* **Store**: one history of migrations with a backup from before each; a copy writes what
  the source held, once, and reports a shortfall only when there is one.

`PROJECT.json` lists every component with its status, every definition with the lines it
translates, and the hazards, each at the line where it bites.

## Modules

| Module | Models | Extends |
|---|---|---|
| `LeaderEpoch` | what a lease promises: an elected leader and a growing epoch | |
| `Lease` | the lease row, `acquire` statement by statement, callers with late clocks | |
| `LeasedRun` | the life of a run: launch, heartbeat, fences, pause wait, SIGTERM, exit | `Lease` |
| `WorkItems` | one item's row and file under drivers, tools, humans and claimers | |
| `PhaseDag` | `phase_order` and `run_epic`'s loop over the phases, on any graph | |
| `EpicRun` | the runs of one initiative: `_run_phase` step by step on rows and branches | `PhaseDag` |
| `Lifecycle` | one run of the lifecycle graph, with every answer, stop and failure | |
| `Decompose` | one run of initiative-decompose, from an idea to phases and tasks | |
| `FanOut` | one call of `invoke_graphs`: driver, pool, ways out | |
| `Cos` | dispatches of the chief of staff, whose invocations are a `FanOut` | `FanOut` |
| `Rescue` | rescues of one task beside a driver and a human | |
| `ClaudeSession` | the calls of one role on the Claude Code runner: money, checkpoints, rows, scratch | |
| `CallLog` | what that runner writes down of the calls its threads make | |
| `ToolLoop` | the loop of turns and tools of a build over one worktree | |
| `ApiRunner` | single requests and tool loops of the two API runners | `ToolLoop` |
| `StoreMigrate` | openers of different code that back up and migrate one store | |
| `StoreCopy` | a copy of one store into another, killed and run again | |
| `LeasedRunProofs` | theorems about the lease and the runs under it | `LeasedRun` |
| `WorkItemsProofs`, `PhaseDagProofs`, `EpicRunProofs` | theorems about items, the phase loop, the runs of an initiative | the module of that name |
| `DispatchProofs` | theorems about what dispatches work | `Cos` (and with it `FanOut`), `Rescue` |
| `GraphsProofs` | theorems about the lifecycle of a ticket and the decomposition of an idea | `Lifecycle`, `Decompose` |
| `RunnersProofs` | theorems about what calls the model | `CallLog`, `ClaudeSession`, `ApiRunner` |
| `StoreProofs` | theorems about what rewrites a store | `StoreMigrate`, `StoreCopy` |
| `MCStore`, `MCLeasedRun`, `MCWorkItems`, `MCEpicRun`, `MCGraphs`, `MCRunners`, `MCDispatch` | instances for TLC: names, holders, tasks, plans, symmetry | the modules they check |

`MCStore`, `MCGraphs`, `MCRunners` and `MCDispatch` each check several machines that share no
state. A variable `program`, chosen in the initial state, says which of them a behaviour is;
the variables of the others keep one initial value. So a state space is the sum of the
machines' and not their product, and what is true of each machine alone is true of the run.

### Lease

Variables: `row` is the SQL row (epoch 0 says there is none), `call[p]` the acquire a process
is in, `held[p]` the epoch its last acquire returned; `grants` and `released` are histories.
`acquire` is `BeginAcquire`, then `Take` (`_TAKE`), `Insert` (`insert_ignore`), `Read`,
`Steal` (`_STEAL`), each one statement, because under Postgres the transaction is read
committed. A winning statement holds its row lock until COMMIT, so the two are one step.
Every call takes its time as an argument, so a statement may run with a reading up to
`MaxLag` behind the clock. `Renew`, `Release` and `AssertEpoch` are the other statements.
`Crash` is the death of a process.

Refinement: `Leads(p)` holds while `p` has the row's epoch and some caller's clock may still
find the row unexpired. Under that mapping every step is an `Elect`, `ElectNobody`,
`StepDown` or a stutter of `LeaderEpoch` (`ImplementsLeaderEpoch`).

### LeasedRun

The main thread is at `drv[p]`: `acquiring`, `granted`, `setup` in `_launch`; `running`,
`guarded` and `judging` (past a fence), `fanout`, `recheck` and the pause wait (`pausing`,
`polling`, `waking`) in the epic driver; `clearing` to `closing` on the way out. `hb` is the
heartbeat thread and `workers` a fan-out's pool. `Sigterm` may strike at every point of the
main thread and goes where Python's `except`/`finally` structure sends it (`CaughtAt`).
`FencePasses` and the write it guards are two steps. Each step of a run is a step of `Lease`
(`ImplementsLease`), so what holds of the lease holds of runs. `seen` remembers the expiry
the last fence saw: it is how `FencedWriteInTime` says how long a fence is good for.

### WorkItems

`row` and `file` are the item's two homes; `workState` says which one has authority (a
Postgres store defaults to `store`, everything else to `files`), `fileOk` whether the work
file can be read and written. A driver is at `drv[d].at`: it loads the item, reads the rows
and file times (`ReadRows`), mirrors, moves and quarantines, with everybody else between any
two of these. Its copy of the state is `item`, and what it read of row and file is `seen`,
`seenAt` and `mtime`. A rescue skips the mirror. `StoreFails` and `AnswerLost` are the
store errors that the driver only logs. The queue's `upsert` is a read and a write of all
content columns; claims are one conditional `UPDATE`. Phase, needs and priority columns
have one writer each or no reader here and are left out.

### PhaseDag

`phase_order` goes round by round: `BeginRound` takes the free phases (nothing they depend
on is still to be placed), `Append1` appends them in the order of their names, `EndOrder`
ends with the rest, which are reported as a cycle. Then the loop is at `ordered[next]`:
`SkipPhase` reports a phase blocked (two parents, or a parent that is not complete),
`StartPhase` enters `_run_phase`, and `EndPhase`, `PausePhase` (a model call met the
account's limit) or `Raise` leave it. A behaviour is a sequence of runs; between two of them
the graph may change in any way, so a proof about it is one about every graph.

### EpicRun

`run` is what one call of `run_epic` knows: its place in `_run_phase`, its copy of the
items' states, and the lists it collects (`results`, `alive` for `surviving`, `landed`,
`merged`, `moved`, `quarantined`). Beside it are what outlives a run: `work` (the state in
the store's rows), `tries` (the causes of the attempts counted on a task's current body),
and the repository. A branch is the set of commits it holds, `{}` when it does not exist; a
task's work is `Work(t)` on a branch and, squashed by a human's landing, `Landed(t)` or
`Amended(t)` on main. That is what `git cherry` compares: `Landed` has the same patch,
`Amended` has not.

Each step of `_run_phase` that changes something is an action, in the order of the code:
`EnterPhase`, the branch (`OpenNew`, or `OpenReused` and then `AwaitLand`, `Rebase`,
`Block` or `Recreate`), `Select` with the attempt cap, triage task by task, `Refuse`,
`FanOut`, the results task by task (`Take...`), `Validate`, the chunk verdicts, the batch
(all drafts, all merges, all moves), `Reconcile`, `TrimPhase`, `Leave`. `LimitStop` and
`Crash` may come at every model call and everywhere. `Audit` is the end of a run. Beside
the run a human lands approved tasks at any time and requeues quarantined ones between
runs, or sets a ready task aside under a run (`SetAside`); that, `LoseBranch`,
`LoseScratch` and `LoseLease` take something from a run and are counted by `mishaps`, as is
a store that fails.

What is simplified, and where it is looked after:

* The runs of an initiative follow each other (`LoadRun` starts when the one before has
  ended). Two at once are what the lease is for: `Lease` and `LeasedRun`. Here a run that
  lost its lease is `stale`, and a fence and the write it guards are one step; `LeasedRun`
  takes them apart.
* The store has the authority on states. How rows and files settle is `WorkItems`.
* `--resume` and saved results, dropped tasks and needs in other initiatives are left out.
  So is the removal of drafts by the landing, and who holds a worktree.
* A store that fails the write of a quarantine is logged (`_store_first`, `_quarantine_row`):
  the run goes on as if it had quarantined the task, and the row stays as it was.
  `Quarantine` lets any of its writes fail, each such step a mishap, and the history
  `unwritten` keeps which rows. A move that the store refuses is a `Skip`. A store that
  commits and loses its answer is `AnswerLost` of `WorkItems`; here a write succeeds or not.
* What the reviewers, checks, validator, triage and gate answer is a choice of the step.
* A git command that reads may fail only when `GitFaults` says so (`lost_cherry`).

`BuildsOnNeeds` excepts one case, which the code does not see when it happens: a parent's
branch from which somebody takes the merge off in the middle of a run. The dependent phase
is then built without it, and the end-of-run audit reports the parent's task.

### Lifecycle

One behaviour is one run of one ticket: `ticket` holds what is fixed (which seats the
cartridge binds, whether the plan competes, tiers, a runaway ceiling). Each action is one
runner call with what `_run` does on its answer or its failure: `place` is where the graph
is, `build` the build the record will hold and `judged` the judgement of it, `loop` the
counters and the objections of the fix loop, `session` the build thread's spend and
checkpoints, `resume` the budget stop at hand. A patch is known by the number of the attempt
that returned it and by what the checks can tell of it (it applies, it is cut short, it names
other files, it is empty); a checkpoint's partial patch by the three facts that
`_resume_build` asks about. `seen` is history.

### Decompose

The model's answers (size, plan, challenge, correction) are inputs chosen from families of
plans; everything the code does with them is computed. A surface is one of the kinds the
gates tell apart (a file of either repository, a test, a fixture, a partial path, a
misplaced file, an unknown path, a new file, prose), and a phase name is a base and the level
its split gave it. A task id is a sequence and a part's id has a repository at its end, so
that a part is known by the beginning of its id (`IsPartOf`). `LevelFrom` is the recursion of
`_level` as a function of a task and the path to it; `Above` is the closure of the needs as
the least closed set, and `LocalCycle` asks it what the code's search asks. Two things are
taken of the answers (`DecomposeAssumption`, `Additions`): they have the shape of their
schema, and no answer, nor a correction's tasks with those of the plan, has two tasks of
which one has the id of the other's part; with two tasks of one id in `tasks`, which of them
the code keeps depends on the step. The wording rules of the lint are reduced to whether a
body passes.

### FanOut, Cos

`node[i]` is where the future of the i-th invocation is, `taken` what the driver has read,
`pc` the driver. The pool goes on beside the driver, and `Take`, `Return`, `Drain` and `Term`
are `as_completed` and the four ways out. `Cos` dispatches: `AssembleDocket`, `ReadIntake`,
the model's `Dispatch` (an `Invoke` of `FanOut`), then `Consume`, one file at a time, and
`GateProposals`, with a kill between any two. Detached runs start, end and leave pid files,
whose numbers other processes may get.

### Rescue

A rescue is at `stage[r]`; `view[r]` is what it read when it began: state, text, patch and
how many attempts there were. `attempts` is the work file's list and `stored` the store's
rows, which alone know causes; `Eligible` merges them as `rescue_select.py` does. A fence and
the write behind it are one step, a move and the fence before it are two. Beside the rescues
`Attempt` and `BuildApproved` are a driver with its own lease and `Human` edits, requeues,
lands and closes. `about`, the text a failed rescue was meant for, is history: the code has
to find it from times.

### ClaudeSession, CallLog

`ClaudeSession` follows one role from call to call: `th` is the thread's state in the runner,
`cli` the CLI's session with its own running total, `books` the rows and what they add up
to, and `books.trace` is the total in the file that the next call's number names: the one
of a stopped or failed call, which has no place in the list, or one that an earlier runner
left there (`Stale`). A call that is killed takes its row's cost from it (`TimedOut`). The
CLI is outside: it spends, overshoots by up to `Overshoot`, fails, prints nothing or nothing
that can be read (`Unreadable`, which writes no row), does not tell what it spent, or starts
over. `CallLog` takes apart what is written of each call: the trace file numbered from the
list, the append, the row, and the replacement of the list's last element; a call may be
killed, print nothing, or print events without a result (`NoResult`: a trace and no row).

### ToolLoop, ApiRunner

A turn is one action: the request, the bill and every tool call of the reply. A check whose
output does not decode raises before the clock is moved and is an error result; the history
`unclocked` counts such checks and their seconds. Money is in units of an output token; a
model has no price, a price for its prompts only (and then no cap on `max_tokens`), or both.
An endpoint may refuse a `max_tokens` below 1 or take it for no limit: what posts past the
budget cost is kept in the history `late`. `ApiRunner` asks for single requests, retried once, and for loops, charges
threads and writes rows; `kind` is the runner, and the OpenAI-compatible one delegates to
the Messages API where the code does.

### StoreMigrate, StoreCopy

`StoreMigrate`: each opener has the migrations its package holds; `current` is
`open_store`'s first read, `at` the loop of `migrate`. A backup is a file with the schema
versions it restores, one when it is whole and none when its writer was stopped.
`StoreCopy`: rows are a key and a content that grows with each write; a copy begins the first
table it has not finished (`todo`), reads a page, writes it as one batch, counts, and ends
`ok` or `short`. A page is the set of rows with `read` to `read + Batch - 1` rows before
them, in the source as it is at that statement. `SourceLive` and `DestLive` say whether
drivers write either store: the source at any time, the destination between the copies only,
as the command's documentation assumes of it.

## Runs

| Run | Question | Result |
|---|---|---|
| `store` | the lease's safety and its refinement of `LeaderEpoch`; migrations that race; a copy killed and run again | holds |
| `leased_run` | the run's safety and liveness, and that it uses the lease as `Lease` allows | holds |
| `work_items` | one item under all its writers, both authorities | holds |
| `epic_run` | two runs of two stacked phases: caps, needs, grounds, unlanded commits, what the end of a run promises | holds |
| `graphs` | the ordering and the loop on every phase graph; the lifecycle of a ticket; the decomposition of families of plans; that the first two end | holds |
| `runners` | sessions, logs, requests and tool loops: books, limits, bounds | holds |
| `dispatch` | a fan-out, dispatches of the chief of staff, rescues of one task | holds |
| `stale_attempt` | does a stale leader record no attempt, as the comment at `epic.py:1338` says? | violated: the fence precedes a model call |
| `omitted_key` | does an upsert keep the keys it leaves out, as `store_queue.py:126` says? | violated under Postgres: a move committed in between is undone |
| `lost_cherry` | is a branch with something to lose blocked, as `epic.py:548` and `2061` say? | violated when `git cherry` fails: the branch is deleted |
| `shared_log` | is a call that was answered stored as answered, with two threads on one runner? | violated: the list's last element is another thread's |
| `killed_before_gate` | has an idea that is marked handled had its proposals gated? | violated: a death between the marking and the gate |

Bounds, and why they are enough:

* `store`, the lease: three processes, two of them of one run id, are the smallest instance
  with an owner, a competitor and a relaunch. `Ttl = 2`, `MaxLag = 1`, `MaxTime = 4` let a
  grant expire, be renewed late, and expire for one caller and not for another.
  `MaxEpoch = 2` bounds when an acquire may begin, not the epochs: three interleaved
  acquires still reach epoch 4. The migration: three openers with two or three migrations or
  a gap, one of which skips its backup; one open each, under clocks that keep their backup
  names apart (see the divergences below for shared ones). The copy: two tables, parent and
  child, of up to three rows, pages of two, so that a page boundary falls inside a table,
  two runs of the command, and a destination that is empty or holds other versions of the
  child's rows.
* `leased_run`: two runs of one prefix; one of them (`Faulty`) meets signals, SIGKILL and a
  failing store, the other is its successor. `Ttl = 1` and `MaxTime = 2` let a lease run out
  once, in every state of its owner; `MaxLag = 0` since the lag is examined in `store`.
  `MaxPauses = 1` pause, `MaxEpoch = 2`.
* `work_items`: two drivers and two claimers. `MaxOps = 4` starts of anything (a driver's
  load, a human's or a tool's command) interleave with all the steps they lead to;
  `ClaimTtl = 1` and `MaxTime = 2` let a claim be taken, stand, and be taken over.
* `epic_run`: tasks 1 and 2 in the first phase, task 3 in the second, needing task 1: the
  smallest instance with a batch of two, a phase branch whose tasks are in different states
  (the `rebase` case), and a stack. `MaxRuns = 2` lets the second run meet what any first
  run left. The initial states are two: nothing is taken from the runs; or task 2 was
  landed before and up to two branches, scratch branches, leases or quarantine writes are
  lost.
* `graphs`: three phases and every graph over them, which has every shape that matters
  (chains, forks, joins, a cycle, a cycle with a tail). Three tickets that bind every seat
  between them, one of them without a ceiling; `FixAttempts = 2` is the smallest number with
  a repeated objection and a step up between two retries; `Ceiling = 2` slices is above the
  last checkpoint. Every graph on three tasks of two phases, with every single challenge;
  two tasks with every pair of kinds of surface, every misspelling, every interface.
* `runners`: a role under six sets of limits (with and without a thread, a task's ceiling
  below and above the guide, a cap, no targets), two calls of up to two attempts each, one mishap, with and without a trace directory in
  which a file may be left over; a log of five calls by one thread, as the runner is used
  outside a wave (`shared_log` has two); two calls of either API runner with two turns, a
  budget of two, prompts that cost one or two, replies of up to two tokens, and checks that
  overrun their own and the total time or do not decode.
* `dispatch`: three nodes over two threads, beside malformed batches; two dispatches over
  two ideas, two detached runs and two slots; two rescues, one builder, two attempts, two
  texts, two launches, one landing.

Deadlock checking is off in every run: the systems are done when every run has ended and
the bounds are used up.

Fairness: `leased_run` assumes weak fairness of each main thread (`DriverStep`), that is,
every store call returns or raises, which the store's timeouts and `with_retries` give; a
fan-out in progress joins at last. Nothing is assumed of heartbeats, humans, the clock or
signals. `graphs` assumes weak fairness of the phase loop (`LoopStep`) and of the lifecycle
(`LifecycleStep`): a phase and a runner call end, since model calls and git commands have
timeouts and a paused run is resumed. Which answer a call gets is never assumed: the
lifecycle ends whatever is answered. Liveness of runs is claimed for those that are not
killed (`StoppedRunFreesLease` excepts a `Kill` and failed store calls explicitly) and for
a wait that is not being resumed.

## Divergences found while modelling

The five runs that expect a violation are `findings` of `PROJECT.json`. The models showed
others while they were written. They have no run of their own here: the models do what the
code does, and where a property of a passing run is about the same promise it is stated for
the other cases, or the instance leaves the case out.

| Where | The code does | What says otherwise |
|---|---|---|
| `epic.py:1674` | drops the answer of a pause wait's last renewal, and the fan-outs start without a fence; only the executions after it are fenced (`LostWaitExecutesNothing`) | the comment at `epic.py:1673` |
| `cli.py:794` | a SIGTERM between the acquire and the setup's `try` leaves the lease to its expiry (`StoppedRunFreesLease` excepts it) | `cli.py:802` |
| `invoke.py:148` | a SIGTERM in the handler of a bug leaves queued nodes to start (`LeftDropsTheQueue` excepts it) | `invoke.py:117` |
| `invoke.py:133` | a limit propagates before the results of finished nodes are saved, so a resume builds them again | `epic.py:2386` |
| `lifecycle_propose.py:1579` | a limit met by a reviewer, the handoff or the arbiter ends as a failed node | `invoke.py:95` |
| `lifecycle_propose.py:2362` | the arbiter's file scope replaces the scope that is recorded | `store_read.py:314` |
| `lifecycle_propose.py:992` | the tier wrapper forwards no ceiling, so two continuations are the cap | `lifecycle_propose.py:812` |
| `initiative_decompose.py:1033` | surfaces that a correction replaced are not looked up again | `initiative_decompose.py:911`, `990` |
| `initiative_decompose.py:1092` | a coupling that a misspelt phase hid is not looked for again | `initiative_decompose.py:982` |
| `initiative_decompose.py:895` | cycles are looked for before the split by repository; when a task names a part (an id that a rewrite's prompt shows, `:418`) of a task that needs it and is split after, the cycle that arises is proposed | `initiative_decompose.py:679` |
| `initiative_decompose.py:910` | with a tree, a new file is refused as prose | `test_initiative_decompose.py:1162` |
| `claude_code_runner.py:1453` | a stop in a session's first call is not resumed but restarted | `claude_code_runner.py:1622` |
| `claude_code_runner.py:1246` | a failed attempt's spend is not taken off the ceiling (`SessionKeepsItsLimits` excepts it) | `claude_code_runner.py:1225` |
| `claude_code_runner.py:1586` | a cap is compared with the whole target, not with what was sent | `claude_code_runner.py:1580` |
| `claude_code_runner.py:1763` | replaces the list's last call, which may be another thread's | `epic.py:632` |
| `claude_code_runner.py:1286` | a call after a stopped one writes over its trace file | `claude_code_runner.py:1275` |
| `claude_code_runner.py:1302`, `1526` | a call that prints nothing, or nothing with a result in it, fails its node and leaves no row (`SessionBooks` and `LogsAgree` count it apart) | `claude_code_runner.py:800` |
| `claude_code_runner.py:1366` | the row of a killed call takes its cost from the file of its number, which may be the trace of a call that was stopped before, booked once already (`SessionBooks` counts it apart) | `claude_code_runner.py:539` |
| `openai_compatible_runner.py:309` | a post on a thread whose budget is used up is not stopped: it asks for no tokens or fewer, or, when the output is free, for all (`BooksBalance` counts what it costs apart, and no such post is answered) | `anthropic_runner.py:459`, `471` |
| `tool_loop.py:182` | a check whose output does not decode raises past the clock, so that its time is not counted (`LoopKeepsItsBounds` counts it apart) | `tool_loop.py:160` |
| `epic.py:1539`, `1596` | a store error in a quarantine is logged, and a row that the run reports quarantined stays ready or approved (`QuarantineIsStored` and `ApprovedIsKept` except that row) | `epic.py:1579` |
| `openai_compatible_runner.py:513` | a ceiling over turns of an unpriced model never trips (`BooksBalance` excepts it) | `tool_loop.py:227` |
| `openai_compatible_runner.py:154` | a billed reply without content is not charged (`BooksBalance` excepts it) | `openai_compatible_runner.py:524` |
| `cos.py:410` | `sweep` is offered and has no recipe, so the whole answer fails | `cos.py:72` |
| `store_migrate.py:228` | a backup named for one version may hold a newer one | `store_migrate.py:130` |
| `store_migrate.py:133` | two opens of one second and one pair of versions write one file, the second over the first (the run and the theorem keep names apart) | `store_migrate.py:219` |
| `store_copy.py:146` | a run recorded after `runs` was copied is missed while its attempts are copied | `store_copy.py:39` |
| `store_copy.py:141` | a second copy into a store in use puts a lease row back (`AppendOnlyKept` is about the tables that are not refreshed) | `store_lease.py:1` |
| `epic.py:3645` | a task done by hand can be rescued, and leaves done | `epic.py:3639` |
| `epic.py:3626` | the branch is made on a default branch that has moved since the checks | `epic.py:3579` |
| `epic.py:1537` | a rescue's move after the fence carries no epoch (`RescueGivesWay` ends at the gate) | `run_lease.py:36` |
| `epic.py:1860` | a rescue launched again keeps its first task row | `epic.py:1848` |

Two hazards are listed without a property: `cli.py:794` and `epic.py:1683` (a pause flag
that a relaunch of the same run id inherits and nobody's promise names). Left off the list
for want of a model of their state: `store_write.py:298` (a run's end is stamped by run id,
with no epoch), `epic.py:1488` (a mirror that found no row upserts over one inserted since),
`epic.py:529` (a worktree of a dead run is removed by its pid file), `epic.py:3319` (a draft
branch left by a crash), `epic.py:1366` (a retried attempt recounts its sequence number).

## What is proved

For every set of processes, holders, drivers, claimers, openers and rescues, every ttl, lag
and bound:

* `LeasedRunProofs`, of the lease: `LeaseTypeCorrect`, `GrantsAreUnique`, `FenceAdmitsNewest`,
  `ReleasedStaysDead`, `TakeoversAreExpiryOrSteal`, `LeaseImplementsLeaderEpoch`. All rest
  on the inductive invariant `LeaseInv`. Uniqueness alone is not inductive: an acquire grants
  the row's epoch plus one, so every grant must be known to be at most the row's epoch
  (`GrantsBelowRow`); a steal grants what it read plus one, which is the row's only because
  its WHERE names the epoch; a release is final only because the row at a released epoch is
  known to be in the past (`ReleasedIsPast`) and renewals look at the expiry.
* `LeasedRunProofs`, of the runs: `RunsImplementLease` (each step of a run is a step of the lease), hence
  `RunGrantsAreUnique` and `RunReleaseIsFinal` without a new induction, and
  `GuardedWritesAreTheLeaders` from `FenceInv`: a process in time past its fence still has
  the row for as long as the fence saw, less the clock lag (`SeenIsBacked`), which needs
  that no launch steals, that nothing is granted beyond `Ttl` from now, and that the row is
  under the name of the process it was granted to.
* `LeasedRunProofs`, of waits and ends: `WaitsThatLostExecuteNothing`, and
  `SuccessorsStartAlone` from `AloneInv`: workers live in a fan-out, after one that a signal
  cut short up to the wait for them, and past that wait only when it was in vain
  (`WorkersAreKnown`); and a process whose lease was given back is the one that gave it back
  and is at its end (`GivenBackAtTheEnd`).
* `WorkItemsProofs`: `WorkItemsTypes`; `ClaimsAreUnique` and `ClaimsStand` from `ClaimInv`
  (no claim is ahead of the row's epoch, and the row's holder is the claim won at the row's
  epoch); `FilesFollowRows` from `FileInv` (whatever state a driver or tool carries toward
  the file was once the row's); `MovesAreKnowing`; `MirrorsSettle`, by
  the cases of the table that the mirror decides by; its only invariant is that a row that is
  not there has no stamp (`StampInv`). The first lemmas say once what an upsert,
  a compare-and-set, a claim and a release do to the row, and the rest cite them.
* `PhaseDagProofs`, for every set of phases (infinite ones too) and every graph:
  `PhaseDagTypeCorrect`, `OrdersAreTopological`, `LeftoversAreStuck`,
  `RunsAreOnCompleteParents`, `PhasesAreReported`, from `DagInv`. What is in a round stays
  free while the round is appended (`RoundIsFree`); a set of phases that all wait for one of
  the set is never entered (`StuckIsLeft`), and what is left when nothing is free is such a
  set, hence the largest; and the reports are those of the phases before `next`
  (`ReportsInOrder`), so that nothing is reported twice or not at all.
* `EpicRunProofs`, for every set of phases and tasks, every needs and any number of runs:
  `RunsFollowPhaseDag` (each step of a run is a step of `PhaseDag` or leaves it alone), hence
  `EpicRunsAreOnCompleteParents` without a new induction; `EpicRunTypeCorrect`;
  `UnlandedWorkSurvives`, when git answers (`~GitFaults`; the run `lost_cherry` shows that it
  fails otherwise), from `LandInv`: what the run or a row calls done is on main, a landed
  commit on a phase branch is on main, and a branch that waits to be recreated holds landed
  work only. The decision to recreate is taken steps before the branch is deleted, from
  states read at the start of the run, so that `LandInv` has to say what stays true while
  humans land; and `AttemptsAreCapped`, from `HandInv` (a task is in one place of the run
  only, and a moved one is approved in the run's copy, so that it is not selected again) and
  `CapInv` (every task on which the run may still count an attempt, moved ones and the
  audit included, is below its cap). The cap alone is not inductive: it is read once, at
  `Select`, and the attempts are counted at five later places.
  `QuarantinesAreStored` and `ApprovedWorkIsKept`, from `KeptInv`, which adds to `HandInv`
  whose tasks a run has touched (`TouchInv`: those of the phases it has reported or is in,
  and of the latter none before its ready view), that a run with its lease has in hand
  nothing it quarantined or merged (`HandsOffInv`), and that what the run still holds as
  ready is ready or set aside in its row, while what it quarantined is neither ready nor
  approved there but for the rows whose write failed (`RowInv`). Both are about the last step of a run: the row is written where
  the quarantine happens, dozens of steps and perhaps phases earlier, and a move, a merge
  that conflicts, a human who lands or sets aside may come in between. And
  `TasksAreBuiltOnNeeds`, from `BuildInv`: the graph read at the start has a phase for every
  need not landed then, and no run learns of a landing later (`NeedInv`, `DoneIsKnown`); what
  waits for its build has its needs met (`MetInv`); an opened branch holds all that was landed
  and the work of its base, and a complete phase's branch held the former until somebody
  took it (`GroundInv`). A phase that runs has at most one parent, so that the parent of the
  need is the base (`OneParent`). None of the three needs `~GitFaults`.
* `DispatchProofs`, for every batch, number of threads and order of ends: `FanOutsAreHonest`,
  from `FanInv`. What the driver holds is what it read (`Held`); a driver that goes on has
  read no limit and no bug and cancelled nothing (`GoesOn`), so that when all that ended is
  read, everything ended well or failed; and one that stops has an empty queue, or a bug
  among what it read (`StopsClean`).
* `DispatchProofs`, for any ideas, detached runs, selections and interleavings: `DispatchesFit`
  and `IdeasAreHandled`, from `CosInv`, which has `FanInv` inside it, since a dispatch's
  batch is a fan-out. The bound on what is invoked is a relation to a docket read steps
  earlier: runs that start after it are counted (`started`), so that what is alive now is at
  most what was alive then and those (`DocketHolds`, on cardinalities of sets that other
  actors change). That no idea is decomposed twice needs that each idea is in the batch once
  and is still queued while it is there (`QueueHolds`, `BatchHolds`), and that without a
  stopped dispatch an idea that ran is marked or about to be (`FirstRuns`).
* `DispatchProofs`, for any number of rescues, builds, launches, texts and landings:
  `RescuesAreSparing` and `RescuesGiveWay`, from `RescueInv`. A second failure on one text is
  excluded only together with four facts: every failed rescue follows an attempt on its text
  (`FailuresFollow`), so that whoever chooses finds it; texts and times only grow
  (`TextsInOrder`), so that the last attempt is about the current text; and as long as the lease
  is a rescue's, none has failed on its text (`FirstOfItsText`) and nobody has built the task
  again (`NotBuiltSince`).
* `StoreProofs`, for any number of openers and any mixture of code whose backups have
  names of their own (`NamesApart`): `StoresHaveOneHistory`, from `MigrateInv`. The loop is at
  most one migration ahead of the store (`LoopFollows`), so that what is not covered is the
  next one; and an opener that may yet commit has a backup from below (`BackedUp`), taken
  when its version was pending, or had nothing to do then and has nothing to do now.

* `StoreProofs`, for any tables, keys, page size and writes beside the copy: `CopiesAreFaithful`,
  from `CopyInv`. While a table is copied, what was there when it began is in the destination
  or still to be read: its row has at least `read` rows before it, in a source that only
  grows (`CopyGoes`). That a page after `r` rows has as many rows as there are is by
  induction over `r` (`PageIs`), from the well-foundedness of the naturals; that the parents
  come first uses that the order names no table twice and the parent before the child.
* `GraphsProofs`, for any tickets, claims, answers and numbers of attempts:
  `TheRecordIsHonest` and `TheFixLoopIsFair`, from `LifeInv`. An approval is of a whole round
  because each place of a round implies what was already heard (`RoundInv`), and it survives
  to the record because nothing after it touches the build (`VerdictInv`, `EndInv`). The half
  attempts are tied to the changes sent back by place (`CountInv`): that is what keeps the
  step up in tier to the second build. An objection that was raised stands, and one raised
  twice is at the end of the loop (`RaisedInv`).
* `GraphsProofs`, of decompositions, for any plans, challenges, corrections and sizes, plans of
  any number of tasks: `PlansAreKept` and from it `NothingIsSettledByAGuess` (`DraftInv`), and
  `ProposedPlansAreSound` (with `DagInv` beside it). Between the answer and the proposals ids
  change twice and phases once, so the invariant ties the tasks to the agreed plan by the
  beginnings of their ids (`PartsKeep`): no id begins another, hence each part has one whole
  (`SplitIds`), and an agreed edge is an edge of all the parts. The check for cycles finds one
  whenever a set of tasks needs itself: without a cycle there is strictly less above a need
  than above the task, and the member with the least above it needs none of the set
  (`NoCycleIsAcyclic`). The levels of a split are defined by recursion over paths; that such a
  function exists is by induction over what is left of a path (`LevelsAreDefined`), that
  without a cycle the path does not matter by induction over what is above a task
  (`LevelIsSteady`), and then a need is on an earlier level (`LevelsDescend`).
  `ProposedPlansAreSound` has a hypothesis on the plans, `NoPartIsNamed`, which the instances
  satisfy and the code does not see to: see `initiative_decompose.py:895` in the table above.
* `RunnersProofs`, of what is written down: `OneWorkersLogsAgree`, for a runner that one worker
  at a time uses (the run `shared_log` shows that it fails for two), any nodes and calls.
  The list is read and written by position, so the invariant says which number and which
  file the call at work has at each of its steps (`AtWork`), and, since calls that fail or
  cannot be read have none, that there are never more places than calls (`PlacesAreCalls`).
* `RunnersProofs`, of sessions, for any limits: `SessionsKeepTheirBooks`, and
  `SessionsKeepTheirLimits` for profiles whose limits are positive, which is the
  operator's to see to since the runner takes what it reads, from `SessionInv`: the rows cover what was reported and what killed
  calls booked again, exactly so until a failure or an early stop (`CostsCover`), what the
  runner knows is what the session spent
  (`Known`), and what was sent is what the session's state allows (`SentInv`).
* `RunnersProofs`, of the API runners, for any prices, budgets, batches of tools and numbers of
  calls: `TheMoneyIsAccountedFor` and `TheToolLoopIsBounded`, from `ApiInv`, three invariants
  side by side: the money (`MoneyInv`), the worktree (`PatchIsTheTree`) and the messages
  (`WireInv`). The books are folds over the rows, so a first part of the proof shows, by
  induction over the length, what a fold over a list is when a row is added to it
  (`RowAdded`, `TotalIs`); then each call's rows, charges and bill move together. That a
  thread is past its budget by one reply and its late posts is an induction over calls: what
  is charged past it is late from then on (`StaysWithin`), and the rows of those posts are
  no answers (`NoAnswerPastBudget`).
  That every tool call is answered in the next turn is about the conversion of the messages
  to the Messages API, for replies of any number of calls.

Assumptions on constants are as weak as the code gives them: a positive ttl, names that are
not the "nobody" value, phases and tasks in an order, batches of an invocation that are
sequences and of tool calls that are not empty, run ids of rescues and builds apart, finitely
many ideas and detached runs, a cap that is more than a call may spend, keys of a table that
are finite, plans of finitely many tasks of which no id begins another, an order of tables
that names none twice and parents first.

Induction over data. The library's induction theorems cannot be instantiated by the provers
here, but that every non-empty set of naturals has a least member follows from a theorem
that has no operator parameter (`LeastNumber`, from `NatLessThanWellFounded`), and a
statement about all lengths is proved by taking the least length at which it fails
(`Recursion`, `UpTo`). So a fold, a count and a recursive function can be reasoned about; a
`RECURSIVE` operator cannot, and no module with theorems has one.

Only model-checked: the liveness properties (`StoppedRunFreesLease`, `OvertakenWaitEnds`,
`EveryGraphEnds`), which the proof system does not reach. Every safety property that a passing
run checks is a theorem.

The theorems `OrdersAreTopological`, `PhasesAreReported` and the type theorems state
properties that no run checks any more, since they are proved for every instance.

## Not modelled, and why

* Backfills and one-off rewrites of the store: parsers of old record formats that run alone.
* Store reads, ids, traces, hosts and landed marks: queries and single-row upserts with no
  control flow over state.
* Which saved result a rerun of an epic reuses, dropped tasks, needs in other initiatives,
  who holds a worktree and its pid file: left out of `EpicRun`, which already carries the
  state of two runs; a rescue's kept patch is in `Rescue`.
* The policy that decides what is asked of a human, and the named apply arms: their answers
  are choices of the models that use them.
* The system-one tier and the other graphs (validate, triage, retro, sweep): straight
  sequences of model calls with validation of their answers; the answers are choices.
* Prompts, message formats, HTTP, event-stream parsing, argument parsing, logging and
  formatting everywhere.

## Plan

1. Saved results and resumes of a rerun in `EpicRun`, with the limit that drops results.
2. Worktree holders and pid files, with two runs of one initiative at once.
3. A two-launch instance of `LeasedRun` for the stamps and the pause flag that a relaunch
   inherits.
4. Theorems for what 1 to 3 add; `EpicRun` as an implementation of an abstract store of
   states that only a run with its lease, or a human, changes.
