----------------------------- MODULE LeasedRun -----------------------------
(***************************************************************************)
(* The life of a run under its lease: harness/cli.py `_launch`, the        *)
(* heartbeat thread (harness/run_lease.py), the fence and the pause wait   *)
(* of the epic driver (harness/epic.py), and SIGTERM at every point.  Each *)
(* run is a process with a main thread (`drv`), a heartbeat thread (`hb`)  *)
(* and, while it fans out, worker threads (`workers`).                     *)
(*                                                                         *)
(* Every step of the main thread is one step of Lease or leaves the lease  *)
(* alone, so LeasedRunSpec implements LeaseSpec.  `_launch` never steals;  *)
(* a relaunch is a second process of the same holder.                      *)
(***************************************************************************)
EXTENDS Lease

CONSTANTS
  Faulty,    \* bound: the processes that get signals, die, or meet a failing store
  MaxPauses  \* bound: how often a human sets a pause flag

ASSUME RunAssumption == Faulty \subseteq Proc /\ MaxPauses \in Nat

VARIABLES
  drv,      \* where the main thread is
  then,     \* in a pause wait, what it is for: a fan-out, or executing a cleared item
  hb,       \* the heartbeat thread runs
  workers,  \* worker threads of a fan-out are alive
  term,     \* the run leaves by SystemExit(143)
  deaf,     \* further SIGTERMs are ignored
  gaveUp,   \* the wait for quiet workers hit its deadline
  failed,   \* a store call of the exit failed, and was only warned about
  seen,     \* up to the write, the expiry that the fence before it saw
  paused,   \* runs.paused_at is set
  pauses,   \* how often it was set
  runRow    \* the run's row: absent, open (no ended_at), or ended

runVars == <<drv, then, hb, workers, term, deaf, gaveUp, failed, seen, paused, pauses, runRow>>
vars == <<leaseVars, runVars>>

Setup == {"acquiring", "granted", "refusing", "setup"}
Wait == {"pausing", "polling", "waking"}
Guarded == {"guarded", "judging"}  \* past a fence, not yet at the write
Work == {"running", "fanout", "recheck"} \cup Wait \cup Guarded
Exit == {"clearing", "clear", "record", "stamp", "quiet", "release", "closing"}
Drv == {"off", "done"} \cup Setup \cup Work \cup Exit

LeasedRunTypeOK ==
  /\ LeaseTypeOK
  /\ drv \in [Proc -> Drv]
  /\ then \in [Proc -> {"none", "fanout", "execute"}]
  /\ {hb, workers, term, deaf, gaveUp, failed} \subseteq [Proc -> BOOLEAN]
  /\ seen \in [Proc -> Int]
  /\ paused \subseteq Holder
  /\ pauses \in 0..MaxPauses
  /\ runRow \in [Holder -> {"absent", "open", "ended"}]

LeasedRunInit ==
  /\ LeaseInit
  /\ drv = [p \in Proc |-> "off"]
  /\ then = [p \in Proc |-> "none"]
  /\ hb = [p \in Proc |-> FALSE]
  /\ workers = [p \in Proc |-> FALSE]
  /\ term = [p \in Proc |-> FALSE]
  /\ deaf = [p \in Proc |-> FALSE]
  /\ gaveUp = [p \in Proc |-> FALSE]
  /\ failed = [p \in Proc |-> FALSE]
  /\ seen = [p \in Proc |-> Past]
  /\ paused = {}
  /\ pauses = 0
  /\ runRow = [h \in Holder |-> "absent"]

GoDrv(p, to) == drv' = [drv EXCEPT ![p] = to]

\* A main-thread step that changes nothing but the place it is at.
Move(p, from, to) ==
  /\ drv[p] = from
  /\ GoDrv(p, to)
  /\ UNCHANGED <<leaseVars, then, hb, workers, term, deaf, gaveUp, failed, seen, paused, pauses, runRow>>

\* finish_run: an unconditional UPDATE by run id.
Stamp(p) == runRow' = [runRow EXCEPT ![HolderOf[p]] = "ended"]

----------------------------------------------------------------------------
(* Launch: the run row, the acquire, the setup *)

\* record_run inserts the row and leaves one that is there alone (a relaunch keeps the
\* old end stamp); the acquire starts with the reading taken before the store was opened.
Launch(p) ==
  /\ drv[p] = "off"
  /\ BeginAcquire(p, FALSE)
  /\ GoDrv(p, "acquiring")
  /\ runRow' = [runRow EXCEPT ![HolderOf[p]] = IF @ = "absent" THEN "open" ELSE @]
  /\ UNCHANGED <<then, hb, workers, term, deaf, gaveUp, failed, seen, paused, pauses>>

\* One statement of the acquire; its answer, when it was the last one.
AcquireStep(p) ==
  /\ drv[p] = "acquiring"
  /\ Take(p) \/ Insert(p) \/ Read(p)
  /\ GoDrv(p, IF call'[p].step # "idle" THEN "acquiring"
              ELSE IF held'[p] > 0 THEN "granted" ELSE "refusing")
  /\ UNCHANGED <<then, hb, workers, term, deaf, gaveUp, failed, seen, paused, pauses, runRow>>

\* The store fails inside the acquire: its transaction is rolled back.
AcquireFails(p) ==
  /\ p \in Faulty
  /\ drv[p] = "acquiring"
  /\ Crash(p)
  /\ GoDrv(p, "refusing")
  /\ UNCHANGED <<then, hb, workers, term, deaf, gaveUp, failed, seen, paused, pauses, runRow>>

\* _refuse_start: the run that never started is stamped, and its process ends.
RefuseStart(p) ==
  /\ drv[p] = "refusing"
  /\ Stamp(p)
  /\ GoDrv(p, "done")
  /\ UNCHANGED <<leaseVars, then, hb, workers, term, deaf, gaveUp, failed, seen, paused, pauses>>

\* From the grant to the `try` whose handlers give the lease back.
EnterSetup(p) == Move(p, "granted", "setup")

\* heartbeat.start() is the first call of the setup.
StartRun(p) ==
  /\ drv[p] = "setup"
  /\ GoDrv(p, "running")
  /\ hb' = [hb EXCEPT ![p] = TRUE]
  /\ UNCHANGED <<leaseVars, then, workers, term, deaf, gaveUp, failed, seen, paused, pauses, runRow>>

\* A setup that raises, before or after it started the heartbeat, goes straight to the
\* end of the run.
SetupFails(p) ==
  /\ drv[p] = "setup"
  /\ GoDrv(p, "stamp")
  /\ \E alive \in BOOLEAN : hb' = [hb EXCEPT ![p] = alive]
  /\ UNCHANGED <<leaseVars, then, workers, term, deaf, gaveUp, failed, seen, paused, pauses, runRow>>

----------------------------------------------------------------------------
(* The driver's fenced sections and its fan-outs *)

\* Mutant: the fence looks for a live lease, whoever holds it.
FencePassesUnowned(p, at) == RowExists /\ row.expires > at

\* What a fence answers: it reads the clock just before the row.
FencePasses(p, at) == AssertEpoch(held[p], at)

\* A fence that passes and what comes after it; a fence that fails and what comes then.
Fence(p, from, pass, fail) ==
  /\ drv[p] = from
  /\ \E at \in Readings :
       IF FencePasses(p, at)
       THEN /\ seen' = [seen EXCEPT ![p] = row.expires]
            /\ \E to \in pass : GoDrv(p, to)
       ELSE /\ GoDrv(p, fail)
            /\ seen' = [seen EXCEPT ![p] = Past]
  /\ UNCHANGED <<leaseVars, hb, workers, term, deaf, gaveUp, failed, paused, pauses, runRow>>

\* A boundary of the driver: a write right after the fence, a quarantine (which asks a
\* model for the cause between the fence and its writes), or the execution of an item the
\* gate cleared, which waits out a pause first.
Section(p) ==
  /\ Fence(p, "running", Guarded \cup {"pausing"}, "running")
  /\ then' = [then EXCEPT ![p] = IF drv'[p] = "pausing" THEN "execute" ELSE "none"]

\* A fan-out of lifecycle or triage graphs waits out a pause first.
BeginFanOut(p) ==
  /\ drv[p] = "running"
  /\ GoDrv(p, "pausing")
  /\ then' = [then EXCEPT ![p] = "fanout"]
  /\ UNCHANGED <<leaseVars, hb, workers, term, deaf, gaveUp, failed, seen, paused, pauses, runRow>>

\* Mutant: the write goes ahead after the pause wait without a second fence.
RecheckSkipped(p) ==
  /\ Move(p, "recheck", "guarded")

\* The second fence of _execute: the wait can outlast the lease.
Recheck(p) ==
  /\ Fence(p, "recheck", {"guarded"}, "running")
  /\ UNCHANGED then

\* The write that a fence guards.
GuardedWrite(p) ==
  /\ drv[p] \in Guarded
  /\ GoDrv(p, "running")
  /\ seen' = [seen EXCEPT ![p] = Past]
  /\ UNCHANGED <<leaseVars, then, hb, workers, term, deaf, gaveUp, failed, paused, pauses, runRow>>

\* The pool has joined its workers: every node of the fan-out is done.
JoinWorkers(p) ==
  /\ drv[p] = "fanout"
  /\ GoDrv(p, "running")
  /\ workers' = [workers EXCEPT ![p] = FALSE]
  /\ UNCHANGED <<leaseVars, then, hb, term, deaf, gaveUp, failed, seen, paused, pauses, runRow>>

\* The epic run leaves: a result, or an exception that is not an exit.
Finish(p) == Move(p, "running", "clearing")

----------------------------------------------------------------------------
(* The pause wait *)

\* The flag is read; a paused run goes on to its renewal, another one to the last renewal.
ReadPause(p) ==
  /\ drv[p] = "pausing"
  /\ GoDrv(p, IF HolderOf[p] \in paused THEN "polling" ELSE "waking")
  /\ UNCHANGED <<leaseVars, then, hb, workers, term, deaf, gaveUp, failed, seen, paused, pauses, runRow>>

\* Whether the renewal may be refused at some reading of the clock.
MayMissRenewal(p) == \E at \in Readings : ~Renews(p, held[p], at)

\* The run leaves the wait for its exit.
LeaveWait(p) ==
  /\ GoDrv(p, "clearing")
  /\ term' = [term EXCEPT ![p] = TRUE]
  /\ then' = [then EXCEPT ![p] = "none"]
  /\ seen' = [seen EXCEPT ![p] = Past]

\* Mutant: a refused renewal is taken for a slow store and polled again.
PollIgnoresLoss(p) ==
  /\ drv[p] = "polling"
  /\ GoDrv(p, "pausing")
  /\ Renew(p, "paused") \/ (MayMissRenewal(p) /\ UNCHANGED leaseVars)
  /\ UNCHANGED <<then, hb, workers, term, deaf, gaveUp, failed, seen, paused, pauses, runRow>>

\* Each poll renews with status "paused"; a lost lease ends the run as SIGTERM does, but
\* leaves the signal handler as it was.
Poll(p) ==
  /\ drv[p] = "polling"
  /\ \/ /\ Renew(p, "paused")
        /\ GoDrv(p, "pausing")
        /\ UNCHANGED <<then, term, seen>>
     \/ /\ MayMissRenewal(p)
        /\ LeaveWait(p)
        /\ UNCHANGED leaseVars
  /\ UNCHANGED <<hb, workers, deaf, gaveUp, failed, paused, pauses, runRow>>

\* The last renewal clears the status.  Its answer is dropped: `_execute` fences again,
\* the fan-outs start their graphs.
Wake(p) ==
  /\ drv[p] = "waking"
  /\ Renew(p, "none") \/ (MayMissRenewal(p) /\ UNCHANGED leaseVars)
  /\ IF then[p] = "fanout"
     THEN /\ GoDrv(p, "fanout")
          /\ workers' = [workers EXCEPT ![p] = TRUE]
     ELSE /\ GoDrv(p, "recheck")
          /\ UNCHANGED workers
  /\ then' = [then EXCEPT ![p] = "none"]
  /\ UNCHANGED <<hb, term, deaf, gaveUp, failed, seen, paused, pauses, runRow>>

\* The store stays down for every attempt of the wait.
WaitFails(p) ==
  /\ p \in Faulty
  /\ drv[p] \in Wait
  /\ LeaveWait(p)
  /\ UNCHANGED <<leaseVars, hb, workers, deaf, gaveUp, failed, paused, pauses, runRow>>

----------------------------------------------------------------------------
(* The end of the run *)

\* _clear_pause_if_held: a fence, then the clear as a statement of its own.
ClearCheck(p) ==
  /\ Fence(p, "clearing", {"clear"}, "record")
  /\ UNCHANGED then

ClearPause(p) ==
  /\ drv[p] = "clear"
  /\ GoDrv(p, "record")
  /\ paused' = paused \ {HolderOf[p]}
  /\ seen' = [seen EXCEPT ![p] = Past]
  /\ UNCHANGED <<leaseVars, then, hb, workers, term, deaf, gaveUp, failed, pauses, runRow>>

\* _record_run_exit stamps the row by run id, with no fence.
RecordExit(p) ==
  /\ drv[p] = "record"
  /\ Stamp(p)
  /\ GoDrv(p, "stamp")
  /\ UNCHANGED <<leaseVars, then, hb, workers, term, deaf, gaveUp, failed, seen, paused, pauses>>

\* Mutant: the run's end is stamped and the lease freed before the workers are quiet.
StampThenRelease(p) ==
  /\ drv[p] = "stamp"
  /\ Stamp(p)
  /\ GoDrv(p, "release")
  /\ UNCHANGED <<leaseVars, then, hb, workers, term, deaf, gaveUp, failed, seen, paused, pauses>>

\* _finish_store_run in the `finally` of _launch; only a terminated run waits for quiet.
StampEnd(p) ==
  /\ drv[p] = "stamp"
  /\ Stamp(p)
  /\ GoDrv(p, IF term[p] THEN "quiet" ELSE "release")
  /\ UNCHANGED <<leaseVars, then, hb, workers, term, deaf, gaveUp, failed, seen, paused, pauses>>

\* _stop_children_until_quiet: the workers are gone, or thirty seconds have passed.
Quiet(p) ==
  /\ drv[p] = "quiet"
  /\ GoDrv(p, "release")
  /\ gaveUp' = [gaveUp EXCEPT ![p] = workers[p]]
  /\ UNCHANGED <<leaseVars, then, hb, workers, term, deaf, failed, seen, paused, pauses, runRow>>

\* Mutant: only a run that ends by itself gives its lease back.
EndLeaseUnlessTold(p) ==
  /\ drv[p] = "release"
  /\ GoDrv(p, "closing")
  /\ \E alive \in {FALSE, hb[p]} : hb' = [hb EXCEPT ![p] = alive]
  /\ IF term[p] THEN UNCHANGED leaseVars ELSE Release(p)
  /\ UNCHANGED <<then, workers, term, deaf, gaveUp, failed, seen, paused, pauses, runRow>>

\* Mutant: the row expires whoever holds it.
EndLeaseBlind(p) ==
  /\ drv[p] = "release"
  /\ GoDrv(p, "closing")
  /\ hb' = [hb EXCEPT ![p] = FALSE]
  /\ row' = [row EXCEPT !.expires = Past]
  /\ UNCHANGED <<now, call, held, grants, released>>
  /\ UNCHANGED <<then, workers, term, deaf, gaveUp, failed, seen, paused, pauses, runRow>>

\* _end_lease: the heartbeat is told to stop, and left alone when it does not answer in
\* ten seconds; then the release, whose failure is only a warning.
EndLease(p) ==
  /\ drv[p] = "release"
  /\ GoDrv(p, "closing")
  /\ \E alive \in {FALSE, hb[p]} : hb' = [hb EXCEPT ![p] = alive]
  /\ \/ Release(p)
     \/ /\ ~(row.holder = HolderOf[p] /\ row.epoch = held[p])
        /\ UNCHANGED leaseVars
  /\ UNCHANGED <<then, workers, term, deaf, gaveUp, failed, seen, paused, pauses, runRow>>

\* A store call of the exit fails, after its retries: the exit warns and goes on.
ExitFault(p) ==
  /\ p \in Faulty
  /\ failed' = [failed EXCEPT ![p] = TRUE]
  /\ seen' = [seen EXCEPT ![p] = Past]
  /\ \/ drv[p] \in {"clearing", "clear"} /\ GoDrv(p, "record")
     \/ drv[p] = "record" /\ GoDrv(p, "stamp")
     \/ drv[p] = "stamp" /\ GoDrv(p, IF term[p] THEN "quiet" ELSE "release")
     \/ drv[p] = "release" /\ GoDrv(p, "closing")
  /\ UNCHANGED <<leaseVars, then, hb, workers, term, deaf, gaveUp, paused, pauses, runRow>>

\* Usage, traces, worktrees; then the process is gone with every thread it has.
Close(p) ==
  /\ drv[p] = "closing"
  /\ GoDrv(p, "done")
  /\ hb' = [hb EXCEPT ![p] = FALSE]
  /\ workers' = [workers EXCEPT ![p] = FALSE]
  /\ UNCHANGED <<leaseVars, then, term, deaf, gaveUp, failed, seen, paused, pauses, runRow>>

DriverStep(p) ==
  \/ Launch(p) \/ AcquireStep(p) \/ AcquireFails(p) \/ RefuseStart(p)
  \/ EnterSetup(p) \/ StartRun(p) \/ SetupFails(p)
  \/ Section(p) \/ BeginFanOut(p) \/ Recheck(p) \/ GuardedWrite(p) \/ JoinWorkers(p)
  \/ Finish(p)
  \/ ReadPause(p) \/ Poll(p) \/ Wake(p) \/ WaitFails(p)
  \/ ClearCheck(p) \/ ClearPause(p) \/ RecordExit(p) \/ StampEnd(p) \/ Quiet(p)
  \/ EndLease(p) \/ ExitFault(p) \/ Close(p)

----------------------------------------------------------------------------
(* Signals, deaths, the other threads, and the human *)

\* Where SystemExit(143), raised at a point of the main thread, is caught: the end of
\* the work, the rest of an exit handler that is nested in another, or nothing at all.
CaughtAt(d) ==
  CASE d = "setup" -> "stamp"
    [] d \in Work -> "clearing"
    [] d \in {"clearing", "clear"} -> "record"
    [] d = "record" -> "stamp"
    [] OTHER -> "done"

\* The handler ignores further signals, stops the nodes and raises.  In the acquire the
\* transaction is rolled back; where nothing catches the exit the process is gone.
Sigterm(p) ==
  /\ p \in Faulty
  /\ drv[p] \notin {"off", "done"}
  /\ ~deaf[p]
  /\ deaf' = [deaf EXCEPT ![p] = TRUE]
  /\ term' = [term EXCEPT ![p] = TRUE]
  /\ GoDrv(p, CaughtAt(drv[p]))
  /\ IF call[p].step # "idle" THEN Crash(p) ELSE UNCHANGED leaseVars
  /\ IF CaughtAt(drv[p]) = "done"
     THEN /\ hb' = [hb EXCEPT ![p] = FALSE]
          /\ workers' = [workers EXCEPT ![p] = FALSE]
     ELSE \E alive \in {drv[p] = "setup", hb[p]} :
            /\ hb' = [hb EXCEPT ![p] = alive]
            /\ UNCHANGED workers
  /\ then' = [then EXCEPT ![p] = "none"]
  /\ seen' = [seen EXCEPT ![p] = Past]
  /\ UNCHANGED <<gaveUp, failed, paused, pauses, runRow>>

\* SIGKILL, or the host is gone.
Kill(p) ==
  /\ p \in Faulty
  /\ Crash(p)
  /\ drv[p] # "done"
  /\ GoDrv(p, "done")
  /\ hb' = [hb EXCEPT ![p] = FALSE]
  /\ workers' = [workers EXCEPT ![p] = FALSE]
  /\ then' = [then EXCEPT ![p] = "none"]
  /\ seen' = [seen EXCEPT ![p] = Past]
  /\ UNCHANGED <<term, deaf, gaveUp, failed, paused, pauses, runRow>>

\* A worker of a terminated run notices that its node was stopped.
WorkerStops(p) ==
  /\ workers[p]
  /\ drv[p] \in Exit
  /\ workers' = [workers EXCEPT ![p] = FALSE]
  /\ UNCHANGED <<leaseVars, drv, then, hb, term, deaf, gaveUp, failed, seen, paused, pauses, runRow>>

\* One renewal of the heartbeat.
Beat(p) ==
  /\ hb[p]
  /\ Renew(p, "keep")
  /\ UNCHANGED runVars

\* A renewal that matched no row, or errors on every attempt, ends the thread for good.
HeartbeatStops(p) ==
  /\ hb[p]
  /\ hb' = [hb EXCEPT ![p] = FALSE]
  /\ UNCHANGED <<leaseVars, drv, then, workers, term, deaf, gaveUp, failed, seen, paused, pauses, runRow>>

\* `store run pause` and `store run resume`: a run with no row is refused.
PauseRun(h) ==
  /\ runRow[h] # "absent"
  /\ h \notin paused
  /\ pauses < MaxPauses
  /\ paused' = paused \cup {h}
  /\ pauses' = pauses + 1
  /\ UNCHANGED <<leaseVars, drv, then, hb, workers, term, deaf, gaveUp, failed, seen, runRow>>

ResumeRun(h) ==
  /\ h \in paused
  /\ paused' = paused \ {h}
  /\ UNCHANGED <<leaseVars, drv, then, hb, workers, term, deaf, gaveUp, failed, seen, pauses, runRow>>

Time == Tick /\ UNCHANGED runVars

LeasedRunNext ==
  \/ \E p \in Proc :
       \/ DriverStep(p)
       \/ Sigterm(p)
       \/ Kill(p)
       \/ WorkerStops(p)
       \/ Beat(p)
       \/ HeartbeatStops(p)
  \/ \E h \in Holder : PauseRun(h) \/ ResumeRun(h)
  \/ Time

LeasedRunSpec == LeasedRunInit /\ [][LeasedRunNext]_vars

\* The main thread is never stuck: every store call returns or raises.
FairDrivers == \A p \in Proc : WF_vars(DriverStep(p))

FairRunSpec == LeasedRunSpec /\ FairDrivers

----------------------------------------------------------------------------
(* Properties *)

Writes(p) == drv[p] \in Guarded /\ drv'[p] = "running"

\* The process was granted the lease and nobody of its own name was granted it since.
SoleOfItsName(p) ==
  \A g \in grants : HolderOf[g[1]] = HolderOf[p] => g[2] <= held[p]

InTime(p) == now + MaxLag < seen[p] /\ SoleOfItsName(p)

\* A write that lands before the expiry its fence saw, less the clock's lag, is the
\* leader's: within that time no other run can have taken over, although fence and write
\* are separate statements.  (The lag counts because a renewal that is late with its
\* reading moves the expiry back.)
FencedWriteInTime ==
  [][\A p \in Proc : Writes(p) /\ InTime(p) => row.epoch = held[p]]_vars

\* The inductive invariant behind it: while it is in time, a process past its fence still
\* has the row, for at least as long as the fence saw, less the lag.
Backed(p) == held[p] > 0 /\ row.epoch = held[p] /\ row.expires >= seen[p] - MaxLag

SeenIsBacked == \A p \in Proc : InTime(p) => Backed(p)

\* What it rests on: only a process on its way to a guarded step remembers an expiry;
\* nothing is remembered and nothing is granted for longer than Ttl; the row is under the
\* name of the process it was granted to; and no run steals.
SeenOnTheWay ==
  \A p \in Proc : seen[p] # Past =>
    \/ drv[p] \in Guarded \cup {"recheck", "clear"}
    \/ drv[p] \in Wait /\ then[p] = "execute"

WithinTtl ==
  /\ row.expires <= now + Ttl
  /\ \A p \in Proc : seen[p] <= now + Ttl

RowIsNamed ==
  \A p \in Proc : held[p] > 0 /\ held[p] = row.epoch => row.holder = HolderOf[p]

NoSteals == \A p \in Proc : ~call[p].steal

FenceInv ==
  /\ LeaseInv
  /\ drv \in [Proc -> Drv]
  /\ then \in [Proc -> {"none", "fanout", "execute"}]
  /\ seen \in [Proc -> Int]
  /\ SeenOnTheWay
  /\ WithinTtl
  /\ RowIsNamed
  /\ NoSteals
  /\ SeenIsBacked

\* What a wait outlasted is not executed: a run that lost its lease in the pause wait does
\* not go on to the write it was waiting for.
LostWaitExecutesNothing ==
  [][\A p \in Proc : drv[p] = "recheck" /\ row.epoch # held[p] => drv'[p] # "guarded"]_vars

\* A lease that was given back is taken while no worker of the run that gave it back is
\* alive, unless that run waited for them in vain.
SuccessorStartsAlone ==
  [][\A p \in Proc :
       /\ row'.epoch # row.epoch
       /\ held[p] = row.epoch
       /\ row.epoch \in released
       => ~workers[p] \/ gaveUp[p]]_vars

\* The lease is not in the way of a successor.
Freed(p) == row.epoch # held[p] \/ row.expires <= now

\* A run that is told to stop while it works or waits ends with its row stamped and its
\* lease free, unless it is killed or the store fails it: the heartbeat does not keep the
\* lease, and a second signal does not cut the exit short.
StoppedRunFreesLease ==
  \A p \in Proc :
    (drv[p] = "clearing" /\ deaf[p])
      ~> /\ drv[p] = "done"
         /\ held[p] = 0 \/ failed[p] \/ (runRow[HolderOf[p]] = "ended" /\ Freed(p))

\* A paused run that lost its lease does not wait for a resume that may never come.
OvertakenWaitEnds ==
  \A p \in Proc :
    (drv[p] = "polling" /\ row.epoch # held[p])
      ~> (drv[p] \notin Wait \/ HolderOf[p] \notin paused)

\* Every lease step of a run is one of Lease's.
ImplementsLease == LeaseSpec

----------------------------------------------------------------------------
(* Claims of the repository that the code does not keep *)

\* "Every leader write calls this immediately before it writes", and a stale leader records
\* no attempt: a quarantine's write lands only under the current epoch.
NoStaleAttempt ==
  [][\A p \in Proc : drv[p] = "judging" /\ Writes(p) => row.epoch = held[p]]_vars
=============================================================================
