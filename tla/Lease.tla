------------------------------- MODULE Lease -------------------------------
(***************************************************************************)
(* harness/store_lease.py: one row of the `leases` table, fenced by an     *)
(* epoch.  Each SQL statement is one step; the statements of `acquire` can *)
(* interleave with those of other processes, as they do under Postgres     *)
(* (BEGIN is read committed there; under SQLite BEGIN IMMEDIATE allows a   *)
(* subset of these behaviours).  A statement that wrote the row holds its  *)
(* row lock until COMMIT, so a winning statement and the COMMIT are one    *)
(* step.                                                                   *)
(*                                                                         *)
(* Time is an argument of every call.  A caller reads its clock before the *)
(* call, so a statement may run with a `now` that is up to MaxLag behind   *)
(* the clock; `acquire` keeps the one it began with, however late its      *)
(* statements run.                                                         *)
(***************************************************************************)
EXTENDS Integers, FiniteSets

CONSTANTS
  Proc,      \* operating-system processes that use the lease
  Holder,    \* the names they hold it under (run ids)
  HolderOf,  \* the name of each process; a relaunched run keeps its name
  NoProc,    \* not a process
  NoHolder,  \* not a name: the holder of a row that does not exist yet
  Ttl,       \* seconds a grant or a renewal lasts
  MaxLag,    \* how far a caller's clock reading may be behind
  MaxTime,   \* bound: the clock stops here
  MaxEpoch   \* bound: no acquire begins once this epoch is reached

ASSUME LeaseAssumption ==
  /\ HolderOf \in [Proc -> Holder]
  /\ NoProc \notin Proc
  /\ NoHolder \notin Holder
  /\ Ttl \in Nat \ {0}
  /\ MaxLag \in Nat
  /\ MaxTime \in Nat
  /\ MaxEpoch \in Nat

VARIABLES
  now,      \* the true time
  row,      \* the leases row; epoch 0 says there is none
  call,     \* per process, the acquire in progress
  held,     \* per process, the epoch its last successful acquire returned, or 0
  grants,   \* history: every <<process, epoch>> a successful acquire returned
  released  \* history: every epoch a successful release gave back

leaseVars == <<now, row, call, held, grants, released>>

Past == 0                     \* _PAST: before every clock reading
Step == {"idle", "take", "insert", "read", "steal"}
Status == {"none", "paused"}
Times == 1..MaxTime

Row == [holder : Holder \cup {NoHolder}, epoch : Nat, expires : Int, status : Status]
NoRow == [holder |-> NoHolder, epoch |-> 0, expires |-> Past, status |-> "none"]
RowExists == row.epoch > 0

Idle == [step |-> "idle", at |-> Past, steal |-> FALSE, seen |-> 0]

LeaseTypeOK ==
  /\ now \in Nat /\ now >= 1
  /\ row \in Row
  /\ call \in [Proc -> [step : Step, at : Nat, steal : BOOLEAN, seen : Nat]]
  /\ held \in [Proc -> Nat]
  /\ grants \in SUBSET (Proc \X Nat)
  /\ released \in SUBSET Nat

LeaseInit ==
  /\ now = 1
  /\ row = NoRow
  /\ call = [p \in Proc |-> Idle]
  /\ held = [p \in Proc |-> 0]
  /\ grants = {}
  /\ released = {}

\* The readings a process may take from its clock: never before the first second.
Readings == {t \in (now - MaxLag)..now : t >= 1}

\* Mutant: the fence also admits an epoch that was overtaken.
AssertEpochAtMost(e, at) ==
  /\ RowExists
  /\ row.epoch >= e
  /\ row.expires > at

\* assert_epoch, the fence: the stored epoch is `e` and the row is unexpired at `at`.
AssertEpoch(e, at) ==
  /\ RowExists
  /\ row.epoch = e
  /\ row.expires > at

----------------------------------------------------------------------------
(* acquire *)

\* The call starts: the clock is read once, for every statement of the call.
BeginAcquire(p, steal) ==
  /\ call[p].step = "idle"
  /\ row.epoch < MaxEpoch
  /\ \E at \in Readings :
       call' = [call EXCEPT ![p] = [step |-> "take", at |-> at, steal |-> steal, seen |-> 0]]
  /\ UNCHANGED <<now, row, held, grants, released>>

\* A statement that wrote the row, its COMMIT, and the result the caller gets.
Granted(p, stored, returned) ==
  /\ row' = [holder |-> HolderOf[p], epoch |-> stored,
             expires |-> call[p].at + Ttl, status |-> "none"]
  /\ held' = [held EXCEPT ![p] = returned]
  /\ grants' = grants \cup {<<p, returned>>}
  /\ call' = [call EXCEPT ![p] = Idle]
  /\ UNCHANGED <<now, released>>

GoTo(p, step) ==
  /\ call' = [call EXCEPT ![p].step = step]
  /\ UNCHANGED <<now, row, held, grants, released>>

\* Mutant: a holder that acquires again only extends its row, at the epoch it has.
TakeKeepsOwnEpoch(p) ==
  /\ call[p].step = "take"
  /\ IF RowExists /\ row.expires <= call[p].at
     THEN Granted(p, row.epoch + 1, row.epoch + 1)
     ELSE IF RowExists /\ row.holder = HolderOf[p]
          THEN Granted(p, row.epoch, row.epoch)
          ELSE GoTo(p, "insert")

\* _TAKE: a row that is expired at the caller's reading, or already under its name.
Take(p) ==
  /\ call[p].step = "take"
  /\ IF RowExists /\ (row.expires <= call[p].at \/ row.holder = HolderOf[p])
     THEN Granted(p, row.epoch + 1, row.epoch + 1)
     ELSE GoTo(p, "insert")

\* Mutant: the insert overwrites the row on conflict.
InsertOverwrites(p) ==
  /\ call[p].step = "insert"
  /\ Granted(p, row.epoch + 1, row.epoch + 1)

\* insert_ignore: the first row has epoch 1; a row that is there is left alone.
Insert(p) ==
  /\ call[p].step = "insert"
  /\ IF RowExists THEN GoTo(p, "read") ELSE Granted(p, 1, 1)

\* The row as it is now: what a refusal reports and what a steal is made on.
Read(p) ==
  /\ call[p].step = "read"
  /\ call' = [call EXCEPT ![p] = IF @.steal
                                 THEN [step |-> "steal", at |-> @.at,
                                       steal |-> TRUE, seen |-> row.epoch]
                                 ELSE Idle]
  /\ UNCHANGED <<now, row, held, grants, released>>

\* Mutant: the steal names no epoch in its WHERE.
StealBlind(p) ==
  /\ call[p].step = "steal"
  /\ Granted(p, row.epoch + 1, call[p].seen + 1)

\* _STEAL: the caller replaces the holder it saw, at the next epoch, or is refused.
Steal(p) ==
  /\ call[p].step = "steal"
  /\ IF row.epoch = call[p].seen
     THEN Granted(p, row.epoch + 1, call[p].seen + 1)
     ELSE /\ call' = [call EXCEPT ![p] = Idle]
          /\ UNCHANGED <<now, row, held, grants, released>>

----------------------------------------------------------------------------
(* renew, release, and what happens around them *)

\* Mutant: a renewal does not look at the expiry.
RenewsExpired(p, e, at) ==
  /\ row.holder = HolderOf[p]
  /\ row.epoch = e

\* The rows _RENEW and _RENEW_KEEP match: live, of this name and epoch.
Renews(p, e, at) ==
  /\ row.holder = HolderOf[p]
  /\ row.epoch = e
  /\ row.expires > at

\* The status column: the _KEEP sentinel leaves it as it is, any other value is written.
StatusAfter(status, old) == IF status = "keep" THEN old ELSE status

\* renew: the row lasts Ttl from the caller's reading.
Renew(p, status) ==
  /\ held[p] > 0
  /\ \E at \in Readings :
       /\ Renews(p, held[p], at)
       /\ row' = [row EXCEPT !.expires = at + Ttl,
                             !.status = StatusAfter(status, @)]
  /\ UNCHANGED <<now, call, held, grants, released>>

\* _RELEASE: this name's row at this epoch expires in the past.  The process goes on
\* to exit, but its heartbeat thread may still be inside a store call, so `held` stays.
Release(p) ==
  /\ held[p] > 0
  /\ row.holder = HolderOf[p]
  /\ row.epoch = held[p]
  /\ row' = [row EXCEPT !.expires = Past]
  /\ released' = released \cup {held[p]}
  /\ UNCHANGED <<now, call, held, grants>>

\* The process dies; a transaction it has open is rolled back and the row stays.
Crash(p) ==
  /\ held[p] > 0 \/ call[p].step # "idle"
  /\ held' = [held EXCEPT ![p] = 0]
  /\ call' = [call EXCEPT ![p] = Idle]
  /\ UNCHANGED <<now, row, grants, released>>

Tick ==
  /\ now < MaxTime
  /\ now' = now + 1
  /\ UNCHANGED <<row, call, held, grants, released>>

LeaseNext ==
  \/ \E p \in Proc :
       \/ \E steal \in BOOLEAN : BeginAcquire(p, steal)
       \/ Take(p)
       \/ Insert(p)
       \/ Read(p)
       \/ Steal(p)
       \/ \E status \in {"keep"} \cup Status : Renew(p, status)
       \/ Release(p)
       \/ Crash(p)
  \/ Tick

LeaseSpec == LeaseInit /\ [][LeaseNext]_leaseVars

----------------------------------------------------------------------------
(* Properties *)

\* No epoch is ever returned to two processes, whatever statements of their acquires
\* interleave: first inserts, takeovers of an expired row, two steals at once, the
\* same run id launched twice.
UniqueGrants ==
  \A g, h \in grants : g[2] = h[2] => g[1] = h[1]

\* A grant that passes the fence, at any reading, is the newest one: a deposed
\* process never passes it, although the fence compares no holder.
FencedIsNewest ==
  \A g \in grants, t \in Times :
    AssertEpoch(g[2], t) => \A h \in grants : h[2] <= g[2]

\* An epoch that was given back never passes the fence again: a heartbeat whose renewal
\* is still in a store call when the run releases does not revive the lease.
ReleasedIsDead ==
  \A e \in released, t \in Times : ~AssertEpoch(e, t)

\* The inductive invariant behind the three: grants are numbered up to the row's epoch,
\* each once; a process holds only what it was granted; an epoch that was given back is
\* either overtaken or the row is expired for every clock; a call's reading is not ahead
\* of the clock, and only a call that asked for a steal gets to that statement.
GrantsBelowRow == \A g \in grants : 1 <= g[2] /\ g[2] <= row.epoch

HeldIsGranted == \A p \in Proc : held[p] > 0 => <<p, held[p]>> \in grants

ReleasedIsPast ==
  \A e \in released : e <= row.epoch /\ (e = row.epoch => row.expires = Past)

CallsArePast ==
  \A p \in Proc : call[p].at <= now /\ (call[p].step = "steal" => call[p].steal)

LeaseInv ==
  /\ LeaseTypeOK
  /\ GrantsBelowRow
  /\ UniqueGrants
  /\ HeldIsGranted
  /\ ReleasedIsPast
  /\ CallsArePast

\* Only a steal takes the row from another name while it is unexpired.
NoSilentTakeover ==
  [][\A p \in Proc :
       /\ row'.epoch # row.epoch
       /\ row'.epoch = held'[p]
       /\ RowExists
       /\ row.holder # HolderOf[p]
       => row.expires <= now \/ call[p].steal]_leaseVars

\* Refinement of LeaderEpoch.  A process leads while the row is at the epoch it was
\* given and some caller's clock may still find it unexpired.
Leads(p) ==
  /\ held[p] > 0
  /\ held[p] = row.epoch
  /\ row.expires > now - MaxLag
  /\ row.expires > Past

Leader == IF \E p \in Proc : Leads(p) THEN CHOOSE p \in Proc : Leads(p) ELSE NoProc

Abstract == INSTANCE LeaderEpoch WITH leader <- Leader, epoch <- row.epoch

\* The row, its conditional statements and the callers' clocks keep the abstract promise.
ImplementsLeaderEpoch == Abstract!LeaderSpec
=============================================================================
