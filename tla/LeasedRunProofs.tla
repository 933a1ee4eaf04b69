------------------------- MODULE LeasedRunProofs ----------------------------
(***************************************************************************)
(* Proofs about Lease and LeasedRun, for every set of processes or runs,   *)
(* every naming of them, every ttl, clock lag and bound.  Each step of a   *)
(* run is a step of Lease, and a guarded write that is in time is the      *)
(* leader's.                                                               *)
(***************************************************************************)
EXTENDS LeasedRun, TLAPS

USE LeaseAssumption

\* The initial state: no row, nobody holds, nothing was granted.
LEMMA InitInv == LeaseInit => LeaseInv
  BY DEF LeaseInit, LeaseInv, LeaseTypeOK, GrantsBelowRow, UniqueGrants, HeldIsGranted,
         ReleasedIsPast, CallsArePast, Row, NoRow, Idle, Step, Status, Past

\* A grant at the row's epoch + 1 keeps the invariant: the new epoch is above all others.
LEMMA GrantedInv ==
  ASSUME LeaseInv, NEW p \in Proc, Granted(p, row.epoch + 1, row.epoch + 1)
  PROVE  LeaseInv'
<1> DEFINE e == row.epoch + 1
<1> USE DEF LeaseInv
<1>1. row.epoch \in Nat /\ e \in Nat /\ e > row.epoch /\ row'.epoch = e
  BY DEF LeaseTypeOK, Row, Granted
<1>2. grants' = grants \cup {<<p, e>>} /\ held' = [held EXCEPT ![p] = e]
  BY DEF Granted
<1>3. LeaseTypeOK'
  BY <1>1, <1>2 DEF LeaseTypeOK, Granted, Row, Idle, Step, Status, Past
<1>4. GrantsBelowRow'
  BY <1>1, <1>2 DEF GrantsBelowRow, LeaseTypeOK
<1>5. UniqueGrants'
  <2> SUFFICES ASSUME NEW g \in grants', NEW h \in grants', g[2] = h[2]
               PROVE  g[1] = h[1]
    BY DEF UniqueGrants
  <2>1. \A k \in grants : k[2] < e
    BY <1>1 DEF GrantsBelowRow, LeaseTypeOK
  <2>2. CASE g \in grants /\ h \in grants
    BY <2>2 DEF UniqueGrants
  <2>3. CASE g = <<p, e>> \/ h = <<p, e>>
    BY <1>2, <2>1, <2>3, <1>1 DEF LeaseTypeOK
  <2> QED
    BY <1>2, <2>2, <2>3
<1>6. HeldIsGranted'
  BY <1>2 DEF HeldIsGranted, LeaseTypeOK
<1>7. ReleasedIsPast'
  BY <1>1 DEF ReleasedIsPast, LeaseTypeOK, Granted
<1>8. CallsArePast'
  BY DEF CallsArePast, LeaseTypeOK, Granted, Idle, Past
<1> QED
  BY <1>3, <1>4, <1>5, <1>6, <1>7, <1>8

\* A step that changes only the calls keeps the invariant if the calls stay well-formed.
LEMMA CallStepInv ==
  ASSUME LeaseInv, UNCHANGED <<now, row, held, grants, released>>,
         call' \in [Proc -> [step : Step, at : Nat, steal : BOOLEAN, seen : Nat]],
         CallsArePast'
  PROVE  LeaseInv'
  BY DEF LeaseInv, LeaseTypeOK, GrantsBelowRow, UniqueGrants, HeldIsGranted, ReleasedIsPast

\* Every step keeps the invariant.
LEMMA NextInv == LeaseInv /\ [LeaseNext]_leaseVars => LeaseInv'
<1> SUFFICES ASSUME LeaseInv, [LeaseNext]_leaseVars
             PROVE  LeaseInv'
  OBVIOUS
<1>1. LeaseTypeOK /\ CallsArePast
  BY DEF LeaseInv
<1>2. ASSUME NEW p \in Proc, NEW steal \in BOOLEAN, BeginAcquire(p, steal)
      PROVE  LeaseInv'
  <2>1. PICK at \in Readings :
          call' = [call EXCEPT ![p] = [step |-> "take", at |-> at, steal |-> steal, seen |-> 0]]
    BY <1>2 DEF BeginAcquire
  <2>2. at \in Nat /\ at <= now
    BY <1>1 DEF Readings, LeaseTypeOK
  <2>3. call' \in [Proc -> [step : Step, at : Nat, steal : BOOLEAN, seen : Nat]]
    BY <1>1, <2>1, <2>2 DEF LeaseTypeOK, Step
  <2>4. CallsArePast'
    BY <1>1, <1>2, <2>1, <2>2 DEF CallsArePast, LeaseTypeOK, BeginAcquire
  <2> QED
    BY <1>2, <2>3, <2>4, CallStepInv DEF BeginAcquire
<1>3. ASSUME NEW p \in Proc, NEW s \in {"insert", "read"}, GoTo(p, s)
      PROVE  LeaseInv'
  <2>1. call' \in [Proc -> [step : Step, at : Nat, steal : BOOLEAN, seen : Nat]]
    BY <1>1, <1>3 DEF LeaseTypeOK, Step, GoTo
  <2>2. CallsArePast'
    BY <1>1, <1>3 DEF CallsArePast, LeaseTypeOK, GoTo
  <2> QED
    BY <1>3, <2>1, <2>2, CallStepInv DEF GoTo
<1>4. ASSUME NEW p \in Proc, call' = [call EXCEPT ![p] = Idle],
             UNCHANGED <<now, row, held, grants, released>>
      PROVE  LeaseInv'
  <2>1. call' \in [Proc -> [step : Step, at : Nat, steal : BOOLEAN, seen : Nat]]
    BY <1>1, <1>4 DEF LeaseTypeOK, Step, Idle, Past
  <2>2. CallsArePast'
    BY <1>1, <1>4 DEF CallsArePast, LeaseTypeOK, Idle, Past
  <2> QED
    BY <1>4, <2>1, <2>2, CallStepInv
<1>5. ASSUME NEW p \in Proc, Take(p)
      PROVE  LeaseInv'
  BY <1>3, <1>5, GrantedInv DEF Take
<1>6. ASSUME NEW p \in Proc, Insert(p)
      PROVE  LeaseInv'
  <2>1. CASE RowExists
    BY <1>3, <1>6, <2>1 DEF Insert
  <2>2. CASE ~RowExists
    <3>1. row.epoch = 0
      BY <1>1, <2>2 DEF LeaseTypeOK, Row, RowExists
    <3> QED
      BY <1>6, <2>2, <3>1, GrantedInv DEF Insert
  <2> QED
    BY <2>1, <2>2
<1>7. ASSUME NEW p \in Proc, Read(p)
      PROVE  LeaseInv'
  <2>1. CASE call[p].steal
    <3>1. call' = [call EXCEPT ![p] = [step |-> "steal", at |-> call[p].at,
                                       steal |-> TRUE, seen |-> row.epoch]]
      BY <1>7, <2>1 DEF Read
    <3>2. call' \in [Proc -> [step : Step, at : Nat, steal : BOOLEAN, seen : Nat]]
      BY <1>1, <3>1 DEF LeaseTypeOK, Step, Row
    <3>3. CallsArePast'
      BY <1>1, <1>7, <2>1, <3>1 DEF CallsArePast, LeaseTypeOK, Read
    <3> QED
      BY <1>7, <3>2, <3>3, CallStepInv DEF Read
  <2>2. CASE ~call[p].steal
    BY <1>4, <1>7, <2>2 DEF Read
  <2> QED
    BY <2>1, <2>2
<1>8. ASSUME NEW p \in Proc, Steal(p)
      PROVE  LeaseInv'
  BY <1>4, <1>8, GrantedInv DEF Steal
<1>9. ASSUME NEW p \in Proc, NEW status \in {"keep"} \cup Status, Renew(p, status)
      PROVE  LeaseInv'
  <2>1. PICK at \in Readings :
          /\ Renews(p, held[p], at)
          /\ row' = [row EXCEPT !.expires = at + Ttl,
                                !.status = StatusAfter(status, row.status)]
    BY <1>9 DEF Renew
  <2>2. at \in Nat /\ at >= 1
    BY <1>1 DEF Readings, LeaseTypeOK
  <2>3. LeaseTypeOK'
    <3>1. at + Ttl \in Int /\ StatusAfter(status, row.status) \in Status
      BY <1>1, <2>2 DEF LeaseTypeOK, Row, Status, StatusAfter
    <3>2. row' \in Row
      BY <1>1, <2>1, <3>1 DEF LeaseTypeOK, Row
    <3> QED
      BY <1>1, <1>9, <3>2 DEF LeaseTypeOK, Renew
  <2>4. row'.epoch = row.epoch
    BY <1>1, <2>1 DEF LeaseTypeOK, Row
  <2>5. ReleasedIsPast'
    BY <1>1, <1>9, <2>1, <2>2, <2>4
    DEF ReleasedIsPast, LeaseInv, LeaseTypeOK, Renew, Renews, Past, Row
  <2> QED
    BY <1>9, <2>3, <2>4, <2>5
    DEF LeaseInv, Renew, GrantsBelowRow, UniqueGrants, HeldIsGranted, CallsArePast
<1>10. ASSUME NEW p \in Proc, Release(p)
       PROVE  LeaseInv'
  <2>1. LeaseTypeOK'
    BY <1>1, <1>10 DEF LeaseTypeOK, Release, Row, Past
  <2>2. row'.epoch = row.epoch /\ row'.expires = Past
    BY <1>1, <1>10 DEF LeaseTypeOK, Row, Release
  <2>3. ReleasedIsPast'
    BY <1>1, <1>10, <2>2 DEF ReleasedIsPast, LeaseInv, LeaseTypeOK, Release, Row
  <2> QED
    BY <1>10, <2>1, <2>2, <2>3
    DEF LeaseInv, Release, GrantsBelowRow, UniqueGrants, HeldIsGranted, CallsArePast
<1>11. ASSUME NEW p \in Proc, Crash(p)
       PROVE  LeaseInv'
  BY <1>11
  DEF LeaseInv, Crash, LeaseTypeOK, GrantsBelowRow, UniqueGrants, HeldIsGranted,
      ReleasedIsPast, CallsArePast, Idle, Step, Past
<1>12. CASE Tick
  BY <1>12
  DEF LeaseInv, Tick, LeaseTypeOK, GrantsBelowRow, UniqueGrants, HeldIsGranted,
      ReleasedIsPast, CallsArePast
<1>13. CASE UNCHANGED leaseVars
  BY <1>13
  DEF LeaseInv, leaseVars, LeaseTypeOK, GrantsBelowRow, UniqueGrants, HeldIsGranted,
      ReleasedIsPast, CallsArePast
<1> QED
  BY <1>2, <1>5, <1>6, <1>7, <1>8, <1>9, <1>10, <1>11, <1>12, <1>13 DEF LeaseNext

\* The inductive invariant holds in every state.
THEOREM LeaseInvariant == LeaseSpec => []LeaseInv
  BY InitInv, NextInv, PTL DEF LeaseSpec

\* Type correctness of the lease.
THEOREM LeaseTypeCorrect == LeaseSpec => []LeaseTypeOK
<1>1. LeaseInv => LeaseTypeOK
  BY DEF LeaseInv
<1> QED
  BY <1>1, LeaseInvariant, PTL

\* No epoch is granted to two processes: acquire, store_lease.py.
THEOREM GrantsAreUnique == LeaseSpec => []UniqueGrants
<1>1. LeaseInv => UniqueGrants
  BY DEF LeaseInv
<1> QED
  BY <1>1, LeaseInvariant, PTL

\* Whatever passes the fence is the newest grant: assert_epoch, store_lease.py.
THEOREM FenceAdmitsNewest == LeaseSpec => []FencedIsNewest
<1>1. LeaseInv => FencedIsNewest
  BY DEF LeaseInv, FencedIsNewest, GrantsBelowRow, AssertEpoch
<1> QED
  BY <1>1, LeaseInvariant, PTL

\* A released epoch never passes the fence again: release and renew, store_lease.py.
THEOREM ReleasedStaysDead == LeaseSpec => []ReleasedIsDead
<1>1. LeaseInv => ReleasedIsDead
  <2> SUFFICES ASSUME LeaseInv, NEW e \in released, NEW t \in Times, AssertEpoch(e, t)
               PROVE  FALSE
    BY DEF ReleasedIsDead
  <2> QED
    BY DEF LeaseInv, ReleasedIsPast, AssertEpoch, Times, Past
<1> QED
  BY <1>1, LeaseInvariant, PTL

----------------------------------------------------------------------------
(* Takeovers *)

\* No process holds an epoch above the row's.
LEMMA HeldBelowRow ==
  ASSUME LeaseInv, NEW p \in Proc
  PROVE  row.epoch \in Nat /\ held[p] \in Nat /\ held[p] <= row.epoch
<1>1. row.epoch \in Nat /\ held[p] \in Nat
  BY DEF LeaseInv, LeaseTypeOK, Row
<1>2. CASE held[p] > 0
  <2>1. <<p, held[p]>> \in grants
    BY <1>2 DEF LeaseInv, HeldIsGranted
  <2>2. <<p, held[p]>>[2] <= row.epoch
    BY <2>1 DEF LeaseInv, GrantsBelowRow
  <2> QED
    BY <1>1, <2>2
<1> QED
  BY <1>1, <1>2

\* What every step does to the epoch: it stays, or one process is granted the next one.
LEMMA EpochSteps ==
  ASSUME LeaseInv, [LeaseNext]_leaseVars
  PROVE  \/ row'.epoch = row.epoch
         \/ \E p \in Proc :
              /\ Granted(p, row.epoch + 1, row.epoch + 1)
              /\ \/ ~RowExists
                 \/ row.holder = HolderOf[p]
                 \/ row.expires <= now
                 \/ call[p].steal
<1>1. row \in Row /\ now \in Nat /\ call \in [Proc -> [step : Step, at : Nat, steal : BOOLEAN, seen : Nat]]
  BY DEF LeaseInv, LeaseTypeOK
<1>2. ASSUME NEW p \in Proc, Take(p), row'.epoch # row.epoch
      PROVE  /\ Granted(p, row.epoch + 1, row.epoch + 1)
             /\ row.holder = HolderOf[p] \/ row.expires <= now
  <2>1. call[p].at <= now /\ call[p].at \in Nat
    BY <1>1 DEF LeaseInv, CallsArePast
  <2> QED
    BY <1>1, <1>2, <2>1 DEF Take, GoTo, Row
<1>3. ASSUME NEW p \in Proc, Insert(p), row'.epoch # row.epoch
      PROVE  ~RowExists /\ Granted(p, row.epoch + 1, row.epoch + 1)
  BY <1>1, <1>3 DEF Insert, GoTo, RowExists, Row
<1>4. ASSUME NEW p \in Proc, Steal(p), row'.epoch # row.epoch
      PROVE  call[p].steal /\ Granted(p, row.epoch + 1, row.epoch + 1)
  BY <1>4 DEF Steal, LeaseInv, CallsArePast
<1>5. ASSUME NEW p \in Proc, NEW status \in {"keep"} \cup Status, Renew(p, status)
      PROVE  row'.epoch = row.epoch
  BY <1>1, <1>5 DEF Renew, Row
<1>6. ASSUME NEW p \in Proc, Release(p)
      PROVE  row'.epoch = row.epoch
  BY <1>1, <1>6 DEF Release, Row
<1> QED
  BY <1>2, <1>3, <1>4, <1>5, <1>6
  DEF LeaseNext, leaseVars, BeginAcquire, Read, Crash, Tick

\* Only a steal takes an unexpired row from another name: acquire, store_lease.py.
THEOREM TakeoversAreExpiryOrSteal == LeaseSpec => NoSilentTakeover
<1>1. LeaseInv /\ [LeaseNext]_leaseVars
        => [\A p \in Proc :
              /\ row'.epoch # row.epoch
              /\ row'.epoch = held'[p]
              /\ RowExists
              /\ row.holder # HolderOf[p]
              => row.expires <= now \/ call[p].steal]_leaseVars
  <2> SUFFICES ASSUME LeaseInv, [LeaseNext]_leaseVars, NEW p \in Proc,
                      row'.epoch # row.epoch, row'.epoch = held'[p],
                      RowExists, row.holder # HolderOf[p]
               PROVE  row.expires <= now \/ call[p].steal
    OBVIOUS
  <2>1. PICK q \in Proc :
          /\ Granted(q, row.epoch + 1, row.epoch + 1)
          /\ \/ row.holder = HolderOf[q]
             \/ row.expires <= now
             \/ call[q].steal
    BY EpochSteps
  <2>2. row.epoch \in Nat /\ held \in [Proc -> Nat] /\ held[p] <= row.epoch
    BY HeldBelowRow DEF LeaseInv, LeaseTypeOK
  <2>3. p = q
    BY <2>1, <2>2 DEF Granted
  <2> QED
    BY <2>1, <2>3
<1> QED
  BY <1>1, LeaseInvariant, PTL DEF LeaseSpec, NoSilentTakeover

----------------------------------------------------------------------------
(* Refinement *)

\* At most one process leads.
LEMMA OneLeader ==
  ASSUME LeaseInv, NEW p \in Proc, Leads(p)
  PROVE  Leader = p
<1>1. \A q \in Proc : Leads(q) => q = p
  BY DEF LeaseInv, HeldIsGranted, UniqueGrants, Leads
<1> QED
  BY <1>1 DEF Leader

LEMMA NoLeader ==
  ASSUME \A p \in Proc : ~Leads(p)
  PROVE  Leader = NoProc
  BY DEF Leader

\* The same two facts about the next state.
LEMMA OneLeaderNext ==
  ASSUME LeaseInv', NEW p \in Proc, Leads(p)'
  PROVE  Leader' = p
<1>1. \A q \in Proc : Leads(q)' => q = p
  BY DEF LeaseInv, HeldIsGranted, UniqueGrants, Leads
<1> QED
  BY <1>1 DEF Leader

LEMMA NoLeaderNext ==
  ASSUME \A p \in Proc : ~Leads(p)'
  PROVE  Leader' = NoProc
  BY DEF Leader

\* A step that keeps the epoch makes nobody lead: it keeps the leader or ends the term.
LEMMA LeadersOnlyLeave ==
  ASSUME LeaseInv, LeaseInv', row'.epoch = row.epoch,
         \A p \in Proc : Leads(p)' => Leads(p)
  PROVE  Abstract!StepDown \/ UNCHANGED <<Leader, row.epoch>>
<1>1. CASE \E p \in Proc : Leads(p)'
  BY <1>1, OneLeader, OneLeaderNext
<1>2. CASE ~\E p \in Proc : Leads(p)'
  BY <1>2, NoLeaderNext DEF Abstract!StepDown
<1> QED
  BY <1>1, <1>2

\* Steps that keep the epoch elect nobody: a renewal needs a lease that still leads.
LEMMA KeptEpochKeepsLeaders ==
  ASSUME LeaseInv, [LeaseNext]_leaseVars, row'.epoch = row.epoch
  PROVE  \A p \in Proc : Leads(p)' => Leads(p)
<1> SUFFICES ASSUME NEW q \in Proc, Leads(q)'
             PROVE  Leads(q)
  OBVIOUS
<1>1. /\ row \in Row /\ now \in Nat /\ held \in [Proc -> Nat]
      /\ row.epoch \in Nat /\ row.expires \in Int /\ MaxLag \in Nat
  BY DEF LeaseInv, LeaseTypeOK, Row
<1>2. ASSUME NEW p \in Proc, NEW e \in {row.epoch + 1, 1}, Granted(p, e, e)
      PROVE  row'.epoch = e
  BY <1>2 DEF Granted
<1>3. ASSUME UNCHANGED <<now, row, held>>
      PROVE  Leads(q)
  BY <1>3 DEF Leads
<1>4. ASSUME NEW p \in Proc, NEW status \in {"keep"} \cup Status, Renew(p, status)
      PROVE  Leads(q)
  <2>1. PICK at \in Readings : Renews(p, held[p], at)
    BY <1>4 DEF Renew
  <2>2. held' = held /\ now' = now /\ held[p] = row.epoch /\ held[p] > 0
    BY <1>4, <2>1 DEF Renew, Renews
  <2>3. row.expires > now - MaxLag /\ row.expires > Past
    BY <1>1, <2>1 DEF Renews, Readings, Past
  <2> QED
    BY <2>2, <2>3 DEF Leads
<1>5. ASSUME NEW p \in Proc, Release(p)
      PROVE  FALSE
  BY <1>1, <1>5 DEF Release, Leads, Past, Row
<1>6. ASSUME NEW p \in Proc, Crash(p)
      PROVE  Leads(q)
  BY <1>1, <1>6 DEF Crash, Leads
<1>7. CASE Tick
  BY <1>1, <1>7 DEF Tick, Leads
<1>8. ASSUME NEW p \in Proc, Take(p)
      PROVE  Leads(q)
  BY <1>1, <1>2, <1>3, <1>8 DEF Take, GoTo
<1>9. ASSUME NEW p \in Proc, Insert(p)
      PROVE  Leads(q)
  BY <1>1, <1>2, <1>3, <1>9 DEF Insert, GoTo, RowExists
<1>10. ASSUME NEW p \in Proc, Steal(p)
       PROVE  Leads(q)
  <2>1. row.epoch = call[p].seen => ~Granted(p, row.epoch + 1, call[p].seen + 1)
    BY <1>1, <1>2
  <2> QED
    BY <1>3, <1>10, <2>1 DEF Steal
<1> QED
  BY <1>3, <1>4, <1>5, <1>6, <1>7, <1>8, <1>9, <1>10
  DEF LeaseNext, leaseVars, BeginAcquire, Read

\* A grant is an election, of its process or of nobody.
LEMMA GrantsElect ==
  ASSUME LeaseInv, LeaseInv', NEW p \in Proc, Granted(p, row.epoch + 1, row.epoch + 1)
  PROVE  Abstract!Elect(p) \/ Abstract!ElectNobody
<1>1. row.epoch \in Nat /\ held \in [Proc -> Nat] /\ row'.epoch = row.epoch + 1
  BY DEF LeaseInv, LeaseTypeOK, Row, Granted
<1>2. \A q \in Proc : q # p => ~Leads(q)'
  <2> SUFFICES ASSUME NEW q \in Proc, q # p, Leads(q)'
               PROVE  FALSE
    OBVIOUS
  <2>1. held'[q] = held[q] /\ held[q] <= row.epoch
    BY <1>1, HeldBelowRow DEF Granted
  <2> QED
    BY <1>1, <2>1 DEF Leads
<1>3. CASE Leads(p)'
  BY <1>1, <1>3, OneLeaderNext DEF Abstract!Elect
<1>4. CASE ~Leads(p)'
  BY <1>1, <1>2, <1>4, NoLeaderNext DEF Abstract!ElectNobody
<1> QED
  BY <1>3, <1>4

\* The lease implements the abstract leader with epochs.
THEOREM LeaseImplementsLeaderEpoch == LeaseSpec => ImplementsLeaderEpoch
<1>1. LeaseInit => Abstract!LeaderInit
  <2> SUFFICES ASSUME LeaseInit
               PROVE  Abstract!LeaderInit
    OBVIOUS
  <2>1. \A p \in Proc : ~Leads(p)
    BY DEF LeaseInit, Leads
  <2> QED
    BY <2>1, NoLeader DEF LeaseInit, NoRow, Abstract!LeaderInit
<1>2. LeaseInv /\ LeaseInv' /\ [LeaseNext]_leaseVars
        => [Abstract!LeaderNext]_(Abstract!leaderVars)
  <2> SUFFICES ASSUME LeaseInv, LeaseInv', [LeaseNext]_leaseVars
               PROVE  [Abstract!LeaderNext]_(Abstract!leaderVars)
    OBVIOUS
  <2>1. CASE row'.epoch = row.epoch
    BY <2>1, KeptEpochKeepsLeaders, LeadersOnlyLeave
    DEF Abstract!LeaderNext, Abstract!leaderVars
  <2>2. CASE row'.epoch # row.epoch
    BY <2>2, EpochSteps, GrantsElect DEF Abstract!LeaderNext
  <2> QED
    BY <2>1, <2>2
<1> QED
  BY <1>1, <1>2, LeaseInvariant, PTL
  DEF LeaseSpec, ImplementsLeaderEpoch, Abstract!LeaderSpec

-----------------------------------------------------------------------------
(* The runs *)

\* Every step of a run, its threads, its human and its clock is a step of the lease.
LEMMA StepIsLeaseStep == [LeasedRunNext]_vars => [LeaseNext]_leaseVars
<1> SUFFICES ASSUME [LeasedRunNext]_vars
             PROVE  [LeaseNext]_leaseVars
  OBVIOUS
<1>1. ASSUME NEW p \in Proc, DriverStep(p)
      PROVE  [LeaseNext]_leaseVars
  <2>1. CASE Launch(p)
    BY <2>1 DEF Launch, LeaseNext
  <2>2. CASE AcquireStep(p)
    BY <2>2 DEF AcquireStep, LeaseNext
  <2>3. CASE AcquireFails(p)
    BY <2>3 DEF AcquireFails, LeaseNext
  <2>4. CASE Poll(p) \/ Wake(p)
    BY <2>4 DEF Poll, Wake, LeaseNext, Status
  <2>5. CASE EndLease(p)
    BY <2>5 DEF EndLease, LeaseNext
  <2>6. CASE \/ RefuseStart(p) \/ EnterSetup(p) \/ StartRun(p) \/ SetupFails(p)
             \/ Section(p) \/ BeginFanOut(p) \/ Recheck(p) \/ GuardedWrite(p)
             \/ JoinWorkers(p) \/ Finish(p) \/ ReadPause(p) \/ WaitFails(p)
    <3>1. UNCHANGED leaseVars
      BY <2>6 DEF RefuseStart, EnterSetup, StartRun, SetupFails, Section, BeginFanOut,
                  Recheck, GuardedWrite, JoinWorkers, Finish, ReadPause, WaitFails, Move, Fence
    <3> QED
      BY <3>1
  <2>7. CASE \/ ClearCheck(p) \/ ClearPause(p) \/ RecordExit(p) \/ StampEnd(p)
             \/ Quiet(p) \/ ExitFault(p) \/ Close(p)
    <3>1. UNCHANGED leaseVars
      BY <2>7 DEF ClearCheck, ClearPause, RecordExit, StampEnd, Quiet, ExitFault, Close, Fence
    <3> QED
      BY <3>1
  <2> QED
    BY <1>1, <2>1, <2>2, <2>3, <2>4, <2>5, <2>6, <2>7 DEF DriverStep
<1>2. ASSUME NEW p \in Proc,
             Sigterm(p) \/ Kill(p) \/ WorkerStops(p) \/ Beat(p) \/ HeartbeatStops(p)
      PROVE  [LeaseNext]_leaseVars
  <2>1. \/ UNCHANGED leaseVars
        \/ Crash(p)
        \/ Renew(p, "keep")
    BY <1>2 DEF Sigterm, Kill, WorkerStops, Beat, HeartbeatStops
  <2> QED
    BY <2>1 DEF LeaseNext
<1>3. ASSUME NEW h \in Holder, PauseRun(h) \/ ResumeRun(h)
      PROVE  UNCHANGED leaseVars
  BY <1>3 DEF PauseRun, ResumeRun
<1>4. CASE Time
  BY <1>4 DEF Time, LeaseNext
<1>5. CASE UNCHANGED vars
  BY <1>5 DEF vars
<1> QED
  BY <1>1, <1>2, <1>3, <1>4, <1>5 DEF LeasedRunNext

\* The runs of cli.py and epic.py keep every promise of the lease.
THEOREM RunsImplementLease == LeasedRunSpec => ImplementsLease
<1>1. LeasedRunInit => LeaseInit
  BY DEF LeasedRunInit
<1> QED
  BY <1>1, StepIsLeaseStep, PTL DEF LeasedRunSpec, ImplementsLease, LeaseSpec

\* So no epoch is ever given to two runs, whatever signals, deaths and heartbeats do.
THEOREM RunGrantsAreUnique == LeasedRunSpec => []UniqueGrants
  BY RunsImplementLease, GrantsAreUnique, PTL DEF ImplementsLease

\* And a lease that a run gave back is never revived by its heartbeat.
THEOREM RunReleaseIsFinal == LeasedRunSpec => []ReleasedIsDead
  BY RunsImplementLease, ReleasedStaysDead, PTL DEF ImplementsLease

----------------------------------------------------------------------------
(* A guarded write that is in time is the leader's *)

\* What the parts of the invariant say about the types of the values compared.
LEMMA FenceTypes ==
  ASSUME FenceInv
  PROVE  /\ now \in Nat /\ now >= 1 /\ row.epoch \in Nat /\ row.expires \in Int
         /\ held \in [Proc -> Nat] /\ seen \in [Proc -> Int]
         /\ MaxLag \in Nat /\ Ttl \in Nat
         /\ \A at \in Readings : at \in Nat /\ at >= now - MaxLag /\ at <= now /\ at >= 1
<1>1. /\ now \in Nat /\ now >= 1 /\ row \in Row
      /\ held \in [Proc -> Nat] /\ seen \in [Proc -> Int]
  BY DEF FenceInv, LeaseInv, LeaseTypeOK
<1>2. MaxLag \in Nat /\ Ttl \in Nat
  BY LeaseAssumption
<1> QED
  BY <1>1, <1>2 DEF Row, Readings

\* Time only passes, grants only grow: who is in time after a step was before it.
LEMMA InTimeWasInTime ==
  ASSUME FenceInv, [LeaseNext]_leaseVars, NEW p \in Proc,
         seen'[p] = seen[p], held'[p] = held[p], InTime(p)'
  PROVE  InTime(p)
<1>1. now' \in Nat /\ now' >= now
  <2>1. now' = now \/ now' = now + 1
    BY DEF LeaseNext, leaseVars, BeginAcquire, Take, Insert, Read, Steal, Granted, GoTo,
           Renew, Release, Crash, Tick
  <2> QED
    BY <2>1, FenceTypes
<1>2. grants \subseteq grants'
  BY DEF LeaseNext, leaseVars, BeginAcquire, Take, Insert, Read, Steal, Granted, GoTo,
         Renew, Release, Crash, Tick
<1>3. now' + MaxLag < seen'[p] => now + MaxLag < seen[p]
  BY <1>1, FenceTypes
<1>4. SoleOfItsName(p)' => SoleOfItsName(p)
  BY <1>2 DEF SoleOfItsName
<1> QED
  BY <1>3, <1>4 DEF InTime

\* A step that leaves the row: time may pass, and a process that dies holds nothing.
RowStays ==
  /\ row' = row
  /\ now' >= now
  /\ \A q \in Proc : held'[q] = 0 \/ held'[q] = held[q]

\* What a lease step without a steal does to the row.
LEMMA RowSteps ==
  ASSUME FenceInv, [LeaseNext]_leaseVars
  PROVE  \/ RowStays
         \/ \E q \in Proc :
              /\ Granted(q, row.epoch + 1, row.epoch + 1)
              /\ ~RowExists \/ row.holder = HolderOf[q] \/ row.expires <= now
         \/ \E q \in Proc, at \in Readings :
              /\ Renews(q, held[q], at)
              /\ row'.epoch = row.epoch
              /\ row'.holder = row.holder
              /\ row'.expires = at + Ttl
              /\ UNCHANGED <<now, held, grants>>
         \/ \E q \in Proc : Release(q)
<1>1. CASE UNCHANGED leaseVars
  BY <1>1, FenceTypes DEF leaseVars, RowStays
<1>2. CASE Tick
  BY <1>2, FenceTypes DEF Tick, RowStays
<1>3. ASSUME NEW q \in Proc, NEW steal \in BOOLEAN, BeginAcquire(q, steal)
      PROVE  RowStays
  BY <1>3, FenceTypes DEF BeginAcquire, RowStays
<1>4. ASSUME NEW q \in Proc, Read(q) \/ Crash(q)
      PROVE  RowStays
  BY <1>4, FenceTypes DEF Read, Crash, RowStays
<1>5. ASSUME NEW q \in Proc, Take(q) \/ Insert(q)
      PROVE  \/ RowStays
             \/ /\ Granted(q, row.epoch + 1, row.epoch + 1)
                /\ ~RowExists \/ row.holder = HolderOf[q] \/ row.expires <= now
  <2>1. call[q].at <= now /\ call[q].at \in Nat /\ now \in Nat
        /\ row.expires \in Int /\ row.epoch \in Nat
    BY DEF FenceInv, LeaseInv, CallsArePast, LeaseTypeOK, Row
  <2>0. ASSUME NEW step, GoTo(q, step)
        PROVE  RowStays
    BY <2>0, FenceTypes DEF GoTo, RowStays
  <2>2. CASE Take(q)
    BY <2>0, <2>1, <2>2 DEF Take
  <2>3. CASE Insert(q)
    <3>1. CASE RowExists
      BY <2>0, <2>3, <3>1 DEF Insert
    <3>2. CASE ~RowExists
      <4>1. row.epoch + 1 = 1
        BY <2>1, <3>2 DEF RowExists
      <4> QED
        BY <2>3, <3>2, <4>1 DEF Insert
    <3> QED
      BY <3>1, <3>2
  <2> QED
    BY <1>5, <2>2, <2>3
<1>6. ASSUME NEW q \in Proc, Steal(q)
      PROVE  FALSE
  BY <1>6 DEF Steal, FenceInv, NoSteals, LeaseInv, CallsArePast
<1>7. ASSUME NEW q \in Proc, NEW status, Renew(q, status)
      PROVE  \E at \in Readings :
               /\ Renews(q, held[q], at)
               /\ row'.epoch = row.epoch
               /\ row'.holder = row.holder
               /\ row'.expires = at + Ttl
               /\ UNCHANGED <<now, held, grants>>
  <2>1. row \in Row
    BY DEF FenceInv, LeaseInv, LeaseTypeOK
  <2> QED
    BY <1>7, <2>1 DEF Renew, Row
<1> QED
  BY <1>1, <1>2, <1>3, <1>4, <1>5, <1>6, <1>7 DEF LeaseNext

\* What was backed stays backed, whatever other processes do to the row, unless the
\* process itself gives the lease back.
LEMMA BackedIsKept ==
  ASSUME FenceInv, [LeaseNext]_leaseVars, NEW p \in Proc,
         seen'[p] = seen[p], held'[p] = held[p], row' = row \/ ~Release(p), InTime(p)'
  PROVE  Backed(p)'
<1>1. InTime(p) /\ Backed(p)
  BY InTimeWasInTime DEF FenceInv, SeenIsBacked
<1>2. /\ now \in Nat /\ row.epoch \in Nat /\ row.expires \in Int
      /\ held[p] \in Nat /\ seen[p] \in Int /\ MaxLag \in Nat /\ Ttl \in Nat
  BY FenceTypes
<1>3. row.expires > now /\ held[p] > 0 /\ row.epoch = held[p]
  BY <1>1, <1>2 DEF InTime, Backed
<1>4. CASE RowStays
  BY <1>1, <1>4 DEF Backed, RowStays
<1>5. ASSUME NEW q \in Proc, Granted(q, row.epoch + 1, row.epoch + 1),
             ~RowExists \/ row.holder = HolderOf[q] \/ row.expires <= now
      PROVE  FALSE
  <2>1. RowExists /\ ~(row.expires <= now)
    BY <1>2, <1>3 DEF RowExists
  <2>2. row.holder = HolderOf[p]
    BY <1>3 DEF FenceInv, RowIsNamed
  <2>3. HolderOf[q] = HolderOf[p]
    BY <1>5, <2>1, <2>2
  <2>4. <<q, row.epoch + 1>> \in grants'
    BY <1>5 DEF Granted
  <2>5. SoleOfItsName(p)'
    BY DEF InTime
  <2>6. <<q, row.epoch + 1>>[2] <= held'[p]
    <3>1. HolderOf[<<q, row.epoch + 1>>[1]] = HolderOf[p]
      BY <2>3
    <3> QED
      BY <2>4, <2>5, <3>1 DEF SoleOfItsName
  <2> QED
    BY <1>2, <1>3, <2>6
<1>6. ASSUME NEW q \in Proc, NEW at \in Readings,
             row'.epoch = row.epoch, row'.expires = at + Ttl
      PROVE  Backed(p)'
  <2>1. at \in Nat /\ at >= now - MaxLag
    BY FenceTypes
  <2>2. seen[p] <= now + Ttl
    BY DEF FenceInv, WithinTtl
  <2> QED
    BY <1>2, <1>3, <1>6, <2>1, <2>2 DEF Backed
<1>7. ASSUME NEW q \in Proc, Release(q)
      PROVE  FALSE
  <2>1. held[q] = row.epoch /\ held[q] > 0
    BY <1>7 DEF Release
  <2>2. <<p, row.epoch>> \in grants /\ <<q, row.epoch>> \in grants
    BY <1>3, <2>1 DEF FenceInv, LeaseInv, HeldIsGranted
  <2>3. <<p, row.epoch>>[1] = <<q, row.epoch>>[1]
    BY <2>2 DEF FenceInv, LeaseInv, UniqueGrants
  <2>4. q = p /\ row' = row
    BY <1>7, <2>3
  <2>5. row'.expires = 0
    BY <1>7 DEF Release, Past, FenceInv, LeaseInv, LeaseTypeOK, Row
  <2> QED
    BY <1>2, <1>3, <2>4, <2>5
<1> QED
  BY <1>4, <1>5, <1>6, <1>7, RowSteps

\* The row lasts at most Ttl and stays under its name.
LEMMA RowPartsKept ==
  ASSUME FenceInv, [LeaseNext]_leaseVars
  PROVE  row'.expires <= now' + Ttl /\ RowIsNamed' /\ now' >= now
<1>1. /\ now \in Nat /\ now >= 1 /\ row \in Row /\ row.epoch \in Nat /\ row.expires \in Int
      /\ held \in [Proc -> Nat] /\ Ttl \in Nat
  BY FenceTypes DEF FenceInv, LeaseInv, LeaseTypeOK
<1>2. row.expires <= now + Ttl /\ RowIsNamed
  BY DEF FenceInv, WithinTtl
<1>3. CASE RowStays
  <2>1. now' \in Nat
    BY NextInv DEF FenceInv, LeaseInv, LeaseTypeOK
  <2> QED
    BY <1>1, <1>2, <1>3, <2>1 DEF RowStays, RowIsNamed
<1>4. ASSUME NEW q \in Proc, Granted(q, row.epoch + 1, row.epoch + 1)
      PROVE  row'.expires <= now' + Ttl /\ RowIsNamed' /\ now' >= now
  <2>1. /\ now' = now
        /\ row' = [holder |-> HolderOf[q], epoch |-> row.epoch + 1,
                   expires |-> call[q].at + Ttl, status |-> "none"]
        /\ held' = [held EXCEPT ![q] = row.epoch + 1]
    BY <1>4 DEF Granted
  <2>2. call[q].at \in Nat /\ call[q].at <= now
    BY DEF FenceInv, LeaseInv, CallsArePast, LeaseTypeOK
  <2>3. \A p \in Proc : held[p] <= row.epoch
    BY HeldBelowRow DEF FenceInv
  <2>4. RowIsNamed'
    BY <1>1, <2>1, <2>3 DEF RowIsNamed
  <2> QED
    BY <1>1, <2>1, <2>2, <2>4
<1>5. ASSUME NEW q \in Proc, NEW at \in Readings, row'.epoch = row.epoch,
             row'.holder = row.holder, row'.expires = at + Ttl,
             UNCHANGED <<now, held, grants>>
      PROVE  row'.expires <= now' + Ttl /\ RowIsNamed' /\ now' >= now
  BY <1>1, <1>2, <1>5, FenceTypes DEF RowIsNamed
<1>6. ASSUME NEW q \in Proc, Release(q)
      PROVE  row'.expires <= now' + Ttl /\ RowIsNamed' /\ now' >= now
  <2>1. /\ row'.expires = 0 /\ row'.holder = row.holder /\ row'.epoch = row.epoch
        /\ now' = now /\ held' = held
    BY <1>1, <1>6 DEF Release, Row, Past
  <2> QED
    BY <1>1, <1>2, <2>1 DEF RowIsNamed
<1> QED
  BY <1>3, <1>4, <1>5, <1>6, RowSteps

\* What a step does to the memory of a process: it forgets; or a fence of its own has just
\* passed; or it keeps what it remembers and the step is not its release.
SeenEffect(p) ==
  \/ seen'[p] = Past
  \/ UNCHANGED leaseVars /\ RowExists /\ held[p] = row.epoch /\ seen'[p] = row.expires
  \/ seen'[p] = seen[p] /\ held'[p] = held[p] /\ (row' = row \/ ~Release(p))

SeenTypes ==
  /\ drv \in [Proc -> Drv]
  /\ then \in [Proc -> {"none", "fanout", "execute"}]
  /\ seen \in [Proc -> Int]

\* What each step keeps of the invariant besides the lease's own part.
Kept == SeenTypes' /\ SeenOnTheWay' /\ NoSteals' /\ \A p \in Proc : SeenEffect(p)

\* A main thread that moves without a fence: it remembers nothing, or it moves inside a
\* pause wait, or from the wait to the second fence.
LEMMA MoveKeepsWay ==
  ASSUME FenceInv, NEW q \in Proc, NEW to \in Drv, GoDrv(q, to), UNCHANGED seen,
         then' \in [Proc -> {"none", "fanout", "execute"}],
         \A p \in Proc \ {q} : then'[p] = then[p],
         \/ seen[q] = Past
         \/ drv[q] \in Wait /\ to \in Wait /\ then'[q] = then[q]
         \/ to = "recheck"
  PROVE  SeenTypes' /\ SeenOnTheWay'
<1>1. SeenTypes'
  BY DEF FenceInv, GoDrv, SeenTypes
<1>2. drv' = [drv EXCEPT ![q] = to] /\ drv \in [Proc -> Drv]
  BY DEF FenceInv, GoDrv
<1>3. ASSUME NEW p \in Proc, seen'[p] # Past
      PROVE  \/ drv'[p] \in Guarded \cup {"recheck", "clear"}
             \/ drv'[p] \in Wait /\ then'[p] = "execute"
  <2>1. \/ drv[p] \in Guarded \cup {"recheck", "clear"}
        \/ drv[p] \in Wait /\ then[p] = "execute"
    BY <1>3 DEF FenceInv, SeenOnTheWay
  <2>2. CASE p = q
    BY <1>2, <1>3, <2>1, <2>2 DEF Wait, Guarded
  <2>3. CASE p # q
    BY <1>2, <2>1, <2>3
  <2> QED
    BY <2>2, <2>3
<1> QED
  BY <1>1, <1>3 DEF SeenOnTheWay

\* The main thread steps that leave the lease and the memory alone.
LEMMA QuietSteps ==
  ASSUME FenceInv, NEW q \in Proc, UNCHANGED <<leaseVars, seen, then>>, NEW to \in Drv,
         GoDrv(q, to), seen[q] = Past \/ (drv[q] \in Wait /\ to \in Wait)
  PROVE  Kept
<1>1. SeenTypes' /\ SeenOnTheWay'
  BY MoveKeepsWay DEF FenceInv
<1>2. NoSteals' /\ \A p \in Proc : SeenEffect(p)
  BY DEF FenceInv, NoSteals, leaseVars, SeenEffect
<1> QED
  BY <1>1, <1>2 DEF Kept

\* Steps that move nobody and forget nothing, and only renew or leave the lease.
LEMMA RenewalIsNoRelease ==
  ASSUME FenceInv, NEW q \in Proc, NEW status, Renew(q, status)
  PROVE  /\ UNCHANGED <<now, call, held, grants, released>>
         /\ \A p \in Proc : ~Release(p)
<1>1. UNCHANGED <<now, call, held, grants, released>>
  BY DEF Renew
<1>2. row'.expires > 0
  <2>1. row \in Row
    BY DEF FenceInv, LeaseInv, LeaseTypeOK
  <2>2. PICK at \in Readings : row'.expires = at + Ttl
    BY <2>1 DEF Renew, Row
  <2> QED
    BY <2>2, FenceTypes, LeaseAssumption
<1>3. ASSUME NEW p \in Proc, Release(p)
      PROVE  row'.expires = 0
  BY <1>3 DEF Release, Past, FenceInv, LeaseInv, LeaseTypeOK, Row
<1> QED
  BY <1>1, <1>2, <1>3

\* A grant is no release: the epoch grows.
LEMMA GrantIsNoRelease ==
  ASSUME FenceInv, NEW q \in Proc, Granted(q, row.epoch + 1, row.epoch + 1)
  PROVE  /\ held' = [held EXCEPT ![q] = row.epoch + 1]
         /\ \A p \in Proc : ~Release(p)
<1>1. held' = [held EXCEPT ![q] = row.epoch + 1] /\ row'.epoch = row.epoch + 1
  BY DEF Granted
<1>2. ASSUME NEW p \in Proc, Release(p)
      PROVE  row'.epoch = row.epoch
  BY <1>2 DEF Release, FenceInv, LeaseInv, LeaseTypeOK, Row
<1> QED
  BY <1>1, <1>2, FenceTypes

\* The steps that forget.
LEMMA ForgettingSteps ==
  ASSUME FenceInv, NEW q \in Proc, UNCHANGED leaseVars, NEW to \in Drv, GoDrv(q, to),
         seen' = [seen EXCEPT ![q] = Past],
         then' = then \/ then' = [then EXCEPT ![q] = "none"]
  PROVE  Kept
<1>1. SeenTypes'
  BY DEF FenceInv, GoDrv, SeenTypes, Past
<1>2. SeenOnTheWay'
  BY DEF FenceInv, GoDrv, SeenTypes, SeenOnTheWay, Past
<1>3. NoSteals' /\ \A p \in Proc : SeenEffect(p)
  BY DEF FenceInv, NoSteals, leaseVars, SeenEffect
<1> QED
  BY <1>1, <1>2, <1>3 DEF Kept

\* A fence, which remembers or forgets.
LEMMA FenceSteps ==
  ASSUME FenceInv, NEW q \in Proc, NEW from, NEW pass \in SUBSET Drv, NEW fail \in Drv,
         Fence(q, from, pass, fail), then' \in [Proc -> {"none", "fanout", "execute"}],
         \A p \in Proc \ {q} : then'[p] = then[p],
         \A to \in pass : drv'[q] = to =>
           to \in Guarded \cup {"clear"} \/ (to \in Wait /\ then'[q] = "execute")
  PROVE  Kept
<1>1. PICK at \in Readings :
        IF FencePasses(q, at)
        THEN seen' = [seen EXCEPT ![q] = row.expires] /\ \E to \in pass : GoDrv(q, to)
        ELSE GoDrv(q, fail) /\ seen' = [seen EXCEPT ![q] = Past]
  BY DEF Fence
<1>2. UNCHANGED leaseVars
  BY DEF Fence
<1>3. NoSteals'
  BY <1>2 DEF FenceInv, NoSteals, leaseVars
<1>4. row.expires \in Int /\ Past \in Int
  BY FenceTypes DEF Past
<1>5. CASE FencePasses(q, at)
  <2>1. PICK to \in pass : GoDrv(q, to)
    BY <1>1, <1>5
  <2>2. SeenTypes' /\ SeenOnTheWay'
    BY <1>1, <1>4, <1>5, <2>1 DEF FenceInv, GoDrv, SeenTypes, SeenOnTheWay
  <2>3. \A p \in Proc : SeenEffect(p)
    BY <1>1, <1>2, <1>5 DEF FencePasses, AssertEpoch, SeenEffect, FenceInv, leaseVars
  <2> QED
    BY <1>3, <2>2, <2>3 DEF Kept
<1>6. CASE ~FencePasses(q, at)
  <2>1. SeenTypes' /\ SeenOnTheWay'
    BY <1>1, <1>4, <1>6 DEF FenceInv, GoDrv, SeenTypes, SeenOnTheWay
  <2>2. \A p \in Proc : SeenEffect(p)
    BY <1>1, <1>2, <1>6 DEF SeenEffect, FenceInv, leaseVars
  <2> QED
    BY <1>3, <2>1, <2>2 DEF Kept
<1> QED
  BY <1>5, <1>6

\* The steps of the acquire and of the launch.
LEMMA AcquireKeeps ==
  ASSUME FenceInv, NEW q \in Proc, Launch(q) \/ AcquireStep(q) \/ AcquireFails(q)
  PROVE  Kept
<1>1. /\ seen[q] = Past /\ UNCHANGED <<seen, then>>
      /\ drv[q] \in {"off", "acquiring"}
  BY DEF Launch, AcquireStep, AcquireFails, FenceInv, SeenOnTheWay, Wait, Guarded
<1>2. PICK to \in Drv : GoDrv(q, to)
  <2>1. \/ GoDrv(q, "acquiring") \/ GoDrv(q, "granted") \/ GoDrv(q, "refusing")
    BY DEF Launch, AcquireStep, AcquireFails
  <2> QED
    BY <2>1 DEF Drv, Setup
<1>3. SeenTypes' /\ SeenOnTheWay'
  BY <1>1, <1>2, MoveKeepsWay DEF FenceInv
<1>4. call \in [Proc -> [step : Step, at : Nat, steal : BOOLEAN, seen : Nat]]
  BY DEF FenceInv, LeaseInv, LeaseTypeOK
<1>5. CASE Launch(q)
  <2>1. NoSteals'
    BY <1>4, <1>5 DEF Launch, BeginAcquire, FenceInv, NoSteals
  <2>2. \A p \in Proc : SeenEffect(p)
    BY <1>1, <1>5 DEF Launch, BeginAcquire, SeenEffect
  <2> QED
    BY <1>3, <2>1, <2>2 DEF Kept
<1>6. CASE AcquireStep(q)
  <2>1. \/ Granted(q, row.epoch + 1, row.epoch + 1)
        \/ \E step : GoTo(q, step)
        \/ Read(q)
    <3>1. ~RowExists => row.epoch + 1 = 1
      BY FenceTypes DEF RowExists
    <3> QED
      BY <1>6, <3>1 DEF AcquireStep, Take, Insert
  <2>2. NoSteals'
    <3>1. \A p \in Proc : call[p].steal = FALSE
      BY <1>4 DEF FenceInv, NoSteals
    <3>2. CASE Granted(q, row.epoch + 1, row.epoch + 1)
      BY <1>4, <3>1, <3>2 DEF Granted, Idle, NoSteals
    <3>3. ASSUME NEW step, GoTo(q, step)
          PROVE  NoSteals'
      BY <1>4, <3>1, <3>3 DEF GoTo, NoSteals
    <3>4. CASE Read(q)
      <4>1. call' = [call EXCEPT ![q] = Idle]
        BY <3>1, <3>4 DEF Read
      <4> QED
        BY <1>4, <3>1, <4>1 DEF Idle, NoSteals
    <3> QED
      BY <2>1, <3>2, <3>3, <3>4
  <2>3. \A p \in Proc : SeenEffect(p)
    <3>1. CASE Granted(q, row.epoch + 1, row.epoch + 1)
      <4>1. /\ \A p \in Proc \ {q} : held'[p] = held[p]
            /\ \A p \in Proc : ~Release(p)
        BY <3>1, GrantIsNoRelease, FenceTypes
      <4> QED
        BY <1>1, <4>1 DEF SeenEffect
    <3>2. CASE ~Granted(q, row.epoch + 1, row.epoch + 1)
      <4>1. row' = row /\ held' = held
        BY <2>1, <3>2 DEF GoTo, Read
      <4> QED
        BY <1>1, <4>1 DEF SeenEffect
    <3> QED
      BY <3>1, <3>2
  <2> QED
    BY <1>3, <2>2, <2>3 DEF Kept
<1>7. CASE AcquireFails(q)
  <2>1. /\ held' = [held EXCEPT ![q] = 0] /\ row' = row
        /\ call' = [call EXCEPT ![q] = Idle]
    BY <1>7 DEF AcquireFails, Crash
  <2>2. NoSteals'
    BY <1>4, <2>1 DEF FenceInv, NoSteals, Idle
  <2>3. \A p \in Proc : SeenEffect(p)
    BY <1>1, <2>1, FenceTypes DEF SeenEffect
  <2> QED
    BY <1>3, <2>2, <2>3 DEF Kept
<1> QED
  BY <1>5, <1>6, <1>7

\* The steps of the pause wait and the end of the lease, which renew or release the row.
LEMMA RowKeeps ==
  ASSUME FenceInv, NEW q \in Proc, Poll(q) \/ Wake(q) \/ EndLease(q)
  PROVE  Kept
<1>1. CASE Poll(q) /\ GoDrv(q, "clearing") /\ UNCHANGED leaseVars
  <2>1. seen' = [seen EXCEPT ![q] = Past] /\ then' = [then EXCEPT ![q] = "none"]
    <3>1. CASE Renew(q, "paused") /\ GoDrv(q, "pausing")
      BY <1>1, <3>1 DEF GoDrv, FenceInv
    <3>2. CASE LeaveWait(q)
      BY <3>2 DEF LeaveWait
    <3> QED
      BY <1>1, <3>1, <3>2 DEF Poll
  <2> QED
    BY <1>1, <2>1, ForgettingSteps DEF Drv, Exit
<1>2. CASE Poll(q) /\ Renew(q, "paused") /\ GoDrv(q, "pausing") /\ UNCHANGED <<then, seen>>
  <2>1. SeenTypes' /\ SeenOnTheWay'
    BY <1>2, MoveKeepsWay DEF Poll, FenceInv, Wait, Drv, Work
  <2>2. UNCHANGED <<call, held>> /\ \A p \in Proc : ~Release(p)
    BY <1>2, RenewalIsNoRelease
  <2> QED
    BY <1>2, <2>1, <2>2 DEF Kept, SeenEffect, FenceInv, NoSteals
<1>3. CASE Wake(q)
  <2>1. \/ Renew(q, "none") \/ UNCHANGED leaseVars
    BY <1>3 DEF Wake
  <2>2. UNCHANGED <<call, held>> /\ \A p \in Proc : row' = row \/ ~Release(p)
    BY <2>1, RenewalIsNoRelease DEF leaseVars
  <2>3. SeenTypes' /\ SeenOnTheWay'
    <3>1. UNCHANGED seen /\ then' = [then EXCEPT ![q] = "none"] /\ drv[q] = "waking"
      BY <1>3 DEF Wake
    <3>2. CASE then[q] = "fanout"
      <4>1. seen[q] = Past
        BY <3>1, <3>2 DEF FenceInv, SeenOnTheWay, Guarded
      <4> QED
        BY <1>3, <3>1, <3>2, <4>1, MoveKeepsWay DEF Wake, FenceInv, Drv, Work
    <3>3. CASE then[q] # "fanout"
      BY <1>3, <3>1, <3>3, MoveKeepsWay DEF Wake, FenceInv, Drv, Work
    <3> QED
      BY <3>2, <3>3
  <2> QED
    BY <1>3, <2>2, <2>3 DEF Kept, SeenEffect, FenceInv, NoSteals, Wake
<1>4. CASE EndLease(q)
  <2>1. /\ UNCHANGED <<seen, then, call, held>> /\ GoDrv(q, "closing") /\ drv[q] = "release"
        /\ row' = row \/ Release(q)
    BY <1>4 DEF EndLease, Release, leaseVars
  <2>2. seen[q] = Past
    BY <2>1 DEF FenceInv, SeenOnTheWay, Guarded, Wait
  <2>3. SeenTypes' /\ SeenOnTheWay'
    BY <2>1, <2>2, MoveKeepsWay DEF FenceInv, Drv, Exit
  <2>4. ASSUME NEW p \in Proc
        PROVE  SeenEffect(p)
    <3>1. CASE p = q
      BY <2>1, <2>2, <3>1 DEF SeenEffect
    <3>2. CASE p # q
      <4>1. ASSUME Release(p), Release(q)
            PROVE  FALSE
        <5>1. <<p, row.epoch>> \in grants /\ <<q, row.epoch>> \in grants
          BY <4>1 DEF Release, FenceInv, LeaseInv, HeldIsGranted
        <5>2. <<p, row.epoch>>[1] = <<q, row.epoch>>[1]
          BY <5>1 DEF FenceInv, LeaseInv, UniqueGrants
        <5> QED
          BY <3>2, <5>2
      <4> QED
        BY <2>1, <4>1 DEF SeenEffect
    <3> QED
      BY <3>1, <3>2
  <2> QED
    BY <2>1, <2>3, <2>4 DEF Kept, FenceInv, NoSteals
<1> QED
  BY <1>1, <1>2, <1>3, <1>4 DEF Poll, LeaveWait

\* The main thread as a whole.
LEMMA DriverKeeps ==
  ASSUME FenceInv, NEW q \in Proc, DriverStep(q)
  PROVE  Kept
<1>1. CASE Launch(q) \/ AcquireStep(q) \/ AcquireFails(q)
  BY <1>1, AcquireKeeps
<1>2. CASE Poll(q) \/ Wake(q) \/ EndLease(q)
  BY <1>2, RowKeeps
<1>3. CASE \/ RefuseStart(q) \/ EnterSetup(q) \/ StartRun(q) \/ SetupFails(q)
           \/ JoinWorkers(q) \/ Finish(q) \/ RecordExit(q) \/ StampEnd(q)
           \/ Quiet(q) \/ Close(q)
  <2>1. /\ UNCHANGED <<leaseVars, seen, then>>
        /\ drv[q] \in {"refusing", "granted", "setup", "fanout", "running", "record", "stamp",
                       "quiet", "closing"}
    BY <1>3 DEF RefuseStart, EnterSetup, StartRun, SetupFails, JoinWorkers, Finish,
                RecordExit, StampEnd, Quiet, Close, Move
  <2>2. seen[q] = Past
    BY <2>1 DEF FenceInv, SeenOnTheWay, Guarded, Wait
  <2>3. \E to \in {"done", "setup", "running", "stamp", "clearing", "quiet", "release"} :
          GoDrv(q, to)
    BY <1>3 DEF RefuseStart, EnterSetup, StartRun, SetupFails, JoinWorkers, Finish,
                RecordExit, StampEnd, Quiet, Close, Move
  <2>4. PICK to \in Drv : GoDrv(q, to)
    BY <2>3 DEF Drv, Setup, Work, Exit
  <2> QED
    BY <2>1, <2>2, <2>4, QuietSteps
<1>4. CASE ReadPause(q)
  <2>1. /\ UNCHANGED <<leaseVars, seen, then>> /\ drv[q] \in Wait
        /\ \E to \in {"polling", "waking"} : GoDrv(q, to)
    BY <1>4 DEF ReadPause, Wait
  <2>2. PICK to \in Drv : GoDrv(q, to) /\ to \in Wait
    BY <2>1 DEF Wait, Drv, Work
  <2> QED
    BY <2>1, <2>2, QuietSteps
<1>5. CASE BeginFanOut(q)
  <2>1. /\ UNCHANGED <<leaseVars, seen>> /\ then' = [then EXCEPT ![q] = "fanout"]
        /\ drv[q] = "running" /\ GoDrv(q, "pausing")
    BY <1>5 DEF BeginFanOut
  <2>2. seen[q] = Past
    BY <2>1 DEF FenceInv, SeenOnTheWay, Guarded, Wait
  <2>3. SeenTypes' /\ SeenOnTheWay'
    BY <2>1, <2>2, MoveKeepsWay DEF FenceInv, Drv, Work, Wait
  <2> QED
    BY <2>1, <2>3 DEF Kept, SeenEffect, leaseVars, FenceInv, NoSteals
<1>6. CASE GuardedWrite(q) \/ ClearPause(q)
  <2>1. /\ UNCHANGED <<leaseVars, then>> /\ seen' = [seen EXCEPT ![q] = Past]
        /\ GoDrv(q, "running") \/ GoDrv(q, "record")
    BY <1>6 DEF GuardedWrite, ClearPause
  <2> QED
    BY <2>1, ForgettingSteps DEF Drv, Work, Exit
<1>7. CASE WaitFails(q)
  BY <1>7, ForgettingSteps DEF WaitFails, LeaveWait, Drv, Exit
<1>8. CASE ExitFault(q)
  <2>1. /\ UNCHANGED <<leaseVars, then>> /\ seen' = [seen EXCEPT ![q] = Past]
        /\ \E to \in {"record", "stamp", "quiet", "release", "closing"} : GoDrv(q, to)
    BY <1>8 DEF ExitFault
  <2>2. PICK to \in Drv : GoDrv(q, to)
    BY <2>1 DEF Drv, Exit
  <2> QED
    BY <2>1, <2>2, ForgettingSteps
<1>9. CASE Section(q)
  <2>1. /\ Fence(q, "running", Guarded \cup {"pausing"}, "running")
        /\ then' = [then EXCEPT ![q] = IF drv'[q] = "pausing" THEN "execute" ELSE "none"]
    BY <1>9 DEF Section
  <2>2. /\ Guarded \cup {"pausing"} \in SUBSET Drv /\ "running" \in Drv
        /\ "pausing" \in Wait
    BY DEF Guarded, Drv, Work, Wait
  <2>3. /\ then' \in [Proc -> {"none", "fanout", "execute"}]
        /\ \A p \in Proc \ {q} : then'[p] = then[p]
        /\ drv'[q] = "pausing" => then'[q] = "execute"
    BY <2>1 DEF FenceInv
  <2> HIDE DEF Fence, Guarded
  <2> QED
    BY <2>1, <2>2, <2>3, FenceSteps
<1>10. CASE Recheck(q)
  <2>1. {"guarded"} \in SUBSET Drv /\ "running" \in Drv /\ "guarded" \in Guarded
    BY DEF Guarded, Drv, Work
  <2> QED
    BY <1>10, <2>1, FenceSteps DEF Recheck, FenceInv
<1>11. CASE ClearCheck(q)
  <2>1. {"clear"} \in SUBSET Drv /\ "record" \in Drv
    BY DEF Drv, Exit
  <2> QED
    BY <1>11, <2>1, FenceSteps DEF ClearCheck, FenceInv
<1> QED
  BY <1>1, <1>2, <1>3, <1>4, <1>5, <1>6, <1>7, <1>8, <1>9, <1>10, <1>11 DEF DriverStep

\* Signals and deaths, which forget; the other threads; the human; the clock.
LEMMA OthersKeep ==
  ASSUME FenceInv, [LeasedRunNext]_vars, \A q \in Proc : ~DriverStep(q)
  PROVE  Kept
<1>1. call \in [Proc -> [step : Step, at : Nat, steal : BOOLEAN, seen : Nat]]
  BY DEF FenceInv, LeaseInv, LeaseTypeOK
<1>2. ASSUME NEW q \in Proc, Sigterm(q) \/ Kill(q)
      PROVE  Kept
  <2>1. /\ seen' = [seen EXCEPT ![q] = Past] /\ then' = [then EXCEPT ![q] = "none"]
        /\ UNCHANGED leaseVars \/ Crash(q)
        /\ GoDrv(q, "done") \/ GoDrv(q, CaughtAt(drv[q]))
    BY <1>2 DEF Sigterm, Kill
  <2>2. CaughtAt(drv[q]) \in {"stamp", "clearing", "record", "done"}
    BY DEF CaughtAt
  <2>3. PICK to \in Drv : GoDrv(q, to)
    BY <2>1, <2>2 DEF Drv, Exit
  <2>4. CASE UNCHANGED leaseVars
    BY <2>1, <2>3, <2>4, ForgettingSteps
  <2>5. CASE Crash(q)
    <3>1. SeenTypes' /\ SeenOnTheWay'
      BY <2>1, <2>3 DEF FenceInv, GoDrv, SeenTypes, SeenOnTheWay, Past
    <3>2. row' = row /\ held' = [held EXCEPT ![q] = 0] /\ call' = [call EXCEPT ![q] = Idle]
      BY <2>5 DEF Crash
    <3>3. NoSteals'
      BY <1>1, <3>2 DEF FenceInv, NoSteals, Idle
    <3>4. \A p \in Proc : SeenEffect(p)
      BY <2>1, <3>2, FenceTypes DEF SeenEffect
    <3> QED
      BY <3>1, <3>3, <3>4 DEF Kept
  <2> QED
    BY <2>1, <2>4, <2>5
<1>3. ASSUME UNCHANGED <<drv, then, seen, call, held>>,
             \A p \in Proc : row' = row \/ ~Release(p)
      PROVE  Kept
  BY <1>3 DEF Kept, SeenTypes, SeenOnTheWay, NoSteals, SeenEffect, FenceInv
<1>4. ASSUME NEW q \in Proc, WorkerStops(q) \/ HeartbeatStops(q)
      PROVE  Kept
  BY <1>3, <1>4 DEF WorkerStops, HeartbeatStops, leaseVars
<1>5. ASSUME NEW q \in Proc, Beat(q)
      PROVE  Kept
  BY <1>3, <1>5, RenewalIsNoRelease DEF Beat, runVars
<1>6. ASSUME NEW h \in Holder, PauseRun(h) \/ ResumeRun(h)
      PROVE  Kept
  BY <1>3, <1>6 DEF PauseRun, ResumeRun, leaseVars
<1>7. CASE Time
  BY <1>3, <1>7 DEF Time, Tick, runVars
<1>8. CASE UNCHANGED vars
  BY <1>3, <1>8 DEF vars, leaseVars, runVars
<1> QED
  BY <1>2, <1>4, <1>5, <1>6, <1>7, <1>8 DEF LeasedRunNext

\* The invariant holds from the start and through every step.
LEMMA FenceInvInit == LeasedRunInit => FenceInv
<1> SUFFICES ASSUME LeasedRunInit
             PROVE  FenceInv
  OBVIOUS
<1>1. LeaseInv
  BY InitInv DEF LeasedRunInit
<1>2. drv \in [Proc -> Drv] /\ then \in [Proc -> {"none", "fanout", "execute"}]
      /\ seen \in [Proc -> Int] /\ SeenOnTheWay /\ NoSteals /\ RowIsNamed
  BY DEF LeasedRunInit, LeaseInit, Drv, Past, SeenOnTheWay, NoSteals, RowIsNamed, Idle
<1>3. WithinTtl /\ SeenIsBacked
  BY LeaseAssumption DEF LeasedRunInit, LeaseInit, NoRow, Past, WithinTtl, SeenIsBacked, InTime
<1> QED
  BY <1>1, <1>2, <1>3 DEF FenceInv

LEMMA FenceInvNext == FenceInv /\ [LeasedRunNext]_vars => FenceInv'
<1> SUFFICES ASSUME FenceInv, [LeasedRunNext]_vars
             PROVE  FenceInv'
  OBVIOUS
<1>1. [LeaseNext]_leaseVars
  BY StepIsLeaseStep
<1>2. LeaseInv'
  BY <1>1, NextInv DEF FenceInv
<1>3. Kept
  BY DriverKeeps, OthersKeep
<1>4. row'.expires <= now' + Ttl /\ RowIsNamed' /\ now' >= now
  BY <1>1, RowPartsKept
<1>5. now' \in Nat /\ now' >= 1 /\ seen' \in [Proc -> Int]
  BY <1>2, <1>3 DEF LeaseInv, LeaseTypeOK, Kept, SeenTypes
<1>6. ASSUME NEW p \in Proc
      PROVE  seen'[p] <= now' + Ttl
  <2>1. seen'[p] = Past \/ seen'[p] = row.expires \/ seen'[p] = seen[p]
    BY <1>3 DEF Kept, SeenEffect
  <2> QED
    BY <1>4, <1>5, <2>1, FenceTypes DEF FenceInv, WithinTtl, Past
<1>7. ASSUME NEW p \in Proc, InTime(p)'
      PROVE  Backed(p)'
  <2>1. now' + MaxLag < seen'[p]
    BY <1>7 DEF InTime
  <2>2. seen'[p] # Past
    BY <1>5, <2>1, FenceTypes DEF Past
  <2>3. CASE UNCHANGED leaseVars /\ RowExists /\ held[p] = row.epoch /\ seen'[p] = row.expires
    BY <2>3, FenceTypes DEF Backed, RowExists, leaseVars
  <2>4. CASE seen'[p] = seen[p] /\ held'[p] = held[p] /\ (row' = row \/ ~Release(p))
    BY <1>1, <1>7, <2>4, BackedIsKept
  <2> QED
    BY <1>3, <2>2, <2>3, <2>4 DEF Kept, SeenEffect
<1> QED
  BY <1>2, <1>3, <1>4, <1>6, <1>7 DEF FenceInv, Kept, SeenTypes, WithinTtl, SeenIsBacked

\* A guarded write that lands in time is made by the leader: _fenced and what it guards.
THEOREM GuardedWritesAreTheLeaders == LeasedRunSpec => FencedWriteInTime
<1>1. FenceInv /\ [LeasedRunNext]_vars
        => [\A p \in Proc : Writes(p) /\ InTime(p) => row.epoch = held[p]]_vars
  BY DEF FenceInv, SeenIsBacked, Backed
<1> QED
  BY <1>1, FenceInvInit, FenceInvNext, PTL DEF LeasedRunSpec, FencedWriteInTime

----------------------------------------------------------------------------
(* What a wait outlasted is not executed *)

\* Only a step of its own, or a signal, moves the main thread of a process.
LEMMA OwnStepsMove ==
  ASSUME [LeasedRunNext]_vars, NEW p \in Proc, drv \in [Proc -> Drv]
  PROVE  drv'[p] = drv[p] \/ DriverStep(p) \/ Sigterm(p) \/ Kill(p)
<1>1. ASSUME NEW q \in Proc, DriverStep(q) \/ Sigterm(q) \/ Kill(q)
      PROVE  \E to : GoDrv(q, to)
  <2>1. CASE \/ Launch(q) \/ AcquireStep(q) \/ AcquireFails(q) \/ RefuseStart(q)
             \/ EnterSetup(q) \/ StartRun(q) \/ SetupFails(q)
    BY <2>1 DEF Launch, AcquireStep, AcquireFails, RefuseStart, EnterSetup, StartRun, SetupFails, Move
  <2>2. CASE \/ BeginFanOut(q) \/ GuardedWrite(q) \/ JoinWorkers(q) \/ Finish(q)
    BY <2>2 DEF BeginFanOut, GuardedWrite, JoinWorkers, Finish, Move
  <2>3. CASE Section(q) \/ Recheck(q) \/ ClearCheck(q)
    BY <2>3 DEF Section, Recheck, ClearCheck, Fence
  <2>4. CASE \/ ReadPause(q) \/ Poll(q) \/ Wake(q) \/ WaitFails(q)
    BY <2>4 DEF ReadPause, Poll, Wake, WaitFails, LeaveWait
  <2>5. CASE \/ ClearPause(q) \/ RecordExit(q) \/ StampEnd(q) \/ Quiet(q)
             \/ EndLease(q) \/ ExitFault(q) \/ Close(q)
    BY <2>5 DEF ClearPause, RecordExit, StampEnd, Quiet, EndLease, ExitFault, Close
  <2>6. CASE Sigterm(q) \/ Kill(q)
    BY <2>6 DEF Sigterm, Kill
  <2> QED
    BY <1>1, <2>1, <2>2, <2>3, <2>4, <2>5, <2>6 DEF DriverStep
<1>2. ASSUME NEW q \in Proc, q # p, DriverStep(q) \/ Sigterm(q) \/ Kill(q)
      PROVE  drv'[p] = drv[p]
  BY <1>1, <1>2 DEF GoDrv
<1>3. ASSUME NEW q \in Proc, WorkerStops(q) \/ Beat(q) \/ HeartbeatStops(q)
      PROVE  drv' = drv
  BY <1>3 DEF WorkerStops, Beat, HeartbeatStops, runVars
<1>4. ASSUME NEW h \in Holder, PauseRun(h) \/ ResumeRun(h)
      PROVE  drv' = drv
  BY <1>4 DEF PauseRun, ResumeRun
<1>5. CASE Time \/ UNCHANGED vars
  BY <1>5 DEF Time, vars, runVars
<1> QED
  BY <1>2, <1>3, <1>4, <1>5 DEF LeasedRunNext

\* From the second fence to the write there is no other way than through it.
LEMMA RecheckIsPassed ==
  ASSUME [LeasedRunNext]_vars, NEW p \in Proc, drv \in [Proc -> Drv],
         drv[p] = "recheck", drv'[p] = "guarded"
  PROVE  row.epoch = held[p]
<1>1. DriverStep(p) \/ Sigterm(p) \/ Kill(p)
  BY OwnStepsMove
<1>2. ~Sigterm(p)
  BY DEF Sigterm, CaughtAt, GoDrv
<1>3. ~Kill(p)
  BY DEF Kill, GoDrv
<1>4. CASE Recheck(p)
  <2>1. PICK at \in Readings :
          IF FencePasses(p, at) THEN TRUE ELSE GoDrv(p, "running")
    BY <1>4 DEF Recheck, Fence
  <2>2. FencePasses(p, at)
    BY <2>1 DEF GoDrv
  <2> QED
    BY <2>2 DEF FencePasses, AssertEpoch
<1>5. CASE DriverStep(p) /\ ~Recheck(p)
  <2>1. ~(\/ Launch(p) \/ AcquireStep(p) \/ AcquireFails(p) \/ RefuseStart(p)
          \/ EnterSetup(p) \/ StartRun(p) \/ SetupFails(p))
    BY DEF Launch, AcquireStep, AcquireFails, RefuseStart, EnterSetup, StartRun, SetupFails, Move
  <2>2. ~(Section(p) \/ BeginFanOut(p) \/ GuardedWrite(p) \/ JoinWorkers(p) \/ Finish(p))
    BY DEF Section, BeginFanOut, GuardedWrite, JoinWorkers, Finish, Move, Fence, Guarded
  <2>3. ~(ReadPause(p) \/ Poll(p) \/ Wake(p) \/ WaitFails(p))
    BY DEF ReadPause, Poll, Wake, WaitFails, Wait
  <2>4. ~(\/ ClearCheck(p) \/ ClearPause(p) \/ RecordExit(p) \/ StampEnd(p) \/ Quiet(p)
          \/ EndLease(p) \/ ExitFault(p) \/ Close(p))
    BY DEF ClearCheck, ClearPause, RecordExit, StampEnd, Quiet, EndLease, ExitFault, Close, Fence
  <2> QED
    BY <1>5, <2>1, <2>2, <2>3, <2>4 DEF DriverStep
<1> QED
  BY <1>1, <1>2, <1>3, <1>4, <1>5

\* A run that lost its lease in the pause wait does not go on to the write it was waiting
\* for: _execute, epic.py, fences a second time.
THEOREM WaitsThatLostExecuteNothing == LeasedRunSpec => LostWaitExecutesNothing
<1>1. FenceInv /\ [LeasedRunNext]_vars
        => [\A p \in Proc : drv[p] = "recheck" /\ row.epoch # held[p] => drv'[p] # "guarded"]_vars
  BY RecheckIsPassed DEF FenceInv
<1> QED
  BY <1>1, FenceInvInit, FenceInvNext, PTL DEF LeasedRunSpec, LostWaitExecutesNothing

----------------------------------------------------------------------------
(* A successor starts alone *)

\* Workers live in a fan-out; after one that a signal cut short, up to the wait for them;
\* and past that wait only when it was in vain.
WorkersAt(d, terminated, inVain) ==
  \/ d = "fanout"
  \/ terminated /\ d \in {"clearing", "clear", "record", "stamp", "quiet"}
  \/ inVain /\ d \in {"release", "closing"}

WorkersAreKnown == \A p \in Proc : workers[p] => WorkersAt(drv[p], term[p], gaveUp[p])

\* A process whose lease was given back gave it back itself: it is at its end.
GivenBackAtTheEnd ==
  /\ \A e \in released : e > 0
  /\ \A p \in Proc : held[p] > 0 /\ held[p] \in released => drv[p] \in {"closing", "done"}

ThreadTypes == {workers, term, gaveUp} \subseteq [Proc -> BOOLEAN]

AloneInv == FenceInv /\ ThreadTypes /\ WorkersAreKnown /\ GivenBackAtTheEnd

\* What a step of one process does to the threads: its workers, if any, are where they
\* may be.
ThreadStep(q) ==
  \E to \in Drv, w, t, g \in BOOLEAN :
    /\ drv' = [drv EXCEPT ![q] = to] /\ workers' = [workers EXCEPT ![q] = w]
    /\ term' = [term EXCEPT ![q] = t] /\ gaveUp' = [gaveUp EXCEPT ![q] = g]
    /\ w => WorkersAt(to, t, g)

LEMMA ThreadStepKeeps ==
  ASSUME AloneInv, NEW q \in Proc, ThreadStep(q)
  PROVE  ThreadTypes' /\ WorkersAreKnown'
<1>1. /\ drv \in [Proc -> Drv] /\ workers \in [Proc -> BOOLEAN] /\ term \in [Proc -> BOOLEAN]
      /\ gaveUp \in [Proc -> BOOLEAN] /\ \A p \in Proc : workers[p] => WorkersAt(drv[p], term[p], gaveUp[p])
  BY DEF AloneInv, FenceInv, ThreadTypes, WorkersAreKnown
<1>2. PICK to \in Drv, w \in BOOLEAN, t \in BOOLEAN, g \in BOOLEAN :
        /\ drv' = [drv EXCEPT ![q] = to] /\ workers' = [workers EXCEPT ![q] = w]
        /\ term' = [term EXCEPT ![q] = t] /\ gaveUp' = [gaveUp EXCEPT ![q] = g]
        /\ w => WorkersAt(to, t, g)
  BY DEF ThreadStep
<1>3. ThreadTypes'
  BY <1>1, <1>2 DEF ThreadTypes
<1>4. ASSUME NEW p \in Proc, workers'[p]
      PROVE  WorkersAt(drv'[p], term'[p], gaveUp'[p])
  <2>1. CASE p = q
    BY <1>1, <1>2, <1>4, <2>1
  <2>2. CASE p # q
    BY <1>1, <1>2, <1>4, <2>2
  <2> QED
    BY <2>1, <2>2
<1> QED
  BY <1>3, <1>4 DEF WorkersAreKnown

\* A main thread that only moves, and not away from its workers.
LEMMA MovesKeepWorkers ==
  ASSUME AloneInv, NEW q \in Proc, UNCHANGED <<workers, term, gaveUp>>, NEW to \in Drv, GoDrv(q, to),
         workers[q] => WorkersAt(to, term[q], gaveUp[q])
  PROVE  ThreadStep(q)
<1>1. /\ workers \in [Proc -> BOOLEAN] /\ term \in [Proc -> BOOLEAN] /\ gaveUp \in [Proc -> BOOLEAN]
  BY DEF AloneInv, ThreadTypes
<1>2. /\ workers' = [workers EXCEPT ![q] = workers[q]] /\ term' = [term EXCEPT ![q] = term[q]]
      /\ gaveUp' = [gaveUp EXCEPT ![q] = gaveUp[q]]
      /\ workers[q] \in BOOLEAN /\ term[q] \in BOOLEAN /\ gaveUp[q] \in BOOLEAN
  BY <1>1
<1> QED
  BY <1>2 DEF ThreadStep, GoDrv

LEMMA DriversKeepWorkers ==
  ASSUME AloneInv, NEW q \in Proc, DriverStep(q)
  PROVE  ThreadStep(q)
<1>1. /\ workers \in [Proc -> BOOLEAN] /\ term \in [Proc -> BOOLEAN] /\ gaveUp \in [Proc -> BOOLEAN]
      /\ workers[q] => WorkersAt(drv[q], term[q], gaveUp[q])
  BY DEF AloneInv, ThreadTypes, WorkersAreKnown
<1>2. CASE \/ Launch(q) \/ AcquireStep(q) \/ AcquireFails(q) \/ RefuseStart(q)
           \/ EnterSetup(q) \/ StartRun(q) \/ SetupFails(q)
  <2>1. /\ UNCHANGED <<workers, term, gaveUp>>
        /\ drv[q] \in {"off", "acquiring", "refusing", "granted", "setup"}
        /\ \E to \in {"acquiring", "granted", "refusing", "done", "setup", "running", "stamp"} : GoDrv(q, to)
    BY <1>2 DEF Launch, AcquireStep, AcquireFails, RefuseStart, EnterSetup, StartRun, SetupFails, Move
  <2>2. PICK to \in Drv : GoDrv(q, to)
    BY <2>1 DEF Drv, Setup, Work, Exit
  <2>3. ~workers[q]
    BY <1>1, <2>1 DEF WorkersAt
  <2> QED
    BY <2>1, <2>2, <2>3, MovesKeepWorkers
<1>3. CASE Section(q) \/ Recheck(q) \/ BeginFanOut(q) \/ GuardedWrite(q) \/ Finish(q) \/ ReadPause(q)
  <2>1. /\ UNCHANGED <<workers, term, gaveUp>>
        /\ drv[q] \in {"running", "recheck", "guarded", "judging", "pausing"}
        /\ \E to \in Drv : GoDrv(q, to)
    <3>1. CASE Section(q) \/ Recheck(q)
      BY <3>1 DEF Section, Recheck, Fence, Guarded, Drv, Work, Wait
    <3>2. CASE BeginFanOut(q) \/ GuardedWrite(q) \/ Finish(q) \/ ReadPause(q)
      BY <3>2 DEF BeginFanOut, GuardedWrite, Finish, ReadPause, Move, Guarded, Drv, Work, Wait, Exit
    <3> QED
      BY <1>3, <3>1, <3>2
  <2>2. ~workers[q]
    BY <1>1, <2>1 DEF WorkersAt
  <2> QED
    BY <2>1, <2>2, MovesKeepWorkers
<1>4. CASE JoinWorkers(q) \/ Close(q)
  <2>1. /\ workers' = [workers EXCEPT ![q] = FALSE] /\ UNCHANGED <<term, gaveUp>>
        /\ \E to \in Drv : GoDrv(q, to)
    BY <1>4 DEF JoinWorkers, Close, Drv, Work
  <2>2. PICK to \in Drv : drv' = [drv EXCEPT ![q] = to]
    BY <2>1 DEF GoDrv
  <2>3. /\ term' = [term EXCEPT ![q] = term[q]] /\ term[q] \in BOOLEAN
        /\ gaveUp' = [gaveUp EXCEPT ![q] = gaveUp[q]] /\ gaveUp[q] \in BOOLEAN
    BY <1>1, <2>1
  <2> QED
    BY <2>1, <2>2, <2>3 DEF ThreadStep
<1>5. CASE Poll(q) \/ WaitFails(q)
  <2>1. /\ UNCHANGED <<workers, gaveUp>> /\ \E to \in Drv : GoDrv(q, to)
        /\ UNCHANGED term \/ term' = [term EXCEPT ![q] = TRUE]
        /\ drv[q] \in Wait
    BY <1>5 DEF Poll, WaitFails, LeaveWait, Wait, Drv, Work, Exit
  <2>2. ~workers[q]
    BY <1>1, <2>1 DEF WorkersAt, Wait
  <2>3. /\ workers' = [workers EXCEPT ![q] = FALSE]
        /\ gaveUp' = [gaveUp EXCEPT ![q] = gaveUp[q]] /\ gaveUp[q] \in BOOLEAN
    BY <1>1, <2>1, <2>2
  <2>4. PICK to \in Drv : drv' = [drv EXCEPT ![q] = to]
    BY <2>1 DEF GoDrv
  <2>5. PICK t \in BOOLEAN : term' = [term EXCEPT ![q] = t]
    BY <1>1, <2>1
  <2> QED
    BY <2>3, <2>4, <2>5 DEF ThreadStep
<1>6. CASE Wake(q)
  <2>1. /\ UNCHANGED <<term, gaveUp>> /\ drv[q] = "waking"
        /\ \/ GoDrv(q, "fanout") /\ workers' = [workers EXCEPT ![q] = TRUE]
           \/ GoDrv(q, "recheck") /\ UNCHANGED workers
    BY <1>6 DEF Wake
  <2>2. CASE GoDrv(q, "fanout") /\ workers' = [workers EXCEPT ![q] = TRUE]
    <3>1. /\ term' = [term EXCEPT ![q] = term[q]] /\ term[q] \in BOOLEAN
          /\ gaveUp' = [gaveUp EXCEPT ![q] = gaveUp[q]] /\ gaveUp[q] \in BOOLEAN
      BY <1>1, <2>1
    <3>2. "fanout" \in Drv /\ WorkersAt("fanout", term[q], gaveUp[q])
      BY DEF Drv, Work, WorkersAt
    <3> QED
      BY <2>2, <3>1, <3>2 DEF ThreadStep, GoDrv
  <2>3. CASE GoDrv(q, "recheck") /\ UNCHANGED workers
    <3>1. ~workers[q] /\ "recheck" \in Drv
      BY <1>1, <2>1 DEF WorkersAt, Drv, Work
    <3> QED
      BY <2>1, <2>3, <3>1, MovesKeepWorkers
  <2> QED
    BY <2>1, <2>2, <2>3
<1>7. CASE ClearCheck(q) \/ ClearPause(q) \/ RecordExit(q) \/ StampEnd(q) \/ EndLease(q) \/ ExitFault(q)
  <2>1. /\ UNCHANGED <<workers, term, gaveUp>>
        /\ \/ drv[q] \in {"clearing", "clear"} /\ GoDrv(q, "record")
           \/ drv[q] = "clearing" /\ GoDrv(q, "clear")
           \/ drv[q] = "record" /\ GoDrv(q, "stamp")
           \/ drv[q] = "stamp" /\ GoDrv(q, IF term[q] THEN "quiet" ELSE "release")
           \/ drv[q] = "release" /\ GoDrv(q, "closing")
    BY <1>7 DEF ClearCheck, ClearPause, RecordExit, StampEnd, EndLease, ExitFault, Fence
  <2>2. PICK to \in {"record", "clear", "stamp", "quiet", "release", "closing"} :
          /\ GoDrv(q, to)
          /\ WorkersAt(drv[q], term[q], gaveUp[q]) => WorkersAt(to, term[q], gaveUp[q])
    BY <2>1 DEF WorkersAt
  <2>3. to \in Drv
    BY DEF Drv, Exit
  <2> QED
    BY <1>1, <2>1, <2>2, <2>3, MovesKeepWorkers
<1>8. CASE Quiet(q)
  <2>1. /\ UNCHANGED <<workers, term>> /\ gaveUp' = [gaveUp EXCEPT ![q] = workers[q]]
        /\ GoDrv(q, "release")
    BY <1>8 DEF Quiet
  <2>2. /\ workers' = [workers EXCEPT ![q] = workers[q]] /\ term' = [term EXCEPT ![q] = term[q]]
        /\ workers[q] \in BOOLEAN /\ term[q] \in BOOLEAN /\ "release" \in Drv
    BY <1>1, <2>1 DEF Drv, Exit
  <2>3. workers[q] => WorkersAt("release", term[q], workers[q])
    BY DEF WorkersAt
  <2> QED
    BY <2>1, <2>2, <2>3 DEF ThreadStep, GoDrv
<1> QED
  BY <1>2, <1>3, <1>4, <1>5, <1>6, <1>7, <1>8 DEF DriverStep

\* Signals, deaths and the other threads: a signal that is caught in a fan-out leaves the
\* workers to the wait for them, one that is not caught ends them with the process.
LEMMA OthersKeepWorkers ==
  ASSUME AloneInv, [LeasedRunNext]_vars, \A q \in Proc : ~DriverStep(q)
  PROVE  ThreadTypes' /\ WorkersAreKnown'
<1>1. /\ workers \in [Proc -> BOOLEAN] /\ term \in [Proc -> BOOLEAN] /\ gaveUp \in [Proc -> BOOLEAN]
      /\ drv \in [Proc -> Drv]
      /\ \A q \in Proc : workers[q] => WorkersAt(drv[q], term[q], gaveUp[q])
  BY DEF AloneInv, FenceInv, ThreadTypes, WorkersAreKnown
<1>2. ASSUME NEW q \in Proc, Sigterm(q)
      PROVE  ThreadStep(q)
  <2>1. /\ GoDrv(q, CaughtAt(drv[q])) /\ term' = [term EXCEPT ![q] = TRUE] /\ UNCHANGED gaveUp
        /\ CaughtAt(drv[q]) = "done" => workers' = [workers EXCEPT ![q] = FALSE]
        /\ CaughtAt(drv[q]) # "done" => UNCHANGED workers
    BY <1>2 DEF Sigterm
  <2>2. CaughtAt(drv[q]) \in {"stamp", "clearing", "record", "done"}
    BY DEF CaughtAt
  <2>3. CaughtAt(drv[q]) \in Drv
    BY <2>2 DEF Drv, Exit
  <2>4. gaveUp' = [gaveUp EXCEPT ![q] = gaveUp[q]] /\ gaveUp[q] \in BOOLEAN
    BY <1>1, <2>1
  <2>5. CASE CaughtAt(drv[q]) = "done"
    BY <2>1, <2>3, <2>4, <2>5 DEF ThreadStep, GoDrv
  <2>6. CASE CaughtAt(drv[q]) # "done"
    <3>1. WorkersAt(CaughtAt(drv[q]), TRUE, gaveUp[q])
      BY <2>2, <2>6 DEF WorkersAt
    <3>2. workers' = [workers EXCEPT ![q] = workers[q]] /\ workers[q] \in BOOLEAN
      BY <1>1, <2>1, <2>6
    <3> QED
      BY <2>1, <2>3, <2>4, <3>1, <3>2 DEF ThreadStep, GoDrv
  <2> QED
    BY <2>5, <2>6
<1>3. ASSUME NEW q \in Proc, Kill(q)
      PROVE  ThreadStep(q)
  <2>1. /\ GoDrv(q, "done") /\ workers' = [workers EXCEPT ![q] = FALSE] /\ UNCHANGED <<term, gaveUp>>
    BY <1>3 DEF Kill
  <2>2. /\ term' = [term EXCEPT ![q] = term[q]] /\ term[q] \in BOOLEAN
        /\ gaveUp' = [gaveUp EXCEPT ![q] = gaveUp[q]] /\ gaveUp[q] \in BOOLEAN /\ "done" \in Drv
    BY <1>1, <2>1 DEF Drv
  <2> QED
    BY <2>1, <2>2 DEF ThreadStep, GoDrv
<1>4. ASSUME NEW q \in Proc, WorkerStops(q)
      PROVE  ThreadTypes' /\ WorkersAreKnown'
  BY <1>1, <1>4 DEF WorkerStops, ThreadTypes, WorkersAreKnown
<1>5. ASSUME UNCHANGED <<drv, workers, term, gaveUp>>
      PROVE  ThreadTypes' /\ WorkersAreKnown'
  BY <1>1, <1>5 DEF ThreadTypes, WorkersAreKnown
<1>6. ASSUME NEW q \in Proc, Beat(q) \/ HeartbeatStops(q)
      PROVE  UNCHANGED <<drv, workers, term, gaveUp>>
  BY <1>6 DEF Beat, HeartbeatStops, runVars
<1>7. ASSUME NEW h \in Holder, PauseRun(h) \/ ResumeRun(h)
      PROVE  UNCHANGED <<drv, workers, term, gaveUp>>
  BY <1>7 DEF PauseRun, ResumeRun
<1>8. CASE Time \/ UNCHANGED vars
  BY <1>5, <1>8 DEF Time, vars, runVars
<1> QED
  BY <1>2, <1>3, <1>4, <1>5, <1>6, <1>7, <1>8, ThreadStepKeeps DEF LeasedRunNext

\* Who is at its end stays there.
LEMMA EndIsFinal ==
  ASSUME [LeasedRunNext]_vars, NEW p \in Proc, drv \in [Proc -> Drv], drv[p] \in {"closing", "done"}
  PROVE  drv'[p] \in {"closing", "done"}
<1>1. CASE Sigterm(p) \/ Kill(p)
  BY <1>1 DEF Sigterm, Kill, GoDrv, CaughtAt, Work, Wait, Guarded
<1>2. CASE DriverStep(p)
  <2>1. ~(\/ Launch(p) \/ AcquireStep(p) \/ AcquireFails(p) \/ RefuseStart(p)
          \/ EnterSetup(p) \/ StartRun(p) \/ SetupFails(p))
    BY DEF Launch, AcquireStep, AcquireFails, RefuseStart, EnterSetup, StartRun, SetupFails, Move
  <2>2. ~(Section(p) \/ BeginFanOut(p) \/ Recheck(p) \/ GuardedWrite(p) \/ JoinWorkers(p) \/ Finish(p))
    BY DEF Section, Recheck, BeginFanOut, GuardedWrite, JoinWorkers, Finish, Move, Fence, Guarded
  <2>3. ~(ReadPause(p) \/ Poll(p) \/ Wake(p) \/ WaitFails(p))
    BY DEF ReadPause, Poll, Wake, WaitFails, Wait
  <2>4. ~(\/ ClearCheck(p) \/ ClearPause(p) \/ RecordExit(p) \/ StampEnd(p) \/ Quiet(p)
          \/ EndLease(p) \/ ExitFault(p))
    BY DEF ClearCheck, ClearPause, RecordExit, StampEnd, Quiet, EndLease, ExitFault, Fence
  <2>5. Close(p)
    BY <1>2, <2>1, <2>2, <2>3, <2>4 DEF DriverStep
  <2> QED
    BY <2>5 DEF Close, GoDrv
<1> QED
  BY <1>1, <1>2, OwnStepsMove

\* A lease is given back by the end of a run, and by nothing else.
LEMMA OnlyEndsGiveBack ==
  ASSUME [LeasedRunNext]_vars
  PROVE  released' = released \/ \E q \in Proc : EndLease(q) /\ Release(q)
<1>1. ASSUME NEW q \in Proc, NEW status, Renew(q, status)
      PROVE  released' = released
  BY <1>1 DEF Renew
<1>2. ASSUME UNCHANGED leaseVars
      PROVE  released' = released
  BY <1>2 DEF leaseVars
<1>3. ASSUME NEW q \in Proc, DriverStep(q), ~EndLease(q)
      PROVE  released' = released
  <2>1. CASE Launch(q) \/ AcquireStep(q) \/ AcquireFails(q)
    BY <2>1 DEF Launch, BeginAcquire, AcquireStep, Take, Insert, Read, Granted, GoTo, AcquireFails, Crash
  <2>2. CASE Poll(q) \/ Wake(q)
    BY <2>2, <1>1, <1>2 DEF Poll, Wake
  <2>3. CASE \/ RefuseStart(q) \/ EnterSetup(q) \/ StartRun(q) \/ SetupFails(q)
             \/ Section(q) \/ BeginFanOut(q) \/ Recheck(q) \/ GuardedWrite(q)
             \/ JoinWorkers(q) \/ Finish(q) \/ ReadPause(q) \/ WaitFails(q)
    BY <2>3, <1>2 DEF RefuseStart, EnterSetup, StartRun, SetupFails, Section, BeginFanOut,
                      Recheck, GuardedWrite, JoinWorkers, Finish, ReadPause, WaitFails, Move, Fence
  <2>4. CASE \/ ClearCheck(q) \/ ClearPause(q) \/ RecordExit(q) \/ StampEnd(q)
             \/ Quiet(q) \/ ExitFault(q) \/ Close(q)
    BY <2>4, <1>2 DEF ClearCheck, ClearPause, RecordExit, StampEnd, Quiet, ExitFault, Close, Fence
  <2> QED
    BY <1>3, <2>1, <2>2, <2>3, <2>4 DEF DriverStep
<1>4. ASSUME NEW q \in Proc, EndLease(q), ~Release(q)
      PROVE  released' = released
  BY <1>2, <1>4 DEF EndLease
<1>5. ASSUME NEW q \in Proc, Sigterm(q) \/ Kill(q)
      PROVE  released' = released
  BY <1>5 DEF Sigterm, Kill, Crash, leaseVars
<1>6. ASSUME NEW q \in Proc, WorkerStops(q) \/ Beat(q) \/ HeartbeatStops(q)
      PROVE  released' = released
  BY <1>1, <1>2, <1>6 DEF WorkerStops, Beat, HeartbeatStops
<1>7. ASSUME NEW h \in Holder, PauseRun(h) \/ ResumeRun(h)
      PROVE  released' = released
  BY <1>7 DEF PauseRun, ResumeRun, leaseVars
<1>8. CASE Time \/ UNCHANGED vars
  BY <1>8 DEF Time, Tick, vars, leaseVars
<1> QED
  BY <1>3, <1>4, <1>5, <1>6, <1>7, <1>8 DEF LeasedRunNext

\* What a process holds after a step: nothing, what it held, or a new epoch.
LEMMA HeldSteps ==
  ASSUME FenceInv, [LeaseNext]_leaseVars, NEW p \in Proc
  PROVE  held'[p] = 0 \/ held'[p] = held[p] \/ (held'[p] = row.epoch + 1 /\ released' = released)
<1>1. held \in [Proc -> Nat]
  BY FenceTypes
<1>2. ASSUME NEW q \in Proc, Granted(q, row.epoch + 1, row.epoch + 1)
      PROVE  held'[p] = held[p] \/ (held'[p] = row.epoch + 1 /\ released' = released)
  BY <1>1, <1>2 DEF Granted
<1> QED
  BY <1>2, RowSteps DEF RowStays, Release

LEMMA GivenBackKept ==
  ASSUME AloneInv, [LeasedRunNext]_vars
  PROVE  GivenBackAtTheEnd'
<1>0. FenceInv /\ GivenBackAtTheEnd /\ drv \in [Proc -> Drv] /\ LeaseInv
  BY DEF AloneInv, FenceInv
<1>1. [LeaseNext]_leaseVars
  BY StepIsLeaseStep
<1>2. released \subseteq Nat /\ \A e \in released : e <= row.epoch /\ e > 0
  BY <1>0 DEF GivenBackAtTheEnd, LeaseInv, LeaseTypeOK, ReleasedIsPast
<1>3. CASE released' = released
  <2>1. ASSUME NEW p \in Proc, held'[p] > 0, held'[p] \in released
        PROVE  drv'[p] \in {"closing", "done"}
    <3>1. held'[p] = held[p]
      BY <1>0, <1>1, <1>2, <2>1, HeldSteps, FenceTypes
    <3>2. drv[p] \in {"closing", "done"}
      BY <1>0, <2>1, <3>1 DEF GivenBackAtTheEnd
    <3> QED
      BY <1>0, <3>2, EndIsFinal
  <2> QED
    BY <1>2, <1>3, <2>1 DEF GivenBackAtTheEnd
<1>4. ASSUME NEW q \in Proc, EndLease(q), Release(q)
      PROVE  GivenBackAtTheEnd'
  <2>1. held' = held /\ released' = released \cup {held[q]} /\ held[q] > 0 /\ GoDrv(q, "closing")
    BY <1>4 DEF Release, EndLease
  <2>2. ASSUME NEW p \in Proc, held[p] > 0, held[p] = held[q]
        PROVE  p = q
    <3>1. <<p, held[p]>> \in grants /\ <<q, held[q]>> \in grants
      BY <1>0, <2>1, <2>2 DEF LeaseInv, HeldIsGranted
    <3>2. <<p, held[p]>>[1] = <<q, held[q]>>[1]
      BY <1>0, <2>2, <3>1 DEF LeaseInv, UniqueGrants
    <3> QED
      BY <3>2
  <2>3. ASSUME NEW p \in Proc, held'[p] > 0, held'[p] \in released'
        PROVE  drv'[p] \in {"closing", "done"}
    <3>1. CASE p = q
      BY <1>0, <2>1, <3>1 DEF GoDrv
    <3>2. CASE p # q
      <4>1. held[p] \in released /\ held[p] > 0
        BY <2>1, <2>2, <2>3, <3>2
      <4>2. drv[p] \in {"closing", "done"}
        BY <1>0, <4>1 DEF GivenBackAtTheEnd
      <4> QED
        BY <1>0, <4>2, EndIsFinal
    <3> QED
      BY <3>1, <3>2
  <2> QED
    BY <1>2, <2>1, <2>3 DEF GivenBackAtTheEnd
<1> QED
  BY <1>3, <1>4, OnlyEndsGiveBack

LEMMA AloneInit == LeasedRunInit => AloneInv
<1> SUFFICES ASSUME LeasedRunInit
             PROVE  AloneInv
  OBVIOUS
<1>1. ThreadTypes /\ WorkersAreKnown /\ GivenBackAtTheEnd
  BY DEF LeasedRunInit, LeaseInit, ThreadTypes, WorkersAreKnown, GivenBackAtTheEnd
<1> QED
  BY <1>1, FenceInvInit DEF AloneInv

LEMMA AloneNext == AloneInv /\ [LeasedRunNext]_vars => AloneInv'
<1> SUFFICES ASSUME AloneInv, [LeasedRunNext]_vars
             PROVE  AloneInv'
  OBVIOUS
<1>1. FenceInv'
  BY FenceInvNext DEF AloneInv
<1>2. ThreadTypes' /\ WorkersAreKnown'
  BY DriversKeepWorkers, ThreadStepKeeps, OthersKeepWorkers
<1> QED
  BY <1>1, <1>2, GivenBackKept DEF AloneInv

\* Who takes a lease that was given back starts alone, unless the run that gave it back
\* waited for its workers in vain: _launch and _stop_children_until_quiet, cli.py.
THEOREM SuccessorsStartAlone == LeasedRunSpec => SuccessorStartsAlone
<1>1. ASSUME AloneInv, NEW p \in Proc, held[p] = row.epoch, row.epoch \in released
      PROVE  ~workers[p] \/ gaveUp[p]
  <2>1. drv[p] \in {"closing", "done"}
    BY <1>1 DEF AloneInv, GivenBackAtTheEnd
  <2> QED
    BY <1>1, <2>1 DEF AloneInv, WorkersAreKnown, WorkersAt
<1>2. AloneInv
        => [\A p \in Proc :
              /\ row'.epoch # row.epoch
              /\ held[p] = row.epoch
              /\ row.epoch \in released
              => ~workers[p] \/ gaveUp[p]]_vars
  BY <1>1
<1> QED
  BY <1>2, AloneInit, AloneNext, PTL DEF LeasedRunSpec, SuccessorStartsAlone
=============================================================================
