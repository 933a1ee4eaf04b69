----------------------------- MODULE WorkItems -----------------------------
(***************************************************************************)
(* One work item: its `work_items` row and its work file, and all that     *)
(* writes them.  Drivers mirror the file into the row or the row into the  *)
(* file (harness/epic.py, harness/work_mirror.py) and move the item; the   *)
(* command line sets states (harness/store_work_state.py); the queue verbs *)
(* upsert, claim and release the row (harness/store_queue.py).             *)
(*                                                                         *)
(* A SQL statement is one step, and so is a transaction that a lock makes  *)
(* one.  `upsert` of the queue reads before it writes, which under         *)
(* Postgres (read committed) are two steps; under SQLite BEGIN IMMEDIATE   *)
(* lets nothing in between, a subset of these behaviours.  Only the        *)
(* columns that have more than one writer are here: state, the stamp, one  *)
(* content column (body) and the claim.                                    *)
(***************************************************************************)
EXTENDS Integers

CONSTANTS
  Driver,      \* drivers of the initiative: a run, a rescue, a relaunch
  Claimer,     \* the names that claim a row
  NoOne,       \* not a claimer
  ClaimTtl,    \* how long a claim lasts
  MaxTime,     \* bound: the clock stops here
  MaxOps       \* bound: how many runs, tools and humans start anything

ASSUME WorkItemsAssumption ==
  /\ NoOne \notin Claimer
  /\ Driver \cap {"human", "queue"} = {}
  /\ ClaimTtl \in Nat \ {0}
  /\ MaxTime \in Nat
  /\ MaxOps \in Nat

VARIABLES
  workState,  \* the authority over the state: "files" or "store", fixed
  fileOk,     \* the work file can be read and written, fixed
  now,        \* the clock
  row,        \* the row
  file,       \* the work file's state line, its mtime, and who wrote it last
  drv,        \* the drivers
  queue,      \* the queue upsert that is open
  regen,      \* the state regenerate-states is about to write, or "none"
  won,        \* history: every claim that was won
  freed,      \* history: the epochs whose claim was released
  everIn,     \* history: every state the row ever had
  ops         \* how many runs, tools and humans started anything

fixed == <<workState, fileOk>>
history == <<won, freed, everIn>>
vars == <<fixed, now, row, file, drv, queue, regen, history, ops>>

State == {"ready", "approved", "quarantined"}
Body == {"unset", "new"}
By == Driver \cup {"human", "queue"}
Place == {"off", "loaded", "rows", "ready", "rescuing", "missed", "filing", "mirroring",
          "quarantining"}

NoRow == [state |-> "none", at |-> 0, by |-> "human", body |-> "unset",
          holder |-> NoOne, epoch |-> 0, expires |-> 0]
RowExists == row.state # "none"

\* What an upsert carries: "kept" is a key it leaves out.
Payload == [state : {"kept", "ready"}, body : {"kept", "new"}]
NoUpsert == [sent |-> [state |-> "kept", body |-> "kept"], current |-> NoRow]

\* A driver: where it is, its copy of the item, and what it read of the row and the file.
DriverState == [at : Place, item : State, seen : State \cup {"none"}, seenAt : Nat, mtime : Nat]
Away == [at |-> "off", item |-> "ready", seen |-> "none", seenAt |-> 0, mtime |-> 0]

Row == [state : State \cup {"none"}, at : Nat, by : By, body : Body,
        holder : Claimer \cup {NoOne}, epoch : Nat, expires : Nat]

WorkItemsTypeOK ==
  /\ workState \in {"files", "store"}
  /\ fileOk \in BOOLEAN
  /\ now \in Nat
  /\ row \in Row
  /\ file \in [state : State, at : Nat, by : {"human", "harness"}]
  /\ drv \in [Driver -> DriverState]
  /\ queue \in [sent : Payload, current : Row]
  /\ regen \in State \cup {"none"}
  /\ won \in SUBSET [who : Claimer, epoch : Nat, until : Nat]
  /\ freed \in SUBSET Nat
  /\ everIn \in SUBSET State
  /\ ops \in 0..MaxOps

WorkItemsInit ==
  /\ workState \in {"files", "store"}
  /\ fileOk \in BOOLEAN
  /\ now = 1
  /\ row = NoRow
  /\ file = [state |-> "ready", at |-> 1, by |-> "human"]
  /\ drv = [d \in Driver |-> Away]
  /\ queue = NoUpsert
  /\ regen = "none"
  /\ won = {}
  /\ freed = {}
  /\ everIn = {}
  /\ ops = 0

----------------------------------------------------------------------------
(* Writing the row and the file *)

\* A statement that leaves the claim alone; the history remembers the state.
WriteRow(new) ==
  /\ row' = new
  /\ everIn' = everIn \cup {new.state}
  /\ UNCHANGED <<won, freed>>

\* upsert_work_item: state and stamp, inserted or overwritten.
Upsert(state, at, by) == WriteRow([row EXCEPT !.state = state, !.at = at, !.by = by])

\* Mutant: the UPDATE's WHERE names the key only.
CasBlind(expected, state, by) ==
  IF RowExists THEN Upsert(state, now, by) ELSE UNCHANGED <<row, history>>

\* _cas: the compare lives in the UPDATE's own WHERE.
Cas(expected, state, by) ==
  IF row.state = expected THEN Upsert(state, now, by) ELSE UNCHANGED <<row, history>>

\* _repair_file_state, and the apply arm's write: only the `state:` line.
WriteFile(state) ==
  file' = IF fileOk /\ file.state # state
          THEN [state |-> state, at |-> now, by |-> "harness"]
          ELSE file

\* The driver goes on with its copy of the item; what it read is used up.
Ready(d, item) == drv' = [drv EXCEPT ![d] = [Away EXCEPT !.at = "ready", !.item = item]]

CountOp == ops < MaxOps /\ ops' = ops + 1

GoDrv(d, place) == drv' = [drv EXCEPT ![d].at = place]

----------------------------------------------------------------------------
(* The driver: load the item, mirror it, move it *)

Load(d) ==
  /\ drv[d].at = "off"
  /\ CountOp
  /\ drv' = [drv EXCEPT ![d] = [Away EXCEPT !.at = "loaded", !.item = file.state]]
  /\ UNCHANGED <<fixed, now, row, file, queue, regen, history>>

\* _mirror_read reads the rows and the files' times before it decides anything.
ReadRows(d) ==
  /\ drv[d].at = "loaded"
  /\ drv' = [drv EXCEPT ![d] = [@ EXCEPT !.at = "rows", !.seen = row.state,
                                         !.seenAt = row.at, !.mtime = file.at]]
  /\ UNCHANGED <<fixed, now, row, file, queue, regen, history, ops>>

\* _mirror_read_store: a row wins over its file, and the driver's copy follows it; an item
\* with no row is upserted from its file.
MirrorFromStore(d) ==
  LET seen == drv[d].seen IN
  IF seen = "none"
  THEN /\ Upsert(drv[d].item, IF fileOk THEN drv[d].mtime ELSE now, d)
       /\ Ready(d, drv[d].item)
       /\ UNCHANGED file
  ELSE /\ IF seen = drv[d].item THEN UNCHANGED file ELSE WriteFile(seen)
       /\ Ready(d, seen)
       /\ UNCHANGED <<row, history>>

\* Mutant: a row that is newer than the file is overwritten all the same.
FileWinsAlways(d) == drv[d].seen # drv[d].item

\* _decide, for a row that is there: it is overwritten when it differs, unless it is newer
\* than the file.  An item without a file time is upserted on any difference.
FileWins(d) ==
  /\ drv[d].seen # drv[d].item
  /\ fileOk => drv[d].seenAt <= drv[d].mtime

StampOf(d) ==
  LET times == {drv[d].seenAt, IF fileOk THEN drv[d].mtime ELSE now}
  IN  CHOOSE t \in times : \A u \in times : u <= t

\* plan_mirror and its upserts: the files stay authoritative, the copy is never touched.
MirrorFromFiles(d) ==
  /\ IF drv[d].seen = "none" \/ FileWins(d)
     THEN Upsert(drv[d].item, StampOf(d), d)
     ELSE UNCHANGED <<row, history>>
  /\ Ready(d, drv[d].item)
  /\ UNCHANGED file

Mirror(d) ==
  /\ drv[d].at = "rows"
  /\ IF workState = "store" THEN MirrorFromStore(d) ELSE MirrorFromFiles(d)
  /\ UNCHANGED <<fixed, now, queue, regen, ops>>

\* A rescue takes its item as the file has it and mirrors nothing.
Rescue(d) ==
  /\ drv[d].at = "loaded"
  /\ GoDrv(d, "rescuing")
  /\ UNCHANGED <<fixed, now, row, file, queue, regen, history, ops>>

\* A run moves items that are ready, a rescue its one item from whatever state it has.
Moves(d) == drv[d].at = "rescuing" \/ (drv[d].at = "ready" /\ drv[d].item = "ready")

\* Mutant: the file line is written before the store has accepted the move.
ApproveFileFirst(d) ==
  /\ workState = "store"
  /\ Moves(d)
  /\ WriteFile("approved")
  /\ Cas(drv[d].item, "approved", d)
  /\ GoDrv(d, IF row.state = drv[d].item THEN "filing" ELSE "missed")
  /\ UNCHANGED <<fixed, now, queue, regen, ops>>

\* _store_first: compare-and-set on the state the driver read.  A miss is answered with the
\* row's state, which under Postgres is read by a later statement.  A store error refuses
\* the move and leaves everything as it is.
Approve(d) ==
  /\ workState = "store"
  /\ Moves(d)
  /\ Cas(drv[d].item, "approved", d)
  /\ GoDrv(d, IF row.state = drv[d].item THEN "filing" ELSE "missed")
  /\ UNCHANGED <<fixed, now, file, queue, regen, ops>>

\* The store accepts and the connection drops before it says so: to the driver, a refusal.
AnswerLost(d) ==
  /\ workState = "store"
  /\ Moves(d)
  /\ Cas(drv[d].item, "approved", d)
  /\ Ready(d, drv[d].item)
  /\ UNCHANGED <<fixed, now, file, queue, regen, ops>>

\* A refused move adopts the store's state; the file is left for a later mirror.
AdoptStored(d) ==
  /\ drv[d].at = "missed"
  /\ Ready(d, IF RowExists THEN row.state ELSE drv[d].item)
  /\ UNCHANGED <<fixed, now, row, file, queue, regen, history, ops>>

\* The store's acceptance is the move; the driver then writes the file's line.
FileApproved(d) ==
  /\ drv[d].at = "filing"
  /\ WriteFile("approved")
  /\ Ready(d, "approved")
  /\ UNCHANGED <<fixed, now, row, queue, regen, history, ops>>

\* Under files the apply arm writes the file, and fails when it cannot.
ApplyApproved(d) ==
  /\ workState = "files"
  /\ fileOk
  /\ Moves(d)
  /\ WriteFile("approved")
  /\ GoDrv(d, "mirroring")
  /\ UNCHANGED <<fixed, now, row, queue, regen, history, ops>>

\* _mirror_write follows the arm.
MirrorWrite(d) ==
  /\ drv[d].at = "mirroring"
  /\ Upsert("approved", now, d)
  /\ Ready(d, "approved")
  /\ UNCHANGED <<fixed, now, file, queue, regen, ops>>

\* _quarantine_row reads the row; `open` is a merge that failed after the move to approved.
QuarantineRead(d) ==
  /\ workState = "store"
  /\ drv[d].at = "ready"
  /\ \E open \in BOOLEAN :
       row.state \in IF open THEN {"ready", "approved"} ELSE {"ready"}
  /\ drv' = [drv EXCEPT ![d].at = "quarantining", ![d].seen = row.state]
  /\ UNCHANGED <<fixed, now, row, file, queue, regen, history, ops>>

\* Its compare-and-set on what it read; whatever the answer, the driver goes on.
QuarantineRow(d) ==
  /\ drv[d].at = "quarantining"
  /\ Cas(drv[d].seen, "quarantined", d)
  /\ Ready(d, drv[d].item)
  /\ UNCHANGED <<fixed, now, file, queue, regen, ops>>

\* The mirrors and the quarantine log a store error and go on without their write.
StoreFails(d) ==
  /\ drv[d].at \in {"loaded", "mirroring", "quarantining"}
  /\ Ready(d, IF drv[d].at = "mirroring" THEN "approved" ELSE drv[d].item)
  /\ UNCHANGED <<fixed, now, row, file, queue, regen, history, ops>>

\* The run ends or dies, between any two of its steps.
Leave(d) ==
  /\ drv[d].at # "off"
  /\ drv' = [drv EXCEPT ![d] = Away]
  /\ UNCHANGED <<fixed, now, row, file, queue, regen, history, ops>>

----------------------------------------------------------------------------
(* The command line and the humans *)

\* set-state without --expect: an upsert.
SetState(state) ==
  /\ CountOp
  /\ Upsert(state, now, "human")
  /\ UNCHANGED <<fixed, now, file, drv, queue, regen>>

\* set-state --expect, where "none" is the ABSENT marker and its insert_ignore.
SetStateExpecting(expected, state) ==
  /\ CountOp
  /\ Cas(expected, state, "human")
  /\ UNCHANGED <<fixed, now, file, drv, queue, regen>>

EditFile(state) ==
  /\ CountOp
  /\ fileOk
  /\ file' = [state |-> state, at |-> now, by |-> "human"]
  /\ UNCHANGED <<fixed, now, row, drv, queue, regen, history>>

\* regenerate-states --apply: file and row are read, and where they differ the file's text
\* is written back with the row's state.
RegenerateRead ==
  /\ CountOp
  /\ fileOk /\ RowExists /\ row.state # file.state
  /\ regen = "none"
  /\ regen' = row.state
  /\ UNCHANGED <<fixed, now, row, file, drv, queue, history>>

RegenerateWrite ==
  /\ regen # "none"
  /\ file' = [state |-> regen, at |-> now, by |-> "harness"]
  /\ regen' = "none"
  /\ UNCHANGED <<fixed, now, row, drv, queue, history, ops>>

----------------------------------------------------------------------------
(* The queue verbs *)

\* A key the payload leaves out keeps what was read.
Kept(sent, stored) == IF sent = "kept" THEN stored ELSE sent

\* Mutant: the write carries the claim columns of the row that was read.
UpsertResolvedWithClaim(sent, current) ==
  LET state == Kept(sent.state, current.state)
      body == Kept(sent.body, current.body)
  IN  IF state = "none" \/ (state = current.state /\ body = current.body)
      THEN UNCHANGED <<row, history>>
      ELSE WriteRow([current EXCEPT !.state = state, !.body = body, !.at = now, !.by = "queue"])

\* What `upsert` writes when it found `current`: nothing when the content is already there,
\* else every content column, those the payload leaves out as they were read.  A new row
\* must carry a state (the column is NOT NULL).
UpsertResolved(sent, current) ==
  LET state == Kept(sent.state, current.state)
      body == Kept(sent.body, current.body)
  IN  IF state = "none" \/ (state = current.state /\ body = current.body)
      THEN UNCHANGED <<row, history>>
      ELSE WriteRow([row EXCEPT !.state = state, !.body = body, !.at = now, !.by = "queue"])

QueueRead(sent) ==
  /\ queue = NoUpsert
  /\ CountOp
  /\ queue' = [sent |-> sent, current |-> row]
  /\ UNCHANGED <<fixed, now, row, file, drv, regen, history>>

QueueWrite ==
  /\ queue # NoUpsert
  /\ UpsertResolved(queue.sent, queue.current)
  /\ queue' = NoUpsert
  /\ UNCHANGED <<fixed, now, file, drv, regen, ops>>

\* The claim's WHERE: unclaimed, expired before the caller's NOW, or its own.
Claimable(who, at) ==
  row.holder = NoOne \/ row.expires < at \/ row.holder = who

\* One conditional UPDATE, read back in the same transaction.  NOW comes from the command
\* line and may be a second old.
Claim(who) ==
  /\ CountOp
  /\ RowExists
  /\ \E at \in {now - 1, now} :
       /\ at > 0
       /\ Claimable(who, at)
       /\ row' = [row EXCEPT !.holder = who, !.epoch = @ + 1, !.expires = at + ClaimTtl]
       /\ won' = won \cup {[who |-> who, epoch |-> row.epoch + 1, until |-> at + ClaimTtl]}
  /\ UNCHANGED <<fixed, now, file, drv, queue, regen, freed, everIn>>

\* Mutant: a release forgets the row's epoch.
ReleaseResets(who) ==
  /\ CountOp
  /\ row.holder = who
  /\ row' = [row EXCEPT !.holder = NoOne, !.expires = 0, !.epoch = 0]
  /\ freed' = freed \cup {row.epoch}
  /\ UNCHANGED <<fixed, now, file, drv, queue, regen, won, everIn>>

\* release matches the holder's name, not the epoch.
ReleaseClaim(who) ==
  /\ CountOp
  /\ row.holder = who
  /\ row' = [row EXCEPT !.holder = NoOne, !.expires = 0]
  /\ freed' = freed \cup {row.epoch}
  /\ UNCHANGED <<fixed, now, file, drv, queue, regen, won, everIn>>

Tick ==
  /\ now < MaxTime
  /\ now' = now + 1
  /\ UNCHANGED <<fixed, row, file, drv, queue, regen, history, ops>>

WorkItemsNext ==
  \/ \E d \in Driver :
       \/ Load(d) \/ ReadRows(d) \/ Mirror(d) \/ Rescue(d) \/ StoreFails(d)
       \/ Approve(d) \/ AnswerLost(d) \/ AdoptStored(d) \/ FileApproved(d)
       \/ ApplyApproved(d) \/ MirrorWrite(d)
       \/ QuarantineRead(d) \/ QuarantineRow(d)
       \/ Leave(d)
  \/ \E state \in State :
       \/ SetState(state)
       \/ \E expected \in State \cup {"none"} : SetStateExpecting(expected, state)
       \/ EditFile(state)
  \/ RegenerateRead \/ RegenerateWrite
  \/ \E sent \in Payload : QueueRead(sent)
  \/ QueueWrite
  \/ \E who \in Claimer : Claim(who) \/ ReleaseClaim(who)
  \/ Tick

WorkItemsSpec == WorkItemsInit /\ [][WorkItemsNext]_vars

----------------------------------------------------------------------------
(* Properties *)

\* The state a driver knows the row to be in, by what it read of it.
Believed(d) == IF drv[d].at = "quarantining" THEN drv[d].seen ELSE drv[d].item

\* Under store authority no driver moves an item from a state it did not know of: between
\* its read and its write anybody may have moved the row, and then its move is refused.
\* (A driver that read no row inserts one from the file, whoever was faster.)
KnowingMoves ==
  [][\A d \in Driver :
       /\ workState = "store"
       /\ RowExists /\ row'.state # row.state
       /\ row'.by = d
       => \/ Believed(d) = row.state
          \/ drv[d].at = "rows" /\ drv[d].seen = "none"]_vars

\* Under store authority the harness writes no state into a work file that the row never
\* had: no crash and no refusal leaves a file ahead of its row.
FileFollowsRow ==
  workState = "store" /\ file.by = "harness" => file.state \in everIn

\* What the driver read of the item is still so.
StillAsRead(d) ==
  /\ row.state = drv[d].seen /\ row.at = drv[d].seenAt
  /\ file.state = drv[d].item /\ file.at = drv[d].mtime

\* A mirror that nobody interrupts settles the item, whatever earlier crash it finds: under
\* store the copy and the file follow the row; under files the row follows the file, unless
\* the row is newer, and then it is left alone for a human.
MirrorSettles ==
  [][\A d \in Driver :
       /\ drv[d].at = "rows" /\ drv'[d].at = "ready"
       /\ StillAsRead(d)
       => IF workState = "store"
          THEN /\ drv'[d].item = row'.state
               /\ RowExists => row' = row
               /\ fileOk => file'.state = row'.state
          ELSE /\ file' = file
               /\ IF fileOk /\ row.at > file.at
                  THEN row' = row
                  ELSE row'.state = file.state]_vars

\* The last claim a name won, as long as nobody released it under that name.
Standing(c) ==
  /\ \A o \in won : o.who = c.who => o.epoch <= c.epoch
  /\ c.epoch \notin freed

\* A claim that was won stands to its last second: nobody else takes the row, whoever
\* upserts it meanwhile and from whatever earlier read.
ClaimStands ==
  \A c \in won : Standing(c) /\ now <= c.until => row.holder = c.who

\* No two claims were won at one epoch.
UniqueClaims ==
  \A c, o \in won : c.epoch = o.epoch => c = o

----------------------------------------------------------------------------
(* A claim of the repository that the code does not keep under Postgres *)

\* "Any other content key the row leaves out keeps its stored value on an update": an upsert
\* that carries no state leaves the state that is stored.
OmittedKeyIsKept ==
  [][/\ queue # NoUpsert /\ queue' = NoUpsert
     /\ queue.sent.state = "kept"
     => row'.state = row.state]_vars
=============================================================================
