-------------------------- MODULE WorkItemsProofs --------------------------
(***************************************************************************)
(* Proofs about WorkItems, for any drivers, claimers, claim time and       *)
(* bounds.                                                                 *)
(***************************************************************************)
EXTENDS WorkItems, TLAPS

----------------------------------------------------------------------------
(* What writes the row *)

\* The claim and its history are as they were.
KeepsClaim ==
  /\ row'.holder = row.holder /\ row'.epoch = row.epoch /\ row'.expires = row.expires
  /\ won' = won /\ freed' = freed

\* A step that may write the content of the row, never its claim.
Content ==
  /\ row' \in Row
  /\ everIn' \in SUBSET State
  /\ everIn \subseteq everIn'
  /\ row' = row \/ row'.state \in everIn'
  /\ KeepsClaim

\* An upsert writes state, stamp and author and leaves the claim alone.
LEMMA UpsertEffect ==
  ASSUME WorkItemsTypeOK, NEW s \in State, NEW a \in Nat, NEW b \in By, Upsert(s, a, b)
  PROVE  Content /\ row'.state = s /\ row'.by = b /\ everIn' = everIn \cup {s}
<1>1. row \in Row /\ everIn \in SUBSET State
  BY DEF WorkItemsTypeOK
<1>2. row' = [row EXCEPT !.state = s, !.at = a, !.by = b]
  BY DEF Upsert, WriteRow
<1>3. row' = [state |-> s, at |-> a, by |-> b, body |-> row.body,
              holder |-> row.holder, epoch |-> row.epoch, expires |-> row.expires]
  BY <1>1, <1>2 DEF Row
<1>4. row' \in Row /\ row'.state = s /\ row'.by = b
  BY <1>1, <1>3 DEF Row
<1>5. row'.holder = row.holder /\ row'.epoch = row.epoch /\ row'.expires = row.expires
  BY <1>3
<1>6. everIn' = everIn \cup {s}
  <2>1. everIn' = everIn \cup {[row EXCEPT !.state = s, !.at = a, !.by = b].state}
    BY DEF Upsert, WriteRow
  <2> QED BY <2>1, <1>2, <1>4
<1>7. won' = won /\ freed' = freed
  BY DEF Upsert, WriteRow
<1> QED
  BY <1>1, <1>4, <1>5, <1>6, <1>7 DEF Content, KeepsClaim

\* Nothing written is content, too.
LEMMA NoWrite ==
  ASSUME WorkItemsTypeOK, UNCHANGED <<row, history>>
  PROVE  Content /\ row' = row /\ everIn' = everIn
BY DEF WorkItemsTypeOK, Content, KeepsClaim, history

\* A compare-and-set writes when the row is in the expected state, or nothing.
LEMMA CasEffect ==
  ASSUME WorkItemsTypeOK, NEW e, NEW s \in State, NEW b \in By, Cas(e, s, b)
  PROVE  /\ Content
         /\ \/ row.state = e /\ row'.state = s /\ row'.by = b /\ everIn' = everIn \cup {s}
            \/ row.state # e /\ row' = row /\ everIn' = everIn
<1>1. now \in Nat
  BY DEF WorkItemsTypeOK
<1>2. CASE row.state = e
  <2>1. Upsert(s, now, b)
    BY <1>2 DEF Cas
  <2> QED BY <1>1, <1>2, <2>1, UpsertEffect
<1>3. CASE row.state # e
  <2>1. UNCHANGED <<row, history>>
    BY <1>3 DEF Cas
  <2> QED BY <1>3, <2>1, NoWrite
<1> QED BY <1>2, <1>3

\* A queue upsert writes content columns as "queue", or nothing.
LEMMA ResolvedEffect ==
  ASSUME WorkItemsTypeOK, NEW sent \in Payload, NEW current \in Row,
         UpsertResolved(sent, current)
  PROVE  Content /\ (row' = row \/ row'.by = "queue")
<1> DEFINE state == Kept(sent.state, current.state)
           body == Kept(sent.body, current.body)
<1>1. row \in Row /\ everIn \in SUBSET State /\ now \in Nat
  BY DEF WorkItemsTypeOK
<1>2. CASE state = "none" \/ (state = current.state /\ body = current.body)
  <2>1. UNCHANGED <<row, history>>
    BY <1>2 DEF UpsertResolved
  <2> QED BY <2>1, NoWrite
<1>3. CASE ~(state = "none" \/ (state = current.state /\ body = current.body))
  <2>1. WriteRow([row EXCEPT !.state = state, !.body = body, !.at = now, !.by = "queue"])
    BY <1>3 DEF UpsertResolved
  <2>2. state \in State /\ body \in Body
    BY <1>3 DEF Kept, Payload, Row, State, Body
  <2> HIDE DEF state, body
  <2>3. row' = [row EXCEPT !.state = state, !.body = body, !.at = now, !.by = "queue"]
    BY <2>1 DEF WriteRow
  <2>4. row' = [state |-> state, at |-> now, by |-> "queue", body |-> body,
                holder |-> row.holder, epoch |-> row.epoch, expires |-> row.expires]
    BY <1>1, <2>3 DEF Row
  <2>5. "queue" \in By
    BY DEF By
  <2>6. row' \in Row /\ row'.state = state /\ row'.by = "queue"
    BY <1>1, <2>2, <2>4, <2>5 DEF Row
  <2>7. row'.holder = row.holder /\ row'.epoch = row.epoch /\ row'.expires = row.expires
    BY <2>4
  <2>8. everIn' = everIn \cup {state} /\ won' = won /\ freed' = freed
    BY <2>1, <2>3, <2>6 DEF WriteRow
  <2> QED BY <1>1, <2>2, <2>6, <2>7, <2>8 DEF Content, KeepsClaim
<1> QED BY <1>2, <1>3

\* A claim gives the row a new epoch, its own name and an expiry no earlier than its NOW.
LEMMA ClaimEffect ==
  ASSUME WorkItemsTypeOK, NEW who \in Claimer, Claim(who)
  PROVE  /\ row' \in Row /\ row'.state = row.state /\ row'.by = row.by
         /\ row'.holder = who /\ row'.epoch = row.epoch + 1
         /\ row'.expires \in Nat
         /\ \E at \in Nat : at <= now /\ Claimable(who, at)
         /\ won' = won \cup {[who |-> who, epoch |-> row'.epoch, until |-> row'.expires]}
         /\ freed' = freed /\ everIn' = everIn /\ now' = now
<1>1. row \in Row /\ now \in Nat /\ ClaimTtl \in Nat
  BY WorkItemsAssumption DEF WorkItemsTypeOK
<1>2. PICK at \in {now - 1, now} :
        /\ at > 0
        /\ Claimable(who, at)
        /\ row' = [row EXCEPT !.holder = who, !.epoch = @ + 1, !.expires = at + ClaimTtl]
        /\ won' = won \cup {[who |-> who, epoch |-> row.epoch + 1, until |-> at + ClaimTtl]}
  BY Zenon DEF Claim
<1>3. at \in Nat /\ at <= now
  BY <1>1, <1>2
<1>4. row' = [state |-> row.state, at |-> row.at, by |-> row.by, body |-> row.body,
              holder |-> who, epoch |-> row.epoch + 1, expires |-> at + ClaimTtl]
  BY <1>1, <1>2 DEF Row
<1>5. /\ row'.state = row.state /\ row'.by = row.by /\ row'.holder = who
      /\ row'.epoch = row.epoch + 1 /\ row'.expires = at + ClaimTtl
  BY <1>4
<1>6. row' \in Row /\ row'.expires \in Nat
  BY <1>1, <1>3, <1>4 DEF Row
<1>7. freed' = freed /\ everIn' = everIn /\ now' = now
  BY DEF Claim
<1> QED
  BY <1>2, <1>3, <1>5, <1>6, <1>7

\* A release clears the holder and remembers the epoch it ended.
LEMMA ReleaseEffect ==
  ASSUME WorkItemsTypeOK, NEW who \in Claimer, ReleaseClaim(who)
  PROVE  /\ row' \in Row /\ row'.state = row.state /\ row'.by = row.by
         /\ row.holder = who /\ row'.holder = NoOne /\ row'.epoch = row.epoch
         /\ freed' = freed \cup {row.epoch}
         /\ won' = won /\ everIn' = everIn /\ now' = now
<1>1. row \in Row
  BY DEF WorkItemsTypeOK
<1>2. row' = [row EXCEPT !.holder = NoOne, !.expires = 0]
  BY DEF ReleaseClaim
<1>3. row' = [state |-> row.state, at |-> row.at, by |-> row.by, body |-> row.body,
              holder |-> NoOne, epoch |-> row.epoch, expires |-> 0]
  BY <1>1, <1>2 DEF Row
<1>4. row' \in Row
  BY <1>1, <1>3 DEF Row
<1> QED
  BY <1>3, <1>4 DEF ReleaseClaim

----------------------------------------------------------------------------
(* Types *)

\* The row and its history stay in their types under a step that keeps the claim.
LEMMA ContentTypes ==
  ASSUME WorkItemsTypeOK, Content
  PROVE  /\ row' \in Row /\ everIn' \in SUBSET State
         /\ won' \in SUBSET [who : Claimer, epoch : Nat, until : Nat]
         /\ freed' \in SUBSET Nat
BY DEF WorkItemsTypeOK, Content, KeepsClaim

\* A driver's own copy and the file's line have a state's type.
LEMMA CopyTypes ==
  ASSUME WorkItemsTypeOK, NEW d \in Driver
  PROVE  /\ drv[d].at \in Place /\ drv[d].item \in State /\ drv[d].mtime \in Nat
         /\ drv[d].seen \in State \cup {"none"} /\ drv[d].seenAt \in Nat
         /\ now \in Nat /\ d \in By
         /\ file.state \in State /\ file.at \in Nat
BY DEF WorkItemsTypeOK, By, DriverState

\* Setting a driver's fields keeps the drivers' type.
LEMMA DriverTypes ==
  ASSUME WorkItemsTypeOK, NEW d \in Driver
  PROVE  /\ \A item \in State : Ready(d, item) =>
              drv' \in [Driver -> DriverState]
         /\ \A place \in Place : GoDrv(d, place) =>
              drv' \in [Driver -> DriverState]
<1>1. drv \in [Driver -> DriverState]
  BY DEF WorkItemsTypeOK
<1>2. ASSUME NEW item \in State, Ready(d, item)
      PROVE  drv' \in [Driver -> DriverState]
  <2>1. Away \in DriverState
    BY DEF Away, Place, State, DriverState
  <2>2. ASSUME NEW e \in DriverState, NEW f, f = [e EXCEPT !.at = "ready", !.item = item]
        PROVE  f \in DriverState
    <3>1. f = [at |-> "ready", item |-> item, seen |-> e.seen, seenAt |-> e.seenAt,
               mtime |-> e.mtime]
      BY <2>2 DEF DriverState
    <3> QED BY <2>2, <3>1 DEF Place, DriverState
  <2>3. [Away EXCEPT !.at = "ready", !.item = item] \in DriverState
    BY <2>1, <2>2
  <2> QED BY <1>1, <1>2, <2>3 DEF Ready
<1>3. ASSUME NEW place \in Place, GoDrv(d, place)
      PROVE  drv' \in [Driver -> DriverState]
  <2>1. ASSUME NEW e \in DriverState
        PROVE  [e EXCEPT !.at = place] \in DriverState
    BY DEF DriverState
  <2>2. [drv[d] EXCEPT !.at = place] \in DriverState
    BY <1>1, <2>1
  <2>3. drv' = [drv EXCEPT ![d] = [drv[d] EXCEPT !.at = place]]
    BY <1>3 DEF GoDrv
  <2> QED BY <1>1, <2>2, <2>3
<1> QED BY <1>2, <1>3

\* The file stays in its type whichever way the harness writes it.
LEMMA FileTypes ==
  ASSUME WorkItemsTypeOK, NEW s \in State, WriteFile(s)
  PROVE  /\ file' \in [state : State, at : Nat, by : {"human", "harness"}]
         /\ file' = file \/ (file'.state = s /\ file'.by = "harness")
BY DEF WorkItemsTypeOK, WriteFile

\* The later of two times is a time.
LEMMA StampType ==
  ASSUME WorkItemsTypeOK, NEW d \in Driver
  PROVE  StampOf(d) \in Nat
<1> DEFINE a == drv[d].seenAt
           b == IF fileOk THEN drv[d].mtime ELSE now
<1>1. a \in Nat /\ b \in Nat
  BY CopyTypes
<1>2. StampOf(d) = CHOOSE t \in {a, b} : \A u \in {a, b} : u <= t
  BY DEF StampOf
<1> HIDE DEF a, b
<1>3. \E t \in {a, b} : \A u \in {a, b} : u <= t
  <2>1. CASE a <= b
    BY <1>1, <2>1
  <2>2. CASE b <= a
    BY <1>1, <2>2
  <2> QED BY <1>1, <2>1, <2>2
<1>4. (CHOOSE t \in {a, b} : \A u \in {a, b} : u <= t) \in {a, b}
  BY <1>3
<1> QED BY <1>1, <1>2, <1>4

\* A step that counts stays within the bound.
LEMMA CountTypes ==
  ASSUME WorkItemsTypeOK, CountOp
  PROVE  ops' \in 0..MaxOps
BY WorkItemsAssumption DEF WorkItemsTypeOK, CountOp

\* What a mirror does to row, file and driver, under either authority.
LEMMA MirrorEffect ==
  ASSUME WorkItemsTypeOK, NEW d \in Driver, Mirror(d)
  PROVE  /\ Content
         /\ row' = row \/ (row'.by = d /\ row'.state = drv[d].item)
         /\ workState = "store" /\ row' # row => drv[d].seen = "none"
         /\ \E item \in State : Ready(d, item)
         /\ file' = file \/ (drv[d].seen # "none" /\ WriteFile(drv[d].seen))
<1>1. drv[d].item \in State /\ d \in By /\ drv[d].mtime \in Nat /\ now \in Nat
  BY CopyTypes
<1>2. CASE workState = "store" /\ drv[d].seen = "none"
  <2>1. /\ Upsert(drv[d].item, IF fileOk THEN drv[d].mtime ELSE now, d)
        /\ Ready(d, drv[d].item) /\ file' = file
    BY <1>2 DEF Mirror, MirrorFromStore
  <2>2. (IF fileOk THEN drv[d].mtime ELSE now) \in Nat
    BY <1>1
  <2> QED BY <1>1, <1>2, <2>1, <2>2, UpsertEffect
<1>3. CASE workState = "store" /\ drv[d].seen # "none"
  <2>1. /\ UNCHANGED <<row, history>> /\ Ready(d, drv[d].seen)
        /\ file' = file \/ WriteFile(drv[d].seen)
    BY <1>3 DEF Mirror, MirrorFromStore
  <2>2. drv[d].seen \in State
    BY <1>3, CopyTypes
  <2> QED BY <1>3, <2>1, <2>2, NoWrite
<1>4. CASE workState # "store"
  <2>1. /\ Upsert(drv[d].item, StampOf(d), d) \/ UNCHANGED <<row, history>>
        /\ Ready(d, drv[d].item) /\ file' = file
    BY <1>4 DEF Mirror, MirrorFromFiles
  <2>2. CASE Upsert(drv[d].item, StampOf(d), d)
    BY <1>1, <1>4, <2>1, <2>2, StampType, UpsertEffect
  <2>3. CASE UNCHANGED <<row, history>>
    BY <1>1, <1>4, <2>1, <2>3, NoWrite
  <2> QED BY <2>1, <2>2, <2>3
<1> QED BY <1>2, <1>3, <1>4

\* Every step keeps the types: one case per action.
LEMMA TypesKept == WorkItemsTypeOK /\ [WorkItemsNext]_vars => WorkItemsTypeOK'
<1> SUFFICES ASSUME WorkItemsTypeOK, [WorkItemsNext]_vars
             PROVE  WorkItemsTypeOK'
  OBVIOUS
<1> DEFINE DT == drv' \in [Driver -> DriverState]
           FT == file' \in [state : State, at : Nat, by : {"human", "harness"}]
<1>1. ASSUME NEW d \in Driver, Load(d)
      PROVE  WorkItemsTypeOK'
  <2>1. /\ drv' = [drv EXCEPT ![d] = [Away EXCEPT !.at = "loaded", !.item = file.state]]
        /\ CountOp /\ UNCHANGED <<fixed, now, row, file, queue, regen, history>>
    BY <1>1 DEF Load
  <2>2. ASSUME NEW f, f = [Away EXCEPT !.at = "loaded", !.item = file.state]
        PROVE  f \in DriverState
    <3>1. Away \in DriverState
      BY DEF Away, Place, State, DriverState
    <3>2. f = [at |-> "loaded", item |-> file.state, seen |-> Away.seen,
               seenAt |-> Away.seenAt, mtime |-> Away.mtime]
      BY <2>2, <3>1 DEF DriverState
    <3> QED BY <3>1, <3>2, CopyTypes DEF Place, DriverState
  <2>3. DT
    BY <2>1, <2>2 DEF WorkItemsTypeOK
  <2> QED BY <2>1, <2>3, CountTypes DEF WorkItemsTypeOK, fixed, history
<1>2. ASSUME NEW d \in Driver, ReadRows(d)
      PROVE  WorkItemsTypeOK'
  <2>1. /\ drv' = [drv EXCEPT ![d] = [drv[d] EXCEPT !.at = "rows", !.seen = row.state,
                                                  !.seenAt = row.at, !.mtime = file.at]]
        /\ UNCHANGED <<fixed, now, row, file, queue, regen, history, ops>>
    BY <1>2 DEF ReadRows
  <2>2. drv[d] \in DriverState /\ row.state \in State \cup {"none"} /\ row.at \in Nat
    BY DEF WorkItemsTypeOK, Row
  <2>3. ASSUME NEW e, e = drv[d], NEW f,
               f = [e EXCEPT !.at = "rows", !.seen = row.state,
                             !.seenAt = row.at, !.mtime = file.at]
        PROVE  f \in DriverState
    <3>1. f = [at |-> "rows", item |-> e.item, seen |-> row.state,
               seenAt |-> row.at, mtime |-> file.at]
      BY <2>2, <2>3 DEF DriverState
    <3> QED BY <2>2, <2>3, <3>1, CopyTypes DEF Place, DriverState
  <2>4. DT
    BY <2>1, <2>3 DEF WorkItemsTypeOK
  <2> QED BY <2>1, <2>4 DEF WorkItemsTypeOK, fixed, history
<1>3. ASSUME NEW d \in Driver, Mirror(d)
      PROVE  WorkItemsTypeOK'
  <2>1. DT
    BY <1>3, MirrorEffect, DriverTypes
  <2>2. FT
    <3>1. CASE file' = file
      BY <3>1 DEF WorkItemsTypeOK
    <3>2. CASE drv[d].seen # "none" /\ WriteFile(drv[d].seen)
      BY <3>2, CopyTypes, FileTypes
    <3> QED BY <1>3, <3>1, <3>2, MirrorEffect
  <2>3. Content /\ UNCHANGED <<fixed, now, queue, regen, ops>>
    BY <1>3, MirrorEffect DEF Mirror
  <2> QED BY <2>1, <2>2, <2>3, ContentTypes DEF WorkItemsTypeOK, fixed
<1>4. ASSUME NEW d \in Driver, Approve(d) \/ AnswerLost(d)
      PROVE  WorkItemsTypeOK'
  <2>1. Content
    BY <1>4, CasEffect, CopyTypes DEF Approve, AnswerLost, State
  <2>2. DT
    BY <1>4, DriverTypes, CopyTypes DEF Approve, AnswerLost, Place
  <2> QED BY <1>4, <2>1, <2>2, ContentTypes DEF Approve, AnswerLost, WorkItemsTypeOK, fixed
<1>5. ASSUME NEW d \in Driver, AdoptStored(d) \/ StoreFails(d) \/ Rescue(d)
      PROVE  WorkItemsTypeOK'
  <2>1. /\ (IF RowExists THEN row.state ELSE drv[d].item) \in State
        /\ (IF drv[d].at = "mirroring" THEN "approved" ELSE drv[d].item) \in State
    BY CopyTypes DEF WorkItemsTypeOK, Row, RowExists, State
  <2>2. DT
    BY <1>5, <2>1, DriverTypes DEF AdoptStored, StoreFails, Rescue, Place
  <2> QED BY <1>5, <2>2 DEF AdoptStored, StoreFails, Rescue, WorkItemsTypeOK, fixed, history
<1>6. ASSUME NEW d \in Driver, FileApproved(d) \/ ApplyApproved(d)
      PROVE  WorkItemsTypeOK'
  <2>1. DT
    BY <1>6, DriverTypes DEF FileApproved, ApplyApproved, Place, State
  <2>2. FT
    BY <1>6, FileTypes DEF FileApproved, ApplyApproved, State
  <2> QED BY <1>6, <2>1, <2>2 DEF FileApproved, ApplyApproved, WorkItemsTypeOK, fixed, history
<1>7. ASSUME NEW d \in Driver, MirrorWrite(d)
      PROVE  WorkItemsTypeOK'
  <2>1. Content
    BY <1>7, UpsertEffect, CopyTypes DEF MirrorWrite, State
  <2>2. DT
    BY <1>7, DriverTypes DEF MirrorWrite, State
  <2> QED BY <1>7, <2>1, <2>2, ContentTypes DEF MirrorWrite, WorkItemsTypeOK, fixed
<1>8. ASSUME NEW d \in Driver, QuarantineRead(d)
      PROVE  WorkItemsTypeOK'
  <2>1. ASSUME NEW e \in DriverState
        PROVE  [e EXCEPT !.at = "quarantining"] \in DriverState
    BY DEF DriverState, Place
  <2>2. drv[d] \in DriverState /\ row.state \in State \cup {"none"}
    BY DEF WorkItemsTypeOK, Row
  <2>3. ASSUME NEW e \in DriverState, NEW s \in State \cup {"none"}
        PROVE  [e EXCEPT !.seen = s] \in DriverState
    BY DEF DriverState
  <2>4. DT
    BY <1>8, <2>1, <2>2, <2>3 DEF QuarantineRead, WorkItemsTypeOK
  <2> QED BY <1>8, <2>4 DEF QuarantineRead, WorkItemsTypeOK, fixed, history
<1>9. ASSUME NEW d \in Driver, QuarantineRow(d)
      PROVE  WorkItemsTypeOK'
  <2>1. Content
    BY <1>9, CasEffect, CopyTypes DEF QuarantineRow, State
  <2>2. DT
    BY <1>9, DriverTypes, CopyTypes DEF QuarantineRow
  <2> QED BY <1>9, <2>1, <2>2, ContentTypes DEF QuarantineRow, WorkItemsTypeOK, fixed
<1>10. ASSUME NEW d \in Driver, Leave(d)
       PROVE  WorkItemsTypeOK'
  <2>1. Away \in DriverState
    BY DEF Away, Place, State, DriverState
  <2> QED BY <1>10, <2>1 DEF Leave, WorkItemsTypeOK, fixed, history
<1>11. ASSUME NEW s \in State, NEW e, SetState(s) \/ SetStateExpecting(e, s)
       PROVE  WorkItemsTypeOK'
  <2>1. "human" \in By /\ now \in Nat
    BY DEF By, WorkItemsTypeOK
  <2>2. Content
    BY <1>11, <2>1, UpsertEffect, CasEffect DEF SetState, SetStateExpecting
  <2>3. CountOp /\ UNCHANGED <<fixed, now, file, drv, queue, regen>>
    BY <1>11 DEF SetState, SetStateExpecting
  <2> QED BY <2>2, <2>3, ContentTypes, CountTypes DEF WorkItemsTypeOK, fixed
<1>12. ASSUME NEW s \in State, EditFile(s)
       PROVE  WorkItemsTypeOK'
  BY <1>12, CountTypes DEF EditFile, WorkItemsTypeOK, fixed, history
<1>13. CASE RegenerateRead
  BY <1>13, CountTypes DEF RegenerateRead, WorkItemsTypeOK, fixed, history, Row
<1>14. CASE RegenerateWrite
  BY <1>14 DEF RegenerateWrite, WorkItemsTypeOK, fixed, history
<1>15. ASSUME NEW sent \in Payload, QueueRead(sent)
       PROVE  WorkItemsTypeOK'
  BY <1>15, CountTypes DEF QueueRead, WorkItemsTypeOK, fixed, history
<1>16. CASE QueueWrite
  <2>1. Content
    BY <1>16, ResolvedEffect DEF QueueWrite, WorkItemsTypeOK
  <2>2. NoUpsert \in [sent : Payload, current : Row]
    BY DEF NoUpsert, Payload, NoRow, Row, State, Body, By
  <2> QED BY <1>16, <2>1, <2>2, ContentTypes DEF QueueWrite, WorkItemsTypeOK, fixed
<1>17. ASSUME NEW who \in Claimer, Claim(who)
       PROVE  WorkItemsTypeOK'
  <2>1. /\ row' \in Row /\ row'.expires \in Nat /\ row'.epoch \in Nat
        /\ won' = won \cup {[who |-> who, epoch |-> row'.epoch, until |-> row'.expires]}
        /\ freed' = freed /\ everIn' = everIn /\ now' = now
    BY <1>17, ClaimEffect DEF Row
  <2>2. CountOp /\ UNCHANGED <<fixed, now, file, drv, queue, regen>>
    BY <1>17 DEF Claim
  <2> QED BY <2>1, <2>2, CountTypes DEF WorkItemsTypeOK, fixed
<1>18. ASSUME NEW who \in Claimer, ReleaseClaim(who)
       PROVE  WorkItemsTypeOK'
  <2>1. /\ row' \in Row /\ row.epoch \in Nat
        /\ freed' = freed \cup {row.epoch} /\ won' = won /\ everIn' = everIn
    BY <1>18, ReleaseEffect DEF WorkItemsTypeOK, Row
  <2>2. CountOp /\ UNCHANGED <<fixed, now, file, drv, queue, regen>>
    BY <1>18 DEF ReleaseClaim
  <2> QED BY <2>1, <2>2, CountTypes DEF WorkItemsTypeOK, fixed
<1>19. CASE Tick
  BY <1>19 DEF Tick, WorkItemsTypeOK, fixed, history
<1>20. CASE UNCHANGED vars
  BY <1>20 DEF vars, WorkItemsTypeOK, fixed, history
<1> QED
  BY <1>1, <1>2, <1>3, <1>4, <1>5, <1>6, <1>7, <1>8, <1>9, <1>10, <1>11, <1>12, <1>13,
     <1>14, <1>15, <1>16, <1>17, <1>18, <1>19, <1>20 DEF WorkItemsNext

\* Row, file, drivers, queue and claims keep their types, for any drivers and claimers.
THEOREM WorkItemsTypes == WorkItemsSpec => []WorkItemsTypeOK
<1>1. WorkItemsInit => WorkItemsTypeOK
  BY WorkItemsAssumption
     DEF WorkItemsInit, WorkItemsTypeOK, NoRow, Row, State, Body, By, NoUpsert, Payload,
         Away, DriverState, Place
<1> QED
  BY <1>1, TypesKept, PTL DEF WorkItemsSpec

----------------------------------------------------------------------------
(* Claims *)

\* Whatever is neither a claim nor a release leaves the claim alone and lets time pass.
LEMMA ClaimSteps ==
  ASSUME WorkItemsTypeOK, [WorkItemsNext]_vars
  PROVE  \/ Content /\ now' >= now
         \/ \E who \in Claimer : Claim(who) \/ ReleaseClaim(who)
<1>1. now \in Nat /\ "human" \in By /\ "approved" \in State /\ "quarantined" \in State
  BY DEF WorkItemsTypeOK, By, State
<1>2. ASSUME UNCHANGED <<row, history>>
      PROVE  Content
  BY <1>2, NoWrite
<1>3. ASSUME NEW d \in Driver,
             \/ Mirror(d) \/ Approve(d) \/ AnswerLost(d) \/ MirrorWrite(d) \/ QuarantineRow(d)
      PROVE  Content /\ now' = now
  BY <1>1, <1>3, CopyTypes, MirrorEffect, CasEffect, UpsertEffect
     DEF Mirror, Approve, AnswerLost, MirrorWrite, QuarantineRow
<1>4. ASSUME NEW d \in Driver,
             \/ Load(d) \/ ReadRows(d) \/ AdoptStored(d) \/ FileApproved(d)
             \/ ApplyApproved(d) \/ QuarantineRead(d) \/ Leave(d)
             \/ StoreFails(d) \/ Rescue(d)
      PROVE  Content /\ now' = now
  BY <1>2, <1>4 DEF Load, ReadRows, AdoptStored, FileApproved, ApplyApproved,
                    QuarantineRead, Leave, StoreFails, Rescue
<1>5. ASSUME NEW s \in State, NEW e, SetState(s) \/ SetStateExpecting(e, s)
      PROVE  Content /\ now' = now
  BY <1>1, <1>5, UpsertEffect, CasEffect DEF SetState, SetStateExpecting
<1>6. ASSUME NEW s \in State, EditFile(s)
      PROVE  Content /\ now' = now
  BY <1>2, <1>6 DEF EditFile
<1>7. ASSUME NEW sent \in Payload, QueueRead(sent)
      PROVE  Content /\ now' = now
  BY <1>2, <1>7 DEF QueueRead
<1>8. CASE QueueWrite
  BY <1>8, ResolvedEffect, <1>1 DEF QueueWrite, WorkItemsTypeOK
<1>9. CASE RegenerateRead \/ RegenerateWrite
  BY <1>1, <1>2, <1>9 DEF RegenerateRead, RegenerateWrite
<1>10. CASE Tick
  BY <1>1, <1>2, <1>10 DEF Tick
<1>11. CASE UNCHANGED vars
  BY <1>1, <1>2, <1>11 DEF vars
<1> QED
  BY <1>1, <1>3, <1>4, <1>5, <1>6, <1>7, <1>8, <1>9, <1>10, <1>11 DEF WorkItemsNext

\* The row's holder, if it has one, is the claim that was won at the row's epoch.
HolderWon ==
  row.holder # NoOne =>
    \E c \in won : c.epoch = row.epoch /\ c.who = row.holder /\ c.until = row.expires

\* No claim is ahead of the row.
EpochsBehind == \A c \in won : c.epoch <= row.epoch

ClaimInv ==
  /\ WorkItemsTypeOK
  /\ EpochsBehind
  /\ HolderWon
  /\ UniqueClaims
  /\ ClaimStands

LEMMA ClaimTypes ==
  ASSUME WorkItemsTypeOK
  PROVE  /\ now \in Nat /\ row.epoch \in Nat /\ row.expires \in Nat
         /\ \A c \in won : c.who \in Claimer /\ c.epoch \in Nat /\ c.until \in Nat
BY DEF WorkItemsTypeOK, Row

\* A claim of a new epoch keeps the claims apart, and takes the row from nobody whose
\* claim stands: it found the row free, expired, or its own.
LEMMA ClaimKeeps ==
  ASSUME ClaimInv, NEW who \in Claimer, Claim(who), WorkItemsTypeOK'
  PROVE  ClaimInv'
<1> DEFINE c0 == [who |-> who, epoch |-> row'.epoch, until |-> row'.expires]
<1>1. /\ row'.holder = who /\ row'.epoch = row.epoch + 1
      /\ won' = won \cup {c0} /\ freed' = freed /\ now' = now
  BY ClaimEffect DEF ClaimInv
<1>2. PICK at \in Nat : at <= now /\ Claimable(who, at)
  BY ClaimEffect DEF ClaimInv
<1>3. c0.who = who /\ c0.epoch = row.epoch + 1 /\ c0.until = row'.expires
  BY <1>1
<1> HIDE DEF c0
<1>4. row.epoch \in Nat /\ \A c \in won : c.epoch \in Nat /\ c.epoch <= row.epoch
  BY ClaimTypes DEF ClaimInv, EpochsBehind
<1>5. EpochsBehind'
  BY <1>1, <1>3, <1>4 DEF EpochsBehind
<1>6. HolderWon'
  BY <1>1, <1>3 DEF HolderWon
<1>7. UniqueClaims'
  BY <1>1, <1>3, <1>4 DEF ClaimInv, UniqueClaims
<1>8. ASSUME NEW c \in won', Standing(c)', now' <= c.until
      PROVE  row'.holder = c.who
  <2>1. CASE c = c0
    BY <1>1, <1>3, <2>1
  <2>2. CASE c \in won /\ c.who = who
    BY <1>1, <2>2
  <2>3. CASE c \in won /\ c.who # who
    <3>1. Standing(c) /\ now <= c.until
      BY <1>1, <1>8 DEF Standing
    <3>2. row.holder = c.who /\ row.holder # NoOne
      BY <2>3, <3>1, ClaimTypes, WorkItemsAssumption DEF ClaimInv, ClaimStands
    <3>3. row.expires < at
      BY <1>2, <2>3, <3>2 DEF Claimable
    <3>4. PICK o \in won : o.epoch = row.epoch /\ o.who = row.holder /\ o.until = row.expires
      BY <3>2 DEF ClaimInv, HolderWon
    <3>5. o.epoch = c.epoch
      BY <1>4, <2>3, <3>1, <3>2, <3>4 DEF Standing
    <3>6. o = c
      BY <2>3, <3>4, <3>5 DEF ClaimInv, UniqueClaims
    <3> QED
      BY <1>2, <2>3, <3>1, <3>3, <3>4, <3>6, ClaimTypes DEF ClaimInv
  <2> QED BY <1>1, <2>1, <2>2, <2>3
<1> QED
  BY <1>5, <1>6, <1>7, <1>8 DEF ClaimInv, ClaimStands

\* A release ends the one claim that stood: the row's own.
LEMMA ReleaseKeeps ==
  ASSUME ClaimInv, NEW who \in Claimer, ReleaseClaim(who), WorkItemsTypeOK'
  PROVE  ClaimInv'
<1>1. /\ row.holder = who /\ row'.holder = NoOne /\ row'.epoch = row.epoch
      /\ freed' = freed \cup {row.epoch} /\ won' = won /\ now' = now
  BY ReleaseEffect DEF ClaimInv
<1>2. EpochsBehind' /\ HolderWon' /\ UniqueClaims'
  BY <1>1 DEF ClaimInv, EpochsBehind, HolderWon, UniqueClaims
<1>3. ASSUME NEW c \in won, Standing(c)', now <= c.until
      PROVE  FALSE
  <2>1. Standing(c) /\ c.epoch # row.epoch
    BY <1>1, <1>3 DEF Standing
  <2>2. row.holder = c.who /\ row.holder # NoOne
    BY <1>1, <1>3, <2>1, WorkItemsAssumption DEF ClaimInv, ClaimStands
  <2>3. PICK o \in won : o.epoch = row.epoch /\ o.who = row.holder
    BY <2>2 DEF ClaimInv, HolderWon
  <2>4. o.epoch <= c.epoch /\ c.epoch <= row.epoch
    BY <2>1, <2>2, <2>3 DEF Standing, ClaimInv, EpochsBehind
  <2> QED
    BY <2>1, <2>3, <2>4, ClaimTypes DEF ClaimInv
<1> QED
  BY <1>1, <1>2, <1>3 DEF ClaimInv, ClaimStands

LEMMA ClaimInvKept == ClaimInv /\ [WorkItemsNext]_vars => ClaimInv'
<1> SUFFICES ASSUME ClaimInv, [WorkItemsNext]_vars
             PROVE  ClaimInv'
  OBVIOUS
<1>1. WorkItemsTypeOK'
  BY TypesKept DEF ClaimInv
<1>2. CASE Content /\ now' >= now
  <2>1. /\ row'.holder = row.holder /\ row'.epoch = row.epoch /\ row'.expires = row.expires
        /\ won' = won /\ freed' = freed
    BY <1>2 DEF Content, KeepsClaim
  <2>2. now' \in Nat /\ \A c \in won : now' <= c.until => now <= c.until
    BY <1>1, <1>2, ClaimTypes DEF ClaimInv, WorkItemsTypeOK
  <2> QED
    BY <1>1, <2>1, <2>2 DEF ClaimInv, EpochsBehind, HolderWon, UniqueClaims, ClaimStands, Standing
<1> QED
  BY <1>1, <1>2, ClaimSteps, ClaimKeeps, ReleaseKeeps DEF ClaimInv

LEMMA ClaimsHold == WorkItemsSpec => []ClaimInv
<1>1. WorkItemsInit => ClaimInv
  <2> SUFFICES ASSUME WorkItemsInit PROVE ClaimInv
    OBVIOUS
  <2>1. WorkItemsTypeOK
    BY WorkItemsAssumption
       DEF WorkItemsInit, WorkItemsTypeOK, NoRow, Row, State, Body, By, NoUpsert, Payload,
           Away, DriverState, Place
  <2>2. won = {} /\ row.holder = NoOne
    BY DEF WorkItemsInit, NoRow
  <2> QED
    BY <2>1, <2>2 DEF ClaimInv, EpochsBehind, HolderWon, UniqueClaims, ClaimStands
<1> QED
  BY <1>1, ClaimInvKept, PTL DEF WorkItemsSpec

\* No two claims of a row are ever won at one epoch.
THEOREM ClaimsAreUnique == WorkItemsSpec => []UniqueClaims
<1>1. ClaimInv => UniqueClaims
  BY DEF ClaimInv
<1> QED
  BY <1>1, ClaimsHold, PTL

\* A claim stands to its last second: nobody takes the row before, and no upsert, from
\* however old a read, gives it away.
THEOREM ClaimsStand == WorkItemsSpec => []ClaimStands
<1>1. ClaimInv => ClaimStands
  BY DEF ClaimInv
<1> QED
  BY <1>1, ClaimsHold, PTL

----------------------------------------------------------------------------
(* Files follow rows *)

\* Every state somebody carries toward the file was once the row's: the row's own, what a
\* driver or regenerate-states read of it, and a move the store accepted.
Sourced ==
  /\ RowExists => row.state \in everIn
  /\ regen # "none" => regen \in everIn
  /\ \A d \in Driver :
       /\ drv[d].seen # "none" => drv[d].seen \in everIn
       /\ drv[d].at = "filing" => "approved" \in everIn

\* Only a run under files is in the middle of the apply arm.
ArmIsFiles == \A d \in Driver : drv[d].at = "mirroring" => workState = "files"

FileInv ==
  /\ WorkItemsTypeOK
  /\ Sourced
  /\ ArmIsFiles
  /\ FileFollowsRow

\* A driver that goes on with its copy has used up what it read.
LEMMA ReadyEffect ==
  ASSUME WorkItemsTypeOK, NEW d \in Driver, NEW item, Ready(d, item)
  PROVE  /\ drv'[d].at = "ready" /\ drv'[d].seen = "none"
         /\ \A e \in Driver \ {d} : drv'[e] = drv[e]
<1>1. drv \in [Driver -> DriverState]
  BY DEF WorkItemsTypeOK
<1>2. drv' = [drv EXCEPT ![d] = [Away EXCEPT !.at = "ready", !.item = item]]
  BY DEF Ready
<1>3. Away \in [at : {"off"}, item : {"ready"}, seen : {"none"}, seenAt : {0}, mtime : {0}]
  BY DEF Away
<1>4. ASSUME NEW f, f = [Away EXCEPT !.at = "ready", !.item = item]
      PROVE  f.at = "ready" /\ f.seen = "none"
  BY <1>3, <1>4
<1> QED
  BY <1>1, <1>2, <1>4

\* Going to another place keeps what a driver read.
LEMMA GoEffect ==
  ASSUME WorkItemsTypeOK, NEW d \in Driver, NEW place, GoDrv(d, place)
  PROVE  /\ drv'[d].at = place /\ drv'[d].seen = drv[d].seen
         /\ \A e \in Driver \ {d} : drv'[e] = drv[e]
<1>1. drv \in [Driver -> DriverState]
  BY DEF WorkItemsTypeOK
<1>2. drv' = [drv EXCEPT ![d] = [drv[d] EXCEPT !.at = place]]
  BY DEF GoDrv
<1>3. ASSUME NEW e \in DriverState
      PROVE  [e EXCEPT !.at = place].at = place /\ [e EXCEPT !.at = place].seen = e.seen
  BY <1>3 DEF DriverState
<1> QED
  BY <1>1, <1>2, <1>3

\* A step of a driver that keeps its promises for itself keeps them for all.
LEMMA OneDriver ==
  ASSUME FileInv, NEW d \in Driver, Content, UNCHANGED <<workState, regen>>,
         \A e \in Driver \ {d} : drv'[e] = drv[e],
         drv'[d].seen # "none" => drv'[d].seen \in everIn',
         drv'[d].at = "filing" => "approved" \in everIn',
         drv'[d].at = "mirroring" => workState = "files"
  PROVE  Sourced' /\ ArmIsFiles'
<1>1. everIn \subseteq everIn' /\ (row' = row \/ row'.state \in everIn')
  BY DEF Content
<1>2. RowExists' => row'.state \in everIn'
  BY <1>1 DEF FileInv, Sourced, RowExists
<1>3. regen' # "none" => regen' \in everIn'
  BY <1>1 DEF FileInv, Sourced
<1>4. ASSUME NEW e \in Driver
      PROVE  /\ drv'[e].seen # "none" => drv'[e].seen \in everIn'
             /\ drv'[e].at = "filing" => "approved" \in everIn'
             /\ drv'[e].at = "mirroring" => workState' = "files"
  <2>1. CASE e = d
    BY <2>1
  <2>2. CASE e # d
    BY <1>1, <2>2 DEF FileInv, Sourced, ArmIsFiles
  <2> QED BY <2>1, <2>2
<1> QED
  BY <1>2, <1>3, <1>4 DEF Sourced, ArmIsFiles

\* A file that is left alone, or gets a state the row had, follows the row.
LEMMA FileKept ==
  ASSUME FileInv, Content, workState' = workState,
         file' = file \/ file'.by = "human" \/ workState # "store" \/ file'.state \in everIn'
  PROVE  FileFollowsRow'
BY DEF FileInv, FileFollowsRow, Content

\* Every step that writes neither driver nor regen keeps what they carry.
LEMMA OthersKeep ==
  ASSUME FileInv, UNCHANGED <<workState, drv>>,
         everIn \subseteq everIn', row'.state = row.state \/ row'.state \in everIn',
         regen' = regen \/ regen' = "none" \/ regen' \in everIn'
  PROVE  Sourced' /\ ArmIsFiles'
BY DEF FileInv, Sourced, ArmIsFiles, RowExists

LEMMA FileInvKept == FileInv /\ [WorkItemsNext]_vars => FileInv'
<1> SUFFICES ASSUME FileInv, [WorkItemsNext]_vars
             PROVE  FileInv'
  OBVIOUS
<1>1. WorkItemsTypeOK /\ WorkItemsTypeOK'
  BY TypesKept DEF FileInv
<1>2. /\ now \in Nat /\ "human" \in By /\ "approved" \in State /\ "quarantined" \in State
      /\ row.state # "none" => row.state \in everIn
      /\ regen # "none" => regen \in everIn
  BY <1>1 DEF WorkItemsTypeOK, By, State, FileInv, Sourced, RowExists
<1>3. UNCHANGED <<row, history>> => Content
  BY <1>1, NoWrite
<1>4. ASSUME NEW d \in Driver, Load(d) \/ Leave(d)
      PROVE  FileInv'
  <2>1. drv'[d].seen = "none" /\ drv'[d].at \in {"off", "loaded"}
    <3>1. Away \in [at : {"off"}, item : {"ready"}, seen : {"none"}, seenAt : {0}, mtime : {0}]
      BY DEF Away
    <3>2. ASSUME NEW f, f = [Away EXCEPT !.at = "loaded", !.item = file.state]
          PROVE  f.at = "loaded" /\ f.seen = "none"
      BY <3>1, <3>2
    <3> QED BY <1>1, <1>4, <3>1, <3>2 DEF Load, Leave, WorkItemsTypeOK
  <2>2. \A e \in Driver \ {d} : drv'[e] = drv[e]
    BY <1>1, <1>4 DEF Load, Leave, WorkItemsTypeOK
  <2>3. UNCHANGED <<workState, regen, file>> /\ UNCHANGED <<row, history>>
    BY <1>4 DEF Load, Leave, fixed
  <2> QED BY <1>1, <1>3, <2>1, <2>2, <2>3, OneDriver, FileKept DEF FileInv
<1>5. ASSUME NEW d \in Driver, ReadRows(d) \/ QuarantineRead(d)
      PROVE  FileInv'
  <2>1. drv'[d].seen = row.state /\ drv'[d].at \in {"rows", "quarantining"}
    <3>1. drv[d] \in DriverState
      BY <1>1 DEF WorkItemsTypeOK
    <3>2. ASSUME NEW e \in DriverState, NEW f,
                 \/ f = [e EXCEPT !.at = "rows", !.seen = row.state,
                                  !.seenAt = row.at, !.mtime = file.at]
                 \/ f = [e EXCEPT !.at = "quarantining", !.seen = row.state]
          PROVE  f.seen = row.state /\ f.at \in {"rows", "quarantining"}
      BY <3>2 DEF DriverState
    <3>3. CASE ReadRows(d)
      BY <1>1, <3>1, <3>2, <3>3 DEF ReadRows, WorkItemsTypeOK
    <3>4. CASE QuarantineRead(d)
      <4>1. drv' = [drv EXCEPT ![d] = [drv[d] EXCEPT !.at = "quarantining", !.seen = row.state]]
        BY <1>1, <3>4 DEF QuarantineRead, WorkItemsTypeOK
      <4> QED BY <1>1, <3>1, <3>2, <4>1 DEF WorkItemsTypeOK
    <3> QED BY <1>5, <3>3, <3>4
  <2>2. \A e \in Driver \ {d} : drv'[e] = drv[e]
    BY <1>1, <1>5 DEF ReadRows, QuarantineRead, WorkItemsTypeOK
  <2>3. UNCHANGED <<workState, regen, file>> /\ UNCHANGED <<row, history>>
    BY <1>5 DEF ReadRows, QuarantineRead, fixed
  <2> QED BY <1>1, <1>2, <1>3, <2>1, <2>2, <2>3, OneDriver, FileKept DEF FileInv, history
<1>6. ASSUME NEW d \in Driver, Mirror(d)
      PROVE  FileInv'
  <2>1. Content /\ UNCHANGED <<workState, regen>>
    BY <1>1, <1>6, MirrorEffect DEF Mirror, fixed
  <2>2. /\ drv'[d].at = "ready" /\ drv'[d].seen = "none"
        /\ \A e \in Driver \ {d} : drv'[e] = drv[e]
    BY <1>1, <1>6, MirrorEffect, ReadyEffect
  <2>3. file' = file \/ file'.state \in everIn'
    <3>1. drv[d].seen # "none" => drv[d].seen \in everIn'
      BY <2>1 DEF FileInv, Sourced, Content
    <3> QED BY <1>1, <1>6, <3>1, MirrorEffect, FileTypes, CopyTypes
  <2> QED BY <1>1, <2>1, <2>2, <2>3, OneDriver, FileKept DEF FileInv
<1>7. ASSUME NEW d \in Driver, Approve(d)
      PROVE  FileInv'
  <2>1. /\ Cas(drv[d].item, "approved", d) /\ UNCHANGED <<workState, regen, file>>
        /\ GoDrv(d, IF row.state = drv[d].item THEN "filing" ELSE "missed")
    BY <1>7 DEF Approve, fixed
  <2>2. Content /\ (row.state = drv[d].item => "approved" \in everIn')
    BY <1>1, <1>2, <2>1, CasEffect, CopyTypes
  <2>3. /\ drv'[d].at = IF row.state = drv[d].item THEN "filing" ELSE "missed"
        /\ drv'[d].seen = drv[d].seen
        /\ \A e \in Driver \ {d} : drv'[e] = drv[e]
    BY <1>1, <2>1, GoEffect
  <2>4. drv[d].seen # "none" => drv[d].seen \in everIn'
    BY <2>2 DEF FileInv, Sourced, Content
  <2> QED BY <1>1, <2>1, <2>2, <2>3, <2>4, OneDriver, FileKept DEF FileInv
<1>8. ASSUME NEW d \in Driver, AdoptStored(d) \/ FileApproved(d) \/ StoreFails(d)
      PROVE  FileInv'
  <2>1. UNCHANGED <<workState, regen>> /\ Content
    BY <1>3, <1>8 DEF AdoptStored, FileApproved, StoreFails, fixed
  <2>2. /\ drv'[d].at = "ready" /\ drv'[d].seen = "none"
        /\ \A e \in Driver \ {d} : drv'[e] = drv[e]
    BY <1>1, <1>8, ReadyEffect DEF AdoptStored, FileApproved, StoreFails
  <2>3. file' = file \/ file'.state \in everIn'
    <3>1. FileApproved(d) => "approved" \in everIn'
      BY <2>1 DEF FileApproved, FileInv, Sourced, Content
    <3> QED BY <1>1, <1>2, <1>8, <3>1, FileTypes DEF AdoptStored, FileApproved, StoreFails
  <2> QED BY <1>1, <2>1, <2>2, <2>3, OneDriver, FileKept DEF FileInv
<1>9. ASSUME NEW d \in Driver, ApplyApproved(d) \/ Rescue(d)
      PROVE  FileInv'
  <2>1. /\ UNCHANGED <<workState, regen>> /\ Content
        /\ file' = file \/ workState = "files"
    BY <1>3, <1>9 DEF ApplyApproved, Rescue, fixed
  <2>2. /\ drv'[d].at = "rescuing" \/ (drv'[d].at = "mirroring" /\ workState = "files")
        /\ drv'[d].seen = drv[d].seen
        /\ \A e \in Driver \ {d} : drv'[e] = drv[e]
    BY <1>1, <1>9, GoEffect DEF ApplyApproved, Rescue
  <2>3. drv[d].seen # "none" => drv[d].seen \in everIn'
    BY <2>1 DEF FileInv, Sourced, Content
  <2> QED BY <1>1, <2>1, <2>2, <2>3, OneDriver, FileKept DEF FileInv
<1>10. ASSUME NEW d \in Driver, MirrorWrite(d) \/ QuarantineRow(d) \/ AnswerLost(d)
       PROVE  FileInv'
  <2>1. UNCHANGED <<workState, regen, file>>
    BY <1>10 DEF MirrorWrite, QuarantineRow, AnswerLost, fixed
  <2>2. Content
    BY <1>1, <1>2, <1>10, CasEffect, UpsertEffect, CopyTypes
       DEF MirrorWrite, QuarantineRow, AnswerLost
  <2>3. /\ drv'[d].at = "ready" /\ drv'[d].seen = "none"
        /\ \A e \in Driver \ {d} : drv'[e] = drv[e]
    BY <1>1, <1>10, ReadyEffect DEF MirrorWrite, QuarantineRow, AnswerLost
  <2> QED BY <1>1, <2>1, <2>2, <2>3, OneDriver, FileKept DEF FileInv
<1>11. ASSUME NEW s \in State, NEW e, SetState(s) \/ SetStateExpecting(e, s)
       PROVE  FileInv'
  <2>1. Content
    BY <1>1, <1>2, <1>11, UpsertEffect, CasEffect DEF SetState, SetStateExpecting
  <2>2. UNCHANGED <<workState, file, drv, regen>>
    BY <1>11 DEF SetState, SetStateExpecting, fixed
  <2> QED BY <1>1, <2>1, <2>2, OthersKeep, FileKept DEF FileInv, Content
<1>12. ASSUME NEW s \in State, EditFile(s)
       PROVE  FileInv'
  <2>1. UNCHANGED <<workState, drv, regen>> /\ Content /\ file'.by = "human"
    BY <1>3, <1>12 DEF EditFile, fixed
  <2> QED BY <1>1, <2>1, OthersKeep, FileKept DEF FileInv, Content
<1>13. CASE RegenerateRead
  <2>1. UNCHANGED <<workState, drv, file>> /\ Content /\ row' = row
        /\ regen' = row.state /\ row.state # "none"
    BY <1>3, <1>13 DEF RegenerateRead, RowExists, fixed
  <2> QED BY <1>1, <1>2, <2>1, OthersKeep, FileKept DEF FileInv, Content
<1>14. CASE RegenerateWrite
  <2>1. UNCHANGED <<workState, drv>> /\ Content /\ regen' = "none"
        /\ file'.state = regen /\ regen # "none"
    BY <1>3, <1>14 DEF RegenerateWrite, fixed
  <2> QED BY <1>1, <1>2, <2>1, OthersKeep, FileKept DEF FileInv, Content
<1>15. CASE QueueWrite \/ \E sent \in Payload : QueueRead(sent)
  <2>1. UNCHANGED <<workState, file, drv, regen>>
    BY <1>15 DEF QueueWrite, QueueRead, fixed
  <2>2. Content
    BY <1>1, <1>3, <1>15, ResolvedEffect DEF QueueWrite, QueueRead, WorkItemsTypeOK
  <2> QED BY <1>1, <2>1, <2>2, OthersKeep, FileKept DEF FileInv, Content
<1>16. ASSUME NEW who \in Claimer, Claim(who) \/ ReleaseClaim(who)
       PROVE  FileInv'
  <2>1. row'.state = row.state /\ everIn' = everIn
    BY <1>1, <1>16, ClaimEffect, ReleaseEffect
  <2>2. UNCHANGED <<workState, file, drv, regen>>
    BY <1>16 DEF Claim, ReleaseClaim, fixed
  <2> QED BY <1>1, <2>1, <2>2, OthersKeep DEF FileInv, FileFollowsRow
<1>17. CASE Tick \/ UNCHANGED vars
  <2>1. UNCHANGED <<workState, file, drv, regen, row, everIn>>
    BY <1>17 DEF Tick, vars, fixed, history
  <2> QED BY <1>1, <2>1, OthersKeep DEF FileInv, FileFollowsRow
<1> QED
  BY <1>4, <1>5, <1>6, <1>7, <1>8, <1>9, <1>10, <1>11, <1>12, <1>13, <1>14, <1>15, <1>16,
     <1>17 DEF WorkItemsNext

LEMMA FilesHold == WorkItemsSpec => []FileInv
<1>1. WorkItemsInit => FileInv
  <2> SUFFICES ASSUME WorkItemsInit PROVE FileInv
    OBVIOUS
  <2>1. WorkItemsTypeOK
    BY WorkItemsAssumption
       DEF WorkItemsInit, WorkItemsTypeOK, NoRow, Row, State, Body, By, NoUpsert, Payload,
           Away, DriverState, Place
  <2>2. \A d \in Driver : drv[d].at = "off" /\ drv[d].seen = "none"
    BY DEF WorkItemsInit, Away
  <2>3. row.state = "none" /\ regen = "none" /\ file.by = "human"
    BY DEF WorkItemsInit, NoRow
  <2> QED
    BY <2>1, <2>2, <2>3 DEF FileInv, Sourced, ArmIsFiles, FileFollowsRow, RowExists
<1> QED
  BY <1>1, FileInvKept, PTL DEF WorkItemsSpec

\* Under store authority the harness never writes a state into a work file that the row
\* has not had: a move is in the store first, and whoever repairs a file copies a row.
THEOREM FilesFollowRows == WorkItemsSpec => []FileFollowsRow
<1>1. FileInv => FileFollowsRow
  BY DEF FileInv
<1> QED
  BY <1>1, FilesHold, PTL

----------------------------------------------------------------------------
(* Moves *)

\* The move of one driver, as KnowingMoves judges it.
Knowing(d) ==
  \/ Believed(d) = row.state
  \/ drv[d].at = "rows" /\ drv[d].seen = "none"

\* Who changes a row's state: a driver that knows it, or nobody's driver.
LEMMA MoveSteps ==
  ASSUME FileInv, [WorkItemsNext]_vars, workState = "store"
  PROVE  \/ row'.state = row.state
         \/ row'.by \in {"human", "queue"}
         \/ \E d \in Driver : row'.by = d /\ Knowing(d)
<1>1. WorkItemsTypeOK /\ ArmIsFiles
  BY DEF FileInv
<1>2. /\ now \in Nat /\ "human" \in By /\ "approved" \in State /\ "quarantined" \in State
  BY <1>1 DEF WorkItemsTypeOK, By, State
<1>3. ASSUME NEW d \in Driver, Mirror(d)
      PROVE  row' = row \/ (row'.by = d /\ Knowing(d))
  <2>1. drv[d].at = "rows"
    BY <1>3 DEF Mirror
  <2> QED BY <1>1, <1>3, <2>1, MirrorEffect DEF Knowing
<1>4. ASSUME NEW d \in Driver, Approve(d) \/ AnswerLost(d)
      PROVE  row' = row \/ (row'.by = d /\ Knowing(d))
  <2>1. Cas(drv[d].item, "approved", d) /\ drv[d].at \in {"ready", "rescuing"}
    BY <1>4 DEF Approve, AnswerLost, Moves
  <2>2. row' = row \/ (row.state = drv[d].item /\ row'.by = d)
    BY <1>1, <1>2, <2>1, CasEffect, CopyTypes
  <2> QED BY <2>1, <2>2 DEF Knowing, Believed
<1>5. ASSUME NEW d \in Driver, QuarantineRow(d)
      PROVE  row' = row \/ (row'.by = d /\ Knowing(d))
  <2>1. Cas(drv[d].seen, "quarantined", d) /\ drv[d].at = "quarantining"
    BY <1>5 DEF QuarantineRow
  <2>2. row' = row \/ (row.state = drv[d].seen /\ row'.by = d)
    BY <1>1, <1>2, <2>1, CasEffect, CopyTypes
  <2> QED BY <2>1, <2>2 DEF Knowing, Believed
<1>6. ASSUME NEW d \in Driver
      PROVE  ~MirrorWrite(d)
  BY <1>1 DEF MirrorWrite, ArmIsFiles
<1>7. ASSUME NEW d \in Driver,
             \/ Load(d) \/ ReadRows(d) \/ AdoptStored(d) \/ FileApproved(d)
             \/ ApplyApproved(d) \/ QuarantineRead(d) \/ Leave(d)
             \/ StoreFails(d) \/ Rescue(d)
      PROVE  row' = row
  BY <1>7 DEF Load, ReadRows, AdoptStored, FileApproved, ApplyApproved, QuarantineRead, Leave,
               StoreFails, Rescue
<1>8. ASSUME NEW s \in State, NEW e, SetState(s) \/ SetStateExpecting(e, s)
      PROVE  row' = row \/ row'.by = "human"
  <2>1. CASE Upsert(s, now, "human")
    BY <1>1, <1>2, <2>1, UpsertEffect
  <2>2. CASE Cas(e, s, "human")
    BY <1>1, <1>2, <2>2, CasEffect
  <2> QED BY <1>8, <2>1, <2>2 DEF SetState, SetStateExpecting
<1>9. ASSUME NEW s \in State, EditFile(s)
      PROVE  row' = row
  BY <1>9 DEF EditFile
<1>10. CASE QueueWrite
  BY <1>1, <1>10, ResolvedEffect DEF QueueWrite, WorkItemsTypeOK
<1>11. ASSUME NEW who \in Claimer, Claim(who) \/ ReleaseClaim(who)
       PROVE  row'.state = row.state
  BY <1>1, <1>11, ClaimEffect, ReleaseEffect
<1>12. CASE \/ RegenerateRead \/ RegenerateWrite \/ Tick \/ UNCHANGED vars
            \/ \E sent \in Payload : QueueRead(sent)
  BY <1>12 DEF RegenerateRead, RegenerateWrite, Tick, QueueRead, vars
<1> QED
  BY <1>3, <1>4, <1>5, <1>6, <1>7, <1>8, <1>9, <1>10, <1>11, <1>12 DEF WorkItemsNext

\* Under store authority no driver moves an item from a state it did not know of.
THEOREM MovesAreKnowing == WorkItemsSpec => KnowingMoves
<1>1. ASSUME FileInv, [WorkItemsNext]_vars, NEW d \in Driver,
             workState = "store", row'.state # row.state, row'.by = d
      PROVE  Knowing(d)
  <2>1. d \notin {"human", "queue"}
    BY WorkItemsAssumption
  <2> QED BY <1>1, <2>1, MoveSteps
<1>2. FileInv /\ [WorkItemsNext]_vars =>
        [\A d \in Driver :
           /\ workState = "store"
           /\ RowExists /\ row'.state # row.state
           /\ row'.by = d
           => \/ Believed(d) = row.state
              \/ drv[d].at = "rows" /\ drv[d].seen = "none"]_vars
  BY <1>1 DEF Knowing
<1> QED
  BY <1>2, FilesHold, PTL DEF WorkItemsSpec, KnowingMoves

----------------------------------------------------------------------------
(* Mirrors *)

\* A row that is not there has no stamp.
NoRowNoStamp == row.state = "none" => row.at = 0

StampInv == WorkItemsTypeOK /\ NoRowNoStamp

LEMMA StampInvKept == StampInv /\ [WorkItemsNext]_vars => StampInv'
<1> SUFFICES ASSUME StampInv, [WorkItemsNext]_vars
             PROVE  StampInv'
  OBVIOUS
<1>1. WorkItemsTypeOK /\ WorkItemsTypeOK' /\ NoRowNoStamp
  BY TypesKept DEF StampInv
<1>2. /\ now \in Nat /\ "human" \in By /\ "approved" \in State /\ "quarantined" \in State
      /\ "none" \notin State /\ row \in Row
  BY <1>1 DEF WorkItemsTypeOK, By, State
<1>3. ASSUME Content
      PROVE  NoRowNoStamp'
  BY <1>1, <1>2, <1>3 DEF Content, NoRowNoStamp
<1>4. ASSUME row' = row
      PROVE  NoRowNoStamp'
  BY <1>1, <1>4 DEF NoRowNoStamp
<1>5. ASSUME NEW d \in Driver, \/ Mirror(d) \/ Approve(d) \/ AnswerLost(d) \/ MirrorWrite(d)
                               \/ QuarantineRow(d)
      PROVE  Content
  BY <1>1, <1>2, <1>5, MirrorEffect, CasEffect, UpsertEffect, CopyTypes
     DEF Approve, AnswerLost, MirrorWrite, QuarantineRow
<1>6. ASSUME NEW d \in Driver,
             \/ Load(d) \/ ReadRows(d) \/ AdoptStored(d) \/ FileApproved(d)
             \/ ApplyApproved(d) \/ QuarantineRead(d) \/ Leave(d)
             \/ StoreFails(d) \/ Rescue(d)
      PROVE  row' = row
  BY <1>6 DEF Load, ReadRows, AdoptStored, FileApproved, ApplyApproved, QuarantineRead, Leave,
               StoreFails, Rescue
<1>7. ASSUME NEW s \in State, NEW e, SetState(s) \/ SetStateExpecting(e, s)
      PROVE  Content
  BY <1>1, <1>2, <1>7, UpsertEffect, CasEffect DEF SetState, SetStateExpecting
<1>8. ASSUME NEW s \in State, EditFile(s)
      PROVE  row' = row
  BY <1>8 DEF EditFile
<1>9. CASE QueueWrite
  <2>1. Content
    BY <1>1, <1>9, ResolvedEffect DEF QueueWrite, WorkItemsTypeOK
  <2> QED BY <1>1, <1>3, <2>1 DEF StampInv
<1>10. ASSUME NEW who \in Claimer, Claim(who)
       PROVE  NoRowNoStamp'
  <2>1. row'.state = row.state /\ RowExists
    BY <1>1, <1>10, ClaimEffect DEF Claim
  <2> QED BY <2>1 DEF RowExists, NoRowNoStamp
<1>11. ASSUME NEW who \in Claimer, ReleaseClaim(who)
       PROVE  NoRowNoStamp'
  <2>1. row' = [row EXCEPT !.holder = NoOne, !.expires = 0]
    BY <1>11 DEF ReleaseClaim
  <2>2. row'.state = row.state /\ row'.at = row.at
    BY <1>2, <2>1 DEF Row
  <2> QED BY <1>1, <2>2 DEF NoRowNoStamp
<1>12. CASE \/ RegenerateRead \/ RegenerateWrite \/ Tick \/ UNCHANGED vars
            \/ \E sent \in Payload : QueueRead(sent)
  BY <1>1, <1>4, <1>12 DEF RegenerateRead, RegenerateWrite, Tick, QueueRead, vars, StampInv
<1> QED
  BY <1>1, <1>3, <1>4, <1>5, <1>6, <1>7, <1>8, <1>9, <1>10, <1>11, <1>12
     DEF WorkItemsNext, StampInv

LEMMA StampsHold == WorkItemsSpec => []StampInv
<1>1. WorkItemsInit => StampInv
  <2>1. WorkItemsInit => row.at = 0
    BY DEF WorkItemsInit, NoRow
  <2>2. WorkItemsInit => WorkItemsTypeOK
    BY WorkItemsAssumption
       DEF WorkItemsInit, WorkItemsTypeOK, NoRow, Row, State, Body, By, NoUpsert, Payload,
           Away, DriverState, Place
  <2> QED
    BY <2>1, <2>2 DEF StampInv, NoRowNoStamp
<1> QED
  BY <1>1, StampInvKept, PTL DEF WorkItemsSpec

\* The mirror is the only way from the rows to the run.
LEMMA MirrorsAreMirrors ==
  ASSUME WorkItemsTypeOK, [WorkItemsNext]_vars, NEW d \in Driver,
         drv[d].at = "rows", drv'[d].at = "ready"
  PROVE  Mirror(d)
<1>1. drv \in [Driver -> DriverState]
  BY DEF WorkItemsTypeOK
<1>2. drv'[d] # drv[d]
  OBVIOUS
<1>3. ASSUME NEW e \in Driver, e # d, NEW new, drv' = [drv EXCEPT ![e] = new]
      PROVE  FALSE
  BY <1>1, <1>2, <1>3
<1>4. ASSUME NEW e \in Driver, e # d
      PROVE  ~(\/ Load(e) \/ ReadRows(e) \/ Mirror(e) \/ Rescue(e) \/ StoreFails(e)
               \/ Approve(e) \/ AnswerLost(e) \/ AdoptStored(e) \/ FileApproved(e)
               \/ ApplyApproved(e) \/ MirrorWrite(e) \/ QuarantineRead(e) \/ QuarantineRow(e)
               \/ Leave(e))
  <2>1. ~(Load(e) \/ ReadRows(e) \/ Leave(e))
    BY <1>1, <1>2, <1>4 DEF Load, ReadRows, Leave
  <2>2. ~(Rescue(e) \/ Approve(e) \/ ApplyApproved(e) \/ QuarantineRead(e))
    BY <1>1, <1>2, <1>4 DEF Rescue, Approve, ApplyApproved, QuarantineRead, GoDrv
  <2>3. \A item : ~Ready(e, item)
    BY <1>1, <1>2, <1>4 DEF Ready
  <2>4. ~(AnswerLost(e) \/ AdoptStored(e) \/ FileApproved(e) \/ MirrorWrite(e) \/ QuarantineRow(e)
          \/ StoreFails(e))
    BY <2>3 DEF AnswerLost, AdoptStored, FileApproved, MirrorWrite, QuarantineRow, StoreFails
  <2>5. ~Mirror(e)
    BY <2>3 DEF Mirror, MirrorFromStore, MirrorFromFiles
  <2> QED BY <2>1, <2>2, <2>4, <2>5
<1>5. ~(Load(d) \/ Rescue(d) \/ StoreFails(d) \/ ReadRows(d))
  BY DEF Load, Rescue, StoreFails, ReadRows
<1>6. ~(Approve(d) \/ AnswerLost(d) \/ AdoptStored(d) \/ FileApproved(d) \/ ApplyApproved(d)
        \/ MirrorWrite(d) \/ QuarantineRead(d) \/ QuarantineRow(d))
  BY DEF Approve, AnswerLost, AdoptStored, FileApproved, ApplyApproved, MirrorWrite,
         QuarantineRead, QuarantineRow, Moves
<1>7. ~Leave(d)
  BY <1>1 DEF Leave, Away
<1>8. CASE \E e \in Driver : \/ Load(e) \/ ReadRows(e) \/ Mirror(e) \/ Rescue(e) \/ StoreFails(e)
                             \/ Approve(e) \/ AnswerLost(e) \/ AdoptStored(e) \/ FileApproved(e)
                             \/ ApplyApproved(e) \/ MirrorWrite(e) \/ QuarantineRead(e)
                             \/ QuarantineRow(e) \/ Leave(e)
  BY <1>4, <1>5, <1>6, <1>7, <1>8
<1>9. CASE drv' = drv
  BY <1>2, <1>9
<1>10. ASSUME NEW s \in State, NEW e, SetState(s) \/ SetStateExpecting(e, s) \/ EditFile(s)
       PROVE  drv' = drv
  BY <1>10 DEF SetState, SetStateExpecting, EditFile
<1>11. ASSUME NEW who \in Claimer, Claim(who) \/ ReleaseClaim(who)
       PROVE  drv' = drv
  BY <1>11 DEF Claim, ReleaseClaim
<1>12. CASE \/ RegenerateRead \/ RegenerateWrite \/ Tick \/ UNCHANGED vars \/ QueueWrite
            \/ \E sent \in Payload : QueueRead(sent)
  BY <1>9, <1>12 DEF RegenerateRead, RegenerateWrite, Tick, QueueRead, QueueWrite, vars
<1> QED
  BY <1>8, <1>9, <1>10, <1>11, <1>12 DEF WorkItemsNext

\* Under store authority the copy and the file follow the row.
LEMMA SettlesFromStore ==
  ASSUME StampInv, NEW d \in Driver, Mirror(d), StillAsRead(d), workState = "store"
  PROVE  /\ drv'[d].item = row'.state
         /\ RowExists => row' = row
         /\ fileOk => file'.state = row'.state
<1>1. WorkItemsTypeOK /\ drv \in [Driver -> DriverState]
  BY DEF StampInv, WorkItemsTypeOK
<1>2. /\ drv[d].item \in State /\ d \in By /\ drv[d].mtime \in Nat /\ now \in Nat
      /\ row.state = drv[d].seen /\ file.state = drv[d].item
      /\ drv[d].seen \in State \cup {"none"}
      /\ file \in [state : State, at : Nat, by : {"human", "harness"}]
  BY <1>1, CopyTypes DEF StillAsRead, WorkItemsTypeOK
<1>3. MirrorFromStore(d)
  BY DEF Mirror
<1>4. ASSUME NEW item \in State, Ready(d, item)
      PROVE  drv'[d].item = item
  <2>1. ASSUME NEW f, f = [Away EXCEPT !.at = "ready", !.item = item]
        PROVE  f.item = item
    BY <2>1 DEF Away
  <2> QED BY <1>1, <1>4, <2>1 DEF Ready
<1>5. CASE drv[d].seen = "none"
  <2>1. /\ Upsert(drv[d].item, IF fileOk THEN drv[d].mtime ELSE now, d)
        /\ Ready(d, drv[d].item) /\ file' = file
    BY <1>3, <1>5 DEF MirrorFromStore
  <2>2. (IF fileOk THEN drv[d].mtime ELSE now) \in Nat
    BY <1>2
  <2>3. row'.state = drv[d].item
    BY <1>1, <1>2, <2>1, <2>2, UpsertEffect
  <2> QED BY <1>2, <1>4, <1>5, <2>1, <2>3 DEF RowExists
<1>6. CASE drv[d].seen # "none"
  <2>1. /\ row' = row /\ Ready(d, drv[d].seen) /\ drv[d].seen \in State
        /\ IF drv[d].seen = drv[d].item THEN file' = file ELSE WriteFile(drv[d].seen)
    BY <1>2, <1>3, <1>6 DEF MirrorFromStore
  <2>2. fileOk => file'.state = drv[d].seen
    BY <1>2, <2>1 DEF WriteFile
  <2> QED BY <1>2, <1>4, <2>1, <2>2
<1> QED BY <1>5, <1>6

\* Under files the row follows the file, unless the row is newer.
LEMMA SettlesFromFiles ==
  ASSUME StampInv, NEW d \in Driver, Mirror(d), StillAsRead(d), workState # "store"
  PROVE  /\ file' = file
         /\ IF fileOk /\ row.at > file.at
            THEN row' = row
            ELSE row'.state = file.state
<1>1. WorkItemsTypeOK
  BY DEF StampInv
<1>2. /\ drv[d].item \in State /\ d \in By /\ row.at \in Nat /\ file.at \in Nat
      /\ row.state = drv[d].seen /\ file.state = drv[d].item
      /\ row.at = drv[d].seenAt /\ file.at = drv[d].mtime
  BY <1>1, CopyTypes DEF StillAsRead, WorkItemsTypeOK, Row
<1>3. MirrorFromFiles(d)
  BY DEF Mirror
<1>4. file' = file
  BY <1>3 DEF MirrorFromFiles
<1>5. CASE drv[d].seen = "none" \/ FileWins(d)
  <2>1. row'.state = file.state
    BY <1>1, <1>2, <1>3, <1>5, StampType, UpsertEffect DEF MirrorFromFiles
  <2>2. ~(fileOk /\ row.at > file.at)
    BY <1>2, <1>5 DEF FileWins, StampInv, NoRowNoStamp
  <2> QED BY <1>4, <2>1, <2>2
<1>6. CASE ~(drv[d].seen = "none" \/ FileWins(d))
  <2>1. row' = row
    BY <1>3, <1>6 DEF MirrorFromFiles
  <2>2. (fileOk /\ row.at > file.at) \/ row.state = file.state
    BY <1>2, <1>6 DEF FileWins
  <2> QED BY <1>4, <2>1, <2>2
<1> QED BY <1>5, <1>6

\* A mirror that nobody interrupts settles the item, whatever was left of it by an earlier
\* crash: _mirror_read, epic.py, and plan_mirror, work_mirror.py.
THEOREM MirrorsSettle == WorkItemsSpec => MirrorSettles
<1>1. StampInv /\ [WorkItemsNext]_vars =>
        [\A d \in Driver :
           /\ drv[d].at = "rows" /\ drv'[d].at = "ready"
           /\ StillAsRead(d)
           => IF workState = "store"
              THEN /\ drv'[d].item = row'.state
                   /\ RowExists => row' = row
                   /\ fileOk => file'.state = row'.state
              ELSE /\ file' = file
                   /\ IF fileOk /\ row.at > file.at
                      THEN row' = row
                      ELSE row'.state = file.state]_vars
  <2> SUFFICES ASSUME StampInv, [WorkItemsNext]_vars, NEW d \in Driver,
                      drv[d].at = "rows", drv'[d].at = "ready", StillAsRead(d)
               PROVE  IF workState = "store"
                      THEN /\ drv'[d].item = row'.state
                           /\ RowExists => row' = row
                           /\ fileOk => file'.state = row'.state
                      ELSE /\ file' = file
                           /\ IF fileOk /\ row.at > file.at
                              THEN row' = row
                              ELSE row'.state = file.state
    OBVIOUS
  <2>1. Mirror(d)
    BY MirrorsAreMirrors DEF StampInv
  <2>2. CASE workState = "store"
    BY <2>1, <2>2, SettlesFromStore
  <2>3. CASE workState # "store"
    BY <2>1, <2>3, SettlesFromFiles
  <2> QED BY <2>2, <2>3
<1> QED
  BY <1>1, StampsHold, PTL DEF WorkItemsSpec, MirrorSettles
=============================================================================
