--------------------------- MODULE RunnersProofs ---------------------------
(***************************************************************************)
(* What runs the model calls: what the Claude Code runner writes down and  *)
(* what its sessions spend, for every set of limits and every number of    *)
(* calls, and the API runners and their tool loop.                         *)
(***************************************************************************)
EXTENDS CallLog, ClaudeSession, ApiRunner, WellFoundedInduction, TLAPS

-----------------------------------------------------------------------------
(* What the runner writes down *)

\* A call as it is written down.
LogRow ==
  [id : Ids, first : Ids, file : FileNames, kind : {"call", "timeout", "failed", "retried", "patch", "complete"}]

LogTypeOK ==
  /\ made \in 0..MaxLogged
  /\ at \in [Workers -> {"idle", "first", "second", "again", "kept", "complete"}]
  /\ mine \in [Workers -> LogRow \cup {NotMade}]
  /\ files \in [FileNames -> 0..MaxLogged]
  /\ listed \in Seq(LogRow) /\ nodeCalls \subseteq LogRow /\ unread \subseteq Ids

\* The call at work is the newest, under the next number until it takes its
\* place, and under that place's number from then on.
AtWork(w) ==
  /\ at[w] # "idle" =>
       /\ mine[w] \in LogRow /\ mine[w].id = made /\ mine[w].first <= made /\ mine[w].kind = "call"
       /\ mine[w].file[2] = "trace"
       /\ mine[w].file[1] = IF at[w] \in {"kept", "complete"} THEN Len(listed) ELSE Len(listed) + 1
  /\ at[w] = "first" => mine[w].first = mine[w].id
  /\ at[w] \notin {"idle", "again"} => files[mine[w].file] = made
  /\ at[w] \in {"kept", "complete"} => Len(listed) > 0 /\ listed[Len(listed)].id = made
  /\ at[w] = "complete" => listed[Len(listed)] = [mine[w] EXCEPT !.kind = "complete"]

\* A place in the list is a call's, so there are never more places than calls.
PlacesAreCalls(w) ==
  Len(listed) <= made /\ (at[w] \in {"first", "second", "again"} => Len(listed) < made)

\* A row is written once its call is over, or is about to be made again.
RowsAreOver(w) ==
  /\ \A r \in nodeCalls : r.first <= r.id /\ r.id <= made /\ r.kind # "call"
                          /\ (r.kind = "complete" => r.file[2] = "trace")
  /\ at[w] \notin {"idle", "again"} => \A r \in nodeCalls : r.id # made
  /\ at[w] = "again" => \E r \in nodeCalls : r.id = made /\ r.kind = "retried"

\* The rows of the node at work are of its failed attempt, whose trace was renamed.
Renamed(w) ==
  at[w] # "idle" =>
    \A r \in nodeCalls : r.first = mine[w].first =>
      r.kind = "retried" /\ r.file = <<mine[w].file[1], "error">> /\ files[r.file] = r.id

\* The files of an answered node bear the number of its place.
AnsweredFiles ==
  \A r \in nodeCalls, a \in nodeCalls :
    a.kind \in {"complete", "patch"} /\ r.first = a.first => r.file[1] <= Len(listed) /\ files[r.file] = r.id

LogInv(w) ==
  /\ LogTypeOK /\ AtWork(w) /\ PlacesAreCalls(w) /\ RowsAreOver(w) /\ Renamed(w) /\ AnsweredFiles
  /\ AnsweredIsStored /\ EvidenceIsKept

\* With one worker only its own call is unfinished.
LEMMA OneIsGoing ==
  ASSUME NEW w, Workers = {w}
  PROVE  Going = IF at[w] = "idle" THEN {} ELSE {mine[w].id}
  BY DEF Going

LEMMA LogInitInv ==
  ASSUME NEW w, Workers = {w}, LogInit
  PROVE  LogInv(w)
<1> USE CallLogAssumption
<1>1. listed = <<>> /\ Len(listed) = 0 /\ nodeCalls = {} /\ made = 0 /\ at[w] = "idle"
  BY DEF LogInit
<1>2. LogTypeOK
  BY DEF LogInit, LogTypeOK, FileNames, Ids
<1> QED
  BY <1>1, <1>2 DEF LogInv, AtWork, PlacesAreCalls, RowsAreOver, Renamed, AnsweredFiles,
     AnsweredIsStored, EvidenceIsKept

\* The next call of the CLI, which has the next number and none of the answered nodes' rows.
LEMMA NextCall ==
  ASSUME NEW w, Workers = {w}, LogInv(w), Calls(w)
  PROVE  /\ at[w] \in {"idle", "again"} /\ made \in Nat /\ Len(listed) \in Nat /\ Len(listed) <= made
         /\ made' = made + 1 /\ made + 1 \in Ids /\ made + 1 \in 0..MaxLogged /\ NextFile \in FileNames
         /\ mine' \in [Workers -> LogRow \cup {NotMade}] /\ mine'[w] \in LogRow
         /\ mine'[w].id = made + 1 /\ mine'[w].file = NextFile /\ mine'[w].kind = "call"
         /\ mine'[w].first \in Ids /\ mine'[w].first <= made + 1 /\ (at[w] = "idle" => mine'[w].first = made + 1)
         /\ at[w] # "idle" => mine'[w].first = mine[w].first /\ mine[w].file = NextFile /\ mine[w].id = made
<1> USE CallLogAssumption
<1> DEFINE id == made + 1
           file == <<Len(listed) + 1, "trace">>
           m == mine'[w]
<1>0. LogTypeOK /\ AtWork(w) /\ PlacesAreCalls(w)
  BY DEF LogInv
<1>1. /\ at[w] \in {"idle", "again"} /\ made < MaxLogged /\ made' = made + 1 /\ NextFile = file
      /\ mine' = [mine EXCEPT ![w] = [id |-> id, first |-> IF at[w] = "idle" THEN id ELSE mine[w].first,
                                      file |-> file, kind |-> "call"]]
  BY DEF Calls, NextFile
<1>2. made \in Nat /\ Len(listed) \in Nat /\ Len(listed) <= made /\ Len(listed) + 1 \in Ids
      /\ id \in Ids /\ id \in 0..MaxLogged
  BY <1>0, <1>1 DEF LogTypeOK, PlacesAreCalls, Ids
<1>3. file \in FileNames
  BY <1>2 DEF FileNames
<1>5. m = [id |-> id, first |-> IF at[w] = "idle" THEN id ELSE mine[w].first, file |-> file, kind |-> "call"]
  BY <1>0, <1>1 DEF LogTypeOK
<1>6. m.first \in Ids /\ m.first <= id /\ (at[w] = "idle" => m.first = id)
      /\ (at[w] # "idle" => m.first = mine[w].first /\ mine[w].file = file /\ mine[w].id = made)
  <2>1. CASE at[w] = "idle"
    BY <2>1, <1>2, <1>5
  <2>2. CASE at[w] = "again"
    <3>1. mine[w] \in LogRow /\ mine[w].first <= made /\ mine[w].file[2] = "trace"
          /\ mine[w].file[1] = Len(listed) + 1 /\ mine[w].id = made
      BY <2>2, <1>0 DEF AtWork
    <3>2. mine[w].first \in Ids /\ mine[w].file \in FileNames
      BY <3>1 DEF LogRow
    <3>3. mine[w].file = file
      BY <3>1, <3>2 DEF FileNames
    <3> QED BY <2>2, <3>1, <3>2, <3>3, <1>2, <1>5 DEF Ids
  <2> QED BY <1>1, <2>1, <2>2
<1>7. m \in LogRow
  BY <1>2, <1>3, <1>5, <1>6 DEF LogRow
<1>8. mine' \in [Workers -> LogRow \cup {NotMade}]
  BY <1>0, <1>1, <1>5, <1>7 DEF LogTypeOK
<1> QED BY <1>1, <1>2, <1>3, <1>5, <1>6, <1>7, <1>8

\* Before the next call, nothing but the failed attempt of the node at work is without an end.
LEMMA OthersAreStored ==
  ASSUME NEW w, Workers = {w}, LogInv(w), at[w] \in {"idle", "again"}, NEW i \in (1..made) \ unread
  PROVE  \E r \in nodeCalls : r.id = i /\ r.kind # "call" /\ (r.kind = "complete" => r.file[2] = "trace")
<1>0. AtWork(w) /\ RowsAreOver(w) /\ AnsweredIsStored
  BY DEF LogInv
<1>1. CASE i \notin Going
  BY <1>0, <1>1 DEF AnsweredIsStored
<1>2. CASE i \in Going
  <2>1. at[w] = "again" /\ i = made
    BY <1>2, <1>0, OneIsGoing DEF AtWork
  <2> QED BY <2>1, <1>0 DEF RowsAreOver
<1> QED BY <1>1, <1>2

\* The rows a next call finds of its node are of the attempt that failed.
LEMMA RowsOfItsNode ==
  ASSUME NEW w, Workers = {w}, LogInv(w), Calls(w), NEW r \in nodeCalls
  PROVE  /\ r.id # made + 1 /\ r.id <= made + 1 /\ r.file \in FileNames
         /\ r.first = mine'[w].first =>
              at[w] # "idle" /\ r.kind = "retried" /\ r.file = <<mine[w].file[1], "error">> /\ files[r.file] = r.id
<1>0. LogTypeOK /\ RowsAreOver(w) /\ Renamed(w)
  BY DEF LogInv
<1>1. r.first <= r.id /\ r.id <= made /\ r.first \in Nat /\ r.id \in Nat /\ made \in Nat /\ r.file \in FileNames
  BY <1>0, NextCall DEF RowsAreOver, LogTypeOK, LogRow, Ids
<1>2. ASSUME r.first = mine'[w].first
      PROVE  at[w] # "idle" /\ r.kind = "retried" /\ r.file = <<mine[w].file[1], "error">> /\ files[r.file] = r.id
  <2>1. at[w] # "idle"
    BY <1>1, <1>2, NextCall
  <2> QED BY <2>1, <1>0, <1>2, NextCall DEF Renamed
<1> QED BY <1>1, <1>2

LEMMA TraceInv ==
  ASSUME NEW w, Workers = {w}, LogInv(w), Trace(w)
  PROVE  LogInv(w)'
<1> USE CallLogAssumption
<1> DEFINE id == made + 1
           file == <<Len(listed) + 1, "trace">>
           m == mine'[w]
<1>0. LogTypeOK /\ AtWork(w) /\ PlacesAreCalls(w) /\ RowsAreOver(w) /\ Renamed(w) /\ AnsweredFiles
      /\ AnsweredIsStored /\ EvidenceIsKept
  BY DEF LogInv
<1>1. /\ Calls(w) /\ listed' = listed /\ nodeCalls' = nodeCalls /\ unread' = unread
      /\ files' = [files EXCEPT ![file] = id]
      /\ at' = [at EXCEPT ![w] = IF at[w] = "idle" THEN "first" ELSE "second"]
  BY DEF Trace, NextFile
<1>2. /\ at[w] \in {"idle", "again"} /\ made \in Nat /\ Len(listed) \in Nat /\ Len(listed) <= made
      /\ made' = made + 1 /\ id \in Ids /\ id \in 0..MaxLogged /\ file \in FileNames
      /\ mine' \in [Workers -> LogRow \cup {NotMade}] /\ m \in LogRow
      /\ m.id = id /\ m.file = file /\ m.kind = "call"
      /\ m.first \in Ids /\ m.first <= id /\ (at[w] = "idle" => m.first = id)
      /\ (at[w] # "idle" => m.first = mine[w].first /\ mine[w].file = file /\ mine[w].id = made)
  BY <1>1, NextCall DEF NextFile
<1>3. files'[file] = id /\ files' \in [FileNames -> 0..MaxLogged]
      /\ \A f \in FileNames : f # file => files'[f] = files[f]
  BY <1>0, <1>1, <1>2 DEF LogTypeOK
<1>4. at'[w] \in {"first", "second"} /\ at'[w] = IF at[w] = "idle" THEN "first" ELSE "second"
  BY <1>0, <1>1 DEF LogTypeOK
<1>8. LogTypeOK'
  <2>1. at' \in [Workers -> {"idle", "first", "second", "again", "kept", "complete"}]
    BY <1>0, <1>1 DEF LogTypeOK
  <2> QED BY <1>0, <1>1, <1>2, <1>3, <2>1 DEF LogTypeOK
<1>9. AtWork(w)'
  BY <1>1, <1>2, <1>3, <1>4 DEF AtWork
<1>10. PlacesAreCalls(w)' /\ RowsAreOver(w)'
  <2>1. PlacesAreCalls(w)'
    BY <1>0, <1>1, <1>2, <1>4 DEF PlacesAreCalls
  <2>2. \A r \in nodeCalls : r.id # made' /\ r.id <= made'
    BY <1>1, <1>2, RowsOfItsNode
  <2> QED BY <1>0, <1>1, <1>4, <2>1, <2>2 DEF RowsAreOver
<1>11. Renamed(w)'
  <2> SUFFICES ASSUME NEW r \in nodeCalls, r.first = m.first
               PROVE  r.kind = "retried" /\ r.file = <<m.file[1], "error">> /\ files'[r.file] = r.id
    BY <1>1 DEF Renamed
  <2>1. /\ at[w] # "idle" /\ r.kind = "retried" /\ r.file = <<mine[w].file[1], "error">> /\ files[r.file] = r.id
        /\ r.file \in FileNames
    BY <1>1, RowsOfItsNode
  <2>2. r.file[2] = "error" /\ file[2] = "trace"
    BY <2>1
  <2>3. r.file # file
    BY <2>2
  <2> QED BY <2>1, <2>3, <1>2, <1>3
<1>12. AnsweredFiles'
  <2> SUFFICES ASSUME NEW r \in nodeCalls, NEW a \in nodeCalls, a.kind \in {"complete", "patch"}, r.first = a.first
               PROVE  r.file[1] <= Len(listed) /\ files'[r.file] = r.id
    BY <1>1 DEF AnsweredFiles
  <2>1. r.file[1] <= Len(listed) /\ files[r.file] = r.id /\ r.file \in FileNames
    BY <1>0 DEF AnsweredFiles, LogTypeOK, LogRow
  <2>2. r.file # file
    BY <2>1, <1>2
  <2> QED BY <2>1, <2>2, <1>3
<1>13. AnsweredIsStored'
  <2> SUFFICES ASSUME NEW i \in (1..made') \ unread, i \notin Going'
               PROVE  \E r \in nodeCalls : r.id = i /\ r.kind # "call" /\ (r.kind = "complete" => r.file[2] = "trace")
    BY <1>1 DEF AnsweredIsStored
  <2>1. Going' = {id}
    BY <1>2, <1>4 DEF Going
  <2>2. i \in (1..made) \ unread
    BY <2>1, <1>2
  <2> QED BY <2>2, <1>2, OthersAreStored
<1>14. EvidenceIsKept'
  BY <1>0, <1>1 DEF EvidenceIsKept
<1> QED
  BY <1>8, <1>9, <1>10, <1>11, <1>12, <1>13, <1>14 DEF LogInv

LEMMA TimesOutInv ==
  ASSUME NEW w, Workers = {w}, LogInv(w), TimesOut(w)
  PROVE  LogInv(w)'
<1> USE CallLogAssumption
<1> DEFINE row == [mine'[w] EXCEPT !.kind = "timeout"]
<1>0. LogTypeOK /\ AtWork(w) /\ PlacesAreCalls(w) /\ RowsAreOver(w) /\ Renamed(w) /\ AnsweredFiles
      /\ AnsweredIsStored /\ EvidenceIsKept
  BY DEF LogInv
<1>1. /\ Calls(w) /\ nodeCalls' = Stored(row) /\ at' = [at EXCEPT ![w] = "idle"]
      /\ listed' = listed /\ files' = files /\ unread' = unread
  BY DEF TimesOut
<1>2. /\ at[w] \in {"idle", "again"} /\ made \in Nat /\ Len(listed) \in Nat /\ Len(listed) <= made
      /\ made' = made + 1 /\ made + 1 \in Ids /\ made + 1 \in 0..MaxLogged
      /\ mine' \in [Workers -> LogRow \cup {NotMade}] /\ mine'[w] \in LogRow
      /\ mine'[w].id = made + 1 /\ mine'[w].first <= made + 1
  BY <1>1, NextCall
<1>3. row \in LogRow /\ row.id = made + 1 /\ row.first = mine'[w].first /\ row.kind = "timeout"
  BY <1>2 DEF LogRow
<1>4. nodeCalls' = nodeCalls \cup {row}
  <2>1. \A r \in nodeCalls : r.id # row.id
    BY <1>1, <1>3, RowsOfItsNode
  <2> QED BY <2>1, <1>1 DEF Stored
<1> HIDE DEF row
<1>5. at'[w] = "idle" /\ at' \in [Workers -> {"idle", "first", "second", "again", "kept", "complete"}]
  BY <1>0, <1>1 DEF LogTypeOK
<1>6. LogTypeOK' /\ AtWork(w)' /\ PlacesAreCalls(w)' /\ Renamed(w)'
  BY <1>0, <1>1, <1>2, <1>3, <1>4, <1>5 DEF LogTypeOK, AtWork, PlacesAreCalls, Renamed
<1>7. RowsAreOver(w)'
  <2>1. \A r \in nodeCalls : r.id <= made + 1
    BY <1>1, RowsOfItsNode
  <2> QED BY <2>1, <1>0, <1>2, <1>3, <1>4, <1>5 DEF RowsAreOver
<1>8. AnsweredFiles'
  <2> SUFFICES ASSUME NEW r \in nodeCalls', NEW a \in nodeCalls', a.kind \in {"complete", "patch"}, r.first = a.first
               PROVE  r.file[1] <= Len(listed) /\ files[r.file] = r.id
    BY <1>1 DEF AnsweredFiles
  <2>1. a \in nodeCalls
    BY <1>3, <1>4
  <2>2. r # row
    BY <2>1, <1>1, <1>3, RowsOfItsNode
  <2> QED BY <2>1, <2>2, <1>0, <1>4 DEF AnsweredFiles
<1>9. AnsweredIsStored'
  <2> SUFFICES ASSUME NEW i \in (1..made') \ unread
               PROVE  \E r \in nodeCalls' : r.id = i /\ r.kind # "call" /\ (r.kind = "complete" => r.file[2] = "trace")
    BY <1>1 DEF AnsweredIsStored
  <2>1. CASE i = made + 1
    BY <2>1, <1>3, <1>4
  <2>2. CASE i # made + 1
    <3>1. i \in (1..made) \ unread
      BY <2>2, <1>2
    <3> QED BY <3>1, <1>2, <1>4, OthersAreStored
  <2> QED BY <2>1, <2>2
<1>10. EvidenceIsKept'
  BY <1>0, <1>1, <1>3, <1>4 DEF EvidenceIsKept
<1> QED
  BY <1>6, <1>7, <1>8, <1>9, <1>10 DEF LogInv

LEMMA SaysNothingInv ==
  ASSUME NEW w, Workers = {w}, LogInv(w), SaysNothing(w)
  PROVE  LogInv(w)'
<1> USE CallLogAssumption
<1>0. LogTypeOK /\ AtWork(w) /\ PlacesAreCalls(w) /\ RowsAreOver(w) /\ Renamed(w) /\ AnsweredFiles
      /\ AnsweredIsStored /\ EvidenceIsKept
  BY DEF LogInv
<1>1. /\ Calls(w) /\ at' = [at EXCEPT ![w] = "idle"] /\ unread' = unread \cup {made + 1}
      /\ listed' = listed /\ files' = files /\ nodeCalls' = nodeCalls
  BY DEF SaysNothing
<1>2. /\ at[w] \in {"idle", "again"} /\ made \in Nat /\ Len(listed) \in Nat /\ Len(listed) <= made
      /\ made' = made + 1 /\ made + 1 \in Ids /\ made + 1 \in 0..MaxLogged
      /\ mine' \in [Workers -> LogRow \cup {NotMade}]
  BY <1>1, NextCall
<1>3. at'[w] = "idle" /\ at' \in [Workers -> {"idle", "first", "second", "again", "kept", "complete"}]
  BY <1>0, <1>1 DEF LogTypeOK
<1>4. LogTypeOK' /\ AtWork(w)' /\ PlacesAreCalls(w)' /\ Renamed(w)'
  BY <1>0, <1>1, <1>2, <1>3 DEF LogTypeOK, AtWork, PlacesAreCalls, Renamed
<1>5. RowsAreOver(w)'
  <2>1. \A r \in nodeCalls : r.id <= made + 1
    BY <1>1, RowsOfItsNode
  <2> QED BY <2>1, <1>0, <1>1, <1>2, <1>3 DEF RowsAreOver
<1>6. AnsweredIsStored'
  <2> SUFFICES ASSUME NEW i \in (1..made') \ unread'
               PROVE  \E r \in nodeCalls : r.id = i /\ r.kind # "call" /\ (r.kind = "complete" => r.file[2] = "trace")
    BY <1>1 DEF AnsweredIsStored
  <2>1. i \in (1..made) \ unread
    BY <1>1, <1>2
  <2> QED BY <2>1, <1>2, OthersAreStored
<1>7. AnsweredFiles' /\ EvidenceIsKept'
  BY <1>0, <1>1 DEF AnsweredFiles, EvidenceIsKept
<1> QED
  BY <1>4, <1>5, <1>6, <1>7 DEF LogInv

LEMMA NoResultInv ==
  ASSUME NEW w, Workers = {w}, LogInv(w), NoResult(w)
  PROVE  LogInv(w)'
<1> USE CallLogAssumption
<1>0. LogTypeOK /\ AtWork(w) /\ PlacesAreCalls(w) /\ RowsAreOver(w) /\ Renamed(w) /\ AnsweredFiles
      /\ AnsweredIsStored /\ EvidenceIsKept
  BY DEF LogInv
<1>1. /\ at[w] \in {"first", "second"} /\ at' = [at EXCEPT ![w] = "idle"] /\ unread' = unread \cup {mine[w].id}
      /\ listed' = listed /\ files' = files /\ nodeCalls' = nodeCalls /\ mine' = mine /\ made' = made
  BY DEF NoResult
<1>2. mine[w] \in LogRow /\ mine[w].id = made /\ made \in Ids
  BY <1>0, <1>1 DEF AtWork, LogRow
<1>3. at'[w] = "idle" /\ at' \in [Workers -> {"idle", "first", "second", "again", "kept", "complete"}]
  BY <1>0, <1>1 DEF LogTypeOK
<1>4. LogTypeOK' /\ AtWork(w)' /\ PlacesAreCalls(w)' /\ Renamed(w)' /\ RowsAreOver(w)'
  BY <1>0, <1>1, <1>2, <1>3 DEF LogTypeOK, AtWork, PlacesAreCalls, Renamed, RowsAreOver
<1>5. AnsweredIsStored'
  <2>1. Going = {made}
    BY <1>1, <1>2, OneIsGoing
  <2> QED BY <2>1, <1>0, <1>1, <1>2 DEF AnsweredIsStored
<1>6. AnsweredFiles' /\ EvidenceIsKept'
  BY <1>0, <1>1 DEF AnsweredFiles, EvidenceIsKept
<1> QED
  BY <1>4, <1>5, <1>6 DEF LogInv

\* A row of the call at work, whose node ends with it, keeps the rows in order.
LEMMA EndingRowInv ==
  ASSUME NEW w, Workers = {w}, LogInv(w), at[w] \notin {"idle", "again"},
         NEW row \in LogRow, row.id = made, row.first = mine[w].first, row.file = mine[w].file, row.kind # "call",
         row.kind \in {"complete", "patch"} => at[w] \in {"kept", "complete"},
         row.kind = "complete" => listed[Len(listed)] = row,
         nodeCalls' = nodeCalls \cup {row}, at' = [at EXCEPT ![w] = "idle"],
         UNCHANGED <<listed, files, mine, made, unread>>
  PROVE  LogInv(w)'
<1> USE CallLogAssumption
<1>0. LogTypeOK /\ AtWork(w) /\ PlacesAreCalls(w) /\ RowsAreOver(w) /\ Renamed(w) /\ AnsweredFiles
      /\ AnsweredIsStored /\ EvidenceIsKept
  BY DEF LogInv
<1>1. /\ mine[w] \in LogRow /\ mine[w].id = made /\ mine[w].first <= made /\ mine[w].file[2] = "trace"
      /\ mine[w].file[1] = IF at[w] \in {"kept", "complete"} THEN Len(listed) ELSE Len(listed) + 1
      /\ files[mine[w].file] = made
  BY <1>0 DEF AtWork
<1>2. at'[w] = "idle" /\ at' \in [Workers -> {"idle", "first", "second", "again", "kept", "complete"}]
  BY <1>0 DEF LogTypeOK
<1>3. LogTypeOK' /\ AtWork(w)' /\ Renamed(w)'
  BY <1>0, <1>2 DEF LogTypeOK, AtWork, Renamed
<1>4. PlacesAreCalls(w)' /\ RowsAreOver(w)'
  BY <1>0, <1>1, <1>2 DEF PlacesAreCalls, RowsAreOver, LogRow, Ids, LogTypeOK
<1>5. AnsweredFiles'
  <2> SUFFICES ASSUME NEW r \in nodeCalls', NEW a \in nodeCalls', a.kind \in {"complete", "patch"}, r.first = a.first
               PROVE  r.file[1] <= Len(listed) /\ files[r.file] = r.id
    BY DEF AnsweredFiles
  <2>1. Len(listed) \in Nat
    BY <1>0 DEF LogTypeOK
  <2>2. CASE r \in nodeCalls /\ a \in nodeCalls
    BY <2>2, <1>0 DEF AnsweredFiles
  <2>3. CASE r \in nodeCalls /\ a = row
    <3>1. r.kind = "retried" /\ r.file = <<mine[w].file[1], "error">> /\ files[r.file] = r.id
      BY <2>3, <1>0 DEF Renamed
    <3> QED BY <3>1, <2>1, <2>3, <1>1
  <2>4. CASE r = row /\ a \in nodeCalls
    <3>1. a.kind = "retried"
      BY <2>4, <1>0 DEF Renamed
    <3> QED BY <3>1
  <2>5. CASE r = row /\ a = row
    BY <2>5, <2>1, <1>1
  <2> QED BY <2>2, <2>3, <2>4, <2>5
<1>6. AnsweredIsStored'
  <2> SUFFICES ASSUME NEW i \in (1..made) \ unread
               PROVE  \E r \in nodeCalls' : r.id = i /\ r.kind # "call" /\ (r.kind = "complete" => r.file[2] = "trace")
    BY DEF AnsweredIsStored
  <2>1. CASE i = made
    BY <2>1, <1>1
  <2>2. CASE i # made
    BY <2>2, <1>0, <1>1, OneIsGoing DEF AnsweredIsStored
  <2> QED BY <2>1, <2>2
<1>7. EvidenceIsKept'
  <2> SUFFICES ASSUME NEW r \in nodeCalls', r.kind = "complete"
               PROVE  \E i \in 1..Len(listed) : listed[i].id = r.id /\ listed[i].kind = "complete"
    BY DEF EvidenceIsKept
  <2>1. CASE r \in nodeCalls
    BY <2>1, <1>0 DEF EvidenceIsKept
  <2>2. CASE r = row
    <3>1. Len(listed) \in 1..Len(listed)
      BY <2>2, <1>0 DEF AtWork, LogTypeOK
    <3> QED BY <3>1, <2>2
  <2> QED BY <2>1, <2>2
<1> QED
  BY <1>3, <1>4, <1>5, <1>6, <1>7 DEF LogInv

\* The call at work has no row yet.
LEMMA NoRowYet ==
  ASSUME NEW w, LogInv(w), at[w] \notin {"idle", "again"}, NEW row, row.id = made
  PROVE  Stored(row) = nodeCalls \cup {row}
  BY DEF LogInv, RowsAreOver, Stored

LEMMA EndWithoutAnswerInv ==
  ASSUME NEW w, Workers = {w}, LogInv(w), EndWithoutAnswer(w)
  PROVE  LogInv(w)'
<1> DEFINE row == [mine[w] EXCEPT !.kind = "failed"]
<1>1. at[w] \in {"first", "second"} /\ nodeCalls' = Stored(row) /\ at' = [at EXCEPT ![w] = "idle"]
      /\ UNCHANGED <<listed, files, mine, made, unread>>
  BY DEF EndWithoutAnswer
<1>2. mine[w] \in LogRow /\ mine[w].id = made
  BY <1>1 DEF LogInv, AtWork
<1>3. row \in LogRow /\ row.id = made /\ row.first = mine[w].first /\ row.file = mine[w].file
      /\ row.kind = "failed"
  BY <1>2 DEF LogRow
<1>4. nodeCalls' = nodeCalls \cup {row}
  BY <1>1, <1>3, NoRowYet
<1> HIDE DEF row
<1> QED BY <1>1, <1>3, <1>4, EndingRowInv

LEMMA PatchFailsInv ==
  ASSUME NEW w, Workers = {w}, LogInv(w), PatchFails(w)
  PROVE  LogInv(w)'
<1> DEFINE row == [mine[w] EXCEPT !.kind = "patch"]
<1>1. at[w] = "kept" /\ nodeCalls' = Stored(row) /\ at' = [at EXCEPT ![w] = "idle"]
      /\ UNCHANGED <<listed, files, mine, made, unread>>
  BY DEF PatchFails
<1>2. mine[w] \in LogRow /\ mine[w].id = made
  BY <1>1 DEF LogInv, AtWork
<1>3. row \in LogRow /\ row.id = made /\ row.first = mine[w].first /\ row.file = mine[w].file
      /\ row.kind = "patch"
  BY <1>2 DEF LogRow
<1>4. nodeCalls' = nodeCalls \cup {row}
  BY <1>1, <1>3, NoRowYet
<1> HIDE DEF row
<1> QED BY <1>1, <1>3, <1>4, EndingRowInv

LEMMA LedgerInv ==
  ASSUME NEW w, Workers = {w}, LogInv(w), Ledger(w)
  PROVE  LogInv(w)'
<1> DEFINE row == listed[Len(listed)]
<1>1. at[w] = "complete" /\ nodeCalls' = Stored(row) /\ at' = [at EXCEPT ![w] = "idle"]
      /\ UNCHANGED <<listed, files, mine, made, unread>>
  BY DEF Ledger
<1>2. mine[w] \in LogRow /\ mine[w].id = made /\ row = [mine[w] EXCEPT !.kind = "complete"]
  BY <1>1 DEF LogInv, AtWork
<1>3. row \in LogRow /\ row.id = made /\ row.first = mine[w].first /\ row.file = mine[w].file
      /\ row.kind = "complete"
  BY <1>2 DEF LogRow
<1>4. nodeCalls' = nodeCalls \cup {row}
  BY <1>1, <1>3, NoRowYet
<1> QED BY <1>1, <1>3, <1>4, EndingRowInv

LEMMA RetryLoggedInv ==
  ASSUME NEW w, Workers = {w}, LogInv(w), RetryLogged(w)
  PROVE  LogInv(w)'
<1> USE CallLogAssumption
<1> DEFINE file == mine[w].file
           error == <<mine[w].file[1], "error">>
           row == [mine[w] EXCEPT !.kind = "retried", !.file = error]
<1>0. LogTypeOK /\ AtWork(w) /\ PlacesAreCalls(w) /\ RowsAreOver(w) /\ Renamed(w) /\ AnsweredFiles
      /\ AnsweredIsStored /\ EvidenceIsKept
  BY DEF LogInv
<1>1. /\ at[w] = "first" /\ nodeCalls' = Stored(row) /\ at' = [at EXCEPT ![w] = "again"]
      /\ files' = [files EXCEPT ![error] = files[file], ![file] = 0]
      /\ listed' = listed /\ mine' = mine /\ made' = made /\ unread' = unread
  BY DEF RetryLogged
<1>2. /\ mine[w] \in LogRow /\ mine[w].id = made /\ mine[w].first = made /\ file[2] = "trace"
      /\ file[1] = Len(listed) + 1 /\ files[file] = made /\ mine[w].kind = "call"
  BY <1>0, <1>1 DEF AtWork
<1>3. file \in FileNames /\ error \in FileNames /\ file = <<Len(listed) + 1, "trace">> /\ error = <<Len(listed) + 1, "error">>
  BY <1>2 DEF LogRow, FileNames
<1>4. files'[error] = made /\ files' \in [FileNames -> 0..MaxLogged]
      /\ \A f \in FileNames : f # file /\ f # error => files'[f] = files[f]
  <2>1. file # error
    <3>1. file[2] = "trace" /\ error[2] = "error"
      BY <1>2
    <3> QED BY <3>1
  <2>2. files \in [FileNames -> 0..MaxLogged] /\ 0 \in 0..MaxLogged /\ made \in 0..MaxLogged
    BY <1>0 DEF LogTypeOK
  <2> HIDE DEF file, error
  <2> QED BY <2>1, <2>2, <1>1, <1>2, <1>3
<1>5. row \in LogRow /\ row.id = made /\ row.first = made /\ row.file = error /\ row.kind = "retried"
  BY <1>2, <1>3 DEF LogRow
<1>6. nodeCalls' = nodeCalls \cup {row}
  BY <1>1, <1>5, NoRowYet
<1> HIDE DEF row, error, file
<1>7. at'[w] = "again" /\ at' \in [Workers -> {"idle", "first", "second", "again", "kept", "complete"}]
  BY <1>0, <1>1 DEF LogTypeOK
<1>8. LogTypeOK' /\ AtWork(w)'
  BY <1>0, <1>1, <1>2, <1>4, <1>5, <1>6, <1>7 DEF LogTypeOK, AtWork
<1>9. \A r \in nodeCalls : r.id \in Nat /\ r.first \in Nat /\ r.first <= r.id /\ r.id <= made /\ r.id # made
  BY <1>0, <1>1 DEF RowsAreOver, LogTypeOK, LogRow, Ids
<1>10. made \in Nat /\ Len(listed) \in Nat
  BY <1>0 DEF LogTypeOK
<1>11. PlacesAreCalls(w)' /\ RowsAreOver(w)'
  BY <1>0, <1>1, <1>5, <1>6, <1>7, <1>10 DEF PlacesAreCalls, RowsAreOver
<1>12. Renamed(w)'
  <2> SUFFICES ASSUME NEW r \in nodeCalls', r.first = made
               PROVE  r.kind = "retried" /\ r.file = error /\ files'[r.file] = r.id
    BY <1>1, <1>2 DEF Renamed, error
  <2>1. r = row
    BY <1>6, <1>9, <1>10
  <2> QED BY <2>1, <1>4, <1>5
<1>13. AnsweredFiles'
  <2> SUFFICES ASSUME NEW r \in nodeCalls', NEW a \in nodeCalls', a.kind \in {"complete", "patch"}, r.first = a.first
               PROVE  r.file[1] <= Len(listed) /\ files'[r.file] = r.id
    BY <1>1 DEF AnsweredFiles
  <2>1. a \in nodeCalls
    BY <1>5, <1>6
  <2>2. a.first # made
    BY <2>1, <1>9, <1>10
  <2>3. r \in nodeCalls
    BY <2>2, <1>5, <1>6
  <2>4. r.file[1] <= Len(listed) /\ files[r.file] = r.id /\ r.file \in FileNames
    BY <2>1, <2>3, <1>0 DEF AnsweredFiles, LogTypeOK, LogRow
  <2>5. r.file # file /\ r.file # error
    BY <2>4, <1>3, <1>10
  <2> QED BY <2>4, <2>5, <1>4
<1>14. AnsweredIsStored'
  <2>1. Going' = {made}
    BY <1>1, <1>2, <1>7 DEF Going
  <2>2. Going = {made}
    BY <1>1, <1>2, OneIsGoing
  <2> QED BY <2>1, <2>2, <1>0, <1>1, <1>6 DEF AnsweredIsStored
<1>15. EvidenceIsKept'
  BY <1>0, <1>1, <1>5, <1>6 DEF EvidenceIsKept
<1> QED
  BY <1>8, <1>11, <1>12, <1>13, <1>14, <1>15 DEF LogInv

LEMMA KeepInv ==
  ASSUME NEW w, Workers = {w}, LogInv(w), Keep(w)
  PROVE  LogInv(w)'
<1> USE CallLogAssumption
<1>0. LogTypeOK /\ AtWork(w) /\ PlacesAreCalls(w) /\ RowsAreOver(w) /\ Renamed(w) /\ AnsweredFiles
      /\ AnsweredIsStored /\ EvidenceIsKept
  BY DEF LogInv
<1>1. /\ at[w] \in {"first", "second"} /\ listed' = Append(listed, mine[w]) /\ at' = [at EXCEPT ![w] = "kept"]
      /\ nodeCalls' = nodeCalls /\ files' = files /\ mine' = mine /\ made' = made /\ unread' = unread
  BY DEF Keep
<1>2. mine[w] \in LogRow /\ mine[w].id = made /\ mine[w].file[1] = Len(listed) + 1
  BY <1>0, <1>1 DEF AtWork
<1>3. /\ listed \in Seq(LogRow) /\ Len(listed) \in Nat /\ made \in Nat /\ Len(listed) < made
      /\ listed' \in Seq(LogRow) /\ Len(listed') = Len(listed) + 1 /\ listed'[Len(listed')] = mine[w]
      /\ \A i \in 1..Len(listed) : listed'[i] = listed[i]
  BY <1>0, <1>1, <1>2 DEF LogTypeOK, PlacesAreCalls
<1>4. at'[w] = "kept" /\ at' \in [Workers -> {"idle", "first", "second", "again", "kept", "complete"}]
  BY <1>0, <1>1 DEF LogTypeOK
<1>5. LogTypeOK' /\ AtWork(w)' /\ PlacesAreCalls(w)'
  BY <1>0, <1>1, <1>2, <1>3, <1>4 DEF LogTypeOK, AtWork, PlacesAreCalls
<1>6. RowsAreOver(w)' /\ Renamed(w)'
  BY <1>0, <1>1, <1>4 DEF RowsAreOver, Renamed
<1>7. AnsweredFiles'
  <2> SUFFICES ASSUME NEW r \in nodeCalls, NEW a \in nodeCalls, a.kind \in {"complete", "patch"}, r.first = a.first
               PROVE  r.file[1] <= Len(listed') /\ files[r.file] = r.id
    BY <1>1 DEF AnsweredFiles
  <2>1. r.file[1] <= Len(listed) /\ files[r.file] = r.id
    BY <1>0 DEF AnsweredFiles
  <2>2. r.file[1] \in Nat
    BY <1>0 DEF LogTypeOK, LogRow, FileNames, Ids
  <2> QED BY <2>1, <2>2, <1>3
<1>8. AnsweredIsStored'
  <2>1. Going' = {made} /\ Going = {made}
    BY <1>1, <1>2, <1>4 DEF Going
  <2> QED BY <2>1, <1>0, <1>1 DEF AnsweredIsStored
<1>9. EvidenceIsKept'
  <2> SUFFICES ASSUME NEW r \in nodeCalls, r.kind = "complete"
               PROVE  \E i \in 1..Len(listed') : listed'[i].id = r.id /\ listed'[i].kind = "complete"
    BY <1>1 DEF EvidenceIsKept
  <2>1. PICK i \in 1..Len(listed) : listed[i].id = r.id /\ listed[i].kind = "complete"
    BY <1>0 DEF EvidenceIsKept
  <2> QED BY <2>1, <1>3
<1> QED
  BY <1>5, <1>6, <1>7, <1>8, <1>9 DEF LogInv

LEMMA CompleteInv ==
  ASSUME NEW w, Workers = {w}, LogInv(w), Complete(w)
  PROVE  LogInv(w)'
<1> USE CallLogAssumption
<1> DEFINE row == [mine[w] EXCEPT !.kind = "complete"]
<1>0. LogTypeOK /\ AtWork(w) /\ PlacesAreCalls(w) /\ RowsAreOver(w) /\ Renamed(w) /\ AnsweredFiles
      /\ AnsweredIsStored /\ EvidenceIsKept
  BY DEF LogInv
<1>1. /\ at[w] = "kept" /\ listed' = [listed EXCEPT ![Len(listed)] = row] /\ at' = [at EXCEPT ![w] = "complete"]
      /\ nodeCalls' = nodeCalls /\ files' = files /\ mine' = mine /\ made' = made /\ unread' = unread
  BY DEF Complete
<1>2. mine[w] \in LogRow /\ mine[w].id = made /\ mine[w].file[1] = Len(listed)
      /\ Len(listed) > 0 /\ listed[Len(listed)].id = made
  BY <1>0, <1>1 DEF AtWork
<1>3. row \in LogRow /\ row.id = made
  BY <1>2 DEF LogRow
<1>4. /\ listed \in Seq(LogRow) /\ Len(listed) \in Nat
      /\ listed' \in Seq(LogRow) /\ Len(listed') = Len(listed) /\ listed'[Len(listed)] = row
      /\ \A i \in 1..Len(listed) : i # Len(listed) => listed'[i] = listed[i]
  <2>1. listed \in Seq(LogRow) /\ Len(listed) \in Nat
    BY <1>0 DEF LogTypeOK
  <2> HIDE DEF row
  <2> QED BY <2>1, <1>1, <1>2, <1>3
<1>5. at'[w] = "complete" /\ at' \in [Workers -> {"idle", "first", "second", "again", "kept", "complete"}]
  BY <1>0, <1>1 DEF LogTypeOK
<1>6. LogTypeOK' /\ AtWork(w)' /\ PlacesAreCalls(w)'
  BY <1>0, <1>1, <1>2, <1>3, <1>4, <1>5 DEF LogTypeOK, AtWork, PlacesAreCalls
<1>7. RowsAreOver(w)' /\ Renamed(w)' /\ AnsweredFiles'
  BY <1>0, <1>1, <1>4, <1>5 DEF RowsAreOver, Renamed, AnsweredFiles
<1>8. AnsweredIsStored'
  <2>1. Going' = {made} /\ Going = {made}
    BY <1>1, <1>2, <1>5 DEF Going
  <2> QED BY <2>1, <1>0, <1>1 DEF AnsweredIsStored
<1>9. EvidenceIsKept'
  <2> SUFFICES ASSUME NEW r \in nodeCalls, r.kind = "complete"
               PROVE  \E i \in 1..Len(listed') : listed'[i].id = r.id /\ listed'[i].kind = "complete"
    BY <1>1 DEF EvidenceIsKept
  <2>1. PICK i \in 1..Len(listed) : listed[i].id = r.id /\ listed[i].kind = "complete"
    BY <1>0 DEF EvidenceIsKept
  <2>2. i # Len(listed)
    BY <2>1, <1>0, <1>1, <1>2 DEF RowsAreOver
  <2> QED BY <2>1, <2>2, <1>4
<1> QED
  BY <1>6, <1>7, <1>8, <1>9 DEF LogInv

\* Nothing of a stutter is the log's.
LEMMA LogStutterInv ==
  ASSUME NEW w, LogInv(w), UNCHANGED logVars
  PROVE  LogInv(w)'
  BY DEF logVars, LogInv, LogTypeOK, AtWork, PlacesAreCalls, RowsAreOver, Renamed, AnsweredFiles,
     AnsweredIsStored, EvidenceIsKept, Going

\* Among the facts, the traces of an answered node.
LEMMA LogInvAgrees ==
  ASSUME NEW w, LogInv(w)
  PROVE  LogsAgree
  BY DEF LogInv, AnsweredFiles, LogsAgree, KeptTraces

(* On a runner that one worker at a time uses, every call that came back   *)
(* with a result or was killed at its timeout ends with a row, the list    *)
(* has every answer as it was completed, and the files that an answered    *)
(* node's rows name hold what those calls did.  Only what the runner       *)
(* cannot read goes without a row.  With two workers this is false: each   *)
(* reads the length of the list before it writes.                          *)
THEOREM OneWorkersLogsAgree ==
  ASSUME NEW w, Workers = {w}
  PROVE  LogSpec => []LogsAgree
<1>1. LogInit => LogInv(w)
  BY LogInitInv
<1>2. LogInv(w) /\ [LogNext]_logVars => LogInv(w)'
  <2> SUFFICES ASSUME LogInv(w), [LogNext]_logVars
               PROVE  LogInv(w)'
    OBVIOUS
  <2>1. CASE UNCHANGED logVars
    BY <2>1, LogStutterInv
  <2>2. CASE LogNext
    <3>1. \/ Trace(w) \/ TimesOut(w) \/ SaysNothing(w) \/ NoResult(w) \/ EndWithoutAnswer(w)
          \/ RetryLogged(w) \/ Keep(w) \/ PatchFails(w) \/ Complete(w) \/ Ledger(w)
      BY <2>2 DEF LogNext
    <3> QED
      BY <3>1, TraceInv, TimesOutInv, SaysNothingInv, NoResultInv, EndWithoutAnswerInv, RetryLoggedInv,
         KeepInv, PatchFailsInv, CompleteInv, LedgerInv
  <2> QED BY <2>1, <2>2
<1>3. LogInv(w) => LogsAgree
  BY LogInvAgrees
<1> QED BY <1>1, <1>2, <1>3, PTL DEF LogSpec

-----------------------------------------------------------------------------
(* A session of the Claude Code runner *)

LEMMA LeastIs ==
  ASSUME NEW a \in Int, NEW b \in Int
  PROVE  Least(a, b) = IF a <= b THEN a ELSE b
<1> DEFINE m == IF a <= b THEN a ELSE b
<1>1. m \in {a, b} /\ \A y \in {a, b} : m =< y
  OBVIOUS
<1>2. \A x \in {a, b} : (\A y \in {a, b} : x =< y) => x = m
  OBVIOUS
<1> HIDE DEF m
<1>3. Min({a, b}) = m
  BY <1>1, <1>2, Zenon DEF Min
<1> QED BY <1>3 DEF Least, m

SessionCall ==
  [at : {"idle", "try", "ready", "back", "settle"}, attempt : {1, 2}, model : {"first", "alternate"},
   sent : Int, said : Said \cup {"nothing"}, told : BOOLEAN, total : Nat]
SessionEnd ==
  [end : {"none", "answer", "stop", "failed", "limit"}, index : Nat,
   kind : {"none", "ceiling", "checkpoint", "cap", "budget"}, sent : Int, patch : SUBSET {"build", "verify"}]
History ==
  [calls : Nat, paid : Nat, ran : Nat, mute : Nat, unsaid : Nat, rebooked : Nat, failed : BOOLEAN,
   untold : BOOLEAN, restarted : BOOLEAN, loose : BOOLEAN, noted : BOOLEAN, mishaps : Nat]

Ledgers == [rows : Nat, cost : Nat, trace : Nat]

ThreadState == [open : BOOLEAN, resumes : BOOLEAN, reported : Nat, spent : Nat, ckpt : Nat \ {0}]

SessionTypes ==
  /\ setup \in Setups
  /\ th \in ThreadState
  /\ th.ckpt <= Len(setup.targets) + 1
  /\ cli \in [exists : BOOLEAN, total : Nat]
  /\ call \in SessionCall /\ last \in SessionEnd
  /\ scratch \in SUBSET {"build", "verify"}
  /\ books \in Ledgers /\ seen \in History

\* The limits of a role, as numbers.
LEMMA SetupTypes ==
  ASSUME SessionTypes
  PROVE  /\ setup.thread \in BOOLEAN /\ setup.patches \in BOOLEAN
         /\ setup.guide \in Nat /\ setup.cap \in Nat /\ setup.role \in Nat /\ setup.task \in Nat
         /\ setup.targets \in Seq(Nat) /\ Len(setup.targets) \in Nat
         /\ Spent \in Nat /\ Target \in Nat /\ HardCeiling \in Nat /\ Index \in Nat \ {0}
<1>1. setup \in SetupFacts
  BY ClaudeSessionAssumption DEF SessionTypes
<1>2. /\ setup.thread \in BOOLEAN /\ setup.patches \in BOOLEAN
      /\ setup.guide \in Nat /\ setup.cap \in Nat /\ setup.role \in Nat /\ setup.task \in Nat
      /\ setup.targets \in Seq(Nat) /\ Len(setup.targets) \in Nat
  BY <1>1 DEF SetupFacts, Limits
<1>3. Spent \in Nat /\ Index \in Nat \ {0}
  BY DEF SessionTypes, ThreadState, Spent, Index
<1>4. Target \in Nat
  BY <1>2, <1>3, ClaudeSessionAssumption DEF Target
<1>5. HardCeiling \in Nat
  BY <1>2, LeastIs DEF HardCeiling
<1> QED BY <1>2, <1>3, <1>4, <1>5

LEMMA SentTypes ==
  ASSUME SessionTypes
  PROVE  Slice \in Int /\ Sent \in Int
<1> USE ClaudeSessionAssumption, SetupTypes
<1>1. Slice \in Int
  BY LeastIs DEF Slice
<1> QED BY <1>1, LeastIs DEF Sent

\* A row costs something or nothing, never less.
LEMMA LedgerTypes ==
  ASSUME SessionTypes
  PROVE  /\ Cost(call.total) \in Nat /\ Reported \in Nat
         /\ LedgerRow \in Ledgers /\ RowCost \in Nat
         /\ BookedAs(RowCost, IF setup.traced THEN 0 ELSE books.trace) \in Ledgers
         /\ BookedAs(books.trace, books.trace) \in Ledgers
         /\ Moved \in ThreadState
         /\ Moved.ckpt = th.ckpt /\ Moved.reported = Reported /\ Moved.spent = Reported /\ Moved.resumes = th.resumes
<1>1. call.total \in Nat /\ th.reported \in Nat /\ books.cost \in Nat /\ books.rows \in Nat /\ books.trace \in Nat
  BY DEF SessionTypes, SessionCall, ThreadState, Ledgers
<1>2. Cost(call.total) \in Nat /\ Reported \in Nat /\ RowCost \in Nat
  BY <1>1 DEF Cost, Reported, RowCost
<1>3. \A cost, trace \in Nat : BookedAs(cost, trace) \in Ledgers
  BY <1>1 DEF BookedAs, Ledgers
<1>4. /\ LedgerRow \in Ledgers
      /\ BookedAs(RowCost, IF setup.traced THEN 0 ELSE books.trace) \in Ledgers
      /\ BookedAs(books.trace, books.trace) \in Ledgers
  BY <1>1, <1>2, <1>3 DEF LedgerRow
<1> QED BY <1>2, <1>4 DEF Moved, SessionTypes, ThreadState

LEMMA EndTypes ==
  ASSUME NEW how \in {"none", "answer", "stop", "failed", "limit"}, End(how)
  PROVE  call' \in SessionCall /\ last' \in SessionEnd /\ last'.patch = {} /\ call'.at = "idle"
  BY DEF End, SessionCall, SessionEnd, NoCall, NoLast

LEMMA PartTypes ==
  ASSUME SessionTypes
  PROVE  /\ Partial \in SUBSET {"build", "verify"} /\ th \in ThreadState /\ th.ckpt \in Nat \ {0}
         /\ call.sent \in Int
  BY DEF SessionTypes, Partial, ThreadState, SessionCall

LEMMA NewTypes ==
  /\ NoCall \in SessionCall /\ NoLast \in SessionEnd /\ NoHistory \in History
  /\ NewThread \in ThreadState
  BY DEF NoCall, NoLast, NoHistory, NewThread, ThreadState, SessionCall, SessionEnd, History

\* What the CLI does in one call.
Ran(said, own, told, restarts, wrote) ==
  /\ said = "budget" => Sent # NoLimit /\ own >= Sent
  /\ own <= IF Sent = NoLimit THEN MaxOwn ELSE Sent + Overshoot
  /\ said \in {"timeout"} \cup Mute => ~told
  /\ restarts => cli.exists /\ setup.thread
  /\ restarts \/ ~told => seen.mishaps < MaxMishaps
  /\ wrote => setup.patches
  /\ LET total == IF setup.thread /\ cli.exists /\ ~restarts THEN cli.total + own ELSE own
     IN /\ cli' = [exists |-> setup.thread, total |-> total]
        /\ call' = [call EXCEPT !.at = "back", !.sent = Sent, !.said = said, !.told = told, !.total = total]
        /\ books' = [books EXCEPT !.trace = TraceOf(said, told, total)]
  /\ scratch' = IF wrote THEN Edited ELSE scratch
  /\ seen' = [seen EXCEPT !.paid = @ + own, !.ran = @ + 1, !.mute = @ + (IF said \in Mute THEN 1 ELSE 0),
                          !.unsaid = IF ~told THEN @ + own ELSE IF setup.thread THEN 0 ELSE @,
                          !.untold = @ \/ ~told, !.restarted = @ \/ restarts,
                          !.mishaps = @ + (IF restarts \/ ~told THEN 1 ELSE 0)]

LEMMA InvokeRan ==
  ASSUME Invoke
  PROVE  /\ call.at = "ready" /\ ~AtCeiling /\ ~AtCheckpoint
         /\ \E said \in Said, own \in 0..(MaxOwn + Overshoot), told \in BOOLEAN, restarts \in BOOLEAN, wrote \in BOOLEAN :
              Ran(said, own, told, restarts, wrote)
         /\ UNCHANGED <<setup, th, last>>
  BY Zenon DEF Invoke, Ran

\* The same, field by field.
LEMMA RanFacts ==
  ASSUME SessionTypes, NEW said \in Said, NEW own \in 0..(MaxOwn + Overshoot), NEW told \in BOOLEAN,
         NEW restarts \in BOOLEAN, NEW wrote \in BOOLEAN, Ran(said, own, told, restarts, wrote)
  PROVE  /\ own \in Nat /\ cli' = [exists |-> setup.thread, total |-> call'.total]
         /\ call' \in SessionCall /\ seen' \in History
         /\ call'.total = IF setup.thread /\ cli.exists /\ ~restarts THEN cli.total + own ELSE own
         /\ call'.at = "back" /\ call'.sent = Sent /\ call'.said = said /\ call'.told = told
         /\ call'.attempt = call.attempt
         /\ seen'.calls = seen.calls /\ seen'.paid = seen.paid + own
         /\ seen'.ran = seen.ran + 1 /\ seen'.mute = seen.mute + (IF said \in Mute THEN 1 ELSE 0)
         /\ seen'.unsaid = (IF ~told THEN seen.unsaid + own ELSE IF setup.thread THEN 0 ELSE seen.unsaid)
         /\ seen'.rebooked = seen.rebooked
         /\ books' \in Ledgers /\ books'.rows = books.rows /\ books'.cost = books.cost
         /\ seen'.untold = (seen.untold \/ ~told) /\ seen'.restarted = (seen.restarted \/ restarts)
         /\ seen'.failed = seen.failed /\ seen'.loose = seen.loose /\ seen'.noted = seen.noted
<1> DEFINE total == IF setup.thread /\ cli.exists /\ ~restarts THEN cli.total + own ELSE own
<1>1. own \in Nat /\ cli.total \in Nat /\ total \in Nat /\ Sent \in Int
  BY ClaudeSessionAssumption, SentTypes DEF SessionTypes
<1>2. /\ cli' = [exists |-> setup.thread, total |-> total]
      /\ call' = [call EXCEPT !.at = "back", !.sent = Sent, !.said = said, !.told = told, !.total = total]
      /\ seen' = [seen EXCEPT !.paid = @ + own, !.ran = @ + 1, !.mute = @ + (IF said \in Mute THEN 1 ELSE 0),
                              !.unsaid = IF ~told THEN @ + own ELSE IF setup.thread THEN 0 ELSE @,
                              !.untold = @ \/ ~told, !.restarted = @ \/ restarts,
                              !.mishaps = @ + (IF restarts \/ ~told THEN 1 ELSE 0)]
  BY DEF Ran
<1> HIDE DEF total
<1>3. /\ call' \in SessionCall /\ call'.total = total /\ call'.at = "back" /\ call'.sent = Sent
      /\ call'.said = said /\ call'.told = told /\ call'.attempt = call.attempt
  <2>1. call \in SessionCall
    BY DEF SessionTypes
  <2> QED BY <2>1, <1>1, <1>2 DEF SessionCall
<1>4. seen \in History
  BY DEF SessionTypes
<1>5. /\ seen.paid + own \in Nat /\ seen.ran + 1 \in Nat /\ seen.mute + (IF said \in Mute THEN 1 ELSE 0) \in Nat
      /\ (IF ~told THEN seen.unsaid + own ELSE IF setup.thread THEN 0 ELSE seen.unsaid) \in Nat
      /\ (seen.untold \/ ~told) \in BOOLEAN /\ (seen.restarted \/ restarts) \in BOOLEAN
      /\ seen.mishaps + (IF restarts \/ ~told THEN 1 ELSE 0) \in Nat
  BY <1>1, <1>4 DEF History
<1>6. /\ seen'.calls = seen.calls /\ seen'.paid = seen.paid + own
      /\ seen'.ran = seen.ran + 1 /\ seen'.mute = seen.mute + (IF said \in Mute THEN 1 ELSE 0)
      /\ seen'.unsaid = (IF ~told THEN seen.unsaid + own ELSE IF setup.thread THEN 0 ELSE seen.unsaid)
      /\ seen'.rebooked = seen.rebooked
      /\ seen'.untold = (seen.untold \/ ~told) /\ seen'.restarted = (seen.restarted \/ restarts)
      /\ seen'.failed = seen.failed /\ seen'.loose = seen.loose /\ seen'.noted = seen.noted
  BY <1>2, <1>4 DEF History
<1>7. seen' \in History
  <2> DEFINE h0 == [seen EXCEPT !.paid = @ + own, !.ran = @ + 1]
             h1 == [h0 EXCEPT !.mute = @ + (IF said \in Mute THEN 1 ELSE 0),
                              !.unsaid = IF ~told THEN @ + own ELSE IF setup.thread THEN 0 ELSE @]
             h2 == [h1 EXCEPT !.untold = @ \/ ~told, !.restarted = @ \/ restarts]
             h3 == [h2 EXCEPT !.mishaps = @ + (IF restarts \/ ~told THEN 1 ELSE 0)]
  <2>0. /\ h0 \in History /\ h0.untold = seen.untold /\ h0.restarted = seen.restarted /\ h0.mishaps = seen.mishaps
        /\ h0.mute = seen.mute /\ h0.unsaid = seen.unsaid
    BY <1>4, <1>5 DEF History
  <2> HIDE DEF h0
  <2>1. h1 \in History /\ h1.untold = seen.untold /\ h1.restarted = seen.restarted /\ h1.mishaps = seen.mishaps
    BY <2>0, <1>5 DEF History
  <2> HIDE DEF h1
  <2>2. h2 \in History /\ h2.mishaps = seen.mishaps
    BY <2>1, <1>5 DEF History
  <2> HIDE DEF h2
  <2>3. h3 \in History
    BY <2>2, <1>5 DEF History
  <2> QED BY <2>3, <1>2 DEF h0, h1, h2
<1>8. books' \in Ledgers /\ books'.rows = books.rows /\ books'.cost = books.cost
  <2>1. books' = [books EXCEPT !.trace = TraceOf(said, told, total)] /\ books \in Ledgers
    BY DEF Ran, total, SessionTypes
  <2>2. TraceOf(said, told, total) \in Nat
    BY <2>1, <1>1 DEF TraceOf, Ledgers
  <2> HIDE DEF total
  <2> QED BY <2>1, <2>2 DEF Ledgers
<1> QED BY <1>1, <1>2, <1>3, <1>6, <1>7, <1>8 DEF total

\* What a file of an earlier runner says is a number.
LEMMA LeftoversAre == Leftovers \subseteq Nat
  BY ClaudeSessionAssumption DEF Leftovers

LEMMA SessionTypesInit ==
  ASSUME SessionInit
  PROVE  SessionTypes
<1>1. setup \in SetupFacts
  BY ClaudeSessionAssumption DEF SessionInit
<1>2. Len(setup.targets) \in Nat
  BY <1>1 DEF SetupFacts
<1>3. books \in Ledgers
  BY LeftoversAre DEF SessionInit, Ledgers
<1> QED BY <1>2, <1>3, NewTypes DEF SessionInit, SessionTypes, NewThread

LEMMA SessionTypesStep ==
  ASSUME SessionTypes, [SessionNext]_sessionVars
  PROVE  SessionTypes'
<1>1. CASE Begin
  <2>1. call' \in SessionCall
    BY <1>1, NewTypes DEF Begin, SessionCall
  <2>2. seen' \in History
    BY <1>1 DEF Begin, SessionTypes, History
  <2>3. last' \in SessionEnd
    BY <1>1, NewTypes DEF Begin, SessionTypes, SessionEnd
  <2> QED BY <1>1, <2>1, <2>2, <2>3 DEF Begin, SessionTypes
<1>2. CASE Open
  <2>1. call' \in SessionCall /\ last' \in SessionEnd
    BY <1>2, EndTypes DEF Open, SessionTypes, SessionCall
  <2>2. th' \in ThreadState /\ th'.ckpt = th.ckpt
    BY <1>2, PartTypes, SetupTypes DEF Open, ThreadState
  <2> QED BY <1>2, <2>1, <2>2 DEF Open, SessionTypes
<1>3. CASE Reopen
  <2>1. call' \in SessionCall
    BY <1>3 DEF Reopen, SessionTypes, SessionCall
  <2> QED BY <1>3, <2>1 DEF Reopen, SessionTypes
<1>4. CASE StopAtCeiling
  <2>1. call' \in SessionCall /\ last' \in SessionEnd
    BY <1>4, NewTypes DEF StopAtCeiling, SessionTypes, SessionEnd, NoLast, Partial
  <2> QED BY <1>4, <2>1 DEF StopAtCeiling, SessionTypes
<1>5. CASE StopAtCheckpoint
  <2>1. call' \in SessionCall /\ last' \in SessionEnd
    BY <1>5, NewTypes, PartTypes DEF StopAtCheckpoint, SessionEnd
  <2>2. th.ckpt <= Len(setup.targets)
    BY <1>5, SetupTypes, PartTypes DEF StopAtCheckpoint, AtCheckpoint, Target, Index
  <2>3. th' \in ThreadState /\ th'.ckpt = th.ckpt + 1
    BY <1>5, PartTypes DEF StopAtCheckpoint, ThreadState
  <2> QED BY <1>5, <2>1, <2>2, <2>3, SetupTypes, PartTypes DEF StopAtCheckpoint, SessionTypes
<1>6. CASE Invoke
  <2>1. PICK said \in Said, own \in 0..(MaxOwn + Overshoot), told \in BOOLEAN, restarts \in BOOLEAN, wrote \in BOOLEAN :
          Ran(said, own, told, restarts, wrote)
    BY <1>6, InvokeRan
  <2>2. call' \in SessionCall /\ seen' \in History /\ cli' = [exists |-> setup.thread, total |-> call'.total]
    BY <2>1, RanFacts
  <2>3. call'.total \in Nat
    BY <2>2 DEF SessionCall
  <2>4. cli' \in [exists : BOOLEAN, total : Nat] /\ scratch' \in SUBSET {"build", "verify"}
    <3>1. cli' \in [exists : BOOLEAN, total : Nat]
      BY <2>2, <2>3, SetupTypes
    <3>2. scratch' = IF wrote THEN Edited ELSE scratch
      BY <2>1 DEF Ran
    <3> QED BY <3>1, <3>2 DEF SessionTypes, Edited
  <2>5. books' \in Ledgers
    BY <2>1, RanFacts
  <2> QED BY <1>6, <2>2, <2>4, <2>5, InvokeRan DEF SessionTypes
<1>7. CASE TimedOut
  <2>0. seen \in History /\ books.trace \in Nat
    BY DEF SessionTypes, Ledgers
  <2>1. seen' \in History
    BY <1>7, <2>0 DEF TimedOut, History
  <2> QED BY <1>7, <2>1, LedgerTypes, EndTypes DEF TimedOut, SessionTypes
<1>8. CASE Unreadable
  BY <1>8, EndTypes DEF Unreadable, SessionTypes
<1>9. CASE BannerError
  <2>1. seen' \in History
    BY <1>9 DEF BannerError, SessionTypes, History
  <2> QED BY <1>9, <2>1, LedgerTypes, EndTypes DEF BannerError, SessionTypes
<1>10. CASE BudgetStop
  <2> DEFINE total == IF setup.thread THEN Reported ELSE IF call.told THEN call.total ELSE 0
             crossed == setup.thread /\ Target # NoLimit /\ ~CapGoverns /\ ~Runaway(total)
  <2>1. /\ last' = [end |-> "stop", index |-> IF crossed THEN th.ckpt ELSE 0, sent |-> call.sent,
                     kind |-> IF CapGoverns THEN "cap" ELSE IF Runaway(total) THEN "ceiling" ELSE "budget",
                     patch |-> IF setup.thread THEN Partial ELSE {}]
        /\ th' = IF setup.thread THEN [Moved EXCEPT !.ckpt = IF crossed THEN Moved.ckpt + 1 ELSE Moved.ckpt] ELSE th
    BY <1>10 DEF BudgetStop
  <2>2. crossed => th.ckpt <= Len(setup.targets)
    BY SetupTypes DEF Target, Index, SessionTypes
  <2> HIDE DEF crossed
  <2>3. last' \in SessionEnd
    BY <2>1, PartTypes DEF SessionEnd
  <2>4. th' \in ThreadState
        /\ th'.ckpt <= Len(setup.targets) + 1
    <3>1. CASE setup.thread /\ crossed
      <4>1. th' = [Moved EXCEPT !.ckpt = Moved.ckpt + 1]
        BY <3>1, <2>1
      <4>2. Moved \in ThreadState /\ Moved.ckpt = th.ckpt /\ th.ckpt \in Nat \ {0}
        BY LedgerTypes, PartTypes
      <4>3. th' \in ThreadState /\ th'.ckpt = th.ckpt + 1
        BY <4>1, <4>2 DEF ThreadState
      <4> QED BY <4>2, <4>3, <3>1, <2>2, SetupTypes
    <3>2. CASE setup.thread /\ ~crossed
      BY <3>2, <2>1, LedgerTypes, SetupTypes, PartTypes DEF ThreadState, SessionTypes
    <3>3. CASE ~setup.thread
      BY <3>3, <2>1, PartTypes DEF SessionTypes
    <3> QED BY <3>1, <3>2, <3>3, SetupTypes
  <2>5. seen' \in History
    BY <1>10 DEF BudgetStop, SessionTypes, History
  <2> QED BY <1>10, <2>3, <2>4, <2>5, LedgerTypes, NewTypes DEF BudgetStop, SessionTypes
<1>11. CASE Fail
  <2>1. seen' \in History
    BY <1>11 DEF Fail, SessionTypes, History
  <2> QED BY <1>11, <2>1, LedgerTypes, EndTypes DEF Fail, SessionTypes
<1>12. CASE Retry
  <2>1. seen' \in History
    BY <1>12 DEF Retry, SessionTypes, History
  <2>2. call' \in SessionCall
    BY <1>12, NewTypes DEF Retry, SessionCall
  <2> QED BY <1>12, <2>1, <2>2, LedgerTypes DEF Retry, SessionTypes
<1>13. CASE Succeed
  <2>1. call' \in SessionCall
    BY <1>13 DEF Succeed, SessionTypes, SessionCall
  <2>2. th' \in ThreadState /\ th'.ckpt = th.ckpt
    BY <1>13, LedgerTypes DEF Succeed, SessionTypes, ThreadState
  <2> QED BY <1>13, <2>1, <2>2, LedgerTypes DEF Succeed, SessionTypes
<1>14. CASE BannerOrProse
  BY <1>14, EndTypes DEF BannerOrProse, SessionTypes
<1>15. CASE Settle
  <2>1. call' \in SessionCall /\ last' \in SessionEnd
    BY <1>15, EndTypes, NewTypes DEF Settle, SessionTypes, SessionEnd, NoLast, Partial
  <2>2. scratch' \in SUBSET {"build", "verify"} /\ seen' \in History
    BY <1>15 DEF Settle, VerifyRows, SessionTypes, History
  <2>3. books' \in Ledgers
    BY <1>15, LeftoversAre DEF Settle, SessionTypes, Ledgers
  <2> QED BY <1>15, <2>1, <2>2, <2>3 DEF Settle, SessionTypes
<1>16. CASE Close
  <2>1. seen' \in History
    BY <1>16 DEF Close, SessionTypes, History, NoHistory
  <2>2. books' \in Ledgers
    BY <1>16 DEF Close, SessionTypes, Ledgers
  <2> QED BY <1>16, <2>1, <2>2, NewTypes DEF Close, SessionTypes, NewThread
<1>17. CASE UNCHANGED sessionVars
  BY <1>17 DEF sessionVars, SessionTypes
<1> QED
  BY <1>1, <1>2, <1>3, <1>4, <1>5, <1>6, <1>7, <1>8, <1>9, <1>10, <1>11, <1>12, <1>13, <1>14, <1>15, <1>16, <1>17 DEF SessionNext

-----------------------------------------------------------------------------
\* What has happened to a session besides spending.
Marks == <<seen.paid, seen.ran, seen.mute, seen.unsaid, seen.untold, seen.restarted>>

\* A step that books nothing and spends nothing: a call begins, ends with nothing to book, or stops before the CLI ran.
Quiet ==
  /\ call'.at # "back" /\ (call.at = "back" => call.said \in Mute)
  /\ setup' = setup /\ cli' = cli /\ books'.rows = books.rows /\ books'.cost = books.cost
  /\ th'.reported = th.reported /\ th'.spent = th.spent /\ th'.resumes = th.resumes
  /\ Marks' = Marks /\ seen'.rebooked = seen.rebooked /\ seen'.failed = seen.failed /\ seen'.loose = seen.loose

\* A step that books what the CLI did, or another call's trace when it was killed.  The thread moves on, or it
\* does not and a failure is on record.
Booked ==
  /\ call'.at # "back" /\ call.at = "back" /\ call.said \notin Mute
  /\ setup' = setup /\ cli' = cli /\ books'.rows = books.rows + 1
  /\ IF call.said = "timeout"
     THEN books'.cost = books.cost + books.trace /\ seen'.rebooked = seen.rebooked + books.trace
     ELSE books'.cost = books.cost + RowCost /\ seen'.rebooked = seen.rebooked
  /\ Marks' = Marks /\ (seen.failed => seen'.failed) /\ (seen.loose => seen'.loose)
  /\ \/ th' = th /\ (seen'.failed \/ call.said = "timeout" \/ ~setup.thread)
     \/ setup.thread /\ th'.reported = Reported /\ th'.spent = Reported /\ (th'.resumes \/ seen'.loose)

Restart ==
  /\ setup' = setup /\ call' = call /\ call.at = "idle"
  /\ th' = NewThread /\ cli' = [exists |-> FALSE, total |-> 0] /\ books'.rows = 0 /\ books'.cost = 0
  /\ Marks' = <<0, 0, 0, 0, FALSE, FALSE>> /\ seen'.rebooked = 0 /\ seen'.failed = FALSE /\ seen'.loose = FALSE

\* Every step of a session is one of these.
LEMMA SessionSteps ==
  ASSUME SessionTypes, SessionNext
  PROVE  Quiet \/ Booked \/ Restart \/ Invoke
<1> USE DEF Marks
<1>0. /\ call \in SessionCall /\ th \in ThreadState /\ seen \in History /\ books \in Ledgers
  BY DEF SessionTypes
<1>1. CASE Begin
  BY <1>0, <1>1 DEF Begin, Quiet, SessionCall, ThreadState, History, NoCall
<1>2. CASE Open
  BY <1>0, <1>2 DEF Open, Quiet, SessionCall, ThreadState, History, End, NoCall
<1>3. CASE Reopen
  BY <1>0, <1>3 DEF Reopen, Quiet, SessionCall, ThreadState, History, End, NoCall
<1>4. CASE StopAtCeiling
  BY <1>0, <1>4 DEF StopAtCeiling, Quiet, SessionCall, ThreadState, History, End, NoCall
<1>5. CASE StopAtCheckpoint
  BY <1>0, <1>5 DEF StopAtCheckpoint, Quiet, SessionCall, ThreadState, History, End, NoCall
<1>6. CASE Invoke
  BY <1>6
<1>7. CASE TimedOut
  BY <1>0, <1>7, LedgerTypes DEF TimedOut, Booked, SessionCall, ThreadState, History, End, NoCall, Errors, Transient, Mute, LedgerRow, BookedAs
<1>8. CASE Unreadable
  BY <1>0, <1>8 DEF Unreadable, Quiet, SessionCall, ThreadState, History, End, NoCall, Mute
<1>9. CASE BannerError
  BY <1>0, <1>9, LedgerTypes DEF BannerError, Booked, SessionCall, ThreadState, History, End, NoCall, Errors, Transient, Mute, LedgerRow, BookedAs
<1>10. CASE BudgetStop
  <2> DEFINE total == IF setup.thread THEN Reported ELSE IF call.told THEN call.total ELSE 0
             crossed == setup.thread /\ Target # NoLimit /\ ~CapGoverns /\ ~Runaway(total)
  <2>1. /\ th' = IF setup.thread THEN [Moved EXCEPT !.ckpt = IF crossed THEN Moved.ckpt + 1 ELSE Moved.ckpt] ELSE th
        /\ seen' = [seen EXCEPT !.loose = @ \/ (setup.thread /\ ~th.resumes)]
        /\ call.at = "back" /\ call.said = "budget" /\ books' = LedgerRow /\ call' = NoCall
        /\ UNCHANGED <<setup, cli, scratch>>
    BY <1>10 DEF BudgetStop
  <2> HIDE DEF crossed
  <2>2. setup.thread => th'.reported = Reported /\ th'.spent = Reported /\ th'.resumes = th.resumes
    BY <2>1, LedgerTypes DEF ThreadState
  <2>3. setup.thread \in BOOLEAN
    BY SetupTypes
  <2>4. /\ seen'.paid = seen.paid /\ seen'.ran = seen.ran /\ seen'.untold = seen.untold
        /\ seen'.restarted = seen.restarted /\ seen'.failed = seen.failed
        /\ seen'.mute = seen.mute /\ seen'.unsaid = seen.unsaid /\ seen'.rebooked = seen.rebooked
        /\ seen'.loose = (seen.loose \/ (setup.thread /\ ~th.resumes))
    BY <1>0, <2>1 DEF History
  <2> QED BY <2>1, <2>2, <2>3, <2>4 DEF Booked, NoCall, Mute, LedgerRow, BookedAs
<1>11. CASE Fail
  BY <1>0, <1>11, LedgerTypes DEF Fail, Booked, SessionCall, ThreadState, History, End, NoCall, Errors, Transient, Mute, LedgerRow, BookedAs
<1>12. CASE Retry
  BY <1>0, <1>12, LedgerTypes DEF Retry, Booked, SessionCall, ThreadState, History, End, NoCall, Errors, Transient, Mute, LedgerRow, BookedAs
<1>13. CASE Succeed
  BY <1>0, <1>13, LedgerTypes DEF Succeed, Booked, SessionCall, ThreadState, History, End, NoCall, Errors, Transient, Mute, LedgerRow, BookedAs
<1>14. CASE BannerOrProse
  BY <1>0, <1>14 DEF BannerOrProse, Quiet, SessionCall, ThreadState, History, End, NoCall
<1>15. CASE Settle
  BY <1>0, <1>15 DEF Settle, VerifyRows, Quiet, SessionCall, ThreadState, History, Ledgers, End, NoCall, Mute
<1>16. CASE Close
  BY <1>0, <1>16 DEF Close, Restart, NoHistory
<1> QED
  BY <1>1, <1>2, <1>3, <1>4, <1>5, <1>6, <1>7, <1>8, <1>9, <1>10, <1>11, <1>12, <1>13, <1>14, <1>15, <1>16 DEF SessionNext

-----------------------------------------------------------------------------
\* A row for every call that was killed or came back with something to read.
RowsMatch == books.rows + seen.mute + (IF call.at = "back" /\ call.said \notin Mute THEN 1 ELSE 0) = seen.ran

\* A call that has not said what it spent is on record.
ToldOrNot ==
  /\ call.at = "back" /\ ~call.told => seen.untold
  /\ call.at = "back" /\ call.said \in {"timeout"} \cup Mute => ~call.told

\* A session that was never started over has spent the CLI's running total.
OneTotal ==
  /\ setup.thread /\ ~cli.exists => cli.total = 0
  /\ setup.thread /\ ~seen.restarted =>
       seen.paid = cli.total /\ th.reported <= cli.total /\ (call.at = "back" => call.total = cli.total)

\* A call has said what was spent and has no row yet.
HasSaid == call.at = "back" /\ call.told

\* The rows cover what was reported, and exactly that until a failure or an early stop.
CostsCover ==
  /\ ~setup.thread => books.cost + (IF HasSaid THEN call.total ELSE 0) + seen.unsaid = seen.paid + seen.rebooked
  /\ setup.thread /\ ~seen.restarted =>
       /\ books.cost >= th.reported + seen.rebooked
       /\ HasSaid => seen.unsaid = 0
       /\ ~HasSaid => books.cost + seen.unsaid >= cli.total + seen.rebooked
       /\ ~seen.failed /\ ~seen.loose =>
            /\ books.cost = th.reported + seen.rebooked
            /\ ~th.resumes => th.reported = 0
            /\ ~HasSaid => th.reported + seen.unsaid = cli.total

\* While the runner is told what its calls spend, it knows what the session spent.
Known ==
  /\ th.spent = th.reported
  /\ setup.thread /\ ~Blind => (call.at # "back" => th.reported = cli.total)

\* What was sent is what the session's state allows, and a stop at the budget spent it.
SentInv ==
  call.at = "back" =>
    /\ call.sent = Sent /\ ~AtCeiling /\ ~AtCheckpoint
    /\ call.said = "budget" => Sent # NoLimit
    /\ setup.thread /\ ~Blind /\ call.said = "budget" => call.total >= Spent + Sent

VerifyIsNoted == "verify" \in scratch \cup last.patch => seen.noted

SessionInv ==
  /\ SessionTypes /\ RowsMatch /\ ToldOrNot /\ OneTotal /\ CostsCover /\ Known /\ SentInv
  /\ VerifyIsNoted /\ SessionCeilingHolds

\* Money and counts are numbers, marks are Boolean.
LEMMA MoneyTypes ==
  ASSUME SessionTypes
  PROVE  /\ call.total \in Nat /\ call.told \in BOOLEAN /\ cli.total \in Nat /\ cli.exists \in BOOLEAN
         /\ books.rows \in Nat /\ books.cost \in Nat /\ books.trace \in Nat /\ RowCost \in Nat
         /\ seen.mute \in Nat /\ seen.unsaid \in Nat /\ seen.rebooked \in Nat /\ th.reported \in Nat /\ th.spent \in Nat
         /\ th.resumes \in BOOLEAN /\ seen.paid \in Nat /\ seen.ran \in Nat /\ setup.thread \in BOOLEAN
         /\ seen.failed \in BOOLEAN /\ seen.untold \in BOOLEAN /\ seen.restarted \in BOOLEAN /\ seen.loose \in BOOLEAN
  BY SetupTypes, LedgerTypes DEF SessionTypes, SessionCall, ThreadState, History, Ledgers

LEMMA RowsMatchStep ==
  ASSUME SessionTypes, RowsMatch, SessionNext
  PROVE  RowsMatch'
<1> USE MoneyTypes
<1>1. CASE Quiet
  BY <1>1 DEF Quiet, RowsMatch, Marks
<1>2. CASE Booked
  BY <1>2 DEF Booked, RowsMatch, Marks
<1>3. CASE Restart
  BY <1>3 DEF Restart, RowsMatch, Marks
<1>4. CASE Invoke
  <2>1. PICK said \in Said, own \in 0..(MaxOwn + Overshoot), told \in BOOLEAN, restarts \in BOOLEAN, wrote \in BOOLEAN :
          Ran(said, own, told, restarts, wrote)
    BY <1>4, InvokeRan
  <2>2. /\ call.at = "ready" /\ call'.at = "back" /\ call'.said = said /\ books'.rows = books.rows
        /\ seen'.ran = seen.ran + 1 /\ seen'.mute = seen.mute + (IF said \in Mute THEN 1 ELSE 0)
    <3>1. call.at = "ready"
      BY <1>4, InvokeRan
    <3> QED BY <2>1, <3>1, RanFacts
  <2> HIDE DEF Mute
  <2> QED BY <2>2 DEF RowsMatch
<1> QED BY <1>1, <1>2, <1>3, <1>4, SessionSteps

LEMMA ToldOrNotStep ==
  ASSUME SessionTypes, ToldOrNot, SessionNext
  PROVE  ToldOrNot'
<1>1. CASE Quiet \/ Booked \/ Restart
  BY <1>1 DEF Quiet, Booked, Restart, ToldOrNot
<1>2. CASE Invoke
  <2>1. PICK said \in Said, own \in 0..(MaxOwn + Overshoot), told \in BOOLEAN, restarts \in BOOLEAN, wrote \in BOOLEAN :
          Ran(said, own, told, restarts, wrote)
    BY <1>2, InvokeRan
  <2>2. said \in {"timeout"} \cup Mute => ~told
    BY <2>1 DEF Ran
  <2>3. call'.said = said /\ call'.told = told /\ seen'.untold = (seen.untold \/ ~told)
    BY <2>1, RanFacts
  <2>4. ~told => seen'.untold
    BY <2>3
  <2> QED BY <2>2, <2>3, <2>4 DEF ToldOrNot
<1> QED BY <1>1, <1>2, SessionSteps

LEMMA OneTotalStep ==
  ASSUME SessionTypes, OneTotal, SessionNext
  PROVE  OneTotal'
<1> USE MoneyTypes
<1>1. CASE Quiet
  BY <1>1 DEF Quiet, OneTotal, Marks
<1>2. CASE Booked
  BY <1>2 DEF Booked, OneTotal, Marks, Reported
<1>3. CASE Restart
  BY <1>3 DEF Restart, OneTotal, Marks, NewThread
<1>4. CASE Invoke
  <2>1. PICK said \in Said, own \in 0..(MaxOwn + Overshoot), told \in BOOLEAN, restarts \in BOOLEAN, wrote \in BOOLEAN :
          Ran(said, own, told, restarts, wrote)
    BY <1>4, InvokeRan
  <2>2. cli'.exists = setup.thread /\ cli'.total = call'.total /\ setup' = setup /\ th' = th
    BY <1>4, <2>1, InvokeRan, RanFacts
  <2>4. own \in Nat /\ seen'.paid = seen.paid + own /\ seen'.restarted = (seen.restarted \/ restarts)
        /\ call'.total = IF setup.thread /\ cli.exists /\ ~restarts THEN cli.total + own ELSE own
    BY <2>1, RanFacts
  <2>6. setup.thread /\ ~seen'.restarted => call'.total = cli.total + own
    BY <2>4 DEF OneTotal
  <2>7. seen.restarted \in BOOLEAN /\ (~seen'.restarted => ~seen.restarted)
    BY <2>4
  <2>8. setup.thread /\ ~seen'.restarted => seen.paid = cli.total /\ th.reported <= cli.total
    BY <2>7 DEF OneTotal
  <2>9. setup.thread => cli'.exists
    BY <2>2
  <2>10. setup.thread /\ ~seen'.restarted =>
           seen'.paid = cli'.total /\ th'.reported <= cli'.total /\ call'.total = cli'.total
    BY <2>2, <2>4, <2>6, <2>8
  <2> QED BY <2>2, <2>9, <2>10 DEF OneTotal
<1> QED BY <1>1, <1>2, <1>3, <1>4, SessionSteps

LEMMA CostsCoverStep ==
  ASSUME SessionTypes, ToldOrNot, OneTotal, CostsCover, SessionNext
  PROVE  CostsCover'
<1> USE MoneyTypes
<1>1. CASE Quiet
  <2>1. ~HasSaid /\ ~HasSaid'
    BY <1>1 DEF Quiet, ToldOrNot, HasSaid
  <2> QED BY <1>1, <2>1 DEF Quiet, CostsCover, Marks
<1>2. CASE Booked
  <2>1. setup' = setup /\ cli' = cli /\ seen'.paid = seen.paid /\ seen'.unsaid = seen.unsaid
        /\ seen'.restarted = seen.restarted /\ ~HasSaid' /\ call.at = "back"
        /\ (seen.failed => seen'.failed) /\ (seen.loose => seen'.loose)
    BY <1>2 DEF Booked, Marks, HasSaid
  <2>2. CASE ~call.told
    <3>1. PICK more \in Nat : books'.cost = books.cost + more /\ seen'.rebooked = seen.rebooked + more
      <4>1. RowCost = 0
        BY <2>2 DEF RowCost
      <4> QED BY <1>2, <4>1 DEF Booked
    <3>2. ~HasSaid /\ th'.reported = th.reported
      BY <1>2, <2>2 DEF Booked, HasSaid, Reported
    <3>3. ~seen'.failed /\ ~seen'.loose /\ setup.thread => ~seen.failed /\ ~seen.loose /\ (th'.resumes \/ th' = th)
      BY <1>2, <2>1 DEF Booked
    <3>4. CASE ~setup.thread
      BY <2>1, <3>1, <3>2, <3>4 DEF CostsCover
    <3>5. CASE setup.thread /\ ~seen.restarted
      <4>1. books.cost >= th.reported + seen.rebooked /\ books.cost + seen.unsaid >= cli.total + seen.rebooked
        BY <3>2, <3>5 DEF CostsCover
      <4>2. ~seen'.failed /\ ~seen'.loose =>
              /\ books'.cost = th'.reported + seen'.rebooked
              /\ ~th'.resumes => th'.reported = 0
              /\ th'.reported + seen'.unsaid = cli'.total
        <5> SUFFICES ASSUME ~seen'.failed, ~seen'.loose
                     PROVE  /\ books'.cost = th'.reported + seen'.rebooked
                            /\ ~th'.resumes => th'.reported = 0
                            /\ th'.reported + seen'.unsaid = cli'.total
          OBVIOUS
        <5>1. ~seen.failed /\ ~seen.loose /\ (th'.resumes \/ th' = th)
          BY <3>3, <3>5
        <5>2. books.cost = th.reported + seen.rebooked /\ (~th.resumes => th.reported = 0)
              /\ th.reported + seen.unsaid = cli.total
          BY <3>2, <3>5, <5>1 DEF CostsCover
        <5> QED BY <2>1, <3>1, <3>2, <5>1, <5>2
      <4> QED BY <2>1, <3>1, <3>2, <3>5, <4>1, <4>2 DEF CostsCover
    <3>6. CASE setup.thread /\ seen.restarted
      BY <2>1, <3>6 DEF CostsCover
    <3> QED BY <3>4, <3>5, <3>6
  <2>3. CASE call.told
    <3>1. call.said # "timeout" /\ books'.cost = books.cost + Cost(call.total) /\ seen'.rebooked = seen.rebooked
      BY <1>2, <2>3 DEF Booked, ToldOrNot, RowCost
    <3>2. HasSaid
      BY <2>1, <2>3 DEF HasSaid
    <3>3. CASE ~setup.thread
      BY <2>1, <3>1, <3>2, <3>3 DEF CostsCover, Cost
    <3>4. CASE setup.thread /\ ~seen.restarted
      <4>1. call.total = cli.total /\ th.reported <= cli.total /\ seen.unsaid = 0
            /\ books.cost >= th.reported + seen.rebooked
        BY <2>1, <3>2, <3>4 DEF OneTotal, CostsCover
      <4>2. Cost(call.total) = IF ~th.resumes THEN cli.total ELSE cli.total - th.reported
        BY <3>4, <4>1 DEF Cost
      <4>3. books'.cost >= cli.total + seen.rebooked /\ books'.cost \in Nat
        BY <3>1, <4>1, <4>2
      <4>4. Reported = cli.total
        BY <2>3, <4>1 DEF Reported
      <4>5. CASE th' = th /\ (seen'.failed \/ call.said = "timeout" \/ ~setup.thread)
        <5>1. seen'.failed
          BY <3>1, <3>4, <4>5
        <5> QED BY <2>1, <3>1, <3>4, <4>1, <4>3, <4>5, <5>1 DEF CostsCover
      <4>6. CASE th'.reported = Reported /\ th'.spent = Reported /\ (th'.resumes \/ seen'.loose)
        <5>1. ~seen'.failed /\ ~seen'.loose => books'.cost = cli.total + seen.rebooked
          <6> SUFFICES ASSUME ~seen'.failed, ~seen'.loose
                       PROVE  books'.cost = cli.total + seen.rebooked
            OBVIOUS
          <6>1. books.cost = th.reported + seen.rebooked /\ (~th.resumes => th.reported = 0)
            BY <2>1, <3>4 DEF CostsCover
          <6> QED BY <3>1, <4>1, <4>2, <6>1
        <5> QED BY <2>1, <3>1, <3>4, <4>1, <4>3, <4>4, <4>6, <5>1 DEF CostsCover
      <4> QED BY <1>2, <4>5, <4>6 DEF Booked
    <3>5. CASE setup.thread /\ seen.restarted
      BY <2>1, <3>5 DEF CostsCover
    <3> QED BY <3>3, <3>4, <3>5
  <2> QED BY <2>2, <2>3
<1>3. CASE Restart
  BY <1>3 DEF Restart, CostsCover, Marks, NewThread, HasSaid
<1>4. CASE Invoke
  <2>1. PICK said \in Said, own \in 0..(MaxOwn + Overshoot), told \in BOOLEAN, restarts \in BOOLEAN, wrote \in BOOLEAN :
          Ran(said, own, told, restarts, wrote)
    BY <1>4, InvokeRan
  <2>2. /\ cli'.total = call'.total /\ setup' = setup /\ th' = th /\ books'.cost = books.cost
        /\ ~HasSaid /\ (HasSaid' <=> told)
    BY <1>4, <2>1, InvokeRan, RanFacts DEF HasSaid
  <2>3. /\ own \in Nat /\ seen'.paid = seen.paid + own /\ seen'.restarted = (seen.restarted \/ restarts)
        /\ seen'.failed = seen.failed /\ seen'.loose = seen.loose /\ seen'.rebooked = seen.rebooked
        /\ seen'.unsaid = (IF ~told THEN seen.unsaid + own ELSE IF setup.thread THEN 0 ELSE seen.unsaid)
        /\ call'.total = IF setup.thread /\ cli.exists /\ ~restarts THEN cli.total + own ELSE own
    BY <2>1, RanFacts
  <2>4. CASE ~setup.thread
    BY <2>2, <2>3, <2>4 DEF CostsCover
  <2>5. CASE setup.thread
    <3>1. ~seen'.restarted => ~seen.restarted /\ call'.total = cli.total + own
      BY <2>3, <2>5 DEF OneTotal
    <3> QED BY <2>2, <2>3, <2>5, <3>1 DEF CostsCover
  <2> QED BY <2>4, <2>5
<1> QED BY <1>1, <1>2, <1>3, <1>4, SessionSteps

LEMMA KnownStep ==
  ASSUME SessionTypes, ToldOrNot, OneTotal, Known, SessionNext
  PROVE  Known'
<1> USE MoneyTypes
<1>1. CASE Quiet
  <2>1. call.at = "back" => seen.untold
    BY <1>1 DEF Quiet, ToldOrNot
  <2> QED BY <1>1, <2>1 DEF Quiet, Known, Blind, Marks
<1>2. CASE Booked
  <2>1. setup' = setup /\ cli' = cli /\ seen'.untold = seen.untold /\ seen'.restarted = seen.restarted
        /\ call.at = "back" /\ (seen.failed => seen'.failed)
    BY <1>2 DEF Booked, Marks
  <2>2. CASE th' = th /\ (seen'.failed \/ call.said = "timeout" \/ ~setup.thread)
    BY <2>1, <2>2 DEF Known, Blind, ToldOrNot
  <2>3. CASE th'.reported = Reported /\ th'.spent = Reported
    BY <2>1, <2>3 DEF Known, Blind, ToldOrNot, OneTotal, Reported
  <2> QED BY <1>2, <2>2, <2>3 DEF Booked
<1>3. CASE Restart
  BY <1>3 DEF Restart, Known, NewThread
<1>4. CASE Invoke
  <2>1. PICK said \in Said, own \in 0..(MaxOwn + Overshoot), told \in BOOLEAN, restarts \in BOOLEAN, wrote \in BOOLEAN :
          Ran(said, own, told, restarts, wrote)
    BY <1>4, InvokeRan
  <2> QED BY <1>4, <2>1, InvokeRan, RanFacts DEF Known
<1> QED BY <1>1, <1>2, <1>3, <1>4, SessionSteps

\* What a session that is told of its spend has spent before the CLI runs, and after.
LEMMA RanSpends ==
  ASSUME SessionTypes, OneTotal, Known, setup.thread, ~Blind', Invoke
  PROVE  /\ ~Blind /\ seen.paid = Spent /\ seen'.paid = call'.total
         /\ \E own \in Nat :
              /\ call'.total = Spent + own /\ own <= (IF Sent = NoLimit THEN MaxOwn ELSE Sent + Overshoot)
              /\ call'.said = "budget" => Sent # NoLimit /\ own >= Sent
<1> USE MoneyTypes
<1>1. PICK said \in Said, own \in 0..(MaxOwn + Overshoot), told \in BOOLEAN, restarts \in BOOLEAN, wrote \in BOOLEAN :
        Ran(said, own, told, restarts, wrote)
  BY InvokeRan
<1>2. call.at = "ready"
  BY InvokeRan
<1>3. own \in Nat /\ seen'.paid = seen.paid + own /\ seen'.restarted = (seen.restarted \/ restarts)
      /\ seen'.untold = (seen.untold \/ ~told) /\ seen'.failed = seen.failed /\ call'.said = said
      /\ call'.total = IF setup.thread /\ cli.exists /\ ~restarts THEN cli.total + own ELSE own
  BY <1>1, RanFacts
<1>4. ~Blind /\ ~restarts
  BY <1>3 DEF Blind
<1>5. seen.paid = cli.total /\ cli.total = Spent /\ call'.total = Spent + own
  BY <1>2, <1>3, <1>4 DEF OneTotal, Known, Blind, Spent
<1>6. own <= (IF Sent = NoLimit THEN MaxOwn ELSE Sent + Overshoot) /\ (said = "budget" => Sent # NoLimit /\ own >= Sent)
  BY <1>1 DEF Ran
<1> QED BY <1>3, <1>4, <1>5, <1>6

\* What a call is sent depends on the role and the thread only.
LEMMA SentStays ==
  ASSUME setup' = setup, th' = th
  PROVE  Sent' = Sent /\ Spent' = Spent /\ Target' = Target /\ HardCeiling' = HardCeiling
         /\ AtCeiling' = AtCeiling /\ AtCheckpoint' = AtCheckpoint
  BY DEF Sent, Slice, Spent, Target, Index, HardCeiling, AtCeiling, AtCheckpoint

LEMMA SentInvStep ==
  ASSUME SessionTypes, OneTotal, Known, SessionNext
  PROVE  SentInv'
<1>1. CASE Quiet \/ Booked \/ Restart
  BY <1>1 DEF Quiet, Booked, Restart, SentInv
<1>2. CASE Invoke
  <2>1. PICK said \in Said, own \in 0..(MaxOwn + Overshoot), told \in BOOLEAN, restarts \in BOOLEAN, wrote \in BOOLEAN :
          Ran(said, own, told, restarts, wrote)
    BY <1>2, InvokeRan
  <2>2. setup' = setup /\ th' = th /\ ~AtCeiling /\ ~AtCheckpoint
    BY <1>2, InvokeRan
  <2>3. call'.sent = Sent /\ call'.said = said /\ (said = "budget" => Sent # NoLimit)
    <3>1. said = "budget" => Sent # NoLimit
      BY <2>1 DEF Ran
    <3> QED BY <2>1, <3>1, RanFacts
  <2>4. setup.thread /\ ~Blind' /\ call'.said = "budget" => call'.total >= Spent + Sent
    BY <1>2, RanSpends, SetupTypes, SentTypes
  <2> QED BY <2>2, <2>3, <2>4, SentStays DEF SentInv
<1> QED BY <1>1, <1>2, SessionSteps

LEMMA SessionCeilingStep ==
  ASSUME SessionTypes, OneTotal, Known, SessionCeilingHolds, SessionNext
  PROVE  SessionCeilingHolds'
<1> USE MoneyTypes
<1>0. (setup' = setup => HardCeiling' = HardCeiling) /\ HardCeiling \in Nat
  BY SetupTypes DEF HardCeiling
<1>1. CASE Quiet \/ Booked
  BY <1>0, <1>1 DEF Quiet, Booked, SessionCeilingHolds, Blind, Marks
<1>2. CASE Restart
  BY <1>0, <1>2, ClaudeSessionAssumption DEF Restart, SessionCeilingHolds, Marks
<1>3. CASE Invoke
  <2>0. setup' = setup
    BY <1>3, InvokeRan
  <2> SUFFICES ASSUME setup.thread, HardCeiling # NoLimit, ~Blind'
               PROVE  seen'.paid <= HardCeiling + Overshoot
    BY <1>0, <2>0 DEF SessionCeilingHolds
  <2>1. PICK own \in Nat : call'.total = Spent + own /\ own <= (IF Sent = NoLimit THEN MaxOwn ELSE Sent + Overshoot)
    BY <1>3, RanSpends
  <2>2. seen'.paid = Spent + own
    BY <1>3, <2>1, RanSpends
  <2>3. Slice \in Int /\ Sent \in Int /\ Spent \in Nat /\ NoLimit \in Nat /\ MaxOwn \in Nat /\ Overshoot \in Nat
        /\ MaxOwn + Overshoot < NoLimit
    BY SentTypes, SetupTypes, ClaudeSessionAssumption
  <2>4. Sent <= HardCeiling - Spent
    <3>1. Sent = Least(Slice, HardCeiling - Spent)
      BY DEF Sent
    <3> QED BY <1>0, <2>3, <3>1, LeastIs
  <2> QED BY <1>0, <2>1, <2>2, <2>3, <2>4
<1> QED BY <1>1, <1>2, <1>3, SessionSteps

\* The builder's edits are no verify command's, and a patch is read before one runs.
LEMMA VerifyIsNotedStep ==
  ASSUME SessionTypes, VerifyIsNoted, SessionNext
  PROVE  VerifyIsNoted'
<1> USE DEF Partial, NoLast
<1>0. /\ call \in SessionCall /\ th \in ThreadState /\ seen \in History /\ last \in SessionEnd
  BY DEF SessionTypes
<1>1. CASE Begin
  BY <1>0, <1>1 DEF Begin, VerifyIsNoted, History, End, SessionEnd
<1>2. CASE Open
  BY <1>0, <1>2 DEF Open, VerifyIsNoted, History, End, SessionEnd
<1>3. CASE Reopen
  BY <1>0, <1>3 DEF Reopen, VerifyIsNoted, History, End, SessionEnd
<1>4. CASE StopAtCeiling
  BY <1>0, <1>4 DEF StopAtCeiling, VerifyIsNoted, History, End, SessionEnd
<1>5. CASE StopAtCheckpoint
  BY <1>0, <1>5 DEF StopAtCheckpoint, VerifyIsNoted, History, End, SessionEnd
<1>6. CASE Invoke
  <2>1. PICK said \in Said, own \in 0..(MaxOwn + Overshoot), told \in BOOLEAN, restarts \in BOOLEAN, wrote \in BOOLEAN :
          Ran(said, own, told, restarts, wrote)
    BY <1>6, InvokeRan
  <2>2. seen'.noted = seen.noted /\ last' = last /\ scratch' = IF wrote THEN Edited ELSE scratch
    <3>1. scratch' = IF wrote THEN Edited ELSE scratch
      BY <2>1 DEF Ran
    <3> QED BY <1>6, <2>1, <3>1, InvokeRan, RanFacts
  <2> QED BY <2>2 DEF VerifyIsNoted, Edited
<1>7. CASE TimedOut
  BY <1>0, <1>7 DEF TimedOut, VerifyIsNoted, History, End, SessionEnd
<1>8. CASE Unreadable
  BY <1>0, <1>8 DEF Unreadable, VerifyIsNoted, History, End, SessionEnd
<1>9. CASE BannerError
  BY <1>0, <1>9 DEF BannerError, VerifyIsNoted, History, End, SessionEnd
<1>10. CASE BudgetStop
  BY <1>0, <1>10 DEF BudgetStop, VerifyIsNoted, History, End, SessionEnd
<1>11. CASE Fail
  BY <1>0, <1>11 DEF Fail, VerifyIsNoted, History, End, SessionEnd
<1>12. CASE Retry
  BY <1>0, <1>12 DEF Retry, VerifyIsNoted, History, End, SessionEnd
<1>13. CASE Succeed
  BY <1>0, <1>13 DEF Succeed, VerifyIsNoted, History, End, SessionEnd
<1>14. CASE BannerOrProse
  BY <1>0, <1>14 DEF BannerOrProse, VerifyIsNoted, History, End, SessionEnd
<1>15. CASE Settle
  BY <1>0, <1>15 DEF Settle, VerifyRows, VerifyIsNoted, History, End, SessionEnd
<1>16. CASE Close
  BY <1>0, <1>16 DEF Close, VerifyIsNoted, History, End, SessionEnd
<1> QED
  BY <1>1, <1>2, <1>3, <1>4, <1>5, <1>6, <1>7, <1>8, <1>9, <1>10, <1>11, <1>12, <1>13, <1>14, <1>15, <1>16 DEF SessionNext

LEMMA SessionInvInit ==
  ASSUME SessionInit
  PROVE  SessionInv
<1>1. SessionTypes
  BY SessionTypesInit
<1>2. HardCeiling \in Nat /\ Overshoot \in Nat
  BY <1>1, SetupTypes, ClaudeSessionAssumption
<1> QED
  BY <1>1, <1>2 DEF SessionInit, SessionInv, RowsMatch, ToldOrNot, OneTotal, CostsCover, Known, SentInv, VerifyIsNoted,
     SessionCeilingHolds, NoCall, NoLast, NoHistory, NewThread

LEMMA SessionInvStep ==
  ASSUME SessionInv, [SessionNext]_sessionVars
  PROVE  SessionInv'
<1>1. CASE SessionNext
  BY <1>1, SessionTypesStep, RowsMatchStep, ToldOrNotStep, OneTotalStep, CostsCoverStep, KnownStep, SentInvStep,
     SessionCeilingStep, VerifyIsNotedStep DEF SessionInv
<1>2. CASE UNCHANGED sessionVars
  <2>1. SessionTypes'
    BY <1>2, SessionTypesStep DEF SessionInv
  <2>2. SentInv' /\ SessionCeilingHolds'
    BY <1>2, SentStays DEF sessionVars, SessionInv, SentInv, SessionCeilingHolds, Blind
  <2> QED BY <1>2, <2>1, <2>2 DEF sessionVars, SessionInv, RowsMatch, ToldOrNot, OneTotal, CostsCover, HasSaid, Known, Blind, VerifyIsNoted
<1> QED BY <1>1, <1>2

(* Every call of the CLI that was killed or could be read has a row, the   *)
(* rows of a session add up to what was paid, with what killed calls       *)
(* booked again and no call has said yet, unless the session was started   *)
(* over, and no patch holds what a verify command wrote without a row that *)
(* says so: for every set of limits and any calls.                         *)
THEOREM SessionsKeepTheirBooks == SessionSpec => []SessionBooks
<1>1. SessionInv => SessionBooks
  <2> SUFFICES ASSUME SessionInv
               PROVE  SessionBooks
    OBVIOUS
  <2> USE DEF SessionInv
  <2>1. ClaudeSessionTypeOK
    BY DEF SessionTypes, ClaudeSessionTypeOK, ThreadState, SessionCall, SessionEnd, Ledgers
  <2>2. RowPerCall
    BY MoneyTypes DEF RowPerCall, RowsMatch
  <2>3. LedgerAddsUp
    <3> SUFFICES ASSUME call.at = "idle", ~seen.restarted
                 PROVE  /\ books.cost + seen.unsaid >= seen.paid + seen.rebooked
                        /\ ~seen.failed /\ ~seen.loose => books.cost + seen.unsaid = seen.paid + seen.rebooked
      BY DEF LedgerAddsUp
    <3>1. ~HasSaid
      BY DEF HasSaid
    <3>2. CASE setup.thread
      <4>1. seen.paid = cli.total
        BY <3>2 DEF OneTotal
      <4>2. books.cost + seen.unsaid >= cli.total + seen.rebooked
        BY <3>1, <3>2 DEF CostsCover
      <4>3. ~seen.failed /\ ~seen.loose =>
              books.cost = th.reported + seen.rebooked /\ th.reported + seen.unsaid = cli.total
        BY <3>1, <3>2 DEF CostsCover
      <4> QED BY <4>1, <4>2, <4>3, MoneyTypes
    <3>3. CASE ~setup.thread
      BY <3>1, <3>3, MoneyTypes DEF CostsCover
    <3> QED BY <3>2, <3>3
  <2>4. PatchIsTheBuilders
    BY DEF PatchIsTheBuilders, VerifyIsNoted
  <2> QED BY <2>1, <2>2, <2>3, <2>4 DEF SessionBooks
<1> QED BY <1>1, SessionInvInit, SessionInvStep, PTL DEF SessionSpec

\* A role's limits are amounts that something can be bought for.
PositiveLimits(s) ==
  s.guide > 0 /\ s.cap > 0 /\ s.role > 0 /\ s.task > 0 /\ \A i \in 1..Len(s.targets) : s.targets[i] > 0

\* A call that runs has something left to spend.
LEMMA SentHolds ==
  ASSUME SessionTypes, \A s \in Setups : PositiveLimits(s), ~AtCeiling, ~AtCheckpoint
  PROVE  Sent > 0
<1> USE SetupTypes, SentTypes, ClaudeSessionAssumption
<1>1. setup.guide > 0 /\ setup.cap > 0 /\ setup.role > 0 /\ setup.task > 0
      /\ \A i \in 1..Len(setup.targets) : setup.targets[i] > 0
  BY DEF SessionTypes, PositiveLimits
<1>2. Target # NoLimit => Target - Spent > 0
  BY <1>1 DEF Target, AtCheckpoint, Spent
<1>3. HardCeiling # NoLimit => HardCeiling - Spent > 0
  BY <1>1, LeastIs DEF AtCeiling, HardCeiling, Spent
<1>4. Slice > 0
  <2>1. Least(setup.guide, setup.cap) \in Nat /\ Least(setup.guide, setup.cap) > 0
    BY <1>1, LeastIs
  <2>2. Target # NoLimit => Least(Target - Spent, setup.cap) > 0
    BY <1>1, <1>2, LeastIs
  <2> QED BY <2>1, <2>2 DEF Slice
<1> QED BY <1>3, <1>4, LeastIs DEF Sent

\* A checkpoint that a step crosses was reached.
LEMMA CrossedIsReached ==
  ASSUME SessionInv, SessionNext, th'.ckpt > th.ckpt, ~Blind'
  PROVE  th'.ckpt = th.ckpt + 1 /\ th'.spent >= setup.targets[th.ckpt]
<1> USE DEF SessionInv
<1>0. th \in ThreadState /\ th.ckpt \in Nat /\ th.ckpt > 0 /\ call \in SessionCall
  BY DEF SessionTypes, ThreadState
<1>1. CASE StopAtCheckpoint
  <2>1. th'.ckpt = th.ckpt + 1 /\ th'.spent = th.spent
    BY <1>0, <1>1 DEF StopAtCheckpoint, ThreadState
  <2>2. th.spent >= setup.targets[th.ckpt]
    BY <1>1 DEF StopAtCheckpoint, AtCheckpoint, Target, Index, Spent
  <2> QED BY <2>1, <2>2
<1>2. CASE BudgetStop
  <2> DEFINE crossed == setup.thread /\ Target # NoLimit /\ ~CapGoverns /\ ~Runaway(Reported)
  <2>1. /\ call.at = "back" /\ call.said = "budget" /\ seen' = [seen EXCEPT !.loose = @ \/ (setup.thread /\ ~th.resumes)]
        /\ th' = IF setup.thread THEN [Moved EXCEPT !.ckpt = IF crossed THEN Moved.ckpt + 1 ELSE Moved.ckpt] ELSE th
    BY <1>2 DEF BudgetStop
  <2>2. setup.thread /\ crossed
    BY <1>0, <2>1, LedgerTypes DEF ThreadState
  <2>3. th'.ckpt = th.ckpt + 1 /\ th'.spent = Reported
    BY <2>1, <2>2, LedgerTypes DEF ThreadState
  <2>4. ~Blind
    <3>1. seen'.failed = seen.failed /\ seen'.untold = seen.untold /\ seen'.restarted = seen.restarted
      BY <2>1 DEF SessionTypes, History
    <3> QED BY <3>1 DEF Blind
  <2>5. call.told /\ Reported = call.total /\ call.total >= Spent + Sent /\ Sent # NoLimit /\ ~AtCheckpoint
    BY <2>1, <2>2, <2>4, MoneyTypes DEF Blind, ToldOrNot, Reported, SentInv
  <2>6. Target = setup.targets[th.ckpt]
    BY <2>2 DEF Target, Index
  <2>7. /\ Spent \in Nat /\ Target \in Nat /\ HardCeiling \in Nat /\ setup.cap \in Nat /\ Slice \in Int /\ Sent \in Int
        /\ call.total \in Nat
    BY SetupTypes, SentTypes, MoneyTypes
  <2>8. Slice = Target - Spent
    <3>1. setup.cap >= Target
      BY <2>2, <2>7 DEF CapGoverns
    <3> QED BY <2>2, <2>7, <3>1, LeastIs DEF Slice
  <2>9. CASE Sent = Slice
    BY <2>3, <2>5, <2>6, <2>7, <2>8, <2>9
  <2>10. CASE Sent # Slice
    <3>1. HardCeiling # NoLimit /\ Sent = HardCeiling - Spent
      BY <2>7, <2>10, LeastIs DEF Sent
    <3>2. call.total >= HardCeiling
      BY <2>5, <2>7, <3>1
    <3>3. Runaway(Reported)
      BY <2>2, <2>5, <3>1, <3>2 DEF Runaway
    <3> QED BY <2>2, <3>3
  <2> QED BY <2>9, <2>10
<1>3. CASE ~StopAtCheckpoint /\ ~BudgetStop
  <2>1. CASE Open
    BY <1>0, <2>1 DEF Open, ThreadState
  <2>2. CASE Succeed
    BY <1>0, <2>2, LedgerTypes DEF Succeed, ThreadState
  <2>3. CASE Close
    BY <1>0, <2>3 DEF Close, NewThread
  <2>4. CASE ~Open /\ ~Succeed /\ ~Close
    <3>1. th' = th
      BY <1>3, <2>4, InvokeRan DEF SessionNext, Begin, Reopen, StopAtCeiling, TimedOut, Unreadable,
         BannerError, Fail, Retry, BannerOrProse, Settle
    <3> QED BY <1>0, <3>1
  <2> QED BY <2>1, <2>2, <2>3, <2>4
<1> QED BY <1>1, <1>2, <1>3

(* Over any number of slices, stops and retries, a session that is told of  *)
(* its spend passes its ceiling by the overshoot of one call at most, no    *)
(* call is sent nothing, and checkpoints are crossed one by one, each once  *)
(* it was reached.  That every limit in the profile is positive is the      *)
(* operator's to see to: the runner takes what it reads.                    *)
THEOREM SessionsKeepTheirLimits ==
  ASSUME \A s \in Setups : PositiveLimits(s)
  PROVE  SessionSpec => SessionKeepsItsLimits
<1>1. SessionInv => SessionCeilingHolds /\ SentIsPositive
  <2> SUFFICES ASSUME SessionInv
               PROVE  SessionCeilingHolds /\ SentIsPositive
    OBVIOUS
  <2> QED BY SentHolds DEF SessionInv, SentInv, SentIsPositive
<1>2. SessionInv /\ [SessionNext]_sessionVars =>
        [th'.ckpt > th.ckpt /\ ~Blind' => th'.ckpt = th.ckpt + 1 /\ th'.spent >= setup.targets[th.ckpt]]_sessionVars
  BY CrossedIsReached
<1> QED BY <1>1, <1>2, SessionInvInit, SessionInvStep, PTL DEF SessionSpec, SessionKeepsItsLimits, CheckpointsAreReached
-----------------------------------------------------------------------------
(* Induction over data *)

\* A set of numbers has a least one: the well-foundedness of < in a form that names no operator.
LEMMA LeastNumber ==
  ASSUME NEW S, S \subseteq Nat, S # {}
  PROVE  \E m \in S : \A k \in S : m <= k
<1> DEFINE R == {p \in Nat \X Nat : p[1] < p[2]}
<1>1. OpToRel(<, Nat) = R
  BY DEF OpToRel
<1>2. IsWellFoundedOn(R, Nat)
  BY <1>1, NatLessThanWellFounded
<1>3. \A a, b \in Nat : a < b => <<a, b>> \in R
  <2> SUFFICES ASSUME NEW a \in Nat, NEW b \in Nat, a < b PROVE <<a, b>> \in R
    OBVIOUS
  <2>1. <<a, b>> \in Nat \X Nat
    OBVIOUS
  <2>2. <<a, b>>[1] < <<a, b>>[2]
    OBVIOUS
  <2> QED BY <2>1, <2>2
<1> HIDE DEF R
<1>4. PICK x \in S : \A y \in S : ~ (<<y, x>> \in R)
  BY <1>2, WFMin
<1>5. ASSUME NEW k \in S PROVE x <= k
  <2>1. k \in Nat /\ x \in Nat /\ ~ (k < x)
    BY <1>3, <1>4, ZenonT(20)
  <2> QED BY <2>1
<1> QED
  BY <1>5

\* A set that holds 0 and goes on up to a number holds all before it.
LEMMA UpTo ==
  ASSUME NEW m \in Nat, NEW S, 0 \in S, \A i \in 1..m : i - 1 \in S => i \in S
  PROVE  \A i \in 0..m : i \in S
<1> DEFINE missed == {i \in 0..m : i \notin S}
<1> SUFFICES ASSUME missed # {} PROVE FALSE
  OBVIOUS
<1>1. missed \subseteq Nat
  OBVIOUS
<1>2. PICK k \in missed : \A j \in missed : k <= j
  <2> HIDE DEF missed
  <2> QED BY <1>1, LeastNumber
<1>3. k \in 1..m /\ k - 1 \in 0..m /\ ~(k <= k - 1)
  OBVIOUS
<1> QED BY <1>2, <1>3

\* The values of a recursive function up to a number, from the value at 0 on.
IsStep(m, V, step) == step \in [1..m -> [V -> V]]
Follows(m, V, x, step, g) == g \in [0..m -> V] /\ g[0] = x /\ \A i \in 1..m : g[i] = step[i][g[i - 1]]
LEMMA Recursion ==
  ASSUME NEW m, m \in Nat, NEW V, NEW x, x \in V, NEW step, IsStep(m, V, step)
  PROVE  \E g : Follows(m, V, x, step, g)
<1> USE DEF IsStep
<1> DEFINE Good(k, g) == g \in [0..k -> V] /\ g[0] = x /\ \A i \in 1..k : g[i] = step[i][g[i - 1]]
           S == {k \in 0..m : \E g \in [0..k -> V] : Good(k, g)}
<1>1. 0 \in S
  <2>1. Good(0, [i \in 0..0 |-> x])
    OBVIOUS
  <2>2. [i \in 0..0 |-> x] \in [0..0 -> V]
    OBVIOUS
  <2> HIDE DEF Good
  <2> QED BY <2>1, <2>2
<1>2. ASSUME NEW i \in 1..m, i - 1 \in S
      PROVE  i \in S
  <2>1. PICK g \in [0..(i - 1) -> V] : Good(i - 1, g)
    BY <1>2
  <2>2. step[i] \in [V -> V] /\ g[i - 1] \in V
    <3>1. i - 1 \in 0..(i - 1)
      OBVIOUS
    <3> QED BY <3>1
  <2> DEFINE h == [j \in 0..i |-> IF j = i THEN step[i][g[i - 1]] ELSE g[j]]
  <2>3. h \in [0..i -> V]
    <3> SUFFICES ASSUME NEW j \in 0..i PROVE (IF j = i THEN step[i][g[i - 1]] ELSE g[j]) \in V
      OBVIOUS
    <3>1. j # i => j \in 0..(i - 1)
      OBVIOUS
    <3> QED BY <2>2, <3>1
  <2>4. h[0] = x
    BY <2>1
  <2>5. ASSUME NEW j \in 1..i PROVE h[j] = step[j][h[j - 1]]
    <3>1. j - 1 \in 0..i /\ j - 1 # i /\ h[j - 1] = g[j - 1]
      OBVIOUS
    <3>2. CASE j = i
      BY <3>1, <3>2
    <3>3. CASE j # i
      <4>1. j \in 1..(i - 1) /\ h[j] = g[j]
        BY <3>3
      <4> QED BY <2>1, <3>1, <4>1
    <3> QED BY <3>2, <3>3
  <2> HIDE DEF h
  <2>6. Good(i, h)
    BY <2>3, <2>4, <2>5
  <2> HIDE DEF Good
  <2> QED BY <2>3, <2>6
<1> HIDE DEF S
<1>3. \A i \in 0..m : i \in S
  BY <1>1, <1>2, UpTo
<1>4. m \in S
  BY <1>3
<1> QED BY <1>4 DEF S, Follows

-----------------------------------------------------------------------------
(* The sum of a list *)

LEMMA TotalIs ==
  ASSUME NEW s \in Seq(Int)
  PROVE  \E g \in [0..Len(s) -> Int] :
           g[0] = 0 /\ (\A i \in 1..Len(s) : g[i] = g[i - 1] + s[i]) /\ Total(s) = g[Len(s)]
<1> DEFINE m == Len(s)
           step == [i \in 1..m |-> [a \in Int |-> a + s[i]]]
           Is(g) == g = [i \in 0..m |-> IF i = 0 THEN 0 ELSE g[i - 1] + s[i]]
           upto == CHOOSE g : Is(g)
<1>1. m \in Nat /\ \A i \in 1..m : s[i] \in Int
  OBVIOUS
<1>2. step \in [1..m -> [Int -> Int]]
  BY <1>1
<1>3. PICK g \in [0..m -> Int] : g[0] = 0 /\ \A i \in 1..m : g[i] = step[i][g[i - 1]]
  <2>1. m \in Nat /\ 0 \in Int /\ IsStep(m, Int, step)
    BY <1>1, <1>2 DEF IsStep
  <2>2. PICK g : Follows(m, Int, 0, step, g)
    <3> HIDE DEF step, m
    <3> QED BY <2>1, Recursion
  <2> HIDE DEF step, m
  <2> QED BY <2>2 DEF Follows
<1>4. Is(g)
  <2>1. ASSUME NEW i \in 0..m
        PROVE  g[i] = IF i = 0 THEN 0 ELSE g[i - 1] + s[i]
    <3>1. CASE i = 0
      BY <1>3, <3>1
    <3>2. CASE i # 0
      <4>1. i \in 1..m /\ i - 1 \in 0..m
        BY <3>2
      <4>2. g[i - 1] \in Int
        BY <4>1
      <4> QED BY <1>3, <3>2, <4>1, <4>2
    <3> QED BY <3>1, <3>2
  <2> QED BY <2>1
<1>5. Is(upto)
  <2> HIDE DEF Is
  <2> QED BY <1>4
<1>6. Total(s) = upto[m]
  BY Zenon DEF Total
<1> HIDE DEF upto
<1>7. upto[0] = 0 /\ \A i \in 1..m : upto[i] = upto[i - 1] + s[i]
  <2>1. \A i \in 0..m : upto[i] = IF i = 0 THEN 0 ELSE upto[i - 1] + s[i]
    BY <1>5
  <2>2. 0 \in 0..m /\ \A i \in 1..m : i \in 0..m /\ i # 0
    BY <1>1
  <2> QED BY <2>1, <2>2
<1>8. \A i \in 0..m : upto[i] \in Int
  <2> DEFINE S == {i \in 0..m : upto[i] \in Int}
  <2>1. 0 \in S
    BY <1>1, <1>7
  <2>2. \A i \in 1..m : i - 1 \in S => i \in S
    BY <1>1, <1>7
  <2> HIDE DEF S
  <2>3. \A i \in 0..m : i \in S
    BY <1>1, <2>1, <2>2, UpTo
  <2> QED BY <2>3 DEF S
<1>9. upto \in [0..m -> Int]
  <2>1. upto = [i \in 0..m |-> IF i = 0 THEN 0 ELSE upto[i - 1] + s[i]]
    BY <1>5
  <2> HIDE DEF Is
  <2>2. DOMAIN upto = 0..m /\ upto = [i \in DOMAIN upto |-> upto[i]]
    BY <2>1
  <2> QED BY <1>8, <2>2
<1> QED BY <1>6, <1>7, <1>9

\* A list with one more at its end has that much more in sum.
LEMMA TotalGrows ==
  ASSUME NEW s \in Seq(Int), NEW t \in Seq(Int), Len(t) = Len(s) + 1, \A i \in 1..Len(s) : t[i] = s[i]
  PROVE  Total(t) = Total(s) + t[Len(t)] /\ Total(s) \in Int
<1>1. PICK g \in [0..Len(s) -> Int] :
         g[0] = 0 /\ (\A i \in 1..Len(s) : g[i] = g[i - 1] + s[i]) /\ Total(s) = g[Len(s)]
  BY TotalIs
<1>2. PICK h \in [0..Len(t) -> Int] :
         h[0] = 0 /\ (\A i \in 1..Len(t) : h[i] = h[i - 1] + t[i]) /\ Total(t) = h[Len(t)]
  BY TotalIs
<1>3. Len(s) \in Nat
  OBVIOUS
<1> DEFINE S == {i \in 0..Len(s) : g[i] = h[i]}
<1>4. 0 \in S
  BY <1>1, <1>2, <1>3
<1>5. ASSUME NEW i \in 1..Len(s), i - 1 \in S
      PROVE  i \in S
  <2>1. i \in 1..Len(t)
    BY <1>3
  <2> QED BY <1>1, <1>2, <1>5, <2>1
<1>6. \A i \in 0..Len(s) : i \in S
  <2> HIDE DEF S
  <2> QED BY <1>3, <1>4, <1>5, UpTo
<1>7. Len(s) \in 0..Len(s) /\ Len(t) \in 1..Len(t) /\ Len(t) - 1 = Len(s)
  BY <1>3
<1>8. g[Len(s)] = h[Len(s)] /\ g[Len(s)] \in Int
  BY <1>6, <1>7
<1> QED BY <1>1, <1>2, <1>7, <1>8

LEMMA TotalOfNone == \A s : s = <<>> => Total(s) = 0
<1> SUFFICES ASSUME NEW s, s = <<>> PROVE Total(s) = 0
  OBVIOUS
<1>1. s \in Seq(Int) /\ Len(s) = 0
  OBVIOUS
<1> QED BY <1>1, TotalIs

\* Two lists of one length that agree have one sum.
LEMMA TotalSame ==
  ASSUME NEW s \in Seq(Int), NEW t \in Seq(Int), Len(t) = Len(s), \A i \in 1..Len(s) : t[i] = s[i]
  PROVE  Total(t) = Total(s)
  OBVIOUS

-----------------------------------------------------------------------------
(* What the state holds *)

AskRecord == [build : BOOLEAN, thread : Threads, budget : {NoBudget, Budget}, by : Runners, schema : BOOLEAN]
RowRecord == [seq : Nat, by : Runners, thread : Threads, cost : Nat, ok : BOOLEAN]
Sums == [Runners -> [Threads -> Nat]]

RunnerTypes ==
  /\ cfg \in [kind : {"anthropic", "openai"}, budget : {NoBudget, Budget}, price : {"none", "input", "full"}]
  /\ cfg.kind = "anthropic" => cfg.budget = NoBudget
  /\ pc \in {"idle", "asked", "retry", "loop"} /\ out \in {"none", "answer", "failed", "limit", "budget"}
  /\ ask \in AskRecord /\ n \in 0..MaxCalls /\ real \in Nat /\ asked \in Int /\ asked <= MaxTokens
  /\ spent \in Sums /\ paid \in Sums /\ dropped \in Sums /\ late \in Sums
  /\ calls \in Seq(Nat) /\ rows \in Seq(RowRecord)

EndRecord == [what : {"none", "final", "turn_cap", "budget", "failed", "limit"}, patch : [Files -> Texts],
              error : {"none", "patch_outside_scratch", "patch_empty"}, git : BOOLEAN]

\* Checks the clock missed, each within its own time.
Missed == {u \in [checks : Nat, seconds : Nat] : u.seconds <= CheckTimeout * u.checks}

LoopTypes ==
  /\ tree \in [Files -> Texts] /\ turns \in 0..TurnCap /\ usage \in Nat /\ billed \in Nat
  /\ clock \in 0..CheckTotal /\ unclocked \in Missed /\ ceiling \in Nat \cup {NoBudget} /\ end \in EndRecord

\* Where a call can be, by who makes it.
CallIsWhere ==
  /\ ask.budget = IF ask.thread = NoThread THEN NoBudget ELSE Budget
  /\ ask.by = "delegate" => cfg.kind = "openai"
  /\ pc = "retry" => Endpoint
  /\ pc = "loop" => InWorktree

\* What a running loop has been billed and is not yet charged or recorded.
Pending(by, t) == IF pc = "loop" /\ by = ask.by /\ t = ask.thread THEN billed ELSE 0

IsCharged(by, t) ==
  IF by = "delegate" THEN t # NoThread
  ELSE (cfg.kind = "anthropic" => t # NoThread) /\ (cfg.kind = "openai" => cfg.budget # NoBudget)

RowsBalance == \A by \in Runners, t \in Threads : Recorded(by, t) + dropped[by][t] + Pending(by, t) = paid[by][t]
SpentBalances ==
  /\ \A by \in Runners, t \in Threads :
       IsCharged(by, t) => spent[by][t] + dropped[by][t] + Pending(by, t) = paid[by][t]
  /\ \A t \in Threads : dropped["delegate"][t] = 0
Numbered == \A i \in 1..Len(rows) : rows[i].seq = i
CallsBalance == cfg.kind = "openai" => Total(calls) = RecordedBy("own")

\* What a thread with a budget was charged in time.
StaysWithin ==
  Priced => \A by \in Runners, t \in Threads : Limited(by, t) => spent[by][t] - late[by][t] <= Budget + MaxCost

LoopIsLimited ==
  pc = "loop" =>
    /\ Limited(ask.by, ask.thread) /\ Priced => ceiling # NoBudget /\ spent[ask.by][ask.thread] + ceiling <= Budget
    /\ Messages /\ ~Priced => ceiling = NoBudget
    /\ ceiling # NoBudget => (end.what \in {"none", "final"} => usage <= ceiling) /\ billed <= ceiling + MaxCost
    /\ end.what \in {"none", "final"} => billed = usage /\ (Priced => real = usage)
    /\ Endpoint /\ cfg.budget # NoBudget => ceiling # NoBudget /\ ceiling <= Left

\* The messages of a loop, as the Messages API gets them: turns are taken, the last is the
\* user's, and whatever the assistant asked for is answered by what follows.
MessageRecord == [role : {"user", "assistant", "tool"}, ids : Seq(Nat), error : BOOLEAN]
WireRecord == [role : {"user", "assistant"}, ids : Seq(Nat), blocks : BOOLEAN]
TakesTurns(wire) ==
  /\ Len(wire) % 2 = 1
  /\ \A i \in 1..Len(wire) : wire[i].role = (IF i % 2 = 1 THEN "user" ELSE "assistant")
  /\ \A i \in 1..Len(wire) : wire[i].role = "assistant" => wire[i + 1].ids = wire[i].ids

WireInv ==
  /\ messages \in Seq(MessageRecord)
  /\ pc = "loop" => ToAnthropic(messages) \in Seq(WireRecord) /\ TakesTurns(ToAnthropic(messages))

Books == RowsBalance /\ SpentBalances /\ Numbered /\ CallsBalance /\ StaysWithin
MoneyInv == RunnerTypes /\ LoopTypes /\ CallIsWhere /\ Books /\ NoAnswerPastBudget /\ LoopIsLimited
ApiInv == MoneyInv /\ PatchIsTheTree /\ WireInv

-----------------------------------------------------------------------------
(* Sums over the rows, and money added to a thread *)

Rec(rs, by, t) == Total([i \in DOMAIN rs |-> IF rs[i].by = by /\ rs[i].thread = t THEN rs[i].cost ELSE 0])
RecBy(rs, by) == Total([i \in DOMAIN rs |-> IF rs[i].by = by THEN rs[i].cost ELSE 0])

LEMMA RowAdded ==
  ASSUME NEW rs \in Seq(RowRecord), NEW row \in RowRecord, NEW by \in Runners, NEW t \in Threads
  PROVE  /\ Rec(Append(rs, row), by, t) = Rec(rs, by, t) + (IF row.by = by /\ row.thread = t THEN row.cost ELSE 0)
         /\ RecBy(Append(rs, row), by) = RecBy(rs, by) + (IF row.by = by THEN row.cost ELSE 0)
         /\ Rec(rs, by, t) \in Int /\ RecBy(rs, by) \in Int
<1> DEFINE more == Append(rs, row)
           k == Len(rs)
           Of(r) == IF r.by = by /\ r.thread = t THEN r.cost ELSE 0
           OfBy(r) == IF r.by = by THEN r.cost ELSE 0
<1>1. more \in Seq(RowRecord) /\ k \in Nat /\ Len(more) = k + 1 /\ more[k + 1] = row
      /\ (\A i \in 1..k : more[i] = rs[i] /\ rs[i] \in RowRecord)
      /\ DOMAIN more = 1..(k + 1) /\ DOMAIN rs = 1..k
  OBVIOUS
<1>2. \A r \in RowRecord : Of(r) \in Int /\ OfBy(r) \in Int
  BY DEF RowRecord
<1> DEFINE s == [i \in 1..k |-> Of(rs[i])]
           m == [i \in 1..(k + 1) |-> Of(more[i])]
           sBy == [i \in 1..k |-> OfBy(rs[i])]
           mBy == [i \in 1..(k + 1) |-> OfBy(more[i])]
<1>3. Rec(rs, by, t) = Total(s) /\ Rec(more, by, t) = Total(m)
      /\ RecBy(rs, by) = Total(sBy) /\ RecBy(more, by) = Total(mBy)
  BY <1>1 DEF Rec, RecBy
<1> HIDE DEF more, k, Of, OfBy
<1>4. /\ s \in Seq(Int) /\ Len(s) = k
      /\ sBy \in Seq(Int) /\ Len(sBy) = k
  <2>1. \A i \in 1..k : Of(rs[i]) \in Int /\ OfBy(rs[i]) \in Int
    BY <1>1, <1>2
  <2>2. s \in [1..k -> Int] /\ sBy \in [1..k -> Int]
    BY <2>1
  <2> HIDE DEF s, sBy
  <2>3. k \in Nat
    BY <1>1
  <2> QED BY <2>2, <2>3
<1>10. /\ m \in Seq(Int) /\ Len(m) = k + 1
       /\ mBy \in Seq(Int) /\ Len(mBy) = k + 1
  <2>1. \A i \in 1..(k + 1) : more[i] \in RowRecord
    BY <1>1
  <2>2. m \in [1..(k + 1) -> Int] /\ mBy \in [1..(k + 1) -> Int]
    BY <2>1, <1>2
  <2> HIDE DEF m, mBy
  <2>3. k + 1 \in Nat
    BY <1>1
  <2> QED BY <2>2, <2>3
<1>5. \A i \in 1..k : m[i] = s[i] /\ mBy[i] = sBy[i]
  BY <1>1
<1>6. m[k + 1] = Of(row) /\ mBy[k + 1] = OfBy(row)
  BY <1>1
<1> HIDE DEF s, m, sBy, mBy
<1>11. s \in Seq(Int) /\ m \in Seq(Int) /\ Len(m) = Len(s) + 1 /\ m[Len(m)] = Of(row)
       /\ \A i \in 1..Len(s) : m[i] = s[i]
  BY <1>4, <1>10, <1>5, <1>6
<1>7. Total(m) = Total(s) + Of(row) /\ Total(s) \in Int
  BY <1>11, TotalGrows
<1>9. sBy \in Seq(Int) /\ mBy \in Seq(Int) /\ Len(mBy) = Len(sBy) + 1 /\ mBy[Len(mBy)] = OfBy(row)
      /\ \A i \in 1..Len(sBy) : mBy[i] = sBy[i]
  BY <1>4, <1>10, <1>5, <1>6
<1>8. Total(mBy) = Total(sBy) + OfBy(row) /\ Total(sBy) \in Int
  BY <1>9, TotalGrows
<1> QED BY <1>3, <1>7, <1>8 DEF more, Of, OfBy

LEMMA SumIsNumber ==
  ASSUME NEW rs \in Seq(RowRecord), NEW by \in Runners, NEW t \in Threads
  PROVE  Rec(rs, by, t) \in Int
<1> DEFINE row == [seq |-> 0, by |-> by, thread |-> t, cost |-> 0, ok |-> TRUE]
<1>1. row \in RowRecord
  BY DEF RowRecord
<1> HIDE DEF row
<1> QED BY <1>1, RowAdded

LEMMA CallAdded ==
  ASSUME NEW s \in Seq(Nat), NEW k \in Nat
  PROVE  Total(Append(s, k)) = Total(s) + k /\ Total(s) \in Int
<1> DEFINE t == Append(s, k)
<1>1. s \in Seq(Int) /\ t \in Seq(Int) /\ Len(t) = Len(s) + 1 /\ t[Len(t)] = k
      /\ \A i \in 1..Len(s) : t[i] = s[i]
  OBVIOUS
<1> HIDE DEF t
<1>2. Total(t) = Total(s) + t[Len(t)] /\ Total(s) \in Int
  BY <1>1, TotalGrows
<1> QED BY <1>1, <1>2 DEF t

Plus(f, by, t, k) == [f EXCEPT ![by][t] = @ + k]
LEMMA Added ==
  ASSUME NEW f \in Sums, NEW by \in Runners, NEW t \in Threads, NEW k \in Nat
  PROVE  /\ Plus(f, by, t, k) \in Sums
         /\ \A b \in Runners, u \in Threads :
              Plus(f, by, t, k)[b][u] = IF b = by /\ u = t THEN f[b][u] + k ELSE f[b][u]
  BY DEF Sums, Plus

LEMMA AddedAt ==
  ASSUME NEW f \in Sums, NEW by \in Runners, NEW t \in Threads, NEW k \in Nat, NEW b \in Runners, NEW u \in Threads
  PROVE  Plus(f, by, t, k)[b][u] = IF b = by /\ u = t THEN f[b][u] + k ELSE f[b][u]
  BY Added

LEMMA NothingAdded ==
  ASSUME NEW f \in Sums, NEW by \in Runners, NEW t \in Threads
  PROVE  f = [f EXCEPT ![by][t] = @ + 0]
<1>1. f[by][t] + 0 = f[by][t] /\ f[by] \in [Threads -> Nat]
  BY DEF Sums
<1> QED BY <1>1 DEF Sums

\* Max and Min are of the set and at its ends.
LEMMA LargestIs ==
  ASSUME NEW S, \E x \in S : \A y \in S : x >= y
  PROVE  Max(S) \in S /\ \A y \in S : Max(S) >= y
  BY Zenon DEF Max

LEMMA SmallestIs ==
  ASSUME NEW S, \E x \in S : \A y \in S : x <= y
  PROVE  Min(S) \in S /\ \A y \in S : Min(S) <= y
  BY Zenon DEF Min

LEMMA LargestOfTwo ==
  ASSUME NEW a \in Int, NEW b \in Int
  PROVE  Max({a, b}) \in {a, b} /\ Max({a, b}) >= a /\ Max({a, b}) >= b
         /\ Min({a, b}) \in {a, b} /\ Min({a, b}) <= a /\ Min({a, b}) <= b
<1>1. \E x \in {a, b} : \A y \in {a, b} : x >= y
  OBVIOUS
<1>2. \E x \in {a, b} : \A y \in {a, b} : x <= y
  OBVIOUS
<1> DEFINE S == {a, b}
<1>3. a \in S /\ b \in S /\ (\E x \in S : \A y \in S : x >= y) /\ (\E x \in S : \A y \in S : x <= y)
  BY <1>1, <1>2
<1> HIDE DEF S
<1>4. Max(S) \in S /\ Max(S) >= a /\ Max(S) >= b /\ Min(S) \in S /\ Min(S) <= a /\ Min(S) <= b
  BY <1>3, LargestIs, SmallestIs
<1> QED BY <1>4 DEF S

\* No reply costs more than the largest prompt and a full answer.
LEMMA CostsAreBounded ==
  ASSUME NEW most \in Int, most <= MaxTokens, NEW cost \in Costs(most)
  PROVE  cost \in Nat /\ cost <= MaxCost /\ MaxCost \in Nat
<1>1. \E x \in Inputs : \A y \in Inputs : x >= y
  <2>1. PICK x \in Inputs : \A y \in Inputs : y <= x
    BY Zenon, ApiRunnerAssumption
  <2>2. \A y \in Inputs : x >= y
    BY <2>1, ApiRunnerAssumption
  <2> QED BY <2>2
<1>2. Max(Inputs) \in Inputs /\ \A y \in Inputs : Max(Inputs) >= y
  BY <1>1, LargestIs
<1> DEFINE longest == IF most < 1 THEN Longest ELSE most
<1>3. \E i \in Inputs, o \in 0..Longest : cost = i + o
  <2>1. Inputs \subseteq Nat /\ Longest \in Nat /\ MaxTokens <= Longest /\ MaxTokens \in Nat
    BY ApiRunnerAssumption
  <2>2. CASE cfg.price = "input"
    <3>1. cost \in Inputs /\ cost = cost + 0 /\ 0 \in 0..Longest
      BY <2>1, <2>2 DEF Costs
    <3> QED BY <3>1
  <2>3. CASE cfg.price # "input"
    <3>1. PICK i \in Inputs, o \in 0..longest : cost = i + o
      BY <2>3 DEF Costs
    <3>2. o \in 0..Longest
      BY <2>1
    <3> QED BY <3>1, <3>2
  <2> QED BY <2>2, <2>3
<1>5. PICK i \in Inputs, o \in 0..Longest : cost = i + o
  BY <1>3
<1>4. Max(Inputs) \in Nat /\ i \in Nat /\ i <= Max(Inputs) /\ o \in Nat /\ o <= Longest /\ Longest \in Nat
  <2> DEFINE most2 == Max(Inputs)
  <2>1. most2 \in Inputs /\ i \in Inputs /\ most2 >= i /\ Inputs \subseteq Nat /\ Longest \in Nat
    BY <1>2, ApiRunnerAssumption
  <2> HIDE DEF most2
  <2>2. most2 \in Nat /\ i \in Nat /\ i <= most2 /\ o \in Nat /\ o <= Longest
    BY <2>1
  <2> QED BY <2>1, <2>2 DEF most2
<1> QED BY <1>4, <1>5 DEF MaxCost

\* Budgets are numbers, and NoBudget is none.
LEMMA BudgetIsNumber ==
  Budget \in Nat /\ Budget # NoBudget /\ MaxTokens \in Nat /\ MaxTokens >= 1 /\ NoThread \in Threads /\ NoBudget \notin Int
  BY ApiRunnerAssumption, ToolLoopAssumption

LEMMA NoCostIsNumber == MaxCost \in Nat
<1>1. PICK i \in Inputs : TRUE
  BY ApiRunnerAssumption
<1>2. i \in Nat
  BY <1>1, ApiRunnerAssumption
<1>3. i \in Costs(0)
  <2>1. Longest \in Nat
    BY ApiRunnerAssumption
  <2> QED BY <1>1, <1>2, <2>1 DEF Costs
<1> QED BY <1>3, CostsAreBounded, BudgetIsNumber

-----------------------------------------------------------------------------
(* The books, after any step that settles a call or a part of it *)

Outs == {"none", "answer", "failed", "limit", "budget"}
Owed == IF pc = "loop" THEN billed ELSE 0

LEMMA Adds ==
  ASSUME NEW a \in Int, NEW b \in Int, NEW p \in Int, NEW q \in Int, a + b + p = q,
         NEW x \in Int, NEW y \in Int, NEW z \in Int, x + y = z + p
  PROVE  (a + x) + (b + y) + 0 = q + z
  OBVIOUS

\* A step that bills a thread, charges it, part of it late, drops a part, and writes a row; the
\* call is over or tried again.
Settles(bill, charge, over, drop, rec, ok) ==
  /\ pc' # "loop" /\ cfg' = cfg
  /\ paid' = [paid EXCEPT ![ask.by][ask.thread] = @ + bill]
  /\ spent' = [spent EXCEPT ![ask.by][ask.thread] = @ + charge]
  /\ late' = [late EXCEPT ![ask.by][ask.thread] = @ + over]
  /\ dropped' = [dropped EXCEPT ![ask.by][ask.thread] = @ + drop]
  /\ Row(rec, ok)
  /\ rec + drop = bill + Owed
  /\ IsCharged(ask.by, ask.thread) => charge + drop = bill + Owed
  /\ ask.by = "delegate" => drop = 0
  /\ Priced /\ Limited(ask.by, ask.thread) =>
       /\ spent[ask.by][ask.thread] + charge <= Budget + MaxCost + late[ask.by][ask.thread] + over
       /\ pc' = "idle" /\ out' = "answer" => spent[ask.by][ask.thread] + charge <= Budget
  /\ cfg.kind = "openai" => calls' = Append(calls, IF ask.by = "own" THEN rec ELSE 0)
  /\ cfg.kind = "anthropic" => calls' = calls

LEMMA BooksAfter ==
  ASSUME RunnerTypes, LoopTypes, CallIsWhere, Books,
         NEW bill \in Nat, NEW charge \in Nat, NEW over \in Nat, NEW drop \in Nat, NEW rec \in Nat, NEW ok \in BOOLEAN,
         Settles(bill, charge, over, drop, rec, ok)
  PROVE  /\ spent' \in Sums /\ paid' \in Sums /\ dropped' \in Sums /\ late' \in Sums
         /\ rows' \in Seq(RowRecord) /\ calls' \in Seq(Nat)
         /\ Books' /\ NoAnswerPastBudget' /\ LoopIsLimited'
<1>0. RowsBalance /\ SpentBalances /\ Numbered /\ CallsBalance /\ StaysWithin
  BY DEF Books
<1> DEFINE me == ask.by
           thread == ask.thread
           row == [seq |-> NextSeq, by |-> me, thread |-> thread, cost |-> rec, ok |-> ok]
           By(by, t) == by = me /\ t = thread
<1>1. me \in Runners /\ thread \in Threads /\ billed \in Nat /\ Owed \in Nat
      /\ cfg.kind \in {"anthropic", "openai"}
  BY DEF RunnerTypes, LoopTypes, AskRecord, Owed
<1>2. spent \in Sums /\ paid \in Sums /\ dropped \in Sums /\ late \in Sums
      /\ rows \in Seq(RowRecord) /\ calls \in Seq(Nat)
  BY DEF RunnerTypes
<1>3. row \in RowRecord /\ row.by = me /\ row.thread = thread /\ row.cost = rec /\ row.seq = Len(rows) + 1
  BY <1>1, <1>2 DEF RowRecord, NextSeq
<1>4. rows' = Append(rows, row)
  BY DEF Settles, Row
<1>5. /\ spent' \in Sums /\ paid' \in Sums /\ dropped' \in Sums /\ late' \in Sums
      /\ \A by \in Runners, t \in Threads :
           /\ paid'[by][t] = IF By(by, t) THEN paid[by][t] + bill ELSE paid[by][t]
           /\ spent'[by][t] = IF By(by, t) THEN spent[by][t] + charge ELSE spent[by][t]
           /\ dropped'[by][t] = IF By(by, t) THEN dropped[by][t] + drop ELSE dropped[by][t]
           /\ late'[by][t] = IF By(by, t) THEN late[by][t] + over ELSE late[by][t]
  <2>1. paid' = Plus(paid, me, thread, bill) /\ spent' = Plus(spent, me, thread, charge)
        /\ dropped' = Plus(dropped, me, thread, drop) /\ late' = Plus(late, me, thread, over)
    BY DEF Settles, Plus
  <2> HIDE DEF me, thread
  <2>2. paid' \in Sums /\ spent' \in Sums /\ dropped' \in Sums /\ late' \in Sums
    BY <1>1, <1>2, <2>1, Added
  <2>3. ASSUME NEW by \in Runners, NEW t \in Threads
        PROVE  /\ paid'[by][t] = IF By(by, t) THEN paid[by][t] + bill ELSE paid[by][t]
               /\ spent'[by][t] = IF By(by, t) THEN spent[by][t] + charge ELSE spent[by][t]
               /\ dropped'[by][t] = IF By(by, t) THEN dropped[by][t] + drop ELSE dropped[by][t]
               /\ late'[by][t] = IF By(by, t) THEN late[by][t] + over ELSE late[by][t]
    <3>1. Plus(paid, me, thread, bill)[by][t] = IF By(by, t) THEN paid[by][t] + bill ELSE paid[by][t]
      BY <1>1, <1>2, Added
    <3>2. Plus(spent, me, thread, charge)[by][t] = IF By(by, t) THEN spent[by][t] + charge ELSE spent[by][t]
      BY <1>1, <1>2, Added
    <3>3. Plus(dropped, me, thread, drop)[by][t] = IF By(by, t) THEN dropped[by][t] + drop ELSE dropped[by][t]
      BY <1>1, <1>2, Added
    <3>4. Plus(late, me, thread, over)[by][t] = IF By(by, t) THEN late[by][t] + over ELSE late[by][t]
      BY <1>1, <1>2, Added
    <3> HIDE DEF By
    <3> QED BY <2>1, <3>1, <3>2, <3>3, <3>4
  <2> QED BY <2>2, <2>3
<1>6. \A by \in Runners, t \in Threads :
        paid[by][t] \in Nat /\ spent[by][t] \in Nat /\ dropped[by][t] \in Nat /\ late[by][t] \in Nat
  BY <1>2 DEF Sums
<1>7. \A by \in Runners, t \in Threads : Pending(by, t) = IF By(by, t) THEN Owed ELSE 0
  BY DEF Pending, Owed
<1>8. \A by \in Runners, t \in Threads : Pending(by, t)' = 0
  BY DEF Pending, Settles
<1>9. \A by \in Runners, t \in Threads :
        Recorded(by, t) \in Int /\ Recorded(by, t)' = Recorded(by, t) + IF By(by, t) THEN rec ELSE 0
  <2> SUFFICES ASSUME NEW by \in Runners, NEW t \in Threads
               PROVE  Recorded(by, t) \in Int /\ Recorded(by, t)' = Recorded(by, t) + IF By(by, t) THEN rec ELSE 0
    OBVIOUS
  <2> HIDE DEF row
  <2>1. Rec(Append(rows, row), by, t) = Rec(rows, by, t) + (IF row.by = by /\ row.thread = t THEN row.cost ELSE 0)
        /\ Rec(rows, by, t) \in Int
    BY <1>2, <1>3, RowAdded
  <2>2. Recorded(by, t) = Rec(rows, by, t) /\ Recorded(by, t)' = Rec(rows', by, t)
    BY DEF Recorded, Rec
  <2> QED BY <2>1, <2>2, <1>3, <1>4
<1>10. RecordedBy("own") \in Int /\ RecordedBy("own")' = RecordedBy("own") + IF me = "own" THEN rec ELSE 0
  <2> HIDE DEF row
  <2>1. RecBy(Append(rows, row), "own") = RecBy(rows, "own") + (IF row.by = "own" THEN row.cost ELSE 0)
        /\ RecBy(rows, "own") \in Int
    BY <1>1, <1>2, <1>3, RowAdded DEF Runners
  <2>2. RecordedBy("own") = RecBy(rows, "own") /\ RecordedBy("own")' = RecBy(rows', "own")
    BY DEF RecordedBy, RecBy
  <2> QED BY <2>1, <2>2, <1>3, <1>4
<1>11. rows' \in Seq(RowRecord) /\ Len(rows') = Len(rows) + 1 /\ rows'[Len(rows')] = row
       /\ \A i \in 1..Len(rows) : rows'[i] = rows[i]
  <2> HIDE DEF row
  <2> QED BY <1>2, <1>3, <1>4
<1>12. calls' \in Seq(Nat) /\ CallsBalance'
  <2>1. CASE cfg.kind = "anthropic"
    BY <2>1, <1>0, <1>2 DEF CallsBalance, Settles
  <2>2. CASE cfg.kind = "openai"
    <3> DEFINE k == IF me = "own" THEN rec ELSE 0
    <3>1. k \in Nat /\ calls' = Append(calls, k)
      BY <2>2 DEF Settles
    <3>2. Total(Append(calls, k)) = Total(calls) + k
      <4> HIDE DEF k
      <4> QED BY <1>2, <3>1, CallAdded
    <3>3. Total(calls)' = Total(calls')
      BY DEF Total
    <3>4. Total(calls') = Total(calls) + k /\ calls' \in Seq(Nat)
      <4> HIDE DEF k
      <4> QED BY <1>2, <3>1, <3>2
    <3>5. Total(calls) = RecordedBy("own")
      BY <1>0, <2>2 DEF CallsBalance
    <3> QED BY <1>10, <3>3, <3>4, <3>5 DEF CallsBalance
  <2> QED BY <1>1, <2>1, <2>2
<1>13. RowsBalance'
  <2> SUFFICES ASSUME NEW by \in Runners, NEW t \in Threads
               PROVE  Recorded(by, t)' + dropped'[by][t] + Pending(by, t)' = paid'[by][t]
    BY DEF RowsBalance
  <2>1. Recorded(by, t) + dropped[by][t] + Pending(by, t) = paid[by][t]
    BY <1>0 DEF RowsBalance
  <2>2. CASE By(by, t)
    <3>1. Recorded(by, t)' = Recorded(by, t) + rec /\ dropped'[by][t] = dropped[by][t] + drop
          /\ Pending(by, t)' = 0 /\ Pending(by, t) = Owed /\ paid'[by][t] = paid[by][t] + bill
      BY <2>2, <1>5, <1>7, <1>8, <1>9
    <3>2. rec + drop = bill + Pending(by, t)
      BY <3>1 DEF Settles
    <3>3. Recorded(by, t) \in Int /\ dropped[by][t] \in Int /\ Pending(by, t) \in Int /\ paid[by][t] \in Int
      BY <3>1, <1>1, <1>6, <1>9
    <3>4. (Recorded(by, t) + rec) + (dropped[by][t] + drop) + 0 = paid[by][t] + bill
      BY <2>1, <3>2, <3>3, Adds
    <3> HIDE DEF By
    <3> QED BY <3>1, <3>4
  <2>3. CASE ~By(by, t)
    <3>1. Recorded(by, t)' = Recorded(by, t) + 0 /\ dropped'[by][t] = dropped[by][t]
          /\ Pending(by, t)' = 0 /\ Pending(by, t) = 0 /\ paid'[by][t] = paid[by][t]
      BY <2>3, <1>5, <1>7, <1>8, <1>9
    <3> HIDE DEF By
    <3> QED BY <2>1, <3>1, <1>1, <1>6, <1>9
  <2> QED BY <2>2, <2>3
<1>14. SpentBalances'
  <2>1. ASSUME NEW by \in Runners, NEW t \in Threads, IsCharged(by, t)
        PROVE  spent'[by][t] + dropped'[by][t] + Pending(by, t)' = paid'[by][t]
    <3>1. spent[by][t] + dropped[by][t] + Pending(by, t) = paid[by][t]
      BY <1>0, <2>1 DEF SpentBalances
    <3>2. CASE By(by, t)
      <4>1. spent'[by][t] = spent[by][t] + charge /\ dropped'[by][t] = dropped[by][t] + drop
            /\ Pending(by, t)' = 0 /\ Pending(by, t) = Owed /\ paid'[by][t] = paid[by][t] + bill
        BY <3>2, <1>5, <1>7, <1>8
      <4>2. charge + drop = bill + Owed
        BY <2>1, <3>2 DEF Settles
      <4>3. charge + drop = bill + Pending(by, t)
        BY <4>1, <4>2
      <4>4. spent[by][t] \in Int /\ dropped[by][t] \in Int /\ Pending(by, t) \in Int /\ paid[by][t] \in Int
        BY <4>1, <1>1, <1>6
      <4>5. (spent[by][t] + charge) + (dropped[by][t] + drop) + 0 = paid[by][t] + bill
        BY <3>1, <4>3, <4>4, Adds
      <4> HIDE DEF By
      <4> QED BY <4>1, <4>5
    <3>3. CASE ~By(by, t)
      <4>1. spent'[by][t] = spent[by][t] /\ dropped'[by][t] = dropped[by][t]
            /\ Pending(by, t)' = 0 /\ Pending(by, t) = 0 /\ paid'[by][t] = paid[by][t]
        BY <3>3, <1>5, <1>7, <1>8
      <4> HIDE DEF By
      <4> QED BY <3>1, <4>1, <1>6
    <3> QED BY <3>2, <3>3
  <2>2. \A by \in Runners, t \in Threads : IsCharged(by, t)' = IsCharged(by, t)
    BY DEF IsCharged, Settles
  <2>3. ASSUME NEW t \in Threads PROVE dropped'["delegate"][t] = 0
    <3>1. dropped["delegate"][t] = 0 /\ "delegate" \in Runners
      BY <1>0 DEF SpentBalances, Runners
    <3> QED BY <1>5, <3>1 DEF Settles
  <2> HIDE DEF By
  <2> QED BY <2>1, <2>2, <2>3 DEF SpentBalances
<1>15. Numbered'
  <2> SUFFICES ASSUME NEW i \in 1..Len(rows') PROVE rows'[i].seq = i
    BY DEF Numbered
  <2>1. i \in 1..Len(rows) \/ i = Len(rows')
    BY <1>2, <1>11
  <2>2. CASE i \in 1..Len(rows)
    BY <1>0, <2>2, <1>11 DEF Numbered
  <2>3. CASE i = Len(rows')
    BY <2>3, <1>3, <1>11
  <2> QED BY <2>1, <2>2, <2>3
<1>16. StaysWithin' /\ NoAnswerPastBudget'
  <2>1. cfg' = cfg /\ MaxCost' = MaxCost
    BY DEF Settles, MaxCost
  <2>2. Priced' = Priced /\ \A by \in Runners, t \in Threads : Limited(by, t)' = Limited(by, t)
    BY <2>1 DEF Limited, Priced
  <2>3. ASSUME Priced, NEW by \in Runners, NEW t \in Threads, Limited(by, t)
        PROVE  spent'[by][t] - late'[by][t] <= Budget + MaxCost
    <3>1. spent[by][t] - late[by][t] <= Budget + MaxCost
      BY <1>0, <2>3 DEF StaysWithin
    <3>2. spent[by][t] \in Nat /\ late[by][t] \in Nat /\ Budget \in Nat /\ MaxCost \in Nat
      BY <1>6, NoCostIsNumber, BudgetIsNumber
    <3>3. CASE By(by, t)
      <4>1. spent'[by][t] = spent[by][t] + charge /\ late'[by][t] = late[by][t] + over
        BY <3>3, <1>5
      <4>2. spent[by][t] + charge <= Budget + MaxCost + late[by][t] + over
        BY <2>3, <3>3 DEF Settles
      <4> HIDE DEF By
      <4> QED BY <3>2, <4>1, <4>2
    <3>4. CASE ~By(by, t)
      <4>1. spent'[by][t] = spent[by][t] /\ late'[by][t] = late[by][t]
        BY <3>4, <1>5
      <4> HIDE DEF By
      <4> QED BY <3>1, <4>1
    <3> QED BY <3>3, <3>4
  <2>4. StaysWithin'
    BY <2>1, <2>2, <2>3 DEF StaysWithin
  <2>5. ASSUME pc' = "idle", out' = "answer", Priced, Limited(me, thread)
        PROVE  spent'[me][thread] <= Budget
    <3>1. spent'[me][thread] = spent[me][thread] + charge
      BY <1>1, <1>5
    <3> QED BY <2>5, <3>1 DEF Settles
  <2>6. rows'[Len(rows')].by = me /\ rows'[Len(rows')].thread = thread
    BY <1>3, <1>11
  <2>7. NoAnswerPastBudget'
    <3> HIDE DEF me, thread, row
    <3> QED BY <1>1, <2>1, <2>2, <2>5, <2>6 DEF NoAnswerPastBudget
  <2> QED BY <2>4, <2>7
<1>17. LoopIsLimited'
  BY DEF LoopIsLimited, Settles
<1> QED BY <1>5, <1>11, <1>12, <1>13, <1>14, <1>15, <1>16, <1>17 DEF Books

\* A step that moves no money.
LEMMA AsideKeepsBooks ==
  ASSUME RunnerTypes, Books, cfg' = cfg, spent' = spent, rows' = rows, paid' = paid, dropped' = dropped, late' = late,
         \A by \in Runners, t \in Threads : Pending(by, t)' = Pending(by, t),
         calls' = calls \/ calls' = Append(calls, 0)
  PROVE  Books' /\ calls' \in Seq(Nat)
<1>1. RowsBalance /\ SpentBalances /\ Numbered /\ CallsBalance /\ StaysWithin /\ calls \in Seq(Nat)
  BY DEF Books, RunnerTypes
<1>2. \A by \in Runners, t \in Threads :
        /\ Recorded(by, t)' = Recorded(by, t) /\ RecordedBy(by)' = RecordedBy(by)
        /\ IsCharged(by, t)' = IsCharged(by, t) /\ Limited(by, t)' = Limited(by, t)
  BY DEF Recorded, RecordedBy, IsCharged, Limited
<1>3. RowsBalance'
  BY <1>1, <1>2 DEF RowsBalance
<1>4. SpentBalances'
  BY <1>1, <1>2 DEF SpentBalances
<1>5. Total(calls') = Total(calls) /\ calls' \in Seq(Nat)
  <2>1. Total(Append(calls, 0)) = Total(calls) + 0 /\ Total(calls) \in Int
    BY <1>1, CallAdded
  <2>2. Total(Append(calls, 0)) = Total(calls) /\ Append(calls, 0) \in Seq(Nat)
    BY <1>1, <2>1
  <2> QED BY <1>1, <2>2
<1>6. Numbered' /\ CallsBalance'
  <2>1. Total(calls)' = Total(calls') /\ RecordedBy("own")' = RecordedBy("own")
    BY DEF Total, RecordedBy
  <2> QED BY <1>1, <1>5, <2>1 DEF Numbered, CallsBalance
<1>7. StaysWithin'
  <2>1. Priced' = Priced
    BY DEF Priced
  <2> QED BY <1>1, <1>2, <2>1 DEF StaysWithin, MaxCost
<1> QED BY <1>3, <1>4, <1>5, <1>6, <1>7 DEF Books

LEMMA Keeps ==
  ASSUME NEW x \in Int, NEW d \in Int, NEW b \in Int, NEW p \in Int, x + d + b = p,
         NEW k \in Int, NEW y \in Int, NEW z \in Int, k + y = z
  PROVE  x + (d + y) + (b + k) = p + z
  OBVIOUS

\* A turn of the loop: what is billed waits for the end of the loop, or is dropped.
LEMMA TurnKeepsBooks ==
  ASSUME RunnerTypes, LoopTypes, CallIsWhere, Books, pc = "loop", pc' = "loop", ask' = ask,
         cfg' = cfg, spent' = spent, rows' = rows, calls' = calls, late' = late,
         NEW bill \in Nat, NEW drop \in Nat, NEW kept \in Nat, kept + drop = bill, billed' = billed + kept,
         paid' = Plus(paid, ask.by, ask.thread, bill), dropped' = Plus(dropped, ask.by, ask.thread, drop)
  PROVE  Books' /\ paid' \in Sums /\ dropped' \in Sums
<1> DEFINE me == ask.by
           thread == ask.thread
           By(by, t) == by = me /\ t = thread
<1>1. RowsBalance /\ SpentBalances /\ Numbered /\ CallsBalance /\ StaysWithin
  BY DEF Books
<1>2. ask.by = "own" /\ ask.by \in Runners /\ ask.thread \in Threads /\ billed \in Nat
      /\ spent \in Sums /\ paid \in Sums /\ dropped \in Sums /\ rows \in Seq(RowRecord)
  BY DEF CallIsWhere, InWorktree, RunnerTypes, LoopTypes, AskRecord
<1>3. paid' \in Sums /\ dropped' \in Sums
  BY <1>2, Added
<1>4. \A by \in Runners, t \in Threads :
        /\ Recorded(by, t)' = Recorded(by, t) /\ RecordedBy(by)' = RecordedBy(by)
        /\ IsCharged(by, t)' = IsCharged(by, t) /\ Limited(by, t)' = Limited(by, t)
  BY DEF Recorded, RecordedBy, IsCharged, Limited
<1>5. \A by \in Runners, t \in Threads :
        /\ Pending(by, t) = IF By(by, t) THEN billed ELSE 0
        /\ Pending(by, t)' = IF By(by, t) THEN billed + kept ELSE 0
  BY DEF Pending
<1>6. ASSUME NEW by \in Runners, NEW t \in Threads
      PROVE  /\ paid'[by][t] = IF By(by, t) THEN paid[by][t] + bill ELSE paid[by][t]
             /\ dropped'[by][t] = IF By(by, t) THEN dropped[by][t] + drop ELSE dropped[by][t]
  <2>0. paid \in Sums /\ dropped \in Sums /\ bill \in Nat /\ drop \in Nat
        /\ me \in Runners /\ thread \in Threads /\ paid' = Plus(paid, me, thread, bill)
        /\ dropped' = Plus(dropped, me, thread, drop)
    BY <1>2
  <2> HIDE DEF me, thread
  <2>1. Plus(paid, me, thread, bill)[by][t] = IF By(by, t) THEN paid[by][t] + bill ELSE paid[by][t]
    BY <2>0, AddedAt
  <2>2. Plus(dropped, me, thread, drop)[by][t] = IF By(by, t) THEN dropped[by][t] + drop ELSE dropped[by][t]
    BY <2>0, AddedAt
  <2> HIDE DEF By
  <2> QED BY <2>0, <2>1, <2>2
<1>7. \A by \in Runners, t \in Threads : paid[by][t] \in Nat /\ spent[by][t] \in Nat /\ dropped[by][t] \in Nat
  BY <1>2 DEF Sums
\* For any sum that stays as it is, the balance does too.
<1>8. ASSUME NEW by \in Runners, NEW t \in Threads, NEW x \in Int, x + dropped[by][t] + Pending(by, t) = paid[by][t]
      PROVE  x + dropped'[by][t] + Pending(by, t)' = paid'[by][t]
  <2>1. CASE By(by, t)
    <3>1. Pending(by, t) = billed /\ Pending(by, t)' = billed + kept
          /\ paid'[by][t] = paid[by][t] + bill /\ dropped'[by][t] = dropped[by][t] + drop
      BY <1>5, <1>6, <2>1
    <3>2. x + dropped[by][t] + billed = paid[by][t] /\ billed \in Int /\ dropped[by][t] \in Int /\ paid[by][t] \in Int
      BY <1>2, <1>7, <1>8, <3>1
    <3>3. x + (dropped[by][t] + drop) + (billed + kept) = paid[by][t] + bill
      BY <3>2, Keeps
    <3> HIDE DEF By
    <3> QED BY <3>1, <3>3
  <2>2. CASE ~By(by, t)
    <3>1. Pending(by, t) = 0 /\ Pending(by, t)' = 0 /\ paid'[by][t] = paid[by][t] /\ dropped'[by][t] = dropped[by][t]
      BY <1>5, <1>6, <2>2
    <3> HIDE DEF By
    <3> QED BY <1>2, <1>7, <1>8, <3>1
  <2> QED BY <2>1, <2>2
<1>9. RowsBalance'
  <2> SUFFICES ASSUME NEW by \in Runners, NEW t \in Threads
               PROVE  Recorded(by, t)' + dropped'[by][t] + Pending(by, t)' = paid'[by][t]
    BY DEF RowsBalance
  <2>1. Recorded(by, t) \in Int
    <3>1. Recorded(by, t) = Rec(rows, by, t)
      BY DEF Recorded, Rec
    <3>2. Rec(rows, by, t) \in Int
      BY <1>2, SumIsNumber
    <3> QED BY <3>1, <3>2
  <2>2. Recorded(by, t) + dropped[by][t] + Pending(by, t) = paid[by][t]
    BY <1>1 DEF RowsBalance
  <2>3. Recorded(by, t) + dropped'[by][t] + Pending(by, t)' = paid'[by][t]
    BY <2>1, <2>2, <1>8
  <2> QED BY <2>3, <1>4
<1>10. SpentBalances'
  <2>1. ASSUME NEW by \in Runners, NEW t \in Threads, IsCharged(by, t)
        PROVE  spent[by][t] + dropped'[by][t] + Pending(by, t)' = paid'[by][t]
    <3>1. spent[by][t] \in Int /\ spent[by][t] + dropped[by][t] + Pending(by, t) = paid[by][t]
      BY <1>1, <1>7, <2>1 DEF SpentBalances
    <3> QED BY <3>1, <1>8
  <2>2. ASSUME NEW t \in Threads PROVE dropped'["delegate"][t] = 0
    <3>1. dropped["delegate"][t] = 0 /\ "delegate" \in Runners /\ ~By("delegate", t)
      BY <1>1, <1>2 DEF SpentBalances, Runners
    <3> QED BY <1>6, <3>1
  <2> HIDE DEF By
  <2> QED BY <1>4, <2>1, <2>2 DEF SpentBalances
<1>11. Numbered' /\ CallsBalance' /\ StaysWithin'
  <2>1. Total(calls)' = Total(calls) /\ RecordedBy("own")' = RecordedBy("own") /\ Priced' = Priced
    BY DEF Total, RecordedBy, Priced
  <2> QED BY <1>1, <1>4, <2>1 DEF Numbered, CallsBalance, StaysWithin, MaxCost
<1> QED BY <1>3, <1>9, <1>10, <1>11 DEF Books

-----------------------------------------------------------------------------
(* The tools of a reply, and the messages as the Messages API gets them *)

WorkRecord == [tree : [Files -> Texts], clock : 0..CheckTotal, unclocked : Missed, error : BOOLEAN]
DoneRecord == [tree : [Files -> Texts], clock : 0..CheckTotal, unclocked : Missed, results : Seq(MessageRecord)]

LEMMA NoneIsMissed == NoneMissed \in Missed
<1>1. CheckTimeout \in Nat /\ CheckTimeout * 0 = 0
  BY ToolLoopAssumption
<1> QED BY <1>1 DEF NoneMissed, Missed

\* One more check the clock missed.
LEMMA OneMoreIsMissed ==
  ASSUME NEW u \in Missed, NEW ran \in Nat, ran <= CheckTimeout
  PROVE  [checks |-> u.checks + 1, seconds |-> u.seconds + ran] \in Missed
<1>1. u.checks \in Nat /\ u.seconds \in Nat /\ u.seconds <= CheckTimeout * u.checks
  BY DEF Missed
<1>2. CheckTimeout \in Nat
  BY ToolLoopAssumption
<1>3. CheckTimeout * (u.checks + 1) = CheckTimeout * u.checks + CheckTimeout /\ CheckTimeout * u.checks \in Nat
  BY <1>1, <1>2
<1>4. u.seconds + ran <= CheckTimeout * (u.checks + 1)
  <2> DEFINE c == CheckTimeout * u.checks
             d == CheckTimeout * (u.checks + 1)
  <2>1. c \in Nat /\ d = c + CheckTimeout /\ u.seconds <= c
    BY <1>1, <1>3
  <2> HIDE DEF c, d
  <2>2. u.seconds + ran <= d
    BY <1>1, <1>2, <2>1
  <2> QED BY <2>2 DEF d
<1>5. u.checks + 1 \in Nat /\ u.seconds + ran \in Nat
  BY <1>1
<1> QED BY <1>4, <1>5 DEF Missed

LEMMA CallStaysInTheTree ==
  ASSUME NEW w \in WorkRecord, NEW tool \in ToolCall
  PROVE  Execute(w, tool) \in WorkRecord
<1>1. w.tree \in [Files -> Texts] /\ w.clock \in 0..CheckTotal /\ w.unclocked \in Missed /\ w.error \in BOOLEAN
      /\ w = [tree |-> w.tree, clock |-> w.clock, unclocked |-> w.unclocked, error |-> w.error]
  BY DEF WorkRecord
<1>2. tool.text \in Texts /\ tool.takes \in Nat /\ tool.decodes \in BOOLEAN
  BY DEF ToolCall
<1>3. CheckTotal \in Nat /\ CheckTimeout \in Nat /\ CheckTimeout > 0
  BY ToolLoopAssumption
<1>4. Refused(w) \in WorkRecord /\ [w EXCEPT !.error = FALSE] \in WorkRecord
  BY <1>1 DEF Refused, WorkRecord
<1>5. Wrote(w, tool) \in WorkRecord
  <2> DEFINE t == [w.tree EXCEPT ![tool.file] = tool.text]
  <2>1. t \in [Files -> Texts]
    BY <1>1, <1>2
  <2>2. Wrote(w, tool) = [tree |-> t, clock |-> w.clock, unclocked |-> w.unclocked, error |-> FALSE]
    <3> DEFINE v == [w EXCEPT !.tree = t]
    <3>1. Wrote(w, tool) = [v EXCEPT !.error = FALSE]
      BY DEF Wrote, WorkRecord
    <3> HIDE DEF t
    <3>2. v = [tree |-> t, clock |-> w.clock, unclocked |-> w.unclocked, error |-> w.error]
      BY DEF WorkRecord
    <3> HIDE DEF v
    <3> QED BY <3>1, <3>2
  <2> HIDE DEF t
  <2> QED BY <1>1, <2>1, <2>2 DEF WorkRecord
<1>6. RunCheck(w, tool) \in WorkRecord
  <2> DEFINE remaining == CheckTotal - w.clock
             timeout == Lesser(CheckTimeout, remaining)
             ran == Lesser(tool.takes, timeout)
             raises == ~tool.decodes /\ tool.takes <= timeout
             t == Wrote(w, tool).tree
             c == IF raises THEN w.clock ELSE w.clock + ran
             more == [checks |-> w.unclocked.checks + 1, seconds |-> w.unclocked.seconds + ran]
             u == IF raises THEN more ELSE w.unclocked
             e == raises \/ tool.takes > timeout
  <2>1. CASE ~tool.fits \/ remaining <= 0
    BY <1>4, <2>1 DEF RunCheck
  <2>2. CASE ~(~tool.fits \/ remaining <= 0)
    <3>1. ran \in Nat /\ ran <= CheckTimeout /\ w.clock + ran \in 0..CheckTotal
      BY <1>1, <1>2, <1>3, <2>2 DEF Lesser
    <3>2. RunCheck(w, tool) = [tree |-> t, clock |-> c, unclocked |-> u, error |-> e]
      BY <2>2 DEF RunCheck
    <3>3. t \in [Files -> Texts]
      BY <1>5 DEF WorkRecord
    <3>4. e \in BOOLEAN
      OBVIOUS
    <3>5. c \in 0..CheckTotal
      <4> HIDE DEF ran, raises
      <4> QED BY <1>1, <3>1
    <3>6. more \in Missed
      <4> HIDE DEF ran
      <4> QED BY <1>1, <3>1, OneMoreIsMissed
    <3>7. u \in Missed
      <4> HIDE DEF more, raises
      <4> QED BY <1>1, <3>6
    <3> HIDE DEF c, u, t, e
    <3> QED BY <3>2, <3>3, <3>4, <3>5, <3>7 DEF WorkRecord
  <2> QED BY <2>1, <2>2
<1>7. CASE tool.name = "run_check"
  BY <1>6, <1>7 DEF Execute
<1>8. CASE tool.name # "run_check"
  BY <1>4, <1>5, <1>8 DEF Execute
<1> QED BY <1>7, <1>8

LEMMA CallHasItsResult ==
  ASSUME NEW done \in DoneRecord, NEW tool \in ToolCall
  PROVE  LET next == ExecuteNext(done, tool)
         IN /\ next \in DoneRecord /\ Len(next.results) = Len(done.results) + 1
            /\ \A i \in 1..Len(done.results) : next.results[i] = done.results[i]
            /\ next.results[Len(next.results)].role = "tool" /\ next.results[Len(next.results)].ids = <<tool.id>>
<1> DEFINE next == ExecuteNext(done, tool)
           before == [tree |-> done.tree, clock |-> done.clock, unclocked |-> done.unclocked, error |-> FALSE]
           w == Execute(before, tool)
           m == [role |-> "tool", ids |-> <<tool.id>>, error |-> w.error]
<1>1. done.tree \in [Files -> Texts] /\ done.clock \in 0..CheckTotal /\ done.unclocked \in Missed
      /\ done.results \in Seq(MessageRecord)
  BY DEF DoneRecord
<1>2. before \in WorkRecord
  BY <1>1 DEF WorkRecord
<1>3. w \in WorkRecord
  <2> HIDE DEF before
  <2> QED BY <1>2, CallStaysInTheTree
<1>4. next = [tree |-> w.tree, clock |-> w.clock, unclocked |-> w.unclocked, results |-> Append(done.results, m)]
  BY DEF ExecuteNext
<1>5. tool.id \in Nat
  BY DEF ToolCall
<1> HIDE DEF w, next
<1>6. m \in MessageRecord /\ m.role = "tool" /\ m.ids = <<tool.id>>
  BY <1>3, <1>5 DEF WorkRecord, MessageRecord
<1>7. w.tree \in [Files -> Texts] /\ w.clock \in 0..CheckTotal /\ w.unclocked \in Missed
  BY <1>3 DEF WorkRecord
<1> HIDE DEF m
<1>8. /\ Append(done.results, m) \in Seq(MessageRecord) /\ Len(Append(done.results, m)) = Len(done.results) + 1
      /\ \A i \in 1..Len(done.results) : Append(done.results, m)[i] = done.results[i]
      /\ Append(done.results, m)[Len(done.results) + 1] = m
  BY <1>1, <1>6
<1>9. next \in DoneRecord
  BY <1>4, <1>7, <1>8 DEF DoneRecord
<1> QED BY <1>4, <1>6, <1>8, <1>9 DEF next

LEMMA AllCallsHaveResults ==
  ASSUME tree \in [Files -> Texts], clock \in 0..CheckTotal, unclocked \in Missed, NEW batch \in Batches
  PROVE  /\ ExecuteAll(batch) \in DoneRecord /\ Len(ExecuteAll(batch).results) = Len(batch)
         /\ \A i \in 1..Len(batch) :
              ExecuteAll(batch).results[i].role = "tool" /\ ExecuteAll(batch).results[i].ids = <<batch[i].id>>
<1> DEFINE m == Len(batch)
           first == [tree |-> tree, clock |-> clock, unclocked |-> unclocked, results |-> <<>>]
           step == [i \in 1..m |-> [d \in DoneRecord |-> ExecuteNext(d, batch[i])]]
           Is(g) == g = [i \in 0..m |-> IF i = 0 THEN first ELSE ExecuteNext(g[i - 1], batch[i])]
           done == CHOOSE g : Is(g)
<1>1. batch \in Seq(ToolCall) /\ m \in Nat /\ \A i \in 1..m : batch[i] \in ToolCall
  BY ToolLoopAssumption
<1>2. first \in DoneRecord /\ first.results = <<>>
  BY DEF DoneRecord
<1>3. IsStep(m, DoneRecord, step)
  <2>1. ASSUME NEW i \in 1..m, NEW d \in DoneRecord PROVE ExecuteNext(d, batch[i]) \in DoneRecord
    <3> HIDE DEF m
    <3> QED BY <1>1, CallHasItsResult
  <2> QED BY <2>1 DEF IsStep
<1>4. PICK g : Follows(m, DoneRecord, first, step, g)
  <2> HIDE DEF first, step, m
  <2> QED BY <1>1, <1>2, <1>3, Recursion
<1>5. g \in [0..m -> DoneRecord] /\ g[0] = first /\ \A i \in 1..m : g[i] = step[i][g[i - 1]]
  BY <1>4 DEF Follows
<1>6. Is(g)
  <2>1. ASSUME NEW i \in 0..m
        PROVE  g[i] = IF i = 0 THEN first ELSE ExecuteNext(g[i - 1], batch[i])
    <3>1. CASE i = 0
      BY <1>5, <3>1
    <3>2. CASE i # 0
      <4>1. i \in 1..m /\ i - 1 \in 0..m
        BY <1>1, <3>2
      <4>2. g[i - 1] \in DoneRecord /\ g[i] = step[i][g[i - 1]]
        BY <1>5, <4>1
      <4>3. step[i][g[i - 1]] = ExecuteNext(g[i - 1], batch[i])
        <5> HIDE DEF first, m
        <5> QED BY <4>1, <4>2
      <4> QED BY <3>2, <4>2, <4>3
    <3> QED BY <3>1, <3>2
  <2>2. g = [i \in 0..m |-> g[i]]
    <3> HIDE DEF m, first, step
    <3> QED BY <1>5
  <2>3. [i \in 0..m |-> g[i]] = [i \in 0..m |-> IF i = 0 THEN first ELSE ExecuteNext(g[i - 1], batch[i])]
    BY <2>1, Zenon
  <2> QED BY <2>2, <2>3
<1>7. Is(done)
  <2> HIDE DEF Is
  <2> QED BY <1>6
<1>8. ExecuteAll(batch) = done[m]
  BY Zenon DEF ExecuteAll
<1> HIDE DEF done, first, step
<1>9. done[0] = first /\ \A i \in 1..m : done[i] = ExecuteNext(done[i - 1], batch[i])
  <2>1. \A i \in 0..m : done[i] = IF i = 0 THEN first ELSE ExecuteNext(done[i - 1], batch[i])
    BY <1>7
  <2>2. 0 \in 0..m /\ \A i \in 1..m : i \in 0..m /\ i # 0
    BY <1>1
  <2> QED BY <2>1, <2>2
<1> HIDE DEF Is
<1> DEFINE Good(i) == /\ done[i] \in DoneRecord /\ Len(done[i].results) = i
                      /\ \A j \in 1..i : done[i].results[j].role = "tool" /\ done[i].results[j].ids = <<batch[j].id>>
           S == {i \in 0..m : Good(i)}
<1>10. 0 \in S
  BY <1>1, <1>2, <1>9
<1>11. ASSUME NEW i \in 1..m, i - 1 \in S
       PROVE  i \in S
  <2>1. Good(i - 1) /\ i \in 0..m /\ i \in Int /\ batch[i] \in ToolCall
    BY <1>1, <1>11
  <2> DEFINE d == done[i - 1]
             next == ExecuteNext(d, batch[i])
  <2>2. d \in DoneRecord /\ Len(d.results) = i - 1
    BY <2>1
  <2>3. /\ next \in DoneRecord /\ Len(next.results) = Len(d.results) + 1
        /\ \A j \in 1..Len(d.results) : next.results[j] = d.results[j]
        /\ next.results[Len(next.results)].role = "tool" /\ next.results[Len(next.results)].ids = <<batch[i].id>>
    <3> HIDE DEF d
    <3> QED BY <2>1, <2>2, CallHasItsResult
  <2>4. done[i] = next
    BY <1>9
  <2>5. \A j \in 1..(i - 1) : d.results[j].role = "tool" /\ d.results[j].ids = <<batch[j].id>>
    BY <2>1
  <2> HIDE DEF d, next, m
  <2>6. Len(next.results) = i
    BY <2>1, <2>2, <2>3
  <2>7. ASSUME NEW j \in 1..i
        PROVE  next.results[j].role = "tool" /\ next.results[j].ids = <<batch[j].id>>
    <3>1. CASE j = i
      BY <2>3, <2>6, <3>1
    <3>2. CASE j # i
      <4>1. j \in 1..(i - 1)
        BY <2>1, <3>2
      <4> QED BY <2>2, <2>3, <2>5, <4>1
    <3> QED BY <3>1, <3>2
  <2> QED BY <2>1, <2>3, <2>4, <2>6, <2>7
<1>12. \A i \in 0..m : i \in S
  <2> HIDE DEF S
  <2> QED BY <1>1, <1>10, <1>11, UpTo
<1>13. m \in S
  BY <1>1, <1>12
<1> QED BY <1>8, <1>13

LEMMA MergeIs ==
  ASSUME NEW acc \in Seq(WireRecord), NEW m \in WireRecord
  PROVE  Merge(acc, m) \in Seq(WireRecord)
<1> DEFINE k == Len(acc)
<1>1. CASE acc # <<>> /\ acc[Len(acc)].role = m.role /\ m.role = "user" /\ acc[Len(acc)].blocks /\ m.blocks
  <2> DEFINE tail == acc[k]
             ids == tail.ids \o m.ids
             r == [tail EXCEPT !.ids = ids]
  <2>1. k \in 1..Len(acc) /\ tail \in WireRecord /\ tail.ids \in Seq(Nat) /\ m.ids \in Seq(Nat)
    <3>1. k \in 1..Len(acc)
      BY <1>1
    <3>2. tail \in WireRecord
      BY <3>1
    <3> HIDE DEF tail
    <3> QED BY <3>1, <3>2 DEF WireRecord
  <2>2. ids \in Seq(Nat)
    BY <2>1
  <2>3. Merge(acc, m) = [acc EXCEPT ![k].ids = ids]
    BY <1>1 DEF Merge
  <2> HIDE DEF ids
  <2>4. r \in WireRecord
    BY <2>1, <2>2 DEF WireRecord
  <2>5. Merge(acc, m) = [acc EXCEPT ![k] = r]
    BY <2>1, <2>3
  <2> HIDE DEF r
  <2> QED BY <2>1, <2>4, <2>5
<1>2. CASE ~(acc # <<>> /\ acc[Len(acc)].role = m.role /\ m.role = "user" /\ acc[Len(acc)].blocks /\ m.blocks)
  BY <1>2 DEF Merge
<1> QED BY <1>1, <1>2

LEMMA WireMessageIs ==
  ASSUME NEW m \in MessageRecord
  PROVE  WireMessage(m) \in WireRecord
<1>1. m.role \in {"user", "assistant", "tool"} /\ m.ids \in Seq(Nat)
  BY DEF MessageRecord
<1> QED BY <1>1 DEF WireMessage, WireRecord

LEMMA WireIs ==
  ASSUME NEW ms \in Seq(MessageRecord)
  PROVE  \E g \in [0..Len(ms) -> Seq(WireRecord)] :
           /\ g[0] = <<>> /\ \A i \in 1..Len(ms) : g[i] = Merge(g[i - 1], WireMessage(ms[i]))
           /\ ToAnthropic(ms) = g[Len(ms)]
<1> DEFINE m == Len(ms)
           V == Seq(WireRecord)
           step == [i \in 1..m |-> [w \in V |-> Merge(w, WireMessage(ms[i]))]]
           Is(g) == g = [i \in 0..m |-> IF i = 0 THEN <<>> ELSE Merge(g[i - 1], WireMessage(ms[i]))]
           wire == CHOOSE g : Is(g)
<1>1. m \in Nat /\ <<>> \in V /\ \A i \in 1..m : ms[i] \in MessageRecord
  OBVIOUS
<1>2. IsStep(m, V, step)
  <2>1. ASSUME NEW i \in 1..m, NEW w \in V PROVE Merge(w, WireMessage(ms[i])) \in V
    <3>1. WireMessage(ms[i]) \in WireRecord
      BY <1>1, WireMessageIs
    <3> QED BY <3>1, MergeIs
  <2> HIDE DEF V
  <2> QED BY <2>1 DEF IsStep
<1>3. PICK g : Follows(m, V, <<>>, step, g)
  <2> HIDE DEF step, m, V
  <2> QED BY <1>1, <1>2, Recursion
<1>4. g \in [0..m -> V] /\ g[0] = <<>> /\ \A i \in 1..m : g[i] = step[i][g[i - 1]]
  BY <1>3 DEF Follows
<1> HIDE DEF V
<1>5. \A i \in 1..m : g[i] = Merge(g[i - 1], WireMessage(ms[i]))
  <2> SUFFICES ASSUME NEW i \in 1..m PROVE g[i] = Merge(g[i - 1], WireMessage(ms[i]))
    OBVIOUS
  <2>1. i - 1 \in 0..m
    BY <1>1
  <2>2. g[i - 1] \in V /\ g[i] = step[i][g[i - 1]]
    BY <1>4, <2>1
  <2> HIDE DEF m
  <2> QED BY <2>2
<1> HIDE DEF step
<1>6. Is(g)
  <2>1. ASSUME NEW i \in 0..m
        PROVE  g[i] = IF i = 0 THEN <<>> ELSE Merge(g[i - 1], WireMessage(ms[i]))
    <3>1. i # 0 => i \in 1..m
      BY <1>1
    <3> QED BY <1>4, <1>5, <3>1
  <2>2. g = [i \in 0..m |-> g[i]]
    <3> HIDE DEF m
    <3> QED BY <1>4
  <2>3. [i \in 0..m |-> g[i]] = [i \in 0..m |-> IF i = 0 THEN <<>> ELSE Merge(g[i - 1], WireMessage(ms[i]))]
    BY <2>1, Zenon
  <2> QED BY <2>2, <2>3
<1>7. Is(wire)
  <2> HIDE DEF Is
  <2> QED BY <1>6
<1>8. ToAnthropic(ms) = wire[m]
  BY Zenon DEF ToAnthropic
<1> HIDE DEF wire
<1>9. DOMAIN wire = 0..m /\ wire = [i \in DOMAIN wire |-> wire[i]] /\ wire[0] = <<>>
      /\ \A i \in 1..m : wire[i] = Merge(wire[i - 1], WireMessage(ms[i]))
  <2>1. wire = [i \in 0..m |-> IF i = 0 THEN <<>> ELSE Merge(wire[i - 1], WireMessage(ms[i]))]
    BY <1>7
  <2>2. 0 \in 0..m /\ \A i \in 1..m : i \in 0..m /\ i # 0
    BY <1>1
  <2> HIDE DEF Is, m
  <2>3. DOMAIN wire = 0..m /\ \A i \in 0..m : wire[i] = IF i = 0 THEN <<>> ELSE Merge(wire[i - 1], WireMessage(ms[i]))
    BY <2>1, Zenon
  <2> QED BY <2>1, <2>2, <2>3
<1> HIDE DEF Is
<1>10. \A i \in 0..m : wire[i] \in V
  <2> DEFINE S == {i \in 0..m : wire[i] \in V}
  <2>1. 0 \in S
    BY <1>1, <1>9
  <2>2. ASSUME NEW i \in 1..m, i - 1 \in S PROVE i \in S
    <3>1. WireMessage(ms[i]) \in WireRecord
      BY <1>1, WireMessageIs
    <3>2. Merge(wire[i - 1], WireMessage(ms[i])) \in V
      BY <2>2, <3>1, MergeIs DEF V
    <3> QED BY <1>1, <1>9, <3>2
  <2> HIDE DEF S
  <2>3. \A i \in 0..m : i \in S
    BY <1>1, <2>1, <2>2, UpTo
  <2> QED BY <2>3 DEF S
<1>11. wire \in [0..m -> V]
  BY <1>9, <1>10
<1> QED BY <1>8, <1>9, <1>11 DEF V

\* The wire of a list and of a list that starts with it.
LEMMA WireGrows ==
  ASSUME NEW ms \in Seq(MessageRecord), NEW more \in Seq(MessageRecord), Len(ms) <= Len(more),
         \A i \in 1..Len(ms) : more[i] = ms[i]
  PROVE  \E h \in [0..Len(more) -> Seq(WireRecord)] :
           /\ h[Len(ms)] = ToAnthropic(ms) /\ h[Len(more)] = ToAnthropic(more)
           /\ \A i \in 1..Len(more) : h[i] = Merge(h[i - 1], WireMessage(more[i]))
<1>1. PICK g \in [0..Len(ms) -> Seq(WireRecord)] :
           /\ g[0] = <<>> /\ \A i \in 1..Len(ms) : g[i] = Merge(g[i - 1], WireMessage(ms[i]))
           /\ ToAnthropic(ms) = g[Len(ms)]
  BY WireIs
<1>2. PICK h \in [0..Len(more) -> Seq(WireRecord)] :
           /\ h[0] = <<>> /\ \A i \in 1..Len(more) : h[i] = Merge(h[i - 1], WireMessage(more[i]))
           /\ ToAnthropic(more) = h[Len(more)]
  BY WireIs
<1>3. Len(ms) \in Nat /\ Len(more) \in Nat
  OBVIOUS
<1> DEFINE S == {i \in 0..Len(ms) : g[i] = h[i]}
<1>4. 0 \in S
  BY <1>1, <1>2, <1>3
<1>5. ASSUME NEW i \in 1..Len(ms), i - 1 \in S PROVE i \in S
  <2>1. i \in 1..Len(more) /\ i \in 0..Len(ms) /\ g[i - 1] = h[i - 1]
    BY <1>3, <1>5
  <2> QED BY <1>1, <1>2, <2>1
<1>6. \A i \in 0..Len(ms) : i \in S
  <2> HIDE DEF S
  <2> QED BY <1>3, <1>4, <1>5, UpTo
<1>7. g[Len(ms)] = h[Len(ms)]
  BY <1>3, <1>6
<1> QED BY <1>1, <1>2, <1>7

\* The messages after a turn of the loop: the reply's calls, then their results.
IsTurn(ms, ids, results, more) ==
  /\ \A i \in 1..Len(results) : results[i].role = "tool" /\ results[i].ids = <<ids[i]>>
  /\ more = ms \o <<[role |-> "assistant", ids |-> ids, error |-> FALSE]>> \o results

LEMMA TurnOnTheWire ==
  ASSUME NEW ms \in Seq(MessageRecord), TakesTurns(ToAnthropic(ms)),
         NEW m \in Nat \ {0}, NEW ids \in [1..m -> Nat],
         NEW results \in Seq(MessageRecord), Len(results) = m, NEW more, IsTurn(ms, ids, results, more)
  PROVE  more \in Seq(MessageRecord) /\ TakesTurns(ToAnthropic(more)) /\ ToAnthropic(more) \in Seq(WireRecord)
<1> DEFINE l == Len(ms)
           a == [role |-> "assistant", ids |-> ids, error |-> FALSE]
           wa == [role |-> "assistant", ids |-> ids, blocks |-> FALSE]
           wire == ToAnthropic(ms)
           k == Len(wire)
<1>1. l \in Nat /\ m \in Nat /\ m >= 1 /\ ids \in Seq(Nat) /\ Len(ids) = m
      /\ \A i \in 1..m : ids[i] \in Nat
  OBVIOUS
<1>2. a \in MessageRecord
  BY <1>1 DEF MessageRecord
<1>3. /\ more \in Seq(MessageRecord) /\ Len(more) = l + 1 + m
      /\ (\A i \in 1..l : more[i] = ms[i]) /\ more[l + 1] = a
      /\ \A i \in 1..m : more[l + 1 + i] = results[i]
  <2>1. more = ms \o <<a>> \o results
    BY DEF IsTurn
  <2> HIDE DEF a
  <2> DEFINE most == ms \o <<a>>
  <2>2. most \in Seq(MessageRecord) /\ Len(most) = l + 1 /\ most[l + 1] = a /\ \A i \in 1..l : most[i] = ms[i]
    BY <1>1, <1>2
  <2> HIDE DEF most, l
  <2>3. more = most \o results
    BY <2>1 DEF most
  <2>4. Len(results) = m /\ results \in Seq(MessageRecord) /\ l \in Nat /\ m \in Nat
    BY <1>1
  <2>5. more \in Seq(MessageRecord) /\ Len(more) = l + 1 + m
    <3>1. most \in Seq(MessageRecord)
      BY <2>2
    <3>2. most \o results \in Seq(MessageRecord)
      BY <2>4, <3>1
    <3>3. Len(most \o results) = Len(most) + Len(results)
      <4>1. \A s, t \in Seq(MessageRecord) : Len(s \o t) = Len(s) + Len(t)
        OBVIOUS
      <4> QED BY <2>4, <3>1, <4>1
    <3> QED BY <2>2, <2>3, <2>4, <3>2, <3>3
  <2>6. ASSUME NEW i \in 1..(l + 1) PROVE more[i] = most[i]
    BY <2>2, <2>3, <2>4
  <2>7. ASSUME NEW i \in 1..m PROVE more[l + 1 + i] = results[i]
    BY <2>2, <2>3, <2>4
  <2>8. l + 1 \in 1..(l + 1) /\ \A i \in 1..l : i \in 1..(l + 1)
    BY <2>4
  <2> QED BY <2>2, <2>5, <2>6, <2>7, <2>8
<1>4. PICK h \in [0..Len(more) -> Seq(WireRecord)] :
         /\ h[l] = wire /\ h[Len(more)] = ToAnthropic(more)
         /\ \A i \in 1..Len(more) : h[i] = Merge(h[i - 1], WireMessage(more[i]))
  <2>1. l <= Len(more) /\ \A i \in 1..Len(ms) : more[i] = ms[i]
    BY <1>1, <1>3
  <2> QED BY <1>3, <2>1, WireGrows
<1>5. wire \in Seq(WireRecord) /\ k \in Nat /\ k % 2 = 1 /\ k # 0 /\ wire[k].role = "user" /\ wire # <<>>
  <2>1. wire \in Seq(WireRecord)
    BY <1>1, <1>3, <1>4
  <2>2. k \in Nat
    BY <2>1
  <2>3. k % 2 = 1
    BY DEF TakesTurns
  <2>4. k \in 1..k
    <3> HIDE DEF k
    <3> QED BY <2>2, <2>3
  <2>5. wire[k].role = (IF k % 2 = 1 THEN "user" ELSE "assistant")
    BY <2>4 DEF TakesTurns
  <2> HIDE DEF wire
  <2> QED BY <2>1, <2>2, <2>3, <2>4, <2>5
<1>6. WireMessage(a) = wa /\ wa \in WireRecord
  BY <1>1 DEF WireMessage, WireRecord
<1>7. h[l + 1] = Append(wire, wa)
  <2>1. h[l + 1] = Merge(wire, wa)
    <3>1. l + 1 \in 1..Len(more) /\ (l + 1) - 1 = l
      BY <1>1, <1>3
    <3> HIDE DEF wa, a, l, wire
    <3> QED BY <1>3, <1>4, <1>6, <3>1
  <2>2. wa.role # wire[Len(wire)].role
    BY <1>5
  <2> HIDE DEF wire
  <2> QED BY <2>1, <2>2 DEF Merge
\* The wire once the first j results are in it.
<1> DEFINE Holds(w, j) ==
             /\ w \in Seq(WireRecord) /\ Len(w) = k + 2
             /\ (\A i \in 1..k : w[i] = wire[i]) /\ w[k + 1] = wa
             /\ w[k + 2].role = "user" /\ w[k + 2].blocks /\ w[k + 2].ids = [i \in 1..j |-> ids[i]]
           user(j) == [role |-> "user", ids |-> <<ids[j]>>, blocks |-> TRUE]
<1>8. \A j \in 1..m : WireMessage(more[l + 1 + j]) = user(j) /\ user(j) \in WireRecord /\ ids[j] \in Nat
  <2> SUFFICES ASSUME NEW j \in 1..m
               PROVE  WireMessage(more[l + 1 + j]) = user(j) /\ user(j) \in WireRecord /\ ids[j] \in Nat
    OBVIOUS
  <2>1. more[l + 1 + j].role = "tool" /\ more[l + 1 + j].ids = <<ids[j]>> /\ ids[j] \in Nat
    <3>1. more[l + 1 + j] = results[j]
      BY <1>3
    <3>2. results[j].role = "tool" /\ results[j].ids = <<ids[j]>>
      BY DEF IsTurn
    <3> QED BY <1>1, <3>1, <3>2
  <2>2. <<ids[j]>> \in Seq(Nat)
    BY <2>1
  <2>3. user(j) \in WireRecord
    <3> DEFINE x == <<ids[j]>>
    <3>1. [role |-> "user", ids |-> x, blocks |-> TRUE] \in WireRecord
      <4>1. x \in Seq(Nat)
        BY <2>2
      <4> HIDE DEF x
      <4> QED BY <4>1 DEF WireRecord
    <3> QED BY <3>1
  <2>4. WireMessage(more[l + 1 + j]) = user(j)
    <3> DEFINE r == more[l + 1 + j]
    <3>1. WireMessage(r) = [role |-> "user", ids |-> r.ids, blocks |-> TRUE]
      <4>1. r.role = "tool"
        BY <2>1
      <4> HIDE DEF r
      <4> QED BY <4>1 DEF WireMessage
    <3> HIDE DEF r
    <3>2. r.ids = <<ids[j]>>
      BY <2>1 DEF r
    <3> QED BY <3>1, <3>2 DEF r
  <2> HIDE DEF user
  <2> QED BY <2>1, <2>3, <2>4
<1>9. \A j \in 1..m : h[l + 1 + j] = Merge(h[l + j], user(j))
  <2> SUFFICES ASSUME NEW j \in 1..m PROVE h[l + 1 + j] = Merge(h[l + j], user(j))
    OBVIOUS
  <2>1. l + 1 + j \in 1..Len(more) /\ (l + 1 + j) - 1 = l + j
    BY <1>1, <1>3
  <2> HIDE DEF user, l, wire
  <2> QED BY <1>4, <1>8, <2>1
<1> DEFINE S == {j \in 0..(m - 1) : Holds(h[l + 2 + j], j + 1)}
<1>10. 0 \in S
  <2>1. 1 \in 1..m /\ l + 1 + 1 = l + 2
    BY <1>1
  <2>2. h[l + 2] = Merge(Append(wire, wa), user(1)) /\ user(1) \in WireRecord
    <3> HIDE DEF user, wire, wa, l
    <3>1. h[l + 1 + 1] = Merge(h[l + 1], user(1)) /\ user(1) \in WireRecord
      BY <1>8, <1>9, <2>1
    <3> QED BY <1>7, <2>1, <3>1
  <2> DEFINE w1 == Append(wire, wa)
  <2>3. w1 \in Seq(WireRecord) /\ Len(w1) = k + 1 /\ w1[k + 1] = wa /\ \A i \in 1..k : w1[i] = wire[i]
    <3> HIDE DEF wa, wire
    <3>1. wire \in Seq(WireRecord) /\ wa \in WireRecord
      BY <1>5, <1>6
    <3> QED BY <3>1
  <2>4. w1[Len(w1)].role # user(1).role
    BY <2>3
  <2>5. Merge(w1, user(1)) = Append(w1, user(1))
    <3> HIDE DEF w1, user
    <3> QED BY <2>4 DEF Merge
  <2>6. /\ Append(w1, user(1)) \in Seq(WireRecord) /\ Len(Append(w1, user(1))) = k + 2
        /\ Append(w1, user(1))[k + 1] = wa /\ Append(w1, user(1))[k + 2] = user(1)
        /\ \A i \in 1..k : Append(w1, user(1))[i] = wire[i]
    <3> HIDE DEF w1, user, wire, wa
    <3> QED BY <1>5, <2>2, <2>3
  <2>7. user(1).role = "user" /\ user(1).blocks /\ user(1).ids = [i \in 1..1 |-> ids[i]]
    <3>1. <<ids[1]>> = [i \in 1..1 |-> ids[i]]
      OBVIOUS
    <3> QED BY <3>1
  <2>8. Holds(h[l + 2], 1)
    <3> HIDE DEF user, wire, wa, w1
    <3>1. h[l + 2] = Append(w1, user(1))
      BY <2>2, <2>5 DEF w1
    <3> QED BY <2>6, <2>7, <3>1
  <2>9. l + 2 + 0 = l + 2 /\ 0 + 1 = 1 /\ 0 \in 0..(m - 1)
    BY <1>1, <2>1
  <2> HIDE DEF Holds, l
  <2> QED BY <2>8, <2>9
<1>11. ASSUME NEW j \in 1..(m - 1), j - 1 \in S
       PROVE  j \in S
  <2> DEFINE w == h[l + 1 + j]
             u == user(j + 1)
             so == [i \in 1..j |-> ids[i]]
  <2>1. j \in Nat /\ j # 0 /\ j + 1 \in 1..m /\ j \in 0..(m - 1)
        /\ l + 2 + (j - 1) = l + 1 + j /\ (j - 1) + 1 = j /\ l + 1 + (j + 1) = l + 2 + j /\ l + (j + 1) = l + 1 + j
    <3> HIDE DEF l
    <3> QED BY <1>1
  <2>2. Holds(w, j)
    <3> HIDE DEF Holds
    <3>1. Holds(h[l + 2 + (j - 1)], (j - 1) + 1)
      BY <1>11
    <3> QED BY <2>1, <3>1
  <2>3. h[l + 2 + j] = Merge(w, u) /\ u \in WireRecord
    <3>1. h[l + 1 + (j + 1)] = Merge(h[l + (j + 1)], user(j + 1)) /\ user(j + 1) \in WireRecord
      <4> HIDE DEF user
      <4> QED BY <1>8, <1>9, <2>1
    <3> HIDE DEF user, l
    <3> QED BY <2>1, <3>1
  <2> DEFINE before == w[k + 2]
             rids == so \o <<ids[j + 1]>>
             r == [before EXCEPT !.ids = rids]
  <2>4. w \in Seq(WireRecord) /\ Len(w) = k + 2 /\ before.role = "user" /\ before.blocks /\ before.ids = so
        /\ before \in WireRecord
    <3>1. k + 2 \in 1..(k + 2)
      BY <1>5
    <3> HIDE DEF w
    <3> QED BY <2>2, <3>1
  <2>5. Merge(w, u) = [w EXCEPT ![k + 2] = r]
    <3>1. u.role = "user" /\ u.blocks /\ u.ids = <<ids[j + 1]>>
      OBVIOUS
    <3> HIDE DEF w, so, u
    <3>2. w # <<>> /\ w[Len(w)].role = u.role /\ u.role = "user" /\ w[Len(w)].blocks /\ u.blocks
      BY <1>5, <2>4, <3>1
    <3>3. Merge(w, u) = [w EXCEPT ![k + 2].ids = @ \o u.ids]
      BY <2>4, <3>2 DEF Merge
    <3>4. r = [w[k + 2] EXCEPT !.ids = w[k + 2].ids \o u.ids]
      BY <2>4, <3>1
    <3> HIDE DEF r
    <3> QED BY <3>3, <3>4
  <2>6. rids = [i \in 1..(j + 1) |-> ids[i]] /\ rids \in Seq(Nat)
    <3>1. so \in Seq(Nat) /\ Len(so) = j /\ \A i \in 1..j : so[i] = ids[i]
      BY <1>1, <2>1
    <3> HIDE DEF so
    <3>2. ids[j + 1] \in Nat
      BY <1>1, <2>1
    <3> DEFINE q == [i \in 1..(j + 1) |-> ids[i]]
    <3>3. rids \in Seq(Nat) /\ Len(rids) = j + 1
      BY <2>1, <3>1, <3>2
    <3>4. ASSUME NEW i \in 1..(j + 1) PROVE rids[i] = ids[i]
      <4>1. i \in 1..j \/ i = j + 1
        BY <2>1
      <4> QED BY <2>1, <3>1, <3>2, <4>1
    <3>5. q \in Seq(Nat) /\ Len(q) = j + 1 /\ \A i \in 1..(j + 1) : q[i] = ids[i]
      BY <1>1, <2>1
    <3> HIDE DEF rids, q
    <3>6. rids = q
      BY <2>1, <3>3, <3>4, <3>5
    <3> QED BY <3>3, <3>6 DEF q
  <2>7. r \in WireRecord /\ r.role = "user" /\ r.blocks /\ r.ids = rids
    <3> HIDE DEF rids, before
    <3> QED BY <2>4, <2>6 DEF WireRecord
  <2>8. Holds(h[l + 2 + j], j + 1)
    <3> DEFINE v == [w EXCEPT ![k + 2] = r]
    <3>1. w \in Seq(WireRecord) /\ Len(w) = k + 2 /\ (\A i \in 1..k : w[i] = wire[i]) /\ w[k + 1] = wa /\ k \in Nat
      BY <1>5, <2>2
    <3>2. v \in Seq(WireRecord) /\ Len(v) = k + 2 /\ (\A i \in 1..k : v[i] = wire[i]) /\ v[k + 1] = wa /\ v[k + 2] = r
      <4> HIDE DEF w, r, wire, wa, k
      <4>1. r \in WireRecord /\ k + 2 \in 1..Len(w) /\ k + 1 # k + 2 /\ k + 1 \in 1..Len(w)
            /\ \A i \in 1..k : i \in 1..Len(w) /\ i # k + 2
        BY <2>7, <3>1
      <4>2. v \in Seq(WireRecord) /\ Len(v) = Len(w) /\ v[k + 2] = r
        BY <3>1, <4>1
      <4>3. \A i \in 1..Len(w) : i # k + 2 => v[i] = w[i]
        BY <3>1, <4>1
      <4> HIDE DEF v
      <4> QED BY <3>1, <4>1, <4>2, <4>3
    <3>3. h[l + 2 + j] = v
      BY <2>3, <2>5
    <3> HIDE DEF v, r, w, wire, wa, k
    <3> QED BY <2>6, <2>7, <3>2, <3>3
  <2> HIDE DEF Holds
  <2> QED BY <2>1, <2>8
<1>12. \A j \in 0..(m - 1) : j \in S
  <2>1. m - 1 \in Nat
    OBVIOUS
  <2> HIDE DEF S
  <2> QED BY <1>10, <1>11, <2>1, UpTo
<1>13. Holds(ToAnthropic(more), m)
  <2>1. m - 1 \in 0..(m - 1) /\ l + 2 + (m - 1) = Len(more) /\ (m - 1) + 1 = m
    <3> HIDE DEF l, a
    <3> QED BY <1>1, <1>3
  <2>2. Holds(h[l + 2 + (m - 1)], (m - 1) + 1)
    <3> HIDE DEF Holds
    <3> QED BY <1>12, <2>1
  <2> HIDE DEF Holds
  <2> QED BY <1>4, <2>1, <2>2
<1> DEFINE w == ToAnthropic(more)
<1>14. TakesTurns(w)
  <2>1. /\ w \in Seq(WireRecord) /\ Len(w) = k + 2 /\ (\A i \in 1..k : w[i] = wire[i])
        /\ w[k + 1].role = "assistant" /\ w[k + 1].ids = ids
        /\ w[k + 2].role = "user" /\ w[k + 2].ids = [i \in 1..m |-> ids[i]]
    <3>1. Holds(w, m)
      BY <1>13
    <3>2. w[k + 1] = wa /\ w[k + 2].role = "user" /\ w[k + 2].ids = [i \in 1..m |-> ids[i]]
          /\ w \in Seq(WireRecord) /\ Len(w) = k + 2 /\ (\A i \in 1..k : w[i] = wire[i])
      <4> HIDE DEF w, wire, k, wa
      <4> QED BY <3>1
    <3>3. wa.role = "assistant" /\ wa.ids = ids
      OBVIOUS
    <3> HIDE DEF w, wire, k, wa
    <3> QED BY <3>2, <3>3
  <2>2. [i \in 1..m |-> ids[i]] = ids
    OBVIOUS
  <2>3. /\ (\A i \in 1..k : wire[i].role = (IF i % 2 = 1 THEN "user" ELSE "assistant"))
        /\ \A i \in 1..k : wire[i].role = "assistant" => wire[i + 1].ids = wire[i].ids
    BY DEF TakesTurns
  <2> HIDE DEF w, wire, k
  <2>4. (k + 2) % 2 = 1 /\ (k + 1) % 2 = 0
    <3>1. k \in Nat /\ k % 2 = 1
      BY <1>5
    <3> QED BY <3>1
  <2>5. ASSUME NEW i \in 1..(k + 2) PROVE w[i].role = (IF i % 2 = 1 THEN "user" ELSE "assistant")
    <3>1. i \in 1..k \/ i = k + 1 \/ i = k + 2
      BY <1>5
    <3>2. CASE i \in 1..k
      BY <2>1, <2>3, <3>2
    <3>3. CASE i = k + 1
      BY <2>1, <2>4, <3>3
    <3>4. CASE i = k + 2
      BY <2>1, <2>4, <3>4
    <3> QED BY <3>1, <3>2, <3>3, <3>4
  <2>6. ASSUME NEW i \in 1..(k + 2), w[i].role = "assistant" PROVE w[i + 1].ids = w[i].ids
    <3>1. CASE i \in 1..k
      <4>1. wire[i].role = "assistant" /\ wire[i + 1].ids = wire[i].ids
        BY <2>1, <2>3, <2>6, <3>1
      <4>2. i # k
        BY <1>5, <4>1 DEF k
      <4>3. i + 1 \in 1..k
        BY <1>5, <3>1, <4>2
      <4> QED BY <2>1, <3>1, <4>1, <4>3
    <3>2. CASE i = k + 1
      <4>1. i + 1 = k + 2
        BY <1>5, <3>2
      <4> QED BY <2>1, <2>2, <3>2, <4>1
    <3>3. CASE i = k + 2
      BY <2>1, <2>6, <3>3
    <3>4. i \in 1..k \/ i = k + 1 \/ i = k + 2
      BY <1>5
    <3> QED BY <3>1, <3>2, <3>3, <3>4
  <2> QED BY <2>1, <2>4, <2>5, <2>6 DEF TakesTurns
<1>15. ToAnthropic(more) \in Seq(WireRecord)
  BY <1>13
<1> QED BY <1>3, <1>14, <1>15

-----------------------------------------------------------------------------
(* Every step keeps the invariant *)

\* The call in its parts.
LEMMA TheCall ==
  ASSUME RunnerTypes, CallIsWhere
  PROVE  /\ ask.by \in Runners /\ ask.thread \in Threads /\ ask.budget \in {NoBudget, Budget}
         /\ spent[ask.by][ask.thread] \in Nat /\ late[ask.by][ask.thread] \in Nat
         /\ cfg.kind \in {"anthropic", "openai"} /\ cfg.budget \in {NoBudget, Budget} /\ cfg.price \in {"none", "input", "full"}
         /\ (Messages <=> cfg.kind = "anthropic" \/ ask.by = "delegate")
         /\ (Messages <=> ~Endpoint) /\ (Endpoint => ask.by = "own" /\ cfg.kind = "openai")
         /\ (ask.by = "own" /\ cfg.kind = "openai" => Endpoint)
         /\ (ask.by = "delegate" => cfg.kind = "openai")
         /\ ask.budget = (IF ask.thread = NoThread THEN NoBudget ELSE Budget)
         /\ (IsCharged(ask.by, ask.thread) <=> IF Messages THEN ask.thread # NoThread ELSE cfg.budget # NoBudget)
         /\ (Limited(ask.by, ask.thread) <=> ask.thread # NoThread /\ (Messages \/ cfg.budget # NoBudget))
<1>1. ask \in AskRecord /\ spent \in Sums /\ late \in Sums /\ cfg.kind \in {"anthropic", "openai"} /\ cfg.budget \in {NoBudget, Budget}
      /\ cfg.price \in {"none", "input", "full"} /\ (cfg.kind = "anthropic" => cfg.budget = NoBudget)
  BY DEF RunnerTypes
<1>2. ask.by \in Runners /\ ask.thread \in Threads /\ ask.budget \in {NoBudget, Budget}
  BY <1>1 DEF AskRecord
<1>3. spent[ask.by][ask.thread] \in Nat /\ late[ask.by][ask.thread] \in Nat
  BY <1>1, <1>2 DEF Sums
<1>4. (ask.by = "delegate" => cfg.kind = "openai") /\ ask.budget = IF ask.thread = NoThread THEN NoBudget ELSE Budget
  BY DEF CallIsWhere
<1> QED BY <1>1, <1>2, <1>3, <1>4 DEF Messages, Endpoint, IsCharged, Limited, Runners

LEMMA LeavesTheLoop ==
  ASSUME LoopTypes, WireInv, UNCHANGED loopVars, pc' # "loop"
  PROVE  LoopTypes' /\ PatchIsTheTree' /\ WireInv' /\ LoopIsLimited'
<1>1. LoopTypes' /\ messages' = messages
  BY DEF LoopTypes, loopVars
<1> QED BY <1>1 DEF PatchIsTheTree, WireInv, LoopIsLimited

LEMMA ACallEnds ==
  ASSUME RunnerTypes, cfg' = cfg, NEW what \in Outs, Finish(what)
  PROVE  pc' = "idle" /\ out' \in Outs /\ ask' \in AskRecord /\ CallIsWhere'
<1>1. ask' \in AskRecord /\ ask'.budget = NoBudget /\ ask'.thread = NoThread /\ ask'.by = "own"
  BY BudgetIsNumber DEF Finish, NoAsk, AskRecord, Runners
<1> QED BY <1>1 DEF Finish, CallIsWhere

\* A step with the call over or tried again, and the money told of.
LEMMA SettlesKeeps ==
  ASSUME ApiInv, NEW bill \in Nat, NEW charge \in Nat, NEW over \in Nat, NEW drop \in Nat, NEW rec \in Nat, NEW ok \in BOOLEAN,
         Settles(bill, charge, over, drop, rec, ok), UNCHANGED loopVars, n' = n, real' = real,
         asked' \in Int, asked' <= MaxTokens, pc' \in {"idle", "retry"}, out' \in Outs, ask' \in AskRecord, CallIsWhere'
  PROVE  ApiInv'
<1>1. RunnerTypes /\ LoopTypes /\ CallIsWhere /\ Books /\ WireInv
  BY DEF ApiInv, MoneyInv
<1>2. /\ spent' \in Sums /\ paid' \in Sums /\ dropped' \in Sums /\ late' \in Sums
      /\ rows' \in Seq(RowRecord) /\ calls' \in Seq(Nat) /\ Books' /\ NoAnswerPastBudget' /\ LoopIsLimited'
  BY <1>1, BooksAfter
<1>3. LoopTypes' /\ PatchIsTheTree' /\ WireInv'
  BY <1>1, LeavesTheLoop
<1>4. RunnerTypes'
  <2>1. cfg' = cfg
    BY DEF Settles
  <2> QED BY <1>1, <1>2, <2>1 DEF RunnerTypes, Outs
<1> QED BY <1>2, <1>3, <1>4 DEF ApiInv, MoneyInv

\* A step that moves no money and is not in the loop.
LEMMA AsideKeeps ==
  ASSUME ApiInv, UNCHANGED <<loopVars, cfg, spent, rows, paid, dropped, late, real>>, pc # "loop",
         n' \in 0..MaxCalls, asked' \in Int, asked' <= MaxTokens, calls' = calls \/ calls' = Append(calls, 0),
         pc' \in {"idle", "asked"}, out' \in Outs, pc' = "idle" => out' # "answer",
         ask' \in AskRecord, CallIsWhere'
  PROVE  ApiInv'
<1>1. RunnerTypes /\ LoopTypes /\ CallIsWhere /\ Books /\ WireInv
  BY DEF ApiInv, MoneyInv
<1>2. LoopTypes' /\ PatchIsTheTree' /\ WireInv' /\ LoopIsLimited'
  BY <1>1, LeavesTheLoop
<1>3. \A by \in Runners, t \in Threads : Pending(by, t)' = Pending(by, t)
  BY DEF Pending
<1>4. cfg' = cfg /\ spent' = spent /\ rows' = rows /\ paid' = paid /\ dropped' = dropped /\ late' = late /\ real' = real
  OBVIOUS
<1>5. Books' /\ calls' \in Seq(Nat)
  BY <1>1, <1>3, <1>4, AsideKeepsBooks
<1>6. RunnerTypes'
  BY <1>1, <1>4, <1>5 DEF RunnerTypes, Outs
<1>7. NoAnswerPastBudget'
  BY DEF NoAnswerPastBudget
<1> QED BY <1>2, <1>5, <1>6, <1>7 DEF ApiInv, MoneyInv

LEMMA AskKeeps ==
  ASSUME ApiInv, Ask
  PROVE  ApiInv'
<1>1. RunnerTypes /\ pc = "idle" /\ n < MaxCalls /\ n' = n + 1 /\ pc' = "asked" /\ out' = "none"
      /\ UNCHANGED <<loopVars, cfg, spent, calls, rows, paid, dropped, late, real, asked>>
  BY DEF ApiInv, MoneyInv, Ask
<1>2. n' \in 0..MaxCalls /\ asked' \in Int /\ asked' <= MaxTokens
  BY <1>1, ApiRunnerAssumption DEF RunnerTypes
<1>3. PICK build, schema \in BOOLEAN, t \in Threads, by \in Runners :
        /\ by = "delegate" => cfg.kind = "openai"
        /\ ask' = [build |-> build, thread |-> t, by |-> by, schema |-> schema,
                   budget |-> IF t = NoThread THEN NoBudget ELSE Budget]
  BY Zenon DEF Ask
<1>4. ask' \in AskRecord /\ ask'.thread = t /\ ask'.by = by /\ ask'.budget = IF t = NoThread THEN NoBudget ELSE Budget
  BY <1>3 DEF AskRecord
<1>5. CallIsWhere'
  BY <1>1, <1>3, <1>4 DEF CallIsWhere
<1>6. UNCHANGED <<loopVars, cfg, spent, rows, paid, dropped, late, real>> /\ calls' = calls
  BY <1>1
<1> QED BY <1>1, <1>2, <1>4, <1>5, <1>6, AsideKeeps DEF Outs

LEMMA MaxTokensAreBounded ==
  ASSUME RunnerTypes, CallIsWhere
  PROVE  /\ MaxTokensOfMessages \in Int /\ MaxTokensOfMessages <= MaxTokens
         /\ (Endpoint => MaxTokensOfPost \in Int /\ MaxTokensOfPost <= MaxTokens)
         /\ (cfg.budget # NoBudget => Left \in Int)
<1>1. SpentBefore \in Nat
  BY TheCall DEF SpentBefore
<1>2. cfg.budget # NoBudget => Left \in Int
  BY <1>1, TheCall, BudgetIsNumber DEF Left
<1>3. MaxTokensOfMessages \in Int /\ MaxTokensOfMessages <= MaxTokens
  <2>1. CASE ask.budget # NoBudget /\ Capped
    <3> DEFINE a == Lesser(MaxTokens, ask.budget - SpentBefore)
    <3>1. a \in Int /\ a <= MaxTokens
      BY <1>1, <2>1, TheCall, BudgetIsNumber DEF Lesser
    <3>2. MaxTokensOfMessages = Max({1, a})
      BY <2>1 DEF MaxTokensOfMessages
    <3> HIDE DEF a
    <3>3. Max({1, a}) \in {1, a}
      BY <3>1, LargestOfTwo
    <3> QED BY <3>1, <3>2, <3>3, BudgetIsNumber
  <2>2. CASE ~(ask.budget # NoBudget /\ Capped)
    BY <2>2, BudgetIsNumber DEF MaxTokensOfMessages
  <2> QED BY <2>1, <2>2
<1>4. MaxTokensOfPost \in Int /\ MaxTokensOfPost <= MaxTokens
  BY <1>2, BudgetIsNumber DEF MaxTokensOfPost, Lesser
<1> QED BY <1>2, <1>3, <1>4

\* The ends that cost nothing.
LEMMA QuietEndsKeep ==
  ASSUME ApiInv, Broke \/ RefuseUnpriced \/ BrokeBuild
  PROVE  ApiInv'
<1>1. RunnerTypes
  BY DEF ApiInv, MoneyInv
<1>2. /\ pc = "asked" /\ UNCHANGED <<loopVars, cfg, spent, rows, n, paid, dropped, late, real, asked>>
      /\ calls' = calls \/ calls' = Append(calls, 0)
      /\ \E what \in {"budget", "failed"} : Finish(what)
  BY DEF Broke, RefuseUnpriced, BrokeBuild, ListDelegated
<1>3. PICK what \in {"budget", "failed"} : Finish(what)
  BY <1>2
<1>4. pc' = "idle" /\ out' \in Outs /\ ask' \in AskRecord /\ CallIsWhere' /\ out' # "answer"
  <2>1. what \in Outs /\ cfg' = cfg /\ out' = what
    BY <1>2, <1>3 DEF Outs, Finish
  <2> QED BY <1>1, <1>3, <2>1, ACallEnds
<1>5. n' \in 0..MaxCalls /\ asked' \in Int /\ asked' <= MaxTokens
  BY <1>1, <1>2 DEF RunnerTypes
<1>6. UNCHANGED <<loopVars, cfg, spent, rows, paid, dropped, late, real>> /\ pc # "loop"
  BY <1>2
<1> QED BY <1>2, <1>4, <1>5, <1>6, AsideKeeps

LEMMA MessagesFailsKeeps ==
  ASSUME ApiInv, NEW what \in {"failed", "limit"}, MessagesFails(what)
  PROVE  ApiInv'
<1>1. RunnerTypes /\ CallIsWhere
  BY DEF ApiInv, MoneyInv
<1>2. /\ pc = "asked" /\ UNCHANGED <<loopVars, cfg, spent, rows, n, paid, dropped, late, real>>
      /\ Finish(what) /\ what \in Outs /\ asked' = MaxTokensOfMessages
      /\ (calls' = calls \/ calls' = Append(calls, 0))
  BY DEF MessagesFails, ListDelegated, Outs
<1>3. pc' = "idle" /\ out' \in Outs /\ ask' \in AskRecord /\ CallIsWhere' /\ out' # "answer"
  BY <1>1, <1>2, ACallEnds DEF Finish
<1>4. n' \in 0..MaxCalls /\ asked' \in Int /\ asked' <= MaxTokens
  BY <1>1, <1>2, MaxTokensAreBounded DEF RunnerTypes
<1>5. UNCHANGED <<loopVars, cfg, spent, rows, paid, dropped, late, real>> /\ pc # "loop"
  BY <1>2
<1> QED BY <1>2, <1>3, <1>4, <1>5, AsideKeeps

\* Nothing added to a thread is a settlement too.
LEMMA NothingPlus ==
  ASSUME RunnerTypes, CallIsWhere
  PROVE  /\ spent = [spent EXCEPT ![ask.by][ask.thread] = @ + 0]
         /\ paid = [paid EXCEPT ![ask.by][ask.thread] = @ + 0]
         /\ dropped = [dropped EXCEPT ![ask.by][ask.thread] = @ + 0]
         /\ late = [late EXCEPT ![ask.by][ask.thread] = @ + 0]
<1>1. spent \in Sums /\ paid \in Sums /\ dropped \in Sums /\ late \in Sums
  BY DEF RunnerTypes
<1>2. ask.by \in Runners /\ ask.thread \in Threads
  BY TheCall
<1> QED BY <1>1, <1>2, NothingAdded

LEMMA MessagesAnswersKeeps ==
  ASSUME ApiInv, NEW cost \in 0..MaxCost, NEW usable \in BOOLEAN, MessagesAnswers(cost, usable)
  PROVE  ApiInv'
<1> DEFINE price == Price(cost)
           charge == IF ask.thread = NoThread THEN 0 ELSE price
           what == CASE ~usable -> "failed"
                     [] usable /\ ask.budget # NoBudget /\ SpentBefore + Price(cost) > ask.budget -> "budget"
                     [] OTHER -> "answer"
<1>1. RunnerTypes /\ CallIsWhere /\ Books
  BY DEF ApiInv, MoneyInv
<1>2. /\ pc = "asked" /\ Messages /\ Affords /\ asked' = MaxTokensOfMessages /\ cost \in Costs(MaxTokensOfMessages)
      /\ Pay(cost) /\ Charge(price) /\ Row(price, usable)
      /\ calls' = (IF ask.by = "delegate" THEN Append(calls, 0) ELSE calls)
      /\ Finish(what) /\ UNCHANGED <<loopVars, cfg, n, dropped, late, real>>
  BY DEF MessagesAnswers, ListDelegated
<1>3. cost \in Nat /\ cost <= MaxCost /\ price \in Nat /\ charge \in Nat /\ MaxCost \in Nat
      /\ asked' \in Int /\ asked' <= MaxTokens
  BY <1>1, <1>2, MaxTokensAreBounded, CostsAreBounded DEF Price
<1>4. what \in Outs
  BY DEF Outs
<1>5. pc' = "idle" /\ out' \in Outs /\ ask' \in AskRecord /\ CallIsWhere'
  <2> HIDE DEF what
  <2> QED BY <1>1, <1>2, <1>4, ACallEnds
<1>6. Settles(price, charge, 0, 0, price, usable)
  <2>1. Owed = 0
    BY <1>2 DEF Owed
  <2>2. paid' = [paid EXCEPT ![ask.by][ask.thread] = @ + price]
    BY <1>2 DEF Pay
  <2>3. spent' = [spent EXCEPT ![ask.by][ask.thread] = @ + charge]
    BY <1>1, <1>2, NothingPlus DEF Charge
  <2>4. dropped' = [dropped EXCEPT ![ask.by][ask.thread] = @ + 0] /\ late' = [late EXCEPT ![ask.by][ask.thread] = @ + 0]
    BY <1>1, <1>2, NothingPlus
  <2>5. IsCharged(ask.by, ask.thread) => charge + 0 = price + Owed
    BY <1>1, <1>2, <1>3, <2>1, TheCall
  <2>6. ASSUME Priced, Limited(ask.by, ask.thread)
        PROVE  /\ spent[ask.by][ask.thread] + charge <= Budget + MaxCost + late[ask.by][ask.thread] + 0
               /\ out' = "answer" => spent[ask.by][ask.thread] + charge <= Budget
    <3>1. ask.thread # NoThread /\ ask.budget = Budget /\ Budget # NoBudget /\ Budget \in Nat
          /\ spent[ask.by][ask.thread] \in Nat /\ late[ask.by][ask.thread] \in Nat
      BY <1>1, <2>6, TheCall, BudgetIsNumber
    <3>2. SpentBefore = spent[ask.by][ask.thread] /\ charge = price /\ price = cost
      BY <2>6, <3>1 DEF SpentBefore, Price
    <3>3. ~(SpentBefore >= Budget)
      BY <1>2, <3>1 DEF Affords
    <3>4. out' = "answer" => ~(SpentBefore + price > Budget)
      <4>1. out' = what
        BY <1>2 DEF Finish
      <4> QED BY <3>1, <4>1
    <3> HIDE DEF charge, price
    <3> QED BY <1>3, <3>1, <3>2, <3>3, <3>4
  <2>7. (cfg.kind = "openai" => calls' = Append(calls, IF ask.by = "own" THEN price ELSE 0))
        /\ (cfg.kind = "anthropic" => calls' = calls)
    BY <1>1, <1>2, TheCall DEF Runners
  <2>8. price + 0 = price + Owed
    BY <1>3, <2>1
  <2> HIDE DEF price, charge, what
  <2> QED BY <1>2, <1>5, <2>2, <2>3, <2>4, <2>5, <2>6, <2>7, <2>8 DEF Settles
<1>7. n' = n /\ real' = real /\ UNCHANGED loopVars /\ pc' \in {"idle", "retry"}
  BY <1>2, <1>5
<1> HIDE DEF price, charge, what
<1> QED BY <1>3, <1>5, <1>6, <1>7, SettlesKeeps

\* What any request to the endpoint finds and asks for.
LEMMA ThePost ==
  ASSUME ApiInv, Posting
  PROVE  /\ RunnerTypes /\ CallIsWhere /\ Endpoint /\ ask.by = "own" /\ cfg.kind = "openai" /\ pc # "loop"
         /\ ask.thread \in Threads /\ Owed = 0 /\ spent[ask.by][ask.thread] \in Nat /\ late[ask.by][ask.thread] \in Nat
         /\ MaxTokensOfPost \in Int /\ MaxTokensOfPost <= MaxTokens
         /\ (Priced /\ Limited(ask.by, ask.thread) =>
               cfg.budget = Budget
               /\ spent[ask.by][ask.thread] <= Budget + MaxCost + late[ask.by][ask.thread])
<1>1. RunnerTypes /\ CallIsWhere /\ StaysWithin
  BY DEF ApiInv, MoneyInv, Books
<1>2. Endpoint /\ pc \in {"retry", "asked"}
  BY DEF Posting
<1>3. ask.by = "own" /\ cfg.kind = "openai" /\ ask.by \in Runners /\ ask.thread \in Threads
      /\ spent[ask.by][ask.thread] \in Nat /\ late[ask.by][ask.thread] \in Nat /\ cfg.budget \in {NoBudget, Budget}
      /\ (Limited(ask.by, ask.thread) => cfg.budget # NoBudget)
  BY <1>1, <1>2, TheCall
<1>4. MaxTokensOfPost \in Int /\ MaxTokensOfPost <= MaxTokens
  BY <1>1, <1>2, MaxTokensAreBounded
<1>5. Priced /\ Limited(ask.by, ask.thread) =>
        cfg.budget = Budget /\ spent[ask.by][ask.thread] <= Budget + MaxCost + late[ask.by][ask.thread]
  <2>1. Budget \in Nat /\ MaxCost \in Nat
    BY BudgetIsNumber, NoCostIsNumber
  <2> QED BY <1>1, <1>3, <2>1 DEF StaysWithin
<1> QED BY <1>1, <1>2, <1>3, <1>4, <1>5 DEF Owed

LEMMA PostFailsKeeps ==
  ASSUME ApiInv, NEW what \in {"failed", "limit"}, PostFails(what)
  PROVE  ApiInv'
<1>1. /\ Posting /\ asked' = MaxTokensOfPost /\ calls' = Append(calls, 0) /\ Row(0, FALSE) /\ Finish(what)
      /\ what \in Outs /\ UNCHANGED <<loopVars, cfg, spent, n, paid, dropped, late, real>>
  BY DEF PostFails, Outs
<1>2. RunnerTypes /\ CallIsWhere /\ ask.by = "own" /\ cfg.kind = "openai" /\ Owed = 0 /\ asked' \in Int
      /\ asked' <= MaxTokens /\ spent[ask.by][ask.thread] \in Nat /\ late[ask.by][ask.thread] \in Nat
      /\ (Priced /\ Limited(ask.by, ask.thread) =>
            spent[ask.by][ask.thread] + 0 <= Budget + MaxCost + late[ask.by][ask.thread] + 0)
  BY <1>1, ThePost, BudgetIsNumber, NoCostIsNumber
<1>3. pc' = "idle" /\ out' \in Outs /\ ask' \in AskRecord /\ CallIsWhere' /\ out' # "answer"
  BY <1>1, <1>2, ACallEnds DEF Finish
<1>4. Settles(0, 0, 0, 0, 0, FALSE)
  <2>1. spent' = spent /\ paid' = paid /\ dropped' = dropped /\ late' = late /\ cfg' = cfg
    BY <1>1
  <2>2. /\ spent' = [spent EXCEPT ![ask.by][ask.thread] = @ + 0]
        /\ paid' = [paid EXCEPT ![ask.by][ask.thread] = @ + 0]
        /\ dropped' = [dropped EXCEPT ![ask.by][ask.thread] = @ + 0]
        /\ late' = [late EXCEPT ![ask.by][ask.thread] = @ + 0]
    BY <1>2, <2>1, NothingPlus
  <2>3. 0 + 0 = 0 + Owed /\ spent[ask.by][ask.thread] + 0 = spent[ask.by][ask.thread]
    BY <1>2
  <2> QED BY <1>1, <1>2, <1>3, <2>1, <2>2, <2>3 DEF Settles
<1>5. n' = n /\ real' = real /\ UNCHANGED loopVars /\ pc' \in {"idle", "retry"}
  BY <1>1, <1>3
<1> QED BY <1>2, <1>3, <1>4, <1>5, SettlesKeeps

LEMMA PostEmptyKeeps ==
  ASSUME ApiInv, NEW cost \in 0..MaxCost, PostEmpty(cost)
  PROVE  ApiInv'
<1> DEFINE price == Price(cost)
<1>1. /\ Posting /\ asked' = MaxTokensOfPost /\ calls' = Append(calls, 0) /\ Row(0, FALSE) /\ Finish("failed")
      /\ paid' = [paid EXCEPT ![ask.by][ask.thread] = @ + price]
      /\ dropped' = [dropped EXCEPT ![ask.by][ask.thread] = @ + price]
      /\ "failed" \in Outs /\ UNCHANGED <<loopVars, cfg, spent, n, late, real>>
  BY DEF PostEmpty, Pay, Outs
<1>2. RunnerTypes /\ CallIsWhere /\ ask.by = "own" /\ cfg.kind = "openai" /\ Owed = 0 /\ asked' \in Int
      /\ asked' <= MaxTokens /\ spent[ask.by][ask.thread] \in Nat /\ late[ask.by][ask.thread] \in Nat
      /\ (Priced /\ Limited(ask.by, ask.thread) =>
            spent[ask.by][ask.thread] + 0 <= Budget + MaxCost + late[ask.by][ask.thread] + 0)
  BY <1>1, ThePost, BudgetIsNumber, NoCostIsNumber
<1>3. pc' = "idle" /\ out' \in Outs /\ ask' \in AskRecord /\ CallIsWhere' /\ out' # "answer"
  BY <1>1, <1>2, ACallEnds DEF Finish
<1>4. price \in Nat
  BY NoCostIsNumber DEF Price
<1>5. Settles(price, 0, 0, price, 0, FALSE)
  <2>1. spent' = [spent EXCEPT ![ask.by][ask.thread] = @ + 0] /\ late' = [late EXCEPT ![ask.by][ask.thread] = @ + 0]
    BY <1>1, <1>2, NothingPlus
  <2>2. 0 + price = price + Owed /\ spent[ask.by][ask.thread] + 0 = spent[ask.by][ask.thread]
    BY <1>2, <1>4
  <2> HIDE DEF price
  <2> QED BY <1>1, <1>2, <1>3, <2>1, <2>2 DEF Settles
<1>6. n' = n /\ real' = real /\ UNCHANGED loopVars /\ pc' \in {"idle", "retry"}
  BY <1>1, <1>3
<1> HIDE DEF price
<1> QED BY <1>2, <1>3, <1>4, <1>5, <1>6, SettlesKeeps

LEMMA PostAnswersKeeps ==
  ASSUME ApiInv, NEW cost \in 0..MaxCost, NEW fits \in BOOLEAN, PostAnswers(cost, fits)
  PROVE  ApiInv'
<1> DEFINE price == Price(cost)
           limited == cfg.budget # NoBudget /\ Priced
           charge == IF limited THEN cost ELSE 0
           lateBy == IF limited /\ Left < 0 THEN cost ELSE 0
           over == limited /\ SpentBefore + cost > cfg.budget
           ok == ~over /\ (fits \/ ~ask.schema)
<1>1. /\ Posting /\ asked' = MaxTokensOfPost /\ cost \in Costs(MaxTokensOfPost)
      /\ paid' = [paid EXCEPT ![ask.by][ask.thread] = @ + price] /\ calls' = Append(calls, price)
      /\ (IF limited THEN Charge(cost) ELSE UNCHANGED spent)
      /\ late' = (IF limited /\ Left < 0 THEN [late EXCEPT ![ask.by][ask.thread] = @ + cost] ELSE late)
      /\ UNCHANGED <<loopVars, cfg, n, dropped, real>>
  BY DEF PostAnswers, Pay
<1>2. /\ RunnerTypes /\ CallIsWhere /\ Endpoint /\ ask.by = "own" /\ cfg.kind = "openai" /\ Owed = 0
      /\ asked' \in Int /\ asked' <= MaxTokens /\ spent[ask.by][ask.thread] \in Nat /\ late[ask.by][ask.thread] \in Nat
      /\ (Priced /\ Limited(ask.by, ask.thread) =>
            cfg.budget = Budget /\ spent[ask.by][ask.thread] <= Budget + MaxCost + late[ask.by][ask.thread])
      /\ MaxTokensOfPost \in Int /\ MaxTokensOfPost <= MaxTokens
  BY <1>1, ThePost
<1>3. cost \in Nat /\ cost <= MaxCost /\ MaxCost \in Nat /\ price \in Nat /\ charge \in Nat /\ lateBy \in Nat
      /\ ok \in BOOLEAN
  BY <1>1, <1>2, CostsAreBounded DEF Price
<1>4. \/ \E what \in Outs : Finish(what)
      \/ pc' = "retry" /\ UNCHANGED <<ask, out>>
  BY DEF PostAnswers, Outs
<1>5. Row(price, ok)
  <2>1. CASE over
    <3>1. price = cost /\ Row(cost, FALSE) /\ ok = FALSE
      BY <2>1 DEF PostAnswers, Price
    <3> HIDE DEF price, over, ok
    <3> QED BY <3>1
  <2>2. CASE ~over /\ (fits \/ ~ask.schema)
    <3>1. Row(price, TRUE) /\ ok = TRUE
      BY <2>2 DEF PostAnswers
    <3> HIDE DEF price, over, ok
    <3> QED BY <3>1
  <2>3. CASE ~over /\ ~(fits \/ ~ask.schema)
    <3>1. Row(price, FALSE) /\ ok = FALSE
      BY <2>3 DEF PostAnswers
    <3> HIDE DEF price, over, ok
    <3> QED BY <3>1
  <2> QED BY <2>1, <2>2, <2>3
<1>6. pc' \in {"idle", "retry"} /\ out' \in Outs /\ ask' \in AskRecord /\ CallIsWhere'
  <2>1. cfg' = cfg
    BY <1>1
  <2>2. CASE \E what \in Outs : Finish(what)
    <3>1. PICK what \in Outs : Finish(what)
      BY <2>2
    <3> QED BY <1>2, <2>1, <3>1, ACallEnds
  <2>3. CASE pc' = "retry" /\ UNCHANGED <<ask, out>>
    <3>1. Endpoint' /\ out' \in Outs /\ ask' \in AskRecord
      BY <1>2, <2>1, <2>3 DEF Endpoint, Messages, RunnerTypes, Outs
    <3> QED BY <1>2, <2>1, <2>3, <3>1 DEF CallIsWhere
  <2> QED BY <1>4, <2>2, <2>3
<1>7. Settles(price, charge, lateBy, 0, price, ok)
  <2>1. dropped' = [dropped EXCEPT ![ask.by][ask.thread] = @ + 0]
    BY <1>1, <1>2, NothingPlus
  <2>2. spent' = [spent EXCEPT ![ask.by][ask.thread] = @ + charge]
    <3>1. CASE limited
      BY <1>1, <1>2, <3>1 DEF Charge, Endpoint
    <3>2. CASE ~limited
      BY <1>1, <1>2, <3>2, NothingPlus
    <3> QED BY <3>1, <3>2
  <2>3. IsCharged(ask.by, ask.thread) => charge + 0 = price + Owed
    <3>1. IsCharged(ask.by, ask.thread) => cfg.budget # NoBudget
      BY <1>2, TheCall
    <3> QED BY <1>2, <1>3, <3>1 DEF Price
  <2>4. ASSUME Priced, Limited(ask.by, ask.thread)
        PROVE  /\ spent[ask.by][ask.thread] + charge <= Budget + MaxCost + late[ask.by][ask.thread] + lateBy
               /\ out' = "answer" /\ pc' = "idle" => spent[ask.by][ask.thread] + charge <= Budget
    <3>1. cfg.budget = Budget /\ limited /\ charge = cost /\ Budget \in Nat
          /\ spent[ask.by][ask.thread] <= Budget + MaxCost + late[ask.by][ask.thread]
      BY <1>2, <2>4, BudgetIsNumber
    <3>2. SpentBefore = spent[ask.by][ask.thread] /\ Left = Budget - spent[ask.by][ask.thread]
      BY <1>2, <3>1 DEF SpentBefore, Endpoint, Left
    <3>3. CASE Left < 0
      <4>1. lateBy = cost
        BY <3>1, <3>3
      <4>2. out' = "answer" /\ pc' = "idle" => ~over
        BY <1>2 DEF PostAnswers, Finish
      <4>3. over
        BY <1>2, <1>3, <3>1, <3>2, <3>3
      <4> HIDE DEF charge, lateBy, over, limited
      <4> QED BY <1>2, <1>3, <3>1, <4>1, <4>2, <4>3
    <3>4. CASE ~(Left < 0)
      <4>1. lateBy = 0 /\ spent[ask.by][ask.thread] <= Budget
        BY <1>2, <3>1, <3>2, <3>4
      <4>2. out' = "answer" /\ pc' = "idle" => ~over
        BY <1>2 DEF PostAnswers, Finish
      <4>3. ~over => spent[ask.by][ask.thread] + cost <= Budget
        BY <1>2, <1>3, <3>1, <3>2
      <4> HIDE DEF charge, lateBy, over, limited
      <4> QED BY <1>2, <1>3, <3>1, <4>1, <4>2, <4>3
    <3> QED BY <3>3, <3>4
  <2>7. late' = [late EXCEPT ![ask.by][ask.thread] = @ + lateBy]
    <3>1. CASE limited /\ Left < 0
      BY <1>1, <3>1
    <3>2. CASE ~(limited /\ Left < 0)
      BY <1>1, <1>2, <3>2, NothingPlus
    <3> QED BY <3>1, <3>2
  <2>5. price + 0 = price + Owed
    BY <1>2, <1>3
  <2>6. cfg' = cfg /\ pc' # "loop"
    BY <1>1, <1>6
  <2> HIDE DEF price, charge, lateBy, ok
  <2> QED BY <1>1, <1>2, <1>5, <2>1, <2>2, <2>3, <2>4, <2>5, <2>6, <2>7 DEF Settles
<1>8. n' = n /\ real' = real /\ UNCHANGED loopVars
  BY <1>1
<1> HIDE DEF price, charge, lateBy, limited, over, ok
<1>9. price \in Nat /\ charge \in Nat /\ lateBy \in Nat /\ 0 \in Nat /\ ok \in BOOLEAN
  BY <1>3
<1>10. asked' \in Int /\ asked' <= MaxTokens /\ pc' \in {"idle", "retry"} /\ out' \in Outs /\ ask' \in AskRecord
       /\ CallIsWhere'
  BY <1>2, <1>6
<1> QED BY <1>7, <1>8, <1>9, <1>10, SettlesKeeps

EndOf(e, what, t) ==
  e \in EndRecord /\ e.what = what /\ (e.git => e.patch = t) /\ (e.error = "none" <=> e.patch # Clean)
LEMMA ReconciledIs ==
  ASSUME NEW what \in {"final", "turn_cap", "budget"}, NEW reported \in BOOLEAN, NEW t \in [Files -> Texts],
         NEW git \in BOOLEAN
  PROVE  EndOf(Reconciled(what, reported, t, git), what, t)
<1> DEFINE e == Reconciled(what, reported, t, git)
           computed == IF git THEN t ELSE Clean
           error == IF computed # Clean THEN "none"
                    ELSE IF reported THEN "patch_outside_scratch" ELSE "patch_empty"
<1>1. e = [what |-> what, patch |-> computed, git |-> git, error |-> error]
  BY DEF Reconciled
<1>2. Clean \in [Files -> Texts]
  BY ToolLoopAssumption DEF Clean
<1>3. computed \in [Files -> Texts] /\ error \in {"none", "patch_outside_scratch", "patch_empty"}
      /\ (error = "none" <=> computed # Clean) /\ (git => computed = t)
  BY <1>2
<1> HIDE DEF computed, error
<1>4. e.git = git /\ e.patch = computed /\ e.error = error /\ e.what = what
  BY <1>1
<1>5. e \in EndRecord
  BY <1>1, <1>3 DEF EndRecord
<1> QED BY <1>3, <1>4, <1>5 DEF EndOf

LEMMA NoEndIs ==
  NoEnd \in EndRecord /\ NoEnd.what = "none" /\ \A what \in {"none", "failed", "limit"} : [NoEnd EXCEPT !.what = what] \in EndRecord /\ [NoEnd EXCEPT !.what = what].what = what
<1>1. Clean \in [Files -> Texts]
  BY ToolLoopAssumption DEF Clean
<1>2. NoEnd \in EndRecord /\ NoEnd.what = "none"
  BY <1>1 DEF NoEnd, EndRecord
<1> QED BY <1>2 DEF EndRecord

LEMMA CeilingIs ==
  ASSUME RunnerTypes, CallIsWhere, cfg.budget # NoBudget => Left > 0
  PROVE  Ceiling \in Nat \cup {NoBudget} /\ (cfg.budget # NoBudget => Ceiling # NoBudget /\ Ceiling <= Left)
<1> DEFINE x == IF cfg.budget = NoBudget THEN NoBudget ELSE Left
           ceilings == {b \in {ask.budget, x} : b # NoBudget}
<1>1. ask.budget \in {NoBudget, Budget} /\ (cfg.budget # NoBudget => Left \in Nat) /\ x \in Nat \cup {NoBudget}
  BY TheCall, MaxTokensAreBounded
<1>2. Budget \in Nat /\ Budget # NoBudget /\ NoBudget \notin Int
  BY BudgetIsNumber
<1>3. Ceiling = IF ceilings = {} THEN NoBudget ELSE Min(ceilings)
  BY DEF Ceiling
<1>4. CASE ask.budget = NoBudget /\ x = NoBudget
  <2>1. ceilings = {}
    BY <1>4
  <2> HIDE DEF ceilings
  <2> QED BY <1>1, <1>2, <1>3, <1>4, <2>1
<1>5. ASSUME NEW a \in Nat, NEW b \in Nat, {a, b} = ceilings, cfg.budget # NoBudget => b = Left
      PROVE  Ceiling \in Nat /\ (cfg.budget # NoBudget => Ceiling <= Left)
  <2>1. Min({a, b}) \in {a, b} /\ Min({a, b}) <= b
    <3>1. a \in Int /\ b \in Int
      OBVIOUS
    <3> QED BY <3>1, LargestOfTwo
  <2>2. ceilings # {}
    BY <1>5
  <2> HIDE DEF ceilings
  <2>3. Ceiling = Min({a, b})
    BY <1>3, <1>5, <2>2
  <2> QED BY <1>5, <2>1, <2>3
<1>6. CASE ask.budget = Budget /\ x # NoBudget
  <2>1. Budget \in Nat /\ x \in Nat /\ {Budget, x} = ceilings /\ (cfg.budget # NoBudget => x = Left)
    BY <1>1, <1>2, <1>6
  <2> HIDE DEF x, ceilings
  <2> QED BY <1>2, <1>5, <2>1
<1>7. CASE ask.budget = NoBudget /\ x # NoBudget
  <2>1. x \in Nat /\ {x, x} = ceilings /\ (cfg.budget # NoBudget => x = Left)
    BY <1>1, <1>2, <1>7
  <2> HIDE DEF x, ceilings
  <2> QED BY <1>2, <1>5, <2>1
<1>8. CASE ask.budget = Budget /\ x = NoBudget
  <2>1. Budget \in Nat /\ {Budget, Budget} = ceilings /\ cfg.budget = NoBudget
    BY <1>1, <1>2, <1>8
  <2> HIDE DEF x, ceilings
  <2> QED BY <1>2, <1>5, <2>1
<1> QED BY <1>1, <1>4, <1>6, <1>7, <1>8

\* A loop starts: nothing billed yet, and a ceiling within every budget.
LEMMA StartKeeps ==
  ASSUME ApiInv, BuildByMessages \/ BuildByEndpoint
  PROVE  ApiInv'
<1> DEFINE first == <<[role |-> "user", ids |-> <<>>, error |-> FALSE]>>
<1>1. RunnerTypes /\ LoopTypes /\ CallIsWhere /\ Books
  BY DEF ApiInv, MoneyInv
<1>2. /\ pc = "asked" /\ pc' = "loop" /\ InWorktree /\ real' = 0
      /\ UNCHANGED <<cfg, ask, spent, calls, rows, out, n, paid, dropped, late>>
      /\ messages' = first /\ turns' = 0 /\ usage' = 0 /\ billed' = 0 /\ clock' = 0 /\ end' = NoEnd /\ tree' = tree
      /\ unclocked' = NoneMissed
  BY DEF BuildByMessages, BuildByEndpoint, StartLoop
<1>3. ask.by = "own" /\ ask' = ask /\ cfg' = cfg /\ spent' = spent /\ rows' = rows /\ calls' = calls
      /\ paid' = paid /\ dropped' = dropped /\ late' = late /\ out' = out /\ n' = n
  BY <1>2 DEF InWorktree
<1>4. \A by \in Runners, t \in Threads : Pending(by, t)' = Pending(by, t)
  BY <1>2 DEF Pending
<1>5. Books' /\ calls' \in Seq(Nat)
  BY <1>1, <1>3, <1>4, AsideKeepsBooks
<1>6. asked' \in Int /\ asked' <= MaxTokens
  <2>1. CASE BuildByMessages
    BY <1>1, <2>1, MaxTokensAreBounded DEF BuildByMessages
  <2>2. CASE BuildByEndpoint
    <3>1. CASE cfg.budget # NoBudget /\ Capped
      <4> DEFINE a == Lesser(MaxTokens, Left)
      <4>1. asked' = Max({1, a}) /\ a \in Int /\ a <= MaxTokens
        BY <1>1, <2>2, <3>1, MaxTokensAreBounded, BudgetIsNumber DEF BuildByEndpoint, Lesser
      <4> HIDE DEF a
      <4>2. Max({1, a}) \in {1, a}
        <5>1. 1 \in Int /\ a \in Int
          BY <4>1
        <5> QED BY <5>1, LargestOfTwo
      <4> QED BY <4>1, <4>2, BudgetIsNumber
    <3>2. CASE ~(cfg.budget # NoBudget /\ Capped)
      BY <2>2, <3>2, BudgetIsNumber DEF BuildByEndpoint
    <3> QED BY <3>1, <3>2
  <2> QED BY <2>1, <2>2
<1>7. RunnerTypes'
  BY <1>1, <1>2, <1>3, <1>6 DEF RunnerTypes
<1>8. CallIsWhere'
  <2>1. InWorktree' /\ pc' # "retry"
    BY <1>2, <1>3 DEF InWorktree
  <2> QED BY <1>1, <1>3, <2>1 DEF CallIsWhere
<1>9. /\ ceiling' \in Nat \cup {NoBudget}
      /\ (Limited(ask.by, ask.thread) /\ Priced => ceiling' # NoBudget /\ spent[ask.by][ask.thread] + ceiling' <= Budget)
      /\ (Messages /\ ~Priced => ceiling' = NoBudget)
      /\ (Endpoint /\ cfg.budget # NoBudget => ceiling' # NoBudget /\ ceiling' <= Left)
  <2>1. CASE BuildByMessages
    <3>1. Messages /\ Affords /\ ~Unpriced /\ ceiling' = IF ask.budget = NoBudget THEN NoBudget ELSE ask.budget - SpentBefore
      BY <2>1 DEF BuildByMessages, StartLoop
    <3>2. ask.budget = (IF ask.thread = NoThread THEN NoBudget ELSE Budget) /\ spent[ask.by][ask.thread] \in Nat
          /\ (Limited(ask.by, ask.thread) => ask.thread # NoThread) /\ ~Endpoint
      BY <1>1, <3>1, TheCall
    <3>3. CASE ask.thread = NoThread
      BY <3>1, <3>2, <3>3
    <3>4. CASE ask.thread # NoThread
      <4>1. SpentBefore = spent[ask.by][ask.thread] /\ ask.budget = Budget
        BY <3>2, <3>4 DEF SpentBefore
      <4>2. ~(SpentBefore >= Budget)
        BY <3>1, <3>4, <4>1, BudgetIsNumber DEF Affords
      <4>3. Priced
        BY <3>1, <4>1, BudgetIsNumber DEF Unpriced
      <4> QED BY <3>1, <3>2, <4>1, <4>2, <4>3, BudgetIsNumber
    <3> QED BY <3>3, <3>4
  <2>2. CASE BuildByEndpoint
    <3>1. Endpoint /\ ceiling' = Ceiling /\ (cfg.budget # NoBudget => Left > 0)
      BY <2>2 DEF BuildByEndpoint, StartLoop
    <3>2. Ceiling \in Nat \cup {NoBudget} /\ (cfg.budget # NoBudget => Ceiling # NoBudget /\ Ceiling <= Left)
      BY <1>1, <3>1, CeilingIs
    <3>3. ~Messages /\ spent[ask.by][ask.thread] \in Nat /\ cfg.budget \in {NoBudget, Budget}
          /\ (Limited(ask.by, ask.thread) => cfg.budget # NoBudget)
      BY <1>1, <3>1, TheCall
    <3>4. cfg.budget # NoBudget => Left = Budget - spent[ask.by][ask.thread]
      BY <3>3 DEF Left, SpentBefore
    <3> QED BY <3>1, <3>2, <3>3, <3>4, BudgetIsNumber
  <2> QED BY <2>1, <2>2
<1>10. NoEnd \in EndRecord /\ NoEnd.what = "none"
  BY NoEndIs
<1>11. LoopTypes'
  <2>1. unclocked' \in Missed
    BY <1>2, NoneIsMissed
  <2> QED BY <1>1, <1>2, <1>9, <1>10, <2>1, ToolLoopAssumption DEF LoopTypes
<1>12. LoopIsLimited'
  <2>1. Limited(ask.by, ask.thread)' = Limited(ask.by, ask.thread) /\ Messages' = Messages /\ Endpoint' = Endpoint
        /\ Left' = Left /\ MaxCost' = MaxCost /\ Priced' = Priced
    BY <1>3 DEF Limited, Messages, Endpoint, Left, SpentBefore, MaxCost, Priced
  <2>2. end'.what = "none" /\ billed' = usage' /\ real' = usage' /\ usage' = 0 /\ ask' = ask /\ spent' = spent /\ cfg' = cfg
    BY <1>2, <1>3, <1>10
  <2>3. ceiling' # NoBudget => usage' <= ceiling' /\ billed' <= ceiling' + MaxCost
    BY <1>9, <2>2, NoCostIsNumber
  <2> QED BY <1>9, <2>1, <2>2, <2>3 DEF LoopIsLimited
<1>13. PatchIsTheTree'
  BY <1>2, <1>10 DEF PatchIsTheTree
<1>14. WireInv'
  <2> DEFINE m == [role |-> "user", ids |-> <<>>, error |-> FALSE]
             none == <<>>
             wm == WireMessage(m)
  <2>1. none \in Seq(Nat)
    OBVIOUS
  <2>2. m \in MessageRecord /\ wm \in WireRecord /\ wm.role = "user"
    <3>1. m = [role |-> "user", ids |-> none, error |-> FALSE]
      OBVIOUS
    <3> HIDE DEF none
    <3>2. [role |-> "user", ids |-> none, error |-> FALSE] \in MessageRecord
      BY <2>1 DEF MessageRecord
    <3>3. m \in MessageRecord
      BY <3>1, <3>2
    <3>4. wm \in WireRecord
      <4> HIDE DEF m
      <4> QED BY <3>3, WireMessageIs
    <3>5. wm.role = "user"
      BY DEF WireMessage
    <3> QED BY <3>3, <3>4, <3>5
  <2> HIDE DEF m, wm
  <2>3. first = <<m>>
    BY DEF m
  <2>4. <<m>> \in Seq(MessageRecord) /\ Len(<<m>>) = 1 /\ <<m>>[1] = m
    BY <2>2
  <2>5. PICK g \in [0..Len(<<m>>) -> Seq(WireRecord)] :
           /\ g[0] = <<>> /\ \A i \in 1..Len(<<m>>) : g[i] = Merge(g[i - 1], WireMessage(<<m>>[i]))
           /\ ToAnthropic(<<m>>) = g[Len(<<m>>)]
    BY <2>4, WireIs
  <2>6. ToAnthropic(<<m>>) = Merge(<<>>, wm)
    <3>1. 1 \in 1..Len(<<m>>) /\ 1 - 1 = 0
      BY <2>4
    <3>2. g[1] = Merge(g[1 - 1], WireMessage(<<m>>[1]))
      BY <2>5, <3>1
    <3> QED BY <2>4, <2>5, <3>1, <3>2 DEF wm
  <2>7. Merge(<<>>, wm) = <<wm>>
    BY DEF Merge
  <2>8. <<wm>> \in Seq(WireRecord) /\ Len(<<wm>>) = 1 /\ <<wm>>[1] = wm
    BY <2>2
  <2>9. TakesTurns(<<wm>>)
    <3>1. Len(<<wm>>) % 2 = 1 /\ \A i \in 1..Len(<<wm>>) : i = 1
      BY <2>8
    <3> QED BY <2>2, <2>8, <3>1 DEF TakesTurns
  <2>10. ToAnthropic(messages)' = ToAnthropic(messages')
    BY DEF ToAnthropic, Merge, WireMessage
  <2>11. messages' = <<m>>
    BY <1>2, <2>3
  <2> QED BY <2>4, <2>6, <2>7, <2>8, <2>9, <2>10, <2>11 DEF WireInv
<1>15. NoAnswerPastBudget'
  BY <1>2 DEF NoAnswerPastBudget
<1> QED BY <1>5, <1>7, <1>8, <1>11, <1>12, <1>13, <1>14, <1>15 DEF ApiInv, MoneyInv

\* A turn of the loop, whatever the reply.
LEMMA TurnKeeps ==
  ASSUME ApiInv, pc = "loop", UNCHANGED <<cfg, pc, ask, spent, calls, rows, out, n, late, asked>>, ceiling' = ceiling,
         end.what = "none",
         NEW bill \in Nat, NEW drop \in Nat, NEW kept \in Nat, kept + drop = bill, kept <= MaxCost, billed' = billed + kept,
         paid' = Plus(paid, ask.by, ask.thread, bill), dropped' = Plus(dropped, ask.by, ask.thread, drop),
         real' \in Nat, LoopTypes', WireInv', PatchIsTheTree',
         end'.what \in {"none", "final"} =>
           usage' = billed' /\ ~(ceiling # NoBudget /\ usage' > ceiling) /\ (Priced => real' = usage')
  PROVE  ApiInv'
<1>1. RunnerTypes /\ LoopTypes /\ CallIsWhere /\ Books /\ LoopIsLimited
  BY DEF ApiInv, MoneyInv
<1>2. pc' = "loop" /\ ask' = ask /\ cfg' = cfg /\ spent' = spent /\ rows' = rows /\ calls' = calls
      /\ out' = out /\ n' = n /\ late' = late /\ asked' = asked
  OBVIOUS
<1>3. Books' /\ paid' \in Sums /\ dropped' \in Sums
  BY <1>1, <1>2, TurnKeepsBooks
<1>4. RunnerTypes'
  BY <1>1, <1>2, <1>3 DEF RunnerTypes
<1>5. CallIsWhere'
  <2>1. InWorktree' = InWorktree
    BY <1>2 DEF InWorktree
  <2> QED BY <1>1, <1>2, <2>1 DEF CallIsWhere
<1>6. LoopIsLimited'
  <2>1. Limited(ask.by, ask.thread)' = Limited(ask.by, ask.thread) /\ Messages' = Messages /\ Endpoint' = Endpoint
        /\ Left' = Left /\ MaxCost' = MaxCost /\ Priced' = Priced
    BY <1>2 DEF Limited, Messages, Endpoint, Left, SpentBefore, MaxCost, Priced
  <2>2. ceiling \in Nat \cup {NoBudget} /\ billed \in Nat /\ usage \in Nat /\ usage' \in Nat
    BY <1>1 DEF LoopTypes
  <2>3. ceiling # NoBudget => billed' <= ceiling + MaxCost
    <3>1. ceiling # NoBudget => billed <= ceiling
      BY <1>1 DEF LoopIsLimited
    <3> QED BY <2>2, <3>1, NoCostIsNumber, BudgetIsNumber
  <2>4. ceiling # NoBudget /\ end'.what \in {"none", "final"} => usage' <= ceiling
    BY <2>2
  <2> QED BY <1>1, <1>2, <2>1, <2>3, <2>4 DEF LoopIsLimited
<1>7. NoAnswerPastBudget'
  BY <1>2 DEF NoAnswerPastBudget
<1> QED BY <1>3, <1>4, <1>5, <1>6, <1>7 DEF ApiInv, MoneyInv

\* What every reply in the loop finds.
LEMMA TheTurn ==
  ASSUME ApiInv, pc = "loop"
  PROVE  /\ RunnerTypes /\ LoopTypes /\ CallIsWhere /\ LoopIsLimited /\ ask.by = "own" /\ ask.by \in Runners
         /\ ask.thread \in Threads /\ paid \in Sums /\ dropped \in Sums /\ real \in Nat /\ billed \in Nat /\ usage \in Nat
         /\ (end.what = "none" => billed = usage /\ (Priced => real = usage))
         /\ dropped = Plus(dropped, ask.by, ask.thread, 0) /\ paid = Plus(paid, ask.by, ask.thread, 0)
         /\ \A cost \in Costs(asked) :
              /\ cost \in Nat /\ Price(cost) \in Nat /\ Price(cost) <= MaxCost /\ (Priced => Price(cost) = cost)
<1>1. RunnerTypes /\ LoopTypes /\ CallIsWhere /\ LoopIsLimited
  BY DEF ApiInv, MoneyInv
<1>2. ask.by = "own" /\ ask.by \in Runners /\ ask.thread \in Threads
  BY <1>1, TheCall DEF CallIsWhere, InWorktree
<1>3. paid \in Sums /\ dropped \in Sums /\ real \in Nat /\ billed \in Nat /\ usage \in Nat /\ asked \in Int
      /\ asked <= MaxTokens
  BY <1>1 DEF RunnerTypes, LoopTypes
<1>4. end.what = "none" => billed = usage /\ (Priced => real = usage)
  BY <1>1 DEF LoopIsLimited
<1>5. dropped = Plus(dropped, ask.by, ask.thread, 0) /\ paid = Plus(paid, ask.by, ask.thread, 0)
  BY <1>1, NothingPlus DEF Plus
<1>6. ASSUME NEW cost \in Costs(asked)
      PROVE  cost \in Nat /\ Price(cost) \in Nat /\ Price(cost) <= MaxCost /\ (Priced => Price(cost) = cost)
  <2>1. cost \in Nat /\ cost <= MaxCost /\ MaxCost \in Nat
    BY <1>3, CostsAreBounded
  <2> QED BY <2>1 DEF Price
<1> QED BY <1>1, <1>2, <1>3, <1>4, <1>5, <1>6

\* A loop that ends, and what it hands over.
LEMMA LoopEnds ==
  ASSUME ApiInv, pc = "loop", tree' \in [Files -> Texts], clock' \in 0..CheckTotal, unclocked' \in Missed,
         ceiling' = ceiling,
         turns' \in 0..TurnCap, usage' \in Nat, billed' \in Nat, end' \in EndRecord
  PROVE  LoopTypes'
<1>1. ceiling \in Nat \cup {NoBudget}
  BY DEF ApiInv, MoneyInv, LoopTypes
<1> QED BY <1>1 DEF LoopTypes

LEMMA QuietWire ==
  ASSUME ApiInv, pc = "loop", messages' = messages, pc' = pc
  PROVE  WireInv'
<1>1. WireInv
  BY DEF ApiInv
<1>2. ToAnthropic(messages)' = ToAnthropic(messages)
  BY DEF ToAnthropic, Merge, WireMessage
<1> QED BY <1>1, <1>2 DEF WireInv

LEMMA LoopFinalKeeps ==
  ASSUME ApiInv, NEW reported \in BOOLEAN, NEW cost \in 0..MaxCost, NEW git \in BOOLEAN, LoopFinal(reported, cost, git)
  PROVE  ApiInv'
<1> DEFINE price == Price(cost)
<1>1. /\ pc = "loop" /\ cost \in Costs(asked) /\ end.what = "none" /\ turns < TurnCap
      /\ turns' = turns + 1 /\ usage' = usage + price /\ billed' = billed + price /\ ceiling' = ceiling
      /\ end' = (IF Over(usage + price) THEN Reconciled("budget", FALSE, tree, git) ELSE Reconciled("final", reported, tree, git))
      /\ tree' = tree /\ messages' = messages /\ clock' = clock /\ unclocked' = unclocked
      /\ paid' = Plus(paid, ask.by, ask.thread, price) /\ real' = real + cost /\ dropped' = dropped
      /\ UNCHANGED <<cfg, pc, ask, spent, calls, rows, out, n, late, asked>>
  BY DEF LoopFinal, Answered, Sends, Pay, Plus
<1>2. /\ LoopTypes /\ real \in Nat /\ billed \in Nat /\ usage \in Nat /\ cost \in Nat /\ price \in Nat /\ price <= MaxCost
      /\ dropped = Plus(dropped, ask.by, ask.thread, 0) /\ billed = usage
      /\ (Priced => real = usage /\ price = cost)
  BY <1>1, TheTurn
<1>3. tree \in [Files -> Texts] /\ clock \in 0..CheckTotal /\ unclocked \in Missed /\ turns \in 0..TurnCap
  BY <1>2 DEF LoopTypes
<1>4. end' \in EndRecord /\ end'.what \in {"budget", "final"} /\ (end'.git => end'.patch = tree)
      /\ (end'.error = "none" <=> end'.patch # Clean) /\ (end'.what = "final" => ~Over(usage + price))
  <2>1. CASE Over(usage + price)
    <3>1. end' = Reconciled("budget", FALSE, tree, git) /\ FALSE \in BOOLEAN /\ "budget" \in {"final", "turn_cap", "budget"}
      BY <1>1, <2>1
    <3>2. EndOf(end', "budget", tree)
      BY <1>3, <3>1, ReconciledIs
    <3> QED BY <3>2 DEF EndOf
  <2>2. CASE ~Over(usage + price)
    <3>1. end' = Reconciled("final", reported, tree, git) /\ "final" \in {"final", "turn_cap", "budget"}
      BY <1>1, <2>2
    <3>2. EndOf(end', "final", tree)
      BY <1>3, <3>1, ReconciledIs
    <3> QED BY <2>2, <3>2 DEF EndOf
  <2> QED BY <2>1, <2>2
<1> HIDE DEF price
<1>5. LoopTypes'
  <2>1. turns' \in 0..TurnCap /\ usage' \in Nat /\ billed' \in Nat /\ clock' \in 0..CheckTotal /\ tree' \in [Files -> Texts]
        /\ unclocked' \in Missed
    BY <1>1, <1>2, <1>3, ToolLoopAssumption
  <2> QED BY <1>1, <1>4, <2>1, LoopEnds
<1>6. PatchIsTheTree'
  BY <1>1, <1>4 DEF PatchIsTheTree, Clean
<1>7. WireInv'
  BY <1>1, QuietWire
<1>8. price + 0 = price /\ real' \in Nat /\ end'.what # "none" /\ dropped' = Plus(dropped, ask.by, ask.thread, 0)
  <2>1. real' = real + cost /\ dropped' = dropped
    BY <1>1
  <2> QED BY <1>2, <1>4, <2>1
<1>9. end'.what \in {"none", "final"} =>
        usage' = billed' /\ ~(ceiling # NoBudget /\ usage' > ceiling) /\ (Priced => real' = usage')
  <2> SUFFICES ASSUME end'.what \in {"none", "final"}
               PROVE  usage' = billed' /\ ~(ceiling # NoBudget /\ usage' > ceiling) /\ (Priced => real' = usage')
    OBVIOUS
  <2>1. ~Over(usage + price)
    BY <1>4
  <2>2. ~(ceiling # NoBudget /\ usage' > ceiling)
    BY <1>1, <2>1 DEF Over
  <2> QED BY <1>1, <1>2, <2>2
<1> QED BY <1>1, <1>2, <1>5, <1>6, <1>7, <1>8, <1>9, TurnKeeps

\* A reply that raises out of the loop, counted before that or not at all.
LEMMA RaisedKeeps ==
  ASSUME ApiInv, pc = "loop", NEW what \in {"failed", "limit"}, NEW kept \in Nat, Raised(what, kept),
         kept <= MaxCost, NEW bill \in Nat, NEW drop \in Nat, kept + drop = bill,
         paid' = Plus(paid, ask.by, ask.thread, bill), dropped' = Plus(dropped, ask.by, ask.thread, drop),
         real' \in Nat, UNCHANGED <<cfg, pc, ask, spent, calls, rows, out, n, late, asked>>
  PROVE  ApiInv'
<1>1. /\ end.what = "none" /\ billed' = billed + kept /\ end' = [NoEnd EXCEPT !.what = what]
      /\ tree' = tree /\ messages' = messages /\ turns' = turns /\ usage' = usage /\ clock' = clock
      /\ unclocked' = unclocked /\ ceiling' = ceiling
  BY DEF Raised
<1>2. end' \in EndRecord /\ end'.what = what
  BY <1>1, NoEndIs
<1>3. LoopTypes'
  <2>1. LoopTypes
    BY TheTurn
  <2> QED BY <1>1, <1>2, <2>1 DEF LoopTypes
<1>4. PatchIsTheTree'
  BY <1>2 DEF PatchIsTheTree
<1>5. WireInv'
  BY <1>1, QuietWire
<1>6. end'.what \notin {"none", "final"}
  BY <1>2
<1> QED BY <1>1, <1>3, <1>4, <1>5, <1>6, TurnKeeps

LEMMA LoopUnusableKeeps ==
  ASSUME ApiInv, NEW cost \in 0..MaxCost, LoopUnusable(cost)
  PROVE  ApiInv'
<1> DEFINE price == Price(cost)
<1>1. /\ pc = "loop" /\ cost \in Costs(asked) /\ Raised("failed", price)
      /\ paid' = Plus(paid, ask.by, ask.thread, price) /\ real' = real + cost /\ dropped' = dropped
      /\ UNCHANGED <<cfg, pc, ask, spent, calls, rows, out, n, late, asked>>
  BY DEF LoopUnusable, Pay, Plus
<1>2. /\ real \in Nat /\ cost \in Nat /\ price \in Nat /\ price <= MaxCost /\ dropped = Plus(dropped, ask.by, ask.thread, 0)
  BY <1>1, TheTurn
<1> HIDE DEF price
<1>3. price + 0 = price /\ real' \in Nat /\ dropped' = Plus(dropped, ask.by, ask.thread, 0) /\ "failed" \in {"failed", "limit"}
  BY <1>1, <1>2
<1> QED BY <1>1, <1>2, <1>3, RaisedKeeps

LEMMA LoopEmptyKeeps ==
  ASSUME ApiInv, NEW cost \in 0..MaxCost, LoopEmpty(cost)
  PROVE  ApiInv'
<1> DEFINE price == Price(cost)
<1>1. /\ pc = "loop" /\ cost \in Costs(asked) /\ Raised("failed", 0)
      /\ paid' = Plus(paid, ask.by, ask.thread, price) /\ real' = real + cost
      /\ dropped' = Plus(dropped, ask.by, ask.thread, price)
      /\ UNCHANGED <<cfg, pc, ask, spent, calls, rows, out, n, late, asked>>
  BY DEF LoopEmpty, Pay, Plus
<1>2. real \in Nat /\ cost \in Nat /\ price \in Nat
  BY <1>1, TheTurn
<1> HIDE DEF price
<1>3. 0 + price = price /\ real' \in Nat /\ "failed" \in {"failed", "limit"} /\ 0 <= MaxCost
  BY <1>1, <1>2, NoCostIsNumber
<1> QED BY <1>1, <1>2, <1>3, RaisedKeeps

LEMMA LoopFailsKeeps ==
  ASSUME ApiInv, NEW what \in {"failed", "limit"}, LoopFails(what)
  PROVE  ApiInv'
<1>1. pc = "loop" /\ Raised(what, 0) /\ UNCHANGED <<cfg, pc, ask, spent, calls, rows, out, n, late, asked>>
      /\ paid' = paid /\ dropped' = dropped /\ real' = real
  BY DEF LoopFails, runnerVars
<1>2. real \in Nat /\ dropped = Plus(dropped, ask.by, ask.thread, 0) /\ paid = Plus(paid, ask.by, ask.thread, 0)
  BY <1>1, TheTurn
<1>3. 0 + 0 = 0 /\ 0 <= MaxCost
  BY NoCostIsNumber
<1> QED BY <1>1, <1>2, <1>3, RaisedKeeps

LEMMA LoopCallsKeeps ==
  ASSUME ApiInv, NEW batch \in Batches, NEW cost \in 0..MaxCost, NEW git \in BOOLEAN, LoopCalls(batch, cost, git)
  PROVE  ApiInv'
<1> DEFINE price == Price(cost)
           done == ExecuteAll(batch)
           ids == [i \in DOMAIN batch |-> batch[i].id]
<1>1. /\ pc = "loop" /\ cost \in Costs(asked) /\ end.what = "none" /\ turns < TurnCap
      /\ turns' = turns + 1 /\ usage' = usage + price /\ billed' = billed + price /\ ceiling' = ceiling
      /\ paid' = Plus(paid, ask.by, ask.thread, price) /\ real' = real + cost /\ dropped' = dropped
      /\ UNCHANGED <<cfg, pc, ask, spent, calls, rows, out, n, late, asked>>
  BY DEF LoopCalls, Called, Sends, Pay, Plus
<1>2. /\ LoopTypes /\ real \in Nat /\ billed \in Nat /\ usage \in Nat /\ cost \in Nat /\ price \in Nat /\ price <= MaxCost
      /\ dropped = Plus(dropped, ask.by, ask.thread, 0) /\ billed = usage /\ (Priced => real = usage /\ price = cost)
  BY <1>1, TheTurn
<1>3. tree \in [Files -> Texts] /\ clock \in 0..CheckTotal /\ unclocked \in Missed /\ turns \in 0..TurnCap
  BY <1>2 DEF LoopTypes
<1>4. turns' \in 0..TurnCap /\ usage' \in Nat /\ billed' \in Nat /\ real' \in Nat /\ price + 0 = price
      /\ usage' = billed' /\ (Priced => real' = usage') /\ dropped' = Plus(dropped, ask.by, ask.thread, 0)
  <2> HIDE DEF price
  <2> QED BY <1>1, <1>2, <1>3, ToolLoopAssumption
<1>5. CASE Over(usage + price)
  <2>1. end' = Reconciled("budget", FALSE, tree, git) /\ tree' = tree /\ messages' = messages /\ clock' = clock
        /\ unclocked' = unclocked
    BY <1>5 DEF LoopCalls, Called
  <2>2. end' \in EndRecord /\ end'.what = "budget" /\ (end'.git => end'.patch = tree)
        /\ (end'.error = "none" <=> end'.patch # Clean)
    <3>1. FALSE \in BOOLEAN /\ "budget" \in {"final", "turn_cap", "budget"}
      OBVIOUS
    <3>2. EndOf(end', "budget", tree)
      BY <1>3, <2>1, <3>1, ReconciledIs
    <3> QED BY <3>2 DEF EndOf
  <2> HIDE DEF price
  <2>3. LoopTypes'
    BY <1>1, <1>3, <1>4, <2>1, <2>2, LoopEnds
  <2>4. PatchIsTheTree'
    BY <2>1, <2>2 DEF PatchIsTheTree, Clean
  <2>5. WireInv'
    BY <1>1, <2>1, QuietWire
  <2>6. end'.what \notin {"none", "final"}
    BY <2>2
  <2> QED BY <1>1, <1>2, <1>4, <2>3, <2>4, <2>5, <2>6, TurnKeeps
<1>6. CASE ~Over(usage + price)
  <2>1. /\ tree' = done.tree /\ clock' = done.clock /\ unclocked' = done.unclocked
        /\ messages' = messages \o <<[role |-> "assistant", ids |-> ids, error |-> FALSE]>> \o done.results
        /\ end' = IF turns + 1 = TurnCap THEN Reconciled("turn_cap", FALSE, done.tree, git) ELSE NoEnd
    BY <1>6 DEF LoopCalls, Called
  <2>2. /\ done \in DoneRecord /\ Len(done.results) = Len(batch)
        /\ \A i \in 1..Len(batch) : done.results[i].role = "tool" /\ done.results[i].ids = <<batch[i].id>>
    BY <1>3, AllCallsHaveResults
  <2> HIDE DEF done
  <2>3. done.tree \in [Files -> Texts] /\ done.clock \in 0..CheckTotal /\ done.unclocked \in Missed
        /\ done.results \in Seq(MessageRecord)
    BY <2>2 DEF DoneRecord
  <2>4. end' \in EndRecord /\ end'.what \in {"turn_cap", "none"}
        /\ (end'.what = "turn_cap" => (end'.git => end'.patch = done.tree) /\ (end'.error = "none" <=> end'.patch # Clean))
    <3>1. CASE turns + 1 = TurnCap
      <4>1. end' = Reconciled("turn_cap", FALSE, done.tree, git)
        BY <2>1, <3>1
      <4>2. FALSE \in BOOLEAN /\ "turn_cap" \in {"final", "turn_cap", "budget"}
        OBVIOUS
      <4>3. EndOf(end', "turn_cap", done.tree)
        BY <2>3, <4>1, <4>2, ReconciledIs
      <4> QED BY <4>3 DEF EndOf
    <3>2. CASE turns + 1 # TurnCap
      BY <2>1, <3>2, NoEndIs
    <3> QED BY <3>1, <3>2
  <2>5. LoopTypes'
    <3> HIDE DEF price
    <3> QED BY <1>1, <1>4, <2>1, <2>3, <2>4, LoopEnds
  <2>6. PatchIsTheTree'
    <3> HIDE DEF ids
    <3> QED BY <2>1, <2>4 DEF PatchIsTheTree, Clean
  <2>7. WireInv'
    <3>1. batch \in Seq(ToolCall) /\ batch # <<>>
      BY ToolLoopAssumption
    <3>2. Len(batch) \in Nat \ {0} /\ DOMAIN batch = 1..Len(batch) /\ \A i \in 1..Len(batch) : batch[i].id \in Nat
      <4>1. Len(batch) \in Nat \ {0} /\ DOMAIN batch = 1..Len(batch) /\ \A i \in 1..Len(batch) : batch[i] \in ToolCall
        BY <3>1
      <4>2. \A tool \in ToolCall : tool.id \in Nat
        BY DEF ToolCall
      <4> QED BY <4>1, <4>2
    <3>3. ids \in [1..Len(batch) -> Nat] /\ \A i \in 1..Len(batch) : ids[i] = batch[i].id
      BY <3>2
    <3> HIDE DEF ids
    <3>4. IsTurn(messages, ids, done.results, messages')
      BY <2>1, <2>2, <3>3 DEF IsTurn
    <3>5. messages \in Seq(MessageRecord) /\ TakesTurns(ToAnthropic(messages))
      BY <1>1 DEF ApiInv, WireInv
    <3> DEFINE m == Len(batch)
               results == done.results
               more == messages'
    <3>6. m \in Nat \ {0} /\ ids \in [1..m -> Nat] /\ results \in Seq(MessageRecord) /\ Len(results) = m
          /\ IsTurn(messages, ids, results, more)
      BY <2>2, <2>3, <3>2, <3>3, <3>4
    <3>7. more \in Seq(MessageRecord) /\ TakesTurns(ToAnthropic(more)) /\ ToAnthropic(more) \in Seq(WireRecord)
      <4> HIDE DEF m, results, more
      <4> QED BY <3>5, <3>6, TurnOnTheWire
    <3>8. ToAnthropic(messages)' = ToAnthropic(messages')
      BY DEF ToAnthropic, Merge, WireMessage
    <3>9. TakesTurns(ToAnthropic(messages))' = TakesTurns(ToAnthropic(messages'))
      BY <3>8 DEF TakesTurns
    <3> QED BY <3>7, <3>8, <3>9 DEF WireInv
  <2>8. ~(ceiling # NoBudget /\ usage' > ceiling)
    BY <1>1, <1>6 DEF Over
  <2> HIDE DEF price
  <2> QED BY <1>1, <1>2, <1>4, <2>5, <2>6, <2>7, <2>8, TurnKeeps
<1> QED BY <1>5, <1>6

LEMMA CloseLoopKeeps ==
  ASSUME ApiInv, CloseLoop
  PROVE  ApiInv'
<1> DEFINE charge == IF Messages /\ ask.thread = NoThread THEN 0 ELSE billed
           ok == end.what = "final"
<1>1. /\ pc = "loop" /\ end.what # "none" /\ Charge(billed) /\ Row(billed, ok) /\ ListLoop /\ Finish(Outcome)
      /\ UNCHANGED <<loopVars, cfg, n, paid, dropped, late, real, asked>>
  BY DEF CloseLoop
<1>2. RunnerTypes /\ LoopTypes /\ CallIsWhere /\ LoopIsLimited /\ ask.by = "own" /\ billed \in Nat
  BY <1>1, TheTurn
<1>3. Outcome \in Outs
  <2>1. end.what \in {"final", "turn_cap", "budget", "failed", "limit"}
    BY <1>1, <1>2 DEF LoopTypes, EndRecord
  <2> QED BY <2>1 DEF Outcome, Outs
<1>4. pc' = "idle" /\ out' \in Outs /\ ask' \in AskRecord /\ CallIsWhere'
  BY <1>1, <1>2, <1>3, ACallEnds
<1>5. Owed = billed /\ charge \in Nat /\ ok \in BOOLEAN
  BY <1>1, <1>2 DEF Owed
<1>6. Settles(0, charge, 0, 0, billed, ok)
  <2>1. /\ paid' = [paid EXCEPT ![ask.by][ask.thread] = @ + 0] /\ dropped' = [dropped EXCEPT ![ask.by][ask.thread] = @ + 0]
        /\ late' = [late EXCEPT ![ask.by][ask.thread] = @ + 0]
    BY <1>1, <1>2, NothingPlus
  <2>2. spent' = [spent EXCEPT ![ask.by][ask.thread] = @ + charge]
    BY <1>1, <1>2, NothingPlus DEF Charge
  <2>3. IsCharged(ask.by, ask.thread) => charge + 0 = 0 + Owed
    BY <1>2, <1>5, TheCall
  <2>4. ASSUME Priced, Limited(ask.by, ask.thread)
        PROVE  /\ spent[ask.by][ask.thread] + charge <= Budget + MaxCost + late[ask.by][ask.thread] + 0
               /\ out' = "answer" => spent[ask.by][ask.thread] + charge <= Budget
    <3>1. ceiling # NoBudget /\ spent[ask.by][ask.thread] + ceiling <= Budget /\ billed <= ceiling + MaxCost
      BY <1>1, <1>2, <2>4 DEF LoopIsLimited
    <3>2. spent[ask.by][ask.thread] \in Nat /\ late[ask.by][ask.thread] \in Nat /\ ceiling \in Nat \cup {NoBudget}
          /\ ask.thread # NoThread
      BY <1>2, <2>4, TheCall DEF LoopTypes
    <3>3. charge = billed
      BY <3>2
    <3>4. out' = "answer" => billed <= ceiling
      <4>1. out' = "answer" => end.what = "final"
        BY <1>1, <1>2 DEF Finish, Outcome, LoopTypes, EndRecord
      <4> QED BY <1>1, <1>2, <3>1, <4>1 DEF LoopIsLimited
    <3> HIDE DEF charge
    <3> QED BY <1>2, <3>1, <3>2, <3>3, <3>4, BudgetIsNumber, NoCostIsNumber
  <2>5. (cfg.kind = "openai" => calls' = Append(calls, IF ask.by = "own" THEN billed ELSE 0))
        /\ (cfg.kind = "anthropic" => calls' = calls)
    BY <1>1, <1>2, TheCall DEF ListLoop
  <2>6. billed + 0 = 0 + Owed /\ cfg' = cfg
    BY <1>1, <1>2, <1>5
  <2> HIDE DEF charge, ok
  <2> QED BY <1>1, <1>2, <1>4, <2>1, <2>2, <2>3, <2>4, <2>5, <2>6 DEF Settles
<1>7. n' = n /\ real' = real /\ UNCHANGED loopVars /\ pc' \in {"idle", "retry"} /\ asked' \in Int /\ asked' <= MaxTokens
  BY <1>1, <1>2, <1>4 DEF RunnerTypes
<1> HIDE DEF charge, ok
<1> QED BY <1>2, <1>4, <1>5, <1>6, <1>7, SettlesKeeps

LEMMA ApiStart ==
  ASSUME ApiInit
  PROVE  ApiInv
<1>1. /\ tree = Clean /\ messages = <<>> /\ turns = 0 /\ usage = 0 /\ billed = 0 /\ clock = 0 /\ ceiling = NoBudget
      /\ end = NoEnd /\ unclocked = NoneMissed
      /\ cfg \in [kind : {"anthropic", "openai"}, budget : {NoBudget, Budget}, price : {"none", "input", "full"}]
      /\ (cfg.kind = "anthropic" => cfg.budget = NoBudget)
      /\ pc = "idle" /\ ask = NoAsk /\ spent = Nothing /\ calls = <<>> /\ rows = <<>>
      /\ out = "none" /\ n = 0 /\ paid = Nothing /\ dropped = Nothing /\ late = Nothing /\ real = 0 /\ asked = MaxTokens
  BY DEF ApiInit, LoopInit
<1>2. Nothing \in Sums /\ \A by \in Runners, t \in Threads : Nothing[by][t] = 0
  BY DEF Nothing, Sums
<1>3. ask \in AskRecord /\ ask.budget = NoBudget /\ ask.thread = NoThread /\ ask.by = "own"
  BY <1>1, BudgetIsNumber DEF NoAsk, AskRecord, Runners
<1>4. rows \in Seq(RowRecord) /\ calls \in Seq(Nat) /\ Len(rows) = 0
  BY <1>1
<1>5. RunnerTypes
  BY <1>1, <1>2, <1>3, <1>4, ApiRunnerAssumption DEF RunnerTypes
<1>6. LoopTypes
  <2>1. Clean \in [Files -> Texts]
    BY ToolLoopAssumption DEF Clean
  <2> QED BY <1>1, <2>1, NoEndIs, NoneIsMissed, ToolLoopAssumption DEF LoopTypes
<1>7. CallIsWhere
  BY <1>1, <1>3 DEF CallIsWhere
<1>8. Total(<<>>) = 0
  BY TotalOfNone
<1>9. \A by \in Runners, t \in Threads : Recorded(by, t) = 0 /\ RecordedBy(by) = 0 /\ Pending(by, t) = 0
  <2> SUFFICES ASSUME NEW by \in Runners, NEW t \in Threads
               PROVE  Recorded(by, t) = 0 /\ RecordedBy(by) = 0 /\ Pending(by, t) = 0
    OBVIOUS
  <2>1. DOMAIN rows = {}
    BY <1>1
  <2>2. Recorded(by, t) = Total([i \in {} |-> IF rows[i].by = by /\ rows[i].thread = t THEN rows[i].cost ELSE 0])
        /\ RecordedBy(by) = Total([i \in {} |-> IF rows[i].by = by THEN rows[i].cost ELSE 0])
    BY <2>1 DEF Recorded, RecordedBy
  <2>3. [i \in {} |-> IF rows[i].by = by /\ rows[i].thread = t THEN rows[i].cost ELSE 0] = <<>>
        /\ [i \in {} |-> IF rows[i].by = by THEN rows[i].cost ELSE 0] = <<>>
    OBVIOUS
  <2> QED BY <1>1, <1>8, <2>2, <2>3 DEF Pending
<1>10. Books
  <2>1. RowsBalance /\ SpentBalances
    BY <1>1, <1>2, <1>9 DEF RowsBalance, SpentBalances, Runners
  <2>2. Numbered
    BY <1>4 DEF Numbered
  <2>3. CallsBalance
    <3>1. "own" \in Runners /\ NoThread \in Threads /\ calls = <<>>
      BY <1>1, BudgetIsNumber DEF Runners
    <3> QED BY <1>8, <1>9, <3>1 DEF CallsBalance
  <2>4. StaysWithin
    BY <1>1, <1>2, NoCostIsNumber, BudgetIsNumber DEF StaysWithin
  <2> QED BY <2>1, <2>2, <2>3, <2>4 DEF Books
<1>11. LoopIsLimited /\ PatchIsTheTree /\ WireInv
  <2>1. messages \in Seq(MessageRecord)
    BY <1>1
  <2> QED BY <1>1, <2>1 DEF LoopIsLimited, PatchIsTheTree, WireInv
<1>12. NoAnswerPastBudget
  BY <1>1 DEF NoAnswerPastBudget
<1> QED BY <1>5, <1>6, <1>7, <1>10, <1>11, <1>12 DEF ApiInv, MoneyInv

\* A step of the runner, or of none.
LEMMA ApiStep ==
  ASSUME ApiInv, [ApiNext]_apiVars
  PROVE  ApiInv'
<1>1. CASE Ask
  BY <1>1, AskKeeps
<1>2. CASE Broke \/ RefuseUnpriced \/ BrokeBuild
  BY <1>2, QuietEndsKeep
<1>3. CASE BuildByMessages \/ BuildByEndpoint
  BY <1>3, StartKeeps
<1>4. CASE CloseLoop
  BY <1>4, CloseLoopKeeps
<1>5. ASSUME NEW what \in {"failed", "limit"}, MessagesFails(what) \/ PostFails(what) \/ LoopFails(what)
      PROVE  ApiInv'
  BY <1>5, MessagesFailsKeeps, PostFailsKeeps, LoopFailsKeeps
<1>6. ASSUME NEW cost \in 0..MaxCost, PostEmpty(cost) \/ LoopUnusable(cost) \/ LoopEmpty(cost)
      PROVE  ApiInv'
  BY <1>6, PostEmptyKeeps, LoopUnusableKeeps, LoopEmptyKeeps
<1>7. ASSUME NEW cost \in 0..MaxCost, NEW ok \in BOOLEAN, MessagesAnswers(cost, ok) \/ PostAnswers(cost, ok)
      PROVE  ApiInv'
  BY <1>7, MessagesAnswersKeeps, PostAnswersKeeps
<1>8. ASSUME NEW cost \in 0..MaxCost, NEW git \in BOOLEAN, NEW batch \in Batches, LoopCalls(batch, cost, git)
      PROVE  ApiInv'
  BY <1>8, LoopCallsKeeps
<1>9. ASSUME NEW cost \in 0..MaxCost, NEW git \in BOOLEAN, NEW reported \in BOOLEAN, LoopFinal(reported, cost, git)
      PROVE  ApiInv'
  BY <1>9, LoopFinalKeeps
<1>10. CASE UNCHANGED apiVars
  <2>1. /\ tree' = tree /\ messages' = messages /\ turns' = turns /\ usage' = usage /\ billed' = billed
        /\ clock' = clock /\ unclocked' = unclocked /\ ceiling' = ceiling /\ end' = end
    BY <1>10 DEF apiVars, loopVars
  <2>2. /\ cfg' = cfg /\ pc' = pc /\ ask' = ask /\ spent' = spent /\ calls' = calls /\ rows' = rows /\ out' = out
        /\ n' = n /\ paid' = paid /\ dropped' = dropped /\ late' = late /\ real' = real /\ asked' = asked
    BY <1>10 DEF apiVars, runnerVars
  <2>3. RunnerTypes' = RunnerTypes /\ LoopTypes' = LoopTypes
    BY <2>1, <2>2 DEF RunnerTypes, LoopTypes
  <2>4. CallIsWhere' = CallIsWhere
    BY <2>1, <2>2 DEF CallIsWhere, Endpoint, Messages, InWorktree
  <2>5. RunnerTypes /\ Books
    BY DEF ApiInv, MoneyInv
  <2>6. \A by \in Runners, t \in Threads : Pending(by, t)' = Pending(by, t)
    BY <2>1, <2>2 DEF Pending
  <2>7. Books'
    BY <2>2, <2>5, <2>6, AsideKeepsBooks
  <2>8. LoopIsLimited' = LoopIsLimited
    BY <2>1, <2>2 DEF LoopIsLimited, Limited, Endpoint, Messages, Left, SpentBefore, MaxCost, Priced
  <2>9. PatchIsTheTree' = PatchIsTheTree
    BY <2>1, <2>2 DEF PatchIsTheTree, Clean
  <2>10. WireInv' = WireInv
    BY <2>1, <2>2 DEF WireInv, ToAnthropic, Merge, WireMessage, TakesTurns
  <2>11. NoAnswerPastBudget' = NoAnswerPastBudget
    BY <2>2 DEF NoAnswerPastBudget, Limited, Priced
  <2> QED BY <2>3, <2>4, <2>7, <2>8, <2>9, <2>10, <2>11 DEF ApiInv, MoneyInv
<1> QED
  BY <1>1, <1>2, <1>3, <1>4, <1>5, <1>6, <1>7, <1>8, <1>9, <1>10, Zenon DEF ApiNext

\* What the rows tell of the numbers.
LEMMA NumberedRowsAreNumbered ==
  ASSUME RunnerTypes, Numbered
  PROVE  RowsNumbered
<1>1. DOMAIN rows = 1..Len(rows) /\ Len(rows) \in Nat
  BY DEF RunnerTypes
<1> QED BY <1>1 DEF Numbered, RowsNumbered

LEMMA TheBooksBalance ==
  ASSUME ApiInv
  PROVE  BooksBalance
<1>1. RunnerTypes /\ LoopTypes /\ CallIsWhere /\ RowsBalance /\ SpentBalances /\ Numbered /\ CallsBalance /\ StaysWithin
  BY DEF ApiInv, MoneyInv, Books
<1>2. ApiRunnerTypeOK
  <2>1. CheckTotal \in Nat
    BY ToolLoopAssumption
  <2>2. clock \in Nat /\ unclocked \in [checks : Nat, seconds : Nat] /\ ceiling \in Int \cup {NoBudget}
        /\ end.what \in {"none", "final", "turn_cap", "budget", "failed", "limit"}
    BY <1>1, <2>1 DEF LoopTypes, Missed, EndRecord
  <2> QED BY <1>1, <2>2 DEF ApiRunnerTypeOK, LoopTypes, RunnerTypes, Sums
<1>3. \A by \in Runners, t \in Threads :
        paid[by][t] \in Nat /\ spent[by][t] \in Nat /\ dropped[by][t] \in Nat
  BY <1>1 DEF RunnerTypes, Sums
<1>4. pc = "idle" => \A by \in Runners, t \in Threads : Pending(by, t) = 0
  BY DEF Pending
<1>5. BilledIsCharged
  <2> SUFFICES ASSUME pc = "idle", NEW t \in Threads
               PROVE  /\ (cfg.kind = "anthropic" => t # NoThread) /\ (cfg.kind = "openai" => cfg.budget # NoBudget)
                             => spent["own"][t] + dropped["own"][t] = paid["own"][t]
                      /\ t # NoThread => spent["delegate"][t] = paid["delegate"][t]
    BY DEF BilledIsCharged
  <2>1. "own" \in Runners /\ "delegate" \in Runners
    BY DEF Runners
  <2>2. ASSUME NEW by \in Runners, IsCharged(by, t) PROVE spent[by][t] + dropped[by][t] = paid[by][t]
    <3>1. spent[by][t] + dropped[by][t] + Pending(by, t) = paid[by][t] /\ Pending(by, t) = 0
      BY <1>1, <1>4, <2>2 DEF SpentBalances
    <3> QED BY <1>3, <3>1
  <2>3. dropped["delegate"][t] = 0
    BY <1>1 DEF SpentBalances
  <2>4. /\ (cfg.kind = "anthropic" => t # NoThread) /\ (cfg.kind = "openai" => cfg.budget # NoBudget) => IsCharged("own", t)
        /\ t # NoThread => IsCharged("delegate", t)
    BY DEF IsCharged
  <2>5. t # NoThread => spent["delegate"][t] = paid["delegate"][t]
    BY <1>3, <2>1, <2>2, <2>3, <2>4
  <2> QED BY <2>1, <2>2, <2>4, <2>5
<1>6. RowsAddUp
  <2> SUFFICES ASSUME pc = "idle", NEW by \in Runners, NEW t \in Threads
               PROVE  Recorded(by, t) + dropped[by][t] = paid[by][t]
    BY DEF RowsAddUp
  <2>1. Recorded(by, t) + dropped[by][t] + Pending(by, t) = paid[by][t] /\ Pending(by, t) = 0
    BY <1>1, <1>4 DEF RowsBalance
  <2>2. Recorded(by, t) \in Int
    <3>1. Recorded(by, t) = Rec(rows, by, t)
      BY DEF Recorded, Rec
    <3> QED BY <1>1, <3>1, SumIsNumber DEF RunnerTypes
  <2> QED BY <1>3, <2>1, <2>2
<1>7. RowsNumbered
  BY <1>1, NumberedRowsAreNumbered
<1>8. WithinBudget
  BY <1>1 DEF StaysWithin, WithinBudget
<1>10. NoAnswerPastBudget
  BY DEF ApiInv, MoneyInv
<1>9. CallsMatchRows
  BY <1>1 DEF CallsBalance, CallsMatchRows
<1> QED BY <1>2, <1>5, <1>6, <1>7, <1>8, <1>9, <1>10 DEF BooksBalance

LEMMA TheLoopIsBounded ==
  ASSUME ApiInv
  PROVE  LoopKeepsItsBounds
<1>1. RunnerTypes /\ LoopTypes /\ CallIsWhere /\ LoopIsLimited /\ PatchIsTheTree /\ WireInv
  BY DEF ApiInv, MoneyInv
<1>2. CeilingHolds
  <2> SUFFICES ASSUME pc = "loop", Messages \/ Priced, ceiling # NoBudget, real > ceiling, end.what = "none"
               PROVE  FALSE
    BY DEF CeilingHolds
  <2>1. Priced
    BY <1>1 DEF LoopIsLimited
  <2>2. usage <= ceiling /\ real = usage /\ usage \in Nat /\ ceiling \in Nat
    BY <1>1, <2>1 DEF LoopIsLimited, LoopTypes
  <2> QED BY <2>2
<1>3. CeilingWithinProfile
  BY <1>1 DEF LoopIsLimited, CeilingWithinProfile
<1>4. CheckTimeBounded
  BY <1>1, ToolLoopAssumption DEF LoopTypes, Missed, CheckTimeBounded
<1>5. ResultsAnswer
  <2> DEFINE wire == ToAnthropic(messages)
  <2> SUFFICES ASSUME pc = "loop"
               PROVE  /\ \A i \in DOMAIN wire : wire[i].role = (IF i % 2 = 1 THEN "user" ELSE "assistant")
                      /\ \A i \in DOMAIN wire : wire[i].role = "assistant" =>
                           i < Len(wire) /\ wire[i + 1].ids = wire[i].ids
    BY DEF ResultsAnswer
  <2>1. wire \in Seq(WireRecord) /\ TakesTurns(wire)
    BY <1>1 DEF WireInv
  <2> HIDE DEF wire
  <2>2. DOMAIN wire = 1..Len(wire) /\ Len(wire) \in Nat /\ Len(wire) % 2 = 1
        /\ (\A i \in 1..Len(wire) : wire[i].role = (IF i % 2 = 1 THEN "user" ELSE "assistant"))
        /\ \A i \in 1..Len(wire) : wire[i].role = "assistant" => wire[i + 1].ids = wire[i].ids
    BY <2>1 DEF TakesTurns
  <2>3. \A i \in 1..Len(wire) : wire[i].role = "assistant" => i < Len(wire)
    BY <2>2
  <2> QED BY <2>2, <2>3
<1> QED BY <1>1, <1>2, <1>3, <1>4, <1>5 DEF LoopKeepsItsBounds

\* Every unit of money a vendor bills is charged to its thread once, is in one row of the store
\* and, of the endpoint's own calls, once in what the driver reads, whatever mix of single
\* requests, retries, replies with no content and tool loops the thread has been through. No
\* thread with a budget is past it by more than one reply and what its posts went on to cost
\* after that, which no reply answers. (_charge_loop, _record_to_store, _post)
THEOREM TheMoneyIsAccountedFor == ApiSpec => []BooksBalance
<1>1. ApiInit => ApiInv
  BY ApiStart
<1>2. ApiInv /\ [ApiNext]_apiVars => ApiInv'
  BY ApiStep
<1>3. ApiInv => BooksBalance
  BY TheBooksBalance
<1> QED BY <1>1, <1>2, <1>3, PTL DEF ApiSpec

\* A tool loop sends no turn over its ceiling, runs its checks for no more than their total, but
\* for those whose output does not decode, which run for no more than one check may, hands over
\* the worktree as it is, and gives the Messages API a conversation in turns in which every tool
\* call of a reply is answered, however many calls the replies make.
\* (run_tool_loop, _run_check, _reconciled, _merge_results)
THEOREM TheToolLoopIsBounded == ApiSpec => []LoopKeepsItsBounds
<1>1. ApiInit => ApiInv
  BY ApiStart
<1>2. ApiInv /\ [ApiNext]_apiVars => ApiInv'
  BY ApiStep
<1>3. ApiInv => LoopKeepsItsBounds
  BY TheLoopIsBounded
<1> QED BY <1>1, <1>2, <1>3, PTL DEF ApiSpec
=============================================================================
