--------------------------- MODULE StoreProofs ------------------------------
(***************************************************************************)
(* The one history of migrations, for every number of openers, every       *)
(* mixture of code versions and every order of their steps, provided no    *)
(* two opens write their backup under one name; and the copy of one store  *)
(* into another, for every order of tables, every page size and every      *)
(* growth of either store in between.                                      *)
(***************************************************************************)
EXTENDS StoreMigrate, StoreCopy, FiniteSetTheorems, SequenceTheorems, WellFoundedInduction, TLAPS

Row == [version : Nat, by : Opener]

\* A name that one open has used is used by no other.
NamesApart ==
  \A o, p \in Opener : \A k, n \in 1..MaxOpens : Now[o][k] = Now[p][n] => o = p /\ k = n

MigrateTypes ==
  /\ modules \in [Opener -> Packages] /\ hasTable \in BOOLEAN
  /\ history \in Seq(Row)
  /\ \A n \in DOMAIN backups : backups[n] \subseteq Nat
  /\ opening \in [Opener -> {"closed", "backup", "check", "apply", "open"}]
  /\ opens \in [Opener -> 0..MaxOpens] /\ current \in [Opener -> Nat] /\ at \in [Opener -> Nat \ {0}]

\* The table is there before its rows; an opener at work has begun.
Begun ==
  /\ history # <<>> => hasTable
  /\ \A o \in Opener : opening[o] = "apply" => hasTable
  /\ \A o \in Opener : opening[o] # "closed" => opens[o] \in 1..MaxOpens

\* Every backup is some open's, and an open that has yet to write one has none.
BackupsAreOpens ==
  /\ \A n \in DOMAIN backups : \E o \in Opener, k \in 1..MaxOpens : k <= opens[o] /\ n.at = Now[o][k]
  /\ \A o \in Opener : opening[o] = "backup" => \A n \in DOMAIN backups : n.at # Now[o][opens[o]]

\* A loop never runs ahead of the store by more than its next migration.
LoopFollows == \A o \in Opener : opening[o] = "apply" => at[o] <= Len(history) + 1

Below(v) == \E n \in DOMAIN backups : \E w \in backups[n] : w < v

\* An opener that may yet commit a migration has its backup.
BackedUp ==
  \A o \in Opener \ Override :
    /\ opening[o] = "check" => Len(history) >= Newest(o) \/ Below(Len(history) + 1)
    /\ opening[o] = "apply" => at[o] > Newest(o) \/ Below(at[o])

MigrateInv ==
  /\ MigrateTypes /\ EachOnceInOrder /\ Begun /\ BackupsAreOpens /\ LoopFollows /\ BackedUp /\ BackupKept

-----------------------------------------------------------------------------
LEMMA NewestIsNat ==
  ASSUME MigrateTypes, NEW o \in Opener
  PROVE  Newest(o) \in Nat
BY MigrateConstants DEF MigrateTypes, Newest

LEMMA HistoryIsTyped ==
  ASSUME MigrateTypes
  PROVE  /\ Len(history) \in Nat /\ DOMAIN history = 1..Len(history) /\ (history = <<>> <=> Len(history) = 0)
         /\ \A i \in DOMAIN history : history[i].version \in Nat /\ history[i].by \in Opener
<1>1. Len(history) \in Nat /\ DOMAIN history = 1..Len(history) /\ (history = <<>> <=> Len(history) = 0)
  BY DEF MigrateTypes
<1>2. \A i \in DOMAIN history : history[i] \in Row
  BY <1>1 DEF MigrateTypes
<1> QED
  BY <1>1, <1>2 DEF Row

\* The newest migration of a history without gap or repetition is its length.
LEMMA VersionIsLength ==
  ASSUME MigrateInv
  PROVE  Version = Len(history)
<1> USE DEF MigrateInv
<1>1. CASE history = <<>>
  BY <1>1, HistoryIsTyped DEF Version
<1>2. CASE history # <<>>
  <2> DEFINE S == {history[i].version : i \in DOMAIN history}
  <2>1. Len(history) \in Nat \ {0} /\ DOMAIN history = 1..Len(history)
    BY <1>2, HistoryIsTyped
  <2>2. S = 1..Len(history)
    BY <2>1 DEF EachOnceInOrder
  <2>3. Version = Max(S)
    BY <1>2 DEF Version, Begun
  <2>4. Len(history) \in S /\ \A y \in S : Len(history) >= y
    BY <2>1, <2>2
  <2>5. \A x \in S : (\A y \in S : x >= y) => x = Len(history)
    <3> SUFFICES ASSUME NEW x \in S, \A y \in S : x >= y PROVE x = Len(history)
      OBVIOUS
    <3>1. x >= Len(history) /\ Len(history) >= x
      BY <2>4
    <3>2. x \in Nat
      BY <2>1, <2>2
    <3>3. Len(history) \in Nat
      BY <2>1
    <3> QED
      BY <3>1, <3>2, <3>3
  <2> QED
    BY <2>3, <2>4, <2>5 DEF Max
<1> QED
  BY <1>1, <1>2

\* A new file under a name of its own leaves the other files as they are.
LEMMA SavedAdds ==
  ASSUME NEW name, NEW restores, name \notin DOMAIN backups, backups' = Saved(name, restores)
  PROVE  /\ DOMAIN backups' = DOMAIN backups \cup {name} /\ backups'[name] = restores
         /\ \A n \in DOMAIN backups : backups'[n] = backups[n]
         /\ \A v : Below(v) => Below(v)'
<1>1. /\ DOMAIN backups' = DOMAIN backups \cup {name} /\ backups'[name] = restores
      /\ \A n \in DOMAIN backups : backups'[n] = backups[n]
  BY DEF Saved
<1> QED
  BY <1>1 DEF Below

LEMMA InitHasMigrateInv == MigrateInit => MigrateInv
<1> SUFFICES ASSUME MigrateInit PROVE MigrateInv
  OBVIOUS
<1> USE DEF MigrateInit
<1>1. history = <<>> /\ DOMAIN history = {} /\ DOMAIN backups = {} /\ history \in Seq(Row)
  OBVIOUS
<1>2. MigrateTypes
  <2>1. opens \in [Opener -> 0..MaxOpens]
    BY MigrateConstants
  <2>2. current \in [Opener -> Nat] /\ at \in [Opener -> Nat \ {0}]
    OBVIOUS
  <2>3. opening \in [Opener -> {"closed", "backup", "check", "apply", "open"}]
    OBVIOUS
  <2>4. \A n \in DOMAIN backups : backups[n] \subseteq Nat
    BY <1>1
  <2> QED
    BY <1>1, <2>1, <2>2, <2>3, <2>4 DEF MigrateTypes
<1>3. EachOnceInOrder /\ Begun /\ BackupsAreOpens /\ LoopFollows /\ BackedUp /\ BackupKept
  BY <1>1 DEF EachOnceInOrder, Begun, BackupsAreOpens, LoopFollows, BackedUp, BackupKept
<1> QED
  BY <1>2, <1>3 DEF MigrateInv

-----------------------------------------------------------------------------
LEMMA OpenKeepsMigrateInv ==
  ASSUME NamesApart, MigrateInv, NEW o \in Opener, Open(o)
  PROVE  MigrateInv'
<1> USE DEF MigrateInv
<1>1. /\ opening[o] = "closed" /\ opens[o] < MaxOpens /\ opens' = [opens EXCEPT ![o] = @ + 1]
      /\ current' = [current EXCEPT ![o] = Version]
      /\ UNCHANGED <<modules, hasTable, history, backups, at>>
  BY DEF Open
<1>2. PICK l \in {"closed", "backup", "check"} : GoOpen(o, l) /\ (l = "check" => ~Pending(o))
  BY DEF Open
<1>3. \A p \in Opener : /\ opening'[p] = IF p = o THEN l ELSE opening[p]
                        /\ opens'[p] = IF p = o THEN opens[o] + 1 ELSE opens[p]
                        /\ opens[p] \in 0..MaxOpens
  BY <1>1, <1>2 DEF GoOpen, MigrateTypes
<1>4. opens[o] + 1 \in 1..MaxOpens /\ opens[o] \in Nat
  BY <1>1, <1>3, MigrateConstants
<1>5. MigrateTypes'
  <2>1. Version \in Nat
    BY VersionIsLength, HistoryIsTyped
  <2>2. opens' \in [Opener -> 0..MaxOpens]
    BY <1>1, <1>4, MigrateConstants DEF MigrateTypes
  <2> QED
    BY <1>1, <1>2, <2>1, <2>2 DEF MigrateTypes, GoOpen
<1>6. EachOnceInOrder' /\ BackupKept'
  BY <1>1 DEF EachOnceInOrder, BackupKept
<1>7. Begun'
  BY <1>1, <1>3, <1>4 DEF Begun
<1>8. LoopFollows'
  BY <1>1, <1>2, <1>3 DEF LoopFollows
<1>9. BackupsAreOpens'
  <2>1. ASSUME NEW n \in DOMAIN backups
        PROVE  \E p \in Opener, k \in 1..MaxOpens : k <= opens'[p] /\ n.at = Now[p][k]
    <3>1. PICK p \in Opener, k \in 1..MaxOpens : k <= opens[p] /\ n.at = Now[p][k]
      BY DEF BackupsAreOpens
    <3>2. k <= opens'[p]
      BY <1>3, <1>4, <3>1
    <3> QED
      BY <3>1, <3>2
  <2>2. ASSUME NEW p \in Opener, opening'[p] = "backup", NEW n \in DOMAIN backups
        PROVE  n.at # Now[p][opens'[p]]
    <3>1. CASE p # o
      BY <2>2, <3>1, <1>3 DEF BackupsAreOpens
    <3>2. CASE p = o
      <4>1. PICK q \in Opener, k \in 1..MaxOpens : k <= opens[q] /\ n.at = Now[q][k]
        BY DEF BackupsAreOpens
      <4>2. opens'[o] = opens[o] + 1
        BY <1>3
      <4>3. q = o => k # opens[o] + 1
        BY <4>1, <1>4
      <4> QED
        BY <3>2, <4>1, <4>2, <4>3, <1>4 DEF NamesApart
    <3> QED
      BY <3>1, <3>2
  <2> QED
    BY <1>1, <2>1, <2>2 DEF BackupsAreOpens
<1>10. BackedUp'
  <2>1. l = "check" => Len(history) >= Newest(o)
    BY <1>2, VersionIsLength, NewestIsNat, HistoryIsTyped DEF Pending
  <2> QED
    BY <1>1, <1>2, <1>3, <2>1 DEF BackedUp, Newest, Below
<1> QED
  BY <1>5, <1>6, <1>7, <1>8, <1>9, <1>10

\* What a new file of the opener's own, whole or torn, leaves true.
LEMMA FileKeeps ==
  ASSUME NamesApart, MigrateInv, NEW o \in Opener, opening[o] = "backup", NEW l \in {"check", "closed"}, GoOpen(o, l),
         NEW restores \in SUBSET Nat, backups' = Saved(BackupName(o), restores),
         UNCHANGED <<modules, hasTable, history, opens, current, at>>
  PROVE  /\ MigrateTypes' /\ EachOnceInOrder' /\ Begun' /\ BackupsAreOpens' /\ LoopFollows' /\ BackupKept'
         /\ \A v : Below(v) => Below(v)'
         /\ BackupName(o) \in DOMAIN backups' /\ backups'[BackupName(o)] = restores
<1> USE DEF MigrateInv
<1>1. BackupName(o).at = Now[o][opens[o]]
  BY DEF BackupName
<1>2. BackupName(o) \notin DOMAIN backups
  BY <1>1 DEF BackupsAreOpens
<1>3. /\ DOMAIN backups' = DOMAIN backups \cup {BackupName(o)} /\ backups'[BackupName(o)] = restores
      /\ \A n \in DOMAIN backups : backups'[n] = backups[n]
      /\ \A v : Below(v) => Below(v)'
  BY <1>2, SavedAdds
<1>4. \A p \in Opener : opening'[p] = IF p = o THEN l ELSE opening[p]
  BY DEF GoOpen, MigrateTypes
<1>5. MigrateTypes'
  BY <1>3 DEF MigrateTypes, GoOpen
<1>6. EachOnceInOrder' /\ LoopFollows' /\ Begun'
  BY <1>4 DEF EachOnceInOrder, LoopFollows, Begun
<1>7. opens[o] \in 1..MaxOpens /\ opens[o] <= opens[o]
  BY DEF Begun
<1>8. BackupsAreOpens'
  <2>1. \A n \in DOMAIN backups' : \E p \in Opener, k \in 1..MaxOpens : k <= opens[p] /\ n.at = Now[p][k]
    BY <1>1, <1>3, <1>7 DEF BackupsAreOpens
  <2>2. ASSUME NEW p \in Opener, opening'[p] = "backup", NEW n \in DOMAIN backups'
        PROVE  n.at # Now[p][opens[p]]
    <3>1. p # o /\ opening[p] = "backup" /\ opens[p] \in 1..MaxOpens
      BY <2>2, <1>4 DEF Begun
    <3> QED
      BY <3>1, <1>1, <1>3, <1>7 DEF BackupsAreOpens, NamesApart
  <2> QED
    BY <2>1, <2>2 DEF BackupsAreOpens
<1>9. BackupKept'
  BY <1>3 DEF BackupKept
<1> QED
  BY <1>3, <1>5, <1>6, <1>8, <1>9

\* The copy is of the store as it is now: below whatever is committed from here on.
LEMMA BackupKeepsMigrateInv ==
  ASSUME NamesApart, MigrateInv, NEW o \in Opener, Backup(o)
  PROVE  MigrateInv'
<1> USE DEF MigrateInv
<1>1. opening[o] = "backup" /\ GoOpen(o, "check") /\ UNCHANGED <<modules, hasTable, history, opens, current, at>>
  BY DEF Backup
<1>2. \A p \in Opener : opening'[p] = IF p = o THEN "check" ELSE opening[p]
  BY <1>1 DEF GoOpen, MigrateTypes
<1>3. CASE o \in Override
  <2>1. backups' = backups
    BY <1>3 DEF Backup
  <2>2. MigrateTypes' /\ EachOnceInOrder' /\ Begun' /\ LoopFollows' /\ BackupKept'
    BY <1>1, <1>2, <2>1 DEF MigrateTypes, GoOpen, EachOnceInOrder, Begun, LoopFollows, BackupKept
  <2>3. BackupsAreOpens' /\ BackedUp'
    BY <1>1, <1>2, <1>3, <2>1 DEF BackupsAreOpens, BackedUp, Newest, Below
  <2> QED
    BY <2>2, <2>3
<1>4. CASE o \notin Override
  <2>1. backups' = Saved(BackupName(o), {Version}) /\ Version = Len(history) /\ Len(history) \in Nat
    BY <1>4, VersionIsLength, HistoryIsTyped DEF Backup
  <2>2. /\ MigrateTypes' /\ EachOnceInOrder' /\ Begun' /\ BackupsAreOpens' /\ LoopFollows' /\ BackupKept'
        /\ \A v : Below(v) => Below(v)'
        /\ BackupName(o) \in DOMAIN backups' /\ backups'[BackupName(o)] = {Version}
    BY <1>1, <2>1, FileKeeps
  <2>3. Below(Len(history) + 1)'
    <3>1. Len(history) < Len(history) + 1
      BY <2>1
    <3>2. BackupName(o) \in DOMAIN backups' /\ backups'[BackupName(o)] = {Len(history)}
      BY <2>1, <2>2
    <3>3. \E n \in DOMAIN backups' : \E w \in backups'[n] : w < Len(history) + 1
      BY <3>1, <3>2
    <3> QED
      BY <1>1, <3>3 DEF Below
  <2>4. BackedUp'
    BY <1>1, <1>2, <2>2, <2>3 DEF BackedUp, Newest
  <2> QED
    BY <2>2, <2>4
<1> QED
  BY <1>3, <1>4

\* A step that only moves one opener to "closed" or "open", or keeps it.
LEMMA MovesKeepMigrateInv ==
  ASSUME MigrateInv, NEW o \in Opener, NEW l \in {"closed", "open"}, GoOpen(o, l), opening[o] # "closed",
         UNCHANGED <<modules, hasTable, history, backups, opens, current, at>>
  PROVE  MigrateInv'
<1> USE DEF MigrateInv
<1>1. \A p \in Opener : opening'[p] = IF p = o THEN l ELSE opening[p]
  BY DEF GoOpen, MigrateTypes
<1>2. MigrateTypes' /\ EachOnceInOrder' /\ Begun' /\ BackupKept'
  BY <1>1 DEF MigrateTypes, GoOpen, EachOnceInOrder, Begun, BackupKept
<1>3. BackupsAreOpens' /\ LoopFollows' /\ BackedUp'
  BY <1>1 DEF BackupsAreOpens, LoopFollows, BackedUp, Newest, Below
<1> QED
  BY <1>2, <1>3

LEMMA BackupFailsKeepsMigrateInv ==
  ASSUME NamesApart, MigrateInv, NEW o \in Opener, BackupFails(o)
  PROVE  MigrateInv'
<1> USE DEF MigrateInv
<1>1. opening[o] = "backup" /\ GoOpen(o, "closed") /\ UNCHANGED <<modules, hasTable, history, opens, current, at>>
  BY DEF BackupFails
<1>2. CASE backups' = backups
  BY <1>1, <1>2, MovesKeepMigrateInv
<1>3. CASE backups' = Saved(BackupName(o), {})
  <2>1. /\ MigrateTypes' /\ EachOnceInOrder' /\ Begun' /\ BackupsAreOpens' /\ LoopFollows' /\ BackupKept'
        /\ \A v : Below(v) => Below(v)'
    BY <1>1, <1>3, FileKeeps
  <2>2. \A p \in Opener : opening'[p] = IF p = o THEN "closed" ELSE opening[p]
    BY <1>1 DEF GoOpen, MigrateTypes
  <2>3. BackedUp'
    BY <1>1, <2>1, <2>2 DEF BackedUp, Newest
  <2> QED
    BY <2>1, <2>3
<1> QED
  BY <1>2, <1>3 DEF BackupFails

LEMMA CheckKeepsMigrateInv ==
  ASSUME MigrateInv, NEW o \in Opener, Check(o)
  PROVE  MigrateInv'
<1> USE DEF MigrateInv
<1>1. opening[o] = "check" /\ UNCHANGED <<modules, history, backups, opens, current>>
  BY DEF Check
<1>2. CASE Version > Newest(o)
  BY <1>1, <1>2, MovesKeepMigrateInv DEF Check
<1>3. CASE ~(Version > Newest(o))
  <2>1. hasTable' = TRUE /\ at' = [at EXCEPT ![o] = Version + 1] /\ GoOpen(o, "apply")
    BY <1>3 DEF Check
  <2>2. Version = Len(history) /\ Len(history) \in Nat /\ Newest(o) \in Nat
    BY VersionIsLength, HistoryIsTyped, NewestIsNat
  <2>3. \A p \in Opener : /\ opening'[p] = IF p = o THEN "apply" ELSE opening[p]
                          /\ at'[p] = IF p = o THEN Len(history) + 1 ELSE at[p]
    BY <2>1, <2>2 DEF GoOpen, MigrateTypes
  <2>4. MigrateTypes'
    BY <1>1, <2>1, <2>2 DEF MigrateTypes, GoOpen
  <2>5. EachOnceInOrder' /\ BackupKept' /\ BackupsAreOpens'
    BY <1>1, <2>3 DEF EachOnceInOrder, BackupKept, BackupsAreOpens
  <2>6. Begun' /\ LoopFollows'
    BY <1>1, <2>1, <2>2, <2>3 DEF Begun, LoopFollows
  <2>7. BackedUp'
    <3> SUFFICES ASSUME NEW p \in Opener \ Override
                 PROVE  /\ opening'[p] = "check" => Len(history) >= Newest(p) \/ Below(Len(history) + 1)
                        /\ opening'[p] = "apply" => at'[p] > Newest(p) \/ Below(at'[p])
      BY <1>1 DEF BackedUp, Newest, Below
    <3>1. CASE p = o
      BY <3>1, <1>1, <2>2, <2>3 DEF BackedUp
    <3>2. CASE p # o
      BY <3>2, <2>3 DEF BackedUp
    <3> QED
      BY <3>1, <3>2
  <2> QED
    BY <2>4, <2>5, <2>6, <2>7
<1> QED
  BY <1>2, <1>3

\* One transaction: a migration that is not covered is the next one of the store.
LEMMA ApplyKeepsMigrateInv ==
  ASSUME MigrateInv, NEW o \in Opener, Apply(o)
  PROVE  MigrateInv'
<1> USE DEF MigrateInv
<1> DEFINE new == [version |-> at[o], by |-> o]
<1>1. /\ opening[o] = "apply" /\ at[o] <= Newest(o) /\ at' = [at EXCEPT ![o] = @ + 1]
      /\ UNCHANGED <<modules, hasTable, backups, opening, opens, current>>
  BY DEF Apply
<1>2. /\ Version = Len(history) /\ Len(history) \in Nat /\ at[o] \in Nat \ {0} /\ Newest(o) \in Nat
      /\ at[o] <= Len(history) + 1
  BY <1>1, VersionIsLength, HistoryIsTyped, NewestIsNat DEF MigrateTypes, LoopFollows
<1>3. \A p \in Opener : at[p] \in Nat /\ at'[p] = IF p = o THEN at[o] + 1 ELSE at[p]
  BY <1>1 DEF MigrateTypes
<1>4. CASE Covered(o)
  <2>1. history' = history /\ at[o] <= Len(history)
    BY <1>2, <1>4 DEF Apply, Covered
  <2>2. MigrateTypes'
    BY <1>1, <1>2, <2>1 DEF MigrateTypes
  <2>3. EachOnceInOrder' /\ BackupKept' /\ BackupsAreOpens' /\ Begun'
    BY <1>1, <2>1 DEF EachOnceInOrder, BackupKept, BackupsAreOpens, Begun
  <2>4. LoopFollows'
    BY <1>1, <1>2, <1>3, <2>1 DEF LoopFollows
  <2>5. BackedUp'
    <3> SUFFICES ASSUME NEW p \in Opener \ Override
                 PROVE  /\ opening[p] = "check" => Len(history) >= Newest(p) \/ Below(Len(history) + 1)
                        /\ opening[p] = "apply" => at'[p] > Newest(p) \/ Below(at'[p])
      BY <1>1, <2>1 DEF BackedUp, Newest, Below
    <3>1. CASE p = o
      <4>1. Below(at[o]) => Below(at[o] + 1)
        <5> SUFFICES ASSUME Below(at[o]) PROVE Below(at[o] + 1)
          OBVIOUS
        <5>1. PICK n \in DOMAIN backups : \E w \in backups[n] : w < at[o]
          BY DEF Below
        <5>2. PICK w \in backups[n] : w < at[o]
          BY <5>1
        <5>3. w \in Nat
          BY DEF MigrateTypes
        <5> QED
          BY <1>2, <5>2, <5>3 DEF Below
      <4> QED
        BY <3>1, <4>1, <1>1, <1>2, <1>3 DEF BackedUp
    <3>2. CASE p # o
      BY <3>2, <1>3 DEF BackedUp
    <3> QED
      BY <3>1, <3>2
  <2> QED
    BY <2>2, <2>3, <2>4, <2>5
<1>5. CASE ~Covered(o)
  <2>1. history' = Append(history, new) /\ at[o] = Len(history) + 1
    BY <1>2, <1>5 DEF Apply, Covered
  <2>2. new \in Row
    BY <1>2 DEF Row
  <2>3. /\ history' \in Seq(Row) /\ history' # <<>> /\ Len(history') = Len(history) + 1
        /\ DOMAIN history' = 1..(Len(history) + 1) /\ DOMAIN history = 1..Len(history)
        /\ history'[Len(history) + 1] = new /\ \A i \in DOMAIN history : history'[i] = history[i]
    BY <2>1, <2>2, AppendProperties DEF MigrateTypes
  <2>4. MigrateTypes'
    BY <1>1, <1>2, <2>3 DEF MigrateTypes
  <2>5. EachOnceInOrder'
    BY <1>2, <2>1, <2>3 DEF EachOnceInOrder
  <2>6. Begun' /\ BackupsAreOpens'
    BY <1>1 DEF Begun, BackupsAreOpens
  <2>7. LoopFollows'
    BY <1>1, <1>2, <1>3, <2>1, <2>3 DEF LoopFollows
  <2>8. o \in Override \/ Below(at[o])
    BY <1>1, <1>2 DEF BackedUp
  <2>9. BackupKept'
    <3> SUFFICES ASSUME NEW i \in DOMAIN history', history'[i].by \notin Override
                 PROVE  Below(history'[i].version)
      BY <1>1 DEF BackupKept, Below
    <3>1. CASE i \in DOMAIN history
      BY <3>1, <2>3 DEF BackupKept, Below
    <3>2. CASE i = Len(history) + 1
      BY <3>2, <2>3, <2>8
    <3> QED
      BY <3>1, <3>2, <2>3
  <2>10. \A v \in Nat : Below(v) => Below(v + 1)
    <3> SUFFICES ASSUME NEW v \in Nat, Below(v) PROVE Below(v + 1)
      OBVIOUS
    <3>1. PICK n \in DOMAIN backups : \E w \in backups[n] : w < v
      BY DEF Below
    <3>2. PICK w \in backups[n] : w < v
      BY <3>1
    <3>3. w \in Nat
      BY DEF MigrateTypes
    <3> QED
      BY <3>2, <3>3 DEF Below
  <2>11. BackedUp'
    <3> SUFFICES ASSUME NEW p \in Opener \ Override
                 PROVE  /\ opening[p] = "check" => Len(history') >= Newest(p) \/ Below(Len(history') + 1)
                        /\ opening[p] = "apply" => at'[p] > Newest(p) \/ Below(at'[p])
      BY <1>1 DEF BackedUp, Newest, Below
    <3>1. Newest(p) \in Nat
      BY NewestIsNat
    <3>2. opening[p] = "check" => Len(history') >= Newest(p) \/ Below(Len(history') + 1)
      BY <1>2, <2>3, <2>10, <3>1 DEF BackedUp
    <3>3. CASE p = o
      BY <3>2, <3>3, <1>1, <1>2, <1>3, <2>8, <2>10
    <3>4. CASE p # o
      BY <3>2, <3>4, <1>3 DEF BackedUp
    <3> QED
      BY <3>3, <3>4
  <2> QED
    BY <2>4, <2>5, <2>6, <2>7, <2>9, <2>11
<1> QED
  BY <1>4, <1>5

LEMMA StepKeepsMigrateInv == NamesApart /\ MigrateInv /\ [MigrateNext]_migrateVars => MigrateInv'
<1> SUFFICES ASSUME NamesApart, MigrateInv, [MigrateNext]_migrateVars PROVE MigrateInv'
  OBVIOUS
<1>1. CASE \E o \in Opener : Open(o) \/ Backup(o) \/ BackupFails(o) \/ Check(o) \/ Apply(o)
  BY <1>1, OpenKeepsMigrateInv, BackupKeepsMigrateInv, BackupFailsKeepsMigrateInv, CheckKeepsMigrateInv,
     ApplyKeepsMigrateInv
<1>2. CASE \E o \in Opener : ReadBack(o) \/ Close(o)
  BY <1>2, MovesKeepMigrateInv DEF ReadBack, Close
<1>3. CASE UNCHANGED migrateVars
  BY <1>3 DEF migrateVars, MigrateInv, MigrateTypes, EachOnceInOrder, Begun, BackupsAreOpens, LoopFollows, BackedUp,
              BackupKept, Newest, Below
<1> QED
  BY <1>1, <1>2, <1>3 DEF MigrateNext, AllClosed

-----------------------------------------------------------------------------
\* However openers race, fail and die, the store has one history of migrations, a whole backup
\* from before each, and no user whose code does not match it (open_store, migrate), provided
\* no two opens share a backup's name: with a shared one the second copy replaces the first.
THEOREM StoresHaveOneHistory ==
  ASSUME NamesApart
  PROVE  MigrateSpec => OneHistory
<1>1. MigrateInit => MigrateInv
  BY InitHasMigrateInv
<1>2. MigrateInv /\ [MigrateNext]_migrateVars => MigrateInv'
  BY StepKeepsMigrateInv
<1>3. MigrateInv => MigrateTypeOK /\ EachOnceInOrder /\ BackupKept
  BY HistoryIsTyped DEF MigrateInv, MigrateTypes, MigrateTypeOK
<1>4. MigrateInv /\ [MigrateNext]_migrateVars =>
        [\A o \in Opener : opening[o] # "open" /\ opening'[o] = "open" => Version = Newest(o)]_migrateVars
  <2> SUFFICES ASSUME MigrateInv, MigrateNext, NEW o \in Opener, opening[o] # "open", opening'[o] = "open"
               PROVE  Version = Newest(o)
    BY DEF migrateVars
  <2>1. \A p \in Opener, l \in {"closed", "backup", "check", "apply"} : ~GoOpen(p, l)
    BY DEF GoOpen, MigrateInv, MigrateTypes
  <2>2. PICK p \in Opener : ReadBack(p)
    BY <2>1 DEF MigrateNext, Open, Backup, BackupFails, Check, Apply, Close, AllClosed, migrateVars
  <2>3. GoOpen(p, "open") /\ Reached(p)
    BY <2>1, <2>2 DEF ReadBack
  <2>4. p = o
    BY <2>3 DEF GoOpen, MigrateInv, MigrateTypes
  <2> QED
    BY <2>3, <2>4 DEF Reached
<1> QED
  BY <1>1, <1>2, <1>3, <1>4, PTL DEF MigrateSpec, OneHistory, OpensAtItsVersion

-----------------------------------------------------------------------------
(* Numbers and pages *)

\* A set of numbers has a least one.
LEMMA LeastNumber ==
  ASSUME NEW S, S \subseteq Nat, S # {}
  PROVE  \E m \in S : \A k \in S : m <= k
<1> DEFINE R == {p \in Nat \X Nat : p[1] < p[2]}
<1>1. OpToRel(<, Nat) = R
  BY DEF OpToRel
<1>2. IsWellFoundedOn(R, Nat)
  BY <1>1, NatLessThanWellFounded
<1>3. \A a, b \in Nat : a < b => <<a, b>> \in R
  <2> SUFFICES ASSUME NEW a \in Nat, NEW b \in Nat, a < b PROVE <<a, b>> \in R
    OBVIOUS
  <2>1. <<a, b>> \in Nat \X Nat
    OBVIOUS
  <2>2. <<a, b>>[1] < <<a, b>>[2]
    OBVIOUS
  <2> QED BY <2>1, <2>2
<1> HIDE DEF R
<1>4. PICK x \in S : \A y \in S : ~ (<<y, x>> \in R)
  BY <1>2, WFMin
<1>5. ASSUME NEW k \in S PROVE x <= k
  <2>1. k \in Nat /\ x \in Nat /\ ~ (k < x)
    BY <1>3, <1>4, ZenonT(20)
  <2> QED BY <2>1
<1> QED BY <1>5

RowsBelow(rows, k) == {j \in rows : j < k}
Lowest(rows, n) == {k \in rows : Rank(rows, k) < n}

LEMMA RankIsCount ==
  ASSUME NEW rows \in SUBSET Nat, IsFiniteSet(rows), NEW k \in rows
  PROVE  /\ Rank(rows, k) \in Nat /\ Rank(rows, k) < Cardinality(rows)
         /\ \A j \in rows : j < k => Rank(rows, j) < Rank(rows, k)
<1>1. RowsBelow(rows, k) \subseteq rows /\ k \notin RowsBelow(rows, k) /\ Rank(rows, k) = Cardinality(RowsBelow(rows, k))
  BY DEF RowsBelow, Rank
<1>2. /\ IsFiniteSet(RowsBelow(rows, k)) /\ Cardinality(RowsBelow(rows, k)) <= Cardinality(rows)
      /\ Cardinality(rows) = Cardinality(RowsBelow(rows, k)) => rows = RowsBelow(rows, k)
  BY <1>1, FS_Subset
<1>3. Cardinality(RowsBelow(rows, k)) \in Nat /\ Cardinality(rows) \in Nat
  BY <1>2, FS_CardinalityType
<1>4. ASSUME NEW j \in rows, j < k PROVE Rank(rows, j) < Rank(rows, k)
  <2>1. RowsBelow(rows, j) \subseteq RowsBelow(rows, k) /\ j \in RowsBelow(rows, k) /\ j \notin RowsBelow(rows, j)
    <3>1. j \in Nat /\ k \in Nat
      OBVIOUS
    <3>2. ASSUME NEW i \in RowsBelow(rows, j) PROVE i \in RowsBelow(rows, k)
      <4>1. i \in rows /\ i < j /\ i \in Nat
        BY DEF RowsBelow
      <4>2. i < k
        BY <4>1, <3>1, <1>4
      <4> QED BY <4>1, <4>2 DEF RowsBelow
    <3>3. ~(j < j)
      BY <3>1
    <3>4. j \in RowsBelow(rows, k) /\ j \notin RowsBelow(rows, j)
      BY <1>4, <3>3 DEF RowsBelow
    <3> QED BY <3>2, <3>4
  <2>2. /\ IsFiniteSet(RowsBelow(rows, j)) /\ Cardinality(RowsBelow(rows, j)) <= Cardinality(RowsBelow(rows, k))
        /\ Cardinality(RowsBelow(rows, k)) = Cardinality(RowsBelow(rows, j)) => RowsBelow(rows, k) = RowsBelow(rows, j)
    BY <2>1, <1>2, FS_Subset
  <2>3. Cardinality(RowsBelow(rows, j)) \in Nat
    BY <2>2, FS_CardinalityType
  <2>4. Rank(rows, j) = Cardinality(RowsBelow(rows, j))
    BY DEF RowsBelow, Rank
  <2> QED BY <2>1, <2>2, <2>3, <2>4, <1>1, <1>3
<1> QED BY <1>1, <1>2, <1>3, <1>4

\* The rows with fewer than n rows before them are n, as long as there are n.
LEMMA LowestIsMany ==
  ASSUME NEW rows \in SUBSET Nat, IsFiniteSet(rows), NEW n \in 0..Cardinality(rows)
  PROVE  Cardinality(Lowest(rows, n)) = n
<1> DEFINE Wrong == {i \in 0..Cardinality(rows) : Cardinality(Lowest(rows, i)) # i}
<1>1. Cardinality(rows) \in Nat
  BY FS_CardinalityType
<1>2. SUFFICES ASSUME Wrong # {} PROVE FALSE
  OBVIOUS
<1>3. Wrong \subseteq Nat
  BY <1>1
<1>4. PICK m \in Wrong : \A i \in Wrong : m <= i
  <2> HIDE DEF Wrong
  <2> QED BY <1>2, <1>3, LeastNumber
<1>5. m \in Nat /\ m <= Cardinality(rows) /\ Cardinality(Lowest(rows, m)) # m
  BY <1>1, <1>4
<1>6. Lowest(rows, 0) = {}
  <2>1. \A k \in rows : ~(Rank(rows, k) < 0)
    BY RankIsCount
  <2> QED BY <2>1 DEF Lowest
<1>7. m # 0
  BY <1>5, <1>6, FS_EmptySet
<1> DEFINE p == m - 1
           L == Lowest(rows, p)
<1>8. p \in Nat /\ p + 1 = m /\ p < Cardinality(rows) /\ p \in 0..Cardinality(rows) /\ ~(m <= p)
  BY <1>5, <1>7, <1>1
<1>9. Cardinality(L) = p
  BY <1>8, <1>4
<1> HIDE DEF p, Wrong
<1>10. L \subseteq rows /\ IsFiniteSet(L)
  BY FS_Subset DEF Lowest
<1>11. rows \ L # {}
  BY <1>8, <1>9, <1>10, <1>1
<1>12. PICK k \in rows \ L : \A j \in rows \ L : k <= j
  BY <1>11, LeastNumber
<1>13. k \in rows /\ k \in Nat /\ Rank(rows, k) \in Nat /\ ~(Rank(rows, k) < p)
  BY <1>12, RankIsCount DEF Lowest
<1>14. RowsBelow(rows, k) = L
  <2>1. ASSUME NEW j \in RowsBelow(rows, k) PROVE j \in L
    <3>1. j \in rows /\ j < k /\ j \in Nat
      BY DEF RowsBelow
    <3> QED BY <3>1, <1>12, <1>13
  <2>2. ASSUME NEW j \in L PROVE j \in RowsBelow(rows, k)
    <3>1. j \in rows /\ j \in Nat /\ Rank(rows, j) < p /\ Rank(rows, j) \in Nat
      BY RankIsCount DEF Lowest
    <3>2. k < j => Rank(rows, k) < Rank(rows, j)
      BY <3>1, <1>13, RankIsCount
    <3>3. k # j
      BY <3>1, <1>13
    <3>4. j < k
      BY <3>1, <3>2, <3>3, <1>13, <1>8
    <3> QED BY <3>1, <3>4 DEF RowsBelow
  <2> QED BY <2>1, <2>2
<1>15. Rank(rows, k) = p
  BY <1>14, <1>9 DEF Rank, RowsBelow
<1>16. Lowest(rows, m) = L \cup {k}
  <2>1. ASSUME NEW j \in Lowest(rows, m), j \notin L, j # k PROVE FALSE
    <3>1. j \in rows \ L /\ j \in Nat /\ Rank(rows, j) < m /\ Rank(rows, j) \in Nat
      BY <2>1, RankIsCount DEF Lowest
    <3>2. k < j
      BY <3>1, <2>1, <1>12, <1>13
    <3>3. Rank(rows, k) < Rank(rows, j)
      BY <3>1, <3>2, <1>13, RankIsCount
    <3> QED BY <3>1, <3>3, <1>15, <1>8
  <2>2. ASSUME NEW j \in L PROVE j \in Lowest(rows, m)
    <3>1. j \in rows /\ Rank(rows, j) < p /\ Rank(rows, j) \in Nat
      BY RankIsCount DEF Lowest
    <3> QED BY <3>1, <1>8 DEF Lowest
  <2>3. k \in Lowest(rows, m)
    BY <1>15, <1>8, <1>13 DEF Lowest
  <2> QED BY <2>1, <2>2, <2>3
<1>17. Cardinality(Lowest(rows, m)) = p + 1
  <2> HIDE DEF L
  <2>1. Cardinality(L \cup {k}) = IF k \in L THEN Cardinality(L) ELSE Cardinality(L) + 1
    BY <1>10, FS_AddElement
  <2>2. k \notin L
    BY <1>12
  <2> QED BY <1>16, <1>9, <2>1, <2>2
<1> QED BY <1>17, <1>8, <1>5

\* A page after r rows has b rows, or those that are left.
LEMMA PageIs ==
  ASSUME NEW rows \in SUBSET Nat, IsFiniteSet(rows), NEW r \in Nat, r <= Cardinality(rows),
         NEW b \in Nat \ {0}, NEW page, page = {k \in rows : Rank(rows, k) \in r..(r + b - 1)}
  PROVE  /\ IsFiniteSet(page) /\ Cardinality(page) \in Nat /\ Cardinality(page) <= b
         /\ r + Cardinality(page) <= Cardinality(rows)
         /\ \A k \in rows : r <= Rank(rows, k) /\ k \notin page
              => Cardinality(page) = b /\ r + b <= Rank(rows, k)
<1>1. Cardinality(rows) \in Nat
  BY FS_CardinalityType
<1> DEFINE e == IF r + b <= Cardinality(rows) THEN r + b ELSE Cardinality(rows)
<1>2. e \in 0..Cardinality(rows) /\ r \in 0..Cardinality(rows) /\ r <= e /\ e <= r + b /\ e \in Nat
      /\ (e = r + b \/ e = Cardinality(rows))
  BY <1>1
<1> HIDE DEF e
<1>3. Cardinality(Lowest(rows, e)) = e /\ Cardinality(Lowest(rows, r)) = r
  BY <1>2, LowestIsMany
<1>4. \A k \in rows : Rank(rows, k) \in Nat /\ Rank(rows, k) < Cardinality(rows)
  BY RankIsCount
<1>5. page \subseteq rows /\ IsFiniteSet(page) /\ Lowest(rows, r) \subseteq rows /\ IsFiniteSet(Lowest(rows, r))
  BY FS_Subset DEF Lowest
<1>6. Lowest(rows, e) = Lowest(rows, r) \cup page
  <2>1. \A k \in rows : Rank(rows, k) < e <=> Rank(rows, k) < r \/ Rank(rows, k) \in r..(r + b - 1)
    BY <1>2, <1>4
  <2> QED BY <2>1 DEF Lowest
<1>7. Lowest(rows, r) \cap page = {}
  BY <1>4 DEF Lowest
<1>12. Cardinality(Lowest(rows, r)) \in Nat /\ Cardinality(page) \in Nat
  BY <1>5, FS_CardinalityType
<1>8. Cardinality(Lowest(rows, r) \cup page) = Cardinality(Lowest(rows, r)) + Cardinality(page)
  BY <1>5, <1>7, <1>12, FS_Union, FS_EmptySet
<1>9. Cardinality(page) \in Nat
  BY <1>5, FS_CardinalityType
<1>10. Cardinality(page) = e - r
  BY <1>3, <1>6, <1>8, <1>9, <1>2
<1>11. ASSUME NEW k \in rows, r <= Rank(rows, k), k \notin page
       PROVE  Cardinality(page) = b /\ r + b <= Rank(rows, k)
  <2>1. Rank(rows, k) \in Nat /\ ~(Rank(rows, k) <= r + b - 1)
    BY <1>4, <1>11
  <2> QED BY <2>1, <1>4, <1>2, <1>10, <1>1
<1> QED BY <1>5, <1>9, <1>10, <1>11, <1>2, <1>1

-----------------------------------------------------------------------------
(* What a copy has done so far *)

Stores == [Created -> [Key -> 0..MaxContent]]
Reports == [Created -> [source : Nat, copied : Nat, refreshed : Int]]

CopyTyped ==
  /\ src \in Stores /\ dst \in Stores /\ seen \in Stores
  /\ command \in {"idle", "copy", "ok", "short"} /\ copies \in 0..MaxCopies
  /\ todo \subseteq Created /\ read \in Nat /\ written \in Nat /\ before \in Nat
  /\ everCopied \in [Created -> Nat] /\ report \in Reports

\* The source never holds a row of the child without its parent, nor less than it held.
SourceStands ==
  /\ \A k \in Key : src[ChildTable][k] # 0 => src[ParentTable][k] # 0
  /\ \A t \in Created, k \in Key : seen[t][k] <= src[t][k]

CopiedRow(t, k) == dst[t][k] # 0 /\ (t \in Refreshed => seen[t][k] <= dst[t][k])
Copied(t) == \A k \in Key : seen[t][k] # 0 => CopiedRow(t, k)

\* No report speaks of more rows than there are.
Reported == \A t \in Created : report[t].source <= Count(src, t)

\* What is left of the plan is what comes after all that is done.
InPlan ==
  /\ Unnamed = {}
  /\ \A t \in todo, u \in Created \ todo : Place(u) < Place(t)

\* The table at work: the rows before the offset are copied.
AtWork(t) ==
  /\ read <= Count(src, t)
  /\ everCopied[t] <= before /\ before <= Count(dst, t)
  /\ \A k \in Key : seen[t][k] # 0 => CopiedRow(t, k) \/ read <= Rank(Rows(src, t), k)

CopyGoes ==
  command = "copy" => /\ InPlan
                      /\ todo # {} => AtWork(First(todo))
                      /\ \A t \in Created \ todo : Copied(t)

CopyInv ==
  /\ CopyTyped /\ SourceStands /\ Reported /\ InsertedOnce /\ ShortIsReal /\ CopyGoes
  /\ command = "ok" => \A t \in Created : Copied(t)

LEMMA RowsAreNumbers ==
  ASSUME NEW store \in Stores, NEW t \in Created
  PROVE  /\ Rows(store, t) \in SUBSET Nat /\ Rows(store, t) \subseteq Key /\ IsFiniteSet(Rows(store, t))
         /\ Count(store, t) = Cardinality(Rows(store, t)) /\ Count(store, t) \in Nat
         /\ \A k \in Key : store[t][k] \in 0..MaxContent /\ store[t][k] \in Nat
                           /\ (store[t][k] # 0 <=> k \in Rows(store, t))
<1>1. Rows(store, t) \subseteq Key
  BY DEF Rows
<1>2. IsFiniteSet(Rows(store, t))
  BY <1>1, CopyConstants, FS_Subset
<1>3. \A k \in Key : store[t][k] \in 0..MaxContent /\ store[t][k] \in Nat
  <2>1. store[t] \in [Key -> 0..MaxContent]
    BY DEF Stores
  <2>2. \A k \in Key : store[t][k] \in 0..MaxContent
    BY <2>1
  <2>3. 0..MaxContent \subseteq Nat
    BY CopyConstants
  <2> QED BY <2>2, <2>3
<1>4. Count(store, t) = Cardinality(Rows(store, t)) /\ Count(store, t) \in Nat
  BY <1>2, FS_CardinalityType DEF Count
<1> QED BY <1>1, <1>2, <1>3, <1>4, CopyConstants DEF Rows

\* A store that grows counts no less, and ranks no row lower.
LEMMA Growing ==
  ASSUME NEW s \in Stores, NEW n \in Stores, NEW t \in Created,
         \A k \in Key : s[t][k] # 0 => n[t][k] # 0
  PROVE  /\ Count(s, t) <= Count(n, t)
         /\ \A k \in Key : /\ Rank(Rows(s, t), k) \in Nat /\ Rank(Rows(n, t), k) \in Nat
                           /\ Rank(Rows(s, t), k) <= Rank(Rows(n, t), k)
<1>1. Rows(s, t) \subseteq Rows(n, t) /\ IsFiniteSet(Rows(n, t))
  BY RowsAreNumbers
<1>2. Count(s, t) <= Count(n, t)
  BY <1>1, FS_Subset DEF Count
<1>3. ASSUME NEW k \in Key
      PROVE  /\ Rank(Rows(s, t), k) \in Nat /\ Rank(Rows(n, t), k) \in Nat
             /\ Rank(Rows(s, t), k) <= Rank(Rows(n, t), k)
  <2> DEFINE B == {j \in Rows(n, t) : j < k}
             A == {j \in Rows(s, t) : j < k}
  <2>1. B \subseteq Rows(n, t) /\ A \subseteq B
    BY <1>1
  <2>2. Rank(Rows(n, t), k) = Cardinality(B) /\ Rank(Rows(s, t), k) = Cardinality(A)
    BY DEF Rank
  <2> HIDE DEF A, B
  <2>3. IsFiniteSet(B)
    BY <2>1, <1>1, FS_Subset
  <2>4. IsFiniteSet(A) /\ Cardinality(A) <= Cardinality(B)
    BY <2>1, <2>3, FS_Subset
  <2> QED BY <2>2, <2>3, <2>4, FS_CardinalityType
<1> QED BY <1>2, <1>3

LEMMA PlaceIs ==
  ASSUME Unnamed = {}, NEW t \in Created
  PROVE  Place(t) \in DOMAIN Order /\ Order[Place(t)] = t /\ Place(t) \in Nat
<1>1. \E i \in DOMAIN Order : Order[i] = t
  BY DEF Unnamed
<1>2. Place(t) \in DOMAIN Order /\ Order[Place(t)] = t
  BY <1>1, Zenon DEF Place
<1>3. DOMAIN Order \subseteq Nat
  BY CopyConstants
<1> QED BY <1>2, <1>3

LEMMA FirstIs ==
  ASSUME Unnamed = {}, NEW tables, tables \subseteq Created, tables # {}
  PROVE  /\ First(tables) \in tables
         /\ \A u \in tables \ {First(tables)} : Place(First(tables)) < Place(u)
<1> DEFINE Places == {Place(t) : t \in tables}
<1>1. Places \subseteq Nat /\ Places # {}
  BY PlaceIs
<1>2. PICK m \in Places : \A k \in Places : m <= k
  <2> HIDE DEF Places
  <2> QED BY <1>1, LeastNumber
<1>3. \E t \in tables : \A u \in tables : Place(t) <= Place(u)
  BY <1>2
<1>4. First(tables) \in tables /\ \A u \in tables : Place(First(tables)) <= Place(u)
  BY <1>3, Zenon DEF First
<1>5. ASSUME NEW u \in tables \ {First(tables)} PROVE Place(First(tables)) < Place(u)
  <2>1. /\ Place(u) \in Nat /\ Place(First(tables)) \in Nat
        /\ Order[Place(u)] = u /\ Order[Place(First(tables))] = First(tables)
    BY <1>4, PlaceIs
  <2>2. Place(u) # Place(First(tables)) /\ Place(First(tables)) <= Place(u)
    BY <2>1, <1>4, <1>5
  <2> QED BY <2>1, <2>2
<1> QED BY <1>4, <1>5

\* A table whose copy begins.
LEMMA BegunAtWork ==
  ASSUME CopyTyped, InsertedOnce, NEW t \in Created, Begin(t),
         src' = src, everCopied' = everCopied, dst' \in Stores,
         \A k \in Key : dst'[t][k] = dst[t][k]
  PROVE  AtWork(t)' /\ read' \in Nat /\ written' \in Nat /\ before' \in Nat
         /\ seen' \in Stores /\ \A u \in Created, k \in Key : seen'[u][k] <= src[u][k] \/ seen'[u][k] = seen[u][k]
<1>1. read' = 0 /\ written' = 0 /\ before' = Count(dst, t) /\ seen' = [seen EXCEPT ![t] = src[t]]
  BY DEF Begin, BeginAt
<1>2. src \in Stores /\ dst \in Stores /\ seen \in Stores /\ src[t] \in [Key -> 0..MaxContent]
  BY DEF CopyTyped, Stores
<1>3. seen' \in Stores
  BY <1>1, <1>2 DEF Stores
<1>4. Count(src, t) \in Nat /\ Count(dst, t) \in Nat /\ Count(dst', t) \in Nat /\ Count(dst, t) <= Count(dst', t)
  BY <1>2, RowsAreNumbers, Growing
<1>5. \A k \in Key : Rank(Rows(src, t), k) \in Nat
  BY <1>2, Growing
<1>6. everCopied[t] <= Count(dst, t)
  BY DEF InsertedOnce
<1>7. AtWork(t)'
  <2>1. Count(src, t)' = Count(src, t) /\ Count(dst, t)' = Count(dst', t)
        /\ \A k \in Key : Rank(Rows(src, t), k)' = Rank(Rows(src, t), k)
    BY DEF Count, Rows, Rank
  <2> QED BY <2>1, <1>1, <1>4, <1>5, <1>6 DEF AtWork
<1>8. ASSUME NEW u \in Created, NEW k \in Key
      PROVE  seen'[u][k] <= src[u][k] \/ seen'[u][k] = seen[u][k]
  <2>1. src[u][k] \in Nat
    BY <1>2, RowsAreNumbers
  <2>2. CASE u = t
    <3>1. seen'[u] = src[u]
      BY <2>2, <1>1, <1>2 DEF Stores
    <3> QED BY <3>1, <2>1
  <2>3. CASE u # t
    BY <2>3, <1>1, <1>2 DEF Stores
  <2> QED BY <2>2, <2>3
<1> QED BY <1>1, <1>3, <1>4, <1>7, <1>8

LEMMA CopyStarts == CopyInit => CopyInv
<1> SUFFICES ASSUME CopyInit PROVE CopyInv
  OBVIOUS
<1>1. PICK s \in {x \in [Created -> [Key -> 0..1]] : \A k \in Key : x[ChildTable][k] <= x[ParentTable][k]} : src = s
  BY DEF CopyInit
<1>2. s \in [Created -> [Key -> 0..1]] /\ \A k \in Key : s[ChildTable][k] <= s[ParentTable][k]
  BY <1>1
<1>3. ParentTable \in Created /\ ChildTable \in Created /\ MaxContent \in Nat \ {0}
  BY CopyConstants
<1>4. \A t \in Created, k \in Key : src[t][k] \in 0..1 /\ src[t][k] \in 0..MaxContent
  <2>1. \A t \in Created, k \in Key : s[t][k] \in 0..1
    BY <1>2
  <2>2. 0..1 \subseteq 0..MaxContent
    BY <1>3
  <2> QED BY <1>1, <2>1, <2>2
<1>5. src \in Stores
  <2>1. src = [t \in Created |-> [k \in Key |-> s[t][k]]]
    BY <1>1, <1>2
  <2>2. \A t \in Created : [k \in Key |-> s[t][k]] \in [Key -> 0..MaxContent]
    BY <1>4, <1>1
  <2> QED BY <2>1, <2>2 DEF Stores
<1>6. dst \in Stores
  <2> DEFINE none == [t \in Created |-> [k \in Key |-> 0]]
             grown == [src EXCEPT ![ChildTable] = [k \in Key |-> MaxContent * src[ChildTable][k]]]
  <2>1. none \in Stores
    BY <1>3 DEF Stores
  <2>2. \A k \in Key : MaxContent * src[ChildTable][k] \in 0..MaxContent
    <3> SUFFICES ASSUME NEW k \in Key PROVE MaxContent * src[ChildTable][k] \in 0..MaxContent
      OBVIOUS
    <3>1. src[ChildTable][k] = 0 \/ src[ChildTable][k] = 1
      BY <1>3, <1>4
    <3>2. MaxContent * 0 = 0 /\ MaxContent * 1 = MaxContent
      BY <1>3
    <3> QED BY <3>1, <3>2, <1>3
  <2>3. [k \in Key |-> MaxContent * src[ChildTable][k]] \in [Key -> 0..MaxContent]
    BY <2>2
  <2>4. grown \in Stores
    BY <2>3, <1>5, <1>3 DEF Stores
  <2>5. dst = none \/ dst = src \/ dst = grown
    BY DEF CopyInit
  <2> HIDE DEF none, grown
  <2> QED BY <2>1, <2>4, <2>5, <1>5
<1>7. /\ command = "idle" /\ copies = 0 /\ todo = {} /\ read = 0 /\ written = 0 /\ before = 0
      /\ report = NoReport /\ seen = src /\ everCopied = [t \in Created |-> 0]
  BY DEF CopyInit
<1>8. report \in Reports /\ \A t \in Created : report[t].source = 0
  BY <1>7 DEF NoReport, Reports
<1>9. \A t \in Created : Count(src, t) \in Nat /\ Count(dst, t) \in Nat
  BY <1>5, <1>6, RowsAreNumbers
<1>10. CopyTyped
  BY <1>5, <1>6, <1>7, <1>8, CopyConstants DEF CopyTyped
<1>11. SourceStands
  <2>1. \A k \in Key : src[ChildTable][k] <= src[ParentTable][k] /\ src[ParentTable][k] \in 0..1 /\ src[ChildTable][k] \in 0..1
    BY <1>1, <1>2, <1>3, <1>4
  <2>2. \A t \in Created, k \in Key : src[t][k] \in Nat
    BY <1>4
  <2> QED BY <1>7, <2>1, <2>2 DEF SourceStands
<1>12. Reported /\ InsertedOnce
  BY <1>7, <1>8, <1>9 DEF Reported, InsertedOnce
<1> QED BY <1>7, <1>10, <1>11, <1>12 DEF CopyInv, ShortIsReal, CopyGoes

NoReportIs == report' = NoReport
LEMMA ReportBlank ==
  ASSUME NoReportIs, src \in Stores, src' = src
  PROVE  report' \in Reports /\ Reported'
<1>1. report' \in Reports /\ \A t \in Created : report'[t].source = 0
  BY DEF NoReportIs, NoReport, Reports
<1>2. \A t \in Created : Count(src, t) \in Nat
  BY RowsAreNumbers
<1> QED BY <1>1, <1>2 DEF Reported, Count, Rows

LEMMA StartCopyInv ==
  ASSUME CopyInv, StartCopy
  PROVE  CopyInv'
<1>1. /\ command # "copy" /\ copies < MaxCopies /\ copies' = copies + 1 /\ NoReportIs
      /\ src' = src /\ dst' = dst /\ everCopied' = everCopied
  BY DEF StartCopy, NoReportIs
<1>2. CopyTyped /\ SourceStands /\ InsertedOnce
  BY DEF CopyInv
<1>3. copies' \in 0..MaxCopies
  BY <1>1, <1>2, CopyConstants DEF CopyTyped
<1>4. report' \in Reports /\ Reported'
  BY <1>1, <1>2, ReportBlank DEF CopyTyped
<1>5. InsertedOnce'
  BY <1>1, <1>2 DEF InsertedOnce, Count, Rows
<1>6. CASE Unnamed # {}
  <2>1. command' = "idle" /\ UNCHANGED <<todo, read, written, before, seen>>
    BY <1>6 DEF StartCopy
  <2>2. CopyTyped'
    BY <2>1, <1>1, <1>2, <1>3, <1>4 DEF CopyTyped
  <2>3. SourceStands'
    BY <2>1, <1>1, <1>2 DEF SourceStands
  <2> QED BY <2>1, <2>2, <2>3, <1>4, <1>5 DEF CopyInv, ShortIsReal, CopyGoes
<1>7. CASE Unnamed = {}
  <2> DEFINE t == First(Created)
  <2>1. command' = "copy" /\ todo' = Created /\ Begin(t)
    BY <1>7 DEF StartCopy
  <2>2. t \in Created
    BY <1>7, FirstIs, CopyConstants
  <2> HIDE DEF t
  <2>3. /\ AtWork(t)' /\ read' \in Nat /\ written' \in Nat /\ before' \in Nat /\ seen' \in Stores
        /\ \A u \in Created, k \in Key : seen'[u][k] <= src[u][k] \/ seen'[u][k] = seen[u][k]
    BY <2>1, <2>2, <1>1, <1>2, BegunAtWork DEF CopyTyped
  <2>4. CopyTyped'
    BY <2>1, <2>3, <1>1, <1>2, <1>3, <1>4 DEF CopyTyped
  <2>5. SourceStands'
    BY <2>3, <1>1, <1>2 DEF SourceStands
  <2>6. CopyGoes'
    <3>1. Unnamed' = {} /\ First(todo)' = t
      BY <1>7, <2>1 DEF Unnamed, First, t, Place
    <3>2. InPlan'
      BY <2>1, <3>1 DEF InPlan
    <3>3. AtWork(First(todo))'
      BY <2>3, <3>1 DEF AtWork, CopiedRow, Count, Rows, Rank
    <3> QED BY <2>1, <3>2, <3>3 DEF CopyGoes
  <2> QED BY <2>1, <2>4, <2>5, <2>6, <1>4, <1>5 DEF CopyInv, ShortIsReal
<1> QED BY <1>6, <1>7

\* What a batch does to the table it is of.
LEMMA BatchWrites ==
  ASSUME CopyTyped, SourceStands, NEW t \in Created, NEW page, page = Page(t), NEW after, after = After(t, page)
  PROVE  /\ page \subseteq Rows(src, t) /\ after \in [Key -> 0..MaxContent]
         /\ \A k \in Key : /\ dst[t][k] # 0 => after[k] # 0
                           /\ t \notin Refreshed /\ dst[t][k] # 0 => after[k] = dst[t][k]
                           /\ dst[t][k] = 0 /\ after[k] # 0 => src[t][k] # 0
                           /\ k \in page \/ CopiedRow(t, k) =>
                                after[k] # 0 /\ (t \in Refreshed => seen[t][k] <= after[k])
<1>1. page \subseteq Rows(src, t)
  BY DEF Page
<1>2. src \in Stores /\ dst \in Stores /\ seen \in Stores
  BY DEF CopyTyped
<1>3. \A k \in Key : src[t][k] \in 0..MaxContent /\ dst[t][k] \in 0..MaxContent
  BY <1>2, RowsAreNumbers
<1>4. after = [k \in Key |-> IF k \in page /\ (dst[t][k] = 0 \/ t \in Refreshed) THEN src[t][k] ELSE dst[t][k]]
  BY DEF After, Keeps
<1>5. after \in [Key -> 0..MaxContent]
  BY <1>3, <1>4
<1>6. ASSUME NEW k \in Key
      PROVE  /\ dst[t][k] # 0 => after[k] # 0
             /\ t \notin Refreshed /\ dst[t][k] # 0 => after[k] = dst[t][k]
             /\ dst[t][k] = 0 /\ after[k] # 0 => src[t][k] # 0
             /\ k \in page \/ CopiedRow(t, k) =>
                  after[k] # 0 /\ (t \in Refreshed => seen[t][k] <= after[k])
  <2>1. after[k] = IF k \in page /\ (dst[t][k] = 0 \/ t \in Refreshed) THEN src[t][k] ELSE dst[t][k]
    BY <1>4
  <2>2. k \in page => src[t][k] # 0
    BY <1>1, <1>2, RowsAreNumbers
  <2>3. seen[t][k] <= src[t][k]
    BY DEF SourceStands
  <2> QED BY <2>1, <2>2, <2>3 DEF CopiedRow
<1> QED BY <1>1, <1>5, <1>6

\* What a batch leaves: every row before the new offset copied, or the whole table.
LEMMA BatchCopies ==
  ASSUME CopyTyped, SourceStands, NEW t \in Created, AtWork(t), NEW page, page = Page(t), NEW after,
         after = After(t, page), dst' = [dst EXCEPT ![t] = after], NEW got, got = Cardinality(page)
  PROVE  /\ dst' \in Stores /\ dst'[t] = after /\ \A u \in Created \ {t} : dst'[u] = dst[u]
         /\ \A u \in Created : Count(dst, u) <= Count(dst', u)
         /\ got \in Nat /\ read + got <= Count(src, t)
         /\ \A k \in Key : seen[t][k] # 0 =>
              \/ after[k] # 0 /\ (t \in Refreshed => seen[t][k] <= after[k])
              \/ got >= Batch /\ read + got <= Rank(Rows(src, t), k)
<1>1. src \in Stores /\ dst \in Stores /\ seen \in Stores /\ read \in Nat
  BY DEF CopyTyped
<1>2. /\ after \in [Key -> 0..MaxContent]
      /\ \A k \in Key : dst[t][k] # 0 => after[k] # 0
      /\ \A k \in Key : k \in page \/ CopiedRow(t, k) =>
                           after[k] # 0 /\ (t \in Refreshed => seen[t][k] <= after[k])
  BY BatchWrites
<1>3. dst' \in Stores /\ dst'[t] = after /\ \A u \in Created \ {t} : dst'[u] = dst[u]
  BY <1>1, <1>2 DEF Stores
<1>4. ASSUME NEW u \in Created PROVE Count(dst, u) <= Count(dst', u)
  <2>1. \A k \in Key : dst[u][k] # 0 => dst'[u][k] # 0
    BY <1>2, <1>3
  <2> QED BY <2>1, <1>1, <1>3, Growing
<1> DEFINE rows == Rows(src, t)
<1>5. rows \in SUBSET Nat /\ IsFiniteSet(rows) /\ Count(src, t) = Cardinality(rows)
      /\ \A k \in Key : seen[t][k] # 0 => k \in rows
  <2>1. \A k \in Key : seen[t][k] <= src[t][k] /\ seen[t][k] \in Nat /\ src[t][k] \in Nat
    BY <1>1, RowsAreNumbers DEF SourceStands
  <2> QED BY <2>1, <1>1, RowsAreNumbers
<1>6. page = {k \in rows : Rank(rows, k) \in read..(read + Batch - 1)} /\ Batch \in Nat \ {0}
  BY CopyConstants DEF Page
<1>7. read <= Cardinality(rows)
  BY <1>5 DEF AtWork
<1> HIDE DEF rows
<1>8. /\ got \in Nat /\ read + got <= Count(src, t)
      /\ \A k \in rows : read <= Rank(rows, k) /\ k \notin page => got = Batch /\ read + Batch <= Rank(rows, k)
  BY <1>1, <1>5, <1>6, <1>7, PageIs
<1>9. ASSUME NEW k \in Key, seen[t][k] # 0
      PROVE  \/ after[k] # 0 /\ (t \in Refreshed => seen[t][k] <= after[k])
             \/ got >= Batch /\ read + got <= Rank(Rows(src, t), k)
  <2>1. CopiedRow(t, k) \/ read <= Rank(rows, k)
    BY <1>9 DEF AtWork, rows
  <2>2. k \in rows
    BY <1>5, <1>9
  <2>3. CASE k \in page \/ CopiedRow(t, k)
    BY <2>3, <1>2
  <2>4. CASE ~(k \in page \/ CopiedRow(t, k))
    <3>1. got = Batch /\ read + got <= Rank(rows, k)
      BY <2>1, <2>2, <2>4, <1>8
    <3> QED BY <3>1, <1>6 DEF rows
  <2> QED BY <2>3, <2>4
<1> QED BY <1>3, <1>4, <1>8, <1>9

LEMMA CopyBatchInv ==
  ASSUME CopyInv, CopyBatch
  PROVE  CopyInv'
<1>0. PICK t : t = First(todo)
  OBVIOUS
<1> DEFINE page == Page(t)
           got == Cardinality(page)
           after == After(t, page)
           w == written + Wrote(t, page)
           inserted == Inserted(after)
<1>1. /\ command = "copy" /\ todo # {} /\ dst' = [dst EXCEPT ![t] = after]
      /\ src' = src /\ command' = command /\ copies' = copies
      /\ \/ /\ got < Batch
            /\ report' = [report EXCEPT ![t] = [source |-> read + got, copied |-> inserted, refreshed |-> w - inserted]]
            /\ everCopied' = [everCopied EXCEPT ![t] = @ + inserted]
            /\ todo' = todo \ {t}
            /\ \/ todo = {t} /\ Counted /\ UNCHANGED seen
               \/ todo # {t} /\ Begin(First(todo \ {t}))
         \/ /\ ~(got < Batch)
            /\ read' = read + got /\ written' = w
            /\ UNCHANGED <<report, everCopied, todo, before, seen>>
  BY <1>0 DEF CopyBatch
<1>2. CopyTyped /\ SourceStands /\ Reported /\ InsertedOnce /\ InPlan /\ AtWork(t)
      /\ \A u \in Created \ todo : Copied(u)
  BY <1>0, <1>1 DEF CopyInv, CopyGoes
<1>3. Unnamed = {} /\ todo \subseteq Created
  BY <1>2 DEF InPlan, CopyTyped
<1>4. t \in todo /\ t \in Created /\ \A u \in todo \ {t} : Place(t) < Place(u)
  BY <1>0, <1>1, <1>3, FirstIs
<1>5. page \subseteq Rows(src, t) /\ after \in [Key -> 0..MaxContent]
  BY <1>2, <1>4, BatchWrites
<1>6. IsFiniteSet(page) /\ src \in Stores /\ dst \in Stores
  <2>1. src \in Stores /\ dst \in Stores
    BY <1>2 DEF CopyTyped
  <2>2. IsFiniteSet(Rows(src, t))
    BY <2>1, <1>4, RowsAreNumbers
  <2> QED BY <1>5, <2>1, <2>2, FS_Subset
<1>7. w \in Nat
  <2>1. Cardinality(page) \in Nat
    BY <1>6, FS_CardinalityType
  <2>2. Cardinality({k \in page : dst[t][k] = 0}) \in Nat
    <3>1. IsFiniteSet({k \in page : dst[t][k] = 0})
      BY <1>6, FS_Subset
    <3> QED BY <3>1, FS_CardinalityType
  <2> QED BY <2>1, <2>2, <1>2 DEF Wrote, CopyTyped
<1> HIDE DEF page, w, after, got, inserted
<1>8. /\ dst' \in Stores /\ dst'[t] = after /\ \A u \in Created \ {t} : dst'[u] = dst[u]
      /\ \A u \in Created : Count(dst, u) <= Count(dst', u)
      /\ got \in Nat /\ read + got <= Count(src, t)
      /\ \A k \in Key : seen[t][k] # 0 =>
           \/ after[k] # 0 /\ (t \in Refreshed => seen[t][k] <= after[k])
           \/ got >= Batch /\ read + got <= Rank(Rows(src, t), k)
  BY <1>1, <1>2, <1>4, BatchCopies DEF page, after, got
<1>9. \A u \in Created : Count(src, u)' = Count(src, u) /\ Count(dst, u)' = Count(dst', u)
      /\ Count(src, u) \in Nat /\ Count(dst, u) \in Nat /\ Count(dst', u) \in Nat
      /\ \A k \in Key : Rank(Rows(src, u), k)' = Rank(Rows(src, u), k) /\ Rank(Rows(src, u), k) \in Nat
  <2>1. \A u \in Created : Count(src, u)' = Count(src, u) /\ Count(dst, u)' = Count(dst', u)
    BY <1>1 DEF Count, Rows
  <2>2. \A u \in Created : Count(src, u) \in Nat /\ Count(dst, u) \in Nat /\ Count(dst', u) \in Nat
    BY <1>6, <1>8, RowsAreNumbers
  <2>3. \A u \in Created, k \in Key : Rank(Rows(src, u), k) \in Nat
    BY <1>6, Growing
  <2>4. \A u \in Created, k \in Key : Rank(Rows(src, u), k)' = Rank(Rows(src, u), k)
    BY <1>1 DEF Rows, Rank
  <2> QED BY <2>1, <2>2, <2>3, <2>4
<1>10. inserted = Count(dst', t) - before /\ inserted \in Nat /\ before \in Nat
       /\ before <= Count(dst, t) /\ everCopied[t] <= before
  <2>1. Count(dst', t) = Cardinality({k \in Key : after[k] # 0})
    BY <1>8 DEF Count, Rows
  <2>2. inserted = Count(dst', t) - before
    BY <2>1 DEF inserted, Inserted
  <2> QED BY <2>2, <1>2, <1>4, <1>8, <1>9 DEF AtWork, CopyTyped
<1>11. CASE got < Batch
  <2>1. /\ report' = [report EXCEPT ![t] = [source |-> read + got, copied |-> inserted, refreshed |-> w - inserted]]
        /\ everCopied' = [everCopied EXCEPT ![t] = @ + inserted]
        /\ todo' = todo \ {t}
    BY <1>1, <1>11
  <2>2. [source |-> read + got, copied |-> inserted, refreshed |-> w - inserted]
          \in [source : Nat, copied : Nat, refreshed : Int]
    BY <1>2, <1>7, <1>8, <1>10 DEF CopyTyped
  <2>3. report' \in Reports
    BY <2>1, <2>2, <1>2, <1>4 DEF CopyTyped, Reports
  <2>4. everCopied[t] \in Nat /\ everCopied' \in [Created -> Nat]
        /\ everCopied'[t] = everCopied[t] + inserted /\ \A u \in Created \ {t} : everCopied'[u] = everCopied[u]
    BY <2>1, <1>2, <1>4, <1>10 DEF CopyTyped
  <2>5. Reported'
    <3>1. report'[t].source = read + got /\ \A u \in Created \ {t} : report'[u] = report[u]
      BY <2>1, <1>2, <1>4 DEF CopyTyped, Reports
    <3> QED BY <3>1, <1>2, <1>8, <1>9 DEF Reported
  <2>6. InsertedOnce'
    <3> SUFFICES ASSUME NEW u \in Created PROVE everCopied'[u] <= Count(dst', u)
      BY <1>9 DEF InsertedOnce
    <3>1. CASE u = t
      BY <3>1, <2>4, <1>9, <1>10
    <3>2. CASE u # t
      <4>1. everCopied[u] <= Count(dst, u) /\ everCopied[u] \in Nat
        BY <1>2 DEF InsertedOnce, CopyTyped
      <4> QED BY <4>1, <3>2, <2>4, <1>8, <1>9
    <3> QED BY <3>1, <3>2
  <2>7. \A u \in Created \ todo' : \A k \in Key : seen[u][k] # 0
            => dst'[u][k] # 0 /\ (u \in Refreshed => seen[u][k] <= dst'[u][k])
    <3> SUFFICES ASSUME NEW u \in Created \ todo', NEW k \in Key, seen[u][k] # 0
                 PROVE  dst'[u][k] # 0 /\ (u \in Refreshed => seen[u][k] <= dst'[u][k])
      OBVIOUS
    <3>1. CASE u = t
      <4>1. ~(got >= Batch)
        BY <1>11, <1>8, CopyConstants
      <4> QED BY <4>1, <3>1, <1>8
    <3>2. CASE u # t
      <4>1. u \in Created \ todo
        BY <3>2, <2>1
      <4> QED BY <4>1, <3>2, <1>2, <1>8 DEF Copied, CopiedRow
    <3> QED BY <3>1, <3>2
  <2>8. InPlan'
    <3>1. \A a \in todo \ {t}, u \in Created \ (todo \ {t}) : Place(u) < Place(a)
      <4> SUFFICES ASSUME NEW a \in todo \ {t}, NEW u \in Created \ (todo \ {t}) PROVE Place(u) < Place(a)
        OBVIOUS
      <4>1. u = t \/ u \in Created \ todo
        OBVIOUS
      <4> QED BY <4>1, <1>2, <1>4 DEF InPlan
    <3>2. Unnamed' = Unnamed /\ \A a \in Created : Place(a)' = Place(a)
      BY DEF Unnamed, Place
    <3> QED BY <3>1, <3>2, <2>1, <1>3 DEF InPlan
  <2>9. CASE todo = {t}
    <3>1. Counted /\ seen' = seen
      BY <2>9, <1>1, <1>11
    <3>2. todo' = {} /\ read' = 0 /\ written' = 0 /\ before' = 0
      BY <3>1, <2>9, <2>1 DEF Counted
    <3>3. CopyTyped'
      BY <3>1, <3>2, <2>3, <2>4, <1>1, <1>2, <1>8 DEF CopyTyped
    <3>4. SourceStands'
      BY <3>1, <1>1, <1>2 DEF SourceStands
    <3>5. \A u \in Created \ todo' : Copied(u)'
      BY <3>1, <2>7 DEF Copied, CopiedRow
    <3>6. CopyGoes'
      BY <3>2, <3>5, <2>8 DEF CopyGoes
    <3> QED BY <3>3, <3>4, <3>6, <2>5, <2>6, <1>1 DEF CopyInv, ShortIsReal
  <2>10. CASE todo # {t}
    <3>0. PICK n : n = First(todo \ {t})
      OBVIOUS
    <3>1. Begin(n)
      BY <3>0, <2>10, <1>1, <1>11
    <3>2. n \in todo \ {t}
      BY <3>0, <2>10, <1>3, <1>4, FirstIs
    <3>3. n \in Created /\ n # t /\ everCopied'[n] = everCopied[n]
      BY <3>2, <1>3, <2>4
    <3>4. read' = 0 /\ written' = 0 /\ before' = Count(dst, n) /\ seen' = [seen EXCEPT ![n] = src[n]]
      BY <3>1 DEF Begin, BeginAt
    <3>5. seen \in Stores /\ src[n] \in [Key -> 0..MaxContent]
      BY <3>3, <1>2 DEF CopyTyped, Stores
    <3>6. seen' \in Stores /\ seen'[n] = src[n] /\ \A u \in Created \ {n} : seen'[u] = seen[u]
      BY <3>3, <3>4, <3>5 DEF Stores
    <3>7. CopyTyped'
      BY <3>3, <3>4, <3>6, <2>1, <2>3, <2>4, <1>1, <1>2, <1>8, <1>9 DEF CopyTyped
    <3>8. SourceStands'
      <4> SUFFICES ASSUME NEW u \in Created, NEW k \in Key PROVE seen'[u][k] <= src[u][k]
        BY <1>1, <1>2 DEF SourceStands
      <4>1. src[u][k] \in Nat /\ seen[u][k] <= src[u][k]
        BY <1>2, <1>6, RowsAreNumbers DEF SourceStands
      <4> QED BY <4>1, <3>6
    <3>9. AtWork(n)'
      <4>1. everCopied[n] <= Count(dst, n)
        BY <3>3, <1>2 DEF InsertedOnce
      <4> QED BY <4>1, <3>3, <3>4, <1>8, <1>9 DEF AtWork
    <3>10. First(todo)' = n
      BY <3>0, <2>1 DEF First, Place
    <3>11. AtWork(First(todo))'
      BY <3>9, <3>10 DEF AtWork, CopiedRow, Count, Rows, Rank
    <3>12. \A u \in Created \ todo' : Copied(u)'
      <4>1. \A u \in Created \ todo' : u # n
        BY <3>2, <2>1
      <4> QED BY <4>1, <3>6, <2>7 DEF Copied, CopiedRow
    <3>13. CopyGoes'
      BY <3>11, <3>12, <2>8 DEF CopyGoes
    <3> QED BY <3>7, <3>8, <3>13, <2>5, <2>6, <1>1 DEF CopyInv, ShortIsReal
  <2> QED BY <2>9, <2>10
<1>12. CASE ~(got < Batch)
  <2>1. read' = read + got /\ written' = w /\ report' = report /\ everCopied' = everCopied /\ todo' = todo
        /\ before' = before /\ seen' = seen
    BY <1>1, <1>12
  <2>2. CopyTyped'
    BY <2>1, <1>1, <1>2, <1>7, <1>8 DEF CopyTyped
  <2>3. SourceStands' /\ Reported'
    BY <2>1, <1>1, <1>2, <1>9 DEF SourceStands, Reported
  <2>4. InsertedOnce'
    <3> SUFFICES ASSUME NEW u \in Created PROVE everCopied[u] <= Count(dst', u)
      BY <2>1, <1>9 DEF InsertedOnce
    <3>1. everCopied[u] <= Count(dst, u) /\ everCopied[u] \in Nat
      BY <1>2 DEF InsertedOnce, CopyTyped
    <3> QED BY <3>1, <1>8, <1>9
  <2>5. AtWork(t)'
    <3>1. read + got <= Count(src, t) /\ everCopied[t] <= before /\ before <= Count(dst', t)
      BY <1>4, <1>8, <1>9, <1>10
    <3>2. ASSUME NEW k \in Key, seen[t][k] # 0
          PROVE  CopiedRow(t, k)' \/ read + got <= Rank(Rows(src, t), k)
      BY <3>2, <2>1, <1>8 DEF CopiedRow
    <3> QED BY <3>1, <3>2, <2>1, <1>4, <1>9 DEF AtWork
  <2>6. First(todo)' = t /\ InPlan'
    <3>1. First(todo)' = t
      BY <1>0, <2>1 DEF First, Place
    <3>2. Unnamed' = Unnamed /\ \A a \in Created : Place(a)' = Place(a)
      BY DEF Unnamed, Place
    <3> QED BY <3>1, <3>2, <2>1, <1>2, <1>3 DEF InPlan
  <2>7. AtWork(First(todo))'
    BY <2>5, <2>6 DEF AtWork, CopiedRow, Count, Rows, Rank
  <2>8. \A u \in Created \ todo : Copied(u)'
    <3> SUFFICES ASSUME NEW u \in Created \ todo, NEW k \in Key, seen[u][k] # 0 PROVE CopiedRow(u, k)'
      BY <2>1 DEF Copied
    <3>1. u # t /\ CopiedRow(u, k)
      BY <1>2, <1>4 DEF Copied
    <3> QED BY <3>1, <2>1, <1>8 DEF CopiedRow
  <2>9. CopyGoes'
    BY <2>1, <2>6, <2>7, <2>8 DEF CopyGoes
  <2> QED BY <2>2, <2>3, <2>4, <2>9, <1>1 DEF CopyInv, ShortIsReal
<1> QED BY <1>11, <1>12

LEMMA CheckCountsInv ==
  ASSUME CopyInv, CheckCounts
  PROVE  CopyInv'
<1>1. /\ command = "copy" /\ todo = {}
      /\ command' = IF \E t \in Created : Short(t) THEN "short" ELSE "ok"
      /\ UNCHANGED src /\ UNCHANGED dst /\ UNCHANGED copies /\ UNCHANGED todo /\ UNCHANGED read
      /\ UNCHANGED written /\ UNCHANGED before /\ UNCHANGED report /\ UNCHANGED seen /\ UNCHANGED everCopied
  BY DEF CheckCounts
<1>2. CopyTyped /\ SourceStands /\ Reported /\ InsertedOnce /\ \A t \in Created : Copied(t)
  BY <1>1 DEF CopyInv, CopyGoes
<1>3. CopyTyped' /\ SourceStands' /\ Reported' /\ InsertedOnce'
  BY <1>1, <1>2 DEF CopyTyped, SourceStands, Reported, InsertedOnce, Count, Rows
<1>4. \A t \in Created : Copied(t)'
  BY <1>1, <1>2 DEF Copied, CopiedRow
<1>5. ASSUME NEW t \in Created, Short(t) PROVE \E k \in Key : src[t][k] # 0 /\ dst[t][k] = 0
  <2>1. src \in Stores /\ dst \in Stores
    BY <1>2 DEF CopyTyped
  <2>2. Count(dst, t) < report[t].source /\ report[t].source <= Count(src, t) /\ report[t].source \in Nat
    BY <1>5, <1>2 DEF Short, Reported, CopyTyped, Reports
  <2>3. IsFiniteSet(Rows(dst, t)) /\ Count(dst, t) \in Nat /\ Count(src, t) \in Nat
    BY <2>1, RowsAreNumbers
  <2>4. ~(Count(src, t) <= Count(dst, t))
    BY <2>2, <2>3
  <2>5. ~(Rows(src, t) \subseteq Rows(dst, t))
    BY <2>3, <2>4, FS_Subset DEF Count
  <2> QED BY <2>5 DEF Rows
<1>6. ShortIsReal'
  BY <1>1, <1>5 DEF ShortIsReal
<1> QED BY <1>1, <1>3, <1>4, <1>6 DEF CopyInv, CopyGoes

LEMMA CopyFailsInv ==
  ASSUME CopyInv, CopyFails
  PROVE  CopyInv'
<1>1. /\ command = "copy" /\ command' = "idle" /\ todo' = {} /\ read' = 0 /\ written' = 0 /\ before' = 0
      /\ src' = src /\ dst' = dst /\ copies' = copies /\ report' = report /\ seen' = seen /\ everCopied' = everCopied
  BY DEF CopyFails, Counted
<1>2. CopyTyped /\ SourceStands /\ Reported /\ InsertedOnce
  BY DEF CopyInv
<1>3. CopyTyped' /\ SourceStands' /\ Reported' /\ InsertedOnce'
  BY <1>1, <1>2 DEF CopyTyped, SourceStands, Reported, InsertedOnce, Count, Rows
<1> QED BY <1>1, <1>3 DEF CopyInv, ShortIsReal, CopyGoes

\* One row of a store written by a driver.
Write(s, n, t, k) == Writable(s, t, k) /\ n = [s EXCEPT ![t][k] = @ + 1]

LEMMA WriteGrows ==
  ASSUME NEW s \in Stores, NEW n, NEW t \in Created, NEW k \in Key, Write(s, n, t, k)
  PROVE  /\ n \in Stores
         /\ \A u \in Created, j \in Key : s[u][j] <= n[u][j] /\ (s[u][j] # 0 => n[u][j] # 0)
         /\ \A u \in Created, j \in Key : n[u][j] # s[u][j] => u = t /\ j = k
         /\ t \notin Refreshed => s[t][k] = 0
<1>1. s[t][k] \in Nat /\ s[t][k] < MaxContent /\ s[t] \in [Key -> 0..MaxContent] /\ MaxContent \in Nat \ {0}
      /\ (t \notin Refreshed => s[t][k] = 0)
  <2>1. s[t][k] \in Nat /\ s[t] \in [Key -> 0..MaxContent] /\ MaxContent \in Nat \ {0}
    BY RowsAreNumbers, CopyConstants DEF Stores
  <2>2. s[t][k] < (IF t \in Refreshed THEN MaxContent ELSE 1)
    BY DEF Write, Writable
  <2> QED BY <2>1, <2>2
<1>2. n = [s EXCEPT ![t] = [s[t] EXCEPT ![k] = s[t][k] + 1]]
  BY DEF Write
<1> DEFINE row == [s[t] EXCEPT ![k] = s[t][k] + 1]
<1>3. row \in [Key -> 0..MaxContent] /\ row[k] = s[t][k] + 1 /\ \A j \in Key \ {k} : row[j] = s[t][j]
  BY <1>1
<1> HIDE DEF row
<1>4. n = [s EXCEPT ![t] = row]
  BY <1>2 DEF row
<1>5. n \in Stores /\ n[t] = row /\ \A u \in Created \ {t} : n[u] = s[u]
  BY <1>3, <1>4 DEF Stores
<1>6. ASSUME NEW u \in Created, NEW j \in Key
      PROVE  s[u][j] <= n[u][j] /\ (s[u][j] # 0 => n[u][j] # 0) /\ (n[u][j] # s[u][j] => u = t /\ j = k)
  <2>1. s[u][j] \in Nat
    BY RowsAreNumbers
  <2> QED BY <2>1, <1>1, <1>3, <1>5
<1> QED BY <1>1, <1>5, <1>6

LEMMA WriteSourceInv ==
  ASSUME CopyInv, WriteSource
  PROVE  CopyInv'
<1>1. PICK t \in Created, k \in Key : Write(src, src', t, k)
  BY Zenon DEF WriteSource, Write
<1>2. /\ dst' = dst /\ command' = command /\ copies' = copies /\ todo' = todo /\ read' = read /\ written' = written
      /\ before' = before /\ report' = report /\ seen' = seen /\ everCopied' = everCopied
  BY DEF WriteSource, copying
<1>3. CopyTyped /\ SourceStands /\ Reported /\ InsertedOnce /\ ShortIsReal /\ CopyGoes
      /\ (command = "ok" => \A u \in Created : Copied(u))
  BY DEF CopyInv
<1>4. src \in Stores /\ dst \in Stores /\ seen \in Stores
  BY <1>3 DEF CopyTyped
<1>5. /\ src' \in Stores
      /\ \A u \in Created, j \in Key : src[u][j] <= src'[u][j] /\ (src[u][j] # 0 => src'[u][j] # 0)
      /\ \A u \in Created, j \in Key : src'[u][j] # src[u][j] => u = t /\ j = k
  BY <1>1, <1>4, WriteGrows
<1>6. CopyTyped'
  BY <1>2, <1>3, <1>5 DEF CopyTyped
<1>7. \A u \in Created : /\ Count(src, u) \in Nat /\ Count(src', u) \in Nat /\ Count(src, u) <= Count(src', u)
                         /\ \A j \in Key : /\ Rank(Rows(src, u), j) \in Nat /\ Rank(Rows(src', u), j) \in Nat
                                           /\ Rank(Rows(src, u), j) <= Rank(Rows(src', u), j)
  BY <1>4, <1>5, RowsAreNumbers, Growing
<1>8. SourceStands'
  <2>1. ASSUME NEW j \in Key, src'[ChildTable][j] # 0 PROVE src'[ParentTable][j] # 0
    <3>1. ChildTable \in Created /\ ParentTable \in Created
      BY CopyConstants
    <3>2. CASE src[ChildTable][j] # 0
      BY <3>1, <3>2, <1>3, <1>5 DEF SourceStands
    <3>3. CASE src[ChildTable][j] = 0
      <4>1. t = ChildTable /\ k = j
        BY <3>1, <3>3, <2>1, <1>5
      <4>2. src[ParentTable][k] # 0
        BY <4>1, <1>1 DEF Write, Writable
      <4> QED BY <4>1, <4>2, <3>1, <1>5
    <3> QED BY <3>2, <3>3
  <2>2. ASSUME NEW u \in Created, NEW j \in Key PROVE seen'[u][j] <= src'[u][j]
    <3>1. seen[u][j] \in Nat /\ src[u][j] \in Nat /\ src'[u][j] \in Nat
      BY <1>4, <1>5, RowsAreNumbers
    <3>2. seen[u][j] <= src[u][j] /\ src[u][j] <= src'[u][j]
      BY <1>3, <1>5 DEF SourceStands
    <3> QED BY <3>1, <3>2, <1>2
  <2> QED BY <2>1, <2>2 DEF SourceStands
<1>9. Reported'
  <2> SUFFICES ASSUME NEW u \in Created PROVE report[u].source <= Count(src', u)
    BY <1>2 DEF Reported, Count, Rows
  <2>1. report[u].source \in Nat /\ report[u].source <= Count(src, u)
    BY <1>3 DEF Reported, CopyTyped, Reports
  <2> QED BY <2>1, <1>7
<1>10. InsertedOnce'
  BY <1>2, <1>3 DEF InsertedOnce, Count, Rows
<1>11. ShortIsReal'
  <2> SUFFICES ASSUME command = "short" PROVE \E u \in Created : \E j \in Key : src'[u][j] # 0 /\ dst[u][j] = 0
    BY <1>2 DEF ShortIsReal
  <2>1. PICK u \in Created : \E j \in Key : src[u][j] # 0 /\ dst[u][j] = 0
    BY <1>3 DEF ShortIsReal
  <2> QED BY <2>1, <1>5
<1>12. \A u \in Created : Copied(u) => Copied(u)'
  BY <1>2 DEF Copied, CopiedRow
<1>13. CopyGoes'
  <2> SUFFICES ASSUME command = "copy" PROVE CopyGoes'
    BY <1>2 DEF CopyGoes
  <2>1. InPlan'
    <3>1. InPlan
      BY <1>3 DEF CopyGoes
    <3>2. Unnamed' = Unnamed /\ \A a \in Created : Place(a)' = Place(a)
      BY DEF Unnamed, Place
    <3> QED BY <3>1, <3>2, <1>2, <1>3 DEF InPlan, CopyTyped
  <2>2. ASSUME todo # {} PROVE AtWork(First(todo))'
    <3>1. PICK n : n = First(todo)
      OBVIOUS
    <3>2. AtWork(n) /\ Unnamed = {}
      BY <3>1, <2>2, <1>3 DEF CopyGoes, InPlan
    <3>3. n \in Created
      BY <3>1, <3>2, <2>2, <1>3, FirstIs DEF CopyTyped
    <3>4. AtWork(n)'
      <4>1. read <= Count(src', n)
        BY <3>2, <3>3, <1>3, <1>7 DEF AtWork, CopyTyped
      <4>2. ASSUME NEW j \in Key, seen[n][j] # 0
            PROVE  CopiedRow(n, j) \/ read <= Rank(Rows(src', n), j)
        <5>1. CopiedRow(n, j) \/ read <= Rank(Rows(src, n), j)
          BY <3>2, <4>2 DEF AtWork
        <5>2. read \in Nat
          BY <1>3 DEF CopyTyped
        <5> QED BY <5>1, <5>2, <3>3, <1>7
      <4>3. everCopied[n] <= before /\ before <= Count(dst, n)
        BY <3>2 DEF AtWork
      <4>4. Count(src, n)' = Count(src', n) /\ Count(dst, n)' = Count(dst, n)
            /\ \A j \in Key : (CopiedRow(n, j)' <=> CopiedRow(n, j)) /\ Rank(Rows(src, n), j)' = Rank(Rows(src', n), j)
        BY <1>2 DEF Count, Rows, Rank, CopiedRow
      <4> QED BY <4>1, <4>2, <4>3, <4>4, <1>2 DEF AtWork
    <3>5. First(todo)' = n
      BY <3>1, <1>2 DEF First, Place
    <3> QED BY <3>4, <3>5 DEF AtWork, CopiedRow, Count, Rows, Rank
  <2> QED BY <2>1, <2>2, <1>2, <1>3, <1>12 DEF CopyGoes
<1> QED BY <1>2, <1>3, <1>6, <1>8, <1>9, <1>10, <1>11, <1>12, <1>13 DEF CopyInv

LEMMA WriteDestInv ==
  ASSUME CopyInv, WriteDest
  PROVE  CopyInv'
<1>1. PICK t \in Created, k \in Key : Write(dst, dst', t, k) /\ dst[t][k] # 0
  BY Zenon DEF WriteDest, Write
<1>2. /\ src' = src /\ command' = command /\ copies' = copies /\ todo' = todo /\ read' = read /\ written' = written
      /\ before' = before /\ report' = report /\ seen' = seen /\ everCopied' = everCopied /\ command # "copy"
  BY DEF WriteDest, copying
<1>3. CopyTyped /\ SourceStands /\ Reported /\ InsertedOnce /\ ShortIsReal
      /\ (command = "ok" => \A u \in Created : Copied(u))
  BY DEF CopyInv
<1>4. src \in Stores /\ dst \in Stores /\ seen \in Stores
  BY <1>3 DEF CopyTyped
<1>5. /\ dst' \in Stores
      /\ \A u \in Created, j \in Key : dst[u][j] <= dst'[u][j] /\ (dst[u][j] # 0 => dst'[u][j] # 0)
      /\ \A u \in Created, j \in Key : dst'[u][j] # dst[u][j] => u = t /\ j = k
  <2>1. Write(dst, dst', t, k)
    BY <1>1
  <2> QED BY ONLY <2>1, <1>4, WriteGrows
<1>6. CopyTyped'
  BY <1>2, <1>3, <1>5 DEF CopyTyped
<1>7. SourceStands' /\ Reported'
  BY <1>2, <1>3 DEF SourceStands, Reported, Count, Rows
<1>8. InsertedOnce'
  <2> SUFFICES ASSUME NEW u \in Created PROVE everCopied[u] <= Count(dst', u)
    BY <1>2 DEF InsertedOnce, Count, Rows
  <2>1. everCopied[u] \in Nat /\ everCopied[u] <= Count(dst, u)
    BY <1>3 DEF InsertedOnce, CopyTyped
  <2>2. Count(dst, u) \in Nat /\ Count(dst', u) \in Nat /\ Count(dst, u) <= Count(dst', u)
    BY <1>4, <1>5, RowsAreNumbers, Growing
  <2> QED BY <2>1, <2>2
<1>9. ShortIsReal'
  <2> SUFFICES ASSUME command = "short" PROVE \E u \in Created : \E j \in Key : src[u][j] # 0 /\ dst'[u][j] = 0
    BY <1>2 DEF ShortIsReal
  <2>1. PICK u \in Created, j \in Key : src[u][j] # 0 /\ dst[u][j] = 0
    BY <1>3 DEF ShortIsReal
  <2>2. dst'[u][j] = dst[u][j]
    BY <2>1, <1>1, <1>5
  <2> QED BY <2>1, <2>2
<1>10. ASSUME NEW u \in Created, Copied(u) PROVE Copied(u)'
  <2> SUFFICES ASSUME NEW j \in Key, seen[u][j] # 0
               PROVE  dst'[u][j] # 0 /\ (u \in Refreshed => seen[u][j] <= dst'[u][j])
    BY <1>2 DEF Copied, CopiedRow
  <2>1. dst[u][j] # 0 /\ (u \in Refreshed => seen[u][j] <= dst[u][j])
    BY <1>10 DEF Copied, CopiedRow
  <2>2. seen[u][j] \in Nat /\ dst[u][j] \in Nat /\ dst'[u][j] \in Nat
    BY <1>4, <1>5, RowsAreNumbers
  <2> QED BY <2>1, <2>2, <1>5
<1> QED BY <1>2, <1>3, <1>6, <1>7, <1>8, <1>9, <1>10 DEF CopyInv, CopyGoes

LEMMA CopyKeepsInv == CopyInv /\ [CopyNext]_copyVars => CopyInv'
<1>1. ASSUME CopyInv, UNCHANGED copyVars PROVE CopyInv'
  <2>1. /\ src' = src /\ dst' = dst /\ command' = command /\ copies' = copies /\ todo' = todo /\ read' = read
        /\ written' = written /\ before' = before /\ report' = report /\ seen' = seen /\ everCopied' = everCopied
    BY <1>1 DEF copyVars
  <2>2. CopyTyped' /\ SourceStands' /\ Reported' /\ InsertedOnce' /\ ShortIsReal'
    BY <1>1, <2>1 DEF CopyInv, CopyTyped, SourceStands, Reported, InsertedOnce, ShortIsReal, Count, Rows
  <2>4. CopyGoes'
    <3>1. (AtWork(First(todo)))' <=> AtWork(First(todo))
      BY <2>1 DEF AtWork, First, Place, CopiedRow, Count, Rows, Rank
    <3>2. InPlan' <=> InPlan
      BY <2>1 DEF InPlan, Unnamed, Place
    <3>3. \A t \in Created : Copied(t)' <=> Copied(t)
      BY <2>1 DEF Copied, CopiedRow
    <3> QED BY <3>1, <3>2, <3>3, <1>1, <2>1 DEF CopyInv, CopyGoes
  <2>3. (command = "ok" => \A t \in Created : Copied(t))'
    BY <1>1, <2>1 DEF CopyInv, Copied, CopiedRow
  <2> QED BY <2>2, <2>3, <2>4 DEF CopyInv
<1>2. ASSUME CopyInv, CopyNext PROVE CopyInv'
  BY <1>2, StartCopyInv, CopyBatchInv, CheckCountsInv, CopyFailsInv, WriteSourceInv, WriteDestInv DEF CopyNext
<1> QED BY <1>1, <1>2

\* A row the destination does not refresh keeps what it holds, whoever writes.
LEMMA KeptByEveryStep ==
  ASSUME CopyInv, [CopyNext]_copyVars, NEW t \in Created \ Refreshed, NEW k \in Key, dst[t][k] # 0
  PROVE  dst'[t][k] = dst[t][k]
<1>1. CopyTyped /\ SourceStands /\ dst \in Stores
  BY DEF CopyInv, CopyTyped
<1>2. CASE CopyBatch
  <2> DEFINE n == First(todo)
  <2>1. n \in Created /\ dst' = [dst EXCEPT ![n] = After(n, Page(n))]
    <3>1. todo # {} /\ Unnamed = {} /\ todo \subseteq Created
      BY <1>1, <1>2 DEF CopyBatch, CopyInv, CopyGoes, InPlan, CopyTyped
    <3>2. n \in Created
      BY <3>1, FirstIs
    <3> QED BY <3>2, <1>2 DEF CopyBatch
  <2> HIDE DEF n
  <2>2. t \notin Refreshed /\ n = t => After(n, Page(n))[k] = dst[t][k]
    BY <2>1, <1>1, BatchWrites
  <2> QED BY <2>1, <2>2, <1>1 DEF Stores
<1>3. CASE WriteDest
  <2>1. PICK u \in Created, j \in Key : Write(dst, dst', u, j) /\ dst[u][j] # 0
    BY <1>3, Zenon DEF WriteDest, Write
  <2> QED BY <2>1, <1>1, WriteGrows
<1>4. CASE ~CopyBatch /\ ~WriteDest
  <2>1. dst' = dst
    BY <1>4 DEF CopyNext, copyVars, StartCopy, CheckCounts, CopyFails, WriteSource
  <2> QED BY <2>1
<1> QED BY <1>2, <1>3, <1>4

\* A child arrives after its parent, when the source had the parent to begin with.
LEMMA ParentsArriveFirst ==
  ASSUME CopyInv, [CopyNext]_copyVars, NEW k \in Key,
         dst[ChildTable][k] = 0, dst'[ChildTable][k] # 0, dst'[ParentTable][k] = 0
  PROVE  seen[ParentTable][k] = 0
<1>1. CopyTyped /\ SourceStands /\ dst \in Stores /\ ParentTable \in Created /\ ChildTable \in Created
  BY CopyConstants DEF CopyInv, CopyTyped
<1>2. CASE CopyBatch
  <2> DEFINE n == First(todo)
  <2>1. todo # {} /\ Unnamed = {} /\ todo \subseteq Created /\ CopyGoes /\ command = "copy"
    BY <1>1, <1>2 DEF CopyBatch, CopyInv, CopyGoes, InPlan, CopyTyped
  <2>2. n \in todo /\ n \in Created /\ \A u \in todo \ {n} : Place(n) < Place(u)
    BY <2>1, FirstIs
  <2>3. dst' = [dst EXCEPT ![n] = After(n, Page(n))]
    BY <1>2 DEF CopyBatch
  <2> HIDE DEF n
  <2>4. n = ChildTable
    BY <2>2, <2>3, <1>1 DEF Stores
  <2>5. /\ Place(ChildTable) \in DOMAIN Order /\ Order[Place(ChildTable)] = ChildTable /\ Place(ChildTable) \in Nat
        /\ Place(ParentTable) \in DOMAIN Order /\ Order[Place(ParentTable)] = ParentTable /\ Place(ParentTable) \in Nat
    BY <2>1, <1>1, PlaceIs
  <2>6. Place(ParentTable) < Place(ChildTable)
    BY <2>5, CopyConstants
  <2>7. ParentTable # ChildTable /\ ParentTable \notin todo
    BY <2>2, <2>4, <2>5, <2>6
  <2>8. Copied(ParentTable)
    BY <2>1, <2>7, <1>1 DEF CopyGoes
  <2>9. dst[ParentTable][k] = 0
    BY <2>3, <2>4, <2>7, <1>1 DEF Stores
  <2> QED BY <2>8, <2>9 DEF Copied, CopiedRow
<1>3. CASE WriteDest
  <2>1. PICK u \in Created, j \in Key : Write(dst, dst', u, j) /\ dst[u][j] # 0
    BY <1>3, Zenon DEF WriteDest, Write
  <2>2. \A v \in Created, i \in Key : dst'[v][i] # dst[v][i] => v = u /\ i = j
    BY <2>1, <1>1, WriteGrows
  <2> QED BY <2>1, <2>2, <1>1
<1>4. CASE ~CopyBatch /\ ~WriteDest
  <2>1. dst' = dst
    BY <1>4 DEF CopyNext, copyVars, StartCopy, CheckCounts, CopyFails, WriteSource
  <2> QED BY <2>1
<1> QED BY <1>2, <1>3, <1>4

(* For any tables, keys and batch size, any writes to either store beside  *)
(* it and wherever it is killed and run again: a copy that says ok has     *)
(* every row that was there when its table began, one that says short is   *)
(* short, no row is counted in twice, no row is put back, and a child      *)
(* never comes before a parent that was there.  (store_copy.copy)          *)
THEOREM CopiesAreFaithful == CopySpec => CopyIsFaithful
<1>1. CopyInv => CopyTypeOK /\ CopiedWhatWasThere /\ InsertedOnce /\ ShortIsReal
  <2> SUFFICES ASSUME CopyInv PROVE CopyTypeOK /\ CopiedWhatWasThere /\ InsertedOnce /\ ShortIsReal
    OBVIOUS
  <2>1. CopyTypeOK
    BY DEF CopyInv, CopyTyped, CopyTypeOK, Stores, Reports
  <2>2. CopiedWhatWasThere
    <3> SUFFICES ASSUME command = "ok", NEW t \in Created, NEW k \in Key, seen[t][k] # 0
                 PROVE  dst[t][k] # 0 /\ (t \in Refreshed => dst[t][k] >= seen[t][k])
      BY DEF CopiedWhatWasThere
    <3>1. CopiedRow(t, k) /\ dst[t][k] \in Nat /\ seen[t][k] \in Nat
      BY RowsAreNumbers DEF CopyInv, CopyTyped, Copied
    <3> QED BY <3>1 DEF CopiedRow
  <2> QED BY <2>1, <2>2 DEF CopyInv
<1>2. CopyInv /\ [CopyNext]_copyVars =>
        [\A t \in Created \ Refreshed, k \in Key : dst[t][k] # 0 => dst'[t][k] = dst[t][k]]_copyVars
  BY KeptByEveryStep
<1>3. CopyInv /\ [CopyNext]_copyVars =>
        [\A k \in Key :
           /\ dst[ChildTable][k] = 0 /\ dst'[ChildTable][k] # 0 /\ dst'[ParentTable][k] = 0
           => seen[ParentTable][k] = 0]_copyVars
  BY ParentsArriveFirst
<1> QED BY <1>1, <1>2, <1>3, CopyStarts, CopyKeepsInv, PTL
        DEF CopySpec, CopyIsFaithful, AppendOnlyKept, ParentsFirst
=============================================================================
