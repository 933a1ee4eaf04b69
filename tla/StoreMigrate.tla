---------------------------- MODULE StoreMigrate ----------------------------
(* Opening the run-record store (harness/store_migrate.py): every driver,
   scheduler and command opens it with open_store, which backs it up when a
   migration is pending and applies the migrations newer than the store, one
   transaction apiece. Openers run different versions of the code, race each
   other, fail and are killed between any two steps. *)
EXTENDS Naturals, Sequences, FiniteSets, FiniteSetsExt

CONSTANTS Opener,     \* processes that open the store
          Packages,   \* the migration numbers a harness package may hold
          Now,        \* Now[o][n]: the clock text opener o passes to its n-th open
          Override,   \* openers with COX_STORE_MIGRATE_WITHOUT_BACKUP=1
          MaxOpens    \* bound: opens of one opener

ASSUME MigrateConstants ==
    /\ Packages \subseteq Seq(Nat) /\ Packages # {}
    /\ MaxOpens \in Nat \ {0}
    /\ Now \in [Opener -> [1..MaxOpens -> Nat]]
    /\ Override \subseteq Opener

VARIABLES modules,    \* per opener: the store_ddl modules it found, by number
          hasTable,   \* schema_version exists
          history,    \* the rows of schema_version, oldest first, with who wrote each
          backups,    \* the backup files: name -> the schema versions they restore, one or none
          opening, opens,
          current,    \* open_store's first read
          at          \* the next migration of the loop in migrate

migrateVars == <<modules, hasTable, history, backups, opening, opens, current, at>>

\* _ordered: sorted, with no duplicate and no gap from 1.
Contiguous(o) == {modules[o][i] : i \in DOMAIN modules[o]} = 1..Len(modules[o])
Newest(o) == Len(modules[o])

\* _current_version: MAX(version), 0 without the table or without rows.
Version == IF hasTable /\ history # <<>>
           THEN Max({history[i].version : i \in DOMAIN history}) ELSE 0

\* _backup_name: two opens of one second and one pair of versions share a name.
BackupName(o) == [from |-> current[o], to |-> Newest(o), at |-> Now[o][opens[o]]]
Saved(name, restores) ==
    [n \in DOMAIN backups \cup {name} |-> IF n = name THEN restores ELSE backups[n]]

GoOpen(o, l) == opening' = [opening EXCEPT ![o] = l]

MigrateInit ==
    /\ modules \in [Opener -> Packages]
    /\ hasTable = FALSE /\ history = <<>> /\ backups = <<>>
    /\ opening = [o \in Opener |-> "closed"] /\ opens = [o \in Opener |-> 0]
    /\ current = [o \in Opener |-> 0] /\ at = [o \in Opener |-> 1]

\* open_store: a migration is pending, so a backup comes first.
Pending(o) == Version < Newest(o)

\* open_store: connect, read the version, number the modules.
Open(o) ==
    /\ opening[o] = "closed" /\ opens[o] < MaxOpens
    /\ opens' = [opens EXCEPT ![o] = @ + 1]
    /\ current' = [current EXCEPT ![o] = Version]
    /\ GoOpen(o, IF ~Contiguous(o) THEN "closed" ELSE IF Pending(o) THEN "backup" ELSE "check")
    /\ UNCHANGED <<modules, hasTable, history, backups, at>>

\* _backup_before_migrate: a copy of the live store as it is now, or none.
Backup(o) ==
    /\ opening[o] = "backup"
    /\ backups' = IF o \in Override THEN backups ELSE Saved(BackupName(o), {Version})
    /\ GoOpen(o, "check")
    /\ UNCHANGED <<modules, hasTable, history, opens, current, at>>

\* The copy fails, or the process dies in it, with or without a file begun
\* that restores nothing.
BackupFails(o) ==
    /\ opening[o] = "backup" /\ o \notin Override
    /\ backups' \in {backups, Saved(BackupName(o), {})}
    /\ GoOpen(o, "closed")
    /\ UNCHANGED <<modules, hasTable, history, opens, current, at>>

\* migrate: a store newer than the code is refused before any write.
Check(o) ==
    /\ opening[o] = "check"
    /\ IF Version > Newest(o)
       THEN GoOpen(o, "closed") /\ UNCHANGED <<hasTable, at>>
       ELSE /\ hasTable' = TRUE
            /\ at' = [at EXCEPT ![o] = Version + 1]
            /\ GoOpen(o, "apply")
    /\ UNCHANGED <<modules, history, backups, opens, current>>

\* Mutant: _steps compares with the version read before the loop.
CoveredBefore(o) == current[o] >= at[o]

\* _steps: nothing, when the version read under the write lock covers it.
Covered(o) == Version >= at[o]

\* migrate: one transaction, read again under the lock, its statements and its row.
Apply(o) ==
    /\ opening[o] = "apply" /\ at[o] <= Newest(o)
    /\ history' = IF Covered(o) THEN history
                  ELSE Append(history, [version |-> at[o], by |-> o])
    /\ at' = [at EXCEPT ![o] = @ + 1]
    /\ UNCHANGED <<modules, hasTable, backups, opening, opens, current>>

\* migrate reads the version back.
Reached(o) == Version = Newest(o)

ReadBack(o) ==
    /\ opening[o] = "apply" /\ at[o] > Newest(o)
    /\ GoOpen(o, IF Reached(o) THEN "open" ELSE "closed")
    /\ UNCHANGED <<modules, hasTable, history, backups, opens, current, at>>

\* A statement raises and rolls its transaction back, the process is killed, or
\* an open connection is closed: the store keeps what was committed.
Close(o) ==
    /\ opening[o] \in {"check", "apply", "open"}
    /\ GoOpen(o, "closed")
    /\ UNCHANGED <<modules, hasTable, history, backups, opens, current, at>>

\* Every opener has used its bound.
AllClosed == /\ \A o \in Opener : opening[o] = "closed" /\ opens[o] = MaxOpens
             /\ UNCHANGED migrateVars

MigrateNext ==
    \/ \E o \in Opener : \/ Open(o) \/ Backup(o) \/ BackupFails(o) \/ Check(o)
                         \/ Apply(o) \/ ReadBack(o) \/ Close(o)
    \/ AllClosed

MigrateSpec == MigrateInit /\ [][MigrateNext]_migrateVars

-----------------------------------------------------------------------------
\* The types of the store and of the openers (store_migrate.py).
MigrateTypeOK ==
    /\ modules \in [Opener -> Packages] /\ hasTable \in BOOLEAN
    /\ \A i \in DOMAIN history : history[i].version \in Nat /\ history[i].by \in Opener
    /\ \A n \in DOMAIN backups : backups[n] \subseteq Nat
    /\ opening \in [Opener -> {"closed", "backup", "check", "apply", "open"}]
    /\ opens \in [Opener -> 0..MaxOpens] /\ current \in [Opener -> Nat]
    /\ at \in [Opener -> Nat \ {0}]

\* However openers of different code race, fail and die, each migration is
\* committed once and in order, with none left out (migrate, _steps).
EachOnceInOrder == \A i \in DOMAIN history : history[i].version = i

\* Whatever opener committed a migration, a whole backup of a store without it
\* is on disk (open_store backs up first).
BackupKept ==
    \A i \in DOMAIN history :
        \/ history[i].by \in Override
        \/ \E n \in DOMAIN backups : \E v \in backups[n] : v < history[i].version

\* A connection is handed out only for a store at exactly the version its code
\* knows: older code that was overtaken while it opened is refused (migrate).
OpensAtItsVersion ==
    [][\A o \in Opener : opening[o] # "open" /\ opening'[o] = "open" => Version = Newest(o)]_migrateVars

\* However openers race, fail and die, the store has one history of migrations, a backup
\* from before each, and no user whose code does not match it (open_store).
OneHistory == [](MigrateTypeOK /\ EachOnceInOrder /\ BackupKept) /\ OpensAtItsVersion
=============================================================================
