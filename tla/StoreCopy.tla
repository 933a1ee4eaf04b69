------------------------------ MODULE StoreCopy ------------------------------
(* Copying one run-record store into another (harness/store_copy.py), table by
   table and batch by batch, from a source that drivers may go on writing and
   into a destination that may already be in use. A copy is killed or fails at
   any step, and is run again: it is meant to be idempotent. A row is a key and
   a content, a number that grows with every write of the row. *)
EXTENDS Integers, Sequences, FiniteSets

CONSTANTS Order,        \* the tables the order names, parents before children
          Created,      \* the tables the migrations create
          Refreshed,    \* tables whose rows change after they are written
          ParentTable, ChildTable,  \* a row of the child hangs off the parent's row of its key
          Key, MaxContent,          \* bounds: keys, and writes of one row
          Batch,
          SourceLive, DestLive,     \* drivers write the source, the destination
          MaxCopies                 \* bound: runs of the command

ASSUME CopyConstants ==
    /\ Order \in Seq(STRING) /\ Created \subseteq STRING /\ Refreshed \subseteq Created
    /\ \A i, j \in DOMAIN Order : Order[i] = Order[j] => i = j
    /\ \A i, j \in DOMAIN Order : Order[i] = ParentTable /\ Order[j] = ChildTable => i < j
    /\ ParentTable \in Created /\ ChildTable \in Created
    /\ Key \subseteq Nat /\ IsFiniteSet(Key)
    /\ MaxContent \in Nat \ {0} /\ Batch \in Nat \ {0} /\ MaxCopies \in Nat \ {0}
    /\ SourceLive \in BOOLEAN /\ DestLive \in BOOLEAN

VARIABLES src, dst,   \* table -> key -> content, 0 for no row
          command,    \* "idle", "copy", "ok" or "short": what the command is at, or how it last ended
          copies,     \* runs of the command so far
          todo,       \* the tables not finished by this run, of which the first is begun
          read, written, before,  \* _copy_table's counters
          report,     \* table -> rows read, copied and refreshed
          seen,       \* what the source held of each table when its copy began
          everCopied  \* per table, the rows all runs together say they inserted

copyVars == <<src, dst, command, copies, todo, read, written, before, report, seen, everCopied>>
copying == <<command, copies, todo, read, written, before, report, seen, everCopied>>

Rows(store, t) == {k \in Key : store[t][k] # 0}
Count(store, t) == Cardinality(Rows(store, t))

\* plan: a table the order does not name is an error.
Place(t) == CHOOSE i \in DOMAIN Order : Order[i] = t
Unnamed == {t \in Created : \A i \in DOMAIN Order : Order[i] # t}

\* The next table of the plan: the order's first among those that are left.
First(tables) == CHOOSE t \in tables : \A u \in tables : Place(t) <= Place(u)

NoReport == [t \in Created |-> [source |-> 0, copied |-> 0, refreshed |-> 0]]

CopyInit ==
    /\ src \in {s \in [Created -> [Key -> 0..1]] : \A k \in Key : s[ChildTable][k] <= s[ParentTable][k]}
    /\ dst \in {[t \in Created |-> [k \in Key |-> 0]], src,
               [src EXCEPT ![ChildTable] = [k \in Key |-> MaxContent * src[ChildTable][k]]]}
    /\ command = "idle" /\ copies = 0 /\ todo = {}
    /\ read = 0 /\ written = 0 /\ before = 0
    /\ report = NoReport /\ seen = src /\ everCopied = [t \in Created |-> 0]

\* _copy_table begins with no row read.
BeginAt(t) == read' = 0

Counted == read' = 0 /\ written' = 0 /\ before' = 0

Begin(t) ==
    /\ BeginAt(t) /\ written' = 0
    /\ before' = Count(dst, t)
    /\ seen' = [seen EXCEPT ![t] = src[t]]

\* copy: both stores are open, and the plan names every table.
StartCopy ==
    /\ command # "copy" /\ copies < MaxCopies
    /\ copies' = copies + 1
    /\ IF Unnamed # {}
       THEN command' = "idle" /\ UNCHANGED <<todo, read, written, before, seen>>
       ELSE command' = "copy" /\ todo' = Created /\ Begin(First(Created))
    /\ report' = NoReport
    /\ UNCHANGED <<src, dst, everCopied>>

\* SELECT ... ORDER BY key LIMIT Batch OFFSET read, over the source as it is now: the
\* rows that have `read` to `read + Batch - 1` rows before them.
Rank(rows, k) == Cardinality({j \in rows : j < k})
Page(t) == {k \in Rows(src, t) : Rank(Rows(src, t), k) \in read..(read + Batch - 1)}

\* Mutant: every table is upserted.
KeepsNothing(t) == FALSE

\* insert_ignore leaves a row of an append-only table alone; upsert overwrites.
Keeps(t) == t \notin Refreshed

\* The rows after the statement ran for each row of a page, and how many it wrote.
After(t, page) ==
    [k \in Key |-> IF k \in page /\ (dst[t][k] = 0 \/ ~Keeps(t))
                   THEN src[t][k] ELSE dst[t][k]]
Wrote(t, page) ==
    IF Keeps(t) THEN Cardinality({k \in page : dst[t][k] = 0}) ELSE Cardinality(page)

\* inserted: how much the destination's count grew.
Inserted(after) == Cardinality({k \in Key : after[k] # 0}) - before

\* One round of _copy_table's loop: read a page, write it in one transaction,
\* and on a short page close the table and turn to the next.
CopyBatch ==
    /\ command = "copy" /\ todo # {}
    /\ LET t == First(todo)
           page == Page(t)
           got == Cardinality(page)
           after == After(t, page)
           w == written + Wrote(t, page)
           inserted == Inserted(after)
       IN  /\ dst' = [dst EXCEPT ![t] = after]
           /\ IF got < Batch
              THEN /\ report' = [report EXCEPT ![t] =
                        [source |-> read + got, copied |-> inserted, refreshed |-> w - inserted]]
                   /\ everCopied' = [everCopied EXCEPT ![t] = @ + inserted]
                   /\ todo' = todo \ {t}
                   /\ IF todo = {t}
                      THEN Counted /\ UNCHANGED seen
                      ELSE Begin(First(todo \ {t}))
              ELSE /\ read' = read + got /\ written' = w
                   /\ UNCHANGED <<report, everCopied, todo, before, seen>>
    /\ UNCHANGED <<src, command, copies>>

\* copy: the destination holds fewer rows than were read of the source.
Short(t) == Count(dst, t) < report[t].source

CheckCounts ==
    /\ command = "copy" /\ todo = {}
    /\ command' = IF \E t \in Created : Short(t) THEN "short" ELSE "ok"
    /\ UNCHANGED <<src, dst, copies, todo, read, written, before, report, seen, everCopied>>

\* The process is killed, or a transaction raises: the open batch is rolled back.
CopyFails ==
    /\ command = "copy"
    /\ command' = "idle" /\ todo' = {} /\ Counted
    /\ UNCHANGED <<src, dst, copies, report, seen, everCopied>>

\* A driver inserts a row, or writes a row of a refreshed table again. No code deletes one.
Writable(store, t, k) ==
    /\ store[t][k] < (IF t \in Refreshed THEN MaxContent ELSE 1)
    /\ t = ChildTable => store[ParentTable][k] # 0

WriteSource ==
    /\ SourceLive
    /\ \E t \in Created, k \in Key :
        Writable(src, t, k) /\ src' = [src EXCEPT ![t][k] = @ + 1]
    /\ UNCHANGED <<dst, copying>>

WriteDest ==
    /\ DestLive /\ command # "copy"
    /\ \E t \in Created, k \in Key :
        Writable(dst, t, k) /\ dst[t][k] # 0 /\ dst' = [dst EXCEPT ![t][k] = @ + 1]
    /\ UNCHANGED <<src, copying>>

CopyNext == StartCopy \/ CopyBatch \/ CheckCounts \/ CopyFails \/ WriteSource \/ WriteDest

CopySpec == CopyInit /\ [][CopyNext]_copyVars

-----------------------------------------------------------------------------
\* The types of the two stores and of the copy's counters (store_copy.py).
CopyTypeOK ==
    /\ src \in [Created -> [Key -> 0..MaxContent]] /\ dst \in [Created -> [Key -> 0..MaxContent]]
    /\ command \in {"idle", "copy", "ok", "short"} /\ copies \in 0..MaxCopies
    /\ todo \subseteq Created /\ read \in Nat /\ written \in Nat /\ before \in Nat
    /\ seen \in [Created -> [Key -> 0..MaxContent]] /\ everCopied \in [Created -> Nat]
    /\ \A t \in Created : report[t].source \in Nat /\ report[t].copied \in Nat

\* A copy that reports success has in the destination every row the source held
\* when the table's copy began, a refreshed one at least as new as it was then,
\* however the source was paged while it grew (_copy_table).
CopiedWhatWasThere ==
    command = "ok" => \A t \in Created, k \in Key :
        seen[t][k] # 0 => /\ dst[t][k] # 0
                          /\ t \in Refreshed => dst[t][k] >= seen[t][k]

\* Whatever runs of the copy were killed, they never say they inserted more rows
\* than the destination holds: no run inserts a row twice (module docstring).
InsertedOnce == \A t \in Created : everCopied[t] <= Count(dst, t)

\* A copy fails its check only when a row of the source is not in the
\* destination (copy, CopyCheckFailed).
ShortIsReal ==
    command = "short" => \E t \in Created : \E k \in Key : src[t][k] # 0 /\ dst[t][k] = 0

\* A row of the destination that is not refreshed keeps its content: a copy leaves
\* what is there alone (module docstring, insert_ignore).
AppendOnlyKept ==
    [][\A t \in Created \ Refreshed, k \in Key : dst[t][k] # 0 => dst'[t][k] = dst[t][k]]_copyVars

\* A row that reaches the destination before its parent is one whose parent the source
\* did not hold either when the copy began on the parents (_ORDER: parents before children).
ParentsFirst ==
    [][\A k \in Key :
         /\ dst[ChildTable][k] = 0 /\ dst'[ChildTable][k] # 0 /\ dst'[ParentTable][k] = 0
         => seen[ParentTable][k] = 0]_copyVars

\* A copy, whatever is written beside it and wherever it is killed, leaves a destination
\* that holds what was there to copy, says so truly, and undoes nothing (store_copy.py).
CopyIsFaithful ==
    /\ [](CopyTypeOK /\ CopiedWhatWasThere /\ InsertedOnce /\ ShortIsReal)
    /\ AppendOnlyKept /\ ParentsFirst

=============================================================================
