------------------------------ MODULE CallLog ------------------------------
(***************************************************************************)
(* What the Claude Code runner writes down of its calls                    *)
(* (runner/claude_code_runner.py): the trace file of each, numbered from   *)
(* the calls of its role so far, the list `calls` that the driver reads    *)
(* its evidence from, and the rows of the store.  The tasks of a wave run  *)
(* in a pool of threads and share one runner.  All calls here are of one   *)
(* role, `build`.                                                          *)
(***************************************************************************)
EXTENDS Integers, Sequences

CONSTANTS
  Workers,   \* the threads that share the runner
  MaxLogged  \* bound: calls of the CLI

ASSUME CallLogAssumption == MaxLogged \in Nat

VARIABLES
  listed,    \* runner.calls
  nodeCalls, \* node_calls in the store: one row per id, the first one stays
  files,     \* the trace files: which call each holds
  at,        \* per worker: where its call is
  mine,      \* per worker: the call it makes
  made,      \* calls of the CLI so far
  unread     \* history: the calls that came back with nothing the runner can read

logVars == <<listed, nodeCalls, files, at, mine, made, unread>>

Ids == 1..MaxLogged
NotMade == [id |-> 0, first |-> 0, file |-> <<0, "trace">>, kind |-> "none"]
FileNames == Ids \X {"trace", "error"}

Going == {mine[w].id : w \in {v \in Workers : at[v] # "idle"}}

\* insert_ignore on the call id, under a number of its own.
Stored(row) == IF \E r \in nodeCalls : r.id = row.id THEN nodeCalls ELSE nodeCalls \cup {row}

-----------------------------------------------------------------------------
(* One call of the CLI, under the number of the calls of its role so far.  *)
NextFile == <<Len(listed) + 1, "trace">>

Calls(w) ==
  /\ at[w] \in {"idle", "again"} /\ made < MaxLogged
  /\ made' = made + 1
  /\ mine' = [mine EXCEPT ![w] = [id |-> made + 1, first |-> IF at[w] = "idle" THEN made + 1 ELSE @.first,
                                  file |-> NextFile, kind |-> "call"]]

\* It came back: its events go to the file of that number.
Trace(w) ==
  /\ Calls(w)
  /\ files' = [files EXCEPT ![NextFile] = made + 1]
  /\ at' = [at EXCEPT ![w] = IF @ = "idle" THEN "first" ELSE "second"]
  /\ UNCHANGED <<listed, nodeCalls, unread>>

(* It is killed at its timeout: a row, which names the file of that number *)
(* whichever call left it there, and no file of its own.                   *)
TimesOut(w) ==
  /\ Calls(w)
  /\ nodeCalls' = Stored([mine'[w] EXCEPT !.kind = "timeout"])
  /\ at' = [at EXCEPT ![w] = "idle"]
  /\ UNCHANGED <<listed, files, unread>>

\* It prints nothing: neither a file nor a row.
SaysNothing(w) ==
  /\ Calls(w)
  /\ unread' = unread \cup {made + 1}
  /\ at' = [at EXCEPT ![w] = "idle"]
  /\ UNCHANGED <<listed, nodeCalls, files>>

\* Its events are written and hold no result: the node fails without a row.
NoResult(w) ==
  /\ at[w] \in {"first", "second"}
  /\ unread' = unread \cup {mine[w].id}
  /\ at' = [at EXCEPT ![w] = "idle"]
  /\ UNCHANGED <<listed, nodeCalls, files, mine, made>>

(* A stop at the budget, the account's limit, a failure, an answer that is *)
(* not JSON: a row, and no place in `calls`.                               *)
EndWithoutAnswer(w) ==
  /\ at[w] \in {"first", "second"}
  /\ nodeCalls' = Stored([mine[w] EXCEPT !.kind = "failed"])
  /\ at' = [at EXCEPT ![w] = "idle"]
  /\ UNCHANGED <<listed, files, mine, made, unread>>

(* A transient error: the trace is renamed before the row is written.      *)
RetryLogged(w) ==
  /\ at[w] = "first"
  /\ LET error == <<mine[w].file[1], "error">>
     IN /\ files' = [files EXCEPT ![error] = files[mine[w].file], ![mine[w].file] = 0]
        /\ nodeCalls' = Stored([mine[w] EXCEPT !.kind = "retried", !.file = error])
  /\ at' = [at EXCEPT ![w] = "again"]
  /\ UNCHANGED <<listed, mine, made, unread>>

(* An answer takes its place in `calls` before its patch is looked at.     *)
Keep(w) ==
  /\ at[w] \in {"first", "second"}
  /\ listed' = Append(listed, mine[w])
  /\ at' = [at EXCEPT ![w] = "kept"]
  /\ UNCHANGED <<nodeCalls, files, mine, made, unread>>

\* Mutant: an answer whose patch is empty gives its place back.
PatchFailsUnlisted(w) ==
  /\ at[w] = "kept"
  /\ nodeCalls' = Stored([mine[w] EXCEPT !.kind = "patch"])
  /\ listed' = SelectSeq(listed, LAMBDA c : c.id # mine[w].id)
  /\ at' = [at EXCEPT ![w] = "idle"]
  /\ UNCHANGED <<files, mine, made, unread>>

PatchFails(w) ==
  /\ at[w] = "kept"
  /\ nodeCalls' = Stored([mine[w] EXCEPT !.kind = "patch"])
  /\ at' = [at EXCEPT ![w] = "idle"]
  /\ UNCHANGED <<listed, files, mine, made, unread>>

(* self.calls[-1] = ...: the last call gets its patch's files and its      *)
(* decision.                                                               *)
Complete(w) ==
  /\ at[w] = "kept"
  /\ listed' = [listed EXCEPT ![Len(listed)] = [mine[w] EXCEPT !.kind = "complete"]]
  /\ at' = [at EXCEPT ![w] = "complete"]
  /\ UNCHANGED <<nodeCalls, files, mine, made, unread>>

(* The row is the last of `calls`, read again.                             *)
Ledger(w) ==
  /\ at[w] = "complete"
  /\ nodeCalls' = Stored(listed[Len(listed)])
  /\ at' = [at EXCEPT ![w] = "idle"]
  /\ UNCHANGED <<listed, files, mine, made, unread>>

-----------------------------------------------------------------------------
LogInit ==
  /\ listed = <<>> /\ nodeCalls = {} /\ made = 0 /\ unread = {}
  /\ files = [f \in FileNames |-> 0]
  /\ at = [w \in Workers |-> "idle"]
  /\ mine = [w \in Workers |-> NotMade]

LogNext ==
  \E w \in Workers :
    \/ Trace(w) \/ TimesOut(w) \/ SaysNothing(w) \/ NoResult(w) \/ EndWithoutAnswer(w)
    \/ RetryLogged(w) \/ Keep(w) \/ PatchFails(w) \/ Complete(w) \/ Ledger(w)

LogSpec == LogInit /\ [][LogNext]_logVars
-----------------------------------------------------------------------------
(* Every call that came back with a result, or was killed at its timeout,  *)
(* has a row of its own when its node is done with it, the row of an       *)
(* answer with what was found out about it: the store row is "the only     *)
(* record" of what was spent.  A call that cannot be read has none.        *)
AnsweredIsStored ==
  \A id \in (1..made) \ unread :
    id \in Going \/ \E r \in nodeCalls : r.id = id /\ r.kind # "call" /\ (r.kind = "complete" => r.file[2] = "trace")

(* The driver reads the evidence of a task off `calls`: every answer that  *)
(* is done is there as it was completed.                                   *)
EvidenceIsKept ==
  \A r \in nodeCalls : r.kind = "complete" => \E i \in 1..Len(listed) : listed[i].id = r.id /\ listed[i].kind = "complete"

(* Once a call was answered, the files that its rows name hold what they   *)
(* did, the failed first attempt and the answer, whatever runs later: a    *)
(* place in `calls` is taken before the patch is judged.                   *)
KeptTraces ==
  \A r \in nodeCalls, a \in nodeCalls :
    a.kind \in {"complete", "patch"} /\ r.first = a.first => files[r.file] = r.id

(* The rows, the list of calls and the trace files tell the same story.     *)
LogsAgree == AnsweredIsStored /\ EvidenceIsKept /\ KeptTraces
=============================================================================
