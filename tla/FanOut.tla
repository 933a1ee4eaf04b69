------------------------------- MODULE FanOut -------------------------------
(***************************************************************************)
(* The nested invocation (harness/invoke.py): a driver submits graphs to a *)
(* pool of threads, reads the futures as they complete, and returns the    *)
(* results, or leaves by an exception.  The pool's threads go on taking    *)
(* queued nodes until the driver shuts the pool down, which it does        *)
(* differently for the account's limit, for a signal and for a bug.        *)
(***************************************************************************)
EXTENDS Integers, Sequences, FiniteSets

CONSTANTS
  MaxParallel,  \* threads of the pool
  Known,        \* the graphs the registry offers
  Batches       \* the invocations a driver may ask for

ASSUME FanOutAssumption ==
  /\ MaxParallel \in Nat
  /\ \A b \in Batches : Len(b) \in Nat /\ DOMAIN b = 1..Len(b)

VARIABLES
  batch,      \* the invocations: id, graph, whether the caller gave a run id
  submitted,  \* how many are submitted
  node,       \* per submitted invocation: where its future is
  taken,      \* the futures the driver has read
  results,    \* ids with a result
  failures,   \* ids set aside with a failure
  pc          \* where the driver is

fanVars == <<batch, submitted, node, taken, results, failures, pc>>

Done == {"ok", "failed", "limit", "bug"}
Ended == {"refused", "returned", "raised_limit", "raised_bug", "left"}
In(s) == {i \in 1..submitted : node[i] \in s}
IdsOf(s) == {batch[i].id : i \in s}

FanInit ==
  /\ batch = <<>> /\ submitted = 0 /\ node = <<>> /\ taken = {}
  /\ results = {} /\ failures = {} /\ pc = "idle"

-----------------------------------------------------------------------------
Malformed(b) ==
  \/ \E i, j \in DOMAIN b : i # j /\ b[i].id = b[j].id
  \/ \E i \in DOMAIN b : b[i].graph \notin Known \/ b[i].own

(* The whole call is refused before anything runs, or the pool is made.    *)
Invoke(b) ==
  /\ pc = "idle"
  /\ batch' = b /\ submitted' = 0 /\ node' = <<>> /\ taken' = {} /\ results' = {} /\ failures' = {}
  /\ pc' = IF Malformed(b) THEN "refused" ELSE "submit"

Submit ==
  /\ pc = "submit"
  /\ IF submitted = Len(batch)
     THEN pc' = "collect" /\ UNCHANGED <<submitted, node>>
     ELSE submitted' = submitted + 1 /\ node' = Append(node, "queued") /\ UNCHANGED pc
  /\ UNCHANGED <<batch, taken, results, failures>>

(* A thread of the pool takes the oldest node of the queue, whether or not *)
(* the driver still waits.                                                 *)
Threads == IF MaxParallel > 1 THEN MaxParallel ELSE 1
Start(i) ==
  /\ i \in In({"queued"}) /\ \A j \in In({"queued"}) : i <= j
  /\ Cardinality(In({"running"})) < Threads
  /\ node' = [node EXCEPT ![i] = "running"]
  /\ UNCHANGED <<batch, submitted, taken, results, failures, pc>>

(* A node's graph returns, raises a contract violation or a runner error,  *)
(* meets the account's limit, or has a bug.                                *)
FinishNode(i, how) ==
  /\ i \in In({"running"}) /\ how \in Done
  /\ node' = [node EXCEPT ![i] = how]
  /\ UNCHANGED <<batch, submitted, taken, results, failures, pc>>

\* shutdown(cancel_futures=True)
Cancelled == [i \in DOMAIN node |-> IF node[i] = "queued" THEN "cancelled" ELSE node[i]]

\* as_completed
Ready == In(Done) \ taken

\* Mutant: a limit is set aside like any runner error.
TakeLimitAside(i) ==
  /\ pc = "collect" /\ i \in Ready
  /\ taken' = taken \cup {i}
  /\ results' = IF node[i] = "ok" THEN results \cup {batch[i].id} ELSE results
  /\ failures' = IF node[i] \in {"failed", "limit"} THEN failures \cup {batch[i].id} ELSE failures
  /\ node' = node
  /\ pc' = IF node[i] = "bug" THEN "bug" ELSE pc
  /\ UNCHANGED <<batch, submitted>>

(* The driver reads one completed future.                                  *)
Take(i) ==
  /\ pc = "collect" /\ i \in Ready
  /\ taken' = taken \cup {i}
  /\ results' = IF node[i] = "ok" THEN results \cup {batch[i].id} ELSE results
  /\ failures' = IF node[i] = "failed" THEN failures \cup {batch[i].id} ELSE failures
  /\ node' = IF node[i] = "limit" THEN Cancelled ELSE node
  /\ pc' = IF node[i] \in {"limit", "bug"} THEN node[i] ELSE pc
  /\ UNCHANGED <<batch, submitted>>

AllRead == taken = In(Done) /\ In({"queued", "running"}) = {}

Return ==
  /\ pc = "collect" /\ AllRead
  /\ pc' = "returned"
  /\ UNCHANGED <<batch, submitted, node, taken, results, failures>>

(* shutdown(wait=True) on the way out: what runs, and after a bug what is  *)
(* queued too, comes to its end first.                                     *)
Drain ==
  /\ pc \in {"limit", "bug"} /\ In({"queued", "running"}) = {}
  /\ pc' = IF pc = "limit" THEN "raised_limit" ELSE "raised_bug"
  /\ UNCHANGED <<batch, submitted, node, taken, results, failures>>

(* SIGTERM is a SystemExit in the driver's thread.  Inside the try it      *)
(* cancels the queue and leaves; inside the handler of a bug it leaves.    *)
Term ==
  /\ pc \in {"submit", "collect", "limit", "bug"}
  /\ node' = IF pc = "bug" THEN node ELSE Cancelled
  /\ pc' = "left"
  /\ UNCHANGED <<batch, submitted, taken, results, failures>>

Driver == Submit \/ Return \/ Drain \/ (\E i \in DOMAIN node : Take(i))
Pool == \E i \in DOMAIN node : Start(i) \/ \E how \in Done : FinishNode(i, how)
FanNext == (\E b \in Batches : Invoke(b)) \/ Driver \/ Pool \/ Term

FanSpec == FanInit /\ [][FanNext]_fanVars

-----------------------------------------------------------------------------
(* The variables hold what the driver's fields may hold.                   *)
FanOutTypeOK ==
  /\ submitted \in 0..Len(batch) /\ node \in Seq({"queued", "running", "cancelled"} \cup Done)
  /\ Len(node) = submitted /\ taken \subseteq In(Done)
  /\ pc \in {"idle", "submit", "collect", "limit", "bug"} \cup Ended

(* A fan-out that returns has a result or a failure for every invocation,  *)
(* the one its node came to, never both and never one for two: no run is   *)
(* dropped.  (invoke_graphs, _refuse_malformed)                            *)
HonestRecord ==
  pc = "returned" =>
    /\ results = IdsOf(In({"ok"})) /\ failures = IdsOf(In({"failed"}))
    /\ results \cap failures = {}
    /\ \A i \in DOMAIN batch : batch[i].id \in results \cup failures
    /\ \A i, j \in DOMAIN batch : i # j => batch[i].id # batch[j].id

(* Once the driver has met the account's limit no queued node starts.      *)
(* (the LimitStop arm of invoke_graphs)                                    *)
LimitStopsTheQueue ==
  [][(pc \in {"limit", "raised_limit"}) =>
       \A i \in DOMAIN node : node[i] = "queued" => node'[i] # "running"]_fanVars

(* A caller that gets a result, a limit or a bug back has no node still    *)
(* running under it, so what it records of the run is the end of it.       *)
(* (the shutdowns of invoke_graphs)                                        *)
NothingRunsAfter ==
  pc \in {"returned", "raised_limit", "raised_bug"} => In({"queued", "running"}) = {}

(* A signal leaves no node to start, unless a bug had been met before it:  *)
(* the handler of a bug waits for its queue, and a signal there leaves it. *)
(* (invoke.py:117-118, 143-149)                                            *)
LeftDropsTheQueue ==
  pc = "left" /\ (\A i \in taken : node[i] # "bug") => In({"queued"}) = {}

(* A limit is never read over: a driver that has read one does not return. *)
(* (the LimitStop arm comes before the RunnerError arm)                    *)
LimitIsNotAFailure == pc = "returned" => In({"limit", "bug"}) = {}

(* What a fan-out gives back is the whole of it: a caller is told of every *)
(* run once, and of a limit or a bug only when nothing runs on behind it.  *)
FanOutIsHonest ==
  /\ [](/\ FanOutTypeOK /\ HonestRecord /\ NothingRunsAfter
        /\ LeftDropsTheQueue /\ LimitIsNotAFailure)
  /\ LimitStopsTheQueue
=============================================================================
