------------------------- MODULE DispatchProofs -----------------------------
(***************************************************************************)
(* What dispatches work: the fan-out of a batch, for every batch, every    *)
(* number of threads and every order in which the nodes end, and rescue, for*)
(* every number of rescues, builds, launches, attempts, ticket texts and   *)
(* landings; and between the two the chief of staff, for any ideas, detached *)
(* runs, selections and interleavings.                                     *)
(***************************************************************************)
EXTENDS Cos, Rescue, SequenceTheorems, FiniteSetTheorems, TLAPS

-----------------------------------------------------------------------------
(* The fan-out *)

Node == {"queued", "running", "cancelled"} \cup Done

\* The driver has read no limit and no bug.
ReadsOn == \A i \in taken : node[i] \notin {"limit", "bug"}

\* What the driver holds is what it read.
Held ==
  /\ results = IdsOf({i \in taken : node[i] = "ok"})
  /\ failures = IdsOf({i \in taken : node[i] = "failed"})

\* A driver that goes on has submitted all, cancelled none, and read no stop.
GoesOn ==
  /\ pc = "submit" => taken = {}
  /\ pc \in {"submit", "collect", "returned"} => In({"cancelled"}) = {} /\ ReadsOn
  /\ pc \in {"collect", "returned"} => submitted = Len(batch)
  /\ pc = "returned" => AllRead

\* One that stops has dropped its queue, or waits for it after a bug.
StopsClean ==
  /\ pc = "limit" => In({"queued"}) = {}
  /\ pc \in {"raised_limit", "raised_bug"} => In({"queued", "running"}) = {}
  /\ pc = "bug" => \E i \in taken : node[i] = "bug"

\* A batch is a sequence, and one that is worked on is well-formed.
BatchOK ==
  /\ Len(batch) \in Nat /\ DOMAIN batch = 1..Len(batch)
  /\ pc \notin {"idle", "refused"} => ~Malformed(batch)

FanInv ==
  /\ FanOutTypeOK /\ BatchOK /\ Held /\ GoesOn /\ StopsClean /\ LeftDropsTheQueue

-----------------------------------------------------------------------------
LEMMA InitHasFanInv == FanInit => FanInv
<1> SUFFICES ASSUME FanInit PROVE FanInv
  OBVIOUS
<1> USE DEF FanInit
<1>1. In(Done) = {} /\ In({"cancelled"}) = {} /\ In({"queued"}) = {}
  BY DEF In
<1>2. FanOutTypeOK /\ BatchOK
  BY <1>1, EmptySeq DEF FanOutTypeOK, BatchOK
<1>3. Held
  BY DEF Held, IdsOf
<1> QED
  BY <1>1, <1>2, <1>3 DEF FanInv, GoesOn, StopsClean, LeftDropsTheQueue

\* A node that is replaced keeps the sequence a sequence, and the others as they are.
LEMMA NodeChanges ==
  ASSUME FanOutTypeOK, BatchOK, NEW i \in 1..submitted, NEW s \in Node, node' = [node EXCEPT ![i] = s]
  PROVE  /\ node' \in Seq(Node) /\ Len(node') = submitted
         /\ \A j \in 1..submitted : node'[j] = IF j = i THEN s ELSE node[j]
<1>1. node \in Seq(Node) /\ Len(node) = submitted /\ submitted \in Nat
  BY DEF FanOutTypeOK, BatchOK, Node
<1> QED
  BY <1>1, ExceptSeq

\* A cancelled queue: the queued nodes are cancelled, the others as they are.
LEMMA CancelledNodes ==
  ASSUME FanOutTypeOK, BatchOK
  PROVE  /\ Cancelled \in Seq(Node) /\ Len(Cancelled) = submitted
         /\ \A j \in 1..submitted : Cancelled[j] = IF node[j] = "queued" THEN "cancelled" ELSE node[j]
<1>1. node \in Seq(Node) /\ Len(node) = submitted /\ submitted \in Nat
  BY DEF FanOutTypeOK, BatchOK, Node
<1>2. DOMAIN node = 1..submitted /\ \A j \in 1..submitted : node[j] \in Node
  BY <1>1
<1>3. Cancelled = [j \in 1..submitted |-> IF node[j] = "queued" THEN "cancelled" ELSE node[j]]
  BY <1>2 DEF Cancelled
<1>4. \A j \in 1..submitted : (IF node[j] = "queued" THEN "cancelled" ELSE node[j]) \in Node
  BY <1>2 DEF Node
<1> QED
  BY <1>1, <1>3, <1>4

-----------------------------------------------------------------------------
LEMMA InvokeKeepsFanInv ==
  ASSUME FanInv, NEW b, Len(b) \in Nat, DOMAIN b = 1..Len(b), Invoke(b)
  PROVE  FanInv'
<1> USE DEF Invoke
<1>1. In(Done)' = {} /\ In({"cancelled"})' = {} /\ In({"queued"})' = {}
  BY DEF In
<1>2. FanOutTypeOK' /\ BatchOK'
  BY <1>1, EmptySeq DEF FanOutTypeOK, BatchOK, Ended, Malformed
<1>3. Held'
  BY DEF Held, IdsOf
<1> QED
  BY <1>1, <1>2, <1>3 DEF FanInv, GoesOn, StopsClean, LeftDropsTheQueue, ReadsOn

LEMMA SubmitKeepsFanInv ==
  ASSUME FanInv, Submit
  PROVE  FanInv'
<1> USE DEF FanInv
<1>0. /\ pc = "submit" /\ taken = {}
      /\ Len(batch) \in Nat /\ submitted \in 0..Len(batch) /\ submitted \in Nat
      /\ Len(node) = submitted /\ node \in Seq(Node)
  <2>1. pc = "submit" /\ taken = {}
    BY DEF Submit, GoesOn
  <2>2. Len(batch) \in Nat /\ submitted \in 0..Len(batch)
    BY DEF BatchOK, FanOutTypeOK
  <2>3. submitted \in Nat
    BY <2>2
  <2>4. Len(node) = submitted /\ node \in Seq(Node)
    BY DEF FanOutTypeOK, Node
  <2> QED
    BY <2>1, <2>2, <2>3, <2>4
<1>1. CASE submitted = Len(batch)
  <2>1. pc' = "collect" /\ UNCHANGED <<batch, submitted, node, taken, results, failures>>
    BY <1>1 DEF Submit
  <2>2. In(Done)' = In(Done) /\ In({"cancelled"})' = In({"cancelled"})
    BY <2>1 DEF In
  <2>3. FanOutTypeOK' /\ BatchOK'
    BY <1>0, <2>1, <2>2 DEF FanOutTypeOK, BatchOK, Malformed
  <2>4. Held'
    BY <2>1 DEF Held, IdsOf
  <2> QED
    BY <1>0, <1>1, <2>1, <2>2, <2>3, <2>4 DEF GoesOn, StopsClean, LeftDropsTheQueue, ReadsOn
<1>2. CASE submitted # Len(batch)
  <2>1. /\ submitted' = submitted + 1 /\ node' = Append(node, "queued")
        /\ UNCHANGED <<pc, batch, taken, results, failures>>
    BY <1>2 DEF Submit
  <2>2. node' \in Seq(Node) /\ Len(node') = submitted' /\ submitted' \in 0..Len(batch)
    <3>1. submitted + 1 \in 0..Len(batch)
      BY <1>0, <1>2
    <3>2. "queued" \in Node
      BY DEF Node
    <3>3. Append(node, "queued") \in Seq(Node) /\ Len(Append(node, "queued")) = Len(node) + 1
      BY <1>0, <3>2, AppendProperties
    <3> QED
      BY <1>0, <2>1, <3>1, <3>3
  <2>3. \A j \in 1..submitted : node'[j] = node[j]
    BY <1>0, <2>1
  <2>4. node'[submitted'] = "queued"
    BY <1>0, <2>1
  <2>5. In({"cancelled"})' = {}
    BY <1>0, <2>1, <2>3, <2>4 DEF In, GoesOn
  <2>6. FanOutTypeOK' /\ BatchOK'
    BY <1>0, <2>1, <2>2 DEF FanOutTypeOK, BatchOK, Malformed, Node
  <2>7. Held'
    BY <1>0, <2>1 DEF Held, IdsOf
  <2> QED
    BY <1>0, <2>1, <2>5, <2>6, <2>7 DEF GoesOn, StopsClean, LeftDropsTheQueue, ReadsOn
<1> QED
  BY <1>1, <1>2

LEMMA StartKeepsFanInv ==
  ASSUME FanInv, NEW i \in DOMAIN node, Start(i)
  PROVE  FanInv'
<1> USE DEF FanInv
<1>1. i \in 1..submitted /\ node[i] = "queued" /\ node' = [node EXCEPT ![i] = "running"]
  BY DEF Start, In
<1>2. UNCHANGED <<batch, submitted, taken, results, failures, pc>>
  BY DEF Start
<1>3. /\ node' \in Seq(Node) /\ Len(node') = submitted
      /\ \A j \in 1..submitted : node'[j] = IF j = i THEN "running" ELSE node[j]
  BY <1>1, NodeChanges DEF Node
<1>4. i \notin taken /\ taken \subseteq 1..submitted
  BY <1>1 DEF FanOutTypeOK, In, Done
<1>5. \A j \in taken : node'[j] = node[j]
  BY <1>3, <1>4
<1>6. /\ In(Done)' = In(Done) /\ In({"cancelled"})' = In({"cancelled"})
      /\ In({"queued", "running"})' = In({"queued", "running"})
      /\ In({"queued"})' \subseteq In({"queued"})
  BY <1>1, <1>2, <1>3 DEF In, Done
<1>7. FanOutTypeOK' /\ BatchOK'
  BY <1>2, <1>3, <1>6 DEF FanOutTypeOK, BatchOK, Malformed, Node
<1>8. Held'
  BY <1>2, <1>5 DEF Held, IdsOf
<1>9. GoesOn'
  BY <1>2, <1>5, <1>6 DEF GoesOn, ReadsOn, AllRead
<1>10. StopsClean' /\ LeftDropsTheQueue'
  BY <1>2, <1>5, <1>6 DEF StopsClean, LeftDropsTheQueue
<1> QED
  BY <1>7, <1>8, <1>9, <1>10

LEMMA FinishKeepsFanInv ==
  ASSUME FanInv, NEW i \in DOMAIN node, NEW how \in Done, FinishNode(i, how)
  PROVE  FanInv'
<1> USE DEF FanInv
<1>1. i \in 1..submitted /\ node[i] = "running" /\ node' = [node EXCEPT ![i] = how]
  BY DEF FinishNode, In
<1>2. UNCHANGED <<batch, submitted, taken, results, failures, pc>>
  BY DEF FinishNode
<1>3. /\ node' \in Seq(Node) /\ Len(node') = submitted
      /\ \A j \in 1..submitted : node'[j] = IF j = i THEN how ELSE node[j]
  BY <1>1, NodeChanges DEF Node
<1>4. i \notin taken /\ taken \subseteq In(Done)
  BY <1>1 DEF FanOutTypeOK, In, Done
<1>5. \A j \in taken : node'[j] = node[j]
  BY <1>3, <1>4 DEF In
<1>6. /\ In(Done) \subseteq In(Done)' /\ In({"cancelled"})' = In({"cancelled"})
      /\ In({"queued", "running"})' \subseteq In({"queued", "running"})
      /\ In({"queued"})' = In({"queued"})
  BY <1>1, <1>2, <1>3 DEF In, Done
<1>7. i \in In({"queued", "running"})
  BY <1>1 DEF In
<1>8. pc # "returned"
  BY <1>7 DEF GoesOn, AllRead
<1>9. FanOutTypeOK' /\ BatchOK'
  BY <1>2, <1>3, <1>4, <1>6 DEF FanOutTypeOK, BatchOK, Malformed, Node
<1>10. Held'
  BY <1>2, <1>5 DEF Held, IdsOf
<1>11. GoesOn'
  BY <1>2, <1>5, <1>6, <1>8 DEF GoesOn, ReadsOn
<1>12. StopsClean' /\ LeftDropsTheQueue'
  BY <1>2, <1>5, <1>6 DEF StopsClean, LeftDropsTheQueue
<1> QED
  BY <1>9, <1>10, <1>11, <1>12

LEMMA TakeKeepsFanInv ==
  ASSUME FanInv, NEW i \in DOMAIN node, Take(i)
  PROVE  FanInv'
<1> USE DEF FanInv
<1>1. pc = "collect" /\ i \in In(Done) /\ i \notin taken /\ taken' = taken \cup {i}
  BY DEF Take, Ready
<1>2. UNCHANGED <<batch, submitted>>
  BY DEF Take
<1>3. i \in 1..submitted /\ node[i] \in Done /\ taken \subseteq In(Done) /\ taken \subseteq 1..submitted
  BY <1>1 DEF In, FanOutTypeOK
<1>4. /\ node' \in Seq(Node) /\ Len(node') = submitted
      /\ \A j \in 1..submitted : node'[j] = node[j] \/ (node[j] = "queued" /\ node'[j] = "cancelled")
  <2>1. CASE node[i] = "limit"
    BY <2>1, CancelledNodes DEF Take
  <2>2. CASE node[i] # "limit"
    BY <2>2 DEF Take, FanOutTypeOK, Node
  <2> QED
    BY <2>1, <2>2
<1>5. \A j \in In(Done) : node'[j] = node[j]
  BY <1>4 DEF In, Done
<1>6. In(Done)' = In(Done)
  BY <1>2, <1>4 DEF In, Done
<1>7. pc' = IF node[i] \in {"limit", "bug"} THEN node[i] ELSE pc
  BY DEF Take
<1>8. FanOutTypeOK'
  BY <1>1, <1>2, <1>3, <1>4, <1>6, <1>7 DEF FanOutTypeOK, Node
<1>9. BatchOK'
  BY <1>1, <1>2, <1>7 DEF BatchOK, Malformed
<1>10. Held'
  <2>1. \A s : {j \in taken' : node'[j] = s} = {j \in taken \cup {i} : node[j] = s}
    BY <1>1, <1>3, <1>5
  <2>2. \A s : IdsOf({j \in taken : node[j] = s} \cup {i}) = IdsOf({j \in taken : node[j] = s}) \cup {batch[i].id}
    BY DEF IdsOf
  <2>3. results' = IdsOf({j \in taken \cup {i} : node[j] = "ok"})
    <3>1. results = IdsOf({j \in taken : node[j] = "ok"})
      BY DEF Held
    <3>2. results' = IF node[i] = "ok" THEN results \cup {batch[i].id} ELSE results
      BY DEF Take
    <3>3. CASE node[i] = "ok"
      <4>1. {j \in taken \cup {i} : node[j] = "ok"} = {j \in taken : node[j] = "ok"} \cup {i}
        BY <3>3
      <4>2. IdsOf({j \in taken : node[j] = "ok"} \cup {i}) = IdsOf({j \in taken : node[j] = "ok"}) \cup {batch[i].id}
        BY <2>2
      <4> QED
        BY <3>1, <3>2, <3>3, <4>1, <4>2
    <3>4. CASE node[i] # "ok"
      <4>1. {j \in taken \cup {i} : node[j] = "ok"} = {j \in taken : node[j] = "ok"}
        BY <3>4
      <4> QED
        BY <3>1, <3>2, <3>4, <4>1
    <3> QED
      BY <3>3, <3>4
  <2>4. failures' = IdsOf({j \in taken \cup {i} : node[j] = "failed"})
    <3>1. failures = IdsOf({j \in taken : node[j] = "failed"})
      BY DEF Held
    <3>2. failures' = IF node[i] = "failed" THEN failures \cup {batch[i].id} ELSE failures
      BY DEF Take
    <3>3. CASE node[i] = "failed"
      <4>1. {j \in taken \cup {i} : node[j] = "failed"} = {j \in taken : node[j] = "failed"} \cup {i}
        BY <3>3
      <4>2. IdsOf({j \in taken : node[j] = "failed"} \cup {i}) = IdsOf({j \in taken : node[j] = "failed"}) \cup {batch[i].id}
        BY <2>2
      <4> QED
        BY <3>1, <3>2, <3>3, <4>1, <4>2
    <3>4. CASE node[i] # "failed"
      <4>1. {j \in taken \cup {i} : node[j] = "failed"} = {j \in taken : node[j] = "failed"}
        BY <3>4
      <4> QED
        BY <3>1, <3>2, <3>4, <4>1
    <3> QED
      BY <3>3, <3>4
  <2> QED
    BY <1>2, <2>1, <2>3, <2>4 DEF Held, IdsOf
<1>11. GoesOn'
  <2>1. CASE node[i] \in {"limit", "bug"}
    BY <1>7, <2>1 DEF GoesOn
  <2>2. CASE node[i] \notin {"limit", "bug"}
    <3>1. node' = node /\ pc' = "collect"
      BY <1>1, <1>7, <2>2 DEF Take
    <3> QED
      BY <1>1, <1>2, <2>2, <3>1 DEF GoesOn, ReadsOn, In
  <2> QED
    BY <2>1, <2>2
<1>12. StopsClean' /\ LeftDropsTheQueue'
  <2>1. CASE node[i] = "limit"
    <3>1. In({"queued"})' = {}
      BY <1>2, <2>1, CancelledNodes DEF In, Take
    <3> QED
      BY <1>7, <2>1, <3>1 DEF StopsClean, LeftDropsTheQueue
  <2>2. CASE node[i] # "limit"
    <3>1. node' = node
      BY <2>2 DEF Take
    <3> QED
      BY <1>1, <1>7, <2>2, <3>1 DEF StopsClean, LeftDropsTheQueue
  <2> QED
    BY <2>1, <2>2
<1> QED
  BY <1>8, <1>9, <1>10, <1>11, <1>12

\* A return and a drain move the driver only.
LEMMA LeavingKeepsFanInv ==
  ASSUME FanInv, Return \/ Drain
  PROVE  FanInv'
<1> USE DEF FanInv
<1>1. UNCHANGED <<batch, submitted, node, taken, results, failures>>
  BY DEF Return, Drain
<1>2. \A s : In(s)' = In(s)
  BY <1>1 DEF In
<1>3. \/ pc = "collect" /\ AllRead /\ pc' = "returned"
      \/ pc \in {"limit", "bug"} /\ In({"queued", "running"}) = {} /\ pc' \in {"raised_limit", "raised_bug"}
  BY DEF Return, Drain
<1>4. FanOutTypeOK' /\ BatchOK' /\ Held'
  BY <1>1, <1>2, <1>3 DEF FanOutTypeOK, BatchOK, Held, IdsOf, Malformed, Ended
<1>5. GoesOn'
  BY <1>1, <1>2, <1>3 DEF GoesOn, ReadsOn, AllRead
<1>6. StopsClean' /\ LeftDropsTheQueue'
  BY <1>1, <1>2, <1>3 DEF StopsClean, LeftDropsTheQueue
<1> QED
  BY <1>4, <1>5, <1>6

LEMMA TermKeepsFanInv ==
  ASSUME FanInv, Term
  PROVE  FanInv'
<1> USE DEF FanInv
<1>1. pc \in {"submit", "collect", "limit", "bug"} /\ pc' = "left" /\ UNCHANGED <<batch, submitted, taken, results, failures>>
  BY DEF Term
<1>2. /\ node' \in Seq(Node) /\ Len(node') = submitted
      /\ \A j \in 1..submitted : node'[j] = node[j] \/ (node[j] = "queued" /\ node'[j] = "cancelled")
  <2>1. CASE pc = "bug"
    BY <2>1 DEF Term, FanOutTypeOK, Node
  <2>2. CASE pc # "bug"
    BY <2>2, CancelledNodes DEF Term
  <2> QED
    BY <2>1, <2>2
<1>3. In(Done)' = In(Done) /\ taken \subseteq In(Done)
  BY <1>1, <1>2 DEF In, Done, FanOutTypeOK
<1>4. \A j \in taken : node'[j] = node[j]
  BY <1>2, <1>3 DEF In, Done
<1>5. FanOutTypeOK' /\ BatchOK'
  BY <1>1, <1>2, <1>3 DEF FanOutTypeOK, BatchOK, Malformed, Node, Ended
<1>6. Held'
  BY <1>1, <1>4 DEF Held, IdsOf
<1>7. LeftDropsTheQueue'
  <2>1. CASE pc = "bug"
    BY <1>1, <1>4, <2>1 DEF StopsClean, LeftDropsTheQueue
  <2>2. CASE pc # "bug"
    BY <1>1, <2>2, CancelledNodes DEF Term, LeftDropsTheQueue, In
  <2> QED
    BY <2>1, <2>2
<1> QED
  BY <1>1, <1>5, <1>6, <1>7 DEF GoesOn, StopsClean

LEMMA StepKeepsFanInv == FanInv /\ [FanNext]_fanVars => FanInv'
<1> SUFFICES ASSUME FanInv, [FanNext]_fanVars PROVE FanInv'
  OBVIOUS
<1>1. CASE \E b \in Batches : Invoke(b)
  BY <1>1, InvokeKeepsFanInv, FanOutAssumption
<1>2. CASE Driver
  BY <1>2, SubmitKeepsFanInv, LeavingKeepsFanInv, TakeKeepsFanInv DEF Driver
<1>3. CASE Pool
  BY <1>3, StartKeepsFanInv, FinishKeepsFanInv DEF Pool
<1>4. CASE Term
  BY <1>4, TermKeepsFanInv
<1>5. CASE UNCHANGED fanVars
  BY <1>5 DEF fanVars, FanInv, FanOutTypeOK, BatchOK, Held, GoesOn, StopsClean, LeftDropsTheQueue, In, IdsOf,
              ReadsOn, AllRead, Malformed
<1> QED
  BY <1>1, <1>2, <1>3, <1>4, <1>5 DEF FanNext

-----------------------------------------------------------------------------
\* A driver that returns has read every node, and none was cancelled, met a limit or a bug.
LEMMA ReturnedIsWhole ==
  ASSUME FanInv, pc = "returned"
  PROVE  /\ In({"ok", "failed"}) = 1..Len(batch) /\ taken = In({"ok", "failed"})
         /\ In({"limit", "bug"}) = {}
<1> USE DEF FanInv
<1>1. submitted = Len(batch) /\ AllRead /\ In({"cancelled"}) = {} /\ ReadsOn
  BY DEF GoesOn
<1>2. \A i \in 1..submitted : node[i] \in Node
  BY DEF FanOutTypeOK, Node
<1>3. \A i \in 1..submitted : node[i] \in Done
  BY <1>1, <1>2 DEF AllRead, In, Node
<1>4. taken = 1..submitted
  BY <1>1, <1>3 DEF AllRead, In
<1>5. \A i \in 1..submitted : node[i] \in {"ok", "failed"}
  BY <1>1, <1>3, <1>4 DEF ReadsOn, Done
<1> QED
  BY <1>1, <1>4, <1>5 DEF In

LEMMA FanInvIsHonest ==
  ASSUME FanInv
  PROVE  HonestRecord /\ NothingRunsAfter /\ LimitIsNotAFailure
<1> USE DEF FanInv
<1>1. ASSUME pc = "returned"
      PROVE  /\ results = IdsOf(In({"ok"})) /\ failures = IdsOf(In({"failed"}))
             /\ results \cap failures = {}
             /\ \A i \in DOMAIN batch : batch[i].id \in results \cup failures
             /\ \A i, j \in DOMAIN batch : i # j => batch[i].id # batch[j].id
  <2>1. In({"ok", "failed"}) = 1..Len(batch) /\ taken = In({"ok", "failed"}) /\ submitted = Len(batch)
    BY <1>1, ReturnedIsWhole DEF GoesOn
  <2>2. DOMAIN batch = 1..Len(batch) /\ \A i, j \in DOMAIN batch : i # j => batch[i].id # batch[j].id
    BY <1>1 DEF BatchOK, Malformed
  <2>3. {i \in taken : node[i] = "ok"} = In({"ok"}) /\ {i \in taken : node[i] = "failed"} = In({"failed"})
    BY <2>1 DEF In
  <2>4. results = IdsOf(In({"ok"})) /\ failures = IdsOf(In({"failed"}))
    BY <2>3 DEF Held
  <2>5. results \cap failures = {}
    BY <2>2, <2>1, <2>4 DEF IdsOf, In
  <2>6. \A i \in DOMAIN batch : i \in In({"ok"}) \cup In({"failed"})
    BY <2>1, <2>2 DEF In
  <2> QED
    BY <2>2, <2>4, <2>5, <2>6 DEF IdsOf
<1>2. HonestRecord
  BY <1>1 DEF HonestRecord
<1>3. LimitIsNotAFailure
  BY ReturnedIsWhole DEF LimitIsNotAFailure
<1>4. NothingRunsAfter
  BY DEF NothingRunsAfter, GoesOn, AllRead, StopsClean
<1> QED
  BY <1>2, <1>3, <1>4

\* What a fan-out gives back is the whole of it: every run is told of once, by what its node
\* came to, a limit is never read over, and nothing runs on behind a caller (invoke_graphs).
THEOREM FanOutsAreHonest == FanSpec => FanOutIsHonest
<1>1. FanInit => FanInv
  BY InitHasFanInv
<1>2. FanInv /\ [FanNext]_fanVars => FanInv'
  BY StepKeepsFanInv
<1>3. FanInv => /\ FanOutTypeOK /\ HonestRecord /\ NothingRunsAfter
                /\ LeftDropsTheQueue /\ LimitIsNotAFailure
  BY FanInvIsHonest DEF FanInv
<1>4. FanInv => [(pc \in {"limit", "raised_limit"}) =>
                   \A i \in DOMAIN node : node[i] = "queued" => node'[i] # "running"]_fanVars
  <2> SUFFICES ASSUME FanInv, pc \in {"limit", "raised_limit"}, NEW i \in DOMAIN node, node[i] = "queued"
               PROVE  FALSE
    BY DEF fanVars
  <2>1. i \in 1..submitted
    BY DEF FanInv, FanOutTypeOK
  <2> QED
    BY <2>1 DEF FanInv, StopsClean, In
<1> QED
  BY <1>1, <1>2, <1>3, <1>4, PTL DEF FanSpec, FanOutIsHonest, LimitStopsTheQueue

-----------------------------------------------------------------------------
(* The chief of staff *)

\* The members of a finite set of numbers have different ranks, one for each place.
LEMMA RanksFill ==
  ASSUME NEW S, S \subseteq Nat, IsFiniteSet(S)
  PROVE  /\ Cardinality(S) \in Nat
         /\ \A x \in S : Cardinality({y \in S : y < x}) \in 0..(Cardinality(S) - 1)
         /\ \A x, z \in S : Cardinality({y \in S : y < x}) = Cardinality({y \in S : y < z}) => x = z
         /\ \A i \in 1..Cardinality(S) : \E x \in S : Cardinality({y \in S : y < x}) = i - 1
<1> DEFINE Below(x) == {y \in S : y < x}
           size == Cardinality(S)
           r == [x \in S |-> Cardinality(Below(x)) + 1]
<1>1. size \in Nat
  BY FS_CardinalityType
<1>2. ASSUME NEW x \in S
      PROVE  IsFiniteSet(Below(x)) /\ Cardinality(Below(x)) \in Nat /\ Cardinality(Below(x)) < size
  <2>1. Below(x) \in SUBSET S /\ x \notin Below(x)
    OBVIOUS
  <2>2. IsFiniteSet(Below(x)) /\ Cardinality(Below(x)) <= size /\ (size = Cardinality(Below(x)) => S = Below(x))
    BY <2>1, FS_Subset
  <2>3. Cardinality(Below(x)) \in Nat
    BY <2>2, FS_CardinalityType
  <2> QED BY <1>1, <2>1, <2>2, <2>3
<1>3. ASSUME NEW x \in S, NEW z \in S, x < z
      PROVE  Cardinality(Below(x)) < Cardinality(Below(z))
  <2>0. x \in Nat /\ z \in Nat
    OBVIOUS
  <2>1. ASSUME NEW y \in Below(x) PROVE y \in Below(z)
    <3>1. y \in S /\ y < x /\ y \in Nat
      OBVIOUS
    <3>2. y < z
      BY <1>3, <2>0, <3>1
    <3> QED BY <3>1, <3>2
  <2>3. x \in Below(z)
    BY <1>3
  <2>4. ~(x < x)
    BY <2>0
  <2>5. x \notin Below(x)
    BY <2>4
  <2>2. Cardinality(Below(x)) <= Cardinality(Below(z))
        /\ (Cardinality(Below(z)) = Cardinality(Below(x)) => Below(z) = Below(x))
    <3>1. Below(x) \in SUBSET Below(z)
      BY <2>1
    <3> QED BY <1>2, <3>1, FS_Subset
  <2> HIDE DEF Below
  <2> QED BY <1>2, <2>2, <2>3, <2>5
<1> HIDE DEF Below
<1>4. \A x, z \in S : Cardinality(Below(x)) = Cardinality(Below(z)) => x = z
  <2> SUFFICES ASSUME NEW x \in S, NEW z \in S, Cardinality(Below(x)) = Cardinality(Below(z))
               PROVE  x = z
    OBVIOUS
  <2>1. ~(x < z) /\ ~(z < x) /\ x \in Nat /\ z \in Nat
    BY <1>2, <1>3
  <2> QED BY <2>1
<1>5. r \in Injection(S, 1..size)
  <2>1. r \in [S -> 1..size]
    BY <1>1, <1>2
  <2>2. \A x, z \in S : r[x] = r[z] => x = z
    BY <1>2, <1>4
  <2> HIDE DEF r
  <2> QED BY <2>1, <2>2 DEF Injection, IsInjective
<1>6. r \in Surjection(S, 1..size)
  <2>1. IsFiniteSet(1..size) /\ Cardinality(1..size) = size
    BY <1>1, FS_Interval
  <2> HIDE DEF r
  <2> QED BY <1>5, <2>1, FS_Injection
<1>7. ASSUME NEW i \in 1..size
      PROVE  \E x \in S : Cardinality(Below(x)) = i - 1
  <2>1. PICK x \in S : r[x] = i
    BY <1>6 DEF Surjection
  <2> QED BY <1>2, <2>1
<1>8. \A x \in S : Cardinality(Below(x)) \in 0..(size - 1)
  BY <1>1, <1>2
<1>9. \A i \in 1..size : \E x \in S : Cardinality(Below(x)) = i - 1
  BY <1>7
<1>10. /\ \A x \in S : Cardinality(Below(x)) \in 0..(size - 1)
       /\ \A x, z \in S : Cardinality(Below(x)) = Cardinality(Below(z)) => x = z
       /\ \A i \in 1..size : \E x \in S : Cardinality(Below(x)) = i - 1
  BY <1>4, <1>8, <1>9
<1> QED BY <1>1, <1>10, Zenon DEF Below

\* A set of ideas in order is a sequence of its members, each once.
LEMMA InOrderIs ==
  ASSUME NEW S, S \subseteq Items
  PROVE  /\ Len(InOrder(S)) = Cardinality(S) /\ Cardinality(S) \in Nat
         /\ \A i \in 1..Cardinality(S) : InOrder(S)[i] \in S
         /\ \A i, j \in 1..Cardinality(S) : InOrder(S)[i] = InOrder(S)[j] => i = j
         /\ S # {} => Cardinality(S) > 0
<1>1. S \subseteq Nat /\ IsFiniteSet(S)
  BY CosAssumption, FS_Subset
<1>2. Cardinality(S) \in Nat /\ (S # {} => Cardinality(S) > 0)
  BY <1>1, FS_CardinalityType, FS_EmptySet
<1>3. ASSUME NEW i \in 1..Cardinality(S)
      PROVE  InOrder(S)[i] \in S /\ Cardinality({y \in S : y < InOrder(S)[i]}) = i - 1
  <2>0. \A k \in 1..Cardinality(S) : \E x \in S : Cardinality({y \in S : y < x}) = k - 1
    BY <1>1, RanksFill, Zenon
  <2>1. \E x \in S : Cardinality({y \in S : y < x}) = i - 1
    BY <2>0, Zenon
  <2>2. InOrder(S)[i] = CHOOSE x \in S : Cardinality({y \in S : y < x}) = i - 1
    BY DEF InOrder
  <2> QED BY <2>1, <2>2
<1>4. Len(InOrder(S)) = Cardinality(S)
  BY <1>2 DEF InOrder
<1>5. \A i, j \in 1..Cardinality(S) : InOrder(S)[i] = InOrder(S)[j] => i = j
  <2> SUFFICES ASSUME NEW i \in 1..Cardinality(S), NEW j \in 1..Cardinality(S), InOrder(S)[i] = InOrder(S)[j]
               PROVE  i = j
    OBVIOUS
  <2>1. i - 1 = j - 1
    BY <1>3
  <2> QED BY <1>2, <2>1
<1> QED BY <1>2, <1>3, <1>4, <1>5

\* The decomposes of a selection are counted off one by one.
LEMMA DecomposesCount ==
  ASSUME NEW c, NEW m \in Nat, DOMAIN c = 1..m
  PROVE  /\ Cardinality(Decomposes(c)) \in Nat
         /\ \A i \in Decomposes(c) :
              Cardinality({j \in Decomposes(c) : j <= i}) \in 1..Cardinality(Decomposes(c))
         /\ \A i, k \in Decomposes(c) :
              Cardinality({j \in Decomposes(c) : j <= i}) = Cardinality({j \in Decomposes(c) : j <= k}) => i = k
<1> DEFINE D == Decomposes(c)
<1>1. D \subseteq Nat /\ IsFiniteSet(D)
  <2>1. D \in SUBSET (1..m) /\ IsFiniteSet(1..m)
    BY FS_Interval DEF Decomposes
  <2> QED BY <2>1, FS_Subset
<1>2. ASSUME NEW i \in D
      PROVE  Cardinality({j \in D : j <= i}) = Cardinality({j \in D : j < i}) + 1
  <2>1. {j \in D : j <= i} = {j \in D : j < i} \cup {i} /\ i \notin {j \in D : j < i}
    BY <1>1
  <2>2. IsFiniteSet({j \in D : j < i})
    BY <1>1, FS_Subset
  <2> QED BY <2>1, <2>2, FS_AddElement
<1>3. /\ Cardinality(D) \in Nat
      /\ \A x \in D : Cardinality({y \in D : y < x}) \in 0..(Cardinality(D) - 1)
      /\ \A x, z \in D : Cardinality({y \in D : y < x}) = Cardinality({y \in D : y < z}) => x = z
  <2> HIDE DEF D
  <2> QED BY <1>1, RanksFill, Zenon
<1> HIDE DEF D
<1> DEFINE to(i) == Cardinality({j \in D : j <= i})
           below(i) == Cardinality({j \in D : j < i})
<1>9. /\ \A i \in D : to(i) = below(i) + 1
      /\ \A i \in D : below(i) \in 0..(Cardinality(D) - 1)
      /\ \A i, k \in D : below(i) = below(k) => i = k
  BY <1>2, <1>3, Zenon
<1> HIDE DEF to, below
<1>4. \A i, k \in D : to(i) = to(k) => i = k
  <2> SUFFICES ASSUME NEW i \in D, NEW k \in D,
                      to(i) = to(k)
               PROVE  i = k
    OBVIOUS
  <2>1. below(i) = below(k)
    BY <1>3, <1>9
  <2> QED BY <1>9, <2>1
<1>5. \A i \in D : to(i) \in 1..Cardinality(D)
  BY <1>3, <1>9
<1> QED BY <1>3, <1>4, <1>5, Zenon DEF D, to

-----------------------------------------------------------------------------
\* What a dispatch has in hand while its fan-out is at work or has come back.
HasBatch == {"invoking", "consuming", "gating"}

CosTypes ==
  /\ intake \in [Items -> {"absent", "queued", "consumed"}]
  /\ run \in [Runs -> {"none", "alive", "gone", "dead", "reused"}]
  /\ docket \in [runnable : SUBSET Registry, free : 0..MaxInFlight, alive : Nat]
  /\ cpc \in {"off", "docket", "read", "refused", "cos_error", "raised", "done", "dead"} \cup HasBatch
  /\ ran \in [Items -> Nat] /\ stops \in Nat /\ started \in Nat

\* The fan-out is at rest until the dispatch, and has come back when the ideas are marked.
Stages ==
  /\ cpc \in {"off", "docket", "read"} => pc = "idle"
  /\ cpc \in {"consuming", "gating"} => pc = "returned"

\* The docket was true of the runs that were alive then.
DocketHolds ==
  cpc # "off" =>
    /\ docket.free > 0 => docket.free + docket.alive <= MaxInFlight
    /\ usage = "stop" => docket.free = 0
    /\ Cardinality(Alive) <= docket.alive + started
    /\ "triage" \in docket.runnable => alerts

\* The ideas in hand, each once, are still queued.
QueueHolds ==
  cpc = "read" =>
    /\ Len(queue) \in Nat
    /\ \A i \in 1..Len(queue) : queue[i] \in Items /\ intake[queue[i]] = "queued"
    /\ \A i, j \in 1..Len(queue) : queue[i] = queue[j] => i = j

\* The batch is what was allowed of the selection, with an idea for each decompose.
BatchHolds ==
  /\ \A i \in DOMAIN held : held[i] \in Items \cup {0}
  /\ OneItemEach
  /\ cpc \in HasBatch =>
       /\ Len(held) = Len(batch) /\ DOMAIN held = 1..Len(batch) /\ Len(batch) <= docket.free
       /\ \A i \in 1..Len(batch) :
            /\ batch[i].id = i /\ batch[i].graph \in docket.runnable
            /\ batch[i].graph = "decompose" <=> held[i] # 0
            /\ held[i] # 0 => intake[held[i]] # "absent" /\ (cpc = "invoking" => intake[held[i]] = "queued")

\* A decompose that finished has been counted.
RanCounts ==
  cpc \in HasBatch => \A k \in DOMAIN node : held[k] # 0 /\ node[k] = "ok" => ran[held[k]] > 0

\* Until a dispatch is stopped, an idea that ran is marked, or is about to be.
FirstRuns ==
  stops = 0 =>
    \A i \in Items :
      /\ ran[i] <= 1
      /\ intake[i] # "consumed" /\ ran[i] > 0 =>
           cpc \in {"invoking", "consuming"} /\ \E k \in DOMAIN node : held[k] = i /\ node[k] = "ok"

CosInv ==
  /\ FanInv /\ CosTypes /\ Stages /\ DocketHolds /\ QueueHolds /\ BatchHolds /\ RanCounts /\ FirstRuns
  /\ ConsumedRan

\* A run counted as alive has a pid file whose process answers.
LEMMA AliveCounts ==
  /\ IsFiniteSet(Alive) /\ IsFiniteSet(PidAlive)
  /\ Cardinality(Alive) \in Nat /\ Cardinality(PidAlive) \in Nat
  /\ Cardinality(Alive) <= Cardinality(PidAlive)
<1>1. Alive \in SUBSET Runs /\ PidAlive \in SUBSET Runs /\ Alive \in SUBSET PidAlive
  BY DEF Alive, PidAlive
<1>2. IsFiniteSet(Alive) /\ IsFiniteSet(PidAlive) /\ Cardinality(Alive) <= Cardinality(PidAlive)
  BY <1>1, CosAssumption, FS_Subset
<1> QED BY <1>2, FS_CardinalityType

\* The slots and the places of a fan-out, as numbers.
LEMMA CosNumbers ==
  ASSUME CosInv
  PROVE  /\ Len(batch) \in Nat /\ DOMAIN batch = 1..Len(batch) /\ DOMAIN node = 1..submitted
         /\ submitted \in 0..Len(batch) /\ docket.free \in Nat /\ docket.alive \in Nat
  BY DEF CosInv, FanInv, BatchOK, FanOutTypeOK, CosTypes

LEMMA CosInitInv == CosInit => CosInv
<1> SUFFICES ASSUME CosInit PROVE CosInv
  OBVIOUS
<1> USE CosAssumption DEF CosInit
<1>1. FanInv
  BY InitHasFanInv
<1>2. CosTypes
  BY DEF CosTypes, NoDocket
<1>3. Stages
  BY DEF Stages, FanInit
<1>4. BatchHolds
  BY DEF BatchHolds, OneItemEach, HasBatch
<1> QED
  BY <1>1, <1>2, <1>3, <1>4 DEF CosInv, DocketHolds, QueueHolds, RanCounts, FirstRuns, ConsumedRan, HasBatch

\* A step that leaves the fan-out and its batch alone, and no idea's record.
LEMMA AsideKeepsCosInv ==
  ASSUME CosInv, UNCHANGED <<fanVars, held, docket, usage, alerts, ran>>, CosTypes', Stages', DocketHolds', QueueHolds',
         stops' >= stops,
         cpc' \in HasBatch => cpc \in HasBatch /\ (cpc' = "invoking" => cpc = "invoking"),
         cpc \in {"invoking", "consuming"} /\ stops' = 0 => cpc' \in {"invoking", "consuming"},
         \A i \in Items : intake'[i] = intake[i] \/ (intake[i] = "absent" /\ intake'[i] = "queued" /\ cpc' \notin HasBatch)
  PROVE  CosInv'
<1> USE DEF CosInv
<1>1. FanInv'
  BY StepKeepsFanInv
<1>2. fanVars' = fanVars /\ batch' = batch /\ node' = node /\ held' = held /\ docket' = docket /\ ran' = ran
  BY DEF fanVars
<1>3. BatchHolds'
  BY <1>2 DEF BatchHolds, OneItemEach
<1>4. RanCounts'
  BY <1>2 DEF RanCounts
<1>5. FirstRuns'
  BY <1>2 DEF FirstRuns, CosTypes
<1>6. ConsumedRan'
  BY <1>2 DEF ConsumedRan
<1> QED BY <1>1, <1>3, <1>4, <1>5, <1>6

LEMMA AssembleInv ==
  ASSUME CosInv, AssembleDocket
  PROVE  CosInv'
<1> USE DEF CosInv
<1>1. /\ cpc = "off" /\ cpc' = "docket" /\ started' = 0 /\ pc' = pc
      /\ docket' = [runnable |-> Runnable, free |-> GatedFreeSlots(Cardinality(PidAlive)),
                    alive |-> Cardinality(Alive)]
      /\ UNCHANGED <<fanVars, intake, run, alerts, usage, queue, held, ran, stops>>
  BY DEF AssembleDocket, fanVars
<1>2. /\ docket'.free \in 0..MaxInFlight /\ (usage = "stop" => docket'.free = 0)
      /\ (docket'.free > 0 => docket'.free + Cardinality(Alive) <= MaxInFlight)
  BY <1>1, AliveCounts, CosAssumption DEF GatedFreeSlots, FreeSlots, LessNotNeg
<1>3. docket'.runnable \subseteq Registry /\ ("triage" \in docket'.runnable => alerts)
  BY <1>1 DEF Runnable, Offered
<1>4. docket' \in [runnable : SUBSET Registry, free : 0..MaxInFlight, alive : Nat]
  BY <1>1, <1>2, <1>3, AliveCounts
<1>5. CosTypes'
  BY <1>1, <1>4 DEF CosTypes
<1>6. Stages' /\ QueueHolds' /\ RanCounts'
  BY <1>1 DEF Stages, QueueHolds, RanCounts, HasBatch
<1>7. DocketHolds'
  <2>1. Alive' = Alive
    BY <1>1 DEF Alive
  <2> QED BY <1>1, <1>2, <1>3, <2>1, AliveCounts DEF DocketHolds
<1>8. FanInv'
  BY <1>1, StepKeepsFanInv
<1>9. BatchHolds' /\ FirstRuns' /\ ConsumedRan'
  BY <1>1 DEF BatchHolds, OneItemEach, FirstRuns, ConsumedRan, HasBatch
<1> QED BY <1>5, <1>6, <1>7, <1>8, <1>9

LEMMA ReadIntakeInv ==
  ASSUME CosInv, ReadIntake
  PROVE  CosInv'
<1> USE DEF CosInv
<1>1. /\ cpc = "docket" /\ cpc' = "read" /\ queue' = InOrder(Queued) /\ pc' = pc
      /\ UNCHANGED <<fanVars, intake, run, alerts, usage, docket, held, ran, stops, started>>
  BY DEF ReadIntake, fanVars
<1>2. CosTypes' /\ Stages'
  BY <1>1 DEF CosTypes, Stages, HasBatch
<1>3. DocketHolds'
  BY <1>1 DEF DocketHolds, Alive
<1>4. QueueHolds'
  <2>1. Queued \subseteq Items /\ \A i \in Queued : intake[i] = "queued"
    BY DEF Queued
  <2>2. /\ Len(queue') = Cardinality(Queued) /\ Len(queue') \in Nat
        /\ \A i \in 1..Len(queue') : queue'[i] \in Queued
        /\ \A i, j \in 1..Len(queue') : queue'[i] = queue'[j] => i = j
    BY <1>1, <2>1, InOrderIs
  <2> QED BY <1>1, <2>1, <2>2 DEF QueueHolds
<1>5. stops' >= stops /\ cpc' \notin HasBatch /\ cpc \notin {"invoking", "consuming"}
      /\ \A i \in Items : intake'[i] = intake[i]
  BY <1>1 DEF CosTypes, HasBatch
<1>6. UNCHANGED <<fanVars, held, docket, usage, alerts, ran>>
  BY <1>1
<1> HIDE DEF CosInv
<1> QED BY <1>2, <1>3, <1>4, <1>5, <1>6, AsideKeepsCosInv

\* What of a selection is allowed: its first entries, as many as fit.
LEMMA AllowedIs ==
  ASSUME CosInv, NEW chosen \in Chosen, PicksOffered(chosen)
  PROVE  /\ Len(Allowed(chosen)) \in Nat /\ DOMAIN Allowed(chosen) = 1..Len(Allowed(chosen))
         /\ Len(Allowed(chosen)) <= docket.free
         /\ \A i \in 1..Len(Allowed(chosen)) : Allowed(chosen)[i] \in docket.runnable
<1>1. PICK k \in 0..MaxPicks : chosen \in [1..k -> Registry]
  BY DEF Chosen
<1>2. k \in Nat /\ chosen \in Seq(Registry) /\ Len(chosen) = k /\ DOMAIN chosen = 1..k
  BY <1>1
<1> DEFINE m == Lesser(Len(chosen), docket.free)
<1>3. m \in 0..Len(chosen) /\ m <= docket.free /\ m \in Nat
  BY <1>2, CosNumbers DEF Lesser
<1>4. Len(Allowed(chosen)) = m /\ DOMAIN Allowed(chosen) = 1..m /\ \A i \in 1..m : Allowed(chosen)[i] = chosen[i]
  <2> HIDE DEF m
  <2>1. Allowed(chosen) = SubSeq(chosen, 1, m)
    BY DEF Allowed, m
  <2>2. SubSeq(chosen, 1, m) = [i \in 1..m |-> chosen[i]]
    BY <1>2, <1>3
  <2> QED BY <1>3, <2>1, <2>2
<1> HIDE DEF m
<1> QED BY <1>2, <1>3, <1>4 DEF PicksOffered

LEMMA DispatchInv ==
  ASSUME CosInv, NEW chosen \in Chosen, Dispatch(chosen)
  PROVE  CosInv'
<1> USE DEF CosInv
<1> DEFINE allowed == Allowed(chosen)
           asked == [i \in DOMAIN allowed |-> [id |-> i, graph |-> allowed[i], own |-> FALSE]]
           tooMany == \/ \E i \in DOMAIN allowed : allowed[i] \notin Recipes
                      \/ Cardinality(Decomposes(allowed)) > Len(queue)
<1>1. /\ cpc = "read"
      /\ UNCHANGED <<intake, run, alerts, usage, docket, queue, ran, stops, started>>
      /\ IF ~PicksOffered(chosen) THEN cpc' = "refused" /\ UNCHANGED <<fanVars, held>>
         ELSE IF tooMany THEN cpc' = "cos_error" /\ UNCHANGED <<fanVars, held>>
         ELSE /\ held' = [i \in DOMAIN allowed |-> ItemFor(allowed, i)]
              /\ Invoke(asked) /\ cpc' = "invoking"
  BY DEF Dispatch
<1>2. DocketHolds'
  BY <1>1 DEF DocketHolds, Alive
<1>3. CASE cpc' \in {"refused", "cos_error"} /\ UNCHANGED <<fanVars, held>>
  <2>1. CosTypes' /\ Stages' /\ QueueHolds'
    BY <1>1, <1>3 DEF CosTypes, Stages, QueueHolds, HasBatch
  <2>2. stops' >= stops /\ cpc' \notin HasBatch /\ cpc \notin {"invoking", "consuming"}
        /\ \A i \in Items : intake'[i] = intake[i]
    BY <1>1, <1>3 DEF CosTypes, HasBatch
  <2>3. UNCHANGED <<fanVars, held, docket, usage, alerts, ran>>
    BY <1>1, <1>3
  <2> HIDE DEF CosInv
  <2> QED BY <1>2, <2>1, <2>2, <2>3, AsideKeepsCosInv
<1>4. CASE PicksOffered(chosen) /\ ~tooMany
  <2>1. held' = [i \in DOMAIN allowed |-> ItemFor(allowed, i)] /\ Invoke(asked) /\ cpc' = "invoking"
    BY <1>1, <1>4
  <2>2. /\ Len(allowed) \in Nat /\ DOMAIN allowed = 1..Len(allowed) /\ Len(allowed) <= docket.free
        /\ \A i \in 1..Len(allowed) : allowed[i] \in docket.runnable
    BY <1>4, AllowedIs
  <2>3. /\ Len(queue) \in Nat
        /\ \A i \in 1..Len(queue) : queue[i] \in Items /\ intake[queue[i]] = "queued"
        /\ \A i, j \in 1..Len(queue) : queue[i] = queue[j] => i = j
    BY <1>1 DEF QueueHolds
  <2>4. Cardinality(Decomposes(allowed)) <= Len(queue) /\ Cardinality(Decomposes(allowed)) \in Nat
    BY <1>4, <2>2, <2>3, DecomposesCount
  <2> DEFINE at(i) == Cardinality({j \in Decomposes(allowed) : j <= i})
  <2>18. /\ \A i \in Decomposes(allowed) : at(i) \in 1..Cardinality(Decomposes(allowed))
         /\ \A i, k \in Decomposes(allowed) : at(i) = at(k) => i = k
    <3> HIDE DEF allowed
    <3> QED BY <2>2, DecomposesCount, Zenon
  <2>5. \A i \in Decomposes(allowed) : at(i) \in 1..Len(queue)
    <3> HIDE DEF allowed, at
    <3> QED BY <2>3, <2>4, <2>18
  <2>6. \A i, k \in Decomposes(allowed) : at(i) = at(k) => i = k
    BY <2>18
  <2>7. \A i \in 1..Len(allowed) : held'[i] = IF i \in Decomposes(allowed) THEN queue[at(i)] ELSE 0
    BY <2>1, <2>2 DEF ItemFor, Decomposes
  <2> HIDE DEF at
  <2>8. \A i \in 1..Len(allowed) :
          /\ held'[i] \in Items \cup {0}
          /\ (allowed[i] = "decompose") <=> (held'[i] # 0)
          /\ held'[i] # 0 => intake[held'[i]] = "queued"
    BY <2>2, <2>3, <2>5, <2>7, CosAssumption DEF Decomposes
  <2>9. \A i, k \in 1..Len(allowed) : i # k /\ held'[i] # 0 => held'[i] # held'[k]
    <3> SUFFICES ASSUME NEW i \in 1..Len(allowed), NEW k \in 1..Len(allowed), held'[i] # 0, held'[i] = held'[k]
                 PROVE  i = k
      OBVIOUS
    <3>1. i \in Decomposes(allowed) /\ k \in Decomposes(allowed) /\ queue[at(i)] = queue[at(k)]
      BY <2>7
    <3> QED BY <2>3, <2>5, <2>6, <3>1
  <2>10. DOMAIN held' = 1..Len(allowed) /\ Len(held') = Len(allowed)
    BY <2>1, <2>2
  <2>11. /\ Len(asked) = Len(allowed) /\ DOMAIN asked = 1..Len(asked) /\ Len(asked) \in Nat
         /\ \A i \in 1..Len(allowed) : asked[i].id = i /\ asked[i].graph = allowed[i]
    BY <2>2
  <2> HIDE DEF asked, allowed
  <2>12. FanInv'
    BY <2>1, <2>11, InvokeKeepsFanInv
  <2>13. batch' = asked /\ node' = <<>>
    BY <2>1 DEF Invoke
  <2>14. CosTypes' /\ Stages'
    BY <1>1, <2>1 DEF CosTypes, Stages, HasBatch
  <2>15. BatchHolds'
    <3>1. (\A i \in DOMAIN held : held[i] \in Items \cup {0})'
      BY <2>8, <2>10
    <3>2. OneItemEach'
      BY <2>9, <2>10 DEF OneItemEach
    <3>3. /\ Len(held') = Len(batch') /\ DOMAIN held' = 1..Len(batch') /\ Len(batch') <= docket'.free
          /\ \A i \in 1..Len(batch') :
               /\ batch'[i].id = i /\ batch'[i].graph \in docket'.runnable
               /\ batch'[i].graph = "decompose" <=> held'[i] # 0
               /\ held'[i] # 0 => intake'[held'[i]] = "queued"
      BY <1>1, <2>2, <2>8, <2>10, <2>11, <2>13
    <3> QED BY <2>1, <3>1, <3>2, <3>3 DEF BatchHolds
  <2>16. QueueHolds' /\ RanCounts' /\ ConsumedRan'
    BY <1>1, <2>1, <2>13 DEF QueueHolds, RanCounts, ConsumedRan
  <2>17. FirstRuns'
    BY <1>1 DEF FirstRuns
  <2> QED BY <1>2, <2>12, <2>14, <2>15, <2>16, <2>17
<1> QED BY <1>1, <1>3, <1>4

\* A node that is well ended was running before, and stays so.
LEMMA NodesGoOn ==
  ASSUME FanInv, Driver \/ Pool \/ Term
  PROVE  /\ batch' = batch /\ DOMAIN node \subseteq DOMAIN node'
         /\ \A k \in DOMAIN node : node[k] = "ok" => node'[k] = "ok"
         /\ \A k \in DOMAIN node' : node'[k] = "ok" => k \in DOMAIN node /\ node[k] \in {"ok", "running"}
<1> USE DEF FanInv
<1>0. node \in Seq(Node) /\ Len(node) = submitted /\ submitted \in Nat /\ DOMAIN node = 1..submitted
  BY DEF FanOutTypeOK, BatchOK, Node
<1>1. CASE Submit
  <2>1. CASE node' = node
    BY <1>1, <2>1 DEF Submit
  <2>2. CASE node' = Append(node, "queued")
    <3>1. DOMAIN node' = 1..(submitted + 1) /\ node'[submitted + 1] = "queued"
          /\ \A k \in 1..submitted : node'[k] = node[k]
      BY <1>0, <2>2
    <3>2. \A k \in DOMAIN node' : k \in DOMAIN node \/ k = submitted + 1
      BY <1>0, <3>1
    <3> QED BY <1>0, <1>1, <3>1, <3>2 DEF Submit
  <2> QED BY <1>1, <2>1, <2>2 DEF Submit
<1>2. CASE Return \/ Drain
  BY <1>2 DEF Return, Drain
<1>3. ASSUME node' = node \/ node' = Cancelled
      PROVE  /\ DOMAIN node' = DOMAIN node
             /\ \A k \in DOMAIN node : node'[k] = "ok" <=> node[k] = "ok"
  BY <1>3 DEF Cancelled
<1>4. ASSUME NEW i \in DOMAIN node, Take(i)
      PROVE  batch' = batch /\ (node' = node \/ node' = Cancelled)
  BY <1>4 DEF Take
<1>5. CASE Term
  <2>1. batch' = batch /\ (node' = node \/ node' = Cancelled)
    BY <1>5 DEF Term
  <2> QED BY <1>3, <2>1
<1>6. ASSUME NEW i \in DOMAIN node, Start(i) \/ \E how \in Done : FinishNode(i, how)
      PROVE  /\ batch' = batch /\ DOMAIN node \subseteq DOMAIN node'
             /\ \A k \in DOMAIN node : node[k] = "ok" => node'[k] = "ok"
             /\ \A k \in DOMAIN node' : node'[k] = "ok" => k \in DOMAIN node /\ node[k] \in {"ok", "running"}
  <2>1. CASE Start(i)
    BY <1>0, <2>1 DEF Start, In
  <2>2. CASE \E how \in Done : FinishNode(i, how)
    BY <1>0, <2>2 DEF FinishNode, In
  <2> QED BY <1>6, <2>1, <2>2
<1>7. CASE \E i \in DOMAIN node : Take(i)
  BY <1>3, <1>4, <1>7
<1>8. CASE Pool
  BY <1>6, <1>8 DEF Pool
<1> QED BY <1>1, <1>2, <1>5, <1>7, <1>8 DEF Driver

LEMMA FanStepInv ==
  ASSUME CosInv, Fan
  PROVE  CosInv'
<1> USE DEF CosInv
<1> DEFINE Ends(i) == {k \in DOMAIN node : held[k] = i /\ node[k] = "running" /\ node'[k] = "ok"}
<1>1. /\ cpc = "invoking" /\ (Driver \/ Pool \/ Term)
      /\ ran' = [i \in Items |-> ran[i] + Cardinality(Ends(i))]
      /\ UNCHANGED <<intake, run, alerts, usage, docket, cpc, queue, held, stops, started>>
  BY DEF Fan
<1>2. FanInv'
  BY <1>1, StepKeepsFanInv DEF FanNext
<1>3. /\ batch' = batch /\ DOMAIN node \subseteq DOMAIN node'
      /\ \A k \in DOMAIN node : node[k] = "ok" => node'[k] = "ok"
      /\ \A k \in DOMAIN node' : node'[k] = "ok" => k \in DOMAIN node /\ node[k] \in {"ok", "running"}
  BY <1>1, NodesGoOn
<1>4. \A k \in DOMAIN node : k \in DOMAIN held
  BY <1>1, CosNumbers DEF BatchHolds, HasBatch
<1>5. ASSUME NEW i \in Items
      PROVE  /\ Cardinality(Ends(i)) \in {0, 1}
             /\ Cardinality(Ends(i)) = 1 <=> \E k \in DOMAIN node : k \in Ends(i)
  <2>1. i # 0
    BY CosAssumption
  <2>2. \A k, l \in Ends(i) : k = l
    BY <1>4, <2>1 DEF BatchHolds, OneItemEach
  <2>3. CASE Ends(i) = {}
    BY <2>3, FS_EmptySet
  <2>4. CASE Ends(i) # {}
    <3>1. PICK k \in DOMAIN node : k \in Ends(i)
      BY <2>4
    <3>2. Ends(i) = {k}
      BY <2>2, <3>1
    <3> QED BY <3>1, <3>2, FS_Singleton
  <2> QED BY <2>3, <2>4
<1> HIDE DEF Ends
<1>6. ran' \in [Items -> Nat] /\ \A i \in Items : ran'[i] = ran[i] + Cardinality(Ends(i)) /\ ran[i] \in Nat
  BY <1>1, <1>5 DEF CosTypes
<1>7. CosTypes' /\ Stages' /\ QueueHolds'
  BY <1>1, <1>6 DEF CosTypes, Stages, QueueHolds, HasBatch
<1>8. DocketHolds'
  BY <1>1 DEF DocketHolds, Alive
<1>9. BatchHolds'
  BY <1>1, <1>3 DEF BatchHolds, OneItemEach
<1>10. RanCounts'
  <2> SUFFICES ASSUME NEW k \in DOMAIN node', held[k] # 0, node'[k] = "ok"
               PROVE  ran'[held[k]] > 0
    BY <1>1 DEF RanCounts
  <2>1. k \in DOMAIN node /\ held[k] \in Items
    BY <1>3, <1>4 DEF BatchHolds
  <2>2. CASE node[k] = "ok"
    <3>1. ran[held[k]] > 0
      BY <1>1, <2>1, <2>2 DEF RanCounts, HasBatch
    <3> QED BY <1>5, <1>6, <2>1, <3>1
  <2>3. CASE node[k] = "running"
    <3>1. k \in Ends(held[k])
      BY <2>1, <2>3 DEF Ends
    <3> QED BY <1>5, <1>6, <2>1, <3>1
  <2> QED BY <1>3, <2>2, <2>3
<1>11. FirstRuns'
  <2> SUFFICES ASSUME stops = 0, NEW i \in Items
               PROVE  /\ ran'[i] <= 1
                      /\ intake[i] # "consumed" /\ ran'[i] > 0 =>
                           \E k \in DOMAIN node' : held[k] = i /\ node'[k] = "ok"
    BY <1>1 DEF FirstRuns
  <2>1. CASE Cardinality(Ends(i)) = 0
    <3>1. ran'[i] = ran[i]
      BY <1>6, <2>1
    <3> QED BY <1>1, <1>3, <3>1 DEF FirstRuns
  <2>2. CASE Cardinality(Ends(i)) = 1
    <3>1. PICK k \in DOMAIN node : held[k] = i /\ node[k] = "running" /\ node'[k] = "ok"
      BY <1>5, <2>2 DEF Ends
    <3>2. i # 0 /\ intake[i] = "queued"
      BY <1>1, <1>4, <3>1, CosAssumption DEF BatchHolds, HasBatch
    <3>3. ran[i] = 0
      <4> SUFFICES ASSUME ran[i] > 0 PROVE FALSE
        BY <1>6
      <4>1. PICK l \in DOMAIN node : held[l] = i /\ node[l] = "ok"
        BY <3>2 DEF FirstRuns
      <4>2. l = k
        BY <1>4, <3>1, <3>2, <4>1 DEF BatchHolds, OneItemEach
      <4> QED BY <3>1, <4>1, <4>2
    <3> QED BY <1>3, <1>6, <2>2, <3>1, <3>3
  <2> QED BY <1>5, <2>1, <2>2
<1>12. ConsumedRan'
  BY <1>1, <1>5, <1>6 DEF ConsumedRan
<1> QED BY <1>2, <1>7, <1>8, <1>9, <1>10, <1>11, <1>12

LEMMA FanEndsInv ==
  ASSUME CosInv, FanReturns \/ FanRaises \/ GateProposals \/ Die
  PROVE  CosInv'
<1> USE DEF CosInv
<1>1. UNCHANGED <<fanVars, held, docket, usage, alerts, ran, intake, run, queue, started>> /\ pc' = pc
  BY DEF FanReturns, FanRaises, GateProposals, Die, fanVars
<1>2. stops' \in Nat /\ stops' >= stops
  BY DEF FanReturns, FanRaises, GateProposals, Die, CosTypes
<1>3. /\ cpc \in HasBatch /\ cpc' \in {"consuming", "raised", "done", "dead"}
      /\ cpc' = "consuming" => pc = "returned"
      /\ cpc \in {"invoking", "consuming"} /\ stops' = 0 => cpc' \in {"invoking", "consuming"}
  BY DEF FanReturns, FanRaises, GateProposals, Die, HasBatch, CosTypes
<1>4. CosTypes' /\ Stages' /\ QueueHolds'
  BY <1>1, <1>2, <1>3 DEF CosTypes, Stages, QueueHolds, HasBatch
<1>5. DocketHolds'
  BY <1>1, <1>3 DEF DocketHolds, Alive, HasBatch
<1> QED BY <1>1, <1>2, <1>3, <1>4, <1>5, AsideKeepsCosInv DEF HasBatch

LEMMA BesideInv ==
  ASSUME CosInv, (\E i \in Items : Arrives(i)) \/ (\E r \in Runs : RunStarts(r) \/ RunEnds(r))
  PROVE  CosInv'
<1> USE DEF CosInv
<1>1. /\ UNCHANGED <<fanVars, held, docket, usage, alerts, ran, queue, stops, cpc>> /\ pc' = pc
      /\ cpc \in {"off", "docket", "read"}
  BY DEF Arrives, RunStarts, RunEnds, fanVars
<1>2. stops' = stops /\ stops \in Nat
  BY <1>1 DEF CosTypes
<1>3. CASE \E i \in Items : Arrives(i)
  <2>1. PICK i \in Items : Arrives(i)
    BY <1>3
  <2>2. run' = run /\ started' = started /\ intake[i] = "absent" /\ intake' = [intake EXCEPT ![i] = "queued"]
    BY <2>1 DEF Arrives
  <2>3. CosTypes' /\ Stages'
    BY <1>1, <2>2 DEF CosTypes, Stages
  <2>4. DocketHolds'
    BY <1>1, <2>2 DEF DocketHolds, Alive
  <2>5. \A j \in Items : intake'[j] = intake[j] \/ (intake[j] = "absent" /\ intake'[j] = "queued")
    BY <2>2 DEF CosTypes
  <2>6. QueueHolds'
    BY <1>1, <2>5 DEF QueueHolds
  <2> QED BY <1>1, <1>2, <2>3, <2>4, <2>5, <2>6, AsideKeepsCosInv DEF HasBatch
<1>4. CASE \E r \in Runs : RunStarts(r) \/ RunEnds(r)
  <2>1. PICK r \in Runs : RunStarts(r) \/ RunEnds(r)
    BY <1>4
  <2>2. intake' = intake
    BY <2>1 DEF RunStarts, RunEnds
  <2>3. CASE RunStarts(r)
    <3>1. run[r] = "none" /\ run' = [run EXCEPT ![r] = "alive"] /\ started' = started + 1
      BY <2>3 DEF RunStarts
    <3>2. run \in [Runs -> {"none", "alive", "gone", "dead", "reused"}] /\ started \in Nat
      BY DEF CosTypes
    <3>3. Alive' = Alive \cup {r} /\ r \notin Alive
      BY <3>1, <3>2 DEF Alive
    <3>4. Cardinality(Alive') = Cardinality(Alive) + 1
      BY <3>3, AliveCounts, FS_AddElement
    <3>5. DocketHolds'
      BY <1>1, <3>1, <3>2, <3>4, AliveCounts, CosNumbers DEF DocketHolds
    <3>6. CosTypes' /\ Stages' /\ QueueHolds'
      BY <1>1, <2>2, <3>1, <3>2 DEF CosTypes, Stages, QueueHolds
    <3> QED BY <1>1, <1>2, <2>2, <3>5, <3>6, AsideKeepsCosInv DEF HasBatch
  <2>4. CASE RunEnds(r)
    <3>1. PICK after \in {"gone", "dead", "reused"} : run' = [run EXCEPT ![r] = after]
      BY <2>4 DEF RunEnds
    <3>2. run \in [Runs -> {"none", "alive", "gone", "dead", "reused"}] /\ started' = started
      BY <2>4 DEF CosTypes, RunEnds
    <3>3. Alive' \in SUBSET Alive
      BY <3>1, <3>2 DEF Alive
    <3>4. Cardinality(Alive') <= Cardinality(Alive) /\ Cardinality(Alive') \in Nat
      BY <3>3, AliveCounts, FS_Subset, FS_CardinalityType
    <3>5. started \in Nat
      BY DEF CosTypes
    <3>6. DocketHolds'
      BY <1>1, <3>2, <3>4, <3>5, AliveCounts, CosNumbers DEF DocketHolds
    <3>7. CosTypes' /\ Stages' /\ QueueHolds'
      BY <1>1, <2>2, <3>1, <3>2 DEF CosTypes, Stages, QueueHolds
    <3> QED BY <1>1, <1>2, <2>2, <3>6, <3>7, AsideKeepsCosInv DEF HasBatch
  <2> QED BY <2>1, <2>3, <2>4
<1> QED BY <1>3, <1>4

\* An idea is handled when its decompose was read, and not as a failure.
LEMMA HandledRan ==
  ASSUME CosInv, cpc = "consuming"
  PROVE  /\ \A i \in Handled : i \in Items /\ ran[i] > 0 /\ intake[i] # "absent"
         /\ \A k \in DOMAIN node : node[k] = "ok" /\ held[k] # 0 => held[k] \in Handled
<1> USE DEF CosInv
<1>1. /\ DOMAIN held = 1..Len(batch) /\ DOMAIN node = 1..submitted /\ submitted = Len(batch) /\ pc = "returned"
      /\ \A i \in 1..Len(batch) : batch[i].id = i /\ (held[i] # 0 => intake[held[i]] # "absent")
      /\ \A i \in 1..Len(batch) : held[i] \in Items \cup {0}
  BY CosNumbers DEF BatchHolds, HasBatch, Stages, FanInv, GoesOn
<1>2. In({"ok", "failed"}) = 1..Len(batch) /\ taken = In({"ok", "failed"})
  BY <1>1, ReturnedIsWhole
<1>3. failures = {i \in 1..Len(batch) : node[i] = "failed"}
  <2>1. failures = IdsOf({i \in 1..Len(batch) : node[i] = "failed"})
    BY <1>2 DEF FanInv, Held
  <2> QED BY <1>1, <2>1 DEF IdsOf
<1>4. \A i \in 1..Len(batch) : node[i] \in {"ok", "failed"}
  BY <1>2 DEF In
<1>5. ASSUME NEW i \in Handled
      PROVE  i \in Items /\ ran[i] > 0 /\ intake[i] # "absent"
  <2>1. PICK k \in DOMAIN held \ failures : i = held[k] /\ i # 0
    BY DEF Handled
  <2>2. k \in 1..Len(batch) /\ node[k] = "ok"
    BY <1>1, <1>3, <1>4, <2>1
  <2> QED BY <1>1, <2>1, <2>2 DEF RanCounts, HasBatch
<1>6. \A k \in DOMAIN node : node[k] = "ok" /\ held[k] # 0 => held[k] \in Handled
  BY <1>1, <1>3 DEF Handled
<1> QED BY <1>5, <1>6

LEMMA ConsumeInv ==
  ASSUME CosInv, Consume
  PROVE  CosInv'
<1> USE DEF CosInv
<1> DEFINE left == {i \in Handled : intake[i] = "queued"}
<1>1. /\ cpc = "consuming" /\ pc' = pc /\ node' = node /\ batch' = batch
      /\ UNCHANGED <<fanVars, run, alerts, usage, docket, queue, held, ran, stops, started>>
      /\ IF left = {} THEN cpc' = "gating" /\ intake' = intake
         ELSE intake' = [intake EXCEPT ![InOrder(left)[1]] = "consumed"] /\ cpc' = cpc
  BY DEF Consume, fanVars
<1>2. /\ \A i \in Handled : i \in Items /\ ran[i] > 0 /\ intake[i] # "absent"
      /\ \A k \in DOMAIN node : node[k] = "ok" /\ held[k] # 0 => held[k] \in Handled
  BY <1>1, HandledRan
<1>3. FanInv'
  BY <1>1, StepKeepsFanInv
<1>4. DocketHolds' /\ QueueHolds' /\ Stages'
  BY <1>1 DEF DocketHolds, Alive, QueueHolds, Stages
<1>5. CASE left = {}
  <2>1. CosTypes' /\ BatchHolds' /\ RanCounts' /\ ConsumedRan'
    BY <1>1, <1>5 DEF CosTypes, BatchHolds, OneItemEach, RanCounts, ConsumedRan, HasBatch
  <2>2. FirstRuns'
    <3> SUFFICES ASSUME stops = 0, NEW i \in Items
                 PROVE  ran[i] <= 1 /\ ~(intake[i] # "consumed" /\ ran[i] > 0)
      BY <1>1, <1>5 DEF FirstRuns
    <3>1. ran[i] <= 1
      BY DEF FirstRuns
    <3>2. ASSUME intake[i] # "consumed", ran[i] > 0 PROVE FALSE
      <4>1. PICK k \in DOMAIN node : held[k] = i /\ node[k] = "ok"
        BY <3>2 DEF FirstRuns
      <4>2. i \in Handled /\ intake[i] # "absent" /\ intake[i] \in {"absent", "queued", "consumed"}
        BY <1>2, <4>1, CosAssumption DEF CosTypes
      <4> QED BY <1>5, <3>2, <4>2
    <3> QED BY <3>1, <3>2
  <2> QED BY <1>3, <1>4, <2>1, <2>2
<1>6. CASE left # {}
  <2> DEFINE x == InOrder(left)[1]
  <2>1. left \subseteq Items
    BY <1>2
  <2>2. x \in left
    <3> HIDE DEF left
    <3>1. 1 \in 1..Cardinality(left)
      BY <1>6, <2>1, InOrderIs
    <3> QED BY <2>1, <3>1, InOrderIs
  <2>3. x \in Items /\ intake' = [intake EXCEPT ![x] = "consumed"] /\ cpc' = cpc /\ ran[x] > 0
    BY <1>1, <1>2, <1>6, <2>2
  <2> HIDE DEF x, left
  <2>4. intake' \in [Items -> {"absent", "queued", "consumed"}]
        /\ \A i \in Items : intake'[i] = IF i = x THEN "consumed" ELSE intake[i]
    BY <2>3 DEF CosTypes
  <2>5. CosTypes'
    BY <1>1, <2>3, <2>4 DEF CosTypes
  <2>6. BatchHolds'
    BY <1>1, <2>3, <2>4 DEF BatchHolds, OneItemEach, HasBatch
  <2>7. RanCounts' /\ FirstRuns'
    BY <1>1, <2>3, <2>4 DEF RanCounts, FirstRuns
  <2>8. ConsumedRan'
    BY <1>1, <2>3, <2>4 DEF ConsumedRan
  <2> QED BY <1>3, <1>4, <2>5, <2>6, <2>7, <2>8
<1> QED BY <1>5, <1>6

LEMMA AgainInv ==
  ASSUME CosInv, Again
  PROVE  CosInv'
<1> USE DEF CosInv
<1>1. /\ cpc \in {"done", "refused", "cos_error", "raised", "dead"} /\ cpc' = "off" /\ docket' = NoDocket
      /\ held' = <<>> /\ FanInit'
      /\ UNCHANGED <<intake, run, alerts, ran, stops, started>>
  BY DEF Again, FanInit
<1>2. FanInv'
  BY <1>1, InitHasFanInv, PTL
<1>3. CosTypes'
  BY <1>1, CosAssumption DEF CosTypes, NoDocket
<1>4. Stages'
  BY <1>1 DEF Stages, FanInit
<1>5. DocketHolds' /\ QueueHolds' /\ RanCounts' /\ ConsumedRan' /\ FirstRuns'
  BY <1>1 DEF DocketHolds, QueueHolds, RanCounts, ConsumedRan, FirstRuns, HasBatch
<1>6. BatchHolds'
  BY <1>1 DEF BatchHolds, OneItemEach, HasBatch
<1> QED BY <1>2, <1>3, <1>4, <1>5, <1>6

LEMMA CosStepInv == CosInv /\ [CosNext]_dispatchVars => CosInv'
<1> SUFFICES ASSUME CosInv, [CosNext]_dispatchVars
             PROVE  CosInv'
  OBVIOUS
<1>1. CASE UNCHANGED dispatchVars
  <2>1. FanInv'
    BY <1>1, StepKeepsFanInv DEF dispatchVars, CosInv
  <2> QED
    BY <1>1, <2>1 DEF dispatchVars, cosVars, fanVars, CosInv, CosTypes, Stages, DocketHolds, QueueHolds, BatchHolds,
       OneItemEach, RanCounts, FirstRuns, ConsumedRan, Alive
<1>2. CASE CosNext
  BY <1>2, AssembleInv, ReadIntakeInv, DispatchInv, FanStepInv, FanEndsInv, BesideInv, ConsumeInv, AgainInv
     DEF CosNext
<1> QED BY <1>1, <1>2

(* What a dispatch invokes fits the slots that were free beside the runs    *)
(* alive at its docket, is nothing when the usage window says stop, and has *)
(* its inputs in hand: for any ideas, runs, selections and interleaving.    *)
THEOREM DispatchesFit == CosSpec => []DispatchFits
<1>1. CosInv => DispatchFits
  <2> SUFFICES ASSUME CosInv
               PROVE  DispatchFits
    OBVIOUS
  <2> USE DEF CosInv
  <2>1. CosTypeOK
    BY DEF CosTypeOK, CosTypes, BatchHolds, HasBatch, FanInv
  <2>2. FitsTheBound
    <3> SUFFICES ASSUME cpc = "invoking"
                 PROVE  /\ Len(held) > 0 => Len(held) + docket.alive <= MaxInFlight
                        /\ Cardinality(Alive) + Len(held) <= MaxInFlight + started \/ Len(held) = 0
                        /\ usage = "stop" => Len(held) = 0
      BY DEF FitsTheBound, Invoked
    <3>1. Len(held) \in Nat /\ Len(held) <= docket.free /\ docket.free \in Nat /\ docket.alive \in Nat /\ started \in Nat
      BY CosNumbers DEF BatchHolds, HasBatch, CosTypes
    <3>2. /\ docket.free > 0 => docket.free + docket.alive <= MaxInFlight
          /\ usage = "stop" => docket.free = 0
          /\ Cardinality(Alive) <= docket.alive + started
      BY DEF DocketHolds
    <3> QED BY <3>1, <3>2, AliveCounts, CosAssumption
  <2>3. NeverPastInputs
    <3> SUFFICES ASSUME cpc = "invoking", NEW i \in DOMAIN batch
                 PROVE  /\ batch[i].graph = "decompose" => held[i] \in Items /\ intake[held[i]] = "queued"
                        /\ batch[i].graph = "triage" => alerts
                        /\ batch[i].graph \in docket.runnable
      BY DEF NeverPastInputs
    <3>1. i \in 1..Len(batch) /\ i \in DOMAIN held
      BY CosNumbers DEF BatchHolds, HasBatch
    <3> QED BY <3>1 DEF BatchHolds, HasBatch, DocketHolds
  <2> QED BY <2>1, <2>2, <2>3 DEF DispatchFits
<1> QED BY <1>1, CosInitInv, CosStepInv, PTL DEF CosSpec

(* An idea is marked handled only after a decompose of it finished, no      *)
(* dispatch gives one idea to two decomposes, and an idea is decomposed     *)
(* twice only after a dispatch that was stopped or killed.                  *)
THEOREM IdeasAreHandled == CosSpec => []IdeasAreHandledOnce
<1>1. CosInv => IdeasAreHandledOnce
  <2> SUFFICES ASSUME CosInv
               PROVE  IdeasAreHandledOnce
    OBVIOUS
  <2> USE DEF CosInv
  <2>1. TwiceOnlyAfterAStop
    BY DEF TwiceOnlyAfterAStop, FirstRuns, CosTypes
  <2> QED BY <2>1 DEF IdeasAreHandledOnce, BatchHolds
<1> QED BY <1>1, CosInitInv, CosStepInv, PTL DEF CosSpec

-----------------------------------------------------------------------------
(* Rescue *)

RowState == {"ready", "quarantined", "approved", "done"}
AttemptRow == [run : Build, body : 1..MaxBody, ts : Nat]
StoredRow == [run : Rescuer \cup Build, kind : {"infra", "rescue_failed"},
              cause : {"code", Fault, "review"}, ts : Nat, about : 1..MaxBody]
View == [state : RowState, body : 1..MaxBody, patch : Nat, seen : Nat]
Stage == Working \cup {"idle", "dead", "not_eligible", "rescue_failed", "review_failed",
                       "stopped", "move_refused", "approved"}

\* Before the patch is on a branch a rescue may still fail.
Early == {"verify", "review", "land"}

Types ==
  /\ row \in RowState /\ body \in 1..MaxBody /\ main \in 1..(MaxMain + 1) /\ clock \in Nat \ {0}
  /\ attempts \in Seq(AttemptRow) /\ Len(attempts) <= MaxAttempts
  /\ stored \in Seq(StoredRow) /\ savedPatch \in [Build -> Nat]
  /\ branches \in [Rescuer -> [base : 0..(MaxMain + 1), patch : Nat]]
  /\ taskRow \in [Rescuer -> {"none", "quarantined", "approved"}]
  /\ leader \in Rescuer \cup Build \cup {NoRun}
  /\ stage \in [Rescuer -> Stage] /\ view \in [Rescuer -> View]

\* Everything written is older than the clock, and patches are named for their time.
Times ==
  /\ \A i \in DOMAIN attempts : attempts[i].ts < clock
  /\ \A i \in DOMAIN stored : stored[i].ts < clock
  /\ \A b \in Build : savedPatch[b] <= clock
  /\ \A r \in Rescuer : view[r].patch <= clock

\* The attempts are in the order of time, and the text of a ticket only grows.
TextsInOrder ==
  /\ \A i, j \in DOMAIN attempts : i < j => attempts[i].ts < attempts[j].ts /\ attempts[i].body <= attempts[j].body
  /\ \A i \in DOMAIN attempts : attempts[i].body <= body

\* Every attempt of the file is a row of the store.
Matched ==
  \A i \in DOMAIN attempts : \E k \in DOMAIN stored : stored[k].run = attempts[i].run /\ stored[k].ts = attempts[i].ts

\* A rescue at work has a patch, and its ticket was tried.
Grounded ==
  \A r \in Rescuer : stage[r] \in Working =>
    /\ view[r].patch # 0 /\ view[r].seen \in DOMAIN attempts
    /\ attempts[view[r].seen].body = view[r].body

\* A failed rescue comes after an attempt on the text it was about.
FailuresFollow ==
  \A i \in DOMAIN stored : stored[i].kind = "rescue_failed" =>
    \E j \in DOMAIN attempts : attempts[j].body = stored[i].about /\ attempts[j].ts <= stored[i].ts

\* While the lease is a rescue's, no rescue has failed on its text.
FirstOfItsText ==
  \A r \in Rescuer : stage[r] \in Early /\ leader = r =>
    \A i \in DOMAIN stored : ~(stored[i].kind = "rescue_failed" /\ stored[i].about = view[r].body)

\* While the lease is a rescue's, nobody has built the task again.
NotBuiltSince ==
  \A r \in Rescuer : stage[r] \in Early \cup {"gate"} /\ leader = r => view[r].seen = Len(attempts)

RescueInv ==
  /\ Types /\ Times /\ TextsInOrder /\ Matched /\ Grounded /\ FailuresFollow /\ FirstOfItsText /\ NotBuiltSince
  /\ OneFailurePerBody /\ HarnessStoppedIt /\ ApprovedHasItsPatch

-----------------------------------------------------------------------------
LEMMA RowsAreTyped ==
  ASSUME Types
  PROVE  /\ clock \in Nat /\ body \in Nat /\ Len(attempts) \in Nat /\ Len(stored) \in Nat
         /\ DOMAIN attempts = 1..Len(attempts) /\ DOMAIN stored = 1..Len(stored)
         /\ \A i \in DOMAIN attempts :
              /\ attempts[i] \in AttemptRow /\ attempts[i].run \in Build
              /\ attempts[i].ts \in Nat /\ attempts[i].body \in Nat
         /\ \A i \in DOMAIN stored : stored[i].ts \in Nat /\ stored[i].run \in Rescuer \cup Build
<1>1. /\ clock \in Nat /\ body \in Nat /\ Len(attempts) \in Nat /\ Len(stored) \in Nat
      /\ DOMAIN attempts = 1..Len(attempts) /\ DOMAIN stored = 1..Len(stored)
  BY DEF Types
<1>2. \A i \in DOMAIN attempts : attempts[i] \in AttemptRow
  BY <1>1 DEF Types
<1>3. \A i \in DOMAIN stored : stored[i] \in StoredRow
  BY <1>1 DEF Types
<1>4. \A i \in DOMAIN attempts : attempts[i].run \in Build /\ attempts[i].ts \in Nat /\ attempts[i].body \in Nat
  BY <1>2 DEF AttemptRow
<1>5. \A i \in DOMAIN stored : stored[i].ts \in Nat /\ stored[i].run \in Rescuer \cup Build
  BY <1>3 DEF StoredRow
<1> QED
  BY <1>1, <1>2, <1>4, <1>5

LEMMA InitHasRescueInv == RescueInit => RescueInv
<1> SUFFICES ASSUME RescueInit PROVE RescueInv
  OBVIOUS
<1> USE DEF RescueInit
<1>1. attempts \in Seq(AttemptRow) /\ stored \in Seq(StoredRow) /\ Len(attempts) = 0 /\ DOMAIN attempts = {} /\ DOMAIN stored = {}
  OBVIOUS
<1>2. Types
  BY <1>1, RescueConstants DEF Types, RowState, Stage, View, NoBranch, Nothing
<1>3. \A r \in Rescuer : stage[r] \notin Working \cup Early \cup {"gate", "move", "approved"}
  BY DEF Working, Early
<1>4. Times /\ TextsInOrder /\ Matched /\ FailuresFollow
  BY <1>1 DEF Times, TextsInOrder, Matched, FailuresFollow, Nothing
<1>5. Grounded /\ FirstOfItsText /\ NotBuiltSince
  BY <1>1, <1>3 DEF Grounded, FirstOfItsText, NotBuiltSince
<1>6. OneFailurePerBody /\ HarnessStoppedIt /\ ApprovedHasItsPatch
  BY <1>1, <1>3 DEF OneFailurePerBody, HarnessStoppedIt, ApprovedHasItsPatch
<1> QED
  BY <1>2, <1>4, <1>5, <1>6 DEF RescueInv

\* A step of one rescue that writes no attempt and makes no branch.
LEMMA StageMoves ==
  ASSUME RescueInv, NEW r \in Rescuer, NEW l \in Stage, Goto(r, l), stage[r] \in Working,
         l \in Early => stage[r] \in Early,
         l # "gate",
         l \in {"move", "approved"} => stage[r] \in {"gate", "move"},
         UNCHANGED <<ticket, stored, branches, clock, leader, view>>,
         row' \in RowState, taskRow' \in [Rescuer -> {"none", "quarantined", "approved"}]
  PROVE  RescueInv'
<1> USE DEF RescueInv, ticket
<1>1. \A q \in Rescuer : stage'[q] = IF q = r THEN l ELSE stage[q]
  BY DEF Goto, Types
<1>2. \A q \in Rescuer : /\ stage'[q] \in Working => stage[q] \in Working
                         /\ stage'[q] \in Early => stage[q] \in Early
                         /\ stage'[q] \in Early \cup {"gate"} => stage[q] \in Early \cup {"gate"}
                         /\ stage'[q] \in {"gate", "move", "approved"} => stage[q] \in {"gate", "move", "approved"}
  BY <1>1 DEF Early
<1>3. Types'
  BY DEF Types, Goto
<1>4. Times' /\ TextsInOrder' /\ Matched' /\ FailuresFollow' /\ OneFailurePerBody'
  BY DEF Times, TextsInOrder, Matched, FailuresFollow, OneFailurePerBody
<1>5. Grounded' /\ FirstOfItsText' /\ NotBuiltSince'
  BY <1>2 DEF Grounded, FirstOfItsText, NotBuiltSince
<1>6. HarnessStoppedIt' /\ ApprovedHasItsPatch'
  BY <1>2 DEF HarnessStoppedIt, ApprovedHasItsPatch
<1> QED
  BY <1>3, <1>4, <1>5, <1>6

LEMMA TaskRowTyped ==
  ASSUME Types, NEW r \in Rescuer, NEW s \in {"quarantined", "approved"}
  PROVE  TaskRow(r, s) \in [Rescuer -> {"none", "quarantined", "approved"}]
BY DEF Types, TaskRow

\* A failed rescue: the first about its text, or one that has lost the lease.
LEMMA FailKeepsRescueInv ==
  ASSUME RescueInv, NEW r \in Rescuer, NEW cause \in {"code", Fault, "review"}, stage[r] \in Early, Fail(r, cause),
         UNCHANGED <<ticket, branches, leader, view>>
  PROVE  RescueInv'
<1> USE DEF RescueInv
<1>1. stage[r] \in Working /\ "rescue_failed" \in Stage /\ "rescue_failed" \notin Early \cup Working
  BY DEF Early, Working, Stage
<1>2. CASE ~Fenced(r)
  <2>1. Goto(r, "rescue_failed") /\ UNCHANGED <<row, stored, clock, taskRow>>
    BY <1>2 DEF Fail
  <2> QED
    BY <1>1, <2>1, StageMoves DEF Types
<1>3. CASE Fenced(r)
  <2> DEFINE new == [run |-> r, kind |-> "rescue_failed", cause |-> cause, ts |-> clock, about |-> view[r].body]
  <2>1. /\ stored' = Append(stored, new) /\ clock' = clock + 1 /\ taskRow' = TaskRow(r, "quarantined")
        /\ row' \in RowState /\ Goto(r, "rescue_failed")
    BY <1>3 DEF Fail, RowState, Types
  <2>2. new \in StoredRow
    BY DEF StoredRow, Types, View
  <2>3. /\ stored' \in Seq(StoredRow) /\ Len(stored') = Len(stored) + 1 /\ DOMAIN stored' = 1..(Len(stored) + 1)
        /\ DOMAIN stored = 1..Len(stored) /\ Len(stored) \in Nat
        /\ \A k \in DOMAIN stored : stored'[k] = stored[k]
        /\ stored'[Len(stored) + 1] = new
    BY <2>1, <2>2, AppendProperties DEF Types
  <2>4. \A q \in Rescuer : stage'[q] = IF q = r THEN "rescue_failed" ELSE stage[q]
    BY <2>1 DEF Goto, Types
  <2>5. UNCHANGED <<attempts, body, main, savedPatch, branches, leader, view>> /\ leader = r
    BY <1>3 DEF ticket, Fenced
  <2>6. Types'
    BY <2>1, <2>3, <2>5, <1>1, TaskRowTyped DEF Types, Goto
  <2>7. Times'
    <3>1. \A i \in DOMAIN stored' : stored'[i].ts < clock'
      BY <2>1, <2>3, RowsAreTyped DEF Times
    <3>2. \A i \in DOMAIN attempts : attempts[i].ts < clock'
      BY <2>1, RowsAreTyped DEF Times
    <3>3. \A b \in Build : savedPatch[b] <= clock'
      BY <2>1 DEF Times, Types
    <3>4. \A q \in Rescuer : view[q].patch <= clock'
      BY <2>1 DEF Times, Types, View
    <3> QED
      BY <2>5, <3>1, <3>2, <3>3, <3>4 DEF Times
  <2>8. TextsInOrder' /\ Matched'
    BY <2>3, <2>5 DEF TextsInOrder, Matched
  <2>9. Grounded'
    BY <1>1, <2>4, <2>5 DEF Grounded
  <2>10. FailuresFollow'
    <3> SUFFICES ASSUME NEW i \in DOMAIN stored', stored'[i].kind = "rescue_failed"
                 PROVE  \E j \in DOMAIN attempts : attempts[j].body = stored'[i].about /\ attempts[j].ts <= stored'[i].ts
      BY <2>5 DEF FailuresFollow
    <3>1. CASE i \in DOMAIN stored
      BY <3>1, <2>3 DEF FailuresFollow
    <3>2. CASE i = Len(stored) + 1
      <4>1. view[r].seen \in DOMAIN attempts /\ attempts[view[r].seen].body = view[r].body
        BY <1>1 DEF Grounded
      <4>2. attempts[view[r].seen].ts \in Nat /\ attempts[view[r].seen].ts < clock /\ clock \in Nat
        BY <4>1, RowsAreTyped DEF Times
      <4> QED
        BY <3>2, <4>1, <4>2, <2>3
    <3> QED
      BY <3>1, <3>2, <2>3
  <2>11. FirstOfItsText' /\ NotBuiltSince'
    BY <1>1, <2>4, <2>5 DEF FirstOfItsText, NotBuiltSince, Early
  <2>12. OneFailurePerBody'
    BY <2>3, <2>5 DEF OneFailurePerBody, FirstOfItsText
  <2>13. HarnessStoppedIt'
    BY <1>1, <2>3, <2>4, <2>5 DEF HarnessStoppedIt
  <2>14. ApprovedHasItsPatch'
    BY <2>4, <2>5 DEF ApprovedHasItsPatch
  <2> QED
    BY <2>6, <2>7, <2>8, <2>9, <2>10, <2>11, <2>12, <2>13, <2>14
<1> QED
  BY <1>2, <1>3

-----------------------------------------------------------------------------
\* The last attempt is about the current text when any is, and the cause found for it is a row of the store.
LEMMA EligibleMeans ==
  ASSUME RescueInv, Eligible
  PROVE  /\ Len(attempts) \in DOMAIN attempts /\ attempts[Len(attempts)].body = body
         /\ KeptPatch \in Nat \ {0} /\ KeptPatch <= clock
         /\ \A i \in DOMAIN stored : ~(stored[i].kind = "rescue_failed" /\ stored[i].about = body)
         /\ \E i \in DOMAIN stored : /\ stored[i].cause = Fault
                                     /\ stored[i].ts = attempts[Len(attempts)].ts
                                     /\ stored[i].run = attempts[Len(attempts)].run
<1> USE DEF RescueInv
<1> DEFINE final == Len(attempts)
           last == attempts[final]
<1>1. DOMAIN attempts = 1..final /\ final \in Nat /\ \A i \in DOMAIN attempts : attempts[i] \in AttemptRow
  BY DEF Types
<1>2. PICK i \in DOMAIN attempts : attempts[i].body = body
  BY DEF Eligible, OnThisBody
<1>3. final \in DOMAIN attempts /\ last \in AttemptRow
  BY <1>1, <1>2
<1>4. last.body = body
  <2>1. i <= final /\ i \in Nat
    BY <1>1, <1>2
  <2>2. attempts[i].body <= last.body
    <3>1. CASE i = final
      BY <3>1, <1>2, <1>3 DEF AttemptRow
    <3>2. CASE i # final
      BY <3>2, <2>1, <1>1, <1>2, <1>3 DEF TextsInOrder
    <3> QED
      BY <3>1, <3>2
  <2>3. last.body <= body /\ last.body \in Nat /\ body \in Nat
    BY <1>3 DEF TextsInOrder, AttemptRow, Types
  <2> QED
    BY <1>2, <2>2, <2>3
<1>5. KeptPatch \in Nat \ {0} /\ KeptPatch <= clock
  <2>1. KeptPatch = savedPatch[last.run] /\ last.run \in Build
    BY <1>1, <1>3 DEF KeptPatch, AttemptRow
  <2> QED
    BY <2>1 DEF Eligible, Types, Times
<1>6. \A k \in DOMAIN stored : ~(stored[k].kind = "rescue_failed" /\ stored[k].about = body)
  <2> SUFFICES ASSUME NEW k \in DOMAIN stored, stored[k].kind = "rescue_failed", stored[k].about = body PROVE FALSE
    OBVIOUS
  <2>1. PICK j \in DOMAIN attempts : attempts[j].body = body /\ attempts[j].ts <= stored[k].ts
    BY DEF FailuresFollow
  <2>2. attempts[j] \in OnThisBody
    BY <2>1 DEF OnThisBody
  <2>3. stored[k] \in RescuesOnThisBody
    BY <2>1, <2>2 DEF RescuesOnThisBody, Stored
  <2> QED
    BY <2>3 DEF Eligible
<1>7. \E k \in DOMAIN stored : stored[k].cause = Fault /\ stored[k].ts = last.ts /\ stored[k].run = last.run
  <2> DEFINE newest == CHOOSE a \in OnThisBody : \A b \in OnThisBody : a.ts >= b.ts
  <2>1. last \in OnThisBody
    BY <1>3, <1>4 DEF OnThisBody
  <2>2. \A b \in OnThisBody : b \in AttemptRow /\ (b = last \/ b.ts < last.ts)
    <3> SUFFICES ASSUME NEW b \in OnThisBody PROVE b \in AttemptRow /\ (b = last \/ b.ts < last.ts)
      OBVIOUS
    <3>1. PICK j \in DOMAIN attempts : b = attempts[j]
      BY DEF OnThisBody
    <3>2. j = final \/ j < final
      BY <1>1, <3>1
    <3> QED
      BY <1>1, <1>3, <3>1, <3>2 DEF TextsInOrder
  <2>3. newest = last
    <3>1. \A b \in OnThisBody : last.ts >= b.ts
      BY <2>2, <1>3 DEF AttemptRow
    <3>2. newest \in OnThisBody /\ newest.ts >= last.ts
      BY <2>1, <3>1
    <3> QED
      BY <2>2, <3>2, <1>3 DEF AttemptRow
  <2> DEFINE exact == {s \in Stored : s.run = last.run /\ s.ts = last.ts}
  <2>4. exact # {}
    BY <1>3 DEF Matched, Stored
  <2>5. \A s, t \in exact : s.ts >= t.ts
    BY <1>3 DEF AttemptRow
  <2> DEFINE found == CHOOSE s \in exact : \A t \in exact : s.ts >= t.ts
  <2>6. found \in exact
    BY <2>4, <2>5
  <2>7. CauseOf(last) = found.cause
    BY <2>4 DEF CauseOf
  <2>8. found.cause = Fault
    BY <2>3, <2>7 DEF Eligible, LastCause
  <2> QED
    BY <2>6, <2>8 DEF Stored
<1> QED
  BY <1>3, <1>4, <1>5, <1>6, <1>7

LEMMA BeginKeepsRescueInv ==
  ASSUME RescueInv, NEW r \in Rescuer, Begin(r)
  PROVE  RescueInv'
<1> USE DEF RescueInv
<1> DEFINE read == [state |-> row, body |-> body, patch |-> KeptPatch, seen |-> Len(attempts)]
<1>1. /\ leader' = r /\ view' = [view EXCEPT ![r] = read]
      /\ UNCHANGED <<row, body, main, attempts, savedPatch, stored, branches, taskRow, clock>>
  BY DEF Begin, ticket, outcome
<1>2. KeptPatch \in Nat /\ KeptPatch <= clock
  <2>1. CASE attempts = <<>>
    BY <2>1 DEF KeptPatch, Types
  <2>2. CASE attempts # <<>>
    <3>1. attempts[Len(attempts)].run \in Build
      <4>1. Len(attempts) \in DOMAIN attempts
        BY <2>2, RowsAreTyped DEF Types
      <4> QED
        BY <4>1, RowsAreTyped
    <3> QED
      BY <2>2, <3>1 DEF KeptPatch, Types, Times
  <2> QED
    BY <2>1, <2>2
<1>3. read \in View
  BY <1>2 DEF View, Types
<1>4. \A q \in Rescuer : view'[q] = IF q = r THEN read ELSE view[q]
  BY <1>1 DEF Types
<1>5. PICK l \in {"verify", "not_eligible"} : Goto(r, l) /\ (l = "verify" => Eligible)
  BY DEF Begin
<1>6. \A q \in Rescuer : stage'[q] = IF q = r THEN l ELSE stage[q]
  BY <1>5 DEF Goto, Types
<1>7. Types'
  BY <1>1, <1>3, <1>5 DEF Types, Goto, Stage, Working
<1>8. Times'
  BY <1>1, <1>2, <1>4 DEF Times
<1>9. TextsInOrder' /\ Matched' /\ FailuresFollow' /\ OneFailurePerBody'
  BY <1>1 DEF TextsInOrder, Matched, FailuresFollow, OneFailurePerBody
<1>10. Grounded'
  <2> SUFFICES ASSUME NEW q \in Rescuer, stage'[q] \in Working
               PROVE  /\ view'[q].patch # 0 /\ view'[q].seen \in DOMAIN attempts
                      /\ attempts[view'[q].seen].body = view'[q].body
    BY <1>1 DEF Grounded
  <2>1. CASE q = r
    BY <2>1, <1>4, <1>5, <1>6, EligibleMeans DEF Working
  <2>2. CASE q # r
    BY <2>2, <1>4, <1>6 DEF Grounded
  <2> QED
    BY <2>1, <2>2
<1>11. FirstOfItsText'
  <2> SUFFICES ASSUME stage'[r] \in Early, NEW i \in DOMAIN stored
               PROVE  ~(stored[i].kind = "rescue_failed" /\ stored[i].about = view'[r].body)
    BY <1>1 DEF FirstOfItsText
  <2> QED
    BY <1>4, <1>5, <1>6, EligibleMeans DEF Early
<1>12. NotBuiltSince'
  BY <1>1, <1>4 DEF NotBuiltSince
<1>13. HarnessStoppedIt'
  <2> SUFFICES ASSUME NEW q \in Rescuer, stage'[q] \in Working
               PROVE  \E i \in DOMAIN stored : /\ stored[i].cause = Fault
                                               /\ stored[i].ts = attempts[view'[q].seen].ts
                                               /\ stored[i].run = attempts[view'[q].seen].run
    BY <1>1 DEF HarnessStoppedIt
  <2>1. CASE q = r
    BY <2>1, <1>4, <1>5, <1>6, EligibleMeans DEF Working
  <2>2. CASE q # r
    BY <2>2, <1>4, <1>6 DEF HarnessStoppedIt
  <2> QED
    BY <2>1, <2>2
<1>14. ApprovedHasItsPatch'
  BY <1>1, <1>4, <1>5, <1>6 DEF ApprovedHasItsPatch
<1> QED
  BY <1>7, <1>8, <1>9, <1>10, <1>11, <1>12, <1>13, <1>14

LEMMA VerifyKeepsRescueInv ==
  ASSUME RescueInv, NEW r \in Rescuer, Verify(r)
  PROVE  RescueInv'
<1>1. stage[r] = "verify" /\ UNCHANGED <<ticket, leader, launches, view>>
  BY DEF Verify
<1>2. CASE Goto(r, "review") /\ UNCHANGED <<row, outcome>>
  BY <1>1, <1>2, StageMoves DEF outcome, Stage, Working, Early, RescueInv, Types
<1>3. CASE \E cause \in {"code", Fault} : Fail(r, cause) /\ UNCHANGED branches
  BY <1>1, <1>3, FailKeepsRescueInv DEF Early
<1> QED
  BY <1>2, <1>3 DEF Verify

LEMMA ReviewKeepsRescueInv ==
  ASSUME RescueInv, NEW r \in Rescuer, Review(r)
  PROVE  RescueInv'
<1>1. stage[r] = "review" /\ UNCHANGED <<ticket, leader, launches, view>>
  BY DEF Review
<1>2. \/ \E l \in {"land", "review_failed", "stopped"} : Goto(r, l) /\ UNCHANGED <<row, outcome>>
      \/ Fail(r, "review") /\ UNCHANGED branches
  BY DEF Review
<1>3. CASE \E l \in {"land", "review_failed", "stopped"} : Goto(r, l) /\ UNCHANGED <<row, outcome>>
  BY <1>1, <1>3, StageMoves DEF outcome, Stage, Working, Early, RescueInv, Types
<1>4. CASE Fail(r, "review") /\ UNCHANGED branches
  BY <1>1, <1>4, FailKeepsRescueInv DEF Early
<1> QED
  BY <1>2, <1>3, <1>4

\* The branch is made of the patch that was checked.
LEMMA LandKeepsRescueInv ==
  ASSUME RescueInv, NEW r \in Rescuer, Land(r)
  PROVE  RescueInv'
<1> USE DEF RescueInv
<1>1. stage[r] = "land" /\ UNCHANGED <<ticket, leader, launches, view>>
  BY DEF Land
<1>2. CASE Fail(r, Fault) /\ UNCHANGED branches
  BY <1>1, <1>2, FailKeepsRescueInv DEF Early
<1>3. CASE /\ MayCreate(r) /\ branches' = [branches EXCEPT ![r] = Made(r)]
           /\ Goto(r, "gate") /\ UNCHANGED <<row, stored, taskRow, clock>>
  <2>1. Made(r) = [base |-> main, patch |-> view[r].patch]
    BY <1>3 DEF Made, MayCreate
  <2>2. \A q \in Rescuer : /\ stage'[q] = IF q = r THEN "gate" ELSE stage[q]
                           /\ branches'[q] = IF q = r THEN Made(r) ELSE branches[q]
    BY <1>3 DEF Goto, Types
  <2>3. Made(r) \in [base : 0..(MaxMain + 1), patch : Nat]
    BY <2>1, RescueConstants DEF Types, View
  <2>4. Types'
    BY <1>1, <1>3, <2>3 DEF Types, ticket, Goto, Stage, Working
  <2>5. Times' /\ TextsInOrder' /\ Matched' /\ FailuresFollow' /\ OneFailurePerBody'
    BY <1>1, <1>3 DEF Times, TextsInOrder, Matched, FailuresFollow, OneFailurePerBody, ticket
  <2>6. Grounded' /\ HarnessStoppedIt'
    BY <1>1, <1>3, <2>2 DEF Grounded, HarnessStoppedIt, Working, ticket
  <2>7. FirstOfItsText' /\ NotBuiltSince'
    BY <1>1, <1>3, <2>2 DEF FirstOfItsText, NotBuiltSince, Early, ticket
  <2>8. view[r].patch # 0
    BY <1>1 DEF Grounded, Working
  <2>9. ApprovedHasItsPatch'
    BY <1>1, <2>1, <2>2, <2>8 DEF ApprovedHasItsPatch
  <2> QED
    BY <2>4, <2>5, <2>6, <2>7, <2>9
<1> QED
  BY <1>2, <1>3 DEF Land

LEMMA GateKeepsRescueInv ==
  ASSUME RescueInv, NEW r \in Rescuer, Gate(r)
  PROVE  RescueInv'
<1>1. stage[r] = "gate" /\ UNCHANGED <<ticket, stored, branches, clock, leader, launches, view, row>>
  BY DEF Gate, Refused
<1>2. \/ Goto(r, "move") /\ UNCHANGED taskRow
      \/ Goto(r, "move_refused") /\ taskRow' = TaskRow(r, "quarantined")
  BY DEF Gate, Refused
<1>3. row' \in RowState /\ taskRow' \in [Rescuer -> {"none", "quarantined", "approved"}]
  BY <1>1, <1>2, TaskRowTyped DEF RescueInv, Types
<1> QED
  BY <1>1, <1>2, <1>3, StageMoves DEF Stage, Working, Early

LEMMA MoveKeepsRescueInv ==
  ASSUME RescueInv, NEW r \in Rescuer, Move(r)
  PROVE  RescueInv'
<1>1. stage[r] = "move" /\ UNCHANGED <<ticket, stored, branches, clock, leader, launches, view>>
  BY DEF Move
<1>2. \/ Goto(r, "approved") /\ taskRow' = TaskRow(r, "approved") /\ row' = "approved"
      \/ Goto(r, "move_refused") /\ taskRow' = TaskRow(r, "quarantined") /\ row' = row
  BY DEF Move, Refused
<1>3. row' \in RowState /\ taskRow' \in [Rescuer -> {"none", "quarantined", "approved"}]
  BY <1>2, TaskRowTyped DEF RescueInv, Types, RowState
<1> QED
  BY <1>1, <1>2, <1>3, StageMoves DEF Stage, Working, Early

LEMMA KillKeepsRescueInv ==
  ASSUME RescueInv, NEW r \in Rescuer, Kill(r)
  PROVE  RescueInv'
BY StageMoves DEF Kill, outcome, Stage, Working, Early, RescueInv, Types

-----------------------------------------------------------------------------
\* A build takes the lease from every rescue.
LEMMA AttemptKeepsRescueInv ==
  ASSUME RescueInv, NEW b \in Build, Attempt(b)
  PROVE  RescueInv'
<1> USE DEF RescueInv
<1>1. PICK cause \in {"code", Fault}, kept \in BOOLEAN :
        /\ stored' = Append(stored, [run |-> b, kind |-> "infra", cause |-> cause, ts |-> clock, about |-> body])
        /\ savedPatch' = [savedPatch EXCEPT ![b] = IF kept THEN clock ELSE @]
  BY DEF Attempt
<1>2. /\ Len(attempts) < MaxAttempts /\ leader' = b /\ clock' = clock + 1 /\ row' = "quarantined"
      /\ attempts' = Append(attempts, [run |-> b, body |-> body, ts |-> clock])
      /\ UNCHANGED <<body, main, branches, taskRow, stage, launches, view>>
  BY DEF Attempt
<1> DEFINE new == [run |-> b, kind |-> "infra", cause |-> cause, ts |-> clock, about |-> body]
           tried == [run |-> b, body |-> body, ts |-> clock]
<1>3. new \in StoredRow /\ tried \in AttemptRow
  BY DEF StoredRow, AttemptRow, Types
<1>4. /\ stored' \in Seq(StoredRow) /\ DOMAIN stored' = 1..(Len(stored) + 1) /\ DOMAIN stored = 1..Len(stored)
      /\ Len(stored) \in Nat /\ stored'[Len(stored) + 1] = new
      /\ \A k \in DOMAIN stored : stored'[k] = stored[k]
  BY <1>1, <1>3, AppendProperties DEF Types
<1>5. /\ attempts' \in Seq(AttemptRow) /\ Len(attempts') = Len(attempts) + 1
      /\ DOMAIN attempts' = 1..(Len(attempts) + 1) /\ DOMAIN attempts = 1..Len(attempts)
      /\ Len(attempts) \in Nat /\ attempts'[Len(attempts) + 1] = tried
      /\ \A k \in DOMAIN attempts : attempts'[k] = attempts[k]
  BY <1>2, <1>3, AppendProperties DEF Types
<1>6. \A q \in Rescuer : leader' # q
  BY <1>2, RescueConstants
<1>7. Types'
  <2>1. Len(attempts') <= MaxAttempts
    BY <1>2, <1>5, RescueConstants
  <2>2. savedPatch' \in [Build -> Nat]
    BY <1>1 DEF Types
  <2> QED
    BY <1>2, <1>4, <1>5, <2>1, <2>2 DEF Types, RowState
<1>8. Times'
  <2>1. \A i \in DOMAIN attempts' : attempts'[i].ts < clock'
    BY <1>2, <1>5, RowsAreTyped DEF Times
  <2>2. \A i \in DOMAIN stored' : stored'[i].ts < clock'
    BY <1>2, <1>4, RowsAreTyped DEF Times
  <2>3. \A c \in Build : savedPatch'[c] <= clock'
    BY <1>1, <1>2 DEF Times, Types
  <2>4. \A r \in Rescuer : view'[r].patch <= clock'
    BY <1>2 DEF Times, Types, View
  <2> QED
    BY <2>1, <2>2, <2>3, <2>4 DEF Times
<1>9. TextsInOrder'
  <2>1. \A i \in DOMAIN attempts' : attempts'[i].body <= body /\ (i \in DOMAIN attempts => attempts[i].ts < clock)
    BY <1>5, RowsAreTyped DEF TextsInOrder, Times
  <2>2. \A i, j \in DOMAIN attempts' : i < j => attempts'[i].ts < attempts'[j].ts /\ attempts'[i].body <= attempts'[j].body
    <3> SUFFICES ASSUME NEW i \in DOMAIN attempts', NEW j \in DOMAIN attempts', i < j
                 PROVE  attempts'[i].ts < attempts'[j].ts /\ attempts'[i].body <= attempts'[j].body
      OBVIOUS
    <3>1. CASE j \in DOMAIN attempts
      <4>1. i \in DOMAIN attempts
        BY <3>1, <1>5
      <4> QED
        BY <3>1, <4>1, <1>5 DEF TextsInOrder
    <3>2. CASE j = Len(attempts) + 1
      <4>1. i \in DOMAIN attempts
        BY <3>2, <1>5
      <4> QED
        BY <3>2, <4>1, <1>5, <2>1
    <3> QED
      BY <3>1, <3>2, <1>5
  <2> QED
    BY <1>2, <2>1, <2>2 DEF TextsInOrder
<1>10. Matched'
  <2> SUFFICES ASSUME NEW i \in DOMAIN attempts'
               PROVE  \E k \in DOMAIN stored' : stored'[k].run = attempts'[i].run /\ stored'[k].ts = attempts'[i].ts
    BY DEF Matched
  <2>1. CASE i \in DOMAIN attempts
    BY <2>1, <1>4, <1>5 DEF Matched
  <2>2. CASE i = Len(attempts) + 1
    BY <2>2, <1>4, <1>5
  <2> QED
    BY <2>1, <2>2, <1>5
<1>11. Grounded'
  BY <1>2, <1>5 DEF Grounded
<1>12. FailuresFollow'
  <2> SUFFICES ASSUME NEW i \in DOMAIN stored', stored'[i].kind = "rescue_failed"
               PROVE  \E j \in DOMAIN attempts' : attempts'[j].body = stored'[i].about /\ attempts'[j].ts <= stored'[i].ts
    BY DEF FailuresFollow
  <2>1. i \in DOMAIN stored
    BY <1>4
  <2>2. PICK j \in DOMAIN attempts : attempts[j].body = stored[i].about /\ attempts[j].ts <= stored[i].ts
    BY <1>4, <2>1 DEF FailuresFollow
  <2> QED
    BY <1>4, <1>5, <2>1, <2>2
<1>13. FirstOfItsText' /\ NotBuiltSince'
  BY <1>6 DEF FirstOfItsText, NotBuiltSince
<1>14. OneFailurePerBody'
  BY <1>4 DEF OneFailurePerBody
<1>15. HarnessStoppedIt'
  <2> SUFFICES ASSUME NEW q \in Rescuer, stage[q] \in Working
               PROVE  \E i \in DOMAIN stored' : /\ stored'[i].cause = Fault
                                                /\ stored'[i].ts = attempts'[view[q].seen].ts
                                                /\ stored'[i].run = attempts'[view[q].seen].run
    BY <1>2 DEF HarnessStoppedIt
  <2>1. attempts'[view[q].seen] = attempts[view[q].seen]
    BY <1>5 DEF Grounded
  <2> QED
    BY <2>1, <1>4 DEF HarnessStoppedIt
<1>16. ApprovedHasItsPatch'
  BY <1>2 DEF ApprovedHasItsPatch
<1> QED
  BY <1>7, <1>8, <1>9, <1>10, <1>11, <1>12, <1>13, <1>14, <1>15, <1>16

LEMMA BuildApprovedKeepsRescueInv ==
  ASSUME RescueInv, NEW b \in Build, BuildApproved(b)
  PROVE  RescueInv'
<1> USE DEF RescueInv
<1>1. /\ row' = "approved" /\ leader' = b /\ \A q \in Rescuer : leader' # q
      /\ UNCHANGED <<body, main, attempts, savedPatch, stored, branches, taskRow, clock, stage, launches, view>>
  BY RescueConstants DEF BuildApproved, ticket, outcome
<1>2. Types' /\ Times' /\ TextsInOrder' /\ Matched' /\ Grounded'
  BY <1>1 DEF Types, Times, TextsInOrder, Matched, Grounded, RowState
<1>3. FailuresFollow' /\ FirstOfItsText' /\ NotBuiltSince' /\ OneFailurePerBody'
  BY <1>1 DEF FailuresFollow, FirstOfItsText, NotBuiltSince, OneFailurePerBody
<1>4. HarnessStoppedIt' /\ ApprovedHasItsPatch'
  BY <1>1 DEF HarnessStoppedIt, ApprovedHasItsPatch
<1> QED
  BY <1>2, <1>3, <1>4

LEMMA HumanKeepsRescueInv ==
  ASSUME RescueInv, Human
  PROVE  RescueInv'
<1> USE DEF RescueInv
<1>1. UNCHANGED <<attempts, savedPatch, stored, branches, taskRow, clock, leader, stage, launches, view>>
  BY DEF Human, outcome
<1>2. row' \in RowState /\ body' \in 1..MaxBody /\ body <= body' /\ main' \in 1..(MaxMain + 1)
  BY RescueConstants DEF Human, Types, RowState
<1>3. Types' /\ Times' /\ Matched' /\ Grounded'
  BY <1>1, <1>2 DEF Types, Times, Matched, Grounded
<1>4. TextsInOrder'
  <2>1. \A i \in DOMAIN attempts : attempts[i].body <= body'
    <3>1. body \in Nat /\ body' \in Nat
      BY <1>2, RowsAreTyped
    <3> QED
      BY <1>2, <3>1, RowsAreTyped DEF TextsInOrder
  <2> QED
    BY <1>1, <2>1 DEF TextsInOrder
<1>5. FailuresFollow' /\ FirstOfItsText' /\ NotBuiltSince' /\ OneFailurePerBody'
  BY <1>1 DEF FailuresFollow, FirstOfItsText, NotBuiltSince, OneFailurePerBody
<1>6. HarnessStoppedIt' /\ ApprovedHasItsPatch'
  BY <1>1 DEF HarnessStoppedIt, ApprovedHasItsPatch
<1> QED
  BY <1>3, <1>4, <1>5, <1>6

LEMMA StepKeepsRescueInv == RescueInv /\ [RescueNext]_rescueVars => RescueInv'
<1> SUFFICES ASSUME RescueInv, [RescueNext]_rescueVars PROVE RescueInv'
  OBVIOUS
<1>1. CASE \E r \in Rescuer : Begin(r) \/ Verify(r) \/ Review(r) \/ Land(r) \/ Gate(r) \/ Move(r) \/ Kill(r)
  BY <1>1, BeginKeepsRescueInv, VerifyKeepsRescueInv, ReviewKeepsRescueInv, LandKeepsRescueInv,
     GateKeepsRescueInv, MoveKeepsRescueInv, KillKeepsRescueInv
<1>2. CASE \E b \in Build : Attempt(b) \/ BuildApproved(b)
  BY <1>2, AttemptKeepsRescueInv, BuildApprovedKeepsRescueInv
<1>3. CASE Human
  BY <1>3, HumanKeepsRescueInv
<1>4. CASE UNCHANGED rescueVars
  BY <1>4 DEF rescueVars, RescueInv, Types, Times, TextsInOrder, Matched, Grounded, FailuresFollow, FirstOfItsText,
              NotBuiltSince, OneFailurePerBody, HarnessStoppedIt, ApprovedHasItsPatch
<1> QED
  BY <1>1, <1>2, <1>3, <1>4 DEF RescueNext

-----------------------------------------------------------------------------
LEMMA InvHasTypes == RescueInv => RescueTypeOK
<1> SUFFICES ASSUME RescueInv PROVE RescueTypeOK
  OBVIOUS
<1>1. \A i \in DOMAIN stored : stored[i].ts < clock /\ stored[i].run \in Rescuer \cup Build
  BY RowsAreTyped DEF RescueInv, Times
<1>2. \A r \in Rescuer : branches[r].base \in 0..(MaxMain + 1)
  BY DEF RescueInv, Types
<1>3. \A r \in Rescuer : view[r].patch \in Nat
  BY DEF RescueInv, Types, View
<1>4. \A r \in Rescuer : view[r].patch \in 0..clock
  <2>1. clock \in Nat /\ \A r \in Rescuer : view[r].patch <= clock
    BY RowsAreTyped DEF RescueInv, Times
  <2> SUFFICES ASSUME NEW r \in Rescuer PROVE view[r].patch \in 0..clock
    OBVIOUS
  <2>2. view[r].patch \in Nat /\ view[r].patch <= clock
    BY <1>3, <2>1
  <2> QED
    BY <2>1, <2>2
<1> QED
  BY <1>1, <1>2, <1>4 DEF RescueInv, Types, RescueTypeOK, RowState, Stage

\* A ticket text is the subject of at most one failed rescue, of a patch the harness stopped,
\* and an approval leaves the patch that was checked (rescue_select.py, rescue_task).
THEOREM RescuesAreSparing == RescueSpec => []RescueIsSparing
<1>1. RescueInv => RescueIsSparing
  BY InvHasTypes DEF RescueInv, RescueIsSparing
<1> QED
  BY <1>1, InitHasRescueInv, StepKeepsRescueInv, PTL DEF RescueSpec

\* A finished task is not set aside by a rescue, and no rescue passes the gate for a task that
\* was built again since the rescue read it (row_should_quarantine, _execute's fence).
THEOREM RescuesGiveWay == RescueSpec => RescueGivesWay
<1>1. [RescueNext]_rescueVars => [(row \in {"approved", "done"}) => row' # "quarantined"]_rescueVars
  <2> SUFFICES ASSUME RescueNext, row \in {"approved", "done"} PROVE row' # "quarantined"
    BY DEF rescueVars
  <2>1. \A r \in Rescuer, cause \in {"code", Fault, "review"} : Fail(r, cause) => row' # "quarantined"
    BY DEF Fail, Quarantines
  <2>2. CASE \E r \in Rescuer : Begin(r) \/ Gate(r) \/ Move(r) \/ Kill(r)
    BY <2>2 DEF Begin, Gate, Move, Kill, Refused
  <2>3. CASE \E r \in Rescuer : Verify(r) \/ Review(r) \/ Land(r)
    BY <2>1, <2>3 DEF Verify, Review, Land
  <2>4. CASE (\E b \in Build : Attempt(b) \/ BuildApproved(b)) \/ Human
    BY <2>4 DEF Attempt, BuildApproved, Human
  <2> QED
    BY <2>2, <2>3, <2>4 DEF RescueNext
<1>2. RescueInv /\ [RescueNext]_rescueVars =>
        [\A r \in Rescuer : (stage[r] = "gate" /\ stage'[r] = "move") => view[r].seen = Len(attempts)]_rescueVars
  <2> SUFFICES ASSUME RescueInv, RescueNext, NEW r \in Rescuer, stage[r] = "gate", stage'[r] = "move"
               PROVE  view[r].seen = Len(attempts)
    BY DEF rescueVars
  <2>1. leader = r
    <3>1. \A q \in Rescuer, l \in Stage \ {"move"} : ~Goto(q, l)
      BY DEF Goto, RescueInv, Types
    <3>2. \A q \in Rescuer : ~Begin(q) /\ ~Kill(q) /\ ~Move(q)
      BY <3>1 DEF Begin, Kill, Move, Refused, Stage, Working
    <3>3. \A q \in Rescuer, cause \in {"code", Fault, "review"} : ~Fail(q, cause)
      BY <3>1 DEF Fail, Stage, Working
    <3>4. \A q \in Rescuer : ~Verify(q) /\ ~Land(q)
      BY <3>1, <3>3 DEF Verify, Land, Stage, Working
    <3>5. \A q \in Rescuer : ~Review(q)
      BY <3>1, <3>3 DEF Review, Stage, Working
    <3>6. UNCHANGED stage => FALSE
      OBVIOUS
    <3>7. ~Human /\ \A b \in Build : ~Attempt(b) /\ ~BuildApproved(b)
      BY <3>6 DEF Human, Attempt, BuildApproved
    <3>8. PICK q \in Rescuer : Gate(q)
      BY <3>2, <3>4, <3>5, <3>7 DEF RescueNext
    <3>9. Fenced(q) /\ Goto(q, "move")
      BY <3>1, <3>8 DEF Gate, Refused, Stage
    <3>10. q = r
      BY <3>9 DEF Goto, RescueInv, Types
    <3> QED
      BY <3>9, <3>10 DEF Fenced
  <2> QED
    BY <2>1 DEF RescueInv, NotBuiltSince
<1> QED
  BY <1>1, <1>2, InitHasRescueInv, StepKeepsRescueInv, PTL
     DEF RescueSpec, RescueGivesWay, FinishedIsNotSetAside, LastAttemptAtTheGate
=============================================================================
