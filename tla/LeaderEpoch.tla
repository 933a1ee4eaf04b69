---------------------------- MODULE LeaderEpoch ----------------------------
(***************************************************************************)
(* What a lease promises to its users, without a row, a clock or a         *)
(* database: there is a leader or there is none, and no process becomes    *)
(* the leader without a new, larger epoch.  A leader may lose its place at *)
(* any moment (its lease runs out, it gives it back, its process dies),    *)
(* and then nobody leads until the next election.                          *)
(***************************************************************************)
EXTENDS Integers

CONSTANTS Proc,   \* the processes that may lead
          NoProc  \* "nobody leads"

VARIABLES leader, \* the leading process, or NoProc
          epoch   \* the number of elections so far

leaderVars == <<leader, epoch>>

LeaderInit ==
  /\ leader = NoProc
  /\ epoch = 0

\* A process takes the lead, with an epoch nobody had before.
Elect(p) ==
  /\ leader' = p
  /\ epoch' = epoch + 1

\* An election won by a process whose term was over before it began.
ElectNobody ==
  /\ leader' = NoProc
  /\ epoch' = epoch + 1

\* The leader stops leading; the epoch stays, so the next election tops it.
StepDown ==
  /\ leader' = NoProc
  /\ UNCHANGED epoch

LeaderNext ==
  \/ \E p \in Proc : Elect(p)
  \/ ElectNobody
  \/ StepDown

LeaderSpec == LeaderInit /\ [][LeaderNext]_leaderVars
=============================================================================
