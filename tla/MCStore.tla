------------------------------ MODULE MCStore ------------------------------
(***************************************************************************)
(* Three protocols over the one store.  They share no state, and a         *)
(* behaviour is that of one of them, the `program`:                        *)
(*   lease    three processes on one lease: a run launched twice under the *)
(*            same id, and a second run of the same prefix;                *)
(*   migrate  three openers of code that knows two or three migrations, or *)
(*            whose package has a gap, each opening the store once;        *)
(*   copy     two runs of a copy of runs and the attempts that hang off    *)
(*            them, out of a source of two runs that grows at either end,  *)
(*            into a store whose rows are written between the copies.      *)
(***************************************************************************)
EXTENDS Lease, StoreMigrate, StoreCopy, TLC

CONSTANTS p1, p2, p3, runA, runB, o1, o2, o3

VARIABLE program

MCHolderOf == (p1 :> runA) @@ (p2 :> runA) @@ (p3 :> runB)

\* The two launches of one run id are interchangeable.
Relaunches == Permutations({p1, p2})

MCPackages == {<<1, 2>>, <<1, 2, 3>>, <<1, 3>>}
Apart == [o \in Opener |->
            [n \in 1..MaxOpens |-> n + MaxOpens * (IF o = o1 THEN 0 ELSE IF o = o2 THEN 1 ELSE 2)]]

RunsThenAttempts == <<"runs", "attempts">>
MCCreated == {"runs", "attempts"}
MCRefreshed == {"runs"}

Init ==
  /\ program \in {"lease", "migrate", "copy"}
  /\ LeaseInit /\ MigrateInit /\ CopyInit
  /\ program # "migrate" => modules = [o \in Opener |-> <<1, 2>>]
  /\ program = "copy" => Count(src, "runs") = 2 /\ src["runs"][2] = 1 /\ dst # src
  /\ program # "copy" => src = [t \in Created |-> [k \in Key |-> 0]] /\ dst = src

Next ==
  /\ UNCHANGED program
  /\ \/ program = "lease" /\ LeaseNext /\ UNCHANGED <<migrateVars, copyVars>>
     \/ program = "migrate" /\ MigrateNext /\ UNCHANGED <<leaseVars, copyVars>>
     \/ program = "copy" /\ CopyNext /\ UNCHANGED <<leaseVars, migrateVars>>

Spec == Init /\ [][Next]_<<program, leaseVars, migrateVars, copyVars>>
=============================================================================
