------------------------------ MODULE JobLedger ------------------------------
(***************************************************************************)
(* What the job queue promises to everything that runs on it: whatever     *)
(* processes, leases, crashes and sweeps do, a job is worked on by a       *)
(* series of EXCLUSIVE grants, numbered by "epoch", and only the grant in  *)
(* force may have side effects.  JobQueue is shown to implement this.      *)
(***************************************************************************)
EXTENDS Naturals

CONSTANT Jobs

VARIABLES
  phase,   \* [Jobs -> {"none", "pending", "held", "closed"}]
  epoch,   \* [Jobs -> Nat]: how many times the job was granted
  writer   \* [Jobs -> Nat]: the grant that performed the latest side effect

vars == <<phase, epoch, writer>>

Init ==
  /\ phase = [j \in Jobs |-> "none"]
  /\ epoch = [j \in Jobs |-> 0]
  /\ writer = [j \in Jobs |-> 0]

Move(j, from, to) == phase[j] = from /\ phase' = [phase EXCEPT ![j] = to]

Submit(j)   == Move(j, "none", "pending") /\ UNCHANGED <<epoch, writer>>
Withdraw(j) == Move(j, "pending", "closed") /\ UNCHANGED <<epoch, writer>>
Reopen(j)   == Move(j, "closed", "pending") /\ UNCHANGED <<epoch, writer>>

Grant(j) ==
  /\ Move(j, "pending", "held")
  /\ epoch' = [epoch EXCEPT ![j] = @ + 1]
  /\ UNCHANGED writer

\* Only the grant in force writes.
Write(j) ==
  /\ phase[j] = "held"
  /\ writer' = [writer EXCEPT ![j] = epoch[j]]
  /\ UNCHANGED <<phase, epoch>>

\* Some grants end; each job is given back or closed.
Settle(S) ==
  /\ \A j \in S : phase[j] = "held"
  /\ \E back \in SUBSET S :
       phase' = [j \in Jobs |-> IF j \in back THEN "pending"
                                ELSE IF j \in S THEN "closed" ELSE phase[j]]
  /\ UNCHANGED <<epoch, writer>>

Next ==
  \/ \E j \in Jobs : Submit(j) \/ Withdraw(j) \/ Reopen(j) \/ Grant(j) \/ Write(j)
  \/ \E S \in SUBSET Jobs : Settle(S)

Spec == Init /\ [][Next]_vars
=============================================================================
