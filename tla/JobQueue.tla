------------------------------ MODULE JobQueue ------------------------------
(***************************************************************************)
(* The SQLite job queue (server/src/jobs/queue.ts) driven by the worker    *)
(* loop (server/src/jobs/worker.ts) of one or more processes: the web      *)
(* process with its inline worker and the dedicated worker container share *)
(* one jobs table.                                                         *)
(*                                                                         *)
(* A row of the table is a job; a claim of it by a process is an ATTEMPT,  *)
(* written <<j, t>> where t is the lease token of that claim.  Tokens are  *)
(* random in the code and every claim adds one to "attempts" in the same   *)
(* UPDATE, so the number of the claim serves as its token.                 *)
(*                                                                         *)
(* Time is counted in units of the model: leaseAge is how long ago the     *)
(* lease of a row was last extended and sinceConfirmed how long ago a      *)
(* guard last confirmed it.  Both saturate past Lease, because the code    *)
(* only ever compares them with LEASE_MS.                                  *)
(***************************************************************************)
EXTENDS Naturals, FiniteSets

CONSTANTS
  Jobs,         \* job ids that may be enqueued
  Workers,      \* processes that run startWorker
  NoWorker,     \* "no process", for an attempt that is over or never began
  Keys,         \* dedupe keys
  NoKey,        \* a job enqueued without a dedupe key
  KeyOf,        \* the dedupe key each job id is enqueued with
  Lanes,        \* worker lanes (heavy, light, download)
  LaneOf,       \* the lane of each job's type
  Capacity,     \* slots of a lane in one process
  Priority,     \* the priority each job is enqueued with
  Lease,        \* LEASE_MS in model time units
  MaxStall,     \* longest time from assertHeld() to the write it protects
  MaxAttempts,  \* MAX_ATTEMPTS
  MaxRetries,   \* bound: how often a user presses Retry on one job
  MaxFaults     \* bound: process stops and crashes in a behaviour

ASSUME JobsAssumption == IsFiniteSet(Jobs)
ASSUME WorkersAssumption == NoWorker \notin Workers
ASSUME KeysAssumption == NoKey \notin Keys /\ KeyOf \in [Jobs -> Keys \cup {NoKey}]
ASSUME LanesAssumption == LaneOf \in [Jobs -> Lanes] /\ Capacity \in [Lanes -> Nat]
ASSUME PriorityAssumption == Priority \in [Jobs -> Nat]
ASSUME TimeAssumption == Lease \in Nat /\ MaxStall \in 0..Lease
ASSUME BoundsAssumption ==
  MaxAttempts \in Nat \ {0} /\ MaxRetries \in Nat /\ MaxFaults \in Nat

VARIABLES
  jobState,       \* [Jobs -> JobState]: column state, or "absent"
  attempts,       \* [Jobs -> Nat]: column attempts
  leaseToken,     \* [Jobs -> Nat]: column lease_token, NoToken for NULL
  leaseAge,       \* [Jobs -> 0..Lease+1]: time since lease_expires_at was set
  retries,        \* [Jobs -> Nat]: how often retryJob revived the row
  createdAt,      \* [Jobs -> Nat]: column created_at, as a rank
  host,           \* [Attempt -> Workers]: the process running the attempt
  armed,          \* attempts between assertHeld() and the write it guards
  lost,           \* attempts whose guard has flipped to lost
  sinceConfirmed, \* [Attempt -> 0..Lease+1]: age of lastConfirmedAt
  mode,           \* [Workers -> {"up", "stopping", "down"}]
  faults,         \* stops and crashes so far
  lastWriter      \* [Jobs -> Nat]: token of the last attempt that wrote

rowVars  == <<jobState, attempts, leaseToken, leaseAge, retries, createdAt>>
runVars  == <<host, armed, lost, sinceConfirmed>>
procVars == <<mode, faults>>
vars     == <<rowVars, runVars, procVars, lastWriter>>

-----------------------------------------------------------------------------
NoToken == 0
Token   == 1..(MaxAttempts + MaxRetries)
Attempt == Jobs \X Token

JobState == {"absent", "queued", "running", "done", "failed", "cancelled", "pruned"}
Pending  == {"queued", "running"}

Expired(j) == leaseAge[j] > Lease
Older(age) == IF age > Lease THEN age ELSE age + 1

\* The attempt's conditional UPDATE (id, lease_token, state = 'running') hits.
Holds(a) == jobState[a[1]] = "running" /\ leaseToken[a[1]] = a[2]
Live(a)  == host[a] # NoWorker

\* The partial UNIQUE index over queued and running rows.
KeyTaken(j) == KeyOf[j] # NoKey /\ \E k \in Jobs \ {j} :
                 KeyOf[k] = KeyOf[j] /\ jobState[k] \in Pending

Load(w, l) == Cardinality({a \in Attempt : host[a] = w /\ LaneOf[a[1]] = l})

\* ORDER BY priority DESC, created_at
Before(j, k) == \/ Priority[j] > Priority[k]
                \/ Priority[j] = Priority[k] /\ createdAt[j] < createdAt[k]
NextInLane(j) == \A k \in Jobs \ {j} :
  jobState[k] = "queued" /\ LaneOf[k] = LaneOf[j] => ~Before(k, j)

TypeOK ==
  /\ jobState \in [Jobs -> JobState]
  /\ attempts \in [Jobs -> 0..(MaxAttempts + MaxRetries)]
  /\ leaseToken \in [Jobs -> {NoToken} \cup Token]
  /\ leaseAge \in [Jobs -> 0..(Lease + 1)]
  /\ retries \in [Jobs -> 0..MaxRetries]
  /\ createdAt \in [Jobs -> Nat]
  /\ host \in [Attempt -> Workers \cup {NoWorker}]
  /\ armed \subseteq Attempt
  /\ lost \subseteq Attempt
  /\ sinceConfirmed \in [Attempt -> 0..(Lease + 1)]
  /\ mode \in [Workers -> {"up", "stopping", "down"}]
  /\ faults \in 0..MaxFaults
  /\ lastWriter \in [Jobs -> {NoToken} \cup Token]

Init ==
  /\ jobState = [j \in Jobs |-> "absent"]
  /\ attempts = [j \in Jobs |-> 0]
  /\ leaseToken = [j \in Jobs |-> NoToken]
  /\ leaseAge = [j \in Jobs |-> 0]
  /\ retries = [j \in Jobs |-> 0]
  /\ createdAt = [j \in Jobs |-> 0]
  /\ host = [a \in Attempt |-> NoWorker]
  /\ armed = {}
  /\ lost = {}
  /\ sinceConfirmed = [a \in Attempt |-> 0]
  /\ mode = [w \in Workers |-> "down"]
  /\ faults = 0
  /\ lastWriter = [j \in Jobs |-> NoToken]

-----------------------------------------------------------------------------
(* What a statement does to a row, and what the end of attempts does to    *)
(* the bookkeeping of the processes.                                       *)

\* A row leaves 'running': both lease columns go back to NULL.
Release(j, s) ==
  /\ jobState' = [jobState EXCEPT ![j] = s]
  /\ leaseToken' = [leaseToken EXCEPT ![j] = NoToken]
  /\ leaseAge' = [leaseAge EXCEPT ![j] = 0]
  /\ UNCHANGED <<attempts, retries, createdAt>>

\* lease_expires_at = now + LEASE_MS
Extend(j) ==
  /\ leaseAge' = [leaseAge EXCEPT ![j] = 0]
  /\ UNCHANGED <<jobState, attempts, leaseToken, retries, createdAt>>

\* The attempts in A are over: their closures and timers are gone.
EndAll(A) ==
  /\ host' = [a \in Attempt |-> IF a \in A THEN NoWorker ELSE host[a]]
  /\ armed' = armed \ A
  /\ lost' = lost \ A
  /\ sinceConfirmed' = [a \in Attempt |-> IF a \in A THEN 0 ELSE sinceConfirmed[a]]
End(a) == EndAll({a})

-----------------------------------------------------------------------------
(* Requests: the routes, the timers and other jobs.                        *)

\* enqueueJob: a UNIQUE violation returns null and changes nothing.
Enqueue(j) ==
  /\ jobState[j] = "absent"
  /\ ~KeyTaken(j)
  /\ jobState' = [jobState EXCEPT ![j] = "queued"]
  /\ createdAt' = [createdAt EXCEPT
       ![j] = 1 + Cardinality({k \in Jobs : jobState[k] # "absent"})]
  /\ UNCHANGED <<attempts, leaseToken, leaseAge, retries, runVars, procVars, lastWriter>>

\* Fault: cancelling a job that is already running.
CancelRunningToo(j) ==
  /\ jobState[j] \in Pending
  /\ jobState' = [jobState EXCEPT ![j] = "cancelled"]
  /\ UNCHANGED <<attempts, leaseToken, leaseAge, retries, createdAt,
                 runVars, procVars, lastWriter>>

Cancel(j) ==
  /\ jobState[j] = "queued"
  /\ jobState' = [jobState EXCEPT ![j] = "cancelled"]
  /\ UNCHANGED <<attempts, leaseToken, leaseAge, retries, createdAt,
                 runVars, procVars, lastWriter>>

\* retryJob keeps the attempts already spent; an equivalent pending job trips
\* the index and nothing changes.
Retry(j) ==
  /\ jobState[j] \in {"failed", "cancelled"}
  /\ ~KeyTaken(j)
  /\ retries[j] < MaxRetries
  /\ retries' = [retries EXCEPT ![j] = @ + 1]
  /\ jobState' = [jobState EXCEPT ![j] = "queued"]
  /\ leaseToken' = [leaseToken EXCEPT ![j] = NoToken]
  /\ leaseAge' = [leaseAge EXCEPT ![j] = 0]
  /\ UNCHANGED <<attempts, createdAt, runVars, procVars, lastWriter>>

\* pruneFinishedJobs, for one row a week after it finished.  Failed rows stay.
Prune(j) ==
  /\ jobState[j] \in {"done", "cancelled"}
  /\ jobState' = [jobState EXCEPT ![j] = "pruned"]
  /\ UNCHANGED <<attempts, leaseToken, leaseAge, retries, createdAt,
                 runVars, procVars, lastWriter>>

-----------------------------------------------------------------------------
(* The worker loop.                                                        *)

\* Fault: the claim forgets to count the attempt, so its token is not fresh.
ClaimUncounted(w, j) ==
  LET a == <<j, attempts[j] + 1>> IN
  /\ mode[w] = "up" /\ jobState[j] = "queued" /\ NextInLane(j)
  /\ Load(w, LaneOf[j]) < Capacity[LaneOf[j]]
  /\ jobState' = [jobState EXCEPT ![j] = "running"]
  /\ leaseToken' = [leaseToken EXCEPT ![j] = a[2]]
  /\ leaseAge' = [leaseAge EXCEPT ![j] = 0]
  /\ host' = [host EXCEPT ![a] = w]
  /\ sinceConfirmed' = [sinceConfirmed EXCEPT ![a] = 0]
  /\ UNCHANGED <<attempts, retries, createdAt, armed, lost, procVars, lastWriter>>

\* claimNextJob and the guard the tick makes for the claim.
Claim(w, j) ==
  LET a == <<j, attempts[j] + 1>> IN
  /\ mode[w] = "up"
  /\ jobState[j] = "queued"
  /\ NextInLane(j)
  /\ Load(w, LaneOf[j]) < Capacity[LaneOf[j]]
  /\ jobState' = [jobState EXCEPT ![j] = "running"]
  /\ attempts' = [attempts EXCEPT ![j] = @ + 1]
  /\ leaseToken' = [leaseToken EXCEPT ![j] = a[2]]
  /\ leaseAge' = [leaseAge EXCEPT ![j] = 0]
  /\ host' = [host EXCEPT ![a] = w]
  /\ sinceConfirmed' = [sinceConfirmed EXCEPT ![a] = 0]
  /\ UNCHANGED <<retries, createdAt, armed, lost, procVars, lastWriter>>

\* Fault: recovery that leaves exhausted rows as they are.
SweepForgetsExhausted(w) ==
  \E j \in Jobs :
    /\ mode[w] = "up" /\ jobState[j] = "running" /\ Expired(j)
    /\ attempts[j] < MaxAttempts
    /\ Release(j, "queued")
    /\ UNCHANGED <<runVars, procVars, lastWriter>>

\* recoverStaleJobs: exhausted rows fail, the other expired rows go back.
Sweep(w) ==
  LET stale == {j \in Jobs : jobState[j] = "running" /\ Expired(j)} IN
  /\ mode[w] = "up"
  /\ stale # {}
  /\ jobState' = [j \in Jobs |->
       IF j \notin stale THEN jobState[j]
       ELSE IF attempts[j] >= MaxAttempts THEN "failed" ELSE "queued"]
  /\ leaseToken' = [j \in Jobs |-> IF j \in stale THEN NoToken ELSE leaseToken[j]]
  /\ leaseAge' = [j \in Jobs |-> IF j \in stale THEN 0 ELSE leaseAge[j]]
  /\ UNCHANGED <<attempts, retries, createdAt, runVars, procVars, lastWriter>>

-----------------------------------------------------------------------------
(* A running handler.  Between two of these steps it awaits something.     *)

\* guard.heartbeat(): renewed, found reclaimed, or unconfirmed because the
\* database failed, which is tolerated for one lease window.
Heartbeat(a) ==
  /\ Live(a) /\ a \notin lost
  /\ \/ /\ Holds(a)
        /\ Extend(a[1])
        /\ sinceConfirmed' = [sinceConfirmed EXCEPT ![a] = 0]
        /\ UNCHANGED lost
     \/ /\ ~Holds(a) \/ sinceConfirmed[a] > Lease
        /\ lost' = lost \cup {a}
        /\ UNCHANGED <<rowVars, sinceConfirmed>>
  /\ UNCHANGED <<host, armed, procVars, lastWriter>>

\* guard.assertHeld() confirmed the lease; the write comes next.
AssertHeld(a) ==
  /\ Live(a) /\ a \notin lost /\ a \notin armed
  /\ Holds(a)
  /\ Extend(a[1])
  /\ sinceConfirmed' = [sinceConfirmed EXCEPT ![a] = 0]
  /\ armed' = armed \cup {a}
  /\ UNCHANGED <<host, lost, procVars, lastWriter>>

\* The filesystem or database side effect that assertHeld() protects.
Write(a) ==
  /\ a \in armed
  /\ armed' = armed \ {a}
  /\ lastWriter' = [lastWriter EXCEPT ![a[1]] = a[2]]
  /\ UNCHANGED <<rowVars, host, lost, sinceConfirmed, procVars>>

\* jobProgress, jobCheckpoint: extend the row's lease, not the guard.
Progress(a) ==
  /\ Live(a) /\ a \notin armed
  /\ Holds(a)
  /\ Extend(a[1])
  /\ UNCHANGED <<runVars, procVars, lastWriter>>

\* LeaseLostError: assertHeld failed closed (lost, reclaimed, or the database
\* could not confirm) or jobProgress found the row reclaimed.  done() skips
\* finishJob.
Abort(a) ==
  /\ Live(a) /\ a \notin armed
  /\ End(a)
  /\ UNCHANGED <<rowVars, procVars, lastWriter>>

\* done() after the handler resolved.
Succeed(a) ==
  /\ Live(a) /\ a \notin armed
  /\ IF a \notin lost /\ Holds(a) THEN Release(a[1], "done") ELSE UNCHANGED rowVars
  /\ End(a)
  /\ UNCHANGED <<procVars, lastWriter>>

\* requeueJob succeeds: the process is stopping and attempts are left.
RequeuedAtShutdown(a) == mode[host[a]] = "stopping" /\ attempts[a[1]] < MaxAttempts

\* done(error) after the handler rejected.
Fail(a) ==
  /\ Live(a) /\ a \notin armed
  /\ IF a \notin lost /\ Holds(a)
       THEN Release(a[1], IF RequeuedAtShutdown(a) THEN "queued" ELSE "failed")
       ELSE UNCHANGED rowVars
  /\ End(a)
  /\ UNCHANGED <<procVars, lastWriter>>

-----------------------------------------------------------------------------
(* Processes and time.                                                     *)

Start(w) ==
  /\ mode[w] = "down"
  /\ mode' = [mode EXCEPT ![w] = "up"]
  /\ UNCHANGED <<rowVars, runVars, faults, lastWriter>>

\* SIGTERM: stop() clears the tick; in-flight handlers keep running.
Stop(w) ==
  /\ mode[w] = "up" /\ faults < MaxFaults
  /\ mode' = [mode EXCEPT ![w] = "stopping"]
  /\ faults' = faults + 1
  /\ UNCHANGED <<rowVars, runVars, lastWriter>>

Dies(w) ==
  /\ EndAll({a \in Attempt : host[a] = w})
  /\ mode' = [mode EXCEPT ![w] = "down"]
  /\ UNCHANGED <<rowVars, lastWriter>>

\* process.exit, at once when nothing runs or after the five seconds of grace.
Exit(w) == mode[w] = "stopping" /\ Dies(w) /\ UNCHANGED faults

Crash(w) ==
  /\ mode[w] # "down" /\ faults < MaxFaults
  /\ Dies(w)
  /\ faults' = faults + 1

\* A process never sits longer than MaxStall between the confirmation and the
\* write: the two are adjacent statements.  Anywhere else it may stall forever.
Tick ==
  /\ \A a \in armed : sinceConfirmed[a] < MaxStall
  /\ leaseAge' = [j \in Jobs |->
       IF jobState[j] = "running" THEN Older(leaseAge[j]) ELSE leaseAge[j]]
  /\ sinceConfirmed' = [a \in Attempt |->
       IF Live(a) THEN Older(sinceConfirmed[a]) ELSE sinceConfirmed[a]]
  /\ <<leaseAge, sinceConfirmed>>' # <<leaseAge, sinceConfirmed>>
  /\ UNCHANGED <<jobState, attempts, leaseToken, retries, createdAt,
                 host, armed, lost, procVars, lastWriter>>

-----------------------------------------------------------------------------
AttemptStep(a) ==
  Heartbeat(a) \/ AssertHeld(a) \/ Write(a) \/ Progress(a) \/ Abort(a) \/ Succeed(a) \/ Fail(a)

Next ==
  \/ \E j \in Jobs : Enqueue(j) \/ Cancel(j) \/ Retry(j) \/ Prune(j)
  \/ \E w \in Workers : \/ \E j \in Jobs : Claim(w, j)
                        \/ Sweep(w) \/ Start(w) \/ Stop(w) \/ Exit(w) \/ Crash(w)
  \/ \E a \in Attempt : AttemptStep(a)
  \/ Tick

\* The tick timer of a live process keeps firing (claims and sweeps), the
\* container is restarted (restart: unless-stopped), an exiting process exits,
\* a confirmed write is performed and a handler is a finite program.
Fairness ==
  /\ WF_vars(Tick)
  /\ \A w \in Workers :
       /\ WF_vars(Sweep(w)) /\ WF_vars(Start(w)) /\ WF_vars(Exit(w))
       /\ WF_vars(\E j \in Jobs : Claim(w, j))
  /\ \A a \in Attempt : WF_vars(Write(a)) /\ SF_vars(Succeed(a) \/ Fail(a))

Spec     == Init /\ [][Next]_vars
FairSpec == Spec /\ Fairness

-----------------------------------------------------------------------------
(* What is promised.                                                       *)

\* A write protected by assertHeld() is only ever performed by the attempt
\* that holds the lease: "a write performed immediately after it cannot race
\* the stale-job sweeper".
OnlyHolderWrites == \A a \in armed : Holds(a)

\* Once a later attempt of a job has written, no earlier attempt writes again,
\* however slow it was and whatever process it lives in.
WritesAreFenced == [][\A j \in Jobs : lastWriter'[j] >= lastWriter[j]]_vars

\* The lease is surrendered by its own attempt, or reclaimed after it expired:
\* cancel, retry, prune, enqueue and other attempts never take a live lease.
LeaseIsRespected ==
  [][\A a \in Attempt : Holds(a) /\ ~Holds(a)' => Expired(a[1]) \/ (Live(a) /\ ~Live(a)')]_vars

\* The end of an attempt that lost its job leaves the row as it found it: the
\* new owner's run, or its result, is never clobbered.
StaleAttemptNeverSettles ==
  [][\A a \in Attempt : Live(a) /\ ~Live(a)' /\ ~Holds(a) => UNCHANGED rowVars]_vars

\* A job that keeps losing its lease is claimed MAX_ATTEMPTS times and no more,
\* plus once for each time a user asks for it again.
AttemptsBounded ==
  \A j \in Jobs : attempts[j] <= MaxAttempts + retries[j]

\* Every job that was accepted is eventually done, failed or cancelled, through
\* stale leases, database errors, restarts and crashes.
EveryJobSettles ==
  \A j \in Jobs : jobState[j] \in Pending ~> jobState[j] \notin Pending

-----------------------------------------------------------------------------
(* The abstract ledger this queue implements.                              *)

PhaseOf(s) == CASE s = "absent"  -> "none"
                [] s = "queued"  -> "pending"
                [] s = "running" -> "held"
                [] OTHER         -> "closed"

Ledger == INSTANCE JobLedger WITH
  phase  <- [j \in Jobs |-> PhaseOf(jobState[j])],
  epoch  <- attempts,
  writer <- lastWriter

\* Whatever the processes do, a job is worked on by exclusive, numbered grants
\* and only the grant in force has side effects.
ImplementsLedger == Ledger!Spec
=============================================================================
