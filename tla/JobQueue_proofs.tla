--------------------------- MODULE JobQueue_proofs ---------------------------
(***************************************************************************)
(* Proofs about JobQueue for every set of jobs and processes, every lease, *)
(* stall bound, attempt limit and number of faults.                        *)
(***************************************************************************)
EXTENDS JobQueue, FiniteSetTheorems, TLAPS

\* The inductive invariant.  A running row carries the token of its newest
\* claim and no other row carries one, so "the holder" is the newest attempt.
TokenIsNewest == \A j \in Jobs :
  leaseToken[j] = IF jobState[j] = "running" THEN attempts[j] ELSE NoToken

\* A row that may still be claimed has a claim left in its budget.
BudgetLeft == \A j \in Jobs :
  /\ jobState[j] = "absent" => attempts[j] = 0
  /\ jobState[j] = "queued" => attempts[j] < MaxAttempts + retries[j]

\* Attempts that run or wrote were claimed.
RunsWereClaimed == \A a \in Attempt : Live(a) => a[2] <= attempts[a[1]]
WritersWereClaimed == \A j \in Jobs : lastWriter[j] <= attempts[j]

\* An attempt about to write holds a lease no older than its confirmation.
ArmedIsFresh == \A a \in armed :
  /\ Live(a)
  /\ Holds(a)
  /\ leaseAge[a[1]] <= sinceConfirmed[a]
  /\ sinceConfirmed[a] <= MaxStall

IInv ==
  /\ TypeOK
  /\ AttemptsBounded
  /\ TokenIsNewest
  /\ BudgetLeft
  /\ RunsWereClaimed
  /\ WritersWereClaimed
  /\ ArmedIsFresh

-----------------------------------------------------------------------------
USE DEF NoToken

\* An attempt is its job and its token.
LEMMA AttemptPair ==
  /\ \A a \in Attempt : a[1] \in Jobs /\ a[2] \in Token /\ a = <<a[1], a[2]>>
  /\ \A a, b \in Attempt : a[1] = b[1] /\ a[2] = b[2] => a = b
  BY DEF Attempt

\* Tokens and the counters that bound them are naturals.
LEMMA TokenNat ==
  /\ \A t \in Token : t \in Nat /\ t > 0
  /\ MaxAttempts + MaxRetries \in Nat
  BY BoundsAssumption DEF Token

LEMMA OlderBounds ==
  ASSUME NEW x \in 0..(Lease + 1)
  PROVE  /\ Older(x) \in 0..(Lease + 1)
         /\ x <= Lease => Older(x) = x + 1
         /\ x <= Older(x)
  BY TimeAssumption DEF Older

\* Two attempts that both hold the lease of one job are the same attempt.
LEMMA HolderIsUnique ==
  ASSUME NEW a \in Attempt, NEW b \in Attempt, Holds(a), Holds(b), a[1] = b[1]
  PROVE  a = b
  BY AttemptPair DEF Holds

LEMMA InitInv == Init => IInv
  BY AttemptPair, TokenNat, BoundsAssumption, TimeAssumption
  DEF Init, IInv, TypeOK, AttemptsBounded, TokenIsNewest, BudgetLeft, RunsWereClaimed,
      WritersWereClaimed, ArmedIsFresh, JobState, Live, Holds, Token

-----------------------------------------------------------------------------

\* created_at ranks are naturals: only finitely many rows exist.
LEMMA CreatedNat == Cardinality({k \in Jobs : jobState[k] # "absent"}) \in Nat
  BY JobsAssumption, FS_Subset, FS_CardinalityType

\* Requests only ever touch rows that no attempt holds.
LEMMA RequestInv ==
  ASSUME IInv, NEW j \in Jobs, Enqueue(j) \/ Cancel(j) \/ Retry(j) \/ Prune(j)
  PROVE  IInv'
  <1> USE AttemptPair, TokenNat, BoundsAssumption, TimeAssumption
  <1>1. /\ jobState[j] # "running"
        /\ \A k \in Jobs \ {j} : jobState'[k] = jobState[k]
        /\ jobState'[j] \in JobState \ {"absent", "running"}
        /\ \A k \in Jobs : leaseToken'[k] = leaseToken[k] \/ (k = j /\ leaseToken'[k] = NoToken)
        /\ \A k \in Jobs : leaseAge'[k] = leaseAge[k] \/ (k = j /\ leaseAge'[k] = 0)
        /\ UNCHANGED <<attempts, host, armed, lost, sinceConfirmed, mode, faults, lastWriter>>
        /\ \A k \in Jobs : retries'[k] >= retries[k]
    <2> USE DEF IInv, TypeOK, JobState, runVars, procVars
    <2>1. CASE Enqueue(j)
      BY <2>1 DEF Enqueue
    <2>2. CASE Cancel(j)
      BY <2>2 DEF Cancel
    <2>3. CASE Retry(j)
      BY <2>3 DEF Retry
    <2>4. CASE Prune(j)
      BY <2>4 DEF Prune
    <2> QED
      BY <2>1, <2>2, <2>3, <2>4
  <1>2. TypeOK'
    BY CreatedNat DEF IInv, TypeOK, Enqueue, Cancel, Retry, Prune, JobState, runVars, procVars
  <1>3. AttemptsBounded' /\ RunsWereClaimed' /\ WritersWereClaimed'
    BY <1>1, <1>2 DEF IInv, TypeOK, AttemptsBounded, RunsWereClaimed, WritersWereClaimed, Live
  <1>4. TokenIsNewest'
    BY <1>1 DEF IInv, TypeOK, TokenIsNewest
  <1>5. BudgetLeft'
    BY DEF IInv, TypeOK, BudgetLeft, AttemptsBounded, Enqueue, Cancel, Retry, Prune
  <1>6. ArmedIsFresh'
    BY <1>1 DEF IInv, TypeOK, ArmedIsFresh, Live, Holds
  <1> QED
    BY <1>2, <1>3, <1>4, <1>5, <1>6 DEF IInv

\* A claim makes a new attempt, newer than every attempt of its job.
LEMMA ClaimInv ==
  ASSUME IInv, NEW w \in Workers, NEW j \in Jobs, Claim(w, j)
  PROVE  IInv'
  <1> USE AttemptPair, TokenNat, BoundsAssumption, TimeAssumption
  <1> DEFINE a == <<j, attempts[j] + 1>>
  <1>1. a \in Attempt
    BY DEF IInv, TypeOK, BudgetLeft, Claim, Attempt, Token
  <1>2. TypeOK'
    <2>1. a[2] \in Token /\ a[2] = attempts[j] + 1
      BY <1>1
    <2>2. attempts' \in [Jobs -> 0..(MaxAttempts + MaxRetries)]
      BY <2>1 DEF IInv, TypeOK, Claim, Token
    <2>3. leaseToken' \in [Jobs -> {NoToken} \cup Token]
      BY <2>1 DEF IInv, TypeOK, Claim
    <2>4. /\ host' \in [Attempt -> Workers \cup {NoWorker}]
          /\ sinceConfirmed' \in [Attempt -> 0..(Lease + 1)]
      BY <1>1 DEF IInv, TypeOK, Claim
    <2> QED
      BY <2>2, <2>3, <2>4 DEF IInv, TypeOK, Claim, JobState, procVars
  <1>3. AttemptsBounded' /\ BudgetLeft'
    BY DEF IInv, TypeOK, AttemptsBounded, BudgetLeft, Claim
  <1>4. TokenIsNewest'
    BY DEF IInv, TypeOK, TokenIsNewest, Claim
  <1>5. RunsWereClaimed'
    BY <1>1 DEF IInv, TypeOK, RunsWereClaimed, Live, Claim
  <1>6. WritersWereClaimed'
    BY DEF IInv, TypeOK, WritersWereClaimed, Claim
  <1>7. ArmedIsFresh'
    <2> SUFFICES ASSUME NEW b \in armed PROVE ArmedIsFresh!(b)'
      BY DEF ArmedIsFresh, Claim
    <2>1. b \in Attempt /\ b[1] # j
      BY DEF IInv, TypeOK, ArmedIsFresh, Holds, Claim
    <2>2. b # a
      BY <2>1
    <2> QED
      BY <1>1, <2>1, <2>2 DEF IInv, TypeOK, ArmedIsFresh, Live, Holds, Claim, procVars
  <1> QED
    BY <1>2, <1>3, <1>4, <1>5, <1>6, <1>7 DEF IInv

\* The sweep takes expired leases only, and no lease about to be written under
\* is expired.
LEMMA SweepInv ==
  ASSUME IInv, NEW w \in Workers, Sweep(w)
  PROVE  IInv'
  <1> USE AttemptPair, TokenNat, BoundsAssumption, TimeAssumption
  <1>1. TypeOK'
    BY DEF IInv, TypeOK, Sweep, JobState, runVars, procVars
  <1>2. AttemptsBounded' /\ BudgetLeft'
    BY DEF IInv, TypeOK, AttemptsBounded, BudgetLeft, Sweep
  <1>3. TokenIsNewest'
    BY DEF IInv, TypeOK, TokenIsNewest, Sweep
  <1>4. RunsWereClaimed' /\ WritersWereClaimed'
    BY DEF IInv, TypeOK, RunsWereClaimed, WritersWereClaimed, Live, Sweep, runVars
  <1>5. ArmedIsFresh'
    <2> SUFFICES ASSUME NEW b \in armed PROVE ArmedIsFresh!(b)'
      BY DEF ArmedIsFresh, Sweep, runVars
    <2>1. b \in Attempt /\ ~Expired(b[1])
      BY DEF IInv, TypeOK, ArmedIsFresh, Expired
    <2> QED
      BY <2>1 DEF IInv, TypeOK, ArmedIsFresh, Live, Holds, Sweep, runVars
  <1> QED
    BY <1>1, <1>2, <1>3, <1>4, <1>5 DEF IInv

-----------------------------------------------------------------------------
\* The steps of a handler that keep it running.
LEMMA WorkingInv ==
  ASSUME IInv, NEW a \in Attempt,
         Heartbeat(a) \/ AssertHeld(a) \/ Write(a) \/ Progress(a)
  PROVE  IInv'
  <1> USE AttemptPair, TokenNat, BoundsAssumption, TimeAssumption
  <1>1. /\ UNCHANGED <<jobState, attempts, leaseToken, retries, host>>
        /\ \A j \in Jobs : leaseAge'[j] = leaseAge[j] \/ leaseAge'[j] = 0
        /\ \A b \in Attempt : \/ sinceConfirmed'[b] = sinceConfirmed[b]
                              \/ b = a /\ sinceConfirmed'[b] = 0 /\ leaseAge'[a[1]] = 0
        /\ \A b \in armed' : \/ b \in armed
                             \/ b = a /\ sinceConfirmed'[b] = 0 /\ leaseAge'[a[1]] = 0
    <2> USE DEF IInv, TypeOK, Extend, rowVars, runVars
    <2>1. CASE Heartbeat(a)
      BY <2>1 DEF Heartbeat
    <2>2. CASE AssertHeld(a)
      BY <2>2 DEF AssertHeld
    <2>3. CASE Write(a)
      BY <2>3 DEF Write
    <2>4. CASE Progress(a)
      BY <2>4 DEF Progress
    <2> QED
      BY <2>1, <2>2, <2>3, <2>4
  <1>2. TypeOK'
    <2> USE DEF IInv, TypeOK, Extend, rowVars, runVars, procVars
    <2>1. CASE Heartbeat(a)
      BY <2>1 DEF Heartbeat
    <2>2. CASE AssertHeld(a)
      BY <2>2 DEF AssertHeld
    <2>3. CASE Write(a)
      BY <2>3 DEF Write
    <2>4. CASE Progress(a)
      BY <2>4 DEF Progress
    <2> QED
      BY <2>1, <2>2, <2>3, <2>4
  <1>3. AttemptsBounded' /\ BudgetLeft' /\ TokenIsNewest' /\ RunsWereClaimed'
    BY <1>1 DEF IInv, AttemptsBounded, BudgetLeft, TokenIsNewest, RunsWereClaimed, Live
  <1>4. WritersWereClaimed'
    BY <1>1 DEF IInv, TypeOK, WritersWereClaimed, ArmedIsFresh, RunsWereClaimed,
                Heartbeat, AssertHeld, Write, Progress
  <1>5. ArmedIsFresh'
    <2> SUFFICES ASSUME NEW b \in armed' PROVE ArmedIsFresh!(b)'
      BY DEF ArmedIsFresh
    <2>1. b \in Attempt /\ Live(b) /\ Holds(b)
      BY <1>1 DEF IInv, TypeOK, ArmedIsFresh, AssertHeld, Heartbeat, Write, Progress, runVars
    <2>2. leaseAge'[b[1]] <= sinceConfirmed'[b] /\ sinceConfirmed'[b] <= MaxStall
      <3>1. CASE b = a /\ sinceConfirmed'[b] = 0 /\ leaseAge'[a[1]] = 0
        BY <3>1
      <3>2. CASE b \in armed /\ sinceConfirmed'[b] = sinceConfirmed[b]
        <4>1. leaseAge[b[1]] <= sinceConfirmed[b] /\ sinceConfirmed[b] <= MaxStall
          BY <3>2 DEF IInv, ArmedIsFresh
        <4>2. leaseAge'[b[1]] = leaseAge[b[1]] \/ leaseAge'[b[1]] = 0
          BY <1>1, <2>1
        <4>3. sinceConfirmed[b] \in Nat
          BY <2>1 DEF IInv, TypeOK
        <4> QED
          BY <3>2, <4>1, <4>2, <4>3
      <3> QED
        BY <1>1, <2>1, <3>1, <3>2
    <2> QED
      BY <1>1, <2>1, <2>2 DEF Live, Holds
  <1> QED
    BY <1>2, <1>3, <1>4, <1>5 DEF IInv

\* The ways an attempt ends: only its own row can change, and it had to hold it.
LEMMA EndingInv ==
  ASSUME IInv, NEW a \in Attempt, Abort(a) \/ Succeed(a) \/ Fail(a)
  PROVE  IInv'
  <1> USE AttemptPair, TokenNat, BoundsAssumption, TimeAssumption
  <1>1. /\ a \notin armed
        /\ EndAll({a})
        /\ UNCHANGED <<attempts, retries, createdAt, mode, faults, lastWriter>>
        /\ \/ UNCHANGED <<jobState, leaseToken, leaseAge>>
           \/ /\ Holds(a)
              /\ \E s \in {"done", "failed", "queued"} :
                   /\ Release(a[1], s)
                   /\ s = "queued" => attempts[a[1]] < MaxAttempts
    BY DEF Abort, Succeed, Fail, End, Release, RequeuedAtShutdown, rowVars, procVars
  <1>2. TypeOK'
    BY <1>1 DEF IInv, TypeOK, EndAll, Release, JobState
  <1>3. AttemptsBounded' /\ BudgetLeft'
    BY <1>1 DEF IInv, TypeOK, AttemptsBounded, BudgetLeft, Release
  <1>4. TokenIsNewest'
    BY <1>1 DEF IInv, TypeOK, TokenIsNewest, Release, Holds
  <1>5. RunsWereClaimed' /\ WritersWereClaimed'
    BY <1>1 DEF IInv, TypeOK, RunsWereClaimed, WritersWereClaimed, Live, EndAll
  <1>6. ArmedIsFresh'
    <2> SUFFICES ASSUME NEW b \in armed' PROVE ArmedIsFresh!(b)'
      BY DEF ArmedIsFresh
    <2>1. b \in armed /\ b \in Attempt /\ b # a
      BY <1>1 DEF IInv, TypeOK, EndAll
    <2>2. Live(b)' /\ sinceConfirmed'[b] = sinceConfirmed[b]
      BY <1>1, <2>1 DEF IInv, TypeOK, ArmedIsFresh, Live, EndAll
    <2>3. Holds(a) => a[1] # b[1]
      BY <2>1, HolderIsUnique DEF IInv, ArmedIsFresh
    <2> QED
      BY <1>1, <2>1, <2>2, <2>3 DEF IInv, TypeOK, ArmedIsFresh, Holds, Release
  <1> QED
    BY <1>2, <1>3, <1>4, <1>5, <1>6 DEF IInv

\* Processes come and go; rows stay.
LEMMA ProcessInv ==
  ASSUME IInv, NEW w \in Workers, Start(w) \/ Stop(w) \/ Exit(w) \/ Crash(w)
  PROVE  IInv'
  <1> USE AttemptPair, TokenNat, BoundsAssumption, TimeAssumption
  <1>1. /\ UNCHANGED <<jobState, attempts, leaseToken, leaseAge, retries, createdAt, lastWriter>>
        /\ \/ UNCHANGED <<host, armed, lost, sinceConfirmed>>
           \/ EndAll({a \in Attempt : host[a] = w})
    BY DEF Start, Stop, Exit, Crash, Dies, rowVars, runVars
  <1>2. TypeOK'
    <2>1. mode' \in [Workers -> {"up", "stopping", "down"}] /\ faults' \in 0..MaxFaults
      BY DEF IInv, TypeOK, Start, Stop, Exit, Crash, Dies
    <2> QED
      BY <1>1, <2>1 DEF IInv, TypeOK, EndAll
  <1>3. AttemptsBounded' /\ BudgetLeft' /\ TokenIsNewest' /\ WritersWereClaimed'
    BY <1>1 DEF IInv, AttemptsBounded, BudgetLeft, TokenIsNewest, WritersWereClaimed
  <1>4. RunsWereClaimed' /\ ArmedIsFresh'
    BY <1>1, WorkersAssumption
    DEF IInv, TypeOK, RunsWereClaimed, ArmedIsFresh, Live, Holds, EndAll
  <1> QED
    BY <1>2, <1>3, <1>4 DEF IInv

\* Time passes no further than MaxStall under an attempt about to write.
LEMMA TickInv ==
  ASSUME IInv, Tick
  PROVE  IInv'
  <1> USE AttemptPair, TokenNat, BoundsAssumption, TimeAssumption
  <1>1. TypeOK'
    BY OlderBounds DEF IInv, TypeOK, Tick, procVars
  <1>2. AttemptsBounded' /\ BudgetLeft' /\ TokenIsNewest' /\ WritersWereClaimed' /\ RunsWereClaimed'
    BY DEF IInv, AttemptsBounded, BudgetLeft, TokenIsNewest, WritersWereClaimed,
           RunsWereClaimed, Live, Tick
  <1>3. ArmedIsFresh'
    <2> SUFFICES ASSUME NEW b \in armed PROVE ArmedIsFresh!(b)'
      BY DEF ArmedIsFresh, Tick
    <2>1. /\ b \in Attempt /\ Live(b) /\ Holds(b) /\ sinceConfirmed[b] < MaxStall
          /\ leaseAge[b[1]] <= sinceConfirmed[b]
          /\ leaseAge[b[1]] \in 0..(Lease + 1) /\ sinceConfirmed[b] \in 0..(Lease + 1)
      BY DEF IInv, TypeOK, ArmedIsFresh, Tick
    <2>2. /\ sinceConfirmed'[b] = sinceConfirmed[b] + 1
          /\ leaseAge'[b[1]] = leaseAge[b[1]] + 1
      BY <2>1, OlderBounds DEF Tick, Holds
    <2> QED
      BY <2>1, <2>2 DEF Live, Holds, Tick
  <1> QED
    BY <1>1, <1>2, <1>3 DEF IInv

LEMMA StutterInv == IInv /\ UNCHANGED vars => IInv'
  BY DEF IInv, TypeOK, AttemptsBounded, TokenIsNewest, BudgetLeft, RunsWereClaimed,
         WritersWereClaimed, ArmedIsFresh, Live, Holds,
         vars, rowVars, runVars, procVars

LEMMA NextInv == IInv /\ [Next]_vars => IInv'
  BY RequestInv, ClaimInv, SweepInv, WorkingInv, EndingInv, ProcessInv, TickInv, StutterInv
  DEF Next, AttemptStep

-----------------------------------------------------------------------------
\* Every variable of the queue keeps its type: in particular no row is ever
\* claimed more often than there are tokens for.
THEOREM TypeCorrect == Spec => []TypeOK
  <1>1. IInv => TypeOK
    BY DEF IInv
  <1> QED
    BY InitInv, NextInv, <1>1, PTL DEF Spec

LEMMA Inductive == Spec => []IInv
  BY InitInv, NextInv, PTL DEF Spec

\* A write protected by assertHeld() is only performed by the lease holder, in
\* every process and however the steps of the processes interleave.
THEOREM HolderWrites == Spec => []OnlyHolderWrites
  <1>1. IInv => OnlyHolderWrites
    BY DEF IInv, ArmedIsFresh, OnlyHolderWrites
  <1> QED
    BY Inductive, <1>1, PTL

\* No job is claimed more than MAX_ATTEMPTS times, plus once per user retry.
THEOREM BoundedAttempts == Spec => []AttemptsBounded
  <1>1. IInv => AttemptsBounded
    BY DEF IInv
  <1> QED
    BY Inductive, <1>1, PTL

-----------------------------------------------------------------------------
\* Only Write changes lastWriter, to the newest token of the job, and no writer
\* is newer than the newest claim.
LEMMA WriteStep ==
  ASSUME IInv, NEW a \in Attempt, Write(a)
  PROVE  /\ jobState[a[1]] = "running"
         /\ a[2] = attempts[a[1]]
         /\ lastWriter[a[1]] <= a[2]
  BY AttemptPair DEF IInv, ArmedIsFresh, Holds, TokenIsNewest, WritersWereClaimed, Write

LEMMA OtherStepsDoNotWrite ==
  [Next]_vars => \/ UNCHANGED lastWriter
                 \/ \E a \in Attempt : Write(a)
  BY DEF Next, AttemptStep, Enqueue, Cancel, Retry, Prune, Claim, Sweep, Heartbeat,
         AssertHeld, Progress, Abort, Succeed, Fail, Start, Stop, Exit, Crash, Dies,
         Tick, vars

\* Writes are fenced: the token of the latest writer of a job never goes back.
THEOREM FencedWrites == Spec => WritesAreFenced
  <1>1. IInv /\ [Next]_vars => [\A j \in Jobs : lastWriter'[j] >= lastWriter[j]]_vars
    <2> SUFFICES ASSUME IInv, [Next]_vars, NEW j \in Jobs
                 PROVE  lastWriter'[j] >= lastWriter[j]
      OBVIOUS
    <2>1. lastWriter[j] \in Nat
      <3>1. lastWriter \in [Jobs -> {NoToken} \cup Token]
        BY DEF IInv, TypeOK
      <3>2. lastWriter[j] = 0 \/ lastWriter[j] \in Token
        BY <3>1
      <3> QED
        BY <3>2, TokenNat
    <2>2. CASE UNCHANGED lastWriter
      BY <2>1, <2>2
    <2>3. ASSUME NEW a \in Attempt, Write(a)
          PROVE  lastWriter'[j] >= lastWriter[j]
      <3>1. a[1] \in Jobs /\ a[2] \in Nat /\ lastWriter[a[1]] <= a[2]
        BY <2>3, WriteStep, AttemptPair, TokenNat
      <3>2. lastWriter' = [lastWriter EXCEPT ![a[1]] = a[2]]
        BY <2>3 DEF Write
      <3>3. lastWriter \in [Jobs -> {NoToken} \cup Token]
        BY DEF IInv, TypeOK
      <3> QED
        BY <2>1, <3>1, <3>2, <3>3
    <2> QED
      BY <2>2, <2>3, OtherStepsDoNotWrite
  <1> QED
    BY Inductive, <1>1, PTL DEF Spec, WritesAreFenced

\* The end of an attempt that lost its job changes no row.
THEOREM StaleAttemptsHarmless == Spec => StaleAttemptNeverSettles
  <1> DEFINE Harmless == \A a \in Attempt :
                           Live(a) /\ ~Live(a)' /\ ~Holds(a) => UNCHANGED rowVars
  <1>1. [Next]_vars /\ IInv => [Harmless]_vars
    <2> SUFFICES ASSUME IInv, [Next]_vars,
                        NEW a \in Attempt, Live(a), ~Live(a)', ~Holds(a)
                 PROVE  UNCHANGED rowVars
      OBVIOUS
    <2>1. ASSUME NEW j \in Jobs, Enqueue(j) \/ Cancel(j) \/ Retry(j) \/ Prune(j)
          PROVE  FALSE
      BY <2>1 DEF Enqueue, Cancel, Retry, Prune, runVars, Live
    <2>2. ASSUME NEW w \in Workers, NEW j \in Jobs, Claim(w, j)
          PROVE  FALSE
      BY <2>2, WorkersAssumption DEF Claim, Live, IInv, TypeOK
    <2>3. ASSUME NEW w \in Workers, Sweep(w) \/ Start(w) \/ Stop(w)
          PROVE  FALSE
      BY <2>3 DEF Sweep, Start, Stop, runVars, Live
    <2>4. ASSUME NEW w \in Workers, Exit(w) \/ Crash(w)
          PROVE  UNCHANGED rowVars
      BY <2>4 DEF Exit, Crash, Dies
    <2>5. ASSUME NEW b \in Attempt,
                 Heartbeat(b) \/ AssertHeld(b) \/ Write(b) \/ Progress(b)
          PROVE  FALSE
      BY <2>5 DEF Heartbeat, AssertHeld, Write, Progress, runVars, Live
    <2>6. ASSUME NEW b \in Attempt, Abort(b) \/ Succeed(b) \/ Fail(b)
          PROVE  UNCHANGED rowVars
      <3>1. b = a
        BY <2>6 DEF Abort, Succeed, Fail, End, EndAll, Live
      <3> QED
        BY <2>6, <3>1 DEF Abort, Succeed, Fail
    <2>7. CASE Tick
      BY <2>7 DEF Tick, Live
    <2>8. CASE UNCHANGED vars
      BY <2>8 DEF vars
    <2> QED
      BY <2>1, <2>2, <2>3, <2>4, <2>5, <2>6, <2>7, <2>8 DEF Next, AttemptStep
  <1> QED
    BY Inductive, <1>1, PTL DEF Spec, StaleAttemptNeverSettles

\* A lease that has not expired is taken from nobody: of all steps, only the
\* sweep takes one from an attempt that goes on, and only after its time.
THEOREM LeasesAreRespected == Spec => LeaseIsRespected
  <1> DEFINE Respected == \A a \in Attempt :
                Holds(a) /\ ~Holds(a)' => Expired(a[1]) \/ (Live(a) /\ ~Live(a)')
  <1>1. IInv /\ [Next]_vars => [Respected]_vars
    <2> SUFFICES ASSUME IInv, [Next]_vars,
                        NEW a \in Attempt, Holds(a), ~Holds(a)', ~Expired(a[1])
                 PROVE  Live(a) /\ ~Live(a)'
      OBVIOUS
    <2> USE AttemptPair DEF Holds
    <2>1. ASSUME NEW j \in Jobs, Enqueue(j) \/ Cancel(j) \/ Retry(j) \/ Prune(j)
          PROVE  FALSE
      <3>1. a[1] # j
        BY <2>1 DEF Enqueue, Cancel, Retry, Prune
      <3> QED
        BY <2>1, <3>1 DEF Enqueue, Cancel, Retry, Prune, IInv, TypeOK
    <2>2. ASSUME NEW w \in Workers, NEW j \in Jobs, Claim(w, j)
          PROVE  FALSE
      <3>1. a[1] # j
        BY <2>2 DEF Claim
      <3> QED
        BY <2>2, <3>1 DEF Claim, IInv, TypeOK
    <2>3. ASSUME NEW w \in Workers, Sweep(w)
          PROVE  FALSE
      BY <2>3 DEF Sweep
    <2>4. ASSUME NEW w \in Workers, Start(w) \/ Stop(w) \/ Exit(w) \/ Crash(w)
          PROVE  FALSE
      BY <2>4 DEF Start, Stop, Exit, Crash, Dies, rowVars
    <2>5. ASSUME NEW b \in Attempt,
                 Heartbeat(b) \/ AssertHeld(b) \/ Write(b) \/ Progress(b) \/ Abort(b)
          PROVE  FALSE
      BY <2>5 DEF Heartbeat, AssertHeld, Write, Progress, Abort, Extend, rowVars
    <2>6. ASSUME NEW b \in Attempt, Succeed(b) \/ Fail(b)
          PROVE  Live(a) /\ ~Live(a)'
      <3>1. Holds(b) /\ \E s \in {"done", "failed", "queued"} : Release(b[1], s)
        BY <2>6 DEF Succeed, Fail, rowVars
      <3>2. b[1] = a[1]
        BY <3>1 DEF Release, IInv, TypeOK
      <3>3. b = a
        BY <3>1, <3>2, HolderIsUnique
      <3> QED
        BY <2>6, <3>3 DEF Succeed, Fail, End, EndAll, Live
    <2>7. CASE Tick
      BY <2>7 DEF Tick
    <2>8. CASE UNCHANGED vars
      BY <2>8 DEF vars, rowVars
    <2> QED
      BY <2>1, <2>2, <2>3, <2>4, <2>5, <2>6, <2>7, <2>8 DEF Next, AttemptStep
  <1> QED
    BY Inductive, <1>1, PTL DEF Spec, LeaseIsRespected

-----------------------------------------------------------------------------
\* The steps of the queue, seen through the refinement mapping.
phaseMap == [j \in Jobs |-> PhaseOf(jobState[j])]

LEMMA PhaseValues ==
  /\ PhaseOf("absent") = "none" /\ PhaseOf("queued") = "pending"
  /\ PhaseOf("running") = "held" /\ PhaseOf("done") = "closed"
  /\ PhaseOf("failed") = "closed" /\ PhaseOf("cancelled") = "closed"
  /\ PhaseOf("pruned") = "closed"
  BY DEF PhaseOf

\* A row that changes state alone changes phase alone.
LEMMA OneRow ==
  ASSUME TypeOK, NEW j \in Jobs, NEW s, jobState' = [jobState EXCEPT ![j] = s]
  PROVE  phaseMap' = [phaseMap EXCEPT ![j] = PhaseOf(s)]
  BY DEF TypeOK, phaseMap

LEMMA LedgerInit == Init => Ledger!Init
  BY PhaseValues DEF Init, Ledger!Init

LEMMA LedgerRequest ==
  ASSUME IInv, NEW j \in Jobs, Enqueue(j) \/ Cancel(j) \/ Retry(j) \/ Prune(j)
  PROVE  Ledger!Submit(j) \/ Ledger!Withdraw(j) \/ Ledger!Reopen(j) \/ UNCHANGED Ledger!vars
  <1>1. CASE Enqueue(j)
    <2>1. phaseMap[j] = "none"
      BY <1>1, PhaseValues DEF Enqueue, phaseMap
    <2>2. phaseMap' = [phaseMap EXCEPT ![j] = "pending"]
      BY <1>1, OneRow, PhaseValues DEF Enqueue, IInv
    <2> QED
      BY <1>1, <2>1, <2>2 DEF Enqueue, phaseMap, Ledger!Submit, Ledger!Move
  <1>2. CASE Cancel(j)
    <2>1. phaseMap[j] = "pending"
      BY <1>2, PhaseValues DEF Cancel, phaseMap
    <2>2. phaseMap' = [phaseMap EXCEPT ![j] = "closed"]
      BY <1>2, OneRow, PhaseValues DEF Cancel, IInv
    <2> QED
      BY <1>2, <2>1, <2>2 DEF Cancel, phaseMap, Ledger!Withdraw, Ledger!Move
  <1>3. CASE Retry(j)
    <2>1. phaseMap[j] = "closed"
      BY <1>3, PhaseValues DEF Retry, phaseMap
    <2>2. phaseMap' = [phaseMap EXCEPT ![j] = "pending"]
      BY <1>3, OneRow, PhaseValues DEF Retry, IInv
    <2> QED
      BY <1>3, <2>1, <2>2 DEF Retry, phaseMap, Ledger!Reopen, Ledger!Move
  <1>4. CASE Prune(j)
    <2>1. phaseMap' = [phaseMap EXCEPT ![j] = "closed"]
      <3>1. TypeOK /\ jobState' = [jobState EXCEPT ![j] = "pruned"]
        BY <1>4 DEF Prune, IInv
      <3> QED
        BY <3>1, OneRow, PhaseValues
    <2>2. phaseMap[j] = "closed"
      BY <1>4, PhaseValues DEF Prune, phaseMap
    <2>3. phaseMap' = phaseMap
      BY <2>1, <2>2 DEF phaseMap
    <2> QED
      BY <1>4, <2>3 DEF Prune, Ledger!vars, phaseMap
  <1> QED
    BY <1>1, <1>2, <1>3, <1>4

LEMMA LedgerClaim ==
  ASSUME IInv, NEW w \in Workers, NEW j \in Jobs, Claim(w, j)
  PROVE  Ledger!Grant(j)
  <1>1. phaseMap[j] = "pending"
    BY PhaseValues DEF Claim, phaseMap
  <1>2. phaseMap' = [phaseMap EXCEPT ![j] = "held"]
    <2>1. TypeOK /\ jobState' = [jobState EXCEPT ![j] = "running"]
      BY DEF Claim, IInv
    <2> QED
      BY <2>1, OneRow, PhaseValues
  <1> QED
    BY <1>1, <1>2 DEF Claim, phaseMap, Ledger!Grant, Ledger!Move

\* The sweep settles the expired rows: those with attempts left go back.
LEMMA LedgerSweep ==
  ASSUME IInv, NEW w \in Workers, Sweep(w)
  PROVE  \E S \in SUBSET Jobs : Ledger!Settle(S)
  <1> DEFINE S == {j \in Jobs : jobState[j] = "running" /\ Expired(j)}
             B == {j \in S : attempts[j] < MaxAttempts}
  <1>1. \A j \in S : phaseMap[j] = "held"
    BY PhaseValues DEF phaseMap
  <1>2. phaseMap' = [j \in Jobs |-> IF j \in B THEN "pending"
                                    ELSE IF j \in S THEN "closed" ELSE phaseMap[j]]
    BY PhaseValues, TokenNat, BoundsAssumption DEF Sweep, phaseMap, IInv, TypeOK
  <1>3. Ledger!Settle(S)
    BY <1>1, <1>2 DEF Ledger!Settle, phaseMap, Sweep
  <1> QED
    BY <1>3

LEMMA LedgerAttempt ==
  ASSUME IInv, NEW a \in Attempt, AttemptStep(a)
  PROVE  \/ Ledger!Write(a[1])
         \/ Ledger!Settle({a[1]})
         \/ UNCHANGED Ledger!vars
  <1> USE AttemptPair
  <1>1. CASE Write(a)
    BY <1>1, WriteStep, PhaseValues DEF Write, Ledger!Write, rowVars
  <1>2. CASE Heartbeat(a) \/ AssertHeld(a) \/ Progress(a) \/ Abort(a)
    BY <1>2 DEF Heartbeat, AssertHeld, Progress, Abort, Extend, rowVars, Ledger!vars
  <1>3. ASSUME NEW s \in {"done", "failed", "queued"},
               Holds(a), Release(a[1], s), UNCHANGED lastWriter
        PROVE  Ledger!Settle({a[1]})
    <2> DEFINE j == a[1]
               B == IF s = "queued" THEN {j} ELSE {}
    <2>1. phaseMap[j] = "held"
      BY <1>3, PhaseValues DEF Holds, phaseMap
    <2>2. phaseMap' = [k \in Jobs |-> IF k \in B THEN "pending"
                                      ELSE IF k \in {j} THEN "closed" ELSE phaseMap[k]]
      BY <1>3, PhaseValues DEF Release, phaseMap, IInv, TypeOK
    <2>3. B \in SUBSET {j}
      OBVIOUS
    <2> HIDE DEF B
    <2> QED
      BY <1>3, <2>1, <2>2, <2>3 DEF Ledger!Settle, phaseMap, Release
  <1>4. CASE Succeed(a) \/ Fail(a)
    BY <1>3, <1>4 DEF Succeed, Fail, rowVars, Ledger!vars
  <1> QED
    BY <1>1, <1>2, <1>4 DEF AttemptStep

LEMMA LedgerOther ==
  ASSUME \/ \E w \in Workers : Start(w) \/ Stop(w) \/ Exit(w) \/ Crash(w)
         \/ Tick
         \/ UNCHANGED vars
  PROVE  UNCHANGED Ledger!vars
  BY DEF Start, Stop, Exit, Crash, Dies, Tick, vars, rowVars, Ledger!vars

\* The queue implements the ledger of exclusive grants: every step of every
\* process is a step of the ledger or leaves it alone.
THEOREM Refinement == Spec => ImplementsLedger
  <1>1. IInv /\ [Next]_vars => [Ledger!Next]_(Ledger!vars)
    <2> SUFFICES ASSUME IInv, [Next]_vars
                 PROVE  Ledger!Next \/ UNCHANGED Ledger!vars
      OBVIOUS
    <2>1. ASSUME NEW j \in Jobs, Enqueue(j) \/ Cancel(j) \/ Retry(j) \/ Prune(j)
          PROVE  Ledger!Next \/ UNCHANGED Ledger!vars
      BY <2>1, LedgerRequest DEF Ledger!Next
    <2>2. ASSUME NEW w \in Workers, NEW j \in Jobs, Claim(w, j)
          PROVE  Ledger!Next
      BY <2>2, LedgerClaim DEF Ledger!Next
    <2>3. ASSUME NEW w \in Workers, Sweep(w)
          PROVE  Ledger!Next
      BY <2>3, LedgerSweep DEF Ledger!Next
    <2>4. ASSUME NEW a \in Attempt, AttemptStep(a)
          PROVE  Ledger!Next \/ UNCHANGED Ledger!vars
      <3>1. a[1] \in Jobs
        BY AttemptPair
      <3> QED
        BY <2>4, <3>1, LedgerAttempt DEF Ledger!Next
    <2> QED
      BY <2>1, <2>2, <2>3, <2>4, LedgerOther DEF Next
  <1> QED
    BY Inductive, LedgerInit, <1>1, PTL DEF Spec, ImplementsLedger, Ledger!Spec
=============================================================================
