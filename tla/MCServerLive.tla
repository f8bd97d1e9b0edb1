---------------------------- MODULE MCServerLive ----------------------------
(***************************************************************************)
(* What the queue and the library come to in the end.  They share no state *)
(* and are checked in one run: a behaviour is one of Library or of         *)
(* JobQueue, fair to that part, and the other one rests.                   *)
(***************************************************************************)
EXTENDS Library, TLC

CONSTANTS e1, a1,
          j1, j2, w1, k1, QueuedJobs, Workers, NoWorker, Keys, NoKey, Lanes,
          Lease, MaxStall, MaxAttempts, MaxRetries, MaxFaults

VARIABLES subject,
          jobState, attempts, leaseToken, leaseAge, retries, createdAt, host, armed, lost,
          sinceConfirmed, mode, faults, lastWriter

OneEach == <<e1, a1>>

\* Every ebook and audiobook tell the same work.
AllSimilar == Contents \X Contents

\* Two independent jobs of one lane, the second more urgent.
Queue == INSTANCE JobQueue WITH
    Jobs <- QueuedJobs,
    KeyOf <- (j1 :> NoKey) @@ (j2 :> k1),
    LaneOf <- [j \in QueuedJobs |-> "heavy"], Capacity <- [l \in Lanes |-> 1],
    Priority <- (j1 :> 0) @@ (j2 :> 1)

queueVars == <<jobState, attempts, leaseToken, leaseAge, retries, createdAt, host, armed, lost,
               sinceConfirmed, mode, faults, lastWriter>>

MCInit == subject \in {"library", "queue"} /\ Init /\ Queue!Init

MCNext ==
    /\ UNCHANGED subject
    /\ \/ subject = "library" /\ Next /\ UNCHANGED queueVars
       \/ subject = "queue" /\ Queue!Next /\ UNCHANGED vars

\* Library's and JobQueue's Fairness, each asked of its own behaviours.
OfLibrary(A) == subject = "library" /\ A
OfQueue(A) == subject = "queue" /\ A

MCFairness ==
    /\ WF_vars(OfLibrary(JobStep)) /\ WF_vars(OfLibrary(TimedScan))
    /\ WF_vars(OfLibrary(Remount))
    /\ WF_queueVars(OfQueue(Queue!Tick))
    /\ \A w \in Workers :
         /\ WF_queueVars(OfQueue(Queue!Sweep(w))) /\ WF_queueVars(OfQueue(Queue!Start(w)))
         /\ WF_queueVars(OfQueue(Queue!Exit(w)))
         /\ WF_queueVars(OfQueue(\E j \in QueuedJobs : Queue!Claim(w, j)))
    /\ \A a \in Queue!Attempt :
         /\ WF_queueVars(OfQueue(Queue!Write(a)))
         /\ SF_queueVars(OfQueue(Queue!Succeed(a) \/ Queue!Fail(a)))

MCSpec == MCInit /\ [][MCNext]_<<vars, queueVars, subject>> /\ MCFairness

\* JobQueue: every job settles.
EveryJobSettles == Queue!EveryJobSettles
=============================================================================
