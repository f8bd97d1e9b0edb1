---------------------------- MODULE DerivedStore ----------------------------
(***************************************************************************)
(* The derived texts of one ebook (server/src/jobs/handlers.ts and          *)
(* server/src/context.ts).  Each attempt of an index job extracts into a    *)
(* directory of its own; a transaction points books.derived_rev at it; the  *)
(* directories that are not pointed at are first marked as retired in a     *)
(* sidecar registry and deleted by a sweep once the mark is older than a    *)
(* grace period.  Sweeps run right after a publication and, from a timer,   *)
(* shortly after the grace period.  Readers resolve the pointer first and   *)
(* open files later.                                                        *)
(*                                                                          *)
(* Time is counted in ticks, and ages stop at Grace.  A revision is the     *)
(* number of the attempt it belongs to; 0 is the layout older installs      *)
(* have, with the files directly in the book's directory.                   *)
(***************************************************************************)
EXTENDS Integers

CONSTANTS
    MaxRevs,        \* bound on the attempts at indexing the book
    Grace,          \* DERIVED_GC_GRACE_MS, in ticks
    MaxRequest,     \* how long a request may hold on to a resolved directory
    MaxExtraction,  \* how long the attempt that holds the job takes
    MaxFaults,      \* bound on the failures after extraction and the crashes
    MaxCuts,        \* bound on the crashes between a commit and its sweep
    Readers

ASSUME CountsAssumption ==
    /\ MaxRevs \in Nat /\ Grace \in Nat /\ MaxRequest \in Nat
    /\ MaxExtraction \in Nat /\ MaxFaults \in Nat /\ MaxCuts \in Nat
ASSUME RequestsAreShort == MaxRequest < Grace
ASSUME ExtractionsAreShort == MaxExtraction < Grace

VARIABLES
    active,     \* books.derived_rev
    dirs,       \* the directories that exist
    marks,      \* the registry: how long each has been marked as retired
    begun,      \* the attempts begun so far
    owner,      \* the attempt that holds the job's lease
    busy,       \* how long it has held it
    phase,      \* where each attempt has got to
    timers,     \* ticks until the scheduled sweep of each publication
    reader,     \* what each request has resolved, and how long ago
    faults, cuts

vars == <<active, dirs, marks, begun, owner, busy, phase, timers, reader,
          faults, cuts>>

Revs == 0..MaxRevs
Legacy == 0
NoOwner == 0
Unmarked == -1
NoTimer == -1
NoRev == -1

\* The attempt that holds the job is under way.
TypeOK ==
    /\ active \in Revs /\ dirs \subseteq Revs
    /\ marks \in [Revs -> {Unmarked} \cup 0..Grace]
    /\ begun \in Revs /\ owner \in Revs /\ busy \in 0..MaxExtraction
    /\ phase \in [Revs -> {"extracting", "extracted", "over"}]
    /\ timers \in [Revs -> {NoTimer} \cup 0..(Grace + 1)]
    /\ reader \in [Readers -> [rev : Revs \cup {NoRev}, age : 0..MaxRequest]]
    /\ faults \in 0..MaxFaults /\ cuts \in 0..MaxCuts
    /\ owner # NoOwner => phase[owner] # "over" /\ owner <= begun

Init ==
    /\ active = Legacy /\ dirs = {Legacy}
    /\ marks = [r \in Revs |-> Unmarked]
    /\ begun = 0 /\ owner = NoOwner /\ busy = 0
    /\ phase = [r \in Revs |-> "over"]
    /\ timers = [r \in Revs |-> NoTimer]
    /\ reader = [k \in Readers |-> [rev |-> NoRev, age |-> 0]]
    /\ faults = 0 /\ cuts = 0

-----------------------------------------------------------------------------
(* The sweep.                                                               *)

\* sweepDerivedVersions: what is not active and was marked long enough ago
\* goes, what is not marked yet is marked now, and all other marks are dropped.
Doomed(rev) == {r \in dirs \ {rev} : marks[r] = Grace}

SweptDirs(rev) == dirs \ Doomed(rev)

\* Seeded fault: a directory that became active again keeps its mark.
SweptMarksKeepActive(rev) ==
    [r \in Revs |->
        IF r \notin SweptDirs(rev) \/ (r = rev /\ marks[r] = Unmarked) THEN Unmarked
        ELSE IF marks[r] = Unmarked THEN 0 ELSE marks[r]]

SweptMarks(rev) ==
    [r \in Revs |->
        IF r \notin SweptDirs(rev) \ {rev} THEN Unmarked
        ELSE IF marks[r] = Unmarked THEN 0 ELSE marks[r]]

-----------------------------------------------------------------------------
(* The attempts of the index jobs of this book.                             *)

\* An index job is claimed; its attempt makes its own directory.
Begin ==
    /\ owner = NoOwner /\ begun < MaxRevs
    /\ begun' = begun + 1 /\ owner' = begun + 1 /\ busy' = 0
    /\ dirs' = dirs \cup {begun + 1}
    /\ phase' = [phase EXCEPT ![begun + 1] = "extracting"]
    /\ UNCHANGED <<active, marks, timers, reader, faults, cuts>>

\* The lease is lost: the attempt goes on until it looks.
LoseLease ==
    /\ owner # NoOwner
    /\ owner' = NoOwner
    /\ UNCHANGED <<active, dirs, marks, begun, busy, phase, timers, reader, faults, cuts>>

Extract(r) ==
    /\ phase[r] = "extracting"
    /\ phase' = [phase EXCEPT ![r] = "extracted"]
    /\ UNCHANGED <<active, dirs, marks, begun, owner, busy, timers, reader, faults, cuts>>

\* The file is broken, or assertOwnership threw half way: the attempt removes
\* its own directory, and no other.
FailExtraction(r) ==
    /\ phase[r] = "extracting"
    /\ dirs' = dirs \ {r}
    /\ phase' = [phase EXCEPT ![r] = "over"]
    /\ owner' = IF owner = r THEN NoOwner ELSE owner
    /\ UNCHANGED <<active, marks, begun, busy, timers, reader, faults, cuts>>

\* An attempt that finds its lease gone after extraction leaves its directory.
AbandonExtracted(r) ==
    /\ phase[r] = "extracted" /\ owner # r
    /\ phase' = [phase EXCEPT ![r] = "over"]
    /\ UNCHANGED <<active, dirs, marks, begun, owner, busy, timers, reader, faults, cuts>>

\* So does one that fails at its cover or its transaction.
FailLate(r) ==
    /\ phase[r] = "extracted" /\ owner = r /\ faults < MaxFaults
    /\ faults' = faults + 1
    /\ phase' = [phase EXCEPT ![r] = "over"]
    /\ owner' = NoOwner
    /\ UNCHANGED <<active, dirs, marks, begun, busy, timers, reader, cuts>>

\* Seeded fault: nothing sweeps again once the grace period is over.
PublishUnscheduled(r) ==
    /\ phase[r] = "extracted" /\ owner = r
    /\ active' = r
    /\ dirs' = SweptDirs(r) /\ marks' = SweptMarks(r)
    /\ phase' = [phase EXCEPT ![r] = "over"]
    /\ owner' = NoOwner
    /\ UNCHANGED <<begun, busy, timers, reader, faults, cuts>>

\* The pointer switch commits; in the same turn of the event loop the
\* directory is swept and a second sweep is scheduled.
Publish(r) ==
    /\ phase[r] = "extracted" /\ owner = r
    /\ active' = r
    /\ dirs' = SweptDirs(r) /\ marks' = SweptMarks(r)
    /\ timers' = [timers EXCEPT ![r] = Grace + 1]
    /\ phase' = [phase EXCEPT ![r] = "over"]
    /\ owner' = NoOwner
    /\ UNCHANGED <<begun, busy, reader, faults, cuts>>

AllOver == [r \in Revs |-> "over"]
NoTimers == [r \in Revs |-> NoTimer]

\* The process dies after the commit and before the sweep.
PublishAndDie(r) ==
    /\ phase[r] = "extracted" /\ owner = r /\ cuts < MaxCuts
    /\ cuts' = cuts + 1
    /\ active' = r
    /\ phase' = AllOver /\ timers' = NoTimers /\ owner' = NoOwner
    /\ UNCHANGED <<dirs, marks, begun, busy, reader, faults>>

\* The process dies at any other moment.
Crash ==
    /\ faults < MaxFaults
    /\ faults' = faults + 1
    /\ phase' = AllOver /\ timers' = NoTimers /\ owner' = NoOwner
    /\ UNCHANGED <<active, dirs, marks, begun, busy, reader, cuts>>

\* scheduleDerivedSweep: it asks the database which revision is active now.
TimedSweep(r) ==
    /\ timers[r] = 0
    /\ timers' = [timers EXCEPT ![r] = NoTimer]
    /\ dirs' = SweptDirs(active) /\ marks' = SweptMarks(active)
    /\ UNCHANGED <<active, begun, owner, busy, phase, reader, faults, cuts>>

-----------------------------------------------------------------------------
(* Requests, and time.                                                      *)

Resolve(k) ==
    /\ reader[k].rev = NoRev
    /\ reader' = [reader EXCEPT ![k] = [rev |-> active, age |-> 0]]
    /\ UNCHANGED <<active, dirs, marks, begun, owner, busy, phase, timers, faults, cuts>>

Answer(k) ==
    /\ reader[k].rev # NoRev
    /\ reader' = [reader EXCEPT ![k] = [rev |-> NoRev, age |-> 0]]
    /\ UNCHANGED <<active, dirs, marks, begun, owner, busy, phase, timers, faults, cuts>>

\* A request and an extraction end within their bounds.
Tick ==
    /\ owner # NoOwner => busy < MaxExtraction
    /\ \A k \in Readers : reader[k].rev # NoRev => reader[k].age < MaxRequest
    /\ busy' = IF owner = NoOwner THEN 0 ELSE busy + 1
    /\ marks' = [r \in Revs |-> IF marks[r] \in {Unmarked, Grace} THEN marks[r]
                                ELSE marks[r] + 1]
    /\ timers' = [r \in Revs |-> IF timers[r] \in {NoTimer, 0} THEN timers[r]
                                 ELSE timers[r] - 1]
    /\ reader' = [k \in Readers |-> IF reader[k].rev = NoRev THEN reader[k]
                                    ELSE [reader[k] EXCEPT !.age = @ + 1]]
    /\ UNCHANGED <<active, dirs, begun, owner, phase, faults, cuts>>

-----------------------------------------------------------------------------
AttemptStep(r) ==
    \/ Extract(r) \/ FailExtraction(r) \/ AbandonExtracted(r) \/ FailLate(r)
    \/ Publish(r) \/ PublishAndDie(r)

Next ==
    \/ Begin \/ LoseLease \/ Crash \/ Tick
    \/ \E r \in Revs : AttemptStep(r) \/ TimedSweep(r)
    \/ \E k \in Readers : Resolve(k) \/ Answer(k)

Spec == Init /\ [][Next]_vars

\* Attempts come to an end, timers fire, requests are answered, time passes.
Fairness ==
    /\ \A r \in Revs : WF_vars(AttemptStep(r)) /\ WF_vars(TimedSweep(r))
    /\ \A k \in Readers : WF_vars(Answer(k))
    /\ WF_vars(Tick)

FairSpec == Spec /\ Fairness

-----------------------------------------------------------------------------
(* Properties.                                                              *)

\* The directory books.derived_rev points at exists, whatever fails, overlaps
\* or crashes ("there is never a moment without a complete derived directory").
ActiveOnDisk == active \in dirs

\* The attempt that holds the job finds its own directory where it made it,
\* although sweeps of earlier publications go through the same root meanwhile.
OwnerKeepsItsDirectory == owner # NoOwner => owner \in dirs

\* A request finds the directory it resolved, however many publications and
\* sweeps came in between (the grace period's purpose).
GracePeriodKept == \A k \in Readers : reader[k].rev # NoRev => reader[k].rev \in dirs

\* That much holds until a process dies between a commit and its sweep.
ReadersAreSafe == cuts = 0 => GracePeriodKept

\* No sweep takes a directory somebody counts on: not the one that is served, not
\* the one the holder of the job extracts into, and not one a request has resolved.
DirectoriesStay == ActiveOnDisk /\ OwnerKeepsItsDirectory /\ ReadersAreSafe

\* The versions older than the served one are all deleted in the end, unless a
\* process died and took a timer with it ("the next successful re-index's sweep
\* finishes the job" then).
Outdated == {r \in dirs : r < active}
OldVersionsGo == Outdated # {} ~> (Outdated = {} \/ faults > 0 \/ cuts > 0)
=============================================================================
