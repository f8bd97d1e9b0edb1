---------------------------- MODULE Copies_proofs ----------------------------
(***************************************************************************)
(* Proofs about DerivedStore, for every number of attempts and readers and *)
(* every grace period longer than a request and an extraction, and about   *)
(* the instance of OfflineDownloads in MCCopies, for every number of tabs, *)
(* users and chunks.                                                       *)
(*                                                                         *)
(* DerivedStore.  A directory is deleted only once it has carried a mark   *)
(* for Grace ticks.  The owner's directory has been marked for no longer   *)
(* than the owner has held the job, a reader's for no longer than the      *)
(* reader has held it, and both are shorter than Grace.  The latter needs  *)
(* that the active directory carries no mark, which the sweep in the       *)
(* publishing turn establishes and a crash before that sweep does not.     *)
(*                                                                         *)
(* OfflineDownloads.  Stored says where a download can be and that there   *)
(* is one at a time; on it rest Tracked (what a download that is not cut   *)
(* off has stored so far is of its edition), Gone (what a purge has        *)
(* emptied, no download can fill) and Whole (until something is taken away *)
(* under a download, the record lists what the download lists).  The       *)
(* lemmas of the first half say, field by field, what an action writes.    *)
(***************************************************************************)
EXTENDS MCCopies, TLAPS

\* Attempts that have not begun have left no trace.
Untouched ==
    /\ active <= begun
    /\ phase[Legacy] = "over"
    /\ \A r \in Revs : r > begun => r \notin dirs /\ marks[r] = Unmarked /\ phase[r] = "over"

OwnerSafe == owner # NoOwner => owner \in dirs /\ marks[owner] <= busy

ActiveSafe == active \in dirs /\ phase[active] = "over"

ActiveUnmarked == cuts = 0 => marks[active] = Unmarked

ReaderSafe(k) ==
    reader[k].rev # NoRev =>
        /\ reader[k].rev \in dirs /\ phase[reader[k].rev] = "over"
        /\ reader[k].rev <= begun
        /\ reader[k].rev = active \/ marks[reader[k].rev] <= reader[k].age

Inv ==
    /\ TypeOK
    /\ Untouched
    /\ OwnerSafe
    /\ ActiveSafe
    /\ ActiveUnmarked
    /\ cuts = 0 => \A k \in Readers : ReaderSafe(k)

-----------------------------------------------------------------------------
\* The marks a sweep leaves are typed; they are at most 0 where there was none,
\* and unchanged elsewhere, or gone.
LEMMA SweepTyped ==
    ASSUME TypeOK, NEW rev \in Revs
    PROVE  /\ SweptDirs(rev) \subseteq dirs
           /\ SweptMarks(rev) \in [Revs -> {Unmarked} \cup 0..Grace]
           /\ SweptMarks(rev)[rev] = Unmarked
           /\ rev \in dirs => rev \in SweptDirs(rev)
           /\ \A r \in Revs : r \in dirs /\ marks[r] < Grace => r \in SweptDirs(rev)
           /\ \A r \in Revs : r \notin dirs => SweptMarks(rev)[r] = Unmarked
           /\ \A r \in Revs, n \in Nat : marks[r] <= n => SweptMarks(rev)[r] <= n
  BY CountsAssumption DEF TypeOK, SweptDirs, SweptMarks, Doomed, Revs, Unmarked

-----------------------------------------------------------------------------
LEMMA LegacyIsARev == Legacy \in Revs
  BY CountsAssumption DEF Legacy, Revs

THEOREM InitInv == Init => Inv
  BY CountsAssumption, RequestsAreShort, ExtractionsAreShort
  DEF Init, Inv, TypeOK, Untouched, OwnerSafe, ActiveSafe, ActiveUnmarked,
      ReaderSafe, Revs, Legacy, NoOwner, Unmarked, NoTimer, NoRev

\* A step that leaves the directories, the marks and the pointer alone, and
\* brings no attempt to life.
LEMMA QuietKeeps ==
    ASSUME Inv, TypeOK',
           UNCHANGED <<active, dirs, marks, begun, reader>>, cuts' = cuts,
           owner' = NoOwner \/ (owner' = owner /\ busy' = busy),
           \A r \in Revs : phase'[r] = phase[r] \/ phase'[r] = "over"
                           \/ (phase[r] = "extracting" /\ phase'[r] = "extracted")
    PROVE  Inv'
  BY LegacyIsARev DEF Inv, TypeOK, Untouched, OwnerSafe, ActiveSafe, ActiveUnmarked, ReaderSafe

\* A sweep for the revision that is active after the step.
LEMMA SweepKeeps ==
    ASSUME Inv, TypeOK', active' \in Revs, active' \in dirs, active' <= begun,
           phase'[active'] = "over",
           dirs' = SweptDirs(active'), marks' = SweptMarks(active'),
           UNCHANGED <<begun, reader, cuts, busy>>,
           owner' = NoOwner \/ owner' = owner,
           \A r \in Revs : phase'[r] = phase[r] \/ phase'[r] = "over"
    PROVE  Inv'
<1> USE CountsAssumption, RequestsAreShort, ExtractionsAreShort
<1>1. /\ dirs' \subseteq dirs
      /\ marks'[active'] = Unmarked
      /\ active' \in dirs'
      /\ \A r \in Revs : r \in dirs /\ marks[r] < Grace => r \in dirs'
      /\ \A r \in Revs : r \notin dirs => marks'[r] = Unmarked
      /\ \A r \in Revs, n \in Nat : marks[r] <= n => marks'[r] <= n
  BY SweepTyped DEF Inv
<1>2. Untouched'
  BY <1>1, LegacyIsARev DEF Inv, Untouched, TypeOK
<1>3. OwnerSafe'
  <2> SUFFICES ASSUME owner' # NoOwner PROVE owner' \in dirs' /\ marks'[owner'] <= busy'
    BY DEF OwnerSafe
  <2>1. owner' = owner /\ owner \in Revs /\ owner \in dirs /\ marks[owner] <= busy
        /\ busy \in 0..MaxExtraction /\ busy \in Nat
    BY DEF Inv, OwnerSafe, TypeOK
  <2>2. marks[owner] < Grace
    BY <2>1 DEF Inv, TypeOK, Unmarked
  <2> QED BY <1>1, <2>1, <2>2
<1>4. ActiveSafe' /\ ActiveUnmarked'
  BY <1>1 DEF ActiveSafe, ActiveUnmarked
<1>5. ASSUME cuts' = 0, NEW k \in Readers, reader'[k].rev # NoRev
      PROVE  ReaderSafe(k)'
  <2> DEFINE v == reader[k].rev
  <2>1. /\ v \in Revs /\ v \in dirs /\ phase[v] = "over" /\ v <= begun
        /\ v = active \/ marks[v] <= reader[k].age
        /\ reader[k].age \in 0..MaxRequest /\ marks[active] = Unmarked
        /\ marks[v] \in {Unmarked} \cup 0..Grace
    BY <1>5 DEF Inv, ReaderSafe, ActiveUnmarked, TypeOK
  <2>2. marks[v] <= reader[k].age /\ reader[k].age \in Nat
    BY <2>1 DEF Unmarked
  <2>3. marks[v] < Grace
    BY <2>1, <2>2 DEF Unmarked
  <2>4. v \in dirs' /\ marks'[v] <= reader[k].age
    BY <1>1, <2>1, <2>2, <2>3
  <2> QED BY <2>1, <2>4 DEF ReaderSafe
<1>6. ASSUME cuts' = 0, NEW k \in Readers PROVE ReaderSafe(k)'
  BY <1>5, <1>6 DEF ReaderSafe
<1> QED BY <1>2, <1>3, <1>4, <1>6 DEF Inv
-----------------------------------------------------------------------------
\* The type invariant is inductive together with the owner having begun.
LEMMA TypeStep == TypeOK /\ Untouched /\ [Next]_vars => TypeOK'
<1> SUFFICES ASSUME TypeOK, Untouched, [Next]_vars PROVE TypeOK'
  OBVIOUS
<1> USE CountsAssumption
<1>0. CASE UNCHANGED vars
  BY <1>0 DEF TypeOK, vars
<1>1. CASE Begin
  BY <1>1 DEF Begin, TypeOK, Revs, NoOwner
<1>2. CASE LoseLease
  BY <1>2 DEF LoseLease, TypeOK, Revs, NoOwner
<1>3. CASE Crash
  BY <1>3 DEF Crash, TypeOK, Revs, NoOwner, AllOver, NoTimers, NoTimer
<1>4. CASE Tick
  <2>1. busy' \in 0..MaxExtraction
    BY <1>4 DEF Tick, TypeOK
  <2>2. marks' \in [Revs -> {Unmarked} \cup 0..Grace]
    <3>1. ASSUME NEW r \in Revs PROVE marks'[r] \in {Unmarked} \cup 0..Grace
      <4>1. CASE marks[r] \in {Unmarked, Grace}
        BY <1>4, <4>1 DEF Tick, TypeOK
      <4>2. CASE marks[r] \in 0..Grace /\ marks[r] # Grace /\ marks[r] # Unmarked
        BY <1>4, <4>2 DEF Tick
      <4> QED BY <4>1, <4>2 DEF TypeOK
    <3> QED BY <1>4, <3>1 DEF Tick
  <2>3. timers' \in [Revs -> {NoTimer} \cup 0..(Grace + 1)]
    BY <1>4 DEF Tick, TypeOK, NoTimer
  <2>4. reader' \in [Readers -> [rev : Revs \cup {NoRev}, age : 0..MaxRequest]]
    BY <1>4 DEF Tick, TypeOK
  <2> QED BY <1>4, <2>1, <2>2, <2>3, <2>4 DEF Tick, TypeOK
<1>5. ASSUME NEW r \in Revs, AttemptStep(r) PROVE TypeOK'
  <2>1. CASE Extract(r)
    BY <2>1 DEF Extract, TypeOK
  <2>2. CASE FailExtraction(r)
    BY <2>2 DEF FailExtraction, TypeOK, Revs, NoOwner
  <2>3. CASE AbandonExtracted(r)
    BY <2>3 DEF AbandonExtracted, TypeOK
  <2>4. CASE FailLate(r)
    BY <2>4 DEF FailLate, TypeOK, Revs, NoOwner
  <2>5. CASE Publish(r)
    <3>1. dirs' \subseteq Revs /\ marks' \in [Revs -> {Unmarked} \cup 0..Grace]
      BY <2>5, SweepTyped DEF Publish, TypeOK
    <3> QED BY <2>5, <3>1 DEF Publish, TypeOK, Revs, NoOwner
  <2>6. CASE PublishAndDie(r)
    BY <2>6 DEF PublishAndDie, TypeOK, Revs, NoOwner, AllOver, NoTimers, NoTimer
  <2> QED BY <1>5, <2>1, <2>2, <2>3, <2>4, <2>5, <2>6 DEF AttemptStep
<1>6. ASSUME NEW r \in Revs, TimedSweep(r) PROVE TypeOK'
  <2>1. active \in Revs
    BY DEF TypeOK
  <2>2. dirs' \subseteq Revs /\ marks' \in [Revs -> {Unmarked} \cup 0..Grace]
    BY <1>6, <2>1, SweepTyped DEF TimedSweep, TypeOK
  <2> QED BY <1>6, <2>2 DEF TimedSweep, TypeOK, NoTimer
<1>7. ASSUME NEW k \in Readers, Resolve(k) \/ Answer(k) PROVE TypeOK'
  BY <1>7, RequestsAreShort DEF Resolve, Answer, TypeOK, NoRev
<1> QED BY <1>0, <1>1, <1>2, <1>3, <1>4, <1>5, <1>6, <1>7 DEF Next

\* Every step preserves the invariant.
THEOREM StepInv == Inv /\ [Next]_vars => Inv'
<1> SUFFICES ASSUME Inv, [Next]_vars PROVE Inv'
  OBVIOUS
<1> USE CountsAssumption, RequestsAreShort, ExtractionsAreShort
<1>t. TypeOK'
  BY TypeStep DEF Inv
<1>0. CASE UNCHANGED vars
  BY <1>0, <1>t, QuietKeeps DEF vars
<1>1. CASE Begin
  <2>1. begun + 1 \in Revs /\ marks[begun + 1] = Unmarked /\ active # begun + 1
    BY <1>1 DEF Begin, Inv, Untouched, TypeOK, Revs
  <2>2. Untouched' /\ ActiveSafe' /\ ActiveUnmarked'
    BY <1>1, <2>1, LegacyIsARev
    DEF Begin, Inv, Untouched, TypeOK, Revs, ActiveSafe, ActiveUnmarked, Legacy
  <2>3. OwnerSafe'
    BY <1>1, <2>1 DEF Begin, OwnerSafe, Unmarked
  <2>4. ASSUME cuts' = 0, NEW k \in Readers PROVE ReaderSafe(k)'
    BY <1>1, <2>1, <2>4 DEF Begin, Inv, ReaderSafe, TypeOK, Revs, NoRev
  <2> QED BY <1>t, <2>2, <2>3, <2>4 DEF Inv
<1>2. CASE LoseLease
  BY <1>2, <1>t, QuietKeeps DEF LoseLease
<1>3. CASE Crash
  BY <1>3, <1>t, QuietKeeps DEF Crash, AllOver
<1>4. CASE Tick
  <2>1. \A r \in Revs, n \in Nat : marks[r] <= n => marks'[r] <= n + 1
    BY <1>4 DEF Tick, Inv, TypeOK, Unmarked
  <2>2. \A r \in Revs : marks[r] = Unmarked => marks'[r] = Unmarked
    BY <1>4 DEF Tick
  <2>3. Untouched' /\ ActiveSafe' /\ ActiveUnmarked'
    BY <1>4, <2>2 DEF Tick, Inv, Untouched, ActiveSafe, ActiveUnmarked, TypeOK
  <2>4. OwnerSafe'
    BY <1>4, <2>1 DEF Tick, Inv, OwnerSafe, TypeOK
  <2>5. ASSUME cuts' = 0, NEW k \in Readers PROVE ReaderSafe(k)'
    BY <1>4, <2>1, <2>5 DEF Tick, Inv, ReaderSafe, TypeOK
  <2> QED BY <1>t, <2>3, <2>4, <2>5 DEF Inv
<1>5. ASSUME NEW r \in Revs, AttemptStep(r) PROVE Inv'
  <2>1. CASE Extract(r)
    BY <2>1, <1>t, QuietKeeps DEF Extract, Inv, TypeOK
  <2>2. CASE FailExtraction(r)
    <3>1. active # r /\ phase'[active] = "over"
      BY <2>2 DEF FailExtraction, Inv, ActiveSafe, TypeOK
    <3>2. Untouched' /\ ActiveSafe' /\ ActiveUnmarked'
      BY <2>2, <3>1 DEF FailExtraction, Inv, Untouched, ActiveSafe, ActiveUnmarked, TypeOK
    <3>3. OwnerSafe'
      BY <2>2 DEF FailExtraction, Inv, OwnerSafe
    <3>4. ASSUME cuts' = 0, NEW k \in Readers PROVE ReaderSafe(k)'
      BY <2>2, <3>4 DEF FailExtraction, Inv, ReaderSafe, TypeOK, NoRev
    <3> QED BY <1>t, <3>2, <3>3, <3>4 DEF Inv
  <2>3. CASE AbandonExtracted(r)
    BY <2>3, <1>t, QuietKeeps DEF AbandonExtracted, Inv, TypeOK
  <2>4. CASE FailLate(r)
    BY <2>4, <1>t, QuietKeeps DEF FailLate, Inv, TypeOK
  <2>5. CASE Publish(r)
    <3>1. owner # NoOwner
      BY <2>5 DEF Publish, Inv, Untouched, NoOwner, Legacy
    <3>2. r \in dirs /\ r <= begun
      BY <2>5, <3>1 DEF Publish, Inv, OwnerSafe, TypeOK
    <3> QED BY <2>5, <3>2, <1>t, SweepKeeps DEF Publish, Inv, TypeOK
  <2>6. CASE PublishAndDie(r)
    <3>1. owner # NoOwner
      BY <2>6 DEF PublishAndDie, Inv, Untouched, NoOwner, Legacy
    <3>2. r \in dirs /\ r <= begun /\ cuts' # 0
      BY <2>6, <3>1 DEF PublishAndDie, Inv, OwnerSafe, TypeOK
    <3> QED BY <2>6, <3>2, <1>t, LegacyIsARev
        DEF PublishAndDie, AllOver, Inv, Untouched, OwnerSafe, ActiveSafe, ActiveUnmarked
  <2> QED BY <1>5, <2>1, <2>2, <2>3, <2>4, <2>5, <2>6 DEF AttemptStep
<1>6. ASSUME NEW r \in Revs, TimedSweep(r) PROVE Inv'
  BY <1>6, <1>t, SweepKeeps DEF TimedSweep, Inv, ActiveSafe, Untouched, TypeOK
<1>7. ASSUME NEW k \in Readers, Resolve(k) \/ Answer(k) PROVE Inv'
  <2>1. Untouched' /\ OwnerSafe' /\ ActiveSafe' /\ ActiveUnmarked'
    BY <1>7 DEF Resolve, Answer, Inv, Untouched, OwnerSafe, ActiveSafe, ActiveUnmarked
  <2>2. ASSUME cuts' = 0, NEW j \in Readers PROVE ReaderSafe(j)'
    BY <1>7, <2>2 DEF Resolve, Answer, Inv, ReaderSafe, ActiveSafe, Untouched, TypeOK, NoRev
  <2> QED BY <1>t, <2>1, <2>2 DEF Inv
<1> QED BY <1>0, <1>1, <1>2, <1>3, <1>4, <1>5, <1>6, <1>7 DEF Next

\* The invariant of the store.
THEOREM Invariance == Spec => []Inv
  BY InitInv, StepInv, PTL DEF Spec

\* Every variable keeps its type, and the attempt that holds the job is under way.
THEOREM TypeCorrect == Spec => []TypeOK
<1>1. Inv => TypeOK
  BY DEF Inv
<1> QED BY <1>1, Invariance, PTL

\* Whatever fails, overlaps or crashes: the revision the database points at has its
\* directory, so has the attempt that holds the job, and so has, until a crash falls
\* between a commit and its sweep, every request that resolved one.
THEOREM DirectoriesAreKept == Spec => []DirectoriesStay
<1>1. Inv => ActiveOnDisk
  BY DEF Inv, ActiveSafe, ActiveOnDisk
<1>2. Inv => OwnerKeepsItsDirectory
  BY DEF Inv, OwnerSafe, OwnerKeepsItsDirectory
<1>3. Inv => ReadersAreSafe
  BY DEF Inv, ReaderSafe, ReadersAreSafe, GracePeriodKept
<1>4. Inv => DirectoriesStay
  BY <1>1, <1>2, <1>3 DEF DirectoriesStay
<1> QED BY <1>4, Invariance, PTL

-----------------------------------------------------------------------------
Copies == [stamp : Users \cup {Nobody}, chunk : [1..Chunks -> {0} \cup Downloads!Editions],
           meta : {0} \cup Downloads!Editions, partial : {0} \cup Downloads!Editions,
           detail : BOOLEAN, whose : SUBSET Users]
PageStates == [signed : BOOLEAN, purge : {"none", "waiting", "settled", "clearing", "outrun"},
               mail : SUBSET {"unauthorized", "purged"},
               removing : {"no", "entries", "record"}]
Steps == {"idle", "registering", "asking", "refused", "listing", "opening",
          "track", "wiping", "chunk", "storing", "detail", "finishing"}
Attempts == [at : Steps, next : 1..(Chunks + 1), ed : {0} \cup Downloads!Editions, listed : BOOLEAN,
             aborted : BOOLEAN, dead : BOOLEAN, attached : BOOLEAN,
             by : Users \cup {Nobody}]
Looks == [status : {"interrupted", "cancelled"}, listed : BOOLEAN]


\* Where a download has got to, what is true of it and of its tab.
Staged(t) ==
    /\ dl[t].at \in {"idle", "registering", "asking", "refused", "listing", "opening"} =>
          ~dl[t].attached /\ dl[t].next = 1
    /\ dl[t].at \notin {"idle", "registering", "asking", "refused"} => dl[t].ed \in Downloads!Editions
    /\ dl[t].at \in {"opening", "track", "wiping", "chunk", "storing", "detail", "finishing"} =>
          dl[t].listed
    /\ dl[t].at = "storing" => dl[t].by \in Users /\ dl[t].next <= Chunks
    /\ dl[t].dead => dl[t].at = "registering"
    /\ page[t].purge = "settled" /\ Downloads!Running(t) => dl[t].at = "registering"
    /\ page[t].purge = "clearing" /\ Downloads!Running(t) => dl[t].dead
    /\ Downloads!Running(t) => ~Downloads!Is("done")

Stages == \A t \in Tabs : Staged(t)

\* The book's lock.
OneRuns == \A s, t \in Tabs : Downloads!Running(s) /\ Downloads!Running(t) => s = t

Stored == Downloads!TypeOK /\ Stages /\ OneRuns

-----------------------------------------------------------------------------
(* What a step writes, field by field.                                      *)

\* Tab t's download becomes this one, and no other changes.
Becomes(t, at, next, ed, listed, aborted, dead, attached, by) ==
    /\ dl' \in [Tabs -> Attempts]
    /\ \A o \in Tabs : o # t => dl'[o] = dl[o]
    /\ dl'[t].at = at /\ dl'[t].next = next /\ dl'[t].ed = ed /\ dl'[t].listed = listed
    /\ dl'[t].aborted = aborted /\ dl'[t].dead = dead /\ dl'[t].attached = attached
    /\ dl'[t].by = by

Frees(t) == Becomes(t, "idle", 1, 0, FALSE, FALSE, FALSE, FALSE, Nobody)

\* Tab t's page becomes this one, and no other changes.
Turns(t, signed, purge, mail, removing) ==
    /\ page' \in [Tabs -> PageStates]
    /\ \A o \in Tabs : o # t => page'[o] = page[o]
    /\ page'[t].signed = signed /\ page'[t].purge = purge /\ page'[t].mail = mail
    /\ page'[t].removing = removing

\* And the cache.
Reads(c, stamp, chunk, meta, partial, detail, whose) ==
    /\ c \in Copies
    /\ c.stamp = stamp /\ c.chunk = chunk /\ c.meta = meta
    /\ c.partial = partial /\ c.detail = detail /\ c.whose = whose

Holds(stamp, chunk, meta, partial, detail, whose) ==
    Reads(cache', stamp, chunk, meta, partial, detail, whose)

LEMMA DlTyped == Downloads!TypeOK <=> Downloads!TypeOK /\ dl \in [Tabs -> Attempts] /\ page \in [Tabs -> PageStates]
                                   /\ cache \in Copies /\ look \in [Tabs -> Looks \cup {NoRecord}]
BY DEF Downloads!TypeOK, Attempts, Steps, PageStates, Copies, Looks

LEMMA Rewritten ==
    ASSUME Downloads!TypeOK, NEW t \in Tabs, NEW r \in Attempts, dl' = [dl EXCEPT ![t] = r]
    PROVE  Becomes(t, r.at, r.next, r.ed, r.listed, r.aborted, r.dead, r.attached, r.by)
BY DlTyped DEF Becomes

LEMMA Turned ==
    ASSUME Downloads!TypeOK, NEW t \in Tabs, NEW r \in PageStates, page' = [page EXCEPT ![t] = r]
    PROVE  Turns(t, r.signed, r.purge, r.mail, r.removing)
BY DlTyped DEF Turns

LEMMA IdleIs ==
    LET i == Downloads!Idle
    IN  /\ i \in Attempts /\ i.at = "idle" /\ i.next = 1 /\ i.ed = 0 /\ i.by = Nobody
        /\ i.listed = FALSE /\ i.aborted = FALSE /\ i.dead = FALSE /\ i.attached = FALSE
BY CopyAssumption DEF CopyParameters, Downloads!Idle, Attempts, Steps

LEMMA AtWritten ==
    ASSUME Downloads!TypeOK, NEW t \in Tabs, NEW at \in Steps,
           dl' = [dl EXCEPT ![t] = [dl[t] EXCEPT !.at = at]]
    PROVE  Becomes(t, at, dl[t].next, dl[t].ed, dl[t].listed, dl[t].aborted, dl[t].dead,
                   dl[t].attached, dl[t].by)
<1>1. PICK d \in Attempts : d = dl[t]
  BY DlTyped
<1> DEFINE r == [d EXCEPT !.at = at]
<1>2. dl' = [dl EXCEPT ![t] = r]
  BY <1>1
<1>3. r.at = at /\ r.next = d.next /\ r.ed = d.ed /\ r.listed = d.listed
      /\ r.aborted = d.aborted /\ r.dead = d.dead /\ r.attached = d.attached /\ r.by = d.by
  BY <1>1 DEF Attempts
<1>4. r \in Attempts
  BY <1>1 DEF Attempts
<1> HIDE DEF r
<1>5. Becomes(t, r.at, r.next, r.ed, r.listed, r.aborted, r.dead, r.attached, r.by)
  BY <1>2, <1>4, Rewritten
<1> QED BY <1>1, <1>3, <1>5

LEMMA AtEdWritten ==
    ASSUME Downloads!TypeOK, NEW t \in Tabs, NEW at \in Steps,
           NEW ed \in {0} \cup Downloads!Editions,
           dl' = [dl EXCEPT ![t] = [dl[t] EXCEPT !.at = at, !.ed = ed]]
    PROVE  Becomes(t, at, dl[t].next, ed, dl[t].listed, dl[t].aborted, dl[t].dead, dl[t].attached,
                   dl[t].by)
<1>1. PICK d \in Attempts : d = dl[t]
  BY DlTyped
<1> DEFINE r == [d EXCEPT !.at = at, !.ed = ed]
<1>2. dl' = [dl EXCEPT ![t] = r]
  BY <1>1
<1>3. r.at = at /\ r.next = d.next /\ r.ed = ed /\ r.listed = d.listed /\ r.aborted = d.aborted
      /\ r.dead = d.dead /\ r.attached = d.attached /\ r.by = d.by
  BY <1>1 DEF Attempts
<1>4. r \in Attempts
  BY <1>1 DEF Attempts
<1> HIDE DEF r
<1>5. Becomes(t, r.at, r.next, r.ed, r.listed, r.aborted, r.dead, r.attached, r.by)
  BY <1>2, <1>4, Rewritten
<1> QED BY <1>1, <1>3, <1>5

LEMMA AtAbortedWritten ==
    ASSUME Downloads!TypeOK, NEW t \in Tabs, NEW at \in Steps, NEW aborted \in BOOLEAN,
           dl' = [dl EXCEPT ![t] = [dl[t] EXCEPT !.at = at, !.aborted = aborted]]
    PROVE  Becomes(t, at, dl[t].next, dl[t].ed, dl[t].listed, aborted, dl[t].dead, dl[t].attached,
                   dl[t].by)
<1>1. PICK d \in Attempts : d = dl[t]
  BY DlTyped
<1> DEFINE r == [d EXCEPT !.at = at, !.aborted = aborted]
<1>2. dl' = [dl EXCEPT ![t] = r]
  BY <1>1
<1>3. r.at = at /\ r.next = d.next /\ r.ed = d.ed /\ r.listed = d.listed /\ r.aborted = aborted
      /\ r.dead = d.dead /\ r.attached = d.attached /\ r.by = d.by
  BY <1>1 DEF Attempts
<1>4. r \in Attempts
  BY <1>1 DEF Attempts
<1> HIDE DEF r
<1>5. Becomes(t, r.at, r.next, r.ed, r.listed, r.aborted, r.dead, r.attached, r.by)
  BY <1>2, <1>4, Rewritten
<1> QED BY <1>1, <1>3, <1>5

LEMMA AtListedWritten ==
    ASSUME Downloads!TypeOK, NEW t \in Tabs, NEW at \in Steps, NEW listed \in BOOLEAN,
           dl' = [dl EXCEPT ![t] = [dl[t] EXCEPT !.at = at, !.listed = listed]]
    PROVE  Becomes(t, at, dl[t].next, dl[t].ed, listed, dl[t].aborted, dl[t].dead, dl[t].attached,
                   dl[t].by)
<1>1. PICK d \in Attempts : d = dl[t]
  BY DlTyped
<1> DEFINE r == [d EXCEPT !.at = at, !.listed = listed]
<1>2. dl' = [dl EXCEPT ![t] = r]
  BY <1>1
<1>3. r.at = at /\ r.next = d.next /\ r.ed = d.ed /\ r.listed = listed /\ r.aborted = d.aborted
      /\ r.dead = d.dead /\ r.attached = d.attached /\ r.by = d.by
  BY <1>1 DEF Attempts
<1>4. r \in Attempts
  BY <1>1 DEF Attempts
<1> HIDE DEF r
<1>5. Becomes(t, r.at, r.next, r.ed, r.listed, r.aborted, r.dead, r.attached, r.by)
  BY <1>2, <1>4, Rewritten
<1> QED BY <1>1, <1>3, <1>5

LEMMA AtAttachedWritten ==
    ASSUME Downloads!TypeOK, NEW t \in Tabs, NEW at \in Steps, NEW attached \in BOOLEAN,
           dl' = [dl EXCEPT ![t] = [dl[t] EXCEPT !.at = at, !.attached = attached]]
    PROVE  Becomes(t, at, dl[t].next, dl[t].ed, dl[t].listed, dl[t].aborted, dl[t].dead, attached,
                   dl[t].by)
<1>1. PICK d \in Attempts : d = dl[t]
  BY DlTyped
<1> DEFINE r == [d EXCEPT !.at = at, !.attached = attached]
<1>2. dl' = [dl EXCEPT ![t] = r]
  BY <1>1
<1>3. r.at = at /\ r.next = d.next /\ r.ed = d.ed /\ r.listed = d.listed
      /\ r.aborted = d.aborted /\ r.dead = d.dead /\ r.attached = attached /\ r.by = d.by
  BY <1>1 DEF Attempts
<1>4. r \in Attempts
  BY <1>1 DEF Attempts
<1> HIDE DEF r
<1>5. Becomes(t, r.at, r.next, r.ed, r.listed, r.aborted, r.dead, r.attached, r.by)
  BY <1>2, <1>4, Rewritten
<1> QED BY <1>1, <1>3, <1>5

LEMMA NextWritten ==
    ASSUME Downloads!TypeOK, NEW t \in Tabs, NEW next \in 1..(Chunks + 1),
           dl' = [dl EXCEPT ![t] = [dl[t] EXCEPT !.next = next]]
    PROVE  Becomes(t, dl[t].at, next, dl[t].ed, dl[t].listed, dl[t].aborted, dl[t].dead,
                   dl[t].attached, dl[t].by)
<1>1. PICK d \in Attempts : d = dl[t]
  BY DlTyped
<1> DEFINE r == [d EXCEPT !.next = next]
<1>2. dl' = [dl EXCEPT ![t] = r]
  BY <1>1
<1>3. r.at = d.at /\ r.next = next /\ r.ed = d.ed /\ r.listed = d.listed
      /\ r.aborted = d.aborted /\ r.dead = d.dead /\ r.attached = d.attached /\ r.by = d.by
  BY <1>1 DEF Attempts
<1>4. r \in Attempts
  BY <1>1 DEF Attempts
<1> HIDE DEF r
<1>5. Becomes(t, r.at, r.next, r.ed, r.listed, r.aborted, r.dead, r.attached, r.by)
  BY <1>2, <1>4, Rewritten
<1> QED BY <1>1, <1>3, <1>5

LEMMA AtByWritten ==
    ASSUME Downloads!TypeOK, NEW t \in Tabs, NEW at \in Steps, NEW by \in Users \cup {Nobody},
           dl' = [dl EXCEPT ![t] = [dl[t] EXCEPT !.at = at, !.by = by]]
    PROVE  Becomes(t, at, dl[t].next, dl[t].ed, dl[t].listed, dl[t].aborted, dl[t].dead,
                   dl[t].attached, by)
<1>1. PICK d \in Attempts : d = dl[t]
  BY DlTyped
<1> DEFINE r == [d EXCEPT !.at = at, !.by = by]
<1>2. dl' = [dl EXCEPT ![t] = r]
  BY <1>1
<1>3. r.at = at /\ r.next = d.next /\ r.ed = d.ed /\ r.listed = d.listed
      /\ r.aborted = d.aborted /\ r.dead = d.dead /\ r.attached = d.attached /\ r.by = by
  BY <1>1 DEF Attempts
<1>4. r \in Attempts
  BY <1>1 DEF Attempts
<1> HIDE DEF r
<1>5. Becomes(t, r.at, r.next, r.ed, r.listed, r.aborted, r.dead, r.attached, r.by)
  BY <1>2, <1>4, Rewritten
<1> QED BY <1>1, <1>3, <1>5

LEMMA AtNextByWritten ==
    ASSUME Downloads!TypeOK, NEW t \in Tabs, NEW at \in Steps, NEW next \in 1..(Chunks + 1),
           NEW by \in Users \cup {Nobody},
           dl' = [dl EXCEPT ![t] = [dl[t] EXCEPT !.at = at, !.next = next, !.by = by]]
    PROVE  Becomes(t, at, next, dl[t].ed, dl[t].listed, dl[t].aborted, dl[t].dead, dl[t].attached,
                   by)
<1>1. PICK d \in Attempts : d = dl[t]
  BY DlTyped
<1> DEFINE r == [d EXCEPT !.at = at, !.next = next, !.by = by]
<1>2. dl' = [dl EXCEPT ![t] = r]
  BY <1>1
<1>3. r.at = at /\ r.next = next /\ r.ed = d.ed /\ r.listed = d.listed /\ r.aborted = d.aborted
      /\ r.dead = d.dead /\ r.attached = d.attached /\ r.by = by
  BY <1>1 DEF Attempts
<1>4. r \in Attempts
  BY <1>1 DEF Attempts
<1> HIDE DEF r
<1>5. Becomes(t, r.at, r.next, r.ed, r.listed, r.aborted, r.dead, r.attached, r.by)
  BY <1>2, <1>4, Rewritten
<1> QED BY <1>1, <1>3, <1>5

LEMMA AbortedWritten ==
    ASSUME Downloads!TypeOK, NEW t \in Tabs, NEW aborted \in BOOLEAN,
           dl' = [dl EXCEPT ![t] = [dl[t] EXCEPT !.aborted = aborted]]
    PROVE  Becomes(t, dl[t].at, dl[t].next, dl[t].ed, dl[t].listed, aborted, dl[t].dead,
                   dl[t].attached, dl[t].by)
<1>1. PICK d \in Attempts : d = dl[t]
  BY DlTyped
<1> DEFINE r == [d EXCEPT !.aborted = aborted]
<1>2. dl' = [dl EXCEPT ![t] = r]
  BY <1>1
<1>3. r.at = d.at /\ r.next = d.next /\ r.ed = d.ed /\ r.listed = d.listed
      /\ r.aborted = aborted /\ r.dead = d.dead /\ r.attached = d.attached /\ r.by = d.by
  BY <1>1 DEF Attempts
<1>4. r \in Attempts
  BY <1>1 DEF Attempts
<1> HIDE DEF r
<1>5. Becomes(t, r.at, r.next, r.ed, r.listed, r.aborted, r.dead, r.attached, r.by)
  BY <1>2, <1>4, Rewritten
<1> QED BY <1>1, <1>3, <1>5

LEMMA PurgeWritten ==
    ASSUME Downloads!TypeOK, NEW t \in Tabs, NEW purge \in {"none", "waiting", "settled",
           "clearing", "outrun"},
           page' = [page EXCEPT ![t] = [page[t] EXCEPT !.purge = purge]]
    PROVE  Turns(t, page[t].signed, purge, page[t].mail, page[t].removing)
<1>1. PICK d \in PageStates : d = page[t]
  BY DlTyped
<1> DEFINE r == [d EXCEPT !.purge = purge]
<1>2. page' = [page EXCEPT ![t] = r]
  BY <1>1
<1>3. r.signed = d.signed /\ r.purge = purge /\ r.mail = d.mail /\ r.removing = d.removing
  BY <1>1 DEF PageStates
<1>4. r \in PageStates
  BY <1>1 DEF PageStates
<1> HIDE DEF r
<1>5. Turns(t, r.signed, r.purge, r.mail, r.removing)
  BY <1>2, <1>4, Turned
<1> QED BY <1>1, <1>3, <1>5

LEMMA SignedWritten ==
    ASSUME Downloads!TypeOK, NEW t \in Tabs, NEW signed \in BOOLEAN,
           page' = [page EXCEPT ![t] = [page[t] EXCEPT !.signed = signed]]
    PROVE  Turns(t, signed, page[t].purge, page[t].mail, page[t].removing)
<1>1. PICK d \in PageStates : d = page[t]
  BY DlTyped
<1> DEFINE r == [d EXCEPT !.signed = signed]
<1>2. page' = [page EXCEPT ![t] = r]
  BY <1>1
<1>3. r.signed = signed /\ r.purge = d.purge /\ r.mail = d.mail /\ r.removing = d.removing
  BY <1>1 DEF PageStates
<1>4. r \in PageStates
  BY <1>1 DEF PageStates
<1> HIDE DEF r
<1>5. Turns(t, r.signed, r.purge, r.mail, r.removing)
  BY <1>2, <1>4, Turned
<1> QED BY <1>1, <1>3, <1>5

LEMMA MailWritten ==
    ASSUME Downloads!TypeOK, NEW t \in Tabs, NEW mail \in SUBSET {"unauthorized", "purged"},
           page' = [page EXCEPT ![t] = [page[t] EXCEPT !.mail = mail]]
    PROVE  Turns(t, page[t].signed, page[t].purge, mail, page[t].removing)
<1>1. PICK d \in PageStates : d = page[t]
  BY DlTyped
<1> DEFINE r == [d EXCEPT !.mail = mail]
<1>2. page' = [page EXCEPT ![t] = r]
  BY <1>1
<1>3. r.signed = d.signed /\ r.purge = d.purge /\ r.mail = mail /\ r.removing = d.removing
  BY <1>1 DEF PageStates
<1>4. r \in PageStates
  BY <1>1 DEF PageStates
<1> HIDE DEF r
<1>5. Turns(t, r.signed, r.purge, r.mail, r.removing)
  BY <1>2, <1>4, Turned
<1> QED BY <1>1, <1>3, <1>5

LEMMA RemovingWritten ==
    ASSUME Downloads!TypeOK, NEW t \in Tabs, NEW removing \in {"no", "entries", "record"},
           page' = [page EXCEPT ![t] = [page[t] EXCEPT !.removing = removing]]
    PROVE  Turns(t, page[t].signed, page[t].purge, page[t].mail, removing)
<1>1. PICK d \in PageStates : d = page[t]
  BY DlTyped
<1> DEFINE r == [d EXCEPT !.removing = removing]
<1>2. page' = [page EXCEPT ![t] = r]
  BY <1>1
<1>3. r.signed = d.signed /\ r.purge = d.purge /\ r.mail = d.mail /\ r.removing = removing
  BY <1>1 DEF PageStates
<1>4. r \in PageStates
  BY <1>1 DEF PageStates
<1> HIDE DEF r
<1>5. Turns(t, r.signed, r.purge, r.mail, r.removing)
  BY <1>2, <1>4, Turned
<1> QED BY <1>1, <1>3, <1>5

LEMMA PurgeSignedWritten ==
    ASSUME Downloads!TypeOK, NEW t \in Tabs, NEW purge \in {"none", "waiting", "settled",
           "clearing", "outrun"}, NEW signed \in BOOLEAN,
           page' = [page EXCEPT ![t] = [page[t] EXCEPT !.purge = purge, !.signed = signed]]
    PROVE  Turns(t, signed, purge, page[t].mail, page[t].removing)
<1>1. PICK d \in PageStates : d = page[t]
  BY DlTyped
<1> DEFINE r == [d EXCEPT !.purge = purge, !.signed = signed]
<1>2. page' = [page EXCEPT ![t] = r]
  BY <1>1
<1>3. r.signed = signed /\ r.purge = purge /\ r.mail = d.mail /\ r.removing = d.removing
  BY <1>1 DEF PageStates
<1>4. r \in PageStates
  BY <1>1 DEF PageStates
<1> HIDE DEF r
<1>5. Turns(t, r.signed, r.purge, r.mail, r.removing)
  BY <1>2, <1>4, Turned
<1> QED BY <1>1, <1>3, <1>5

LEMMA PurgeMailWritten ==
    ASSUME Downloads!TypeOK, NEW t \in Tabs, NEW mail \in SUBSET {"unauthorized", "purged"},
           NEW purge \in {"none", "waiting", "settled", "clearing", "outrun"},
           page' = [page EXCEPT ![t] = [page[t] EXCEPT !.mail = mail, !.purge = purge]]
    PROVE  Turns(t, page[t].signed, purge, mail, page[t].removing)
<1>1. PICK d \in PageStates : d = page[t]
  BY DlTyped
<1> DEFINE r == [d EXCEPT !.mail = mail, !.purge = purge]
<1>2. page' = [page EXCEPT ![t] = r]
  BY <1>1
<1>3. r.signed = d.signed /\ r.purge = purge /\ r.mail = mail /\ r.removing = d.removing
  BY <1>1 DEF PageStates
<1>4. r \in PageStates
  BY <1>1 DEF PageStates
<1> HIDE DEF r
<1>5. Turns(t, r.signed, r.purge, r.mail, r.removing)
  BY <1>2, <1>4, Turned
<1> QED BY <1>1, <1>3, <1>5

WithPartial(d, partial) == [d EXCEPT !.partial = partial]

LEMMA PartialKept ==
    ASSUME NEW d \in Copies, NEW partial \in {0} \cup Downloads!Editions
    PROVE  Reads(WithPartial(d, partial), d.stamp, d.chunk, d.meta, partial, d.detail, d.whose)
<1> DEFINE r == WithPartial(d, partial)
<1>1. r \in Copies
  BY DEF Copies, WithPartial
<1>2. r.stamp = d.stamp /\ r.chunk = d.chunk /\ r.meta = d.meta /\ r.partial = partial
      /\ r.detail = d.detail /\ r.whose = d.whose
  BY DEF Copies, WithPartial
<1> QED BY <1>1, <1>2 DEF Reads

WithMarkers(d, meta, partial) == [d EXCEPT !.meta = meta, !.partial = partial]

LEMMA MarkersKept ==
    ASSUME NEW d \in Copies, NEW meta \in {0} \cup Downloads!Editions,
           NEW partial \in {0} \cup Downloads!Editions
    PROVE  Reads(WithMarkers(d, meta, partial), d.stamp, d.chunk, meta, partial, d.detail, d.whose)
<1> DEFINE r == WithMarkers(d, meta, partial)
<1>1. r \in Copies
  BY DEF Copies, WithMarkers
<1>2. r.stamp = d.stamp /\ r.chunk = d.chunk /\ r.meta = meta /\ r.partial = partial
      /\ r.detail = d.detail /\ r.whose = d.whose
  BY DEF Copies, WithMarkers
<1> QED BY <1>1, <1>2 DEF Reads

WithChunk(d, chunk) == [d EXCEPT !.chunk = chunk]

LEMMA ChunkKept ==
    ASSUME NEW d \in Copies, NEW chunk \in [1..Chunks -> {0} \cup Downloads!Editions]
    PROVE  Reads(WithChunk(d, chunk), d.stamp, chunk, d.meta, d.partial, d.detail, d.whose)
<1> DEFINE r == WithChunk(d, chunk)
<1>1. r \in Copies
  BY DEF Copies, WithChunk
<1>2. r.stamp = d.stamp /\ r.chunk = chunk /\ r.meta = d.meta /\ r.partial = d.partial
      /\ r.detail = d.detail /\ r.whose = d.whose
  BY DEF Copies, WithChunk
<1> QED BY <1>1, <1>2 DEF Reads

WithChunkOf(d, chunk, whose) == [d EXCEPT !.chunk = chunk, !.whose = whose]

LEMMA ChunkOfKept ==
    ASSUME NEW d \in Copies, NEW chunk \in [1..Chunks -> {0} \cup Downloads!Editions],
           NEW whose \in SUBSET Users
    PROVE  Reads(WithChunkOf(d, chunk, whose), d.stamp, chunk, d.meta, d.partial, d.detail, whose)
<1> DEFINE r == WithChunkOf(d, chunk, whose)
<1>1. r \in Copies
  BY DEF Copies, WithChunkOf
<1>2. r.stamp = d.stamp /\ r.chunk = chunk /\ r.meta = d.meta /\ r.partial = d.partial
      /\ r.detail = d.detail /\ r.whose = whose
  BY DEF Copies, WithChunkOf
<1> QED BY <1>1, <1>2 DEF Reads

WithDetail(d, detail, whose) == [d EXCEPT !.detail = detail, !.whose = whose]

LEMMA DetailKept ==
    ASSUME NEW d \in Copies, NEW detail \in BOOLEAN, NEW whose \in SUBSET Users
    PROVE  Reads(WithDetail(d, detail, whose), d.stamp, d.chunk, d.meta, d.partial, detail, whose)
<1> DEFINE r == WithDetail(d, detail, whose)
<1>1. r \in Copies
  BY DEF Copies, WithDetail
<1>2. r.stamp = d.stamp /\ r.chunk = d.chunk /\ r.meta = d.meta /\ r.partial = d.partial
      /\ r.detail = detail /\ r.whose = whose
  BY DEF Copies, WithDetail
<1> QED BY <1>1, <1>2 DEF Reads

WithStamp(d, stamp) == [d EXCEPT !.stamp = stamp]

LEMMA StampKept ==
    ASSUME NEW d \in Copies, NEW stamp \in Users \cup {Nobody}
    PROVE  Reads(WithStamp(d, stamp), stamp, d.chunk, d.meta, d.partial, d.detail, d.whose)
<1> DEFINE r == WithStamp(d, stamp)
<1>1. r \in Copies
  BY DEF Copies, WithStamp
<1>2. r.stamp = stamp /\ r.chunk = d.chunk /\ r.meta = d.meta /\ r.partial = d.partial
      /\ r.detail = d.detail /\ r.whose = d.whose
  BY DEF Copies, WithStamp
<1> QED BY <1>1, <1>2 DEF Reads

WithTrack(d, meta, partial, chunk, whose) == [d EXCEPT !.meta = meta, !.partial = partial,
                                              !.chunk = chunk, !.whose = whose]

LEMMA TrackKept ==
    ASSUME NEW d \in Copies, NEW meta \in {0} \cup Downloads!Editions,
           NEW partial \in {0} \cup Downloads!Editions,
           NEW chunk \in [1..Chunks -> {0} \cup Downloads!Editions], NEW whose \in SUBSET Users
    PROVE  Reads(WithTrack(d, meta, partial, chunk, whose), d.stamp, chunk, meta, partial,
                 d.detail, whose)
<1> DEFINE r == WithTrack(d, meta, partial, chunk, whose)
<1>1. r \in Copies
  BY DEF Copies, WithTrack
<1>2. r.stamp = d.stamp /\ r.chunk = chunk /\ r.meta = meta /\ r.partial = partial
      /\ r.detail = d.detail /\ r.whose = whose
  BY DEF Copies, WithTrack
<1> QED BY <1>1, <1>2 DEF Reads

-----------------------------------------------------------------------------
(* What the actions do.                                                     *)

LEMMA AtDoes ==
    ASSUME Downloads!TypeOK, NEW t \in Tabs, NEW at \in Steps, Downloads!At(t, at)
    PROVE  Becomes(t, at, dl[t].next, dl[t].ed, dl[t].listed, dl[t].aborted, dl[t].dead,
                   dl[t].attached, dl[t].by)
<1>1. dl' = [dl EXCEPT ![t] = [dl[t] EXCEPT !.at = at]]
  BY DEF Downloads!At
<1> QED BY <1>1, AtWritten

LEMMA ReleasedTurns ==
    ASSUME Downloads!TypeOK, NEW t \in Tabs, page' = Downloads!Released(page, t)
    PROVE  Turns(t, page[t].signed, IF page[t].purge = "waiting" THEN "settled" ELSE page[t].purge,
                 page[t].mail, page[t].removing)
<1> DEFINE purge == IF page[t].purge = "waiting" THEN "settled" ELSE page[t].purge
<1>1. purge \in {"none", "waiting", "settled", "clearing", "outrun"}
  BY DEF Downloads!TypeOK
<1>2. page' = [page EXCEPT ![t] = [page[t] EXCEPT !.purge = purge]]
  BY DEF Downloads!Released
<1> HIDE DEF purge
<1>3. Turns(t, page[t].signed, purge, page[t].mail, page[t].removing)
  BY <1>1, <1>2, PurgeWritten
<1> QED BY <1>3 DEF purge

LEMMA FreesDoes ==
    ASSUME Downloads!TypeOK, NEW t \in Tabs, dl' = [dl EXCEPT ![t] = Downloads!Idle]
    PROVE  Frees(t)
<1>1. Becomes(t, Downloads!Idle.at, Downloads!Idle.next, Downloads!Idle.ed, Downloads!Idle.listed,
              Downloads!Idle.aborted, Downloads!Idle.dead, Downloads!Idle.attached,
              Downloads!Idle.by)
  BY IdleIs, Rewritten
<1> QED BY <1>1, IdleIs DEF Frees

\* The purge of tab t, once it is asked for.
Begun(t) == IF page[t].purge # "none" THEN page[t].purge
            ELSE IF Downloads!Running(t) THEN "waiting" ELSE "settled"

LEMMA PurgingTurns ==
    ASSUME Downloads!TypeOK, NEW t \in Tabs, page' = Downloads!Purging(page, t)
    PROVE  Turns(t, page[t].signed, Begun(t), page[t].mail, page[t].removing)
<1>1. Begun(t) \in {"none", "waiting", "settled", "clearing", "outrun"}
  BY DEF Downloads!TypeOK, Begun
<1>2. CASE page[t].purge = "none"
  <2>1. page' = [page EXCEPT ![t] = [page[t] EXCEPT !.purge = Begun(t)]]
    BY <1>2 DEF Downloads!Purging, Begun
  <2> QED BY <1>1, <2>1, PurgeWritten
<1>3. CASE page[t].purge # "none"
  <2>1. page' = page
    BY <1>3 DEF Downloads!Purging
  <2> QED BY <1>3, <2>1, DlTyped DEF Turns, Begun
<1> QED BY <1>2, <1>3

\* Every download is cut off from the cache, and else as it was.
CutOff ==
    /\ dl' \in [Tabs -> Attempts]
    /\ \A o \in Tabs :
          /\ dl'[o].at = dl[o].at /\ dl'[o].next = dl[o].next /\ dl'[o].ed = dl[o].ed
          /\ dl'[o].listed = dl[o].listed /\ dl'[o].aborted = dl[o].aborted
          /\ dl'[o].attached = FALSE /\ dl'[o].by = dl[o].by

LEMMA DetachedDoes ==
    ASSUME Downloads!TypeOK, dl' = Downloads!Detached
    PROVE  CutOff /\ \A o \in Tabs : dl'[o].dead = dl[o].dead
<1>1. dl' = [o \in Tabs |-> [dl[o] EXCEPT !.attached = FALSE]]
  BY DEF Downloads!Detached
<1>2. ASSUME NEW o \in Tabs
      PROVE  /\ dl'[o] \in Attempts
             /\ dl'[o].at = dl[o].at /\ dl'[o].next = dl[o].next /\ dl'[o].ed = dl[o].ed
             /\ dl'[o].listed = dl[o].listed /\ dl'[o].aborted = dl[o].aborted
             /\ dl'[o].attached = FALSE /\ dl'[o].by = dl[o].by /\ dl'[o].dead = dl[o].dead
  <2>1. PICK d \in Attempts : d = dl[o]
    BY DlTyped
  <2> DEFINE r == [d EXCEPT !.attached = FALSE]
  <2>2. dl'[o] = r
    BY <1>1, <2>1
  <2>3. r.at = d.at /\ r.next = d.next /\ r.ed = d.ed /\ r.listed = d.listed
        /\ r.aborted = d.aborted /\ r.attached = FALSE /\ r.by = d.by /\ r.dead = d.dead
    BY DEF Attempts
  <2>4. r \in Attempts
    BY DEF Attempts
  <2> HIDE DEF r
  <2> QED BY <2>1, <2>2, <2>3, <2>4
<1>3. dl' \in [Tabs -> Attempts]
  BY <1>1, <1>2
<1> QED BY <1>2, <1>3 DEF CutOff

LEMMA BumpedDoes ==
    ASSUME Downloads!TypeOK, NEW t \in Tabs, dl' = Downloads!Bumped(t)
    PROVE  CutOff /\ \A o \in Tabs : dl'[o].dead = IF o = t THEN Downloads!Running(t) ELSE dl[o].dead
<1>1. \A o \in Tabs : dl'[o] = IF o = t THEN [[dl[t] EXCEPT !.attached = FALSE] EXCEPT !.dead = Downloads!Running(t)]
                               ELSE [dl[o] EXCEPT !.attached = FALSE]
  BY DEF Downloads!Bumped, Downloads!Detached
<1>2. ASSUME NEW o \in Tabs
      PROVE  /\ dl'[o] \in Attempts
             /\ dl'[o].at = dl[o].at /\ dl'[o].next = dl[o].next /\ dl'[o].ed = dl[o].ed
             /\ dl'[o].listed = dl[o].listed /\ dl'[o].aborted = dl[o].aborted
             /\ dl'[o].attached = FALSE /\ dl'[o].by = dl[o].by
             /\ dl'[o].dead = IF o = t THEN Downloads!Running(t) ELSE dl[o].dead
  <2>1. PICK d \in Attempts : d = dl[o]
    BY DlTyped
  <2>2. PICK b \in BOOLEAN : b = Downloads!Running(t)
    BY DEF Downloads!Running
  <2> DEFINE r == IF o = t THEN [[d EXCEPT !.attached = FALSE] EXCEPT !.dead = b]
                  ELSE [d EXCEPT !.attached = FALSE]
  <2>3. dl'[o] = r
    BY <1>1, <2>1, <2>2
  <2>4. r.at = d.at /\ r.next = d.next /\ r.ed = d.ed /\ r.listed = d.listed
        /\ r.aborted = d.aborted /\ r.attached = FALSE /\ r.by = d.by
        /\ r.dead = IF o = t THEN b ELSE d.dead
    BY DEF Attempts
  <2>5. r \in Attempts
    BY DEF Attempts
  <2> HIDE DEF r
  <2> QED BY <2>1, <2>2, <2>3, <2>4, <2>5
<1>3. dl' \in [Tabs -> Attempts]
  BY <1>2 DEF Downloads!Bumped, Downloads!Detached
<1> QED BY <1>2, <1>3 DEF CutOff

Advances(t, at) == Becomes(t, at, dl[t].next, dl[t].ed, dl[t].listed, dl[t].aborted, dl[t].dead,
                           dl[t].attached, dl[t].by)

\* The download of tab t is over, and a purge that waited for it goes on.
Ends(t) ==
    /\ Frees(t)
    /\ Turns(t, page[t].signed, IF page[t].purge = "waiting" THEN "settled" ELSE page[t].purge,
             page[t].mail, page[t].removing)

\* The download of tab t stores this, if it is not cut off.
Stores(t, chunk, meta, partial, detail, whose) ==
    IF dl[t].attached THEN Holds(cache.stamp, chunk, meta, partial, detail, whose)
    ELSE cache' = cache

LEMMA SettleDoes == ASSUME Downloads!TypeOK, NEW t \in Tabs, Downloads!Settle(t) PROVE Ends(t)
BY FreesDoes, ReleasedTurns DEF Downloads!Settle, Ends

LEMMA StartDoes ==
    ASSUME Downloads!TypeOK, NEW t \in Tabs, Downloads!Start(t)
    PROVE  /\ Becomes(t, "registering", 1, 0, Downloads!ListedSoFar, FALSE, FALSE, FALSE, Nobody)
           /\ Turns(t, page[t].signed, IF page[t].purge = "clearing" THEN "outrun" ELSE page[t].purge,
                    page[t].mail, page[t].removing)
<1>1. PICK l \in BOOLEAN : l = Downloads!ListedSoFar
  BY DEF Downloads!ListedSoFar, Downloads!TypeOK, Downloads!Records
<1>0. PICK d \in Attempts : d = Downloads!Idle
  BY IdleIs
<1> DEFINE r == [d EXCEPT !.at = "registering", !.listed = l]
<1>2. dl' = [dl EXCEPT ![t] = r]
  BY <1>0, <1>1 DEF Downloads!Start
<1>3. /\ r.at = "registering" /\ r.next = 1 /\ r.ed = 0 /\ r.listed = l
      /\ r.aborted = FALSE /\ r.dead = FALSE /\ r.attached = FALSE /\ r.by = Nobody
  BY <1>0, IdleIs DEF Attempts
<1>4. r \in Attempts
  BY DEF Attempts, Steps
<1> HIDE DEF r
<1>5. Becomes(t, r.at, r.next, r.ed, r.listed, r.aborted, r.dead, r.attached, r.by)
  BY <1>2, <1>4, Rewritten
<1> DEFINE purge == IF page[t].purge = "clearing" THEN "outrun" ELSE page[t].purge
<1>6. purge \in {"none", "waiting", "settled", "clearing", "outrun"}
  BY DEF Downloads!TypeOK
<1>7. page' = [page EXCEPT ![t] = [page[t] EXCEPT !.purge = purge]]
  BY DEF Downloads!Start
<1> HIDE DEF purge
<1>8. Turns(t, page[t].signed, purge, page[t].mail, page[t].removing)
  BY <1>6, <1>7, PurgeWritten
<1> QED BY <1>1, <1>3, <1>5, <1>8 DEF purge

LEMMA ManifestDoes ==
    ASSUME Downloads!TypeOK, NEW t \in Tabs, Downloads!Manifest(t)
    PROVE  Becomes(t, "listing", dl[t].next, edition, dl[t].listed, dl[t].aborted, dl[t].dead,
                   dl[t].attached, dl[t].by)
<1>1. edition \in {0} \cup Downloads!Editions /\ "listing" \in Steps
  BY DEF Downloads!TypeOK, Steps
<1>2. dl' = [dl EXCEPT ![t] = [dl[t] EXCEPT !.at = "listing", !.ed = edition]]
  BY DEF Downloads!Manifest
<1> QED BY <1>1, <1>2, AtEdWritten

LEMMA ManifestRefusedDoes ==
    ASSUME Downloads!TypeOK, NEW t \in Tabs, Downloads!ManifestRefused(t)
    PROVE  /\ Becomes(t, "refused", dl[t].next, dl[t].ed, dl[t].listed, page[t].purge = "none",
                      dl[t].dead, dl[t].attached, dl[t].by)
           /\ Turns(t, page[t].signed, Begun(t), page[t].mail, page[t].removing)
<1>1. PICK b \in BOOLEAN : b = (page[t].purge = "none")
  OBVIOUS
<1>2. dl' = [dl EXCEPT ![t] = [dl[t] EXCEPT !.at = "refused", !.aborted = b]]
  BY <1>1 DEF Downloads!ManifestRefused
<1>3. "refused" \in Steps
  BY DEF Steps
<1>4. Becomes(t, "refused", dl[t].next, dl[t].ed, dl[t].listed, b, dl[t].dead, dl[t].attached,
              dl[t].by)
  BY <1>2, <1>3, AtAbortedWritten
<1> QED BY <1>1, <1>4, PurgingTurns DEF Downloads!ManifestRefused

LEMMA ListDoes ==
    ASSUME Downloads!TypeOK, NEW t \in Tabs, Downloads!List(t), ~dl[t].aborted, ~dl[t].dead
    PROVE  Becomes(t, "opening", dl[t].next, dl[t].ed, TRUE, dl[t].aborted, dl[t].dead,
                   dl[t].attached, dl[t].by)
<1>1. dl' = [dl EXCEPT ![t] = [dl[t] EXCEPT !.at = "opening", !.listed = TRUE]]
  BY DEF Downloads!List
<1>2. "opening" \in Steps
  BY DEF Steps
<1> QED BY <1>1, <1>2, AtListedWritten

LEMMA OpenDoes ==
    ASSUME Downloads!TypeOK, NEW t \in Tabs, Downloads!Open(t)
    PROVE  Becomes(t, "track", dl[t].next, dl[t].ed, dl[t].listed, dl[t].aborted, dl[t].dead,
                   TRUE, dl[t].by)
<1>1. dl' = [dl EXCEPT ![t] = [dl[t] EXCEPT !.at = "track", !.attached = TRUE]]
  BY DEF Downloads!Open
<1>2. "track" \in Steps
  BY DEF Steps
<1> QED BY <1>1, <1>2, AtAttachedWritten

LEMMA AdvancesDoes ==
    ASSUME Downloads!TypeOK, NEW t \in Tabs, NEW at \in {"asking", "wiping", "chunk", "detail",
           "finishing"},
           Downloads!At(t, at)
    PROVE  Advances(t, at)
BY AtDoes DEF Steps, Advances

\* A track is without chunks when all entries are gone.
NoChunks == [n \in 1..Chunks |-> 0]

LEMMA NoChunksTyped == NoChunks \in [1..Chunks -> {0} \cup Downloads!Editions]
BY DEF NoChunks

LEMMA TrackDoes ==
    ASSUME Downloads!TypeOK, Stages, NEW t \in Tabs, Downloads!Track(t)
    PROVE  \/ /\ dl[t].attached /\ cache.meta = dl[t].ed
              /\ Advances(t, "detail") /\ cache' = cache
           \/ /\ dl[t].attached
              /\ Advances(t, "wiping") /\ Stores(t, cache.chunk, 0, 0, cache.detail, cache.whose)
           \/ /\ dl[t].attached => cache.meta = 0
              /\ Advances(t, "chunk")
              /\ Stores(t, cache.chunk, cache.meta, dl[t].ed, cache.detail, cache.whose)
<1> DEFINE ed == dl[t].ed
           kept == dl[t].attached /\ cache.meta = ed
           other == dl[t].attached /\ ~kept /\ (cache.meta # 0 \/ cache.partial \notin {0, ed})
<1>1. \/ kept /\ Downloads!At(t, "detail") /\ cache' = cache
      \/ other /\ Downloads!At(t, "wiping") /\ cache' = WithMarkers(cache, 0, 0)
      \/ ~kept /\ ~other /\ Downloads!At(t, "chunk") /\ Downloads!Store(t, WithPartial(cache, ed))
  BY DEF Downloads!Track, WithMarkers, WithPartial
<1>2. cache \in Copies /\ ed \in {0} \cup Downloads!Editions /\ 0 \in {0} \cup Downloads!Editions
  BY DlTyped DEF Downloads!Track, Stages, Staged
<1>3. Reads(WithMarkers(cache, 0, 0), cache.stamp, cache.chunk, 0, 0, cache.detail, cache.whose)
  BY <1>2, MarkersKept
<1>4. Reads(WithPartial(cache, ed), cache.stamp, cache.chunk, cache.meta, ed, cache.detail,
            cache.whose)
  BY <1>2, PartialKept
<1> QED BY <1>1, <1>3, <1>4, AdvancesDoes DEF Downloads!Store, Stores, Holds

\* The track of a book is deleted; its detail, and who it was sent to, may stay.
Left == IF cache.detail THEN cache.whose ELSE {}

LEMMA WithoutTrackIs ==
    ASSUME Downloads!TypeOK
    PROVE  Reads(Downloads!WithoutTrack(cache), cache.stamp, NoChunks, 0, 0, cache.detail, Left)
<1>1. cache \in Copies /\ Left \in SUBSET Users /\ 0 \in {0} \cup Downloads!Editions
  BY DlTyped DEF Left, Copies
<1>2. Downloads!WithoutTrack(cache) = WithTrack(cache, 0, 0, NoChunks, Left)
  BY DEF Downloads!WithoutTrack, WithTrack, Downloads!EmptyCache, NoChunks, Left
<1> QED BY <1>1, <1>2, TrackKept, NoChunksTyped

LEMMA WipeDoes ==
    ASSUME Downloads!TypeOK, Stages, NEW t \in Tabs, Downloads!Wipe(t)
    PROVE  Advances(t, "chunk") /\ Stores(t, NoChunks, 0, dl[t].ed, cache.detail, Left)
<1> DEFINE c == Downloads!WithoutTrack(cache)
<1>1. dl[t].ed \in {0} \cup Downloads!Editions
  BY DEF Downloads!Wipe, Stages, Staged
<1>2. Reads(c, cache.stamp, NoChunks, 0, 0, cache.detail, Left)
  BY WithoutTrackIs
<1>3. Downloads!Store(t, WithPartial(c, dl[t].ed))
  BY DEF Downloads!Wipe, WithPartial
<1> HIDE DEF c
<1>4. Reads(WithPartial(c, dl[t].ed), c.stamp, c.chunk, c.meta, dl[t].ed, c.detail, c.whose)
  BY <1>1, <1>2, PartialKept DEF Reads
<1>5. Advances(t, "chunk")
  BY AdvancesDoes DEF Downloads!Wipe
<1> QED BY <1>2, <1>3, <1>4, <1>5 DEF Downloads!Store, Stores, Holds, Reads

LEMMA KeepChunkDoes ==
    ASSUME Downloads!TypeOK, NEW t \in Tabs, Downloads!KeepChunk(t)
    PROVE  Becomes(t, dl[t].at, dl[t].next + 1, dl[t].ed, dl[t].listed, dl[t].aborted, dl[t].dead,
                   dl[t].attached, dl[t].by)
<1>1. dl[t].next + 1 \in 1..(Chunks + 1)
  BY CopyAssumption, DlTyped DEF Downloads!KeepChunk, Attempts, CopyParameters
<1>2. dl' = [dl EXCEPT ![t] = [dl[t] EXCEPT !.next = dl[t].next + 1]]
  BY DEF Downloads!KeepChunk
<1> QED BY <1>1, <1>2, NextWritten

LEMMA FetchChunkDoes ==
    ASSUME Downloads!TypeOK, NEW t \in Tabs, Downloads!FetchChunk(t)
    PROVE  \/ /\ Becomes(t, "storing", dl[t].next, dl[t].ed, dl[t].listed, dl[t].aborted, dl[t].dead,
                         dl[t].attached, cookie)
              /\ Stores(t, [cache.chunk EXCEPT ![dl[t].next] = 0], cache.meta, cache.partial,
                        cache.detail, cache.whose)
              /\ page' = page /\ record' = record
           \/ /\ Ends(t) /\ Downloads!Save(t, "error", dl[t].listed)
              /\ Stores(t, NoChunks, 0, 0, cache.detail, Left)
<1>1. CASE edition = dl[t].ed
  <2> DEFINE chunk == [cache.chunk EXCEPT ![dl[t].next] = 0]
  <2>1. chunk \in [1..Chunks -> {0} \cup Downloads!Editions] /\ cache \in Copies
    BY DlTyped DEF Copies
  <2>2. Downloads!Store(t, WithChunk(cache, chunk))
    BY <1>1 DEF Downloads!FetchChunk, WithChunk
  <2> HIDE DEF chunk
  <2>3. Stores(t, chunk, cache.meta, cache.partial, cache.detail, cache.whose)
    BY <2>1, <2>2, ChunkKept DEF Downloads!Store, Stores, Holds
  <2>4. dl' = [dl EXCEPT ![t] = [dl[t] EXCEPT !.at = "storing", !.by = cookie]]
    BY <1>1 DEF Downloads!FetchChunk
  <2>5. "storing" \in Steps /\ cookie \in Users \cup {Nobody}
    BY DEF Steps, Downloads!TypeOK
  <2>6. Becomes(t, "storing", dl[t].next, dl[t].ed, dl[t].listed, dl[t].aborted, dl[t].dead,
                dl[t].attached, cookie)
    BY <2>4, <2>5, AtByWritten
  <2> QED BY <1>1, <2>3, <2>6 DEF Downloads!FetchChunk, chunk
<1>2. CASE edition # dl[t].ed
  <2>1. Downloads!Settle(t) /\ Downloads!Save(t, "error", dl[t].listed) /\ Downloads!Store(t, Downloads!WithoutTrack(cache))
    BY <1>2 DEF Downloads!FetchChunk, Downloads!End
  <2>2. Stores(t, NoChunks, 0, 0, cache.detail, Left)
    BY <2>1, WithoutTrackIs DEF Downloads!Store, Stores, Holds, Reads
  <2> QED BY <2>1, <2>2, SettleDoes
<1> QED BY <1>1, <1>2

LEMMA StoreChunkDoes ==
    ASSUME Downloads!TypeOK, Stages, NEW t \in Tabs, Downloads!StoreChunk(t)
    PROVE  /\ Becomes(t, "chunk", dl[t].next + 1, dl[t].ed, dl[t].listed, dl[t].aborted, dl[t].dead,
                      dl[t].attached, Nobody)
           /\ Stores(t, [cache.chunk EXCEPT ![dl[t].next] = dl[t].ed], cache.meta, cache.partial,
                     cache.detail, cache.whose \cup {dl[t].by})
<1>1. dl[t].ed \in Downloads!Editions /\ dl[t].by \in Users /\ dl[t].next <= Chunks
  BY DEF Downloads!StoreChunk, Stages, Staged
<1> DEFINE chunk == [cache.chunk EXCEPT ![dl[t].next] = dl[t].ed]
           whose == cache.whose \cup {dl[t].by}
<1>2. chunk \in [1..Chunks -> {0} \cup Downloads!Editions] /\ whose \in SUBSET Users /\ cache \in Copies
  BY <1>1, DlTyped DEF Copies
<1>3. Downloads!Store(t, WithChunkOf(cache, chunk, whose))
  BY DEF Downloads!StoreChunk, WithChunkOf
<1> HIDE DEF chunk, whose
<1>4. Stores(t, chunk, cache.meta, cache.partial, cache.detail, whose)
  BY <1>2, <1>3, ChunkOfKept DEF Downloads!Store, Stores, Holds
<1>5. dl' = [dl EXCEPT ![t] = [dl[t] EXCEPT !.at = "chunk", !.next = dl[t].next + 1, !.by = Nobody]]
  BY DEF Downloads!StoreChunk
<1>6. "chunk" \in Steps /\ Nobody \in Users \cup {Nobody} /\ dl[t].next + 1 \in 1..(Chunks + 1)
  BY CopyAssumption, <1>1, DlTyped DEF Steps, Attempts, CopyParameters
<1>7. Becomes(t, "chunk", dl[t].next + 1, dl[t].ed, dl[t].listed, dl[t].aborted, dl[t].dead,
              dl[t].attached, Nobody)
  BY <1>5, <1>6, AtNextByWritten
<1> QED BY <1>4, <1>7 DEF chunk, whose

LEMMA MarkTrackDoes ==
    ASSUME Downloads!TypeOK, Stages, NEW t \in Tabs, Downloads!MarkTrack(t)
    PROVE  Advances(t, "detail") /\ Stores(t, cache.chunk, dl[t].ed, 0, cache.detail, cache.whose)
<1>1. 0 \in {0} \cup Downloads!Editions /\ dl[t].ed \in {0} \cup Downloads!Editions /\ cache \in Copies
  BY DlTyped DEF Downloads!MarkTrack, Stages, Staged
<1>2. Downloads!Store(t, WithMarkers(cache, dl[t].ed, 0))
  BY DEF Downloads!MarkTrack, Downloads!Completed, WithMarkers
<1>3. Advances(t, "detail")
  BY AdvancesDoes DEF Downloads!MarkTrack
<1> QED BY <1>1, <1>2, <1>3, MarkersKept DEF Downloads!Store, Stores, Holds

LEMMA DetailDoes ==
    ASSUME Downloads!TypeOK, NEW t \in Tabs, Downloads!Detail(t)
    PROVE  /\ Advances(t, "finishing")
           /\ \/ dl[t].attached /\ cache.detail /\ cache' = cache
              \/ /\ cookie # Nobody
                 /\ Stores(t, cache.chunk, cache.meta, cache.partial, TRUE, cache.whose \cup {cookie})
<1>1. Advances(t, "finishing")
  BY AdvancesDoes DEF Downloads!Detail
<1>2. CASE cookie # Nobody /\ Downloads!Store(t, [cache EXCEPT !.detail = TRUE, !.whose = @ \cup {cookie}])
  <2> DEFINE whose == cache.whose \cup {cookie}
  <2>1. TRUE \in BOOLEAN /\ whose \in SUBSET Users /\ cache \in Copies
    BY <1>2, DlTyped DEF Copies, Downloads!TypeOK
  <2>2. Downloads!Store(t, WithDetail(cache, TRUE, whose))
    BY <1>2 DEF WithDetail
  <2> HIDE DEF whose
  <2>3. Stores(t, cache.chunk, cache.meta, cache.partial, TRUE, whose)
    BY <2>1, <2>2, DetailKept DEF Downloads!Store, Stores, Holds
  <2> QED BY <1>1, <1>2, <2>3 DEF whose
<1> QED BY <1>1, <1>2 DEF Downloads!Detail

LEMMA EndDoes ==
    ASSUME Downloads!TypeOK, NEW t \in Tabs, NEW status, Downloads!End(t, status)
    PROVE  Ends(t) /\ Downloads!Save(t, status, dl[t].listed)
BY SettleDoes DEF Downloads!End

LEMMA FetchRefusedDoes ==
    ASSUME Downloads!TypeOK, NEW t \in Tabs, Downloads!FetchRefused(t)
    PROVE  /\ Frees(t)
           /\ Turns(t, page[t].signed,
                    IF page[t].purge \in {"none", "waiting"} THEN "settled" ELSE page[t].purge,
                    page[t].mail, page[t].removing)
<1> DEFINE purge == IF page[t].purge \in {"none", "waiting"} THEN "settled" ELSE page[t].purge
           p == Downloads!Purging(page, t)
<1>1. Frees(t)
  BY FreesDoes DEF Downloads!FetchRefused
<1>2. Downloads!Running(t)
  BY DEF Downloads!FetchRefused, Downloads!Running
<1>3. page \in [Tabs -> PageStates]
  BY DlTyped
<1>4. page' = [p EXCEPT ![t] = [p[t] EXCEPT !.purge = IF p[t].purge = "waiting" THEN "settled" ELSE p[t].purge]]
  BY DEF Downloads!FetchRefused, Downloads!Released
<1>5. CASE page[t].purge = "none"
  <2>1. p = [page EXCEPT ![t] = [page[t] EXCEPT !.purge = "waiting"]]
    BY <1>2, <1>5 DEF Downloads!Purging
  <2>2. p[t] = [page[t] EXCEPT !.purge = "waiting"]
    BY <1>3, <2>1
  <2>3. p[t].purge = "waiting"
    BY <1>3, <2>2 DEF PageStates
  <2>4. page' = [page EXCEPT ![t] = [[page[t] EXCEPT !.purge = "waiting"] EXCEPT !.purge = "settled"]]
    <3> HIDE DEF p
    <3>1. page' = [p EXCEPT ![t] = [p[t] EXCEPT !.purge = "settled"]]
      BY <1>4, <2>3
    <3>2. page' = [[page EXCEPT ![t] = [page[t] EXCEPT !.purge = "waiting"]]
                      EXCEPT ![t] = [[page[t] EXCEPT !.purge = "waiting"] EXCEPT !.purge = "settled"]]
      BY <3>1, <2>1, <2>2
    <3> QED BY <1>3, <3>2
  <2>5. PICK d \in PageStates : d = page[t]
    BY <1>3
  <2> DEFINE r == [[d EXCEPT !.purge = "waiting"] EXCEPT !.purge = "settled"]
  <2>6. page' = [page EXCEPT ![t] = r]
    BY <2>4, <2>5
  <2>7. r.signed = d.signed /\ r.purge = "settled" /\ r.mail = d.mail /\ r.removing = d.removing
    BY DEF PageStates
  <2>8. r \in PageStates
    BY DEF PageStates
  <2> HIDE DEF r
  <2>9. Turns(t, r.signed, r.purge, r.mail, r.removing)
    BY <2>6, <2>8, Turned
  <2> QED BY <1>1, <1>5, <2>5, <2>7, <2>9
<1>6. CASE page[t].purge # "none"
  <2>1. p = page
    BY <1>6 DEF Downloads!Purging
  <2>2. page' = Downloads!Released(page, t)
    BY <2>1 DEF Downloads!FetchRefused
  <2>3. Turns(t, page[t].signed, IF page[t].purge = "waiting" THEN "settled" ELSE page[t].purge,
              page[t].mail, page[t].removing)
    BY <2>2, ReleasedTurns
  <2>4. purge = IF page[t].purge = "waiting" THEN "settled" ELSE page[t].purge
    BY <1>6
  <2> HIDE DEF purge
  <2>5. Turns(t, page[t].signed, purge, page[t].mail, page[t].removing)
    BY <2>3, <2>4
  <2> QED BY <1>1, <2>5 DEF purge
<1> QED BY <1>5, <1>6

\* Tab t's download is told to stop, or is not.
Aborts(t, b) == Becomes(t, dl[t].at, dl[t].next, dl[t].ed, dl[t].listed, b, dl[t].dead,
                        dl[t].attached, dl[t].by)

LEMMA AbortsDoes ==
    ASSUME Downloads!TypeOK, NEW t \in Tabs, NEW b \in BOOLEAN, dl' = [dl EXCEPT ![t].aborted = b]
    PROVE  Aborts(t, b)
<1>1. dl' = [dl EXCEPT ![t] = [dl[t] EXCEPT !.aborted = b]]
  OBVIOUS
<1> QED BY <1>1, AbortedWritten DEF Aborts

LEMMA CancelDoes == ASSUME Downloads!TypeOK, NEW t \in Tabs, Downloads!Cancel(t) PROVE Aborts(t, TRUE)
BY AbortsDoes DEF Downloads!Cancel

LEMMA PurgeBegins ==
    ASSUME Downloads!TypeOK, NEW t \in Tabs,
           page' = Downloads!Purging(page, t), dl' = [dl EXCEPT ![t].aborted = Downloads!Running(t)]
    PROVE  /\ Aborts(t, Downloads!Running(t))
           /\ Turns(t, page[t].signed, Begun(t), page[t].mail, page[t].removing)
<1>1. Downloads!Running(t) \in BOOLEAN
  BY DEF Downloads!Running
<1> QED BY <1>1, AbortsDoes, PurgingTurns

LEMMA HearUnauthorizedDoes ==
    ASSUME Downloads!TypeOK, NEW t \in Tabs, Downloads!HearUnauthorized(t)
    PROVE  /\ Aborts(t, dl[t].aborted \/ (Downloads!Running(t) /\ page[t].purge = "none"))
           /\ Turns(t, page[t].signed, Begun(t), page[t].mail \ {"unauthorized"}, page[t].removing)
<1> DEFINE b == dl[t].aborted \/ (Downloads!Running(t) /\ page[t].purge = "none")
           mail == page[t].mail \ {"unauthorized"}
           p == [page EXCEPT ![t] = [page[t] EXCEPT !.mail = mail]]
<1>1. b \in BOOLEAN /\ dl' = [dl EXCEPT ![t].aborted = b]
  BY DEF Downloads!HearUnauthorized
<1>2. Aborts(t, b)
  <2> HIDE DEF b
  <2> QED BY <1>1, AbortsDoes
<1>3. page \in [Tabs -> PageStates]
  BY DlTyped
<1>4. mail \in SUBSET {"unauthorized", "purged"}
  BY <1>3 DEF PageStates
<1>5. page' = Downloads!Purging(p, t)
  BY DEF Downloads!HearUnauthorized
<1>6. p[t] = [page[t] EXCEPT !.mail = mail]
  BY <1>3
<1> HIDE DEF mail
<1>7. PICK d \in PageStates : d = page[t]
  BY <1>3
<1>8. p[t].purge = page[t].purge
  <2>1. p[t] = [d EXCEPT !.mail = mail]
    BY <1>6, <1>7
  <2>2. [d EXCEPT !.mail = mail].purge = d.purge
    BY DEF PageStates
  <2> HIDE DEF p
  <2> QED BY <1>7, <2>1, <2>2
<1>9. CASE page[t].purge # "none"
  <2>1. page' = p
    <3> HIDE DEF p
    <3> QED BY <1>5, <1>8, <1>9 DEF Downloads!Purging
  <2>2. Turns(t, page[t].signed, page[t].purge, mail, page[t].removing)
    BY <1>4, <2>1, MailWritten
  <2> QED BY <1>2, <1>9, <2>2 DEF Begun, mail
<1>10. CASE page[t].purge = "none"
  <2>1. Begun(t) \in {"none", "waiting", "settled", "clearing", "outrun"}
    BY DEF Downloads!TypeOK, Begun
  <2>2. page' = [p EXCEPT ![t] = [p[t] EXCEPT !.purge = Begun(t)]]
    <3> HIDE DEF p
    <3> QED BY <1>5, <1>8, <1>10 DEF Downloads!Purging, Begun
  <2>3. page' = [page EXCEPT ![t] = [[page[t] EXCEPT !.mail = mail] EXCEPT !.purge = Begun(t)]]
    BY <1>3, <1>6, <2>2
  <2> DEFINE r == [[d EXCEPT !.mail = mail] EXCEPT !.purge = Begun(t)]
  <2>4. page' = [page EXCEPT ![t] = r]
    BY <2>3, <1>7
  <2>5. r.signed = d.signed /\ r.purge = Begun(t) /\ r.mail = mail /\ r.removing = d.removing
    BY DEF PageStates
  <2>6. r \in PageStates
    BY <1>4, <2>1 DEF PageStates
  <2> HIDE DEF r
  <2>7. Turns(t, r.signed, r.purge, r.mail, r.removing)
    BY <2>4, <2>6, Turned
  <2> QED BY <1>2, <1>7, <2>5, <2>7 DEF mail
<1> QED BY <1>9, <1>10

LEMMA RemovingDoes ==
    ASSUME Downloads!TypeOK, NEW t \in Tabs, NEW removing \in {"no", "entries", "record"},
           page' = [page EXCEPT ![t].removing = removing]
    PROVE  Turns(t, page[t].signed, page[t].purge, page[t].mail, removing)
<1>1. page' = [page EXCEPT ![t] = [page[t] EXCEPT !.removing = removing]]
  OBVIOUS
<1> QED BY <1>1, RemovingWritten

LEMMA PurgeRecordDoes ==
    ASSUME Downloads!TypeOK, NEW t \in Tabs, Downloads!PurgeRecord(t)
    PROVE  Turns(t, FALSE, "none", page[t].mail, page[t].removing)
<1>1. page' = [page EXCEPT ![t] = [page[t] EXCEPT !.purge = "none", !.signed = FALSE]]
  BY DEF Downloads!PurgeRecord
<1> DEFINE no == FALSE
           none == "none"
<1>2. no \in BOOLEAN /\ none \in {"none", "waiting", "settled", "clearing", "outrun"}
  OBVIOUS
<1>3. page' = [page EXCEPT ![t] = [page[t] EXCEPT !.purge = none, !.signed = no]]
  BY <1>1
<1> HIDE DEF no, none
<1>4. Turns(t, no, none, page[t].mail, page[t].removing)
  BY <1>2, <1>3, PurgeSignedWritten
<1> QED BY <1>4 DEF no, none

LEMMA PurgeCacheDoes ==
    ASSUME Downloads!TypeOK, NEW t \in Tabs, Downloads!PurgeCache(t)
    PROVE  /\ CutOff /\ \A o \in Tabs : dl'[o].dead = IF o = t THEN Downloads!Running(t) ELSE dl[o].dead
           /\ Turns(t, page[t].signed, "clearing", page[t].mail, page[t].removing)
<1>1. page' = [page EXCEPT ![t] = [page[t] EXCEPT !.purge = "clearing"]]
  BY DEF Downloads!PurgeCache
<1>2. Turns(t, page[t].signed, "clearing", page[t].mail, page[t].removing)
  BY <1>1, PurgeWritten
<1> QED BY <1>2, BumpedDoes DEF Downloads!PurgeCache

LEMMA HearPurgedDoes ==
    ASSUME Downloads!TypeOK, NEW t \in Tabs, Downloads!HearPurged(t)
    PROVE  Turns(t, page[t].signed, page[t].purge, page[t].mail \ {"purged"}, page[t].removing)
<1> DEFINE mail == page[t].mail \ {"purged"}
<1>1. page' = [page EXCEPT ![t] = [page[t] EXCEPT !.mail = mail]]
  BY DEF Downloads!HearPurged
<1>2. mail \in SUBSET {"unauthorized", "purged"}
  BY DlTyped DEF PageStates
<1> HIDE DEF mail
<1>3. Turns(t, page[t].signed, page[t].purge, mail, page[t].removing)
  BY <1>1, <1>2, MailWritten
<1> QED BY <1>3 DEF mail

LEMMA SignInDoes ==
    ASSUME Downloads!TypeOK, NEW t \in Tabs, Downloads!SignIn(t)
    PROVE  Turns(t, TRUE, page[t].purge, page[t].mail, page[t].removing)
<1>1. page' = [page EXCEPT ![t] = [page[t] EXCEPT !.signed = TRUE]]
  BY DEF Downloads!SignIn
<1> QED BY <1>1, SignedWritten

LEMMA CloseDoes ==
    ASSUME Downloads!TypeOK, NEW t \in Tabs, Downloads!Close(t)
    PROVE  Frees(t) /\ Turns(t, FALSE, "none", {}, "no")
<1> DEFINE r == [signed |-> FALSE, purge |-> "none", mail |-> {}, removing |-> "no"]
<1>1. Frees(t)
  BY FreesDoes DEF Downloads!Close
<1>2. r \in PageStates /\ page' = [page EXCEPT ![t] = r]
  BY DEF Downloads!Close, PageStates
<1>3. r.signed = FALSE /\ r.purge = "none" /\ r.mail = {} /\ r.removing = "no"
  OBVIOUS
<1> HIDE DEF r
<1>4. Turns(t, r.signed, r.purge, r.mail, r.removing)
  BY <1>2, Turned
<1> QED BY <1>1, <1>3, <1>4

\* Every tab has mail, and else is as it was.
Told(msg) ==
    /\ page' \in [Tabs -> PageStates]
    /\ \A o \in Tabs :
          /\ page'[o].signed = page[o].signed /\ page'[o].purge = page[o].purge
          /\ page'[o].mail = page[o].mail \cup {msg} /\ page'[o].removing = page[o].removing

LEMMA ToldDoes ==
    ASSUME Downloads!TypeOK, NEW msg \in {"unauthorized", "purged"}, page' = Downloads!ToldAll(msg)
    PROVE  Told(msg)
<1>1. page' = [o \in Tabs |-> [page[o] EXCEPT !.mail = page[o].mail \cup {msg}]]
  BY DEF Downloads!ToldAll
<1>2. ASSUME NEW o \in Tabs
      PROVE  /\ page'[o] \in PageStates
             /\ page'[o].signed = page[o].signed /\ page'[o].purge = page[o].purge
             /\ page'[o].mail = page[o].mail \cup {msg} /\ page'[o].removing = page[o].removing
  <2>1. PICK d \in PageStates : d = page[o]
    BY DlTyped
  <2> DEFINE r == [d EXCEPT !.mail = d.mail \cup {msg}]
  <2>2. page'[o] = r
    BY <1>1, <2>1
  <2>3. r.signed = d.signed /\ r.purge = d.purge /\ r.mail = d.mail \cup {msg} /\ r.removing = d.removing
    BY DEF PageStates
  <2>4. r \in PageStates
    BY DEF PageStates
  <2> HIDE DEF r
  <2> QED BY <2>1, <2>2, <2>3, <2>4
<1>3. page' \in [Tabs -> PageStates]
  BY <1>1, <1>2
<1> QED BY <1>2, <1>3 DEF Told

LEMMA EmptyReads ==
    ASSUME NEW stamp \in Users \cup {Nobody}
    PROVE  /\ Reads(Downloads!EmptyCache, Nobody, NoChunks, 0, 0, FALSE, {})
           /\ Reads([Downloads!EmptyCache EXCEPT !.stamp = stamp], stamp, NoChunks, 0, 0, FALSE, {})
<1> DEFINE e == Downloads!EmptyCache
<1>1. e.stamp = Nobody /\ e.chunk = NoChunks /\ e.meta = 0 /\ e.partial = 0 /\ e.detail = FALSE
      /\ e.whose = {}
  BY DEF Downloads!EmptyCache, NoChunks
<1>2. e \in Copies
  BY NoChunksTyped DEF Downloads!EmptyCache, NoChunks, Copies
<1>3. [Downloads!EmptyCache EXCEPT !.stamp = stamp] = WithStamp(e, stamp)
  BY DEF WithStamp
<1> HIDE DEF e
<1>4. Reads(WithStamp(e, stamp), stamp, e.chunk, e.meta, e.partial, e.detail, e.whose)
  BY <1>2, StampKept
<1>5. Reads(e, Nobody, NoChunks, 0, 0, FALSE, {})
  BY <1>1, <1>2 DEF Reads
<1> QED BY <1>1, <1>3, <1>4, <1>5 DEF e

-----------------------------------------------------------------------------
(* Types.                                                                   *)

\* What is small: everything but the downloads, the pages and the cache.
Rest ==
    /\ cookie \in Users \cup {Nobody} /\ edition \in Downloads!Editions
    /\ record \in Downloads!Records \cup {NoRecord}
    /\ look \in [Tabs -> Looks \cup {NoRecord}]
    /\ gate \in [ok : BOOLEAN, fresh : BOOLEAN, asking : Users \cup {Nobody}]
    /\ harm \in {"none", "storage", "track"} /\ emptied \in {"no", "cache", "both"}
    /\ budget \in [Downloads!Bounds -> Nat]

Large == dl \in [Tabs -> Attempts] /\ page \in [Tabs -> PageStates] /\ cache \in Copies

LEMMA TypeParts == Downloads!TypeOK <=> Rest /\ Large
BY DEF Downloads!TypeOK, Rest, Large, Attempts, Steps, PageStates, Copies, Looks

LEMMA SpendTyped ==
    ASSUME Rest, NEW what \in Downloads!Bounds, Downloads!Spend(what)
    PROVE  budget' \in [Downloads!Bounds -> Nat]
BY DEF Rest, Downloads!Spend, Downloads!Bounds

LEMMA SavedTyped ==
    ASSUME Rest, NEW t \in Tabs, NEW status \in Downloads!Statuses, NEW listed \in BOOLEAN,
           Downloads!Save(t, status, listed)
    PROVE  record' \in Downloads!Records \cup {NoRecord}
BY DEF Rest, Downloads!Save, Downloads!Records

LEMMA HarmTyped ==
    ASSUME Rest
    PROVE  /\ Downloads!Worse("storage") \in {"none", "storage", "track"}
           /\ Downloads!Worse("track") \in {"none", "storage", "track"}
           /\ Downloads!Unlisted => harm' \in {"none", "storage", "track"}
           /\ \A T : Downloads!HarmTo(T, "storage") \/ Downloads!HarmTo(T, "track") => harm' \in {"none", "storage", "track"}
BY DEF Rest, Downloads!Worse, Downloads!Unlisted, Downloads!HarmTo

LEMMA DownloadRest ==
    ASSUME Downloads!TypeOK, NEW t \in Tabs, Downloads!Download(t) PROVE Rest'
<1> USE DEF Downloads!others, Downloads!server
<1>1. Rest /\ dl[t].listed \in BOOLEAN
  BY TypeParts DEF Large, Attempts
<1>2. {"downloading", "cancelled", "error", "done"} \subseteq Downloads!Statuses /\ TRUE \in BOOLEAN
  BY DEF Downloads!Statuses
<1>3. record' \in Downloads!Records \cup {NoRecord}
  <2>1. CASE Downloads!Register(t)
    BY <1>1, <1>2, <2>1, SavedTyped DEF Downloads!Register, Rest
  <2>2. CASE Downloads!ManifestFails(t)
    BY <1>1, <1>2, <2>2, SavedTyped DEF Downloads!ManifestFails, Downloads!End
  <2>3. CASE Downloads!List(t)
    BY <1>1, <1>2, <2>3, SavedTyped DEF Downloads!List, Rest
  <2>4. CASE Downloads!Notice(t)
    BY <1>1, <1>2, <2>4, SavedTyped DEF Downloads!Notice, Downloads!End
  <2>5. CASE Downloads!FetchChunk(t)
    BY <1>1, <1>2, <2>5, SavedTyped DEF Downloads!FetchChunk, Downloads!End, Rest
  <2>6. CASE Downloads!FetchRefused(t)
    BY <1>1, <1>2, <2>6, SavedTyped DEF Downloads!FetchRefused
  <2>7. CASE Downloads!Finish(t)
    BY <1>1, <1>2, <2>7, SavedTyped DEF Downloads!Finish, Downloads!End
  <2>8. CASE \/ Downloads!Manifest(t) \/ Downloads!ManifestRefused(t) \/ Downloads!Open(t) \/ Downloads!Track(t) \/ Downloads!Wipe(t) \/ Downloads!KeepChunk(t)
             \/ Downloads!StoreChunk(t) \/ Downloads!MarkTrack(t) \/ Downloads!Detail(t)
    BY <1>1, <2>8 DEF Downloads!Manifest, Downloads!ManifestRefused, Downloads!Open,
                      Downloads!Track, Downloads!Wipe, Downloads!KeepChunk, Downloads!StoreChunk, Downloads!MarkTrack,
                      Downloads!Detail, Rest
  <2> QED BY <2>1, <2>2, <2>3, <2>4, <2>5, <2>6, <2>7, <2>8 DEF Downloads!Download
<1>4. /\ cookie' = cookie /\ edition' = edition /\ look' = look /\ gate' = gate /\ harm' = harm
      /\ emptied' = emptied /\ budget' = budget
  BY DEF Downloads!Download, Downloads!Register, Downloads!Manifest, Downloads!ManifestRefused,
         Downloads!ManifestFails, Downloads!List, Downloads!Open, Downloads!Notice, Downloads!Track,
         Downloads!Wipe, Downloads!KeepChunk, Downloads!FetchChunk, Downloads!StoreChunk,
         Downloads!MarkTrack, Downloads!Detail, Downloads!FetchRefused, Downloads!Finish
<1> QED BY <1>1, <1>3, <1>4 DEF Rest

LEMMA TabRest ==
    ASSUME Downloads!TypeOK, NEW t \in Tabs,
           \/ Downloads!Start(t) \/ Downloads!GiveUp(t) \/ Downloads!Cancel(t) \/ Downloads!Look(t) \/ Downloads!Tell(t)
           \/ Downloads!Remove(t) \/ Downloads!RemoveEntries(t) \/ Downloads!RemoveRecord(t)
           \/ Downloads!Unauthorized(t) \/ Downloads!PurgeCache(t) \/ Downloads!PurgeRecord(t) \/ Downloads!SignOut(t)
           \/ Downloads!HearUnauthorized(t) \/ Downloads!HearPurged(t) \/ Downloads!SignIn(t) \/ Downloads!Close(t)
    PROVE  Rest'
<1> USE DEF Downloads!server
<1>1. Rest /\ dl[t].listed \in BOOLEAN
  BY TypeParts DEF Large, Attempts
<1>2. {"starts", "accounts", "mishaps", "acts", "checks"} \subseteq Downloads!Bounds
  BY DEF Downloads!Bounds
<1>3. CASE Downloads!Start(t)
  BY <1>1, <1>2, <1>3, SpendTyped DEF Downloads!Start, Rest
<1>4. CASE Downloads!GiveUp(t)
  <2>1. record' \in Downloads!Records \cup {NoRecord}
    BY <1>1, <1>4, SavedTyped DEF Downloads!GiveUp, Downloads!End, Downloads!Statuses
  <2> QED BY <1>1, <1>2, <1>4, <2>1, SpendTyped DEF Downloads!GiveUp, Rest
<1>5. CASE Downloads!Cancel(t)
  BY <1>1, <1>2, <1>5, SpendTyped DEF Downloads!Cancel, Rest
<1>6. CASE Downloads!Look(t)
  <2>1. record \in Downloads!Records
    BY <1>1, <1>6 DEF Rest, Downloads!Look, Downloads!Is
  <2>2. record.listed \in BOOLEAN
    BY <2>1 DEF Downloads!Records
  <2>3. PICK status \in {"interrupted", "cancelled"} :
            look' = [look EXCEPT ![t] = [status |-> status, listed |-> record.listed]]
    BY <1>6 DEF Downloads!Look
  <2>4. [status |-> status, listed |-> record.listed] \in Looks
    BY <2>2 DEF Looks
  <2>5. look' \in [Tabs -> Looks \cup {NoRecord}]
    BY <1>1, <2>3, <2>4 DEF Rest
  <2> QED BY <1>1, <1>2, <1>6, <2>5, SpendTyped DEF Downloads!Look, Rest
<1>7. CASE Downloads!Tell(t)
  <2>1. look[t] \in Looks
    BY <1>1, <1>7 DEF Downloads!Tell, Rest
  <2>2. look[t] \in Downloads!Records
    BY <2>1 DEF Looks, Downloads!Records, Downloads!Statuses
  <2> QED BY <1>1, <1>7, <2>2, HarmTyped DEF Downloads!Tell, Rest
<1>8. CASE Downloads!Remove(t)
  BY <1>1, <1>2, <1>8, SpendTyped DEF Downloads!Remove, Rest
<1>9. CASE Downloads!RemoveEntries(t)
  BY <1>1, <1>9, HarmTyped DEF Downloads!RemoveEntries, Rest
<1>10. CASE Downloads!RemoveRecord(t)
  BY <1>1, <1>10, HarmTyped DEF Downloads!RemoveRecord, Rest
<1>11. CASE Downloads!Unauthorized(t)
  BY <1>1, <1>11 DEF Downloads!Unauthorized, Rest
<1>12. CASE Downloads!PurgeCache(t)
  BY <1>1, <1>12, HarmTyped DEF Downloads!PurgeCache, Rest
<1>13. CASE Downloads!PurgeRecord(t)
  BY <1>1, <1>13, HarmTyped DEF Downloads!PurgeRecord, Rest
<1>14. CASE Downloads!SignOut(t)
  BY <1>1, <1>2, <1>14, SpendTyped DEF Downloads!SignOut, Rest
<1>15. CASE Downloads!HearUnauthorized(t)
  BY <1>1, <1>15 DEF Downloads!HearUnauthorized, Rest
<1>16. CASE Downloads!HearPurged(t)
  BY <1>1, <1>16, HarmTyped DEF Downloads!HearPurged, Rest
<1>17. CASE Downloads!SignIn(t)
  BY <1>1, <1>2, <1>17, SpendTyped DEF Downloads!SignIn, Rest
<1>18. CASE Downloads!Close(t)
  BY <1>1, <1>2, <1>18, SpendTyped, HarmTyped DEF Downloads!Close, Rest
<1> QED BY <1>3, <1>4, <1>5, <1>6, <1>7, <1>8, <1>9, <1>10, <1>11, <1>12, <1>13, <1>14, <1>15,
           <1>16, <1>17, <1>18

Verdicts == [ok : BOOLEAN, fresh : BOOLEAN, asking : Users \cup {Nobody}]

LEMMA VerdictsTyped ==
    ASSUME NEW g \in Verdicts, NEW u \in Users \cup {Nobody}, NEW ok \in BOOLEAN,
           NEW fresh \in BOOLEAN
    PROVE  /\ [g EXCEPT !.asking = u] \in Verdicts /\ [g EXCEPT !.fresh = fresh] \in Verdicts
           /\ [ok |-> ok, fresh |-> fresh, asking |-> Nobody] \in Verdicts
BY DEF Verdicts

LEMMA GlobalRest ==
    ASSUME Downloads!TypeOK,
           Downloads!Check \/ Downloads!Reconcile \/ Downloads!Stale \/ Downloads!AccountChanges \/ Downloads!FileReplaced
    PROVE  Rest'
<1> USE DEF Downloads!server
<1>1. Rest
  BY TypeParts
<1>2. {"starts", "accounts", "mishaps", "acts", "checks"} \subseteq Downloads!Bounds
  BY DEF Downloads!Bounds
<1>3. CASE Downloads!Check
  <2>1. gate' \in [ok : BOOLEAN, fresh : BOOLEAN, asking : Users \cup {Nobody}]
    <3>1. gate \in Verdicts /\ cookie \in Users \cup {Nobody}
      BY <1>1 DEF Rest, Verdicts
    <3>2. gate' = [gate EXCEPT !.asking = cookie] \/ gate' = [ok |-> FALSE, fresh |-> TRUE, asking |-> Nobody]
      BY <1>3 DEF Downloads!Check
    <3>3. [gate EXCEPT !.asking = cookie] \in Verdicts
      BY <3>1, VerdictsTyped
    <3>4. [ok |-> FALSE, fresh |-> TRUE, asking |-> Nobody] \in Verdicts
      BY DEF Verdicts
    <3>5. gate' \in Verdicts
      BY <3>2, <3>3, <3>4
    <3> QED BY <3>5 DEF Verdicts
  <2> QED BY <1>1, <1>3, <2>1, HarmTyped DEF Downloads!Check, Rest
<1>4. CASE Downloads!Reconcile
  BY <1>1, <1>4, HarmTyped DEF Downloads!Reconcile, Rest
<1>5. CASE Downloads!Stale
  <2>1. gate' \in [ok : BOOLEAN, fresh : BOOLEAN, asking : Users \cup {Nobody}]
    <3>1. gate \in Verdicts /\ FALSE \in BOOLEAN
      BY <1>1 DEF Rest, Verdicts
    <3>2. gate' = [gate EXCEPT !.fresh = FALSE] \/ gate' = [ok |-> TRUE, fresh |-> FALSE, asking |-> Nobody]
      BY <1>5 DEF Downloads!Stale
    <3>3. [gate EXCEPT !.fresh = FALSE] \in Verdicts
      BY <3>1 DEF Verdicts
    <3>4. [ok |-> TRUE, fresh |-> FALSE, asking |-> Nobody] \in Verdicts
      BY DEF Verdicts
    <3>5. gate' \in Verdicts
      BY <3>2, <3>3, <3>4
    <3> QED BY <3>5 DEF Verdicts
  <2> QED BY <1>1, <1>2, <1>5, <2>1, SpendTyped DEF Downloads!Stale, Rest
<1>6. CASE Downloads!AccountChanges
  BY <1>1, <1>2, <1>6, SpendTyped DEF Downloads!AccountChanges, Rest
<1>7. CASE Downloads!FileReplaced
  BY CopyAssumption, <1>1, <1>2, <1>7, SpendTyped
     DEF Downloads!FileReplaced, Rest, Downloads!Editions, CopyParameters
<1> QED BY <1>3, <1>4, <1>5, <1>6, <1>7

-----------------------------------------------------------------------------
(* Where downloads have got to.                                             *)

LEMMA StagesStaged == Stages <=> \A t \in Tabs : Staged(t)
BY DEF Stages, Staged

\* What the step of one tab needs to keep of the others: they do not run, and so have no stage.
LEMMA OthersStaged ==
    ASSUME Stages, NEW t \in Tabs, NEW o \in Tabs,
           dl'[o] = dl[o], page'[o] = page[o], Downloads!Running(o) => ~Downloads!Is("done")'
    PROVE  Staged(o)'
BY DEF Stages, Staged, Downloads!Running

\* A step that starts nothing.
LEMMA StillOne ==
    ASSUME OneRuns, NEW t \in Tabs, \A o \in Tabs : o # t => dl'[o] = dl[o],
           Downloads!Running(t)' => Downloads!Running(t)
    PROVE  OneRuns'
BY DEF OneRuns, Downloads!Running

\* Save never says done but at the end.
LEMMA SaveIsNotDone ==
    ASSUME Stages, NEW t \in Tabs, NEW status \in Downloads!Statuses, status # "done", NEW listed,
           Downloads!Running(t), Downloads!Save(t, status, listed), NoRecord \notin Downloads!Records, listed \in BOOLEAN
    PROVE  ~Downloads!Is("done")'
<1>1. [status |-> status, listed |-> listed].status = status
  OBVIOUS
<1> QED BY <1>1 DEF Downloads!Save, Stages, Staged, Downloads!Is

LEMMA DownloadStages ==
    ASSUME Stored, NEW t \in Tabs, Downloads!Download(t)
    PROVE  Large' /\ Stages' /\ OneRuns'
<1> USE DEF Stored, Downloads!others, Downloads!server
<1>1. /\ Downloads!Running(t) /\ Large /\ Staged(t) /\ \A o \in Tabs : o # t => ~Downloads!Running(o)
      /\ dl[t].listed \in BOOLEAN
  BY TypeParts, StagesStaged
     DEF Downloads!Download, Downloads!Register, Downloads!Manifest, Downloads!ManifestRefused, Downloads!ManifestFails, Downloads!List, Downloads!Open, Downloads!Notice, Downloads!Track,
         Downloads!Wipe, Downloads!KeepChunk, Downloads!FetchChunk, Downloads!StoreChunk, Downloads!MarkTrack, Downloads!Detail, Downloads!FetchRefused, Downloads!Finish, Downloads!Running,
         OneRuns, Large, Attempts
<1>2. SUFFICES ASSUME TRUE PROVE Large' /\ Staged(t)' /\ (\A o \in Tabs : o # t => dl'[o] = dl[o] /\ page'[o] = page[o])
  <2>1. ASSUME NEW o \in Tabs, o # t, dl'[o] = dl[o], page'[o] = page[o] PROVE Staged(o)'
    <3>1. ~Downloads!Running(o)
      BY <1>1, <2>1
    <3> QED BY <2>1, <3>1, OthersStaged
  <2>2. ASSUME \A o \in Tabs : o # t => dl'[o] = dl[o] PROVE OneRuns'
    BY <1>1, <2>2, StillOne
  <2> QED BY <2>1, <2>2 DEF Stages, Staged
<1>3. CASE Downloads!Register(t)
  <2>1. CASE dl[t].aborted \/ dl[t].dead
    <3>1. Ends(t) /\ cache' = cache
      BY <1>3, <2>1, SettleDoes DEF Downloads!Register
    <3> QED BY <1>1, <3>1 DEF Ends, Frees, Becomes, Turns, Staged, Large, Downloads!Running
  <2>2. CASE ~dl[t].aborted /\ ~dl[t].dead
    <3>1. Advances(t, "asking") /\ page' = page /\ cache' = cache
      BY <1>3, <2>2, AdvancesDoes DEF Downloads!Register
    <3>2. dl[t].at = "registering" /\ page[t].purge # "settled"
      BY <1>3 DEF Downloads!Register
    <3>3. ~Downloads!Is("done")'
      BY CopyAssumption, <1>1, <1>3, <2>2, SaveIsNotDone
         DEF Downloads!Register, CopyParameters, Downloads!Statuses
    <3> QED BY <1>1, <2>2, <3>1, <3>2, <3>3 DEF Advances, Becomes, Staged, Large, Downloads!Running
  <2> QED BY <2>1, <2>2
<1>4. CASE Downloads!Manifest(t)
  <2>1. /\ Becomes(t, "listing", dl[t].next, edition, dl[t].listed, dl[t].aborted, dl[t].dead,
                   dl[t].attached, dl[t].by)
        /\ page' = page /\ cache' = cache /\ record' = record /\ dl[t].at = "asking" /\ edition \in Downloads!Editions
    BY <1>4, ManifestDoes, TypeParts DEF Downloads!Manifest, Rest
  <2> QED BY <1>1, <2>1 DEF Becomes, Staged, Large, Downloads!Running, Downloads!Is
<1>5. CASE Downloads!ManifestRefused(t)
  <2>1. /\ Becomes(t, "refused", dl[t].next, dl[t].ed, dl[t].listed, page[t].purge = "none",
                   dl[t].dead, dl[t].attached, dl[t].by)
        /\ Turns(t, page[t].signed, Begun(t), page[t].mail, page[t].removing)
        /\ cache' = cache /\ record' = record /\ dl[t].at = "asking"
    BY <1>5, ManifestRefusedDoes DEF Downloads!ManifestRefused
  <2> QED BY <1>1, <2>1 DEF Becomes, Turns, Begun, Staged, Large, Downloads!Running, Downloads!Is
<1>6. CASE Downloads!ManifestFails(t)
  <2>1. Ends(t) /\ cache' = cache
    BY <1>6, EndDoes DEF Downloads!ManifestFails
  <2> QED BY <1>1, <2>1 DEF Ends, Frees, Becomes, Turns, Staged, Large, Downloads!Running
<1>7. CASE Downloads!List(t)
  <2>1. CASE dl[t].aborted \/ dl[t].dead
    <3>1. Ends(t) /\ cache' = cache
      BY <1>7, <2>1, SettleDoes DEF Downloads!List
    <3> QED BY <1>1, <3>1 DEF Ends, Frees, Becomes, Turns, Staged, Large, Downloads!Running
  <2>2. CASE ~dl[t].aborted /\ ~dl[t].dead
    <3>1. /\ Becomes(t, "opening", dl[t].next, dl[t].ed, TRUE, dl[t].aborted, dl[t].dead,
                     dl[t].attached, dl[t].by)
          /\ page' = page /\ cache' = cache
      BY <1>7, <2>2, ListDoes DEF Downloads!List
    <3>2. ~Downloads!Is("done")'
      BY CopyAssumption, <1>1, <1>7, <2>2, SaveIsNotDone
         DEF Downloads!List, CopyParameters, Downloads!Statuses
    <3>3. dl[t].at = "listing"
      BY <1>7 DEF Downloads!List
    <3> QED BY <1>1, <2>2, <3>1, <3>2, <3>3 DEF Becomes, Staged, Large, Downloads!Running
  <2> QED BY <2>1, <2>2
<1>8. CASE Downloads!Open(t)
  <2>1. /\ Becomes(t, "track", dl[t].next, dl[t].ed, dl[t].listed, dl[t].aborted, dl[t].dead,
                   TRUE, dl[t].by)
        /\ page' = page /\ cache' = cache /\ record' = record /\ dl[t].at = "opening"
    BY <1>8, OpenDoes DEF Downloads!Open
  <2> QED BY <1>1, <2>1 DEF Becomes, Staged, Large, Downloads!Running, Downloads!Is
<1>9. CASE Downloads!Notice(t)
  <2>1. Ends(t) /\ cache' = cache
    BY <1>9, EndDoes DEF Downloads!Notice
  <2> QED BY <1>1, <2>1 DEF Ends, Frees, Becomes, Turns, Staged, Large, Downloads!Running
<1>10. CASE Downloads!Track(t)
  <2>1. /\ Advances(t, "detail") \/ Advances(t, "wiping") \/ Advances(t, "chunk")
        /\ (cache' = cache \/ cache' \in Copies)
        /\ page' = page /\ record' = record /\ dl[t].at = "track"
    BY <1>10, TrackDoes DEF Downloads!Track, Stores, Holds, Reads
  <2> QED BY <1>1, <2>1 DEF Advances, Becomes, Staged, Large, Downloads!Running, Downloads!Is
<1>11. CASE Downloads!Wipe(t)
  <2>1. /\ Advances(t, "chunk") /\ (cache' = cache \/ cache' \in Copies)
        /\ page' = page /\ record' = record /\ dl[t].at = "wiping"
    BY <1>11, WipeDoes DEF Downloads!Wipe, Stores, Holds, Reads
  <2> QED BY <1>1, <2>1 DEF Advances, Becomes, Staged, Large, Downloads!Running, Downloads!Is
<1>12. CASE Downloads!KeepChunk(t)
  <2>1. /\ Becomes(t, dl[t].at, dl[t].next + 1, dl[t].ed, dl[t].listed, dl[t].aborted, dl[t].dead,
                   dl[t].attached, dl[t].by)
        /\ page' = page /\ cache' = cache /\ record' = record /\ dl[t].at = "chunk"
    BY <1>12, KeepChunkDoes DEF Downloads!KeepChunk
  <2> QED BY <1>1, <2>1 DEF Becomes, Staged, Large, Downloads!Running, Downloads!Is
<1>13. CASE Downloads!FetchChunk(t)
  <2>1. dl[t].at = "chunk" /\ dl[t].next <= Chunks /\ cookie # Nobody /\ cookie \in Users \cup {Nobody}
    BY <1>13, TypeParts DEF Downloads!FetchChunk, Rest
  <2>2. CASE /\ Becomes(t, "storing", dl[t].next, dl[t].ed, dl[t].listed, dl[t].aborted, dl[t].dead,
                         dl[t].attached, cookie)
             /\ Stores(t, [cache.chunk EXCEPT ![dl[t].next] = 0], cache.meta, cache.partial,
                       cache.detail, cache.whose)
             /\ page' = page /\ record' = record
    BY <1>1, <2>1, <2>2 DEF Becomes, Stores, Holds, Reads, Staged, Large, Downloads!Running,
                            Downloads!Is
  <2>3. CASE /\ Ends(t) /\ Downloads!Save(t, "error", dl[t].listed)
             /\ Stores(t, NoChunks, 0, 0, cache.detail, Left)
    BY <1>1, <2>3 DEF Ends, Frees, Becomes, Turns, Stores, Holds, Reads, Staged, Large,
                      Downloads!Running
  <2> QED BY <1>13, <2>2, <2>3, FetchChunkDoes
<1>14. CASE Downloads!StoreChunk(t)
  <2>1. /\ Becomes(t, "chunk", dl[t].next + 1, dl[t].ed, dl[t].listed, dl[t].aborted, dl[t].dead,
                   dl[t].attached, Nobody)
        /\ (cache' = cache \/ cache' \in Copies)
        /\ page' = page /\ record' = record /\ dl[t].at = "storing"
    BY <1>14, StoreChunkDoes DEF Downloads!StoreChunk, Stores, Holds, Reads
  <2> QED BY <1>1, <2>1 DEF Becomes, Staged, Large, Downloads!Running, Downloads!Is
<1>15. CASE Downloads!MarkTrack(t)
  <2>1. /\ Advances(t, "detail") /\ (cache' = cache \/ cache' \in Copies)
        /\ page' = page /\ record' = record /\ dl[t].at = "chunk"
    BY <1>15, MarkTrackDoes DEF Downloads!MarkTrack, Stores, Holds, Reads
  <2> QED BY <1>1, <2>1 DEF Advances, Becomes, Staged, Large, Downloads!Running, Downloads!Is
<1>16. CASE Downloads!Detail(t)
  <2>1. /\ Advances(t, "finishing") /\ (cache' = cache \/ cache' \in Copies)
        /\ page' = page /\ record' = record /\ dl[t].at = "detail"
    BY <1>16, DetailDoes DEF Downloads!Detail, Stores, Holds, Reads
  <2> QED BY <1>1, <2>1 DEF Advances, Becomes, Staged, Large, Downloads!Running, Downloads!Is
<1>17. CASE Downloads!FetchRefused(t)
  <2>1. /\ Frees(t) /\ cache' = cache
        /\ Turns(t, page[t].signed,
                 IF page[t].purge \in {"none", "waiting"} THEN "settled" ELSE page[t].purge,
                 page[t].mail, page[t].removing)
    BY <1>17, FetchRefusedDoes DEF Downloads!FetchRefused
  <2> QED BY <1>1, <2>1 DEF Frees, Becomes, Turns, Staged, Large, Downloads!Running
<1>18. CASE Downloads!Finish(t)
  <2>1. Ends(t) /\ cache' = cache
    BY <1>18, EndDoes DEF Downloads!Finish
  <2> QED BY <1>1, <2>1 DEF Ends, Frees, Becomes, Turns, Staged, Large, Downloads!Running
<1> QED BY <1>3, <1>4, <1>5, <1>6, <1>7, <1>8, <1>9, <1>10, <1>11, <1>12, <1>13, <1>14, <1>15,
           <1>16, <1>17, <1>18 DEF Downloads!Download

\* Stages do not change where only the handles, the mail or what is told of it do.
LEMMA SameStaged ==
    ASSUME Stages, NEW o \in Tabs,
           dl'[o].at = dl[o].at, dl'[o].next = dl[o].next, dl'[o].ed = dl[o].ed,
           dl'[o].listed = dl[o].listed, dl'[o].dead = dl[o].dead, dl'[o].by = dl[o].by,
           dl'[o].attached => dl[o].attached,
           page'[o].purge \in {page[o].purge, "none", "outrun", "waiting"}
               \/ (page'[o].purge = "settled" /\ ~Downloads!Running(o)),
           Downloads!Is("done")' => Downloads!Is("done")
    PROVE  Staged(o)'
BY DEF Stages, Staged, Downloads!Running

LEMMA TabStages ==
    ASSUME Stored, NEW t \in Tabs,
           \/ Downloads!GiveUp(t) \/ Downloads!Cancel(t) \/ Downloads!Look(t) \/ Downloads!Tell(t)
           \/ Downloads!Remove(t) \/ Downloads!RemoveEntries(t) \/ Downloads!RemoveRecord(t)
           \/ Downloads!Unauthorized(t) \/ Downloads!PurgeRecord(t) \/ Downloads!SignOut(t)
           \/ Downloads!HearUnauthorized(t) \/ Downloads!HearPurged(t) \/ Downloads!SignIn(t) \/ Downloads!Close(t)
    PROVE  Large' /\ Stages' /\ OneRuns'
<1> USE DEF Stored, Downloads!server
<1>1. Large /\ dl[t].listed \in BOOLEAN
  BY TypeParts DEF Large, Attempts
<1>2. CASE Downloads!GiveUp(t)
  <2>1. Ends(t) /\ Downloads!Save(t, "error", dl[t].listed) /\ cache' = cache /\ Downloads!Running(t)
    BY <1>2, EndDoes DEF Downloads!GiveUp, Downloads!Running
  <2>2. Staged(t)' /\ Large'
    BY <1>1, <2>1 DEF Ends, Frees, Becomes, Turns, Staged, Large, Downloads!Running
  <2>3. \A o \in Tabs : o # t => Staged(o)'
    <3> SUFFICES ASSUME NEW o \in Tabs, o # t PROVE Staged(o)'
      OBVIOUS
    <3>1. dl'[o] = dl[o] /\ page'[o] = page[o] /\ ~Downloads!Running(o)
      BY <2>1 DEF Ends, Frees, Becomes, Turns, OneRuns
    <3> QED BY <3>1, OthersStaged
  <2>4. OneRuns'
    BY <2>1, StillOne DEF Ends, Frees, Becomes
  <2> QED BY <2>2, <2>3, <2>4 DEF Stages, Staged
<1>3. CASE Downloads!Cancel(t)
  <2>1. Aborts(t, TRUE) /\ page' = page /\ cache' = cache /\ record' = record
    BY <1>3, CancelDoes DEF Downloads!Cancel
  <2>2. Large' /\ \A o \in Tabs : dl'[o].at = dl[o].at
    BY <1>1, <2>1 DEF Aborts, Becomes, Large
  <2>3. ASSUME NEW o \in Tabs PROVE Staged(o)'
    BY <2>1, SameStaged DEF Aborts, Becomes, Downloads!Is
  <2> QED BY <2>2, <2>3 DEF Stages, Staged, OneRuns, Downloads!Running
<1>4. CASE Downloads!Look(t)
  <2>1. dl' = dl /\ page' = page /\ cache' = cache /\ record' = record
    BY <1>4 DEF Downloads!Look
  <2> QED BY <1>1, <2>1 DEF Large, Stages, Staged, OneRuns, Downloads!Running, Downloads!Is
<1>5. CASE Downloads!Tell(t)
  <2>1. dl' = dl /\ page' = page /\ cache' = cache
    BY <1>5 DEF Downloads!Tell
  <2>2. Downloads!Is("done")' => Downloads!Is("done")
    <3>1. look[t] \in Looks
      BY <1>5, TypeParts DEF Downloads!Tell, Rest
    <3> QED BY <1>5, <3>1 DEF Downloads!Tell, Downloads!Is, Looks
  <2>3. ASSUME NEW o \in Tabs PROVE Staged(o)'
    BY <2>1, <2>2, SameStaged
  <2> QED BY <1>1, <2>1, <2>3 DEF Large, Stages, Staged, OneRuns, Downloads!Running
<1>6. CASE Downloads!Remove(t)
  <2>1. dl' = dl /\ cache' = cache /\ record' = record
    BY <1>6 DEF Downloads!Remove
  <2> DEFINE removing == IF record.listed THEN "entries" ELSE "record"
  <2>2. page' = [page EXCEPT ![t].removing = removing] /\ removing \in {"no", "entries", "record"}
    BY <1>6 DEF Downloads!Remove
  <2> HIDE DEF removing
  <2>3. Turns(t, page[t].signed, page[t].purge, page[t].mail, removing)
    BY <2>2, RemovingDoes
  <2>4. ASSUME NEW o \in Tabs PROVE Staged(o)'
    BY <2>1, <2>3, SameStaged DEF Turns, Downloads!Is
  <2> QED BY <1>1, <2>1, <2>3, <2>4 DEF Large, Stages, Staged, OneRuns, Downloads!Running, Turns
<1>7. CASE Downloads!RemoveEntries(t)
  <2>1. dl' = dl /\ record' = record /\ cache' \in Copies
    <3>1. cache' = [Downloads!EmptyCache EXCEPT !.stamp = cache.stamp] /\ cache.stamp \in Users \cup {Nobody}
      BY <1>1, <1>7 DEF Downloads!RemoveEntries, Downloads!WithoutBook, Large, Copies
    <3> QED BY <1>7, <3>1, EmptyReads DEF Downloads!RemoveEntries, Reads
  <2>2. Turns(t, page[t].signed, page[t].purge, page[t].mail, "record")
    BY <1>7, RemovingDoes DEF Downloads!RemoveEntries
  <2>3. ASSUME NEW o \in Tabs PROVE Staged(o)'
    BY <2>1, <2>2, SameStaged DEF Turns, Downloads!Is
  <2> QED BY <1>1, <2>1, <2>2, <2>3 DEF Large, Stages, Staged, OneRuns, Downloads!Running, Turns
<1>8. CASE Downloads!RemoveRecord(t)
  <2>1. dl' = dl /\ cache' = cache /\ record' = NoRecord
    BY <1>8 DEF Downloads!RemoveRecord
  <2>2. Turns(t, page[t].signed, page[t].purge, page[t].mail, "no")
    BY <1>8, RemovingDoes DEF Downloads!RemoveRecord
  <2>3. ASSUME NEW o \in Tabs PROVE Staged(o)'
    BY <2>1, <2>2, SameStaged DEF Turns, Downloads!Is
  <2> QED BY <1>1, <2>1, <2>2, <2>3 DEF Large, Stages, Staged, OneRuns, Downloads!Running, Turns
<1>9. CASE Downloads!Unauthorized(t) \/ Downloads!SignOut(t)
  <2>1. /\ Aborts(t, Downloads!Running(t))
        /\ Turns(t, page[t].signed, Begun(t), page[t].mail, page[t].removing)
        /\ cache' = cache /\ record' = record /\ page[t].purge = "none"
    BY <1>9, PurgeBegins DEF Downloads!Unauthorized, Downloads!SignOut
  <2>2. Large' /\ \A o \in Tabs : dl'[o].at = dl[o].at
    BY <1>1, <2>1 DEF Aborts, Becomes, Large, Turns
  <2>3. ASSUME NEW o \in Tabs PROVE Staged(o)'
    BY <2>1, SameStaged DEF Aborts, Becomes, Turns, Begun, Downloads!Is
  <2> QED BY <2>2, <2>3 DEF Stages, Staged, OneRuns, Downloads!Running
<1>10. CASE Downloads!PurgeRecord(t)
  <2>1. /\ Turns(t, FALSE, "none", page[t].mail, page[t].removing)
        /\ dl' = dl /\ cache' = cache /\ record' = NoRecord
    BY <1>10, PurgeRecordDoes DEF Downloads!PurgeRecord
  <2>2. ASSUME NEW o \in Tabs PROVE Staged(o)'
    BY <2>1, SameStaged DEF Turns, Downloads!Is
  <2> QED BY <1>1, <2>1, <2>2 DEF Large, Stages, Staged, OneRuns, Downloads!Running, Turns
<1>11. CASE Downloads!HearUnauthorized(t)
  <2>1. /\ Aborts(t, dl[t].aborted \/ (Downloads!Running(t) /\ page[t].purge = "none"))
        /\ Turns(t, page[t].signed, Begun(t), page[t].mail \ {"unauthorized"}, page[t].removing)
        /\ cache' = cache /\ record' = record
    BY <1>11, HearUnauthorizedDoes DEF Downloads!HearUnauthorized
  <2>2. Large' /\ \A o \in Tabs : dl'[o].at = dl[o].at
    BY <1>1, <2>1 DEF Aborts, Becomes, Large, Turns
  <2>3. ASSUME NEW o \in Tabs PROVE Staged(o)'
    BY <2>1, SameStaged DEF Aborts, Becomes, Turns, Begun, Downloads!Is
  <2> QED BY <2>2, <2>3 DEF Stages, Staged, OneRuns, Downloads!Running
<1>12. CASE Downloads!HearPurged(t)
  <2>1. /\ Turns(t, page[t].signed, page[t].purge, page[t].mail \ {"purged"}, page[t].removing)
        /\ dl' = dl /\ cache' = cache /\ record' = NoRecord
    BY <1>12, HearPurgedDoes DEF Downloads!HearPurged
  <2>2. ASSUME NEW o \in Tabs PROVE Staged(o)'
    BY <2>1, SameStaged DEF Turns, Downloads!Is
  <2> QED BY <1>1, <2>1, <2>2 DEF Large, Stages, Staged, OneRuns, Downloads!Running, Turns
<1>13. CASE Downloads!SignIn(t)
  <2>1. /\ Turns(t, TRUE, page[t].purge, page[t].mail, page[t].removing)
        /\ dl' = dl /\ cache' = cache /\ record' = record
    BY <1>13, SignInDoes DEF Downloads!SignIn
  <2>2. ASSUME NEW o \in Tabs PROVE Staged(o)'
    BY <2>1, SameStaged DEF Turns, Downloads!Is
  <2> QED BY <1>1, <2>1, <2>2 DEF Large, Stages, Staged, OneRuns, Downloads!Running, Turns
<1>14. CASE Downloads!Close(t)
  <2>1. Frees(t) /\ Turns(t, FALSE, "none", {}, "no") /\ cache' = cache /\ record' = record
    BY <1>14, CloseDoes DEF Downloads!Close
  <2>2. Staged(t)' /\ Large'
    BY <1>1, <2>1 DEF Frees, Becomes, Turns, Staged, Large, Downloads!Running
  <2>3. \A o \in Tabs : o # t => Staged(o)'
    BY <2>1, SameStaged DEF Frees, Becomes, Turns, Downloads!Is
  <2>4. OneRuns'
    BY <2>1, StillOne DEF Frees, Becomes, Downloads!Running
  <2> QED BY <2>2, <2>3, <2>4 DEF Stages, Staged
<1> QED BY <1>2, <1>3, <1>4, <1>5, <1>6, <1>7, <1>8, <1>9, <1>10, <1>11, <1>12, <1>13, <1>14

LEMMA StartStages ==
    ASSUME Stored, NEW t \in Tabs, Downloads!Start(t)
    PROVE  Large' /\ Stages' /\ OneRuns'
<1> USE DEF Stored, Downloads!server
<1>1. Large /\ \A o \in Tabs : ~Downloads!Running(o)
  BY TypeParts DEF Downloads!Start
<1>2. /\ Becomes(t, "registering", 1, 0, Downloads!ListedSoFar, FALSE, FALSE, FALSE, Nobody)
      /\ Turns(t, page[t].signed, IF page[t].purge = "clearing" THEN "outrun" ELSE page[t].purge,
               page[t].mail, page[t].removing)
      /\ cache' = cache /\ record' = record /\ ~Downloads!Is("done")
  BY StartDoes DEF Downloads!Start
<1>3. Staged(t)' /\ Large'
  BY <1>1, <1>2 DEF Becomes, Turns, Staged, Large, Downloads!Running, Downloads!Is
<1>4. ASSUME NEW o \in Tabs, o # t PROVE Staged(o)' /\ ~Downloads!Running(o)'
  <2>1. dl'[o] = dl[o] /\ page'[o] = page[o] /\ ~Downloads!Running(o)
    BY <1>1, <1>2, <1>4 DEF Becomes, Turns
  <2> QED BY <2>1, OthersStaged DEF Downloads!Running
<1>5. OneRuns'
  BY <1>4 DEF OneRuns
<1> QED BY <1>3, <1>4, <1>5 DEF Stages, Staged

LEMMA PurgeCacheStages ==
    ASSUME Stored, NEW t \in Tabs, Downloads!PurgeCache(t)
    PROVE  Large' /\ Stages' /\ OneRuns'
<1> USE DEF Stored, Downloads!server
<1>1. /\ CutOff /\ \A o \in Tabs : dl'[o].dead = IF o = t THEN Downloads!Running(t) ELSE dl[o].dead
      /\ Turns(t, page[t].signed, "clearing", page[t].mail, page[t].removing)
      /\ record' = record /\ page[t].purge = "settled" /\ Large
  BY PurgeCacheDoes, TypeParts DEF Downloads!PurgeCache
<1>2. cache' \in Copies
  BY EmptyReads DEF Downloads!PurgeCache, Reads
<1>3. Staged(t)'
  BY <1>1 DEF CutOff, Turns, Staged, Stages, Downloads!Running, Downloads!Is
<1>4. ASSUME NEW o \in Tabs, o # t PROVE Staged(o)'
  BY <1>1, <1>4, SameStaged DEF CutOff, Turns, Downloads!Is
<1>5. \A o \in Tabs : dl'[o].at = dl[o].at
  BY <1>1 DEF CutOff
<1> QED BY <1>1, <1>2, <1>3, <1>4, <1>5 DEF CutOff, Turns, Large, Stages, Staged, OneRuns,
                                            Downloads!Running

\* A step of the service worker that empties the cache.
LEMMA CutOffStages ==
    ASSUME Stored, CutOff, \A o \in Tabs : dl'[o].dead = dl[o].dead, NEW msg, Told(msg),
           cache' \in Copies, record' = record
    PROVE  Large' /\ Stages' /\ OneRuns'
<1> USE DEF Stored
<1>1. ASSUME NEW o \in Tabs PROVE Staged(o)'
  BY SameStaged DEF CutOff, Told, Downloads!Is
<1>2. \A o \in Tabs : dl'[o].at = dl[o].at
  BY DEF CutOff
<1> QED BY <1>1, <1>2 DEF CutOff, Told, Large, Stages, Staged, OneRuns, Downloads!Running

LEMMA GlobalStages ==
    ASSUME Stored,
           Downloads!Check \/ Downloads!Reconcile \/ Downloads!Stale \/ Downloads!AccountChanges \/ Downloads!FileReplaced
    PROVE  Large' /\ Stages' /\ OneRuns'
<1> USE DEF Stored, Downloads!server
<1>1. Large /\ Rest
  BY TypeParts
<1>2. ASSUME dl' = dl, page' = page, record' = record, cache' \in Copies
      PROVE  Large' /\ Stages' /\ OneRuns'
  BY <1>1, <1>2 DEF Large, Stages, Staged, OneRuns, Downloads!Running, Downloads!Is
<1>3. CASE Downloads!Check
  <2>1. CASE cookie # Nobody \/ ~gate.ok
    BY <1>1, <1>2, <1>3, <2>1 DEF Downloads!Check, Large
  <2>2. CASE cookie = Nobody /\ gate.ok
    <3>1. dl' = Downloads!Detached /\ page' = Downloads!ToldAll("unauthorized") /\ cache' = Downloads!EmptyCache /\ record' = record
      BY <1>3, <2>2 DEF Downloads!Check
    <3>2. cache' \in Copies
      BY <3>1, EmptyReads DEF Reads
    <3> QED BY <3>1, <3>2, DetachedDoes, ToldDoes, CutOffStages
  <2> QED BY <2>1, <2>2
<1>4. CASE Downloads!Reconcile
  <2>1. gate.asking \in Users \cup {Nobody}
    BY <1>1 DEF Rest
  <2>2. CASE cache' = [cache EXCEPT !.stamp = gate.asking] /\ UNCHANGED <<dl, page, harm>>
    <3>1. cache' = WithStamp(cache, gate.asking)
      BY <2>2 DEF WithStamp
    <3>2. cache' \in Copies
      BY <1>1, <2>1, <3>1, StampKept DEF Large, Reads
    <3> QED BY <1>2, <1>4, <2>2, <3>2 DEF Downloads!Reconcile
  <2>3. CASE /\ cache' = [Downloads!EmptyCache EXCEPT !.stamp = gate.asking]
             /\ dl' = Downloads!Detached /\ page' = Downloads!ToldAll("purged")
    <3>1. cache' \in Copies
      BY <2>1, <2>3, EmptyReads DEF Reads
    <3>2. record' = record
      BY <1>4 DEF Downloads!Reconcile
    <3> QED BY <2>3, <3>1, <3>2, DetachedDoes, ToldDoes, CutOffStages
  <2> QED BY <1>4, <2>2, <2>3 DEF Downloads!Reconcile
<1>5. CASE Downloads!Stale \/ Downloads!AccountChanges \/ Downloads!FileReplaced
  BY <1>1, <1>2, <1>5 DEF Downloads!Stale, Downloads!AccountChanges, Downloads!FileReplaced, Large
<1> QED BY <1>3, <1>4, <1>5

LEMMA NextStored == ASSUME Stored, [Downloads!Next]_(Downloads!vars) PROVE Stored'
<1>1. CASE UNCHANGED Downloads!vars
  BY <1>1 DEF Downloads!vars, Stored, Downloads!TypeOK, Stages, Staged, OneRuns,
              Downloads!Running, Downloads!Is
<1>2. CASE Downloads!Next
  <2>1. Rest'
    BY <1>2, DownloadRest, TabRest, GlobalRest DEF Downloads!Next, Stored
  <2>2. Large' /\ Stages' /\ OneRuns'
    BY <1>2, DownloadStages, TabStages, StartStages, PurgeCacheStages, GlobalStages
       DEF Downloads!Next
  <2>3. Downloads!TypeOK'
    BY <2>1, <2>2 DEF Downloads!TypeOK, Rest, Large, Attempts, Steps, PageStates, Copies, Looks
  <2> QED BY <2>2, <2>3 DEF Stored
<1> QED BY <1>1, <1>2

LEMMA InitStored == ASSUME Downloads!Init PROVE Stored
<1> USE CopyAssumption DEF Downloads!Init, CopyParameters
<1>1. Downloads!EmptyCache \in Copies /\ [Downloads!EmptyCache EXCEPT !.stamp = First] \in Copies
  BY EmptyReads DEF Reads
<1>2. Downloads!Idle \in Attempts /\ Downloads!Idle.at = "idle" /\ Downloads!Idle.next = 1 /\ ~Downloads!Idle.attached /\ ~Downloads!Idle.dead
  BY IdleIs
<1>3. Large
  BY <1>1, <1>2 DEF Large, PageStates
<1>4. Rest
  BY DEF Rest, Downloads!Editions, Downloads!Bounds
<1>5. Downloads!TypeOK
  BY <1>3, <1>4, TypeParts
<1>6. \A t \in Tabs : dl[t].at = "idle" /\ dl[t].next = 1 /\ ~dl[t].attached /\ ~dl[t].dead
  BY <1>2
<1>7. Stages
  BY <1>6 DEF Stages, Staged, Downloads!Running
<1>8. OneRuns
  BY <1>6 DEF OneRuns, Downloads!Running
<1> QED BY <1>5, <1>7, <1>8 DEF Stored

\* What a step of tab t's download leaves alone.
LEMMA DownloadLeaves ==
    ASSUME Stored, NEW t \in Tabs, Downloads!Download(t) \/ Downloads!GiveUp(t)
    PROVE  /\ Downloads!Running(t)
           /\ \A o \in Tabs : o # t => dl'[o] = dl[o] /\ page'[o] = page[o] /\ ~Downloads!Running(o)
           /\ cookie' = cookie /\ edition' = edition /\ look' = look /\ gate' = gate
           /\ harm' = harm /\ emptied' = emptied
<1> USE DEF Stored, Downloads!others, Downloads!server
<1>1. Downloads!Running(t)
  BY DEF Downloads!Download, Downloads!GiveUp, Downloads!Register, Downloads!Manifest,
         Downloads!ManifestRefused, Downloads!ManifestFails, Downloads!List, Downloads!Open, Downloads!Notice, Downloads!Track,
         Downloads!Wipe, Downloads!KeepChunk, Downloads!FetchChunk, Downloads!StoreChunk,
         Downloads!MarkTrack, Downloads!Detail, Downloads!FetchRefused, Downloads!Finish,
         Downloads!Running
<1>2. /\ cookie' = cookie /\ edition' = edition /\ look' = look /\ gate' = gate
      /\ harm' = harm /\ emptied' = emptied
  BY DEF Downloads!Download, Downloads!GiveUp, Downloads!Register, Downloads!Manifest,
         Downloads!ManifestRefused, Downloads!ManifestFails, Downloads!List, Downloads!Open, Downloads!Notice, Downloads!Track,
         Downloads!Wipe, Downloads!KeepChunk, Downloads!FetchChunk, Downloads!StoreChunk,
         Downloads!MarkTrack, Downloads!Detail, Downloads!FetchRefused, Downloads!Finish
<1>3. page' = page \/ page' = Downloads!Released(page, t) \/ page' = Downloads!Purging(page, t)
      \/ page' = Downloads!Released(Downloads!Purging(page, t), t)
  BY DEF Downloads!Download, Downloads!GiveUp, Downloads!Register, Downloads!Manifest,
         Downloads!ManifestRefused, Downloads!ManifestFails, Downloads!List, Downloads!Open, Downloads!Notice, Downloads!Track,
         Downloads!Wipe, Downloads!KeepChunk, Downloads!FetchChunk, Downloads!StoreChunk,
         Downloads!MarkTrack, Downloads!Detail, Downloads!FetchRefused, Downloads!Finish,
         Downloads!End, Downloads!Settle
<1>4. ASSUME NEW o \in Tabs, o # t PROVE page'[o] = page[o]
  <2>1. page \in [Tabs -> PageStates]
    BY DlTyped
  <2>2. Downloads!Purging(page, t) \in [Tabs -> PageStates] /\ Downloads!Purging(page, t)[o] = page[o]
    BY <1>4, <2>1 DEF Downloads!Purging, PageStates
  <2>3. Downloads!Released(page, t)[o] = page[o]
    BY <1>4, <2>1 DEF Downloads!Released
  <2>4. ASSUME NEW p, p \in [Tabs -> PageStates] PROVE Downloads!Released(p, t)[o] = p[o]
    BY <1>4, <2>4 DEF Downloads!Released
  <2> QED BY <1>3, <2>2, <2>3, <2>4
<1>5. ASSUME NEW o \in Tabs, o # t PROVE dl'[o] = dl[o]
  <2>1. dl \in [Tabs -> Attempts]
    BY DlTyped
  <2>2. \/ dl' = dl \/ Downloads!Settle(t) \/ dl' = [dl EXCEPT ![t] = Downloads!Idle]
        \/ \E at \in Steps : Downloads!At(t, at)
        \/ Downloads!Manifest(t) \/ Downloads!ManifestRefused(t) \/ Downloads!List(t) \/ Downloads!Open(t) \/ Downloads!KeepChunk(t) \/ Downloads!FetchChunk(t)
        \/ Downloads!StoreChunk(t)
    BY DEF Downloads!Download, Downloads!GiveUp, Downloads!Register, Downloads!ManifestFails,
           Downloads!Notice, Downloads!Track, Downloads!Wipe, Downloads!MarkTrack, Downloads!Detail,
           Downloads!FetchRefused, Downloads!Finish, Downloads!End, Steps
  <2> QED BY <1>5, <2>1, <2>2 DEF Downloads!Settle, Downloads!At, Downloads!Manifest,
                                  Downloads!ManifestRefused, Downloads!List, Downloads!Open, Downloads!KeepChunk,
             Downloads!FetchChunk, Downloads!StoreChunk, Downloads!End
<1> QED BY <1>1, <1>2, <1>4, <1>5 DEF OneRuns

-----------------------------------------------------------------------------
(* A marked track is whole.                                                 *)

Marked == cache.meta # 0 /\ harm # "track" => \A n \in 1..Chunks : cache.chunk[n] = cache.meta

\* What a download that is not cut off has stored so far.
Filled(t) ==
    dl[t].attached =>
        /\ dl[t].at \in {"track", "wiping"} => dl[t].next = 1
        /\ dl[t].at \in {"wiping", "chunk", "storing"} => cache.meta = 0
        /\ dl[t].at \in {"chunk", "storing"} /\ harm # "track" =>
              \A n \in 1..Chunks : n < dl[t].next => cache.chunk[n] = dl[t].ed

Tracked == Marked /\ \A t \in Tabs : Filled(t)

LEMMA DownloadTracked ==
    ASSUME Stored, Tracked, NEW t \in Tabs, Downloads!Download(t) \/ Downloads!GiveUp(t)
    PROVE  Tracked'
<1> USE DEF Stored, Downloads!others, Downloads!server
<1>1. /\ \A o \in Tabs : o # t => dl'[o] = dl[o] /\ ~Downloads!Running(o)
      /\ harm' = harm /\ Downloads!Running(t)
  BY DownloadLeaves
<1>2. ASSUME NEW o \in Tabs, o # t PROVE Filled(o)'
  BY <1>1, <1>2 DEF Filled, Stages, Staged, Downloads!Running
<1>3. /\ cache \in Copies /\ cache.chunk \in [1..Chunks -> {0} \cup Downloads!Editions]
      /\ dl[t].next \in 1..(Chunks + 1) /\ Chunks \in Nat \ {0} /\ ~(0 \in Downloads!Editions)
  BY CopyAssumption, DlTyped DEF Copies, Attempts, CopyParameters, Downloads!Editions
<1>4. SUFFICES ASSUME TRUE PROVE Marked' /\ Filled(t)'
  BY <1>2 DEF Tracked
<1>5. ASSUME cache' = cache, ~dl'[t].attached PROVE Marked' /\ Filled(t)'
  BY <1>1, <1>5 DEF Tracked, Marked, Filled
<1>6. ASSUME Ends(t), cache' = cache PROVE Marked' /\ Filled(t)'
  BY <1>5, <1>6 DEF Ends, Frees, Becomes
<1>7. CASE Downloads!Register(t)
  <2>1. CASE Downloads!Settle(t)
    BY <1>6, <1>7, <2>1, SettleDoes DEF Downloads!Register
  <2>2. CASE Downloads!At(t, "asking")
    BY <1>1, <1>5, <1>7, <2>2, AdvancesDoes
       DEF Downloads!Register, Advances, Becomes, Stages, Staged
  <2> QED BY <1>7, <2>1, <2>2 DEF Downloads!Register
<1>8. CASE Downloads!Manifest(t)
  BY <1>5, <1>8, ManifestDoes DEF Downloads!Manifest, Becomes, Stages, Staged
<1>9. CASE Downloads!ManifestRefused(t)
  BY <1>5, <1>9, ManifestRefusedDoes DEF Downloads!ManifestRefused, Becomes, Stages, Staged
<1>10. CASE Downloads!ManifestFails(t) \/ Downloads!Notice(t) \/ Downloads!Finish(t) \/ Downloads!GiveUp(t)
  <2>1. cache' = cache /\ \E status : Downloads!End(t, status)
    BY <1>10 DEF Downloads!ManifestFails, Downloads!Notice, Downloads!Finish, Downloads!GiveUp
  <2> QED BY <1>6, <2>1, EndDoes
<1>11. CASE Downloads!List(t)
  <2>1. CASE Downloads!Settle(t)
    BY <1>6, <1>11, <2>1, SettleDoes DEF Downloads!List
  <2>2. CASE ~dl[t].aborted /\ ~dl[t].dead
    BY <1>5, <1>11, <2>2, ListDoes DEF Downloads!List, Becomes, Stages, Staged
  <2> QED BY <1>11, <2>1, <2>2 DEF Downloads!List
<1>12. CASE Downloads!Open(t)
  <2>1. Becomes(t, "track", 1, dl[t].ed, dl[t].listed, dl[t].aborted, dl[t].dead, TRUE, dl[t].by)
    BY <1>12, OpenDoes DEF Downloads!Open, Stages, Staged
  <2> QED BY <1>1, <1>12, <2>1 DEF Downloads!Open, Becomes, Tracked, Marked, Filled
<1>13. CASE Downloads!Track(t)
  <2>1. CASE ~dl[t].attached
    BY <1>5, <1>13, <2>1, TrackDoes DEF Advances, Becomes, Stores
  <2>2. CASE dl[t].attached
    <3>1. Filled(t) /\ Marked /\ dl[t].at = "track" /\ dl[t].next = 1
      BY <1>13, <2>2 DEF Downloads!Track, Tracked, Filled
    <3>2. CASE Advances(t, "detail") /\ cache' = cache
      BY <1>1, <3>1, <3>2 DEF Advances, Becomes, Marked, Filled
    <3>3. CASE Advances(t, "wiping") /\ Stores(t, cache.chunk, 0, 0, cache.detail, cache.whose)
      BY <1>1, <2>2, <3>1, <3>3 DEF Advances, Becomes, Stores, Holds, Reads, Marked, Filled
    <3>4. CASE /\ cache.meta = 0 /\ Advances(t, "chunk")
               /\ Stores(t, cache.chunk, cache.meta, dl[t].ed, cache.detail, cache.whose)
      BY <1>1, <2>2, <3>1, <3>4 DEF Advances, Becomes, Stores, Holds, Reads, Marked, Filled
    <3> QED BY <1>13, <2>2, <3>2, <3>3, <3>4, TrackDoes
  <2> QED BY <2>1, <2>2
<1>14. CASE Downloads!Wipe(t)
  <2>1. /\ Advances(t, "chunk") /\ Stores(t, NoChunks, 0, dl[t].ed, cache.detail, Left)
        /\ dl[t].attached => dl[t].next = 1
    BY <1>14, WipeDoes DEF Downloads!Wipe, Tracked, Filled
  <2>2. CASE ~dl[t].attached
    BY <1>5, <2>1, <2>2 DEF Advances, Becomes, Stores
  <2>3. CASE dl[t].attached
    BY <1>1, <2>1, <2>3 DEF Advances, Becomes, Stores, Holds, Reads, Marked, Filled
  <2> QED BY <2>2, <2>3
<1>15. CASE Downloads!KeepChunk(t)
  <2>1. /\ Becomes(t, "chunk", dl[t].next + 1, dl[t].ed, dl[t].listed, dl[t].aborted, dl[t].dead,
                   dl[t].attached, dl[t].by)
        /\ cache' = cache /\ dl[t].attached /\ cache.chunk[dl[t].next] = dl[t].ed
        /\ Filled(t) /\ Marked /\ dl[t].at = "chunk"
    BY <1>15, KeepChunkDoes DEF Downloads!KeepChunk, Downloads!Trusted, Tracked
  <2>2. ASSUME NEW n \in 1..Chunks, n < dl[t].next + 1, harm # "track"
        PROVE  cache.chunk[n] = dl[t].ed
    <3>1. n < dl[t].next \/ n = dl[t].next
      BY <1>3, <2>2
    <3> QED BY <2>1, <2>2, <3>1 DEF Filled
  <2> QED BY <1>1, <2>1, <2>2 DEF Becomes, Marked, Filled
<1>16. CASE Downloads!FetchChunk(t)
  <2>1. CASE Ends(t) /\ Stores(t, NoChunks, 0, 0, cache.detail, Left)
    BY <1>1, <2>1 DEF Tracked, Ends, Frees, Becomes, Stores, Holds, Reads, Marked, Filled
  <2>2. CASE /\ Becomes(t, "storing", dl[t].next, dl[t].ed, dl[t].listed, dl[t].aborted, dl[t].dead,
                        dl[t].attached, cookie)
             /\ Stores(t, [cache.chunk EXCEPT ![dl[t].next] = 0], cache.meta, cache.partial,
                       cache.detail, cache.whose)
    <3>1. CASE ~dl[t].attached
      BY <1>5, <2>2, <3>1 DEF Becomes, Stores
    <3>2. CASE dl[t].attached
      <4>1. Filled(t) /\ Marked /\ dl[t].at = "chunk" /\ cache.meta = 0
        BY <1>16, <3>2 DEF Downloads!FetchChunk, Tracked, Filled
      <4> DEFINE chunk == [cache.chunk EXCEPT ![dl[t].next] = 0]
      <4>2. \A n \in 1..Chunks : n < dl[t].next => chunk[n] = cache.chunk[n]
        BY <1>3
      <4> HIDE DEF chunk
      <4>3. cache'.chunk = chunk /\ cache'.meta = 0
        BY <2>2, <3>2, <4>1 DEF Stores, Holds, Reads, chunk
      <4> QED BY <1>1, <2>2, <3>2, <4>1, <4>2, <4>3 DEF Becomes, Marked, Filled
    <3> QED BY <3>1, <3>2
  <2> QED BY <1>16, <2>1, <2>2, FetchChunkDoes
<1>17. CASE Downloads!StoreChunk(t)
  <2>1. /\ Becomes(t, "chunk", dl[t].next + 1, dl[t].ed, dl[t].listed, dl[t].aborted, dl[t].dead,
                   dl[t].attached, Nobody)
        /\ Stores(t, [cache.chunk EXCEPT ![dl[t].next] = dl[t].ed], cache.meta, cache.partial,
                  cache.detail, cache.whose \cup {dl[t].by})
        /\ dl[t].at = "storing" /\ dl[t].next <= Chunks
    BY <1>17, StoreChunkDoes DEF Downloads!StoreChunk, Stages, Staged
  <2>2. CASE ~dl[t].attached
    BY <1>5, <2>1, <2>2 DEF Becomes, Stores
  <2>3. CASE dl[t].attached
    <3>1. Filled(t) /\ Marked /\ cache.meta = 0
      BY <2>1, <2>3 DEF Tracked, Filled
    <3> DEFINE chunk == [cache.chunk EXCEPT ![dl[t].next] = dl[t].ed]
    <3>2. ASSUME NEW n \in 1..Chunks, n < dl[t].next + 1, harm # "track"
          PROVE  chunk[n] = dl[t].ed
      <4>1. n < dl[t].next \/ n = dl[t].next
        BY <1>3, <3>2
      <4> QED BY <1>3, <2>1, <2>3, <3>1, <3>2, <4>1 DEF Filled
    <3> HIDE DEF chunk
    <3>3. cache'.chunk = chunk /\ cache'.meta = 0
      BY <2>1, <2>3, <3>1 DEF Stores, Holds, Reads, chunk
    <3> QED BY <1>1, <2>1, <3>2, <3>3 DEF Becomes, Marked, Filled
  <2> QED BY <2>2, <2>3
<1>18. CASE Downloads!MarkTrack(t)
  <2>1. /\ Advances(t, "detail") /\ Stores(t, cache.chunk, dl[t].ed, 0, cache.detail, cache.whose)
        /\ dl[t].at = "chunk" /\ dl[t].next > Chunks
    BY <1>18, MarkTrackDoes DEF Downloads!MarkTrack
  <2>2. CASE ~dl[t].attached
    BY <1>5, <2>1, <2>2 DEF Advances, Becomes, Stores
  <2>3. CASE dl[t].attached
    <3>1. harm # "track" => \A n \in 1..Chunks : cache.chunk[n] = dl[t].ed
      BY <1>3, <2>1, <2>3 DEF Tracked, Filled
    <3> QED BY <1>1, <2>1, <2>3, <3>1 DEF Advances, Becomes, Stores, Holds, Reads, Marked, Filled
  <2> QED BY <2>2, <2>3
<1>19. CASE Downloads!Detail(t)
  <2>1. dl'[t].at = "finishing" /\ cache'.meta = cache.meta /\ cache'.chunk = cache.chunk
    BY <1>19, DetailDoes DEF Advances, Becomes, Stores, Holds, Reads
  <2> QED BY <1>1, <2>1 DEF Tracked, Marked, Filled
<1>20. CASE Downloads!FetchRefused(t)
  BY <1>5, <1>20, FetchRefusedDoes DEF Downloads!FetchRefused, Frees, Becomes
<1> QED BY <1>7, <1>8, <1>9, <1>10, <1>11, <1>12, <1>13, <1>14, <1>15, <1>16, <1>17, <1>18, <1>19,
           <1>20
        DEF Downloads!Download

\* A step that writes no track.
LEMMA TrackedKept ==
    ASSUME Tracked, harm = "track" => harm' = "track",
           \A o \in Tabs : dl'[o].attached =>
               /\ dl[o].attached /\ dl'[o].at = dl[o].at
               /\ dl'[o].next = dl[o].next /\ dl'[o].ed = dl[o].ed,
           \/ cache'.meta = cache.meta /\ cache'.chunk = cache.chunk
           \/ cache'.meta = 0 /\ (harm' = "track" \/ \A o \in Tabs : ~dl'[o].attached)
    PROVE  Tracked'
<1>1. Marked'
  BY DEF Tracked, Marked
<1>2. ASSUME NEW o \in Tabs, dl'[o].attached PROVE Filled(o)'
  <2>1. Filled(o) /\ dl[o].attached /\ dl'[o].at = dl[o].at /\ dl'[o].next = dl[o].next /\ dl'[o].ed = dl[o].ed
    BY <1>2 DEF Tracked
  <2>2. CASE cache'.meta = cache.meta /\ cache'.chunk = cache.chunk
    BY <2>1, <2>2 DEF Filled
  <2>3. CASE cache'.meta = 0 /\ harm' = "track"
    BY <2>1, <2>3 DEF Filled
  <2> QED BY <1>2, <2>2, <2>3
<1> QED BY <1>1, <1>2 DEF Tracked, Filled

LEMMA WorseKept ==
    /\ harm = "track" => \A h : Downloads!Worse(h) = "track"
    /\ Downloads!Unlisted /\ harm = "track" => harm' = "track"
    /\ \A T, h : Downloads!HarmTo(T, h) /\ harm = "track" => harm' = "track"
BY DEF Downloads!Worse, Downloads!Unlisted, Downloads!HarmTo

LEMMA TabTracked ==
    ASSUME Stored, Tracked, NEW t \in Tabs,
           \/ Downloads!Start(t) \/ Downloads!Cancel(t) \/ Downloads!Look(t) \/ Downloads!Tell(t)
           \/ Downloads!Remove(t) \/ Downloads!RemoveEntries(t) \/ Downloads!RemoveRecord(t)
           \/ Downloads!Unauthorized(t) \/ Downloads!PurgeCache(t) \/ Downloads!PurgeRecord(t) \/ Downloads!SignOut(t)
           \/ Downloads!HearUnauthorized(t) \/ Downloads!HearPurged(t) \/ Downloads!SignIn(t) \/ Downloads!Close(t)
    PROVE  Tracked'
<1> USE DEF Stored, Downloads!server
<1>1. CASE Downloads!Start(t)
  <2>1. cache' = cache /\ harm' = harm
        /\ Becomes(t, "registering", 1, 0, Downloads!ListedSoFar, FALSE, FALSE, FALSE, Nobody)
    BY <1>1, StartDoes DEF Downloads!Start
  <2> QED BY <2>1, TrackedKept DEF Becomes
<1>2. CASE Downloads!Cancel(t)
  <2>1. Aborts(t, TRUE) /\ cache' = cache /\ harm' = harm
    BY <1>2, CancelDoes DEF Downloads!Cancel
  <2> QED BY <2>1, TrackedKept DEF Aborts, Becomes
<1>3. CASE \/ Downloads!Look(t) \/ Downloads!Tell(t) \/ Downloads!Remove(t) \/ Downloads!RemoveRecord(t) \/ Downloads!PurgeRecord(t)
           \/ Downloads!HearPurged(t) \/ Downloads!SignIn(t)
  <2>1. dl' = dl /\ cache' = cache /\ (harm = "track" => harm' = "track")
    BY <1>3, WorseKept DEF Downloads!Look, Downloads!Tell, Downloads!Remove,
                           Downloads!RemoveRecord, Downloads!PurgeRecord, Downloads!HearPurged,
                           Downloads!SignIn
  <2> QED BY <2>1, TrackedKept
<1>4. CASE Downloads!RemoveEntries(t)
  <2>1. dl' = dl /\ cache'.meta = 0 /\ (harm = "track" => harm' = "track")
    <3>1. cache' = [Downloads!EmptyCache EXCEPT !.stamp = cache.stamp] /\ cache.stamp \in Users \cup {Nobody}
      BY <1>4, DlTyped DEF Downloads!RemoveEntries, Downloads!WithoutBook, Copies
    <3> QED BY <1>4, <3>1, EmptyReads, WorseKept DEF Downloads!RemoveEntries, Reads
  <2>2. harm' = "track" \/ \A o \in Tabs : ~dl[o].attached
    BY <1>4, TypeParts DEF Downloads!RemoveEntries, Downloads!HarmTo, Stages, Staged,
                           Downloads!Running, Downloads!Worse, Rest
  <2> QED BY <2>1, <2>2, TrackedKept
<1>5. CASE Downloads!Unauthorized(t) \/ Downloads!SignOut(t)
  <2>1. Aborts(t, Downloads!Running(t)) /\ cache' = cache /\ harm' = harm
    BY <1>5, PurgeBegins DEF Downloads!Unauthorized, Downloads!SignOut
  <2> QED BY <2>1, TrackedKept DEF Aborts, Becomes
<1>6. CASE Downloads!PurgeCache(t)
  <2>1. CutOff /\ cache' = Downloads!EmptyCache /\ (harm = "track" => harm' = "track")
    BY <1>6, PurgeCacheDoes, WorseKept DEF Downloads!PurgeCache
  <2> QED BY <2>1, EmptyReads, TrackedKept DEF CutOff, Reads
<1>7. CASE Downloads!HearUnauthorized(t)
  <2>1. /\ Aborts(t, dl[t].aborted \/ (Downloads!Running(t) /\ page[t].purge = "none"))
        /\ cache' = cache /\ harm' = harm
    BY <1>7, HearUnauthorizedDoes DEF Downloads!HearUnauthorized
  <2> QED BY <2>1, TrackedKept DEF Aborts, Becomes
<1>8. CASE Downloads!Close(t)
  <2>1. Frees(t) /\ cache' = cache /\ (harm = "track" => harm' = "track")
    BY <1>8, CloseDoes, WorseKept DEF Downloads!Close
  <2> QED BY <2>1, TrackedKept DEF Frees, Becomes
<1> QED BY <1>1, <1>2, <1>3, <1>4, <1>5, <1>6, <1>7, <1>8

\* What the service worker does, and what happens to nobody's tab: the cache is emptied and the
\* tabs are told, or it gets the viewer's stamp, or it stays as it is.
LEMMA GlobalDoes ==
    ASSUME Downloads!TypeOK,
           Downloads!Check \/ Downloads!Reconcile \/ Downloads!Stale \/ Downloads!AccountChanges \/ Downloads!FileReplaced
    PROVE  /\ record' = record /\ look' = look
           /\ \/ /\ dl' = dl /\ page' = page /\ harm' = harm /\ emptied' = emptied
                 /\ cache' = cache \/ \E u : Holds(u, cache.chunk, cache.meta, cache.partial,
                                                   cache.detail, cache.whose)
              \/ /\ CutOff /\ \A o \in Tabs : dl'[o].dead = dl[o].dead
                 /\ \E msg \in {"unauthorized", "purged"} : Told(msg)
                 /\ Downloads!HarmTo(Tabs, "storage")
                 /\ \E u : Holds(u, NoChunks, 0, 0, FALSE, {})
                 /\ emptied' = emptied \/ (cookie = Nobody /\ cookie' = Nobody /\ emptied' = "cache")
<1> USE DEF Downloads!server
<1>1. CASE Downloads!Check
  <2>1. CASE cookie # Nobody \/ ~gate.ok
    BY <1>1, <2>1 DEF Downloads!Check
  <2>2. CASE cookie = Nobody /\ gate.ok
    <3>1. /\ dl' = Downloads!Detached /\ page' = Downloads!ToldAll("unauthorized") /\ cache' = Downloads!EmptyCache
          /\ record' = record /\ look' = look /\ Downloads!HarmTo(Tabs, "storage") /\ cookie' = cookie
          /\ emptied' = IF emptied = "no" THEN "cache" ELSE emptied
      BY <1>1, <2>2 DEF Downloads!Check
    <3>2. Holds(Nobody, NoChunks, 0, 0, FALSE, {})
      BY <3>1, EmptyReads DEF Holds
    <3>3. Told("unauthorized") /\ CutOff /\ \A o \in Tabs : dl'[o].dead = dl[o].dead
      BY <3>1, DetachedDoes, ToldDoes
    <3> QED BY <2>2, <3>1, <3>2, <3>3
  <2> QED BY <2>1, <2>2
<1>2. CASE Downloads!Reconcile
  <2>1. gate.asking \in Users \cup {Nobody} /\ cache \in Copies /\ record' = record /\ look' = look
        /\ emptied' = emptied
    BY <1>2, TypeParts DEF Rest, Large, Downloads!Reconcile
  <2>2. CASE cache' = [cache EXCEPT !.stamp = gate.asking] /\ UNCHANGED <<dl, page, harm>>
    <3>1. cache' = WithStamp(cache, gate.asking)
      BY <2>2 DEF WithStamp
    <3>2. Holds(gate.asking, cache.chunk, cache.meta, cache.partial, cache.detail, cache.whose)
      BY <2>1, <3>1, StampKept DEF Holds
    <3> QED BY <2>1, <2>2, <3>2
  <2>3. CASE /\ cache' = [Downloads!EmptyCache EXCEPT !.stamp = gate.asking]
             /\ dl' = Downloads!Detached /\ Downloads!HarmTo(Tabs, "storage") /\ page' = Downloads!ToldAll("purged")
    <3>1. Holds(gate.asking, NoChunks, 0, 0, FALSE, {})
      BY <2>1, <2>3, EmptyReads DEF Holds
    <3>2. Told("purged") /\ CutOff /\ \A o \in Tabs : dl'[o].dead = dl[o].dead
      BY <2>3, DetachedDoes, ToldDoes
    <3> QED BY <2>1, <2>3, <3>1, <3>2
  <2> QED BY <1>2, <2>2, <2>3 DEF Downloads!Reconcile
<1>3. CASE Downloads!Stale \/ Downloads!AccountChanges \/ Downloads!FileReplaced
  BY <1>3 DEF Downloads!Stale, Downloads!AccountChanges, Downloads!FileReplaced
<1> QED BY <1>1, <1>2, <1>3

LEMMA GlobalTracked ==
    ASSUME Stored, Tracked,
           Downloads!Check \/ Downloads!Reconcile \/ Downloads!Stale \/ Downloads!AccountChanges \/ Downloads!FileReplaced
    PROVE  Tracked'
<1>1. CASE /\ dl' = dl /\ harm' = harm
           /\ cache' = cache \/ \E u : Holds(u, cache.chunk, cache.meta, cache.partial,
                                             cache.detail, cache.whose)
  BY <1>1, TrackedKept DEF Holds, Reads
<1>2. CASE CutOff /\ Downloads!HarmTo(Tabs, "storage") /\ \E u : Holds(u, NoChunks, 0, 0, FALSE, {})
  <2>1. cache'.meta = 0 /\ (harm = "track" => harm' = "track") /\ \A o \in Tabs : ~dl'[o].attached
    BY <1>2, WorseKept DEF CutOff, Holds, Reads
  <2> QED BY <2>1, TrackedKept
<1> QED BY <1>1, <1>2, GlobalDoes DEF Stored

LEMMA NextTracked == ASSUME Stored, Tracked, [Downloads!Next]_(Downloads!vars) PROVE Tracked'
<1>1. CASE UNCHANGED Downloads!vars
  BY <1>1, TrackedKept DEF Downloads!vars
<1> QED BY <1>1, DownloadTracked, TabTracked, GlobalTracked DEF Downloads!Next

LEMMA InitTracked == ASSUME Downloads!Init PROVE Tracked
<1>1. cache.meta = 0 /\ \A t \in Tabs : ~dl[t].attached
  BY CopyAssumption, EmptyReads, IdleIs DEF Downloads!Init, CopyParameters, Reads
<1> QED BY <1>1 DEF Tracked, Marked, Filled

-----------------------------------------------------------------------------
(* After a purge nothing comes back while nobody is signed in.              *)

EmptyOfBook == cache.meta = 0 /\ ~cache.detail /\ \A n \in 1..Chunks : cache.chunk[n] = 0

Fresh(t) == dl[t].attached => dl[t].next = 1 /\ dl[t].at # "storing"

Silent(t) == look[t] = NoRecord /\ (Downloads!Running(t) => dl[t].dead)

Gone ==
    /\ emptied # "no" => cookie = Nobody /\ EmptyOfBook /\ \A t \in Tabs : Fresh(t)
    /\ emptied = "both" => record = NoRecord /\ \A t \in Tabs : Silent(t)

LEMMA DownloadGone ==
    ASSUME Stored, Gone, NEW t \in Tabs, Downloads!Download(t) \/ Downloads!GiveUp(t)
    PROVE  Gone'
<1> USE DEF Stored, Downloads!others, Downloads!server
<1>1. /\ \A o \in Tabs : o # t => dl'[o] = dl[o] /\ ~Downloads!Running(o)
      /\ cookie' = cookie /\ emptied' = emptied /\ look' = look /\ Downloads!Running(t)
  BY DownloadLeaves
<1>2. CASE emptied = "no"
  BY <1>1, <1>2 DEF Gone
<1>3. CASE emptied # "no"
  <2>1. /\ cookie = Nobody /\ EmptyOfBook /\ Fresh(t)
        /\ \A o \in Tabs : o # t => Fresh(o)'
    BY <1>1, <1>3 DEF Gone, Fresh
  <2>2. cache.chunk \in [1..Chunks -> {0} \cup Downloads!Editions] /\ dl[t].next \in 1..(Chunks + 1)
        /\ Chunks \in Nat \ {0} /\ ~(0 \in Downloads!Editions)
    BY CopyAssumption, DlTyped DEF Copies, Attempts, CopyParameters, Downloads!Editions
  <2>3. EmptyOfBook' /\ Fresh(t)'
    <3>1. ASSUME cache' = cache, dl'[t].attached => dl'[t].next = 1 /\ dl'[t].at # "storing"
          PROVE  EmptyOfBook' /\ Fresh(t)'
      BY <2>1, <3>1 DEF EmptyOfBook, Fresh
    <3>2. ASSUME Ends(t), cache' = cache PROVE EmptyOfBook' /\ Fresh(t)'
      BY <3>1, <3>2 DEF Ends, Frees, Becomes
    <3>3. ASSUME NEW at \in Steps, Advances(t, at), at # "storing", cache' = cache
          PROVE EmptyOfBook' /\ Fresh(t)'
      BY <2>1, <3>1, <3>3 DEF Advances, Becomes, Fresh
    <3>4. CASE Downloads!Register(t)
      <4>1. CASE Downloads!Settle(t)
        BY <3>2, <3>4, <4>1, SettleDoes DEF Downloads!Register
      <4>2. CASE Downloads!At(t, "asking")
        BY <3>3, <3>4, <4>2, AdvancesDoes DEF Downloads!Register, Steps
      <4> QED BY <3>4, <4>1, <4>2 DEF Downloads!Register
    <3>5. CASE Downloads!Manifest(t)
      BY <2>1, <3>5 DEF Downloads!Manifest
    <3>6. CASE Downloads!ManifestRefused(t)
      BY <2>1, <3>1, <3>6, ManifestRefusedDoes DEF Downloads!ManifestRefused, Becomes, Fresh
    <3>7. CASE Downloads!ManifestFails(t) \/ Downloads!Notice(t) \/ Downloads!Finish(t) \/ Downloads!GiveUp(t)
      <4>1. cache' = cache /\ \E status : Downloads!End(t, status)
        BY <3>7 DEF Downloads!ManifestFails, Downloads!Notice, Downloads!Finish, Downloads!GiveUp
      <4> QED BY <3>2, <4>1, EndDoes
    <3>8. CASE Downloads!List(t)
      <4>1. CASE Downloads!Settle(t)
        BY <3>2, <3>8, <4>1, SettleDoes DEF Downloads!List
      <4>2. CASE ~dl[t].aborted /\ ~dl[t].dead
        BY <2>1, <3>1, <3>8, <4>2, ListDoes DEF Downloads!List, Becomes, Fresh
      <4> QED BY <3>8, <4>1, <4>2 DEF Downloads!List
    <3>9. CASE Downloads!Open(t)
      <4>1. Becomes(t, "track", 1, dl[t].ed, dl[t].listed, dl[t].aborted, dl[t].dead, TRUE, dl[t].by)
        BY <3>9, OpenDoes DEF Downloads!Open, Stages, Staged
      <4> QED BY <3>1, <3>9, <4>1 DEF Downloads!Open, Becomes
    <3>10. CASE Downloads!Track(t)
      <4>1. dl[t].ed \in Downloads!Editions
        BY <3>10 DEF Downloads!Track, Stages, Staged
      <4>2. CASE dl[t].attached /\ cache.meta = dl[t].ed
        BY <2>1, <2>2, <4>1, <4>2 DEF EmptyOfBook
      <4>3. CASE Advances(t, "wiping") /\ Stores(t, cache.chunk, 0, 0, cache.detail, cache.whose)
        BY <2>1, <4>3 DEF Advances, Becomes, Stores, Holds, Reads, EmptyOfBook, Fresh
      <4>4. CASE /\ Advances(t, "chunk")
                 /\ Stores(t, cache.chunk, cache.meta, dl[t].ed, cache.detail, cache.whose)
        BY <2>1, <4>4 DEF Advances, Becomes, Stores, Holds, Reads, EmptyOfBook, Fresh
      <4> QED BY <3>10, <4>2, <4>3, <4>4, TrackDoes
    <3>11. CASE Downloads!Wipe(t)
      <4>1. Advances(t, "chunk") /\ Stores(t, NoChunks, 0, dl[t].ed, cache.detail, Left)
        BY <3>11, WipeDoes
      <4> QED BY <2>1, <4>1 DEF Advances, Becomes, Stores, Holds, Reads, EmptyOfBook, Fresh,
                                NoChunks
    <3>12. CASE Downloads!KeepChunk(t)
      <4>1. dl[t].ed \in Downloads!Editions /\ cache.chunk[dl[t].next] = dl[t].ed /\ dl[t].next \in 1..Chunks
        BY <2>2, <3>12 DEF Downloads!KeepChunk, Downloads!Trusted, Stages, Staged
      <4> QED BY <2>1, <2>2, <4>1 DEF EmptyOfBook
    <3>13. CASE Downloads!FetchChunk(t)
      BY <2>1, <3>13 DEF Downloads!FetchChunk
    <3>14. CASE Downloads!StoreChunk(t)
      <4>1. /\ ~dl[t].attached
            /\ Becomes(t, "chunk", dl[t].next + 1, dl[t].ed, dl[t].listed, dl[t].aborted, dl[t].dead,
                       dl[t].attached, Nobody)
            /\ Stores(t, [cache.chunk EXCEPT ![dl[t].next] = dl[t].ed], cache.meta, cache.partial,
                      cache.detail, cache.whose \cup {dl[t].by})
        BY <2>1, <3>14, StoreChunkDoes DEF Downloads!StoreChunk, Fresh
      <4> QED BY <3>1, <4>1 DEF Becomes, Stores
    <3>15. CASE Downloads!MarkTrack(t)
      <4>1. /\ ~dl[t].attached /\ Advances(t, "detail")
            /\ Stores(t, cache.chunk, dl[t].ed, 0, cache.detail, cache.whose)
        BY <2>1, <2>2, <3>15, MarkTrackDoes DEF Downloads!MarkTrack, Fresh
      <4> QED BY <3>1, <4>1 DEF Advances, Becomes, Stores
    <3>16. CASE Downloads!Detail(t)
      BY <2>1, <3>16, DetailDoes DEF EmptyOfBook
    <3>17. CASE Downloads!FetchRefused(t)
      BY <3>1, <3>17, FetchRefusedDoes DEF Downloads!FetchRefused, Frees, Becomes
    <3> QED BY <3>4, <3>5, <3>6, <3>7, <3>8, <3>9, <3>10, <3>11, <3>12, <3>13, <3>14, <3>15,
               <3>16, <3>17
            DEF Downloads!Download
  <2>4. ASSUME emptied = "both" PROVE record' = NoRecord /\ \A o \in Tabs : Silent(o)'
    <3>1. record = NoRecord /\ look[t] = NoRecord /\ dl[t].dead /\ dl[t].at = "registering"
      BY <1>1, <2>4 DEF Gone, Silent, Stages, Staged
    <3>2. Downloads!Register(t)
      BY <3>1 DEF Downloads!Download, Downloads!GiveUp, Downloads!Register, Downloads!Manifest,
                  Downloads!ManifestRefused, Downloads!ManifestFails, Downloads!List, Downloads!Open, Downloads!Notice, Downloads!Track,
         Downloads!Wipe, Downloads!KeepChunk, Downloads!FetchChunk, Downloads!StoreChunk,
         Downloads!MarkTrack, Downloads!Detail, Downloads!FetchRefused, Downloads!Finish
    <3>3. Ends(t) /\ record' = record
      BY <3>1, <3>2, SettleDoes DEF Downloads!Register
    <3> QED BY <1>1, <2>4, <3>1, <3>3 DEF Gone, Silent, Ends, Frees, Becomes, Downloads!Running
  <2> QED BY <1>1, <2>1, <2>3, <2>4 DEF Gone
<1> QED BY <1>2, <1>3

\* A step that neither stores nor lists anything.
LEMMA GoneKept ==
    ASSUME Gone, cookie' = cookie \/ cookie # Nobody, emptied' = emptied,
           \/ cache'.meta = cache.meta /\ cache'.chunk = cache.chunk /\ cache'.detail = cache.detail
           \/ cache'.meta = 0 /\ cache'.chunk = NoChunks /\ cache'.detail = FALSE,
           \A o \in Tabs : Fresh(o) => Fresh(o)',
           emptied = "both" => record' = NoRecord /\ \A o \in Tabs : Silent(o)'
    PROVE  Gone'
BY DEF Gone, EmptyOfBook, NoChunks

LEMMA TabGone ==
    ASSUME Stored, Gone, NEW t \in Tabs,
           \/ Downloads!Start(t) \/ Downloads!Cancel(t) \/ Downloads!Look(t) \/ Downloads!Tell(t)
           \/ Downloads!Remove(t) \/ Downloads!RemoveEntries(t) \/ Downloads!RemoveRecord(t)
           \/ Downloads!Unauthorized(t) \/ Downloads!PurgeCache(t) \/ Downloads!PurgeRecord(t) \/ Downloads!SignOut(t)
           \/ Downloads!HearUnauthorized(t) \/ Downloads!HearPurged(t) \/ Downloads!SignIn(t) \/ Downloads!Close(t)
    PROVE  Gone'
<1> USE DEF Stored, Downloads!server
<1>0. ASSUME dl' = dl, look' = look
      PROVE  /\ \A o \in Tabs : Fresh(o) => Fresh(o)'
             /\ emptied = "both" => \A o \in Tabs : Silent(o)'
  BY <1>0 DEF Gone, Fresh, Silent, Downloads!Running
<1>1. CASE Downloads!Start(t)
  <2>1. /\ cache' = cache /\ cookie' = cookie /\ emptied' \in {"no", "cache"} /\ (emptied = "no" => emptied' = "no")
        /\ Becomes(t, "registering", 1, 0, Downloads!ListedSoFar, FALSE, FALSE, FALSE, Nobody)
    BY <1>1, StartDoes, TypeParts DEF Downloads!Start, Rest
  <2>2. \A o \in Tabs : Fresh(o) => Fresh(o)'
    BY <2>1 DEF Becomes, Fresh
  <2> QED BY <2>1, <2>2 DEF Gone, EmptyOfBook
<1>2. CASE Downloads!Cancel(t) \/ Downloads!Unauthorized(t) \/ Downloads!SignOut(t) \/ Downloads!HearUnauthorized(t)
  <2>1. /\ cache' = cache /\ (cookie' = cookie \/ cookie # Nobody)
        /\ emptied' = emptied /\ record' = record /\ look' = look
        /\ \E b : Aborts(t, b)
    BY <1>2, CancelDoes, PurgeBegins, HearUnauthorizedDoes
       DEF Downloads!Cancel, Downloads!Unauthorized, Downloads!SignOut, Downloads!HearUnauthorized
  <2>2. \A o \in Tabs : Fresh(o) => Fresh(o)'
    BY <2>1 DEF Aborts, Becomes, Fresh
  <2>3. emptied = "both" => \A o \in Tabs : Silent(o)'
    BY <2>1 DEF Gone, Aborts, Becomes, Silent, Downloads!Running
  <2>4. emptied = "both" => record' = NoRecord
    BY <2>1 DEF Gone
  <2> QED BY <2>1, <2>2, <2>3, <2>4, GoneKept
<1>3. CASE Downloads!Look(t)
  <2>1. /\ dl' = dl /\ cache' = cache /\ cookie' = cookie /\ emptied' = emptied
        /\ emptied # "both"
    BY <1>3 DEF Downloads!Look, Downloads!Is, Gone
  <2> QED BY <2>1, GoneKept DEF Fresh
<1>4. CASE Downloads!Tell(t)
  <2>1. dl' = dl /\ cache' = cache /\ cookie' = cookie /\ emptied' = emptied /\ emptied # "both"
    BY <1>4 DEF Downloads!Tell, Gone, Silent
  <2> QED BY <2>1, GoneKept DEF Fresh
<1>5. CASE Downloads!Remove(t) \/ Downloads!RemoveRecord(t) \/ Downloads!HearPurged(t)
  <2>1. /\ dl' = dl /\ look' = look /\ cache' = cache /\ cookie' = cookie /\ emptied' = emptied
        /\ record' \in {record, NoRecord}
    BY <1>5 DEF Downloads!Remove, Downloads!RemoveRecord, Downloads!HearPurged
  <2>2. emptied = "both" => record' = NoRecord
    BY <2>1 DEF Gone
  <2> QED BY <1>0, <2>1, <2>2, GoneKept
<1>6. CASE Downloads!RemoveEntries(t)
  <2>1. /\ dl' = dl /\ look' = look /\ cookie' = cookie /\ emptied' = emptied /\ record' = record
        /\ cache'.meta = 0 /\ cache'.chunk = NoChunks /\ cache'.detail = FALSE
    <3>1. cache' = [Downloads!EmptyCache EXCEPT !.stamp = cache.stamp] /\ cache.stamp \in Users \cup {Nobody}
      BY <1>6, DlTyped DEF Downloads!RemoveEntries, Downloads!WithoutBook, Copies
    <3> QED BY <1>6, <3>1, EmptyReads DEF Downloads!RemoveEntries, Reads
  <2>2. emptied = "both" => record' = NoRecord
    BY <2>1 DEF Gone
  <2> QED BY <1>0, <2>1, <2>2, GoneKept
<1>7. CASE Downloads!PurgeCache(t)
  <2>1. /\ CutOff /\ cache' = Downloads!EmptyCache /\ cookie' = cookie /\ record' = record /\ look' = look
        /\ \A o \in Tabs : dl'[o].dead = IF o = t THEN Downloads!Running(t) ELSE dl[o].dead
        /\ emptied' = IF cookie = Nobody /\ emptied = "no" THEN "cache" ELSE emptied
    BY <1>7, PurgeCacheDoes DEF Downloads!PurgeCache
  <2>2. EmptyOfBook' /\ \A o \in Tabs : Fresh(o)'
    BY <2>1, EmptyReads DEF EmptyOfBook, Reads, NoChunks, CutOff, Fresh
  <2>3. emptied = "both" => record' = NoRecord /\ \A o \in Tabs : Silent(o)'
    BY <2>1 DEF Gone, CutOff, Silent, Downloads!Running
  <2> QED BY <2>1, <2>2, <2>3 DEF Gone
<1>8. CASE Downloads!PurgeRecord(t)
  <2>1. /\ dl' = dl /\ look' = look /\ cache' = cache /\ cookie' = cookie /\ record' = NoRecord
        /\ emptied' = IF emptied = "cache" /\ page[t].purge = "clearing" /\ Downloads!Alone(t)
                      THEN "both" ELSE emptied
    BY <1>8 DEF Downloads!PurgeRecord
  <2>2. emptied # "no" => EmptyOfBook' /\ cookie' = Nobody /\ \A o \in Tabs : Fresh(o)'
    BY <2>1 DEF Gone, EmptyOfBook, Fresh
  <2>3. CASE page[t].purge = "clearing" /\ Downloads!Alone(t)
    <3>1. \A o \in Tabs : Silent(o)'
      BY <2>1, <2>3 DEF Downloads!Alone, Silent, Stages, Staged, Downloads!Running
    <3> QED BY <2>1, <2>2, <3>1 DEF Gone
  <2>4. CASE ~(page[t].purge = "clearing" /\ Downloads!Alone(t))
    BY <1>0, <2>1, <2>2, <2>4 DEF Gone
  <2> QED BY <2>3, <2>4
<1>9. CASE Downloads!SignIn(t)
  <2>1. emptied' = "no"
    BY <1>9 DEF Downloads!SignIn
  <2> QED BY <2>1 DEF Gone
<1>10. CASE Downloads!Close(t)
  <2>1. /\ Frees(t) /\ cache' = cache /\ cookie' = cookie /\ record' = record /\ emptied' = emptied
        /\ look' = [look EXCEPT ![t] = NoRecord] /\ look \in [Tabs -> Looks \cup {NoRecord}]
    BY <1>10, CloseDoes, TypeParts DEF Downloads!Close, Rest
  <2>2. \A o \in Tabs : Fresh(o) => Fresh(o)'
    BY <2>1 DEF Frees, Becomes, Fresh
  <2>3. emptied = "both" => \A o \in Tabs : Silent(o)'
    BY <2>1 DEF Gone, Frees, Becomes, Silent, Downloads!Running
  <2>4. emptied = "both" => record' = NoRecord
    BY <2>1 DEF Gone
  <2> QED BY <2>1, <2>2, <2>3, <2>4, GoneKept
<1> QED BY <1>1, <1>2, <1>3, <1>4, <1>5, <1>6, <1>7, <1>8, <1>9, <1>10

LEMMA GlobalGone ==
    ASSUME Stored, Gone,
           Downloads!Check \/ Downloads!Reconcile \/ Downloads!Stale \/ Downloads!AccountChanges \/ Downloads!FileReplaced
    PROVE  Gone'
<1>1. cookie' = cookie \/ cookie # Nobody
  BY DEF Downloads!Check, Downloads!Reconcile, Downloads!Stale, Downloads!AccountChanges,
         Downloads!FileReplaced, Downloads!server
<1>2. record' = record /\ look' = look
  BY GlobalDoes DEF Stored
<1>3. CASE /\ dl' = dl /\ emptied' = emptied
           /\ cache' = cache \/ \E u : Holds(u, cache.chunk, cache.meta, cache.partial,
                                             cache.detail, cache.whose)
  <2>1. cache'.meta = cache.meta /\ cache'.chunk = cache.chunk /\ cache'.detail = cache.detail
    BY <1>3 DEF Holds, Reads
  <2>2. \A o \in Tabs : Fresh(o) => Fresh(o)'
    BY <1>3 DEF Fresh
  <2>3. emptied = "both" => record' = NoRecord /\ \A o \in Tabs : Silent(o)'
    BY <1>2, <1>3 DEF Gone, Silent, Downloads!Running
  <2> QED BY <1>1, <1>3, <2>1, <2>2, <2>3, GoneKept
<1>4. CASE /\ CutOff /\ \A o \in Tabs : dl'[o].dead = dl[o].dead
           /\ \E u : Holds(u, NoChunks, 0, 0, FALSE, {})
           /\ emptied' = emptied \/ (cookie = Nobody /\ cookie' = Nobody /\ emptied' = "cache")
  <2>1. EmptyOfBook' /\ \A o \in Tabs : Fresh(o)'
    BY <1>4 DEF EmptyOfBook, Holds, Reads, NoChunks, CutOff, Fresh
  <2>2. emptied = "both" => record' = NoRecord /\ \A o \in Tabs : Silent(o)'
    BY <1>2, <1>4 DEF Gone, CutOff, Silent, Downloads!Running
  <2> QED BY <1>1, <1>4, <2>1, <2>2 DEF Gone
<1> QED BY <1>3, <1>4, GlobalDoes DEF Stored

LEMMA NextGone == ASSUME Stored, Gone, [Downloads!Next]_(Downloads!vars) PROVE Gone'
<1>1. CASE UNCHANGED Downloads!vars
  BY <1>1 DEF Downloads!vars, Gone, EmptyOfBook, Fresh, Silent, Downloads!Running
<1> QED BY <1>1, DownloadGone, TabGone, GlobalGone DEF Downloads!Next

-----------------------------------------------------------------------------
(* While nothing is taken away under a download, what is claimed is there.  *)

\* Tab t is emptying the copy, or has yet to hear that it was emptied.
Empties(t) == page[t].purge # "none" \/ page[t].mail # {} \/ page[t].removing = "record"

Emptying == \E t \in Tabs : Empties(t)

\* A download has what it goes on, and the record lists what the download does.
Sound(t) ==
    /\ dl[t].at \in {"track", "wiping", "chunk", "storing", "detail", "finishing"} => dl[t].attached
    /\ dl[t].at \in {"detail", "finishing"} => cache.meta # 0
    /\ dl[t].at = "finishing" => cache.detail
    /\ Downloads!Running(t) /\ ~dl[t].dead => (dl[t].listed <=> Downloads!ListedSoFar)

Whole ==
    harm = "none" =>
        /\ \A t \in Tabs : Sound(t)
        /\ Downloads!Is("done") /\ ~(cache.meta # 0 /\ cache.detail) => Emptying
        /\ Downloads!HasContent(cache) => Downloads!ListedSoFar

LEMMA Saved ==
    ASSUME Stored, NEW t \in Tabs, Sound(t), Downloads!Running(t),
           NEW status \in Downloads!Statuses,
           Downloads!Save(t, status, dl[t].listed)
    PROVE  /\ Downloads!ListedSoFar' <=> Downloads!ListedSoFar
           /\ status # "done" => ~Downloads!Is("done")'
           /\ record' = record \/ (record' \in Downloads!Records /\ record'.listed = dl[t].listed)
<1>1. dl[t].listed \in BOOLEAN
  BY DlTyped DEF Stored, Attempts
<1>2. status # "done" => ~Downloads!Is("done")'
  BY CopyAssumption, <1>1, SaveIsNotDone DEF Stored, CopyParameters
<1>3. CASE dl[t].dead
  <2>1. record' = record
    BY <1>3 DEF Downloads!Save
  <2> QED BY <1>2, <2>1 DEF Downloads!ListedSoFar
<1>4. CASE ~dl[t].dead
  <2>1. record' = [status |-> status, listed |-> dl[t].listed] /\ record' \in Downloads!Records
    BY <1>1, <1>4 DEF Downloads!Save, Downloads!Records
  <2>2. record'.listed = dl[t].listed /\ record' # NoRecord
    BY CopyAssumption, <2>1 DEF CopyParameters
  <2> QED BY <1>2, <1>4, <2>1, <2>2 DEF Sound, Downloads!ListedSoFar
<1> QED BY <1>3, <1>4

LEMMA DownloadWhole ==
    ASSUME Stored, Whole, NEW t \in Tabs, Downloads!Download(t) \/ Downloads!GiveUp(t),
           harm = "none"
    PROVE  Whole'
<1> USE DEF Stored, Downloads!others, Downloads!server
<1>1. /\ \A o \in Tabs : o # t => dl'[o] = dl[o] /\ ~Downloads!Running(o)
      /\ harm' = harm /\ Downloads!Running(t) /\ Sound(t) /\ (Downloads!HasContent(cache) => Downloads!ListedSoFar)
  BY DownloadLeaves DEF Whole
<1>2. ~Downloads!Is("done") /\ {"downloading", "error", "cancelled", "done"} \subseteq Downloads!Statuses
  BY <1>1 DEF Stages, Staged, Downloads!Statuses
<1>3. ASSUME NEW o \in Tabs, o # t PROVE Sound(o)'
  BY <1>1, <1>3 DEF Sound, Downloads!Running
<1>4. dl[t].at \in {"opening", "track", "wiping", "chunk", "storing", "detail", "finishing"} =>
          Downloads!ListedSoFar /\ dl[t].ed \in Downloads!Editions /\ ~dl[t].dead /\ ~(0 \in Downloads!Editions)
  BY <1>1 DEF Sound, Stages, Staged, Downloads!Editions
<1>5. ASSUME Downloads!ListedSoFar => Downloads!ListedSoFar', cache' = cache \/ Downloads!ListedSoFar,
             Downloads!Is("done")' => cache'.meta # 0 /\ cache'.detail, Sound(t)'
      PROVE  Whole'
  BY <1>1, <1>3, <1>5 DEF Whole
\* The download is over, and says so.
<1>6. ASSUME dl'[t].at = "idle", NEW status \in Downloads!Statuses, status # "done",
             Downloads!Save(t, status, dl[t].listed), cache' = cache \/ Downloads!ListedSoFar
      PROVE  Whole'
  <2>1. Sound(t)'
    BY <1>6 DEF Sound, Downloads!Running
  <2> QED BY <1>1, <1>5, <1>6, <2>1, Saved
\* It is over, and may not say so.
<1>7. ASSUME Downloads!Settle(t), record' = record, cache' = cache PROVE Whole'
  <2>1. Sound(t)' /\ ~Downloads!Is("done")' /\ (Downloads!ListedSoFar => Downloads!ListedSoFar')
    BY <1>2, <1>7, SettleDoes DEF Ends, Frees, Becomes, Sound, Downloads!Running, Downloads!Is,
                                  Downloads!ListedSoFar
  <2> QED BY <1>5, <1>7, <2>1
\* It goes on.
<1>8. ASSUME record' = record, cache' = cache \/ Downloads!ListedSoFar, dl'[t].listed = dl[t].listed,
             dl'[t].dead = dl[t].dead, dl[t].at # "idle",
             dl'[t].at \in {"track", "wiping", "chunk", "storing", "detail", "finishing"} =>
                 dl'[t].attached,
             dl'[t].at \in {"detail", "finishing"} => cache'.meta # 0,
             dl'[t].at = "finishing" => cache'.detail
      PROVE  Whole'
  <2>1. ~Downloads!Is("done")' /\ (Downloads!ListedSoFar <=> Downloads!ListedSoFar')
    BY <1>2, <1>8 DEF Downloads!Is, Downloads!ListedSoFar
  <2>2. Sound(t)'
    BY <1>1, <1>8, <2>1 DEF Sound, Downloads!Running
  <2> QED BY <1>5, <1>8, <2>1, <2>2
<1>9. CASE Downloads!Register(t)
  <2>1. CASE Downloads!Settle(t) /\ record' = record
    BY <1>7, <1>9, <2>1 DEF Downloads!Register
  <2>2. CASE Downloads!Save(t, "downloading", dl[t].listed) /\ Downloads!At(t, "asking")
    <3>1. Advances(t, "asking")
      BY <2>2, AdvancesDoes
    <3>2. (Downloads!ListedSoFar' <=> Downloads!ListedSoFar) /\ ~Downloads!Is("done")'
      BY <1>1, <1>2, <2>2, Saved
    <3>3. Sound(t)'
      BY <1>1, <3>1, <3>2 DEF Advances, Becomes, Sound, Downloads!Running
    <3> QED BY <1>5, <1>9, <3>2, <3>3 DEF Downloads!Register
  <2> QED BY <1>9, <2>1, <2>2 DEF Downloads!Register
<1>10. CASE Downloads!Manifest(t)
  BY <1>8, <1>10, ManifestDoes DEF Downloads!Manifest, Becomes
<1>11. CASE Downloads!ManifestRefused(t)
  BY <1>8, <1>11, ManifestRefusedDoes DEF Downloads!ManifestRefused, Becomes
<1>12. CASE Downloads!ManifestFails(t) \/ Downloads!Notice(t) \/ Downloads!GiveUp(t)
  <2>1. PICK status \in {"error", "cancelled"} : cache' = cache /\ Downloads!End(t, status)
    BY <1>12 DEF Downloads!ManifestFails, Downloads!Notice, Downloads!GiveUp
  <2>2. dl'[t].at = "idle" /\ Downloads!Save(t, status, dl[t].listed)
    BY <2>1, EndDoes DEF Ends, Frees, Becomes
  <2> QED BY <1>2, <1>6, <2>1, <2>2
<1>13. CASE Downloads!List(t)
  <2>1. CASE Downloads!Settle(t) /\ record' = record
    BY <1>7, <1>13, <2>1 DEF Downloads!List
  <2>2. CASE ~dl[t].aborted /\ ~dl[t].dead
    <3>1. Becomes(t, "opening", dl[t].next, dl[t].ed, TRUE, dl[t].aborted, dl[t].dead,
                  dl[t].attached, dl[t].by)
      BY <1>13, <2>2, ListDoes
    <3>2. record' = [status |-> "downloading", listed |-> TRUE] /\ cache' = cache
      BY <1>13, <2>2 DEF Downloads!List, Downloads!Save
    <3>3. record' \in Downloads!Records /\ record'.status = "downloading" /\ record'.listed
      BY <1>2, <3>2 DEF Downloads!Records
    <3>4. Downloads!ListedSoFar' /\ ~Downloads!Is("done")'
      BY CopyAssumption, <3>3 DEF Downloads!ListedSoFar, Downloads!Is, CopyParameters
    <3>5. Sound(t)'
      BY <3>1, <3>4 DEF Becomes, Sound
    <3> QED BY <1>5, <3>2, <3>4, <3>5
  <2> QED BY <1>13, <2>1, <2>2 DEF Downloads!List
<1>14. CASE Downloads!Open(t)
  BY <1>8, <1>14, OpenDoes DEF Downloads!Open, Becomes
<1>15. CASE Downloads!Track(t)
  <2>1. dl[t].at = "track" /\ record' = record /\ Downloads!ListedSoFar /\ dl[t].attached /\ dl[t].ed # 0
    BY <1>1, <1>4, <1>15 DEF Downloads!Track, Sound
  <2>2. CASE cache.meta = dl[t].ed /\ Advances(t, "detail") /\ cache' = cache
    BY <1>8, <2>1, <2>2 DEF Advances, Becomes
  <2>3. CASE Advances(t, "wiping") \/ Advances(t, "chunk")
    BY <1>8, <2>1, <2>3 DEF Advances, Becomes
  <2> QED BY <1>15, <2>2, <2>3, TrackDoes
<1>16. CASE Downloads!Wipe(t)
  <2>1. dl[t].at = "wiping" /\ record' = record /\ Downloads!ListedSoFar /\ dl[t].attached
    BY <1>1, <1>4, <1>16 DEF Downloads!Wipe, Sound
  <2> QED BY <1>8, <1>16, <2>1, WipeDoes DEF Advances, Becomes
<1>17. CASE Downloads!KeepChunk(t)
  <2>1. dl[t].at = "chunk" /\ record' = record /\ Downloads!ListedSoFar /\ dl[t].attached
    BY <1>1, <1>4, <1>17 DEF Downloads!KeepChunk, Sound
  <2> QED BY <1>8, <1>17, <2>1, KeepChunkDoes DEF Becomes
<1>18. CASE Downloads!FetchChunk(t)
  <2>1. dl[t].at = "chunk" /\ Downloads!ListedSoFar /\ dl[t].attached
    BY <1>1, <1>4, <1>18 DEF Downloads!FetchChunk, Sound
  <2>2. CASE Ends(t) /\ Downloads!Save(t, "error", dl[t].listed)
    BY <1>2, <1>6, <2>1, <2>2 DEF Ends, Frees, Becomes
  <2>3. CASE /\ Becomes(t, "storing", dl[t].next, dl[t].ed, dl[t].listed, dl[t].aborted, dl[t].dead,
                        dl[t].attached, cookie)
             /\ record' = record
    BY <1>8, <2>1, <2>3 DEF Becomes
  <2> QED BY <1>18, <2>2, <2>3, FetchChunkDoes
<1>19. CASE Downloads!StoreChunk(t)
  <2>1. dl[t].at = "storing" /\ record' = record /\ Downloads!ListedSoFar /\ dl[t].attached
    BY <1>1, <1>4, <1>19 DEF Downloads!StoreChunk, Sound
  <2> QED BY <1>8, <1>19, <2>1, StoreChunkDoes DEF Becomes
<1>20. CASE Downloads!MarkTrack(t)
  <2>1. dl[t].at = "chunk" /\ record' = record /\ Downloads!ListedSoFar /\ dl[t].attached /\ dl[t].ed # 0
    BY <1>1, <1>4, <1>20 DEF Downloads!MarkTrack, Sound
  <2>2. Advances(t, "detail") /\ cache'.meta = dl[t].ed
    BY <1>20, <2>1, MarkTrackDoes DEF Stores, Holds, Reads
  <2> QED BY <1>8, <2>1, <2>2 DEF Advances, Becomes
<1>21. CASE Downloads!Detail(t)
  <2>1. dl[t].at = "detail" /\ record' = record /\ Downloads!ListedSoFar /\ dl[t].attached /\ cache.meta # 0
    BY <1>1, <1>4, <1>21 DEF Downloads!Detail, Sound
  <2>2. Advances(t, "finishing") /\ cache'.meta = cache.meta /\ cache'.detail
    BY <1>21, <2>1, DetailDoes DEF Stores, Holds, Reads
  <2> QED BY <1>8, <2>1, <2>2 DEF Advances, Becomes
<1>22. CASE Downloads!FetchRefused(t)
  <2>1. dl'[t].at = "idle" /\ cache' = cache
    BY <1>22, FetchRefusedDoes DEF Downloads!FetchRefused, Frees, Becomes
  <2>2. PICK status \in {"error", "cancelled"} : Downloads!Save(t, status, dl[t].listed)
    BY <1>22 DEF Downloads!FetchRefused
  <2> QED BY <1>2, <1>6, <2>1, <2>2
<1>23. CASE Downloads!Finish(t)
  <2>1. cache' = cache /\ cache.meta # 0 /\ cache.detail
    BY <1>1, <1>23 DEF Downloads!Finish, Sound
  <2>2. dl'[t].at = "idle" /\ Downloads!Save(t, "done", dl[t].listed)
    BY <1>23, EndDoes DEF Downloads!Finish, Ends, Frees, Becomes
  <2>3. Sound(t)' /\ (Downloads!ListedSoFar' <=> Downloads!ListedSoFar)
    BY <1>1, <1>2, <2>2, Saved DEF Sound, Downloads!Running
  <2> QED BY <1>5, <2>1, <2>3
<1> QED BY <1>9, <1>10, <1>11, <1>12, <1>13, <1>14, <1>15, <1>16, <1>17, <1>18, <1>19, <1>20, <1>21,
           <1>22, <1>23 DEF Downloads!Download

\* What it takes for harm to stay away.
LEMMA HarmStaysAway ==
    ASSUME Downloads!TypeOK, harm' = "none"
    PROVE  /\ \A h \in {"storage", "track"} : harm' # Downloads!Worse(h)
           /\ Downloads!Unlisted => harm = "none" /\ ~Downloads!HasContent(cache) /\ \A o \in Tabs : Downloads!Running(o) => dl[o].dead
           /\ \A T, h : Downloads!HarmTo(T, h) /\ h \in {"storage", "track"} =>
                  harm = "none" /\ \A o \in T : ~Downloads!Running(o)
BY DEF Downloads!TypeOK, Downloads!Worse, Downloads!Unlisted, Downloads!HarmTo

\* A step that stores and lists nothing, and ends no emptying.
LEMMA WholeKept ==
    ASSUME Whole, harm = "none", record' = record,
           cache'.meta = cache.meta, cache'.detail = cache.detail, cache'.partial = cache.partial,
           cache'.chunk = cache.chunk,
           \A o \in Tabs : dl'[o].at = "idle" \/
               /\ dl'[o].at = dl[o].at /\ dl'[o].listed = dl[o].listed /\ dl'[o].dead = dl[o].dead
               /\ dl'[o].attached = dl[o].attached,
           Emptying => Emptying'
    PROVE  Whole'
<1>1. (Downloads!ListedSoFar' <=> Downloads!ListedSoFar) /\ (Downloads!Is("done")' <=> Downloads!Is("done"))
  BY DEF Downloads!ListedSoFar, Downloads!Is
<1>2. ASSUME NEW o \in Tabs PROVE Sound(o)'
  BY <1>1 DEF Whole, Sound, Downloads!Running
<1>3. Downloads!HasContent(cache)' => Downloads!HasContent(cache)
  BY DEF Downloads!HasContent, Downloads!HasBook
<1> QED BY <1>1, <1>2, <1>3 DEF Whole

\* A step that leaves nothing of the book.
LEMMA WholeEmpty ==
    ASSUME record' = record, cache'.meta = 0, cache'.partial = 0, cache'.detail = FALSE,
           cache'.chunk = NoChunks,
           \A o \in Tabs : Downloads!Running(o)' => dl'[o].dead /\ dl'[o].at = "registering",
           Emptying'
    PROVE  Whole'
<1>1. ASSUME NEW o \in Tabs PROVE Sound(o)'
  BY DEF Sound, Downloads!Running
<1>2. ~Downloads!HasContent(cache)'
  BY DEF Downloads!HasContent, Downloads!HasBook, NoChunks
<1> QED BY <1>1, <1>2 DEF Whole

\* The record goes, and there was nothing to list.
LEMMA WholeUnlisted ==
    ASSUME Stored, record' = NoRecord, Downloads!Unlisted, dl' = dl, cache' = cache
    PROVE  Whole'
<1> SUFFICES ASSUME harm' = "none" PROVE Whole'
  BY DEF Whole
<1>1. ~Downloads!HasContent(cache) /\ \A o \in Tabs : Downloads!Running(o) => dl[o].dead
  BY HarmStaysAway DEF Stored
<1>2. ASSUME NEW o \in Tabs PROVE Sound(o)'
  BY <1>1 DEF Sound, Downloads!Running, Stored, Stages, Staged
<1> QED BY <1>1, <1>2 DEF Whole, Downloads!Is

LEMMA TabWhole ==
    ASSUME Stored, Whole, NEW t \in Tabs,
           \/ Downloads!Start(t) \/ Downloads!Cancel(t) \/ Downloads!Look(t) \/ Downloads!Tell(t)
           \/ Downloads!Remove(t) \/ Downloads!RemoveEntries(t) \/ Downloads!RemoveRecord(t)
           \/ Downloads!Unauthorized(t) \/ Downloads!PurgeCache(t) \/ Downloads!PurgeRecord(t) \/ Downloads!SignOut(t)
           \/ Downloads!HearUnauthorized(t) \/ Downloads!HearPurged(t) \/ Downloads!SignIn(t) \/ Downloads!Close(t),
           harm' = "none"
    PROVE  Whole'
<1> USE DEF Stored, Downloads!server
<1>1. CASE Downloads!Start(t)
  <2>1. /\ cache' = cache /\ record' = record /\ harm' = harm /\ ~Downloads!Is("done")
        /\ \A o \in Tabs : ~Downloads!Running(o)
        /\ Becomes(t, "registering", 1, 0, Downloads!ListedSoFar, FALSE, FALSE, FALSE, Nobody)
    BY <1>1, StartDoes DEF Downloads!Start
  <2>2. (Downloads!ListedSoFar' <=> Downloads!ListedSoFar) /\ ~Downloads!Is("done")'
    BY <2>1 DEF Downloads!ListedSoFar, Downloads!Is
  <2>3. ASSUME NEW o \in Tabs PROVE Sound(o)'
    <3>1. CASE o = t
      BY <2>1, <2>2, <3>1 DEF Becomes, Sound
    <3>2. CASE o # t
      BY <2>1, <3>2 DEF Becomes, Sound, Downloads!Running
    <3> QED BY <3>1, <3>2
  <2> QED BY <2>1, <2>2, <2>3 DEF Whole
<1>2. CASE Downloads!Cancel(t)
  <2>1. /\ Aborts(t, TRUE) /\ cache' = cache /\ record' = record /\ harm' = harm /\ page' = page
    BY <1>2, CancelDoes DEF Downloads!Cancel
  <2>2. Emptying => Emptying'
    BY <2>1 DEF Emptying, Empties
  <2> QED BY <2>1, <2>2, WholeKept DEF Aborts, Becomes
<1>3. CASE Downloads!Unauthorized(t) \/ Downloads!SignOut(t)
  <2>1. /\ Aborts(t, Downloads!Running(t)) /\ cache' = cache /\ record' = record /\ harm' = harm
        /\ Turns(t, page[t].signed, Begun(t), page[t].mail, page[t].removing)
    BY <1>3, PurgeBegins DEF Downloads!Unauthorized, Downloads!SignOut
  <2>2. Emptying => Emptying'
    BY <2>1 DEF Emptying, Empties, Turns, Begun
  <2> QED BY <2>1, <2>2, WholeKept DEF Aborts, Becomes
<1>4. CASE Downloads!HearUnauthorized(t)
  <2>1. /\ \E b : Aborts(t, b)
        /\ Turns(t, page[t].signed, Begun(t), page[t].mail \ {"unauthorized"}, page[t].removing)
        /\ cache' = cache /\ record' = record /\ harm' = harm
    BY <1>4, HearUnauthorizedDoes DEF Downloads!HearUnauthorized
  <2>2. Emptying => Emptying'
    BY <2>1 DEF Emptying, Empties, Turns, Begun
  <2> QED BY <2>1, <2>2, WholeKept DEF Aborts, Becomes
<1>5. CASE Downloads!Look(t)
  <2>1. dl' = dl /\ cache' = cache /\ record' = record /\ harm' = harm /\ page' = page
    BY <1>5 DEF Downloads!Look
  <2> QED BY <2>1, WholeKept DEF Emptying, Empties
<1>6. CASE Downloads!Tell(t)
  <2>1. dl' = dl /\ cache' = cache /\ page' = page
    BY <1>6 DEF Downloads!Tell
  <2>2. Emptying => Emptying'
    BY <2>1 DEF Emptying, Empties
  <2>3. CASE UNCHANGED <<record, harm>>
    BY <2>1, <2>2, <2>3, WholeKept
  <2>4. CASE /\ record' = look[t]
             /\ harm' = IF record = [status |-> "downloading", listed |-> look[t].listed]
                        THEN harm ELSE Downloads!Worse("storage")
    <3>1. look[t] \in Looks
      BY <1>6, TypeParts DEF Downloads!Tell, Rest
    <3>2. record = [status |-> "downloading", listed |-> look[t].listed] /\ harm = "none"
      BY <2>4, HarmStaysAway
    <3>3. record.listed = look[t].listed /\ look[t] \in Downloads!Records /\ record \in Downloads!Records
          /\ look[t].status # "done"
      BY <3>1, <3>2 DEF Looks, Downloads!Records, Downloads!Statuses
    <3>4. (Downloads!ListedSoFar' <=> Downloads!ListedSoFar) /\ ~Downloads!Is("done")'
      BY CopyAssumption, <2>4, <3>3 DEF Downloads!ListedSoFar, Downloads!Is, CopyParameters
    <3>5. ASSUME NEW o \in Tabs PROVE Sound(o)'
      BY <2>1, <3>2, <3>4 DEF Whole, Sound, Downloads!Running
    <3> QED BY <2>1, <3>2, <3>4, <3>5 DEF Whole
  <2> QED BY <1>6, <2>3, <2>4 DEF Downloads!Tell
<1>7. CASE Downloads!Remove(t)
  <2>1. dl' = dl /\ cache' = cache /\ record' = record /\ harm' = harm /\ page[t].removing = "no"
    BY <1>7 DEF Downloads!Remove
  <2> DEFINE removing == IF record.listed THEN "entries" ELSE "record"
  <2>2. page' = [page EXCEPT ![t].removing = removing] /\ removing \in {"no", "entries", "record"}
    BY <1>7 DEF Downloads!Remove
  <2> HIDE DEF removing
  <2>3. Turns(t, page[t].signed, page[t].purge, page[t].mail, removing)
    BY <2>2, RemovingDoes
  <2>4. Emptying => Emptying'
    BY <2>1, <2>3 DEF Emptying, Empties, Turns
  <2> QED BY <2>1, <2>4, WholeKept
<1>8. CASE Downloads!RemoveEntries(t)
  <2>1. /\ dl' = dl /\ record' = record /\ cache'.meta = 0 /\ cache'.partial = 0
        /\ cache'.detail = FALSE /\ cache'.chunk = NoChunks
    <3>1. cache' = [Downloads!EmptyCache EXCEPT !.stamp = cache.stamp] /\ cache.stamp \in Users \cup {Nobody}
      BY <1>8, DlTyped DEF Downloads!RemoveEntries, Downloads!WithoutBook, Copies
    <3> QED BY <1>8, <3>1, EmptyReads DEF Downloads!RemoveEntries, Reads
  <2>2. \A o \in Tabs : ~Downloads!Running(o)
    BY <1>8, HarmStaysAway DEF Downloads!RemoveEntries
  <2>3. Turns(t, page[t].signed, page[t].purge, page[t].mail, "record")
    BY <1>8, RemovingDoes DEF Downloads!RemoveEntries
  <2>4. Emptying'
    BY <2>3 DEF Emptying, Empties, Turns
  <2> QED BY <2>1, <2>2, <2>4, WholeEmpty DEF Downloads!Running
<1>9. CASE Downloads!RemoveRecord(t) \/ Downloads!PurgeRecord(t) \/ Downloads!HearPurged(t)
  BY <1>9, WholeUnlisted DEF Downloads!RemoveRecord, Downloads!PurgeRecord, Downloads!HearPurged
<1>10. CASE Downloads!PurgeCache(t)
  <2>1. /\ CutOff /\ cache' = Downloads!EmptyCache /\ record' = record /\ page[t].purge = "settled"
        /\ \A o \in Tabs : dl'[o].dead = IF o = t THEN Downloads!Running(t) ELSE dl[o].dead
        /\ Turns(t, page[t].signed, "clearing", page[t].mail, page[t].removing)
    BY <1>10, PurgeCacheDoes DEF Downloads!PurgeCache
  <2>2. \A o \in Tabs \ {t} : ~Downloads!Running(o)
    BY <1>10, HarmStaysAway DEF Downloads!PurgeCache
  <2>3. ASSUME NEW o \in Tabs, Downloads!Running(o)' PROVE dl'[o].dead /\ dl'[o].at = "registering"
    <3>1. Downloads!Running(o) /\ dl'[o].at = dl[o].at
      BY <2>1, <2>3 DEF CutOff, Downloads!Running
    <3>2. o = t
      BY <2>2, <3>1
    <3> QED BY <2>1, <3>1, <3>2 DEF Stages, Staged
  <2>4. Emptying'
    BY <2>1 DEF Emptying, Empties, Turns
  <2> QED BY <2>1, <2>3, <2>4, EmptyReads, WholeEmpty DEF Reads
<1>11. CASE Downloads!SignIn(t)
  <2>1. /\ Turns(t, TRUE, page[t].purge, page[t].mail, page[t].removing)
        /\ dl' = dl /\ cache' = cache /\ record' = record /\ harm' = harm
    BY <1>11, SignInDoes DEF Downloads!SignIn
  <2>2. Emptying => Emptying'
    BY <2>1 DEF Emptying, Empties, Turns
  <2> QED BY <2>1, <2>2, WholeKept
<1>12. CASE Downloads!Close(t)
  <2>1. /\ Frees(t) /\ Turns(t, FALSE, "none", {}, "no") /\ cache' = cache /\ record' = record
    BY <1>12, CloseDoes DEF Downloads!Close
  <2>2. harm = "none" /\ ~Empties(t)
    BY <1>12, HarmStaysAway DEF Downloads!Close, Empties
  <2>3. Emptying => Emptying'
    BY <2>1, <2>2 DEF Emptying, Empties, Turns
  <2> QED BY <2>1, <2>2, <2>3, WholeKept DEF Frees, Becomes
<1> QED BY <1>1, <1>2, <1>3, <1>4, <1>5, <1>6, <1>7, <1>8, <1>9, <1>10, <1>11, <1>12

LEMMA GlobalWhole ==
    ASSUME Stored, Whole, harm' = "none",
           Downloads!Check \/ Downloads!Reconcile \/ Downloads!Stale \/ Downloads!AccountChanges \/ Downloads!FileReplaced
    PROVE  Whole'
<1>1. record' = record
  BY GlobalDoes DEF Stored
<1>2. CASE /\ dl' = dl /\ page' = page /\ harm' = harm
           /\ cache' = cache \/ \E u : Holds(u, cache.chunk, cache.meta, cache.partial,
                                             cache.detail, cache.whose)
  <2>1. /\ cache'.meta = cache.meta /\ cache'.chunk = cache.chunk /\ cache'.detail = cache.detail
        /\ cache'.partial = cache.partial
    BY <1>2 DEF Holds, Reads
  <2> QED BY <1>1, <1>2, <2>1, WholeKept DEF Emptying, Empties
<1>3. CASE /\ CutOff /\ Downloads!HarmTo(Tabs, "storage") /\ \E u : Holds(u, NoChunks, 0, 0, FALSE, {})
           /\ \E msg \in {"unauthorized", "purged"} : Told(msg)
  <2>1. \A o \in Tabs : ~Downloads!Running(o)'
    BY <1>3, HarmStaysAway DEF Stored, CutOff, Downloads!Running
  <2>2. PICK o \in Tabs : TRUE
    BY CopyAssumption DEF CopyParameters
  <2>3. Emptying'
    <3>1. page'[o].mail # {}
      BY <1>3 DEF Told
    <3> QED BY <3>1 DEF Emptying, Empties
  <2> QED BY <1>1, <1>3, <2>1, <2>3, WholeEmpty DEF Holds, Reads
<1> QED BY <1>2, <1>3, GlobalDoes DEF Stored

LEMMA NextWhole == ASSUME Stored, Whole, [Downloads!Next]_(Downloads!vars) PROVE Whole'
<1> SUFFICES ASSUME harm' = "none" PROVE Whole'
  BY DEF Whole
<1>1. CASE UNCHANGED Downloads!vars
  BY <1>1 DEF Downloads!vars, Whole, Sound, Downloads!Running, Downloads!Is,
              Downloads!ListedSoFar, Downloads!HasContent, Downloads!HasBook, Emptying, Empties
<1>2. ASSUME NEW t \in Tabs, Downloads!Download(t) \/ Downloads!GiveUp(t) PROVE Whole'
  BY <1>2, DownloadLeaves, DownloadWhole
<1> QED BY <1>1, <1>2, TabWhole, GlobalWhole DEF Downloads!Next

-----------------------------------------------------------------------------

Copied == Stored /\ Tracked /\ Gone /\ Whole

LEMMA InitCopied == ASSUME Downloads!Init PROVE Copied
<1>1. Reads(cache, First, NoChunks, 0, 0, FALSE, {})
  BY CopyAssumption, EmptyReads DEF Downloads!Init, CopyParameters
<1>2. \A t \in Tabs : dl[t].at = "idle"
  BY IdleIs DEF Downloads!Init
<1>3. Gone
  BY DEF Downloads!Init, Gone
<1>4. ~Downloads!Is("done") /\ ~Downloads!HasContent(cache)
  BY <1>1 DEF Downloads!Init, Downloads!Is, Downloads!HasContent, Downloads!HasBook, Reads, NoChunks
<1>5. Whole
  BY <1>2, <1>4 DEF Whole, Sound, Downloads!Running
<1> QED BY <1>3, <1>5, InitStored, InitTracked DEF Copied

LEMMA CopiedKept == Downloads!Spec => []Copied
<1>1. Downloads!Init => Copied
  BY InitCopied
<1>2. Copied /\ [Downloads!Next]_(Downloads!vars) => Copied'
  BY NextStored, NextTracked, NextGone, NextWhole DEF Copied
<1> QED BY <1>1, <1>2, PTL DEF Downloads!Spec

\* The copy kept for offline use, the downloads and the purges of it keep their types.
THEOREM OfflineTypeCorrect == Downloads!Spec => []Downloads!TypeOK
BY CopiedKept, PTL DEF Copied, Stored

\* A track that may be served is whole, and a book called done is there.
THEOREM ClaimsHold == Downloads!Spec => []ClaimsAreTrue
<1>1. Copied => ClaimsAreTrue
  BY DEF Copied, Tracked, Marked, Whole, ClaimsAreTrue, Downloads!ClaimsAreTrue,
         Downloads!Clearing, Emptying, Empties
<1> QED BY <1>1, CopiedKept, PTL

\* Whatever is stored of a book can be removed.
THEOREM AllIsListed == Downloads!Spec => []StoredIsListed
<1>1. Copied => StoredIsListed
  BY DEF Copied, Whole, StoredIsListed, Downloads!StoredIsListed, Downloads!ListedSoFar
<1> QED BY <1>1, CopiedKept, PTL

\* A purge leaves nothing behind, in any interleaving with the downloads of all tabs.
THEOREM NothingIsLeft == Downloads!Spec => []NothingOutlivesSignOut
<1>1. Copied => NothingOutlivesSignOut
  BY DEF Copied, Gone, EmptyOfBook, NothingOutlivesSignOut, Downloads!NothingOutlivesSignOut,
         Downloads!HasBook
<1> QED BY <1>1, CopiedKept, PTL
=============================================================================
