------------------------------ MODULE Library ------------------------------
(***************************************************************************)
(* The library: what lies in the mounted folders, what the scanner          *)
(* (server/src/scanner/scan.ts) and the index and pairing jobs              *)
(* (server/src/jobs/handlers.ts) make of it in the tables `books` and       *)
(* `pairs`.  A scan walks the folders, applies what it found, and queues    *)
(* one index job per new or changed book and one pairing scan; the jobs run *)
(* in the `light` lane, one at a time per process.  Files move, change and  *)
(* disappear under all of it, mounts fail, and jobs are cut off and claimed *)
(* again.                                                                   *)
(*                                                                          *)
(* A content stands for a file's bytes, size and modification time: what    *)
(* quickHash tells apart.  A book's id is a hash of the place it was first  *)
(* found at (stableId), so ids are places.  The queue is reduced to what    *)
(* the library relies on (its leases are module JobQueue's subject).        *)
(***************************************************************************)
EXTENDS Integers, SequencesExt

CONSTANTS
    Ebooks, Audios,     \* the places where an ebook, an audiobook can be found
    WalkOrder,          \* the order in which a scan reports the places
    Similar,            \* <<ebook content, audio content>>s scored as candidates
    Slots,              \* light jobs at once: one for each worker process
    MaxContents,        \* bound on the files written
    MaxMoves,           \* bound on the files moved
    MaxOutages,         \* bound on the times the mount disappears
    MaxInterruptions,   \* bound on the jobs cut off half way (below MAX_ATTEMPTS)
    MaxRequests,        \* bound on the scans asked for by hand or at a start
    MaxDecisions,       \* bound on the curator's decisions
    NoFile, NoRow

ASSUME PlacesApart == Ebooks \cap Audios = {}
ASSUME WalkReportsEveryPlace ==
    /\ WalkOrder \in Seq(Ebooks \cup Audios)
    /\ Range(WalkOrder) = Ebooks \cup Audios
ASSUME SlotsAssumption == Slots \in Nat \ {0}
ASSUME NoFileAssumption == NoFile \notin Nat \cup Ebooks \cup Audios
ASSUME BoundsAssumption ==
    {MaxContents, MaxMoves, MaxOutages, MaxInterruptions, MaxRequests, MaxDecisions}
        \subseteq Nat

VARIABLES
    files,      \* what lies at each place
    mounted,    \* whether the library folders can be read
    rows,       \* table books, by id; `text` is the content last indexed
    pairs,      \* table pairs
    job,        \* the queue, by dedupe key
    scan,       \* the local state of the running scan job
    reading,    \* the local state of each running index job
    spent       \* how much of each bound is used up

vars == <<files, mounted, rows, pairs, job, scan, reading, spent>>

Places == Ebooks \cup Audios
Contents == 1..MaxContents
File == Contents \cup {NoFile}

\* An index job is known by the id of its book (its dedupe key).
PairJobs == {"pair-scan", "pair-scan-retry"}
JobKeys == {"scan"} \cup PairJobs \cup Places

Row == [place : Places, hash : Contents, text : File,
        state : {"discovered", "indexing", "ready", "error", "missing"}]
Pair == [e : Ebooks, a : Audios,
         status : {"candidate", "confirmed", "rejected"}]

ASSUME KeysApart == Places \cap ({"scan"} \cup PairJobs) = {}
ASSUME NoRowAssumption == NoRow \notin Row

NoScan == [phase |-> "idle", at |-> 1, todo |-> {},
           found |-> [p \in Places |-> NoFile]]
NotReading == [place |-> NoFile, text |-> NoFile]

\* A book in service has a text to serve, and no two books claim one place.
TypeOK ==
    /\ files \in [Places -> File] /\ mounted \in BOOLEAN
    /\ rows \in [Places -> Row \cup {NoRow}]
    /\ \A i, k \in Places :
          /\ rows[i] # NoRow /\ rows[i].state = "ready" => rows[i].text # NoFile
          /\ i # k /\ rows[i] # NoRow /\ rows[k] # NoRow
                => rows[i].place # rows[k].place
    /\ pairs \subseteq Pair
    /\ job \in [JobKeys -> {"none", "queued", "running"}]
    /\ scan \in [phase : {"idle", "walking", "enqueueing"}, todo : SUBSET Places,
                 at : 1..(Len(WalkOrder) + 1), found : [Places -> File]]
    /\ reading \in [Places -> [place : Places \cup {NoFile}, text : File]]

Init ==
    /\ files = [p \in Places |-> NoFile] /\ mounted = TRUE
    /\ rows = [i \in Places |-> NoRow]
    /\ pairs = {}
    /\ job = [j \in JobKeys |-> "none"]
    /\ scan = NoScan
    /\ reading = [i \in Places |-> NotReading]
    /\ spent = [writes |-> 0, moves |-> 0, outages |-> 0,
                interruptions |-> 0, requests |-> 0, decisions |-> 0]

-----------------------------------------------------------------------------
(* The folders, which anything outside ReadPort may change.                 *)

Seen(p) == IF mounted THEN files[p] ELSE NoFile

tables == <<rows, pairs, job, scan, reading>>

\* A file appears, or is replaced: a size and a time it never had before.
WriteFile(p) ==
    /\ mounted /\ spent.writes < MaxContents
    /\ files' = [files EXCEPT ![p] = spent.writes + 1]
    /\ spent' = [spent EXCEPT !.writes = @ + 1]
    /\ UNCHANGED <<mounted, tables>>

RemoveFile(p) ==
    /\ mounted /\ files[p] # NoFile
    /\ files' = [files EXCEPT ![p] = NoFile]
    /\ UNCHANGED <<mounted, spent, tables>>

MoveFile(p, q) ==
    /\ mounted /\ spent.moves < MaxMoves
    /\ files[p] # NoFile /\ files[q] = NoFile /\ (p \in Ebooks <=> q \in Ebooks)
    /\ files' = [files EXCEPT ![p] = NoFile, ![q] = files[p]]
    /\ spent' = [spent EXCEPT !.moves = @ + 1]
    /\ UNCHANGED <<mounted, tables>>

Unmount ==
    /\ mounted /\ spent.outages < MaxOutages
    /\ mounted' = FALSE
    /\ spent' = [spent EXCEPT !.outages = @ + 1]
    /\ UNCHANGED <<files, tables>>

Remount ==
    /\ ~mounted
    /\ mounted' = TRUE
    /\ UNCHANGED <<files, spent, tables>>

-----------------------------------------------------------------------------
(* The queue, as the library uses it.                                       *)

\* enqueueJob: nothing happens while a job of the same key is active.
Queued(jobs, J) ==
    [j \in JobKeys |-> IF j \in J /\ jobs[j] = "none" THEN "queued" ELSE jobs[j]]

Finished(jobs, j) == [jobs EXCEPT ![j] = "none"]

Running == {j \in JobKeys : job[j] = "running"}

\* claimNextJob: a pairing scan has a lower priority than all the rest.
Claimable(j) ==
    /\ job[j] = "queued" /\ Cardinality(Running) < Slots
    /\ j \in PairJobs => \A k \in JobKeys \ PairJobs : job[k] # "queued"

Claimed(j) == [job EXCEPT ![j] = "running"]

\* A scan asked for by hand, by the end of the setup, or by a starting server.
RequestScan ==
    /\ spent.requests < MaxRequests
    /\ spent' = [spent EXCEPT !.requests = @ + 1]
    /\ job' = Queued(job, {"scan"})
    /\ UNCHANGED <<files, mounted, rows, pairs, scan, reading>>

\* The periodic rescan.  Its interval (an hour unless configured) is taken to
\* be longer than the work one scan gives rise to.
TimedScan ==
    /\ \A j \in JobKeys : job[j] = "none"
    /\ job' = Queued(job, {"scan"})
    /\ UNCHANGED <<files, mounted, rows, pairs, scan, reading, spent>>

\* A job is cut off (a crash, a restart, a lost lease) and later reclaimed;
\* what it wrote so far stays.
Interrupt(j) ==
    /\ job[j] = "running" /\ spent.interruptions < MaxInterruptions
    /\ spent' = [spent EXCEPT !.interruptions = @ + 1]
    /\ job' = [job EXCEPT ![j] = "queued"]
    /\ scan' = IF j = "scan" THEN NoScan ELSE scan
    /\ reading' = [i \in Places |-> IF i = j THEN NotReading ELSE reading[i]]
    /\ UNCHANGED <<files, mounted, rows, pairs>>

-----------------------------------------------------------------------------
(* The scan.                                                                *)

StartScan ==
    /\ Claimable("scan")
    /\ job' = Claimed("scan")
    /\ scan' = [NoScan EXCEPT !.phase = "walking"]
    /\ UNCHANGED <<files, mounted, rows, pairs, reading, spent>>

\* The walk reads one place after the other, while they may change.
WalkOn ==
    /\ scan.phase = "walking" /\ scan.at <= Len(WalkOrder)
    /\ LET p == WalkOrder[scan.at]
       IN  scan' = [scan EXCEPT !.at = @ + 1, !.found[p] = Seen(p)]
    /\ UNCHANGED <<files, mounted, rows, pairs, job, reading, spent>>

\* The table while a report is applied: `seen` is seenIds, `todo` needsIndex.
Applying == [rows |-> rows, pairs |-> pairs, seen |-> {}, todo |-> {},
             failed |-> FALSE]

WithoutPairsOf(ps, i) == {p \in ps : p.e # i /\ p.a # i}

\* The book is known at this place.
RescannedWith(st, i, hash, stale) ==
    LET row == st.rows[i]
        other == row.hash # hash
        next == IF i \in Audios \/ row.state \in {"missing", "ready"}
                THEN "discovered" ELSE row.state
    IN  IF other \/ row.state \in stale
        THEN [st EXCEPT !.rows[i] = [row EXCEPT !.hash = hash, !.state = next],
                        !.pairs = IF other THEN WithoutPairsOf(@, i) ELSE @,
                        !.todo = @ \cup {i}]
        ELSE st

\* Seeded fault: a book that comes back from an outage is taken as unchanged.
RescannedOverlooksMissing(st, i, hash) ==
    RescannedWith(st, i, hash, {"error", "discovered"})
\* Seeded fault: a book left 'discovered' by a scan cut off is not queued again.
RescannedOverlooksDiscovered(st, i, hash) ==
    RescannedWith(st, i, hash, {"error", "missing"})

Rescanned(st, i, hash) ==
    RescannedWith(st, i, hash, {"error", "missing", "discovered"})

\* relinkMoved: a book of these bytes that is missing, or not found where it was.
Movable(st, p, hash) ==
    {i \in Places :
        /\ st.rows[i] # NoRow /\ (i \in Ebooks <=> p \in Ebooks)
        /\ st.rows[i].hash = hash
        /\ st.rows[i].state = "missing" \/ scan.found[st.rows[i].place] = NoFile}

Relinked(st, i, p) ==
    [st EXCEPT !.rows[i].place = p, !.rows[i].state = "discovered",
               !.seen = @ \cup {i}, !.todo = @ \cup {i}]

Inserted(st, p, hash) ==
    [st EXCEPT !.rows[p] = [place |-> p, hash |-> hash, text |-> NoFile,
                            state |-> "discovered"],
               !.todo = @ \cup {p}]

\* A file found at p.  The INSERT of a book whose id is taken, by a book that has
\* moved away from this place, fails and takes the scan with it.
Entered(st, p) ==
    LET hash == scan.found[p]
        known == {i \in Places : st.rows[i] # NoRow /\ st.rows[i].place = p}
        movable == Movable(st, p, hash)
    IN  CASE known # {} -> Rescanned(st, CHOOSE i \in known : TRUE, hash)
          [] known = {} /\ movable # {} -> Relinked(st, CHOOSE i \in movable : TRUE, p)
          [] known = {} /\ movable = {} /\ st.rows[p] # NoRow ->
                [st EXCEPT !.failed = TRUE]
          [] OTHER -> Inserted(st, p, hash)

\* One entry of the report.
ScanEntry(before, p) ==
    IF before.failed \/ scan.found[p] = NoFile THEN before
    ELSE Entered([before EXCEPT !.seen = @ \cup {p}], p)

\* The table when the first n entries of the report have been applied.
AppliedUpTo[n \in 0..Len(WalkOrder)] ==
    IF n = 0 THEN Applying ELSE ScanEntry(AppliedUpTo[n - 1], WalkOrder[n])

Applied == AppliedUpTo[Len(WalkOrder)]

WithMissing(st) ==
    [i \in Places |->
        IF st.rows[i] # NoRow /\ i \notin st.seen
        THEN [st.rows[i] EXCEPT !.state = "missing"] ELSE st.rows[i]]

ScanDone == scan.phase = "walking" /\ scan.at > Len(WalkOrder)

\* Seeded fault: a book that is not found loses its pairs with its file.
ApplyScanDropsMissing ==
    /\ ScanDone /\ ~Applied.failed
    /\ rows' = WithMissing(Applied)
    /\ pairs' = {p \in Applied.pairs :
                    rows'[p.e].state # "missing" /\ rows'[p.a].state # "missing"}
    /\ scan' = [NoScan EXCEPT !.phase = "enqueueing", !.todo = Applied.todo]
    /\ UNCHANGED <<files, mounted, job, reading, spent>>

\* applyScan, one call without an await.  (It opens no transaction: a crash
\* between its statements can leave half of a report applied, and is left out.)
ApplyScan ==
    /\ ScanDone /\ ~Applied.failed
    /\ rows' = WithMissing(Applied)
    /\ pairs' = Applied.pairs
    /\ scan' = [NoScan EXCEPT !.phase = "enqueueing", !.todo = Applied.todo]
    /\ UNCHANGED <<files, mounted, job, reading, spent>>

\* It threw: what it wrote so far stays, nothing is queued, the job fails.
ScanFails ==
    /\ ScanDone /\ Applied.failed
    /\ rows' = Applied.rows
    /\ pairs' = Applied.pairs
    /\ scan' = NoScan
    /\ job' = Finished(job, "scan")
    /\ UNCHANGED <<files, mounted, reading, spent>>

EnqueueIndex(i) ==
    /\ scan.phase = "enqueueing" /\ i \in scan.todo
    /\ job' = Queued(job, {i})
    /\ scan' = [scan EXCEPT !.todo = @ \ {i}]
    /\ UNCHANGED <<files, mounted, rows, pairs, reading, spent>>

\* Seeded fault: the scan forgets to have its finds paired.
FinishScanUnpaired ==
    /\ scan.phase = "enqueueing" /\ scan.todo = {}
    /\ job' = Finished(job, "scan")
    /\ scan' = NoScan
    /\ UNCHANGED <<files, mounted, rows, pairs, reading, spent>>

FinishScan ==
    /\ scan.phase = "enqueueing" /\ scan.todo = {}
    /\ job' = Finished(Queued(job, {"pair-scan"}), "scan")
    /\ scan' = NoScan
    /\ UNCHANGED <<files, mounted, rows, pairs, reading, spent>>

-----------------------------------------------------------------------------
(* The index jobs.                                                          *)

StartIndex(i) ==
    /\ Claimable(i)
    /\ job' = Claimed(i)
    /\ rows' = [rows EXCEPT ![i].state = "indexing"]
    /\ reading' = [reading EXCEPT ![i] = [place |-> rows[i].place, text |-> NoFile]]
    /\ UNCHANGED <<files, mounted, pairs, scan, spent>>

\* The file is opened where the row said it was when the job began.
ReadFile(i) ==
    /\ job[i] = "running" /\ reading[i].text = NoFile
    /\ Seen(reading[i].place) # NoFile
    /\ reading' = [reading EXCEPT ![i].text = Seen(reading[i].place)]
    /\ UNCHANGED <<files, mounted, rows, pairs, job, scan, spent>>

\* It is not there: markBookError, and the job has failed.
IndexFails(i) ==
    /\ job[i] = "running" /\ reading[i].text = NoFile
    /\ Seen(reading[i].place) = NoFile
    /\ rows' = [rows EXCEPT ![i].state = "error"]
    /\ job' = Finished(job, i)
    /\ reading' = [reading EXCEPT ![i] = NotReading]
    /\ UNCHANGED <<files, mounted, pairs, scan, spent>>

\* The transaction that puts the book in service; it leaves content_hash alone.
PublishIndex(i) ==
    /\ job[i] = "running" /\ reading[i].text # NoFile
    /\ rows' = [rows EXCEPT ![i].state = "ready", ![i].text = reading[i].text]
    /\ job' = Finished(job, i)
    /\ reading' = [reading EXCEPT ![i] = NotReading]
    /\ UNCHANGED <<files, mounted, pairs, scan, spent>>

-----------------------------------------------------------------------------
(* The pairing scan, and the curator's decisions.                           *)

IndexPending == \E i \in Places : job[i] # "none"

InService(i) == rows[i] # NoRow /\ rows[i].state = "ready"

Decided(ps) == {p \in ps : p.status # "candidate"}
Confirmed(ps) == {p \in ps : p.status = "confirmed"}

\* Neither side is linked already, and the two were never decided on.
Offered(e, a) ==
    /\ InService(e) /\ InService(a)
    /\ <<rows[e].text, rows[a].text>> \in Similar
    /\ \A p \in Decided(pairs) : ~(p.e = e /\ p.a = a)
    /\ \A p \in Confirmed(pairs) : p.e # e /\ p.a # a

\* The old guesses go, and are made again from what is in service now.
ComparePairs(j) ==
    /\ Claimable(j) /\ ~IndexPending
    /\ pairs' = Decided(pairs) \cup
                {p \in Pair : p.status = "candidate" /\ Offered(p.e, p.a)}
    /\ job' = Finished(job, j)
    /\ UNCHANGED <<files, mounted, rows, scan, reading, spent>>

\* Books are still being indexed: wait a while ...
PutOffPairScan(j) ==
    /\ Claimable(j) /\ IndexPending
    /\ job' = Claimed(j)
    /\ UNCHANGED <<files, mounted, rows, pairs, scan, reading, spent>>

\* ... then queue another pairing scan and be done.
ComeBackLater(j) ==
    /\ job[j] = "running"
    /\ job' = Finished(Queued(job, {"pair-scan-retry"}), j)
    /\ UNCHANGED <<files, mounted, rows, pairs, scan, reading, spent>>

\* A curator's word on a pair, at any time: confirm, reject, unlink.  (The
\* alignment a confirmed pair asks for runs in a lane of its own.)
Decide(p, verdict) ==
    /\ pairs' = (pairs \ {p}) \cup {[p EXCEPT !.status = verdict]}
    /\ UNCHANGED <<files, mounted, rows, job, scan, reading>>

\* Two books linked by hand; with `replace` every other pair of either that is
\* not rejected yet is let go in the same transaction.
LinkByHand(e, a, replace) ==
    /\ rows[e] # NoRow /\ rows[a] # NoRow
    /\ LET same == {p \in pairs : p.e = e /\ p.a = a}
           rivals == {p \in pairs \ same : replace /\ (p.e = e \/ p.a = a)}
           linked == IF same = {}
                     THEN {[e |-> e, a |-> a, status |-> "confirmed"]}
                     ELSE {[p EXCEPT !.status = "confirmed"] : p \in same}
       IN  pairs' = (pairs \ (same \cup rivals)) \cup linked
                    \cup {[p EXCEPT !.status = "rejected"] : p \in rivals}
    /\ UNCHANGED <<files, mounted, rows, job, scan, reading>>

CuratorStep ==
    /\ spent.decisions < MaxDecisions
    /\ spent' = [spent EXCEPT !.decisions = @ + 1]
    /\ \/ \E p \in pairs, verdict \in {"confirmed", "rejected"} : Decide(p, verdict)
       \/ \E e \in Ebooks, a \in Audios, replace \in BOOLEAN : LinkByHand(e, a, replace)

-----------------------------------------------------------------------------
FolderStep ==
    \/ \E p \in Places : WriteFile(p) \/ RemoveFile(p)
    \/ \E p, q \in Places : MoveFile(p, q)
    \/ Unmount

ScanStep ==
    \/ StartScan \/ WalkOn \/ ApplyScan \/ ScanFails \/ FinishScan
    \/ \E i \in Places : EnqueueIndex(i)

IndexStep ==
    \E i \in Places :
        StartIndex(i) \/ ReadFile(i) \/ IndexFails(i) \/ PublishIndex(i)

PairStep ==
    \E j \in PairJobs : ComparePairs(j) \/ PutOffPairScan(j) \/ ComeBackLater(j)

JobStep == ScanStep \/ IndexStep \/ PairStep

Next ==
    \/ FolderStep \/ Remount
    \/ RequestScan \/ TimedScan
    \/ JobStep
    \/ \E j \in JobKeys : Interrupt(j)
    \/ CuratorStep

Spec == Init /\ [][Next]_vars

\* The workers run what they can claim, the timer keeps firing, and an outage
\* ends.  Nothing is assumed of files, of crashes or of people.
Fairness ==
    /\ WF_vars(JobStep)
    /\ WF_vars(TimedScan)
    /\ WF_vars(Remount)

FairSpec == Spec /\ Fairness

-----------------------------------------------------------------------------
(* Properties.                                                              *)

InPlace(i, p) == rows[i] # NoRow /\ rows[i].place = p

\* A scan that was applied leaves every book it found in the catalogue, and
\* none of them 'missing' (self-hosting.md: a moved book keeps its place on
\* the shelf; scan.ts: "nothing left behind as missing").
AppliedScanFindsBooks ==
    [][ApplyScan =>
         \A p \in Places : scan.found[p] # NoFile =>
            \E i \in Places : InPlace(i, p)' /\ rows'[i].state # "missing"]_vars

\* What a curator decided about two books outlives outages, moves, re-indexing
\* and every later pairing scan; only other bytes on one side undo it
\* (discardPairing's contract, "decisions (incl. rejections) are durable").
DecisionsSurvive ==
    [][\A p \in Decided(pairs) : p \in pairs' \/ CuratorStep \/
         \E i \in {p.e, p.a} : rows'[i].hash # rows[i].hash]_vars

\* A book that still has to be indexed is some job's business: an index job of
\* its own, or a scan that will find it again.  A scan cut off between
\* applying its report and queueing the index jobs must not leave it behind.
UnfinishedBooksAreScheduled ==
    \A i \in Places :
        rows[i] # NoRow /\ rows[i].state \in {"discovered", "indexing"}
            => job[i] # "none" \/ job["scan"] # "none"

\* What the shelf should be, once the folders stay as they are: each file has
\* its book in service, indexed from its bytes, books without a file are
\* missing, and the suggestions are the similar pairs nobody has decided on.
CurrentlyIndexed(p) ==
    \E i \in Places : InPlace(i, p) /\ InService(i) /\ rows[i].text = files[p]
Settled ==
    /\ \A p \in Places : files[p] # NoFile => CurrentlyIndexed(p)
    /\ \A i \in Places :
          rows[i] # NoRow /\ files[rows[i].place] = NoFile => rows[i].state = "missing"
    /\ \A e \in Ebooks, a \in Audios : 
          Offered(e, a) <=> [e |-> e, a |-> a, status |-> "candidate"] \in pairs

\* Whatever happened to files, mounts and jobs, the catalogue converges to the
\* folders once they rest.
LibraryConverges == <>[]Settled
=============================================================================
