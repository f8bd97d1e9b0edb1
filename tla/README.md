# ReadPort in TLA+

ReadPort is a self-hosted library for ebooks and audiobooks: a Node server over one SQLite database
and a data folder, one or more worker processes that scan, index, pair and align books, and a web
application that keeps working with no network. These modules model the parts of it where the order
of steps matters, TLC checks them on small instances, and TLAPS proves the main results for every
instance.

| module | models | checked by | proved in |
| --- | --- | --- | --- |
| `JobQueue` | `server/src/jobs/queue.ts`, `worker.ts`, `worker-entry.ts` | `MCServerSafety`, `MCServerLive` | `JobQueue_proofs` |
| `JobLedger` | what the queue promises to its handlers | implemented by `JobQueue` | `JobQueue_proofs` |
| `Library` | `server/src/scanner/scan.ts`, the index and pairing jobs | `MCServerSafety`, `MCServerLive`, `MCLibrary` | `Library_proofs` |
| `Alignments` | the align job of a pair (`jobs/handlers.ts`), `aligner/probe-cache.ts`, decisions on pairs | `MCServer`, `MCAlignments` | `Server_proofs` |
| `ModelDownload` | the download of a speech model and the alignments that wait for it | `MCServer` | `Server_proofs` |
| `TranslationGroups` | `server/src/translations/groups.ts` and the pairings that feed it | `MCServer` | `Server_proofs` |
| `DerivedStore` | the derived texts of a book and their deletion | `MCCopies` | `Copies_proofs` |
| `OfflineDownloads` | `web/src/offline`, the cache half of `web/public/sw.js`, the sign-out in `session.tsx` | `MCCopies`, `MCOfflineDownloads` | `Copies_proofs` |
| `MarksOutbox` | `web/src/marks/outbox.ts`, the list of marks in `ReaderPage.tsx`, the mark handlers of the server | `MCMarksOutbox` | `MarksOutbox_proofs` |
| `Progress` | `web/src/progress`, `web/src/state/session.tsx`, `server/src/progress` | `MCPeople`, `MCProgress` | `Progress_proofs` |
| `Sittings` | the fold of checkpoints into `reading_sessions`, backfill, compaction | `MCPeople` | `Sittings_proofs` |
| `Places` | `server/src/progress/places.ts` | `MCPeople` | |
| `Accounts` | setup, proxy, admins, invitations, share links and join requests | `MCPeople`, `MCAccounts` | `People_proofs` |
| `Connections` | connect codes and their keys, friendships | `MCPeople` | `People_proofs` |

`tlc -workers 2 -config MCCopies.cfg MCCopies.tla` runs one check, `tlapm JobQueue_proofs.tla` one set
of proofs. `PROJECT.json` lists the components, the runs, a seeded fault for every property, the
source lines of every definition, the findings, the hazards and the theorems.


## 1. The system

### Parts that are modelled

**Job queue and worker loop.** *State:* the `jobs` table (state, attempts, lease token and expiry,
dedupe key, priority, lane); in each process, the attempts in hand, each with a guard that remembers
when its lease was last confirmed. *Operations:* enqueue, cancel, retry, prune; claim; heartbeat,
`assertHeld`, progress, complete, fail; the sweep of stale rows; start, stop, exit. *Interactions:*
every other background part runs as a handler of it; the web process's inline worker and the worker
container share the one table. *Hard:* two processes and a slow attempt that wakes up after it was
replaced; leases that run out during a stall; restarts under a running job; one attempt budget
counted at the claim. *Correct when:* only the holder of the lease writes, a superseded attempt
changes nothing, the budget is kept, and every job settles.

**Library scanner, index and pairing jobs.** *State:* the folders (changed by others), `books` and
`pairs`, the queued jobs by dedupe key, what a scan has walked, what an index job has read.
*Operations:* scan (walk, apply, enqueue), index (mark, read, publish or fail), compare pairs, decide
and link by hand. *Interactions:* timers and people ask for scans, scans queue index and pairing
jobs, a pairing scan puts itself off while index jobs wait. *Hard:* files that move or change
between walk, read and publish; an absent mount; a job cut off between two of its steps; ids that are
derived from a place the book has since left. *Correct when:* the catalogue converges to the folders,
decisions outlive everything but new bytes, no book waits for a job nobody will run.

**Alignment jobs and stored alignments.** *State:* the pair and its status, the partial and the
finished alignment, the probe cache (a file of lines), the align job, and what each attempt read when it
began. *Operations:* start (with or without force), hear a window, publish an opening, finish, refuse,
fail, die, stall past the lease; suggest, confirm, reject, let go, replace a file. *Interactions:* a
scan discards the pair, a curator decides on it, the reader already follows the opening, all while
one attempt listens for hours. *Hard:* what was read hours ago is written now; two attempts share one
cache file; a line is cut off by a crash. *Correct when:* a sync is of the books it is shown with,
decisions stand, a reader is never set back, a cached window was heard from this recording.

**Model downloads.** *State:* the `.part` file, the file in its place, the vocabulary, the download
job, alignments that failed for want of the model. *Operations:* request, remove, resume (206, 200,
416), append, check the size, rename, wake the waiting. *Hard:* two attempts that append to one
file; a removal between measuring and opening. *Correct when:* what counts as installed is the whole
model, and who waited goes again.

**Marks and their outbox.** *State:* the queue of changes in IndexedDB and one in each page's memory,
its owner, the server's marks, the list each page loaded and edits. *Operations:*
record a change, deliver in order (with a lock between tabs), settle, rename what follows a new mark in the
queue and in this tab's list, load the list, sign in, claim, purge. *Hard:* lost answers, a page that dies between
two writes, an account that changes under a request, a second tab that shows a mark under the name it used to have.
*Correct when:* every change arrives once and in order, none is refused while its mark is there, and a
loaded list lacks nothing that was made before.

**Offline downloads.** *State:* the cache with its owner stamp and the registry record, shared by
tabs; in each tab the running download, the purge generation, the removals. *Operations:* download
chunk by chunk, stop, resume, remove, purge on sign-out or refusal, the service worker's check of whose
cache it is. *Hard:* a download that ends after the purge, a removal in another tab, a purge that waits
for the download that asked for it. *Correct when:* what claims to be there is there, what is there can
be removed, and nothing of an account outlives its sign-out.

**Derived text store.** *State:* one directory per index attempt, the pointer `books.derived_rev`,
a registry of marks with times, timers. *Operations:* extract, publish (pointer, then sweep), timed
sweep, fail, abandon. *Interactions:* attempts come from the queue and may overlap; requests resolve
the pointer and open files later. *Hard:* sweeps of one publication during a later attempt, requests
across publications, a crash between commit and sweep. *Correct when:* the served, the owned and the
resolved directory exist, and old ones go.

**Reading progress and its offline queue.** *State:* on the server `progress_state`,
`progress_events`, `progress_resets`; in a browser, shared by its tabs, the cookie, the owner of the
queue and the stash (localStorage), the queue, the cached place and the reset generation (IndexedDB);
in each tab, the session, the book open, `seq`, `knownRevision`, the active generation. *Operations:*
open, sign in, claim the queue, sign out, expire; open a book, record, store, flush, hide, show,
close; look up, file a batch, reset; and what is done with each answer. *Interactions:* tabs meet
only in the stores; requests and answers overtake each other and get lost. *Hard:* all of that at
once, over accounts that take turns in one browser and clocks that are wrong. *Correct when:* no one's
reading is filed under another account, nothing accepted is lost, nothing erased returns, and a stale
client moves no reader backward.

**Sittings and places.** *State:* `reading_sessions` and `reading_places`, both folds of accepted
checkpoints. *Operations:* fold one checkpoint (join, extend, open a sitting), backfill at a start,
compaction of heartbeats, a migration that clears, a reset; step, jump and join threads, forget one.
*Hard:* checkpoints in any order, a backfill cut off and begun again under new arrivals. *Correct
when:* the sittings are the history split at its silences, whatever the order, and a glance at another page
takes no place.

**Accounts, sharing, connect codes and friends.** *State:* users, invitations, join requests, shares,
codes, keys, friendships; the handlers that wait for a password to be hashed. *Operations:* set up, be
provisioned by the proxy, create, change and delete accounts, invite, accept, share, ask, approve,
decline; issue, redeem, cancel, revoke; request, accept, part. *Hard:* checks before an `await` and
writes after it; a redeemed code that is sent again. *Correct when:* each door opens once, an admin is
left, a code is traded once, and friends are those who both said so.

**Translations of a work.** *State:* the groups, the pairs, the titles they make. *Operations:* link,
unlink, pair, unpair, heal. *Hard:* long runs of these. *Correct when:* a title is in one group, and
what is one work stays one work.

### Parts that are not modelled

| component | state | hard behaviour | why not |
| --- | --- | --- | --- |
| Aligner and numerics | none shared | accuracy | signal processing with statistical results |
| Pairing score | none | quality of matches | string similarity and weights; a constant of `Library` |
| Reader, player, read along | view state | following the voice | rendering and media; when a book is opened, hidden and left is in `Progress` |
| Catalogue and metadata; shelves and lists; covers; book formats; audio files; notes export | single rows and files | none of ordering | queries, single-row edits, parsing, I/O |
| Database and migrations | schema | two processes that migrate at once | SQLite is taken as given: serialised transactions |
| HTTP application, web shell, build and scripts | wiring | none of ordering | no state of their own; the hand-over between accounts is in `Progress` |

The `hazards` of `PROJECT.json` name, at their line, the places in this code where a test would
hardly reach what can go wrong; those without a property say why.


## 2. The modules

Definitions marked "Seeded fault" are used by no action. Each is a plausible mistake in the
definition after it; with it in that definition's place, TLC finds the property it belongs to
violated.

Parts that share no state are checked in one run. The module that joins them (`MCServer`,
`MCServerSafety`, `MCServerLive`, `MCCopies`, `MCPeople`) has a variable `subject`, chosen at first
and never changed: the part it names moves and the others rest, so that a behaviour is one of a single
part and no states are multiplied. Fairness is asked of each part only in its own behaviours.

### JobQueue and JobLedger

One variable per column that matters (`jobState`, `attempts`, `leaseToken`, `leaseAge`, ...), one
action per exported function of `queue.ts` and per thing the worker loop does. A claim adds one to
`attempts` in the UPDATE that draws its token, so the number of the claim stands for the token and an
attempt is the pair of job and token. A guarded write is two steps, `AssertHeld(a)`, which makes the
attempt *armed*, and `Write(a)`; between them other processes and the clock may move. Time is the
saturating age of each lease and of each confirmation; `Tick` stops only for an armed attempt that
has waited `MaxStall`, as confirmation and write are adjacent statements; anywhere else a process may
sleep for ever. Handlers are sequences of progress notes and guarded writes that succeed, fail or
abort; `Crash` and `Exit` end what a process runs without touching a row.

`JobLedger` is the promise to handlers: a job is worked on by numbered grants, one at a time, and
only the grant in force has side effects. `JobQueue` implements it with the state of a row mapped to
a phase, `attempts` to the grant's number and the history variable `lastWriter` to the writer.

### Library

Places are where a file can lie; a book's id is a hash of the place it was first found at, so ids are
places. A content is what `quickHash` tells apart. A scan is several steps: `StartScan`, `WalkOn` place
by place while files move, `ApplyScan` in one synchronous call (`AppliedUpTo`: entry by entry over the rows, in
the order of the walk, since a relink depends on what came before), and one `EnqueueIndex` for each book to
do, then `FinishScan`. An index job marks, reads and publishes in three steps. `Interrupt` cuts any
running job off and hands it back to the queue. Leases are left to `JobQueue`; jobs here are dedupe keys that
are none, queued or running.

### Alignments

One pair. Its narration is heard in `Stages` windows; the text and the recording are numbered by the
replacement that brought them, and a sync records the numbers it was computed from. `try[w]` is what
the attempt of process `w` holds in memory since its start: that is where stale reads live. The job is one
row with its owner; `Superseded(w)` says an attempt has lost it, and such an attempt goes on until its
next confirmation. `cache` is the probe file: a signature, lines, and whether the last line is torn.
`Publishes` is the rule that lets a partial replace a partial, `LinkedBy` what the end of a sync does to
the pair's status. `past` notes what properties excuse: `overtaken` (a file replaced under a sync),
`crossed` (a superseded attempt wrote to its successor's cache), `torn`, `heardAgain`.

### ModelDownload

The `.part` file and the file in place are a length and whether the pieces are in order. `Measured`
is the length read before the request, `Response` the answer that opens the file: 206 appends, 200
starts over, 416 has nothing to resume. The check on completion knows only that `Enough` of `Size` is
there, as the code does. `WakeWaiting` requeues the alignments that failed without the model. `crossed` notes
that two attempts met in the part file, `cut` that it was removed under a request.

### TranslationGroups

`Possible` are the pairs that can be made, `status` their state, `rows` the membership table with the
order of its rows, because the code takes "the first". A title is a book with the partners it is settled with.
`Healed` is `healTitleGroups`, run by a confirmed pairing and by no other.

### MarksOutbox

A mark's name is the mark with the number of times it was renamed; a change carries its id in order of
making, which also stands for the look it gives. `queue` is the shared store, `tab[t].memory` what a page
keeps when the store fails. `Deliver` takes the lock (or does not, `HasLocks`), `Pick`, `Send`,
`Settle` and `Rename` are the awaits of the delivery loop, `Fail` the lost request or answer.
`Create`, `Patch` and `Delete` are the three handlers of the server. `StartLoad`, `Serve` and
`FinishLoad` are `loadBookMarks`.

`tab[t].list` is the list a page shows: it is what the load found, changes with what the page records and with a
rename this very tab carries out, and is not told of anything else; a page can change only what it shows. So a
page may record a change under a name that its mark had before another tab heard of the new one.
`clash` are device names that someone else's mark has already. Two variables are history. `adrift`: marks whose changes
did not all keep to the queue, by the memory of a page, by a request filed under the next account's cookie,
or by a rename that was cut off with the making already done. `stale`: changes recorded under a name that at
that moment no mark of the account has, nor will have once what is on its way has arrived (`Known`). The safety
properties make exceptions of both, and the exceptions are needed: the code does lose such changes (section 4).

### DerivedStore

A revision is the attempt that extracted it, and the contents of a directory are that number. The
registry is the age of each directory's mark. `Publish` is the transaction and the sweep in the same
turn, `PublishAndDie` the crash between them (counted by `cuts`). Each publication leaves a timer that
sweeps just after the grace period; a crash takes the timers along. `Resolve` and `Answer` are the two
ends of a request.

### OfflineDownloads

One book: a track of `Chunks` chunks and the detail entry. `cache` has its owner stamp, each chunk
with the edition it is of, the partial and the final track marker; `record` is the registry entry. `dl[t]` is
the download a tab runs, at one of its awaits (`Register`, `Manifest`, `List`, `Open`, `Track`, `FetchChunk`,
`StoreChunk`, `MarkTrack`, `Detail`, `Finish`); `attached` says its cache handle is still the named cache.
`PurgeCache` and `PurgeRecord` are the two halves of a purge, `Bumped` the generation it raises first,
`Check` the service worker's look at the session. `harm` notes that something was taken away under a running
download or taken away by halves; the claims of the registry are excused from then on.

### Progress

One book. A page is one load of the app, hence a session id; an event is a record of page and `seq`
with its device time, base revision, reset generation and owner, and a place in the book is the event
that states it. `disk[b]` is what the tabs of a browser share, `tab[p]` what a page has in memory.
`asked` and `answered` are unordered sets of messages; `MaxMessages` bounds how many there are at a
time. The server files a batch as a loop (`Begin`, `FileNext` in the client's order by time and `seq`,
`Commit` or `Rollback`), while nothing else moves: the loop runs in one transaction whose inside
nobody sees. `Filed`, `Moves` and `MovedTo` are `applyProgressEvents` and `decideApply`.

Variables and fields that exist only for the properties:
`queued` (checkpoints accepted into the queue of their owner), `by` of an event (whose book the reader
had open when it was made), `erased` of an account (how far each page had got at its last reset),
`carried` (a page took an open book along into another account), and `muddled` (the queue changed hands
over unfinished business - a purge still under way or a page killed in one - or an answer for another
account was merged into it). The last two bound what the properties claim, and each is itself a
hazard: `carried` is the finding `progress_reader`; what can follow `muddled` is not covered.

### Sittings and Places

`Sittings` is one key (reader, book, medium, device). `Folded(d, at, pct)` is
the fold of `prepareSessionFolder`: extend, join two, or open a sitting. The checkpoints come in any order within
the clock's bounds; `Stop`, `Derive`, `DeriveNext`, `DeriveEnds` and `DeriveFails` are the backfill at a start,
in its own transaction with a draft. `DiaryIsTheHistory` compares the table with what the history, split
at its silences, says: the reference definition of the fold. `Places` folds checkpoints of an ebook
into threads; `Folded` there is the whole of `foldReadingPlace` (continue, jump, join, let stale threads go).

### Accounts and Connections

`Accounts`: a request admitted as an admin's is in `desk` from its arrival on, as the role is read then;
`hashing` holds what each handler remembers while a password is hashed; `Begins` and `Ends` are the two
halves of a handler around that `await`. `opened` counts the accounts each door has opened. `outrun` says that
an update which waited for a password took an admin's rights. `Connections`: codes and keys are numbered as they are made; `minted`
keeps when keys were handed out for a code, `said` who has said yes to whom.


## 3. The runs

| run | instance | states | shows |
| --- | --- | --- | --- |
| `server_safety` | `JobQueue`: 2 jobs of one dedupe key, 2 processes, lease 1, 2 attempts, 1 retry, 1 stop or crash. `Library`: 2 ebook places, 1 audio place, 2 contents, a move, an outage, a scan by hand, a decision, 2 light slots | 4.4 M | leases are respected; the queue implements `JobLedger`; decisions survive |
| `server_live` | `JobQueue`: 2 jobs of different priority, one lane, 1 process, 2 stops or crashes. `Library`: 1 + 1 places, 2 contents, an outage, a job cut off, a decision | 97 k | every accepted job settles; nothing unfinished is forgotten, applied scans find their books, convergence |
| `server` | `Alignments`: 2 processes, 2 windows, 2 attempts, 1 replacement, 2 decisions, 1 each of refusals, mishaps and stalls, 4 of these in all. `ModelDownload`: 3 attempts, size 3 of which 2 are enough, 1 waiting sync, 2 requests, 1 each of removal, failure, crash and stall. `TranslationGroups`: 3 ebooks, 1 audiobook, 3 links, 3 decisions | 0.7 M | nine properties of the three parts |
| `copies` | `DerivedStore`: 4 attempts, 1 request, grace 2, 2 faults, 1 cut. `OfflineDownloads`: 2 tabs, 2 people, 3 chunks, 2 editions, 2 starts, 3 sign-ins, 2 mishaps, 1 action, 2 checks, 4 events in all | 0.6 M | directories stay while someone counts on them, and old ones go; claims are true, what is stored is listed, purges end and leave nothing |
| `people` | `Progress`: 2 people, 2 tabs with a checkpoint each, 2 sign-ins, 1 sign-out, 1 loss, 1 death, 1 message at a time. `Sittings`: 3 positions, gap 2, 3 checkpoints and a sitting of before, times 0 to 5, 1 reset, start and clear. `Places`: 5 positions, 5 steps, 2 threads kept. `Accounts`: 3 names, none or 2 admins, 1 proxied name, 1 address, 1 link, 2 invitations, 2 requests, 2 hashing, 5 acts. `Connections`: 2 people, 1 code, 3 keys, time 3, 3 answers, 2 bans | 3.9 M | nine properties of the five parts |
| `progress_tabs` | 1 person, 2 messages at a time, three kinds of behaviour: a page that makes 2 checkpoints meets one that delivers and resets, with a return; one page loses messages while time passes; a page is signed out or dies with a checkpoint made | 7.3 M | resets hold; bases are real; a session moves forward |
| `marks` | 2 tabs with locks, 2 people, 1 mark, 2 changes, 2 sign-ins, 1 list loaded, 1 mishap; of the second sign-in, the load and the mishap two in a behaviour | 1.2 M | six properties of the outbox: nothing is lost, made twice, set back or refused early, a loaded list is whole, the queue drains |
| `library_moved` | 2 ebook places, 1 content, 1 move | violation | see findings |
| `progress_reader` | 2 people, 2 checkpoints of one page, 2 sign-ins, 1 sign-out | violation | see findings |
| `sync_replaced` | 1 process, 1 replacement | violation | see findings |
| `offline_claimed` | 1 tab, 1 sign-in, 1 check | violation | see findings |
| `admin_gone` | 2 admins, 1 password hashed, 2 acts | violation | see findings |

**Why the bounds are enough.** A fencing failure needs an attempt, its successor and one stall longer
than a lease: two processes, two attempts and a lease of one unit have that, and the retry and the shared
dedupe key let a second row compete. A mistake of the scanner needs a place left, a place entered and something
else in the walk: two places and a third. Two windows are the least at which an opening can be published
and the rest still be ahead; a replacement, a decision and a death in one sync are three of the four events.
A model of three pieces of which two pass the size check is the least at which half a model
can pass. Four titles of which two can share a narration let a pairing merge two groups and a parting
tear one. Four attempts leave a served directory, one retired, one
abandoned and one under way, and a grace period of two ticks separates "marked", "not yet" and "due".
Three chunks leave one stored, one under way and one ahead. Two changes of one mark are a making and what
depends on it; a mishap at any step reaches every half-done delivery, and where all three of a second sign-in, a load and
a mishap would be needed nothing is claimed (`TwoOfThree`).
In `Progress` a hand-over needs two people and two pages, a reordering two messages, a claim to be lost and
taken back two pages. A join of two sittings needs three checkpoints and a gap of two a time at which neither joins.
Two threads, the most kept, and five steps let one settle, be left for another and be joined to it. Two admins and two
handlers that wait are what a race for the last admin needs; three keys for one code are two retries.
`MaxInterruptions` stays below the attempt limit, so that a job
that is cut off is always claimed again; jobs that exhaust it are in `JobQueue`.

The symmetry sets hold interchangeable model values that no definition tells apart; none of the runs
with symmetry checks liveness. In `marks`, which checks both, `First` names the first page and the first person
instead. In `people` requests of `Progress` overtake nothing (one message at a time, but
arbitrarily late), and its clock moves only in behaviours without loss and death; in `progress_tabs`
nothing is lost while two tabs meet, and losses and departures have behaviours of their own. The one with
all of it and a second writing tab is beyond a routine run.

**Deadlock.** `copies` checks it for the texts; its downloads may rest by an explicit step that
changes nothing. Every other run has `CHECK_DEADLOCK FALSE`: with faults, retries, checkpoints,
decisions and sign-ins bounded, their instances really come to rest.

**Fairness.** *JobQueue:* the tick of a live process keeps firing (claims, sweeps), a container
restarts (`restart: unless-stopped` in the compose file), an exiting process exits, time passes, a
confirmed write is performed; and, strongly fair, a handler that keeps getting its turn ends, since
handlers are finite programs. *Library:* workers run what they can claim, the interval timer fires, an
outage ends; nothing is assumed of people, files or crashes. *Alignments, ModelDownload:* a process
claims what is queued and proceeds with it, its heartbeat fires, the sweep finds the rows of dead
processes; a stalled process is one that is swept first. *DerivedStore:* attempts end, timers fire,
requests are answered, time passes. *OfflineDownloads:* a tab's own work goes on: the code wraps
every request in a watchdog or an abort. *MarksOutbox:* a page that is signed in asks for the
session, claims and purges, and its delivery goes on; a delivery is due again after each change, load and
online event. *Progress:* none. Delivery there needs a network and a person who
comes back, neither of which the code can promise, so only safety is stated. *Sittings, Places, Accounts,
Connections, TranslationGroups:* none, as nothing in them is owed.


## 4. Findings

Shown by a run:

- **`library_moved`.** The id of a moved book's row is reported as seen only by the scan that
  relinks it; the next scan finds the row by its place, reports the id of the *place*, and marks the
  book missing although it lies there. `docs/self-hosting.md:71` and the scanner's own test say a
  moved book stays the same book with nothing left missing.
- **`progress_reader`.** A page that started with no network reads for the stored owner of the queue.
  When someone else signs in next door, its next look at `/api/auth/me` claims the queue for them while
  the first person's book stays open, and the next checkpoint is filed under the second account
  (`engine.ts:181` says that cannot happen).
- **`sync_replaced`.** A sync that runs while a file is replaced ends by storing its timings for the
  pair of the same id that was made again meanwhile: readers follow times of the old recording.
- **`offline_claimed`.** The requests of a download are left alone by the service worker, so none of
  them claims the empty cache as its comment says (`sw.js:259`); after a quick sign-out and sign-in the
  next check takes the fresh download for another account's and deletes it.
- **`admin_gone`.** An update that also sets a password counts the admins, waits for the hash, and writes
  without counting again: two admins who act on each other leave none.

Met on the way. Those that are hazards in `PROJECT.json` say there what covers them; the rest were read
in the code while modelling and have no run:

*Server.* A moved book keeps the id of its old place, and a new file there fails every later scan
(`scan.ts:426`). Three restarts under one job use up its attempts and fail it. A request that holds the server's
shutdown keeps the worker claiming (`index.ts:123`). With two processes an index job asked for during
the index of the same book is deduplicated away. A crash between commit and sweep can later let a
publication delete a directory a request still reads. Lines appended behind a torn line of a probe cache are never read
again (`probe-cache.ts:18`). A superseded attempt appends its probes to the cache of its successor, or drops
that cache (`handlers.ts:1358`). A model removed between the measuring of the part file and the answer leaves a tail that
passes the size check (`handlers.ts:209`), and a removal does not stop a download that is queued or at
its extra file. Waiting alignments go again only after a download in the app or a look at `GET /api/models`.
Pairs linked by an alignment or an import do not heal translation groups (`groups.ts:167`). Compaction removes
rows a failed backfill has not reached (`missed` in `Sittings`). A
reset deletes the events a later clearing migration would derive from (`erased`). A thread of
`places.ts:22` whose end a join has only just reached is joined at the next checkpoint. Two names that differ
in case can both be created (`users.ts:157`). A redeemed connect code cannot be cancelled during its grace
(`agent-connect.ts:97`).

Of a download of a model: the guard is not asked between the answer and the opening of the part file (`handlers.ts:231`), so
an attempt that stalls on its request cuts the file its successor is writing, and a file with a hole in it, of the full length,
is renamed into place, where `handlers.ts:173` says half a download is never mistaken for a model (`crossed`). Of
the diary: a checkpoint accepted after the recent sittings were cleared, and before they are derived again, hides what was
cleared from every later backfill, which folds only what is newer than the newest sitting (`backfill.ts:61`). It takes a
worker process that migrates while the web process serves, or a backfill that throws and is to be "tried again next
start" (`index.ts:33`) (`missed`). Of a mark: the making is recognised by the name the device gave it, so one that was
filed under a fresh name, sent again after a lost answer, is filed once more (`annotations.ts:96`), where
`annotations.ts:84` says the second delivery makes nothing (`adrift`). TLC shows each of the three
when the property of that part makes no exception of the variable named. A crash between the new hash of a replaced file
(`scan.ts:452`) and the discarding of its pairs (458) leaves the sync of the old bytes.

*Browser.* A heartbeat filed before the flush under way lets an older checkpoint of the same session move the
row back when the clock correction differs (`reconcile.ts:42`). A page signing in sets the cookie before it claims
the queues, so another tab can send a mark of the last account under the new one (`outbox.ts:333`).
Only the tab that delivered a mark hears of the name the server gave it (`outbox.ts:382`); a reader in another tab goes
on showing it under the old one, and what it records then is refused and dropped, where `ReaderPage.tsx:3870` says the
mark goes on being changed under its new name (`stale`). The delivered making leaves the queue before what follows it
is renamed (`outbox.ts:376`, 380), and a page killed in between leaves a change under a name the server does not know
(`adrift`). TLC shows both when `RefusedIsGone` makes no exception of the variable named.
A change kept in one page's memory can be overtaken by its successor from another tab (`outbox.ts:281`), and a
list being loaded can show an older change over a newer one (`outbox.ts:475`). A retry of a download after
the ebook was replaced keeps the detail of the old edition (`downloads.ts:660`). A cache deleted by the
service worker or another tab leaves a running download writing into a detached one, and it records "done". Stop in a tab
that does not run the download stops nothing. `reconcile` and `cancelDownload` read, await and write, and
may turn "done" into "interrupted" or bring a purged record back. The list of a new edition orphans entries only
the old one had. A tab closed in mid-purge leaves a record of a download that is gone. A removal that
meets a "Try again" of another tab deletes chunks under it, and the track is marked complete.


## 5. The proofs

Every theorem holds for all values of the constants that satisfy the named assumptions of the modules
(which TLC evaluates in the runs) or of the theorem, without fairness.

**JobQueue** (`JobQueue_proofs`): `TypeCorrect`, `HolderWrites` (OnlyHolderWrites), `BoundedAttempts`,
`FencedWrites`, `StaleAttemptsHarmless`, `LeasesAreRespected` (LeaseIsRespected) and `Refinement` (it
implements `JobLedger`). None of them is
inductive alone. That an armed attempt still holds its row needs to know how old the lease can be;
that a claim stays in the budget needs that a queued row has a claim left; that tokens order the
attempts needs that the token of a running row is that of its newest claim. The invariant is

    IInv == TypeOK /\ AttemptsBounded /\ TokenIsNewest /\ BudgetLeft
            /\ RunsWereClaimed /\ WritersWereClaimed /\ ArmedIsFresh

where `ArmedIsFresh` says that an armed attempt's lease is no older than its confirmation, and that no
older than `MaxStall`; with `MaxStall <= Lease` (`TimeAssumption`) no sweep can have reclaimed it.
There is one lemma for each group of actions; the action properties and the refinement then follow
from `IInv` at each step. `MaxStall <= Lease` is the assumption the code makes when it calls a
confirmed write safe: two adjacent statements take less than `LEASE_MS`. What the refinement and
`LeaseIsRespected` do not already say is proved and no longer run.

Some modules are proved about as the modules of their runs hold them: `OfflineDownloads` as the instance
`Downloads` of `MCCopies`, `ModelDownload` and `TranslationGroups` as `Models` and `Groups` of `MCServer`,
`Sittings`, `Accounts` and `Connections` as `Diary`, `Door` and `Trust` of `MCPeople`. An instance has the
constants of the module, so its theorems are no less general, and they speak of the very definitions the runs
check. What they need to know of the constants is in the named assumptions of those modules (`DiaryAssumption`,
`LegacyAssumption`, `DoorAssumption`, `TrustAssumption` and the like): that bounds are natural numbers, that the
value for nobody is nobody's name, and that the times of the diary are in the order the code's are.

**DerivedStore** (`Copies_proofs`): `TypeCorrect` and `DirectoriesAreKept` (DirectoriesStay: the
served, the owned and the resolved directory), from

    Inv == TypeOK /\ Untouched /\ OwnerSafe /\ ActiveSafe /\ ActiveUnmarked
           /\ (cuts = 0 => \A k \in Readers : ReaderSafe(k))

A directory goes only after carrying a mark for `Grace` ticks; the owner's has carried one for no
longer than the owner has had the job, a reader's for no longer than the request has had it
(`OwnerSafe`, `ReaderSafe`), and both are shorter (`RequestsAreShort`, `ExtractionsAreShort`: a request and an
extraction take less than `DERIVED_GC_GRACE_MS`). For readers the served directory must carry no mark
at all, which holds until a crash falls between a commit and its sweep.

**OfflineDownloads** (`Copies_proofs`): `OfflineTypeCorrect`, `ClaimsHold` (ClaimsAreTrue), `AllIsListed`
(StoredIsListed) and `NothingIsLeft` (NothingOutlivesSignOut), from `Copied == Stored /\ Tracked /\ Gone /\ Whole`.
`Stored` says what each step of a download holds and that the book's lock lets one run. On it rest three
arguments: what a download that was not cut off has stored up to where it is, is of its edition (`Tracked`, so
that its mark is true); what a purge has emptied stays empty while nobody is signed in, as a download that is
still attached to it has come to no chunk and writes no record (`Gone`); and until something is taken away
under a download, what the download believes to be listed is what the record lists (`Whole`). An action is
described once by the fields it writes; the properties are then proved of those.

**Alignments** (`Server_proofs`): `TypeCorrect`, `DecisionsAreSafe` (DecisionsStand),
`QuietSyncsAreOfTheseBooks` (SyncIsOfQuietBooks), `CacheIsAlwaysTrue` (CacheIsTrue) and
`ReadersAreNeverSetBack` (ReadersAreNotSetBack). The stored syncs are of these books because what a live attempt holds in memory is,
unless it was overtaken (`Undisturbed`); the cache is true because its signature names the recording of
every line in it, and an attempt's copy agrees with it as long as nobody crossed; a reader is
not set back because an attempt that owns the partial has heard at least as far as it reaches.

**ModelDownload** (`Server_proofs`): `DownloadsTypeCorrect` and `OnlyWholeModels` (HalfIsNoModel), from
`Fetched`: the part file is the first pieces in order, and the attempt that has the job has written exactly what
it holds of them and opened the file that bears the name (`OpenedByName`, `KnowsItsPart`), until two attempts met
in the file or it was removed under a resume, which the property excepts.

**TranslationGroups** (`Server_proofs`): `GroupsTypeCorrect`, `TitlesAreWhole` (OneGroupPerTitle) and `WorksAreKept`
(WorksStayTogether). A title is computed by growing a set of books as many times as there are
books; that this is the least set that no settled pair leads out of (`Closed`) is shown by counting: a set that
still grows has a book more each time. Then the two properties need nothing of the computation. Books in two groups are
separated by a set that no pair of a person leads out of (`Separated`), so a title in two groups was joined by an
alignment; and a step either joins groups or takes one title out (`Coarser`, `Finer`), so `Together`
is kept for every other two books.

**Sittings** (`Sittings_proofs`): `SittingsTypeCorrect`, `SittingsStayApart`, `DiaryIsKept`
(DiaryIsTheHistory) and `ReadingIsKept` (ReadingIsMeasured). The first two are from `IInv == TypeOK /\ Apart(sittings) /\ Apart(draft)`: two sittings are
never closer than the gap. One lemma (`FoldKeepsDiary`) carries it: a fold touches only the neighbours before and after
the checkpoint, and those exist because a set of natural numbers that is bounded has a greatest and a least element.
That the diary is the whole history needs

    DiaryInv == IInv /\ RowsKnown /\ Recorded /\ Holding /\ Faithful /\ Complete /\ Rederived

`Recorded` relates the rows to what was read: as long as the server did not serve on with a cleared diary, all rows of a
time are there unless a reset erased them or they are older than a migration clears. `Holding`: each sitting begins
and ends with something read, has no silence inside and counts no more than was read in it; `Faithful`: it counts just
that. `Complete`: what was read is in a sitting or, after a clearing, later than every sitting that is left and
still in the rows. `Rederived` says the same of the draft of a backfill, for the history up to the row it has come to
(`Tally`). `FoldHolds` is the step of all of them: a checkpoint folded into a diary that holds a history gives one
that holds the history with the checkpoint. What a sitting counts is a sum over the times in it, and the sum is a
recursive function the prover cannot unfold: it is followed by induction over sets of times (`TimeInduction`,
where the inductive statement is a set and not an operator, and so can be cited). The assumptions are that a
migration clears no more than is kept for sure (`Recent + Lead <= Keep`: 29 days, two minutes and 30 days) and that the checkpoint of
long ago is older than what is kept (`LegacyAssumption`). TLC checked `DiaryInv` on 3.3 M states first.

What a sitting is credited with does not follow from what it covers: a checkpoint that comes late may join two
sittings by steps that nobody took. `MeasuredInv` adds to `DiaryInv` that both diaries are measured (`Measure`): the
ground and the steps back of a sitting are what so many steps over so long can make (`Stretch`, which two
stretches keep when they are joined, `StretchesAdd`), and its time is at least what its ends show and at most what is
*known* of it. `Known` counts the units of time that lie within a step of a time something was read at; it grows with
what is read, and what is known of two stretches one after the other is known of both (`KnownAdds`), which the sum of
steps between neighbouring times is much harder to show. Only in the end is it compared with that sum (`KnownIsInSteps`), for the
history as it is. The sitting of long ago, whose time nobody kept, must still be there: without it a
checkpoint of time 0 would begin a timed one. A migration never clears it, since `Keep < Today` and `Recent` is no more than `Keep`.
TLC checked `MeasuredInv` on 15 M states first.

**Accounts** (`People_proofs`): `DoorsTypeCorrect`, `AnAdminIsLeft` (LastAdminIsKept) and `NoDoorOpensTwice`
(DoorsOpenOnce), from `DoorInv == Founded /\ Spent /\ AskFiled /\ NewestOnly`. `Founded`: until a handler that
waited for a hash took an admin's rights away behind the others' backs, there is an admin, or nobody and nothing yet.
`Spent`: an invitation that opened an account is not open again. `AskFiled` and `NewestOnly`: of the requests of
an address through one link only the last can be open, as a new one is refused while an older one is.

**Connections** (`People_proofs`): `CodesAreTradedOnce` (CodesEnd) and `FriendsAlwaysAgreed`
(FriendsAgreed). A code ends because a key handed out for
it belongs to an attempt that is within the retry window and numbered (`Untraded`, `InTime`,
`Accounted`); friends agreed because every row of a friendship was said yes to by both.

**MarksOutbox** (`MarksOutbox_proofs`): `TypeCorrect` and `ChangesAreNotLost` (NothingIsLost) for every
browser; and where the browser has locks (`HasLocks`), `MarksAreMadeOnce` (MadeOnce), `RefusalsAreFinal`
(RefusedIsGone) and `ChangesArriveInOrder` (NeverBackward), for marks that are not `adrift`, and `RefusalsAreFinal` for
changes that are not `stale`. Without locks
two tabs can send the same change, so the last three are not claimed there. Nothing is lost because
a change leaves the queue only after an answer, and a server that answered has acted. The invariant of the other three is

    Orderly == Typed /\ History /\ Delivery /\ CreatedFirst /\ Forward /\ Once
               /\ MadeOnce /\ RefusedIsGone

`History` says that what is queued, sent or stored was recorded, and for a mark of its own account unless it is
`stale`;
`Delivery` that only the tab with the lock delivers, and that the queue has the order in which the
changes were made. From that, a mark has been made before any other change of it
is sent (`CreatedFirst`, of changes that are not `stale`), no change at the server is later than one still to come (`Forward`), and
a making that is sent again meets the mark it made (`Once`). The delicate moment is between
the answer that gives a mark another name and `renameQueued`: there the changes in the queue bear a name
that is not the server's, and nothing else may be sent. TLC checked `Orderly` on the run's constants and on
two marks of one user before it was proved.

**Progress** (`Progress_proofs`): `TypeCorrect`; and in browsers that each carry the sessions of one
person (`[]OwnBrowsers`, for any `Person \in [Browsers -> Users]`; a person may have many browsers),
`ResetIsFinal` (ErasedStaysErased), `RevisionsWereSeen` (CausalityIsReal) and, while no time passes,
`SessionsAreInOrder` (SessionsMoveForward). With one account, as in `progress_tabs`, the hypothesis always
holds. Its invariant `Sound` follows every checkpoint, answer and cached place, wherever it waits: the
revision it tells of is one its account has or had before a reset (`Real`), what bears the account's
generation was made after the reset that began it (`Fresh`), and what its own
session has overtaken does not know the place the server now has (`Overtaken`); and what a batch being filed
holds of the row has only moved on from it (`MovedOn`, `NotBack`). `PageMove` bounds what a step of a page
may do, so that the steps of the pages are all handled alike.
`OwnBrowsers` is there because `CausalityIsReal` is false without it, on an instance larger than the runs': with two
people and three sign-ins in one browser an answer for one account reaches a tab that has come back to it by way of the other, and the place it merges
is of neither the queue's account nor its generation, the hazard at `engine.ts:540`. `MaxClock = 0` is there
because `SessionsMoveForward` is false with a clock that moves while a request is under way (`reconcile.ts:42`).

Where people do share a browser, `ReadingStaysOwn` (RowsAreOwn) and `QueueIsKept` (QueuedIsKept) hold, with no hypothesis
at all, from `Whose == Origins /\ (~carried => Owned) /\ (~muddled => Waits)`. `Origins`: what waits anywhere is of the
browser it was made in, and passed the queue of its owner. `Owned`: until an open book was taken along into another
account, every event in a page, a queue, a request or an account was made by its owner. `Waits`: until a queue
changed hands over unfinished business, an event that entered the queue is in it or the account has it or had it before a
reset, so that an answer takes out of the queue only what was filed. The proof corrected the model here: `muddled` was not set when a page clears the
queue for the next account while a batch or a write is unfinished, and with two sign-outs, one more than the run
allows, `QueuedIsKept` failed; the clearing (`purgeProgressQueue`) now sets it.

**Library** (`Library_proofs`): `TypeCorrect` and `DecisionsLast` (DecisionsSurvive, which `server_safety`
checks of an instance of the module) wherever files move; and where none is moved (`MaxMoves = 0`, as in
`server_live`), `NoBookIsForgotten` (UnfinishedBooksAreScheduled) and `ScansFindBooks` (AppliedScanFindsBooks).
The report is applied entry by entry, by the recursive function `AppliedUpTo`. That it has a value and what
holds of it at every entry is shown by a least counterexample, as a set of naturals has a least
element. What one entry can do is one of six things (`EntryCases`), and two facts are carried along. `Faithful`: a
pair goes only with the bytes of one of its books, and bytes replaced once are not replaced again by
that scan, so they do not come back to what they were. `Swept`: every book the scan has come to is in its
place, not missing, and to be indexed if unfinished. The invariant is

    Settling == Typed /\ OneHome /\ InOwnPlace /\ ScanRuns /\ Scheduled

`OneHome` says that a content is known at one place only, on the disk, in the report and in the
table, so nothing looks moved and no id is taken; `Scheduled` that an unfinished book has its job or the scan
has not come to it. TLC checked `Settling` and, with moves, `Typed`, on 690 k and 1.1 M states. With moved
files both properties are false: a scan that fails at a taken id leaves books undone
(`scan.ts:426`), and a relinked book is missing after the next scan (`library_moved`).

**Only model-checked:** every liveness property, which is out of the prover's reach under fairness;
`ViewIsWhole`, whose view is a fold over the queue in an order that is
computed; and `GlancesTakeNoPlace` of `Places`, whose fold joins threads one after another. The induction theorems of the
prover's library take operators and cannot be used; where a recursive function is followed all the same (the report
of a scan, a title, a sum over a history) the induction is by a least counterexample or over sets.


## 6. What the models leave out

`JobQueue`: job payloads, results, wording, the list queries; wall-clock jumps (ages do not go
backward). `Library`: facet and naming generations, covers, scores, audio tracks, half-read files; a crash within `applyScan`, which can leave half of a report applied.
`Alignments`: a file counts as replaced when the scan notices; a retry by hand, the hand-back at shutdown, pruned
caches, languages lent between books, alignment files saved and imported; whether the model is there is
`ModelDownload`'s matter. `ModelDownload`: opening the part file and the answer are one step.
`TranslationGroups`: dismissals, titles of more than sixteen books. `DerivedStore`: what is extracted; a disk that
fills up; requests longer than the grace period.

`MarksOutbox`: the server acts when the request is sent (its answer may still be lost); the pause after a failing server, the release of a backlog
of 500, renewal of the offline copy of the list; the notes pages, which only delete and follow no rename; a change the renaming
tab records between `renameQueued` and its listeners. What the code loses for `adrift` marks and `stale` changes is
not claimed; section 4 says what it is. `OfflineDownloads`: one book of one track and its detail; browsers without Web Locks or hashes; serving
from the cache; two purges at once in one tab are one; `record.urls` is whether it lists what is stored.
`Progress`: the finished flag, events of old clients without an owner, unreadable
rows, size limits and splitting of batches, back-off (a flush may happen at any time), compaction of
heartbeats in the queue, browsers without IndexedDB; `drainLastGasp` is one step; two browsers are
possible in the module and the proofs but not in the runs. `Sittings`: which checkpoints are accepted (`Progress` says), the totals of the statistics page.
`Places`: a locator is its position, ids are reused, the migration that seeds a place is left out.

`Accounts`: a name stands for its account (no case folding, no address of the account); sign-in, sessions,
throttles, the set-up token and changes of one's own password or name are left out, a curator counts as a reader, and a share's book does not
matter. `Connections`: keys made by hand, limits on codes and keys, and recommendations are left out.


## 7. What comes next

1. Theorems: that views are whole (`ViewIsWhole`), that glances take no place.
2. The composition of `Alignments` with the grants of `JobLedger`, and of `OfflineDownloads` with the
   hand-over of `Progress`, where now each has a small copy of the other.
3. Algorithms against their definitions: the hand-off bounds of reading along, ranks between neighbours
   in reading lists, the saved and imported alignment files.
4. Two migrating processes, if SQLite's locks are modelled.
