-------------------------- MODULE OfflineDownloads --------------------------
(***************************************************************************)
(* A book kept for offline use in one browser: its entries in the cache    *)
(* that all tabs and the service worker share, the record of it in the     *)
(* download registry, the download that one tab runs, and all that takes   *)
(* the copy away again: the reader, a sign-out or a refusal found in any   *)
(* tab, and the service worker when the account has changed.               *)
(*                                                                         *)
(* The book is an audiobook of one track, kept in chunks, followed by its  *)
(* detail.  The completion marker, the partial marker and every chunk name *)
(* the edition of the file they are of; 0 stands for an entry that is not  *)
(* there.  A cache that is deleted lives on, unseen, for whoever had it    *)
(* open: what such a download stores is lost.                              *)
(***************************************************************************)
EXTENDS Integers, FiniteSets

CONSTANTS Tabs, Users,
          Chunks,       \* chunks of the track
          First,        \* who is signed in when the browser is first looked at
          Nobody,       \* nobody is signed in; nobody's cache
          NoRecord,
          MaxEditions, MaxStarts, MaxAccounts, MaxMishaps, MaxActs, MaxChecks, MaxEvents  \* bounds

VARIABLES cookie,    \* whom the browser's cookie signs in
          edition,   \* the edition of the file the server has
          cache,     \* OFFLINE_CACHE
          record,    \* the book's row of STORES.downloads
          page,      \* each tab: signed in as far as it knows, its purge, its mail, its removal
          dl,        \* each tab: its download of the book
          look,      \* each tab: a record it has read and is about to mark as stopped
          gate,      \* the service worker's verdict on the session
          harm,      \* something was taken away under a download, or left half taken away
          emptied,   \* what a purge has emptied since nobody is signed in
          budget     \* what is left of each bound

vars == <<cookie, edition, cache, record, page, dl, look, gate, harm, emptied, budget>>

Editions == 1..MaxEditions
Statuses == {"downloading", "done", "error", "interrupted", "cancelled"}
Records == [status : Statuses, listed : BOOLEAN]
Bounds == {"starts", "accounts", "mishaps", "acts", "checks", "events"}

EmptyCache == [stamp |-> Nobody, chunk |-> [n \in 1..Chunks |-> 0], meta |-> 0, partial |-> 0,
               detail |-> FALSE, whose |-> {}]
Idle == [at |-> "idle", next |-> 1, ed |-> 0, listed |-> FALSE,
         aborted |-> FALSE, dead |-> FALSE, attached |-> FALSE, by |-> Nobody]

TypeOK ==
    /\ cookie \in Users \cup {Nobody} /\ edition \in Editions
    /\ cache \in [stamp : Users \cup {Nobody}, chunk : [1..Chunks -> {0} \cup Editions],
                  meta : {0} \cup Editions, partial : {0} \cup Editions,
                  detail : BOOLEAN, whose : SUBSET Users]
    /\ record \in Records \cup {NoRecord}
    /\ page \in [Tabs -> [signed : BOOLEAN, purge : {"none", "waiting", "settled", "clearing", "outrun"},
                          mail : SUBSET {"unauthorized", "purged"},
                          removing : {"no", "entries", "record"}]]
    /\ dl \in [Tabs -> [at : {"idle", "registering", "asking", "refused", "listing", "opening",
                              "track", "wiping", "chunk", "storing", "detail", "finishing"},
                        next : 1..(Chunks + 1), ed : {0} \cup Editions, listed : BOOLEAN,
                        aborted : BOOLEAN, dead : BOOLEAN, attached : BOOLEAN,
                        by : Users \cup {Nobody}]]
    /\ look \in [Tabs -> [status : {"interrupted", "cancelled"}, listed : BOOLEAN] \cup {NoRecord}]
    /\ gate \in [ok : BOOLEAN, fresh : BOOLEAN, asking : Users \cup {Nobody}]
    /\ harm \in {"none", "storage", "track"} /\ emptied \in {"no", "cache", "both"}
    /\ budget \in [Bounds -> Nat]

Init ==
    /\ cookie = First /\ edition = 1 /\ cache = [EmptyCache EXCEPT !.stamp = First] /\ record = NoRecord
    /\ page = [t \in Tabs |-> [signed |-> TRUE, purge |-> "none", mail |-> {}, removing |-> "no"]]
    /\ dl = [t \in Tabs |-> Idle] /\ look = [t \in Tabs |-> NoRecord]
    /\ gate = [ok |-> TRUE, fresh |-> TRUE, asking |-> Nobody]
    /\ harm = "none" /\ emptied = "no"
    /\ budget = [starts |-> MaxStarts, accounts |-> MaxAccounts, mishaps |-> MaxMishaps,
                 acts |-> MaxActs, checks |-> MaxChecks, events |-> MaxEvents]

-----------------------------------------------------------------------------
(* The cache and the registry.                                             *)

Spend(what) ==
    /\ budget[what] > 0 /\ budget["events"] > 0
    /\ budget' = [budget EXCEPT ![what] = @ - 1, !["events"] = @ - 1]

Running(t) == dl[t].at # "idle"

Is(status) == record # NoRecord /\ record.status = status

\* What the server has sent of the book.
HasBook(c) == c.detail \/ c.meta # 0 \/ \E n \in 1..Chunks : c.chunk[n] # 0

\* hasOfflineContent: any entry but the stamp.
HasContent(c) == HasBook(c) \/ c.partial # 0

\* deleteTrackChunks
WithoutTrack(c) ==
    [c EXCEPT !.meta = 0, !.partial = 0, !.chunk = EmptyCache.chunk,
              !.whose = IF c.detail THEN @ ELSE {}]

\* deleteEntry of everything the record lists.
WithoutBook(c) == [EmptyCache EXCEPT !.stamp = c.stamp]

\* The marker is written when every chunk is there; then the partial marker goes.
Completed(c, ed) == [c EXCEPT !.meta = ed, !.partial = 0]

\* What a download stores lands in the cache it opened.
Store(t, c) == cache' = IF dl[t].attached THEN c ELSE cache

\* caches.delete: every open handle is cut off.
Detached == [t \in Tabs |-> [dl[t] EXCEPT !.attached = FALSE]]

Worse(h) == IF harm = "track" THEN harm ELSE h

\* Something was taken away while the download of one of `tabs` ran.
HarmTo(tabs, h) == harm' = IF \E t \in tabs : Running(t) THEN Worse(h) ELSE harm

\* The registry is emptied while there is something to list.
Unlisted == harm' = IF HasContent(cache) \/ \E t \in Tabs : Running(t) /\ ~dl[t].dead
                    THEN Worse("storage") ELSE harm

-----------------------------------------------------------------------------
(* startDownload and runDownload, in the tab that holds the book's lock.   *)

At(t, at) == dl' = [dl EXCEPT ![t].at = at]

\* A save of the record: refused to a download of a dead generation.
Save(t, status, listed) ==
    record' = IF dl[t].dead THEN record ELSE [status |-> status, listed |-> listed]

\* purgeOfflineData begins: the download is aborted and awaited.
Purging(p, t) ==
    IF p[t].purge = "none"
    THEN [p EXCEPT ![t].purge = IF Running(t) THEN "waiting" ELSE "settled"] ELSE p

\* The purge that waited for this download need wait no more.
Released(p, t) == [p EXCEPT ![t].purge = IF @ = "waiting" THEN "settled" ELSE @]

Settle(t) == dl' = [dl EXCEPT ![t] = Idle] /\ page' = Released(page, t)

End(t, status) == Save(t, status, dl[t].listed) /\ Settle(t)

server == <<cookie, edition>>
others == <<server, look, gate, harm, emptied, budget>>

\* Seeded fault: a new attempt starts with an empty list.
ListedAnew == FALSE

\* What an earlier attempt stored stays listed.
ListedSoFar == record # NoRecord /\ record.listed

Start(t) ==
    /\ page[t].signed /\ page[t].purge # "waiting" /\ \A o \in Tabs : ~Running(o)
    /\ ~Is("done")
    /\ Spend("starts")
    /\ dl' = [dl EXCEPT ![t] = [Idle EXCEPT !.at = "registering", !.listed = ListedSoFar]]
    /\ page' = [page EXCEPT ![t].purge = IF @ = "clearing" THEN "outrun" ELSE @]
    /\ emptied' = IF emptied = "both" THEN "cache" ELSE emptied
    /\ UNCHANGED <<server, cache, record, look, gate, harm>>

\* A purge whose writers have settled goes on before a new download gets any further.
Register(t) ==
    /\ dl[t].at = "registering" /\ page[t].purge # "settled"
    /\ IF dl[t].aborted \/ dl[t].dead
       THEN Settle(t) /\ UNCHANGED record
       ELSE Save(t, "downloading", dl[t].listed) /\ At(t, "asking") /\ UNCHANGED page
    /\ UNCHANGED <<cache, others>>

\* The manifest of the book, once the server has it ready.
Manifest(t) ==
    /\ dl[t].at = "asking" /\ ~dl[t].aborted /\ ~dl[t].dead /\ cookie # Nobody
    /\ dl' = [dl EXCEPT ![t].at = "listing", ![t].ed = edition]
    /\ UNCHANGED <<cache, record, page, others>>

\* A 401: api() awaits the purge before it fails, and the purge this download.
ManifestRefused(t) ==
    /\ dl[t].at = "asking" /\ ~dl[t].aborted /\ cookie = Nobody
    /\ page' = Purging(page, t)
    /\ dl' = [dl EXCEPT ![t].at = "refused", ![t].aborted = (page[t].purge = "none")]
    /\ UNCHANGED <<cache, record, others>>

\* Seeded fault: the request is over when the purge is.
PurgeAwaited(t) == page[t].purge = "none"

\* raceAbort: the abort ends the request whatever it waits for.
Unwaited(t) == dl[t].aborted \/ page[t].purge = "none"

\* The request for the manifest fails: aborted, overtaken by a purge, or refused.
ManifestFails(t) ==
    /\ \/ dl[t].at = "asking" /\ (dl[t].aborted \/ dl[t].dead)
       \/ dl[t].at = "refused" /\ Unwaited(t)
    /\ End(t, IF dl[t].aborted THEN "cancelled" ELSE "error")
    /\ UNCHANGED <<cache, others>>

\* The URLs are listed before the first byte is stored, if there is room.
List(t) ==
    /\ dl[t].at = "listing"
    /\ IF dl[t].aborted \/ dl[t].dead
       THEN Settle(t) /\ UNCHANGED record
       ELSE /\ Save(t, "downloading", TRUE)
            /\ dl' = [dl EXCEPT ![t].at = "opening", ![t].listed = TRUE]
            /\ UNCHANGED page
    /\ UNCHANGED <<cache, others>>

Open(t) ==
    /\ dl[t].at = "opening"
    /\ dl' = [dl EXCEPT ![t].at = "track", ![t].attached = TRUE]
    /\ UNCHANGED <<cache, record, page, others>>

\* An abort is noticed before the track, before and while a chunk is fetched, and
\* before the detail.
Notice(t) ==
    /\ dl[t].aborted
    /\ \/ dl[t].at \in {"track", "storing", "detail"}
       \/ dl[t].at = "chunk" /\ dl[t].next <= Chunks
    /\ End(t, "cancelled") /\ UNCHANGED <<cache, others>>

\* A finished track is kept; what is there of another edition is deleted first.
Track(t) ==
    /\ dl[t].at = "track" /\ ~dl[t].aborted
    /\ LET ed == dl[t].ed
           kept == dl[t].attached /\ cache.meta = ed
           other == dl[t].attached /\ ~kept /\ (cache.meta # 0 \/ cache.partial \notin {0, ed})
       IN \/ kept /\ At(t, "detail") /\ UNCHANGED cache
          \/ other /\ At(t, "wiping") /\ cache' = [cache EXCEPT !.meta = 0, !.partial = 0]
          \/ ~kept /\ ~other /\ At(t, "chunk") /\ Store(t, [cache EXCEPT !.partial = ed])
    /\ UNCHANGED <<record, page, others>>

Wipe(t) ==
    /\ dl[t].at = "wiping"
    /\ At(t, "chunk") /\ Store(t, [WithoutTrack(cache) EXCEPT !.partial = dl[t].ed])
    /\ UNCHANGED <<record, page, others>>

\* What is stored of a chunk is kept if its digest is the manifest's.
Trusted(t) == dl[t].attached /\ cache.chunk[dl[t].next] = dl[t].ed

KeepChunk(t) ==
    /\ dl[t].at = "chunk" /\ ~dl[t].aborted /\ dl[t].next <= Chunks /\ Trusted(t)
    /\ dl' = [dl EXCEPT ![t].next = @ + 1]
    /\ UNCHANGED <<cache, record, page, others>>

\* A chunk is fetched: it arrives, or the file is another by now and the track goes.
FetchChunk(t) ==
    /\ dl[t].at = "chunk" /\ ~dl[t].aborted /\ dl[t].next <= Chunks /\ ~Trusted(t)
    /\ cookie # Nobody
    /\ IF edition = dl[t].ed
       THEN /\ Store(t, [cache EXCEPT !.chunk[dl[t].next] = 0])
            /\ dl' = [dl EXCEPT ![t].at = "storing", ![t].by = cookie]
            /\ UNCHANGED <<record, page>>
       ELSE Store(t, WithoutTrack(cache)) /\ End(t, "error")
    /\ UNCHANGED others

\* Seeded fault: the marker is written with the first chunk.
StoreChunkMarked(t) ==
    /\ dl[t].at = "storing"
    /\ Store(t, [cache EXCEPT !.chunk[dl[t].next] = dl[t].ed, !.meta = dl[t].ed,
                              !.whose = @ \cup {dl[t].by}])
    /\ dl' = [dl EXCEPT ![t].at = "chunk", ![t].next = @ + 1, ![t].by = Nobody]
    /\ UNCHANGED <<record, page, others>>

StoreChunk(t) ==
    /\ dl[t].at = "storing"
    /\ Store(t, [cache EXCEPT !.chunk[dl[t].next] = dl[t].ed, !.whose = @ \cup {dl[t].by}])
    /\ dl' = [dl EXCEPT ![t].at = "chunk", ![t].next = @ + 1, ![t].by = Nobody]
    /\ UNCHANGED <<record, page, others>>

MarkTrack(t) ==
    /\ dl[t].at = "chunk" /\ dl[t].next > Chunks
    /\ Store(t, Completed(cache, dl[t].ed)) /\ At(t, "detail")
    /\ UNCHANGED <<record, page, others>>

Detail(t) ==
    /\ dl[t].at = "detail" /\ ~dl[t].aborted
    /\ \/ dl[t].attached /\ cache.detail /\ UNCHANGED cache
       \/ /\ ~(dl[t].attached /\ cache.detail) /\ cookie # Nobody
          /\ Store(t, [cache EXCEPT !.detail = TRUE, !.whose = @ \cup {cookie}])
    /\ At(t, "finishing") /\ UNCHANGED <<record, page, others>>

\* A 401 to the track or the detail: the purge is begun, and aborts this download.
FetchRefused(t) ==
    /\ dl[t].at = "detail" \/ (dl[t].at = "chunk" /\ dl[t].next <= Chunks)
    /\ ~dl[t].aborted /\ cookie = Nobody
    /\ Save(t, IF page[t].purge = "none" THEN "cancelled" ELSE "error", dl[t].listed)
    /\ dl' = [dl EXCEPT ![t] = Idle]
    /\ page' = Released(Purging(page, t), t)
    /\ UNCHANGED <<cache, others>>

Finish(t) == dl[t].at = "finishing" /\ End(t, "done") /\ UNCHANGED <<cache, others>>

\* The network keeps failing, the server refuses, or there is no room.
GiveUp(t) ==
    /\ dl[t].at \in {"asking", "listing", "chunk", "storing", "detail"} /\ ~dl[t].aborted
    /\ Spend("mishaps") /\ End(t, "error")
    /\ UNCHANGED <<server, cache, look, gate, harm, emptied>>

\* cancelDownload, in the tab that runs it.
Cancel(t) ==
    /\ Running(t) /\ ~dl[t].aborted /\ Spend("acts")
    /\ dl' = [dl EXCEPT ![t].aborted = TRUE]
    /\ UNCHANGED <<server, cache, record, page, look, gate, harm, emptied>>

-----------------------------------------------------------------------------
(* A tab that reads the record of a download it does not run, and writes   *)
(* it back as stopped: reconcile, if no lock is held; cancelDownload.      *)

Look(t) ==
    /\ look[t] = NoRecord /\ ~Running(t) /\ Is("downloading")
    /\ Spend("acts")
    /\ \E status \in {"interrupted", "cancelled"} :
          look' = [look EXCEPT ![t] = [status |-> status, listed |-> record.listed]]
    /\ UNCHANGED <<server, cache, record, page, dl, gate, harm, emptied>>

Tell(t) ==
    /\ look[t] # NoRecord
    /\ look' = [look EXCEPT ![t] = NoRecord]
    /\ IF look[t].status = "interrupted" /\ \E o \in Tabs : Running(o)
       THEN UNCHANGED <<record, harm>>
       ELSE /\ record' = look[t]
            /\ harm' = IF record = [status |-> "downloading", listed |-> look[t].listed]
                       THEN harm ELSE Worse("storage")
    /\ UNCHANGED <<server, cache, page, dl, gate, emptied, budget>>

-----------------------------------------------------------------------------
(* What takes the copy away.                                               *)

\* removeDownload: the entries the record lists, then the record.
Remove(t) ==
    /\ page[t].signed /\ page[t].removing = "no" /\ Spend("acts")
    /\ record # NoRecord /\ ~Is("downloading")
    /\ page' = [page EXCEPT ![t].removing = IF record.listed THEN "entries" ELSE "record"]
    /\ UNCHANGED <<server, cache, record, dl, look, gate, harm, emptied>>

RemoveEntries(t) ==
    /\ page[t].removing = "entries"
    /\ cache' = WithoutBook(cache) /\ HarmTo(Tabs, "track")
    /\ page' = [page EXCEPT ![t].removing = "record"]
    /\ UNCHANGED <<server, record, dl, look, gate, emptied, budget>>

RemoveRecord(t) ==
    /\ page[t].removing = "record"
    /\ record' = NoRecord /\ Unlisted
    /\ page' = [page EXCEPT ![t].removing = "no"]
    /\ UNCHANGED <<server, cache, dl, look, gate, emptied, budget>>

\* Any request of the tab is refused: its copy is purged.
Unauthorized(t) ==
    /\ page[t].signed /\ cookie = Nobody /\ page[t].purge = "none"
    /\ page' = Purging(page, t) /\ dl' = [dl EXCEPT ![t].aborted = Running(t)]
    /\ UNCHANGED <<server, cache, record, look, gate, harm, emptied, budget>>

\* Seeded fault: the generation is not bumped.
NotBumped(t) == Detached

\* purgeGeneration += 1: a download begun since the purge aborted all is of a dead one.
Bumped(t) == [Detached EXCEPT ![t].dead = Running(t)]

\* The writers have settled.
PurgeCache(t) ==
    /\ page[t].purge = "settled"
    /\ page' = [page EXCEPT ![t].purge = "clearing"]
    /\ dl' = Bumped(t)
    /\ cache' = EmptyCache /\ HarmTo(Tabs \ {t}, "storage")
    /\ emptied' = IF cookie = Nobody /\ emptied = "no" THEN "cache" ELSE emptied
    /\ UNCHANGED <<server, record, look, gate, budget>>

\* Nobody else writes to the registry any more.
Alone(t) == /\ \A o \in Tabs : look[o] = NoRecord
            /\ \A o \in Tabs : Running(o) => o = t

PurgeRecord(t) ==
    /\ page[t].purge \in {"clearing", "outrun"}
    /\ page' = [page EXCEPT ![t].purge = "none", ![t].signed = FALSE]
    /\ record' = NoRecord /\ Unlisted
    /\ emptied' = IF emptied = "cache" /\ page[t].purge = "clearing" /\ Alone(t)
                  THEN "both" ELSE emptied
    /\ UNCHANGED <<server, cache, dl, look, gate, budget>>

SignOut(t) ==
    /\ page[t].signed /\ page[t].purge = "none" /\ cookie # Nobody /\ Spend("acts")
    /\ cookie' = Nobody
    /\ page' = Purging(page, t) /\ dl' = [dl EXCEPT ![t].aborted = Running(t)]
    /\ UNCHANGED <<edition, cache, record, look, gate, harm, emptied>>

-----------------------------------------------------------------------------
(* The service worker.                                                     *)

ToldAll(msg) == [t \in Tabs |-> [page[t] EXCEPT !.mail = @ \cup {msg}]]

\* A request for book content once the verdict is stale: whose session is it?
Check ==
    /\ ~gate.fresh /\ gate.asking = Nobody
    /\ IF cookie # Nobody
       THEN gate' = [gate EXCEPT !.asking = cookie] /\ UNCHANGED <<cache, dl, page, harm, emptied>>
       ELSE /\ gate' = [ok |-> FALSE, fresh |-> TRUE, asking |-> Nobody]
            /\ IF gate.ok
               THEN /\ cache' = EmptyCache /\ dl' = Detached /\ HarmTo(Tabs, "storage")
                    /\ page' = ToldAll("unauthorized")
                    /\ emptied' = IF emptied = "no" THEN "cache" ELSE emptied
               ELSE UNCHANGED <<cache, dl, page, harm, emptied>>
    /\ UNCHANGED <<server, record, look, budget>>

\* reconcileCacheOwner
Reconcile ==
    /\ gate.asking # Nobody
    /\ gate' = [ok |-> TRUE, fresh |-> TRUE, asking |-> Nobody]
    /\ LET viewer == gate.asking IN
       IF cache.stamp = viewer \/ (cache.stamp = Nobody /\ ~HasContent(cache))
       THEN cache' = [cache EXCEPT !.stamp = viewer] /\ UNCHANGED <<dl, page, harm>>
       ELSE /\ cache' = [EmptyCache EXCEPT !.stamp = viewer]
            /\ dl' = Detached /\ HarmTo(Tabs, "storage")
            /\ page' = ToldAll("purged")
    /\ UNCHANGED <<server, record, look, emptied, budget>>

HearUnauthorized(t) ==
    /\ "unauthorized" \in page[t].mail
    /\ page' = Purging([page EXCEPT ![t].mail = @ \ {"unauthorized"}], t)
    /\ dl' = [dl EXCEPT ![t].aborted = @ \/ (Running(t) /\ page[t].purge = "none")]
    /\ UNCHANGED <<server, cache, record, look, gate, harm, emptied, budget>>

HearPurged(t) ==
    /\ "purged" \in page[t].mail
    /\ page' = [page EXCEPT ![t].mail = @ \ {"purged"}]
    /\ record' = NoRecord /\ Unlisted
    /\ UNCHANGED <<server, cache, dl, look, gate, emptied, budget>>

\* The verdict grows stale, or the browser stops the worker and starts it anew.
Stale ==
    /\ gate.fresh /\ Spend("checks")
    /\ \/ gate' = [gate EXCEPT !.fresh = FALSE]
       \/ gate' = [ok |-> TRUE, fresh |-> FALSE, asking |-> Nobody]
    /\ UNCHANGED <<server, cache, record, page, dl, look, harm, emptied>>

-----------------------------------------------------------------------------
(* Accounts, the library, and the end of a tab.                            *)

SignIn(t) ==
    /\ ~page[t].signed /\ page[t].purge = "none"
    /\ \/ cookie = Nobody /\ Spend("accounts") /\ cookie' \in Users
       \/ cookie # Nobody /\ UNCHANGED <<cookie, budget>>
    /\ page' = [page EXCEPT ![t].signed = TRUE]
    /\ emptied' = "no"
    /\ UNCHANGED <<edition, cache, record, dl, look, gate, harm>>

\* The session ends, or the reverse proxy signs in somebody else.
AccountChanges ==
    /\ cookie # Nobody /\ Spend("accounts")
    /\ cookie' \in (Users \cup {Nobody}) \ {cookie}
    /\ UNCHANGED <<edition, cache, record, page, dl, look, gate, harm, emptied>>

FileReplaced ==
    /\ edition < MaxEditions /\ edition' = edition + 1 /\ Spend("mishaps")
    /\ UNCHANGED <<cookie, cache, record, page, dl, look, gate, harm, emptied>>

\* The tab is closed, or the system ends it; a new page takes its place.
Close(t) ==
    /\ Spend("mishaps")
    /\ harm' = IF page[t].mail # {} \/ page[t].purge # "none" \/ page[t].removing = "record"
               THEN Worse("storage") ELSE harm
    /\ page' = [page EXCEPT ![t] = [signed |-> FALSE, purge |-> "none", mail |-> {},
                                    removing |-> "no"]]
    /\ dl' = [dl EXCEPT ![t] = Idle] /\ look' = [look EXCEPT ![t] = NoRecord]
    /\ UNCHANGED <<server, cache, record, gate, emptied>>

-----------------------------------------------------------------------------

Download(t) ==
    \/ Register(t) \/ Manifest(t) \/ ManifestRefused(t) \/ ManifestFails(t) \/ List(t) \/ Open(t)
    \/ Notice(t) \/ Track(t) \/ Wipe(t) \/ KeepChunk(t) \/ FetchChunk(t) \/ StoreChunk(t)
    \/ MarkTrack(t) \/ Detail(t) \/ FetchRefused(t) \/ Finish(t)

Next ==
    \/ \E t \in Tabs :
          \/ Start(t) \/ Download(t) \/ GiveUp(t) \/ Cancel(t) \/ Look(t) \/ Tell(t)
          \/ Remove(t) \/ RemoveEntries(t) \/ RemoveRecord(t)
          \/ Unauthorized(t) \/ PurgeCache(t) \/ PurgeRecord(t) \/ SignOut(t)
          \/ HearUnauthorized(t) \/ HearPurged(t) \/ SignIn(t) \/ Close(t)
    \/ Check \/ Reconcile \/ Stale \/ AccountChanges \/ FileReplaced

Spec == Init /\ [][Next]_vars

\* A tab's own work goes on: the requests of a download are watched and can be
\* aborted, and a purge takes its next step when it may.
Work(t) == Download(t) \/ PurgeCache(t) \/ PurgeRecord(t)

Fairness == \A t \in Tabs : WF_vars(Work(t))

FairSpec == Spec /\ Fairness

-----------------------------------------------------------------------------
(* Properties.                                                             *)

\* Something is being taken away, or a tab has yet to hear that it was.
Clearing == \E t \in Tabs : page[t].purge # "none" \/ page[t].mail # {} \/ page[t].removing # "no"

\* A track that may be served has all its chunks, of one edition; and a book the
\* registry calls done is there, unless it was taken away under the download.
ClaimsAreTrue ==
    /\ cache.meta # 0 /\ harm # "track" => \A n \in 1..Chunks : cache.chunk[n] = cache.meta
    /\ Is("done") /\ harm = "none" /\ ~Clearing => cache.meta # 0 /\ cache.detail

\* What is stored can be removed: the record lists it.
StoredIsListed ==
    HasContent(cache) /\ harm = "none" /\ ~Clearing => record # NoRecord /\ record.listed

\* A purge leaves nothing behind, whatever was under way: after it nothing of the
\* book comes back while nobody is signed in, neither content nor record.
NothingOutlivesSignOut ==
    /\ emptied # "no" => ~HasBook(cache)
    /\ emptied = "both" => record = NoRecord

\* A purge that has begun comes to its end, even when it is the download itself
\* that was refused and waits for the purge that waits for it.
PurgeEnds == \A t \in Tabs : []<>(page[t].purge = "none")

\* What the viewer has downloaded, into a cache that is not another's, is not taken
\* for another's and deleted: a download claims the empty cache it begins with.
OwnDownloadsAreKept ==
    [][(/\ gate.asking # Nobody /\ gate'.asking = Nobody
        /\ cache.whose = {gate.asking} /\ cache.stamp \in {gate.asking, Nobody})
       => cache'.whose = cache.whose]_vars
=============================================================================
