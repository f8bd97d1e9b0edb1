------------------------------ MODULE Progress ------------------------------
(***************************************************************************)
(* The reading place of one book, from the tab that makes a checkpoint to   *)
(* the account it is filed under (web/src/progress, web/src/state,          *)
(* server/src/progress, shared/src/reconcile.ts).                           *)
(*                                                                          *)
(* The tabs of one browser share its cookie, its localStorage (the owner of *)
(* the queue and the stash) and its IndexedDB (the queue, the cached place, *)
(* the reset generation).  Requests and answers travel on their own: they   *)
(* overtake each other, get lost, and reach a tab that has moved on.  The   *)
(* server files a batch event by event in one transaction.                  *)
(*                                                                          *)
(* A page is one load of the app, so it is also a session id; an event id   *)
(* is a page and its seq.  A place in the book is the event that states it. *)
(***************************************************************************)
EXTENDS Integers, FiniteSets

CONSTANTS
    Users, Browsers, Pages,
    Home,           \* the browser each page is loaded in
    Skew,           \* how far each browser's clock is from the server's
    MaxCorrection,  \* MAX_CLOCK_CORRECTION_MS
    FutureSkew,     \* MAX_FUTURE_SKEW_MS
    NoOne,          \* nobody is signed in; nobody owns the queue
    NoRow,          \* the account has no progress in the book
    MaxSeq,         \* bound on the checkpoints the reader makes in each page
    MaxClock,       \* bound on time
    MaxResets,      \* bound on the resets asked for
    MaxSignIns,     \* bound on the sign-ins
    MaxSignOuts,    \* bound on the sign-outs and expired sessions
    MaxLosses,      \* bound on the messages lost
    MaxDeaths,      \* bound on the pages closed or killed
    MaxReturns,     \* bound on the returns to a hidden tab
    MaxMessages     \* bound on the messages under way

ASSUME HomeAssumption == Home \in [Pages -> Browsers]
ASSUME ClockAssumption ==
    /\ Skew \in [Browsers -> Int] /\ MaxCorrection \in Nat
    /\ FutureSkew \in Nat
ASSUME NobodyAssumption == NoOne \notin Users
ASSUME BoundsAssumption ==
    /\ MaxSeq \in [Pages -> Nat]
    /\ {MaxClock, MaxResets, MaxSignIns, MaxSignOuts, MaxLosses, MaxDeaths,
        MaxReturns, MaxMessages} \subseteq Nat

VARIABLES
    clock,      \* the server's time
    account,    \* progress_state, progress_events, progress_resets
    filing,     \* the batch the server's transaction is at
    cookie,     \* whose session each browser's cookie is
    disk,       \* each browser's localStorage and IndexedDB
    tab,        \* what each page holds in memory
    asked,      \* requests under way
    answered,   \* answers under way
    queued,     \* history: checkpoints accepted into the queue of their owner
    muddled,    \* history: the queue changed hands over unfinished business
    carried,    \* history: an open book was taken along into another account
    used        \* what the bounds have been spent on

vars == <<clock, account, filing, cookie, disk, tab, asked, answered, queued,
          muddled, carried, used>>

\* Kept for the properties: by, the account whose book the reader had open,
\* and erased, how far each page had got when the account was last reset.
Event == [page : Pages, seq : Nat, at : Int, base : Nat, gen : Nat,
          owner : Users, by : Users, explicit : BOOLEAN]
Row == [event : Event, at : Int, revision : Nat \ {0}]
Account == [row : Row \cup {NoRow}, history : SUBSET Event, gen : Nat,
            erased : [Pages -> Nat]]
Batch == [user : Users, events : SUBSET Event, left : SUBSET Event,
          shift : Int, draft : Account, unclaimed : BOOLEAN,
          page : Pages, guard : BOOLEAN]
Disk == [owner : Users \cup {NoOne}, stash : SUBSET Event,
         pending : SUBSET Event, gen : Nat, cached : Row \cup {NoRow}]
Tab == [life : {"new", "visible", "hidden", "gone"},
        session : Users \cup {NoOne}, asking : BOOLEAN,
        purging : {"no", "leaving", "clearing"}, next : Users \cup {NoOne},
        reading : Users \cup {NoOne}, seq : Nat, known : Nat, active : Nat,
        writing : SUBSET Event, flushing : BOOLEAN, reclaimed : Int]
Ask == [kind : {"events", "get", "peek", "reset"}, page : Pages,
        user : Users \cup {NoOne}, owner : Users \cup {NoOne},
        events : SUBSET Event, sent : Int, guard : BOOLEAN]
Answer == [kind : {"filed", "state", "peeked", "erased", "denied", "refused"},
           to : {"events", "get", "peek", "reset"}, page : Pages,
           user : Users \cup {NoOne}, events : SUBSET Event,
           row : Row \cup {NoRow}, gen : Nat, unclaimed : BOOLEAN,
           guard : BOOLEAN]
Used == [resets : Nat, signIns : Nat, signOuts : Nat, losses : Nat,
         deaths : Nat, returns : Nat]
Idle == [user |-> NoOne]

\* No progress is not some progress.
ASSUME NoRowAssumption == NoRow \notin Row

\* Whatever is stored, queued or under way has its type.
TypeOK ==
    /\ clock \in Nat /\ account \in [Users -> Account]
    /\ filing \in Batch \cup {Idle}
    /\ cookie \in [Browsers -> Users \cup {NoOne}]
    /\ disk \in [Browsers -> Disk] /\ tab \in [Pages -> Tab]
    /\ asked \subseteq Ask /\ answered \subseteq Answer
    /\ queued \subseteq Event /\ muddled \in BOOLEAN /\ carried \in BOOLEAN
    /\ used \in Used

\* Nobody has read anything yet; these pages will be opened, and the bounds are
\* spent as far as is said.
Unread(now, pages, spent) ==
    /\ clock = now /\ used = spent
    /\ account = [u \in Users |-> [row |-> NoRow, history |-> {}, gen |-> 0,
                                 erased |-> [p \in Pages |-> 0]]]
    /\ filing = Idle
    /\ cookie = [b \in Browsers |-> NoOne]
    /\ disk = [b \in Browsers |->
                  [owner |-> NoOne, stash |-> {}, pending |-> {}, gen |-> 0,
                   cached |-> NoRow]]
    /\ tab = [p \in Pages |->
                 [life |-> IF p \in pages THEN "new" ELSE "gone",
                  session |-> NoOne, asking |-> TRUE, purging |-> "no", next |-> NoOne, reading |-> NoOne,
                  seq |-> 0, known |-> 0, active |-> 0, writing |-> {},
                  flushing |-> FALSE, reclaimed |-> -1]]
    /\ asked = {} /\ answered = {} /\ queued = {}
    /\ muddled = FALSE /\ carried = FALSE

Init == Unread(0, Pages, [resets |-> 0, signIns |-> 0, signOuts |-> 0, losses |-> 0,
                          deaths |-> 0, returns |-> 0])

Lesser(a, b) == IF a < b THEN a ELSE b
Greater(a, b) == IF a < b THEN b ELSE a
Running(p) == tab[p].life \in {"visible", "hidden"}
DeviceClock(b) == clock + Skew[b]

\* An answer to a page that is gone reaches nobody.
Sent(a) == IF tab[a.page].life = "gone" THEN answered ELSE answered \cup {a}

-----------------------------------------------------------------------------
(* The server: what an event does to an account.                            *)

\* clampEventTime
Clamped(at) == Lesser(at, clock + FutureSkew)

\* clockCorrectionMs
Correction(sent) ==
    Greater(-MaxCorrection, Lesser(MaxCorrection, clock - sent))

\* Seeded fault: any heartbeat of the session that holds the claim applies.
MovesInAnyOrder(e, at, row) ==
    \/ row = NoRow
    \/ /\ e.explicit
       /\ e.base = row.revision \/ at > row.at
    \/ ~e.explicit /\ e.page = row.event.page

\* decideApply, for an event judged to be of time at.
Moves(e, at, row) ==
    \/ row = NoRow
    \/ /\ e.explicit
       /\ \/ e.base = row.revision
          \/ at > row.at
          \/ at = row.at /\ e.page = row.event.page /\ e.seq > row.event.seq
    \/ /\ ~e.explicit
       /\ e.page = row.event.page /\ e.seq > row.event.seq

\* A heartbeat of a session that does not hold the claim.
Unclaimed(e, row) ==
    row # NoRow /\ ~e.explicit /\ e.page # row.event.page

\* The row an applied event leaves: a heartbeat keeps the claim's time.
MovedTo(e, at, row) ==
    [event |-> e,
     at |-> IF row # NoRow /\ ~e.explicit THEN row.at ELSE at,
     revision |-> IF row = NoRow THEN 1 ELSE row.revision + 1]

\* The reset barrier: history that was erased is not rebuilt.
BehindReset(e, a) ==
    \/ e.gen # a.gen
    \/ a.gen > 0 /\ a.row = NoRow /\ ~e.explicit

\* Neither somebody else's, nor a duplicate, nor behind a reset.
Fileable(e, u, a) ==
    e.owner = u /\ e \notin a.history /\ ~BehindReset(e, a)

\* One event of the batch, filed under account u.
Filed(e, u, a, shift) ==
    LET at == Clamped(e.at + shift) IN
    IF ~Fileable(e, u, a) THEN a
    ELSE [a EXCEPT !.history = @ \cup {e},
                   !.row = IF Moves(e, at, @) THEN MovedTo(e, at, @) ELSE @]

\* The session a request was sent under is still there when it arrives.
Authenticated(m) == m.user # NoOne /\ m.user = cookie[Home[m.page]]

\* POST /api/progress/events begins its transaction.
Begin ==
    \E m \in asked :
        /\ m.kind = "events" /\ Authenticated(m) /\ m.owner = m.user
        /\ asked' = asked \ {m}
        /\ filing' = [user |-> m.user, events |-> m.events, left |-> m.events,
                      shift |-> Correction(m.sent),
                      draft |-> account[m.user], unclaimed |-> FALSE,
                      page |-> m.page, guard |-> m.guard]
        /\ UNCHANGED <<clock, account, cookie, disk, tab, answered, queued,
                       muddled, carried, used>>

\* The client sorts a batch by time and then seq.
Precedes(e, f) == e.at < f.at \/ (e.at = f.at /\ e.seq <= f.seq)

\* applyProgressEvents, one turn of its loop.
FileNext ==
    /\ filing # Idle
    /\ \E e \in filing.left :
        /\ \A f \in filing.left : Precedes(e, f)
        /\ filing' = [filing EXCEPT
              !.left = @ \ {e},
              !.draft = Filed(e, filing.user, @, filing.shift),
              !.unclaimed = @ \/ (/\ Fileable(e, filing.user, filing.draft)
                                  /\ Unclaimed(e, filing.draft.row)
                                  /\ e.page = filing.page)]
    /\ UNCHANGED <<clock, account, cookie, disk, tab, asked, answered, queued,
                   muddled, carried, used>>

\* COMMIT, and the acknowledgement of every event of the batch.
Commit ==
    /\ filing # Idle /\ filing.left = {}
    /\ account' = [account EXCEPT ![filing.user] = filing.draft]
    /\ answered' = Sent(
          [kind |-> "filed", to |-> "events", page |-> filing.page,
            user |-> filing.user, events |-> filing.events, row |-> filing.draft.row,
            gen |-> filing.draft.gen, unclaimed |-> filing.unclaimed,
            guard |-> filing.guard])
    /\ filing' = Idle
    /\ UNCHANGED <<clock, cookie, disk, tab, asked, queued, muddled, carried,
                   used>>

Reply(m, kind) ==
    [kind |-> kind, to |-> m.kind, page |-> m.page, user |-> m.user,
     events |-> {}, row |-> NoRow, gen |-> 0, unclaimed |-> FALSE,
     guard |-> m.guard]

\* 401: nobody is signed in.  403: the queue is for somebody else.
Refuse ==
    \E m \in asked :
        /\ asked' = asked \ {m}
        /\ \/ ~Authenticated(m) /\ answered' = Sent(Reply(m, "denied"))
           \/ /\ Authenticated(m) /\ m.kind = "events" /\ m.owner # m.user
              /\ answered' = Sent(Reply(m, "refused"))
        /\ UNCHANGED <<clock, account, filing, cookie, disk, tab, queued,
                       muddled, carried, used>>

\* GET /api/progress/:bookId
TellPlace ==
    \E m \in asked :
        /\ m.kind \in {"get", "peek"} /\ Authenticated(m)
        /\ asked' = asked \ {m}
        /\ answered' = Sent(
              [Reply(m, IF m.kind = "get" THEN "state" ELSE "peeked") EXCEPT
                  !.row = account[m.user].row, !.gen = account[m.user].gen])
        /\ UNCHANGED <<clock, account, filing, cookie, disk, tab, queued,
                       muddled, carried, used>>

\* How far each page has got.
MadeSoFar == [p \in Pages |-> tab[p].seq]

\* Seeded fault: a reset erases, and sets no barrier.
EraseWithoutBarrier ==
    \E m \in asked :
        /\ m.kind = "reset" /\ Authenticated(m)
        /\ asked' = asked \ {m}
        /\ account' = [account EXCEPT
              ![m.user] = [row |-> NoRow, history |-> {}, gen |-> @.gen,
                           erased |-> MadeSoFar]]
        /\ answered' = Sent([Reply(m, "erased") EXCEPT
              !.gen = account[m.user].gen])
        /\ UNCHANGED <<clock, filing, cookie, disk, tab, queued, muddled,
                       carried, used>>

\* DELETE /api/progress/:bookId
Erase ==
    \E m \in asked :
        /\ m.kind = "reset" /\ Authenticated(m)
        /\ asked' = asked \ {m}
        /\ account' = [account EXCEPT
              ![m.user] = [row |-> NoRow, history |-> {}, gen |-> @.gen + 1,
                           erased |-> MadeSoFar]]
        /\ answered' = Sent([Reply(m, "erased") EXCEPT
              !.gen = account[m.user].gen + 1])
        /\ UNCHANGED <<clock, filing, cookie, disk, tab, queued, muddled,
                       carried, used>>

-----------------------------------------------------------------------------
(* The browser's stores.                                                    *)

\* The later of two places, where there are two.
Newer(kept, row) ==
    IF row # NoRow /\ (kept = NoRow \/ kept.revision <= row.revision)
    THEN row ELSE kept

\* mergeProgressSnapshot: an older answer changes nothing.
Merged(d, gen, row) ==
    IF gen < d.gen THEN d
    ELSE LET kept == IF gen > d.gen THEN NoRow ELSE d.cached
             news == Newer(kept, row)
         IN [d EXCEPT !.gen = gen, !.cached = news,
                      !.pending = {e \in @ : e.gen >= gen}]

\* The events of S that enqueueProgressEvent accepts.
Accepted(d, S) == {e \in S : e.gen = d.gen}

\* drainLastGasp
Drained(d) ==
    [d EXCEPT !.pending = @ \cup Accepted(d, d.stash), !.stash = {}]

\* The accepted events count as queued when the queue is their owner's.
Queueing(d, S) == queued \cup {e \in Accepted(d, S) : e.owner = d.owner}

\* deliveringFor
DeliveringFor(p) ==
    LET owner == disk[Home[p]].owner IN
    IF owner \in {NoOne, tab[p].session} THEN tab[p].session ELSE NoOne

\* What nobody should come across once the queue has changed hands.
Unfinished(b) == \E p \in Pages : Home[p] = b /\ tab[p].purging # "no"

-----------------------------------------------------------------------------
(* Signing in and out.                                                      *)

\* The app starts, and puts back what the last page could not store.  With no
\* network it goes on for the owner of the queue: resumeStoredProgressSession.
Open(p) ==
    LET b == Home[p] IN
    /\ tab[p].life = "new"
    /\ \E u \in {NoOne, disk[b].owner} :
          tab' = [tab EXCEPT ![p].life = "visible", ![p].session = u]
    /\ disk' = [disk EXCEPT ![b] = Drained(@)]
    /\ queued' = Queueing(disk[b], disk[b].stash)
    /\ UNCHANGED <<clock, account, filing, cookie, asked, answered, muddled,
                   carried, used>>

\* The login page, of a browser where nobody is signed in.
SignIn(p, u) ==
    /\ Running(p) /\ tab[p].session = NoOne /\ tab[p].purging = "no"
    /\ cookie[Home[p]] = NoOne /\ used.signIns < MaxSignIns
    /\ cookie' = [cookie EXCEPT ![Home[p]] = u]
    /\ tab' = [tab EXCEPT ![p].asking = TRUE]
    /\ used' = [used EXCEPT !.signIns = @ + 1]
    /\ UNCHANGED <<clock, account, filing, disk, asked, answered, queued,
                   muddled, carried>>

\* A session expires or is revoked.
SessionEnds(b) ==
    /\ cookie[b] # NoOne /\ used.signOuts < MaxSignOuts
    /\ cookie' = [cookie EXCEPT ![b] = NoOne]
    /\ used' = [used EXCEPT !.signOuts = @ + 1]
    /\ UNCHANGED <<clock, account, filing, disk, tab, asked, answered, queued,
                   muddled, carried>>

\* What purgeProgressQueue does before its first await.
Sealed(t) ==
    [t EXCEPT !.session = NoOne, !.asking = FALSE, !.purging = "clearing",
              !.known = 0, !.active = 0]
\* purgeOfflineData takes the cached places with the downloads.
Forgotten(d) == [d EXCEPT !.cached = NoRow]
SealedDisk(d) == [d EXCEPT !.owner = NoOne, !.stash = {}]
LeftBehind(b) == {e \in queued : Home[e.page] # b}

\* claimProgressQueue, once /api/auth/me has named the account.
Claim(p) ==
    LET b == Home[p]
        u == cookie[b]
        mine == disk[b].owner \in {NoOne, u}
    IN
    /\ Running(p) /\ tab[p].asking /\ tab[p].purging = "no" /\ u # NoOne
    /\ muddled' = (muddled \/ Unfinished(b)
                         \/ (mine /\ tab[p].session \notin {NoOne, u}))
    /\ carried' = (carried \/ tab[p].reading \notin {NoOne, u})
    /\ \/ /\ mine
          /\ tab' = [tab EXCEPT ![p].session = u, ![p].asking = FALSE]
          /\ disk' = [disk EXCEPT ![b].owner = u]
          /\ UNCHANGED queued
       \/ /\ ~mine
          /\ tab' = [tab EXCEPT ![p] = [Sealed(@) EXCEPT !.next = u]]
          /\ disk' = [disk EXCEPT ![b] = SealedDisk(@)]
          /\ queued' = LeftBehind(b)
    /\ UNCHANGED <<clock, account, filing, cookie, asked, answered, used>>

\* clearProgressStores is done; a claim goes on, a sign-out ends here.
Purged(p) ==
    LET b == Home[p] IN
    /\ Running(p) /\ tab[p].purging = "clearing"
    /\ tab' = [tab EXCEPT ![p].purging = "no", ![p].next = NoOne,
                          ![p].session = tab[p].next]
    /\ disk' = [disk EXCEPT ![b].pending = {}, ![b].cached = NoRow,
                            ![b].gen = 0,
                            ![b].owner = IF tab[p].next = NoOne THEN @
                                         ELSE tab[p].next]
    /\ muddled' = (muddled \/ (tab[p].next # NoOne /\ Unfinished(b)'))
    /\ UNCHANGED <<clock, account, filing, cookie, asked, answered, queued,
                   carried, used>>

\* logout: what follows, follows whether or not the server could be told.
SignOut(p) ==
    LET b == Home[p] IN
    /\ Running(p) /\ tab[p].session # NoOne /\ ~tab[p].asking
    /\ tab[p].purging = "no" /\ used.signOuts < MaxSignOuts
    /\ used' = [used EXCEPT !.signOuts = @ + 1]
    /\ \E c \in {NoOne, cookie[b]} : cookie' = [cookie EXCEPT ![b] = c]
    /\ tab' = [tab EXCEPT ![p].purging = "leaving"]
    /\ UNCHANGED <<clock, account, filing, disk, asked, answered, queued,
                   muddled, carried>>

\* The downloads are gone; now the queue is sealed and goes too.
SealQueue(p) ==
    LET b == Home[p] IN
    /\ Running(p) /\ tab[p].purging = "leaving"
    /\ tab' = [tab EXCEPT ![p] = [Sealed(@) EXCEPT !.reading = NoOne]]
    /\ disk' = [disk EXCEPT ![b] = SealedDisk(Forgotten(@))]
    /\ queued' = LeftBehind(b)
    /\ UNCHANGED <<clock, account, filing, cookie, asked, answered, muddled,
                   carried, used>>

\* Signed out elsewhere: /api/auth/me of a page that started with no network.
Released(t) == [t EXCEPT !.session = NoOne, !.asking = FALSE, !.reading = NoOne]
FoundSignedOut(p) ==
    /\ Running(p) /\ tab[p].asking /\ tab[p].session # NoOne
    /\ cookie[Home[p]] = NoOne
    /\ tab' = [tab EXCEPT ![p] = Released(@)]
    /\ disk' = [disk EXCEPT ![Home[p]] = Forgotten(@)]
    /\ UNCHANGED <<clock, account, filing, cookie, asked, answered, queued,
                   muddled, carried, used>>

-----------------------------------------------------------------------------
(* The page: checkpoints.                                                   *)

\* Seeded fault: the owner is whoever the browser's cookie names.
BuiltForCookie(p, explicit) ==
    [page |-> p, seq |-> tab[p].seq + 1, at |-> DeviceClock(Home[p]),
     base |-> tab[p].known, gen |-> tab[p].active,
     owner |-> IF cookie[Home[p]] = NoOne THEN tab[p].session
               ELSE cookie[Home[p]],
     by |-> tab[p].reading, explicit |-> explicit]

\* buildEvent
Built(p, explicit) ==
    [page |-> p, seq |-> tab[p].seq + 1, at |-> DeviceClock(Home[p]),
     base |-> tab[p].known, gen |-> tab[p].active,
     owner |-> tab[p].session, by |-> tab[p].reading, explicit |-> explicit]

\* An event that knows no revision takes the one of the cached place.
Based(e, d) ==
    IF e.base = 0 /\ d.cached # NoRow /\ d.gen = e.gen
    THEN [e EXCEPT !.base = d.cached.revision] ELSE e

\* recordCheckpoint, up to the write.
Record(p) ==
    /\ Running(p) /\ tab[p].reading # NoOne /\ DeliveringFor(p) # NoOne
    /\ tab[p].seq < MaxSeq[p]
    /\ \E explicit \in BOOLEAN :
          LET e == Based(Built(p, explicit), disk[Home[p]]) IN
          tab' = [tab EXCEPT ![p].seq = @ + 1, ![p].known = e.base,
                             ![p].writing = @ \cup {e}]
    /\ UNCHANGED <<clock, account, filing, cookie, disk, asked, answered,
                   queued, muddled, carried, used>>

\* enqueueProgressEvent: the generation is compared where the event is stored.
Store(p) ==
    LET b == Home[p] IN
    /\ Running(p)
    /\ \E e \in tab[p].writing :
        /\ tab' = [tab EXCEPT ![p].writing = @ \ {e}]
        /\ disk' = [disk EXCEPT
              ![b].pending = @ \cup Accepted(disk[b], {e}),
              ![b].stash = @ \ Accepted(disk[b], {e})]
        /\ queued' = Queueing(disk[b], {e})
    /\ UNCHANGED <<clock, account, filing, cookie, asked, answered, muddled,
                   carried, used>>

-----------------------------------------------------------------------------
(* The page: requests.                                                      *)

Room == Cardinality(asked) + Cardinality(answered) < MaxMessages

Request(p, kind, events, guard) ==
    [kind |-> kind, page |-> p, user |-> cookie[Home[p]],
     owner |-> tab[p].session, events |-> events,
     sent |-> DeviceClock(Home[p]), guard |-> guard]

\* Seeded fault: what is sent is dropped without waiting for the answer.
FlushForgets(p) ==
    LET b == Home[p]
        mine == {e \in disk[b].pending : e.owner = DeliveringFor(p)}
    IN
    /\ Running(p) /\ DeliveringFor(p) # NoOne
    /\ disk[b].pending # {} /\ Room
    /\ tab[p].flushing => tab[p].life = "hidden"
    /\ disk' = [disk EXCEPT ![b].pending = {}]
    /\ \/ /\ mine # {}
          /\ asked' = asked \cup {Request(p, "events", mine, ~tab[p].flushing)}
          /\ tab' = [tab EXCEPT ![p].flushing = TRUE]
       \/ mine = {} /\ UNCHANGED <<asked, tab>>
    /\ UNCHANGED <<clock, account, filing, cookie, answered, queued, muddled,
                   carried, used>>

\* flushPending.  A hidden page does not wait for a flush under way.
Flush(p) ==
    LET b == Home[p]
        mine == {e \in disk[b].pending : e.owner = DeliveringFor(p)}
    IN
    /\ Running(p) /\ DeliveringFor(p) # NoOne
    /\ disk[b].pending # {} /\ Room
    /\ tab[p].flushing => tab[p].life = "hidden"
    /\ disk' = [disk EXCEPT ![b].pending = mine]
    /\ \/ /\ mine # {}
          /\ asked' = asked \cup {Request(p, "events", mine, ~tab[p].flushing)}
          /\ tab' = [tab EXCEPT ![p].flushing = TRUE]
       \/ mine = {} /\ UNCHANGED <<asked, tab>>
    /\ UNCHANGED <<clock, account, filing, cookie, answered, queued, muddled,
                   carried, used>>

\* persistActiveLocatorAndFlush: stash, store and send the live place at once.
Hide(p) ==
    LET b == Home[p]
        live == Built(p, FALSE)
        captures == /\ tab[p].reading # NoOne /\ DeliveringFor(p) # NoOne
                    /\ tab[p].seq < MaxSeq[p]
    IN
    /\ tab[p].life = "visible" /\ Room
    /\ \/ /\ captures
          /\ tab' = [tab EXCEPT ![p].life = "hidden", ![p].seq = @ + 1,
                                ![p].writing = @ \cup {live}]
          /\ disk' = [disk EXCEPT ![b].stash = @ \cup {live}]
          /\ asked' = asked \cup {Request(p, "events", {live}, FALSE)}
       \/ /\ ~captures
          /\ tab' = [tab EXCEPT ![p].life = "hidden"]
          /\ UNCHANGED <<disk, asked>>
    /\ UNCHANGED <<clock, account, filing, cookie, answered, queued, muddled,
                   carried, used>>

\* The reader comes back to the tab, which looks where the others have got.
Show(p) ==
    /\ tab[p].life = "hidden" /\ Room /\ used.returns < MaxReturns
    /\ used' = [used EXCEPT !.returns = @ + 1]
    /\ tab' = [tab EXCEPT ![p].life = "visible"]
    /\ asked' = IF tab[p].reading # NoOne
                THEN asked \cup {Request(p, "peek", {}, FALSE)} ELSE asked
    /\ UNCHANGED <<clock, account, filing, cookie, disk, answered, queued,
                   muddled, carried>>

\* The page is closed or killed: what it has not stored is gone.
Die(p) ==
    /\ Running(p) /\ used.deaths < MaxDeaths
    /\ used' = [used EXCEPT !.deaths = @ + 1]
    /\ tab' = [tab EXCEPT ![p].life = "gone", ![p].writing = {}]
    /\ answered' = {a \in answered : a.page # p}
    /\ muddled' = (muddled \/ tab[p].purging = "clearing")
    /\ UNCHANGED <<clock, account, filing, cookie, disk, asked, queued,
                   carried>>

\* resumeLocator asks the server first.
OpenBook(p) ==
    /\ tab[p].life = "visible" /\ tab[p].session # NoOne /\ Room
    /\ tab[p].seq < MaxSeq[p]
    /\ \A m \in asked \cup answered :
          ~(m.page = p /\ m.kind \in {"get", "state"})
    /\ asked' = asked \cup {Request(p, "get", {}, FALSE)}
    /\ UNCHANGED <<clock, account, filing, cookie, disk, tab, answered,
                   queued, muddled, carried, used>>

\* resetBookProgress, from the shelf.
ResetBook(p) ==
    /\ tab[p].life = "visible" /\ tab[p].session # NoOne /\ tab[p].reading = NoOne
    /\ Room /\ used.resets < MaxResets
    /\ asked' = asked \cup {Request(p, "reset", {}, FALSE)}
    /\ used' = [used EXCEPT !.resets = @ + 1]
    /\ UNCHANGED <<clock, account, filing, cookie, disk, tab, answered,
                   queued, muddled, carried>>

-----------------------------------------------------------------------------
(* The page: answers.                                                       *)

Revision(row) == IF row = NoRow THEN 0 ELSE row.revision

\* Seeded fault: a book that has no place keeps the revision of the old one.
AdoptingKeepsRevision(t, d) ==
    [t EXCEPT !.active = d.gen,
              !.known = IF d.cached = NoRow THEN @ ELSE Revision(d.cached),
              !.reading = t.session]

\* resumeLocator: on from what the browser holds, under its generation.
Adopting(t, d) ==
    [t EXCEPT !.active = d.gen, !.known = Revision(d.cached),
              !.reading = t.session]

\* The opened book states its place.
Opened(p, d) ==
    LET t == Adopting(tab[p], d)
        open == [Built(p, TRUE) EXCEPT !.base = t.known, !.gen = t.active,
                                       !.by = t.session]
    IN IF DeliveringFor(p) = NoOne THEN t
       ELSE [t EXCEPT !.seq = @ + 1, !.writing = @ \cup {open}]

\* The server's answer to resumeLocator; a look activates nothing.
TakePlace(p) ==
    LET b == Home[p] IN
    \E m \in answered :
        LET d == Merged(disk[b], m.gen, m.row) IN
        /\ m.page = p /\ m.kind \in {"state", "peeked"}
        /\ answered' = answered \ {m}
        /\ disk' = [disk EXCEPT ![b] = Drained(d)]
        /\ tab' = [tab EXCEPT ![p] = IF m.kind = "state" THEN Opened(p, d) ELSE @]
        /\ queued' = Queueing(d, d.stash)
        /\ muddled' = (muddled \/ m.user # disk[b].owner)
        /\ UNCHANGED <<clock, account, filing, cookie, asked, carried, used>>

\* knownRevision is not moved by an answer of another generation.
Learned(t, m) ==
    IF m.row = NoRow \/ t.active # m.gen THEN t
    ELSE [t EXCEPT !.known = m.row.revision]

Unguarded(t, m) == [t EXCEPT !.flushing = @ /\ ~m.guard]

\* A visible page that lost the claim states its place, once a while.
Reclaims(p, m) ==
    /\ m.unclaimed /\ tab[p].life = "visible" /\ tab[p].reading # NoOne
    /\ DeliveringFor(p) # NoOne /\ tab[p].reclaimed < clock

\* handleAck.  The single of the unload path waits until it is stored.
TakeAck(p) ==
    LET b == Home[p] IN
    \E m \in answered :
        LET t == Unguarded(Learned(tab[p], m), m)
            claim == [Built(p, TRUE) EXCEPT !.base = t.known]
            rest == [disk[b] EXCEPT !.pending = @ \ m.events]
        IN
        /\ m.page = p /\ m.kind = "filed" /\ m.events \cap tab[p].writing = {}
        /\ answered' = answered \ {m}
        /\ disk' = [disk EXCEPT ![b] = Merged(rest, m.gen, m.row)]
        /\ tab' = [tab EXCEPT ![p] =
              IF ~Reclaims(p, m) THEN t
              ELSE [t EXCEPT !.seq = @ + 1, !.writing = @ \cup {claim},
                             !.reclaimed = clock]]
        /\ muddled' = (muddled \/ m.user # disk[b].owner)
        /\ UNCHANGED <<clock, account, filing, cookie, asked, queued, carried,
                       used>>

\* resetBookProgress goes on once the reset is confirmed.
TakeErased(p) ==
    LET b == Home[p] IN
    \E m \in answered :
        LET d == Merged(disk[b], m.gen, NoRow) IN
        /\ m.page = p /\ m.kind = "erased"
        /\ answered' = answered \ {m}
        /\ disk' = [disk EXCEPT
              ![b] = [d EXCEPT !.stash = {e \in @ : e.gen >= m.gen}]]
        /\ tab' = [tab EXCEPT ![p].known = 0]
        /\ muddled' = (muddled \/ m.user # disk[b].owner)
        /\ UNCHANGED <<clock, account, filing, cookie, asked, queued, carried,
                       used>>

\* 401 signs the page out and keeps the queue; 403 keeps everything.  A book
\* that was being opened is still looked up in the browser.
TakeRefusal(p) ==
    LET b == Home[p] IN
    \E m \in answered :
        LET denied == m.kind = "denied"
            kept == IF denied THEN Forgotten(disk[b]) ELSE disk[b]
            left == Unguarded(IF denied THEN Released(tab[p]) ELSE tab[p], m)
            drains == m.to \in {"get", "peek"}
        IN
        /\ m.page = p /\ m.kind \in {"denied", "refused"}
        /\ answered' = answered \ {m}
        /\ disk' = [disk EXCEPT ![b] = IF drains THEN Drained(kept) ELSE kept]
        /\ queued' = IF drains THEN Queueing(kept, kept.stash) ELSE queued
        /\ tab' = [tab EXCEPT ![p] =
              IF m.to = "get" THEN Adopting(left, kept) ELSE left]
        /\ UNCHANGED <<clock, account, filing, cookie, asked, muddled, carried,
                       used>>

\* What a page does about a request that failed.
GivesUp(p, m) ==
    LET b == Home[p] IN
    IF m.kind \in {"get", "state", "peek", "peeked"} /\ Running(p)
    THEN /\ disk' = [disk EXCEPT ![b] = Drained(@)]
         /\ tab' = [tab EXCEPT ![p] =
               IF m.kind \in {"get", "state"} THEN Opened(p, disk[b]) ELSE @]
         /\ queued' = Queueing(disk[b], disk[b].stash)
    ELSE /\ tab' = [tab EXCEPT ![p] = Unguarded(@, m)]
         /\ UNCHANGED <<disk, queued>>

\* A request, or its answer, is lost.
Lose ==
    /\ used.losses < MaxLosses
    /\ used' = [used EXCEPT !.losses = @ + 1]
    /\ \E m \in asked \cup answered :
        /\ asked' = asked \ {m} /\ answered' = answered \ {m}
        /\ GivesUp(m.page, m)
    /\ UNCHANGED <<clock, account, filing, cookie, muddled, carried>>

\* The transaction fails or the server dies in it: nothing was filed.
Rollback ==
    /\ filing # Idle /\ used.losses < MaxLosses
    /\ used' = [used EXCEPT !.losses = @ + 1]
    /\ tab' = [tab EXCEPT ![filing.page] = Unguarded(@, filing)]
    /\ filing' = Idle
    /\ UNCHANGED <<clock, account, cookie, disk, asked, answered, queued,
                   muddled, carried>>

Tick ==
    /\ clock < MaxClock
    /\ clock' = clock + 1
    /\ UNCHANGED <<account, filing, cookie, disk, tab, asked, answered,
                   queued, muddled, carried, used>>

-----------------------------------------------------------------------------
(* Next.                                                                    *)

\* Nobody sees the inside of a transaction: nothing else moves in one.
Between == filing = Idle

ServerStep ==
    \/ FileNext \/ Commit \/ Rollback
    \/ Between /\ Begin
    \/ Between /\ Refuse
    \/ Between /\ TellPlace
    \/ Between /\ Erase
    \/ Between /\ Lose
    \/ Between /\ Tick

AccountStep(p) ==
    \/ Between /\ Open(p)
    \/ Between /\ Claim(p)
    \/ Between /\ Purged(p)
    \/ Between /\ SignOut(p)
    \/ Between /\ SealQueue(p)
    \/ Between /\ FoundSignedOut(p)
    \/ \E u \in Users : Between /\ SignIn(p, u)

PageStep(p) ==
    \/ Between /\ Record(p)
    \/ Between /\ Store(p)
    \/ Between /\ Flush(p)
    \/ Between /\ Hide(p)
    \/ Between /\ Show(p)
    \/ Between /\ Die(p)
    \/ Between /\ OpenBook(p)
    \/ Between /\ ResetBook(p)
    \/ Between /\ TakePlace(p)
    \/ Between /\ TakeAck(p)
    \/ Between /\ TakeErased(p)
    \/ Between /\ TakeRefusal(p)

Next ==
    \/ ServerStep
    \/ \E p \in Pages : AccountStep(p) \/ PageStep(p)
    \/ \E b \in Browsers : Between /\ SessionEnds(b)

Spec == Init /\ [][Next]_vars

-----------------------------------------------------------------------------
(* What must hold.                                                          *)

\* An account is only given places of books that were opened for it, whoever
\* signs in after whom on a shared browser and whatever is still being stored
\* or under way then.  resumeStoredProgressSession promises it: the worst case
\* is "not that one person's reading is recorded against another's".
ReadingIsOwn ==
    \A u \in Users :
        /\ \A e \in account[u].history : e.by = u
        /\ account[u].row # NoRow => account[u].row.event.by = u

\* That much holds as long as no page takes an open book along when it finds
\* another account signed in (claimProgressQueue, applyProgressEvents).
RowsAreOwn == ~carried => ReadingIsOwn

\* After a reset, nothing made before it comes back, however late it arrives
\* and however often it is sent again: only a page that has learned of the
\* reset writes under the new generation (resetProgress, the barrier in
\* applyProgressEvents, activeGenerations).
ErasedStaysErased ==
    ~muddled =>
        \A u \in Users :
            /\ \A e \in account[u].history : e.seq > account[u].erased[e.page]
            /\ account[u].row # NoRow =>
                  LET e == account[u].row.event
                  IN e.seq > account[u].erased[e.page]

\* Until the queue changes hands over unfinished business, a checkpoint that
\* was accepted into its owner's queue waits there, or the server has it, or
\* it belongs to what the reader erased (flushPending, handleAck).
QueuedIsKept ==
    ~muddled =>
        \A e \in queued : e.explicit =>
            \/ e \in disk[Home[e.page]].pending
            \/ e \in account[e.owner].history
            \/ e.gen < account[e.owner].gen

\* No checkpoint claims to have seen a revision of its generation that the
\* account never had: that would let it win over moves it knows nothing of
\* (knownRevision and activeGenerations of the engine).
CausalityIsReal ==
    ~muddled =>
        \A b \in Browsers : \A e \in disk[b].pending :
            e.owner = disk[b].owner /\ e.gen = account[e.owner].gen =>
                e.base <= Revision(account[e.owner].row)

\* The checkpoints of one session are filed in the order they were made: a
\* later place is not replaced by an earlier one (the contract's ordering by
\* device, session and seq), whichever of its requests is filed first.  With a
\* clock that moves while a request is under way this fails (README).
SessionsMoveForward ==
    [][\A u \in Users :
          LET was == account[u].row
              is == account'[u].row
          IN (/\ was # NoRow /\ is # NoRow
              /\ was.event.page = is.event.page)
             => was.event.seq <= is.event.seq]_vars
=============================================================================
