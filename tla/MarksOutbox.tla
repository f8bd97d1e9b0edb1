----------------------------- MODULE MarksOutbox -----------------------------
(***************************************************************************)
(* Marks (highlights, notes, bookmarks) of one book on their way from the   *)
(* tabs of one browser to the server (web/src/marks/outbox.ts,              *)
(* web/src/state/session.tsx, server/src/api/routes/annotations.ts).        *)
(*                                                                          *)
(* The tabs share the cookie, the owner of the queue (localStorage) and the *)
(* queue itself (IndexedDB); a change the storage refuses waits in the      *)
(* memory of its page.  One tab at a time sends the changes of its account, *)
(* oldest first, and takes each out of the queue once it is answered for.   *)
(* Requests and answers get lost, pages are closed at any step, accounts    *)
(* come and go, and the same marks are edited on other devices.             *)
(*                                                                          *)
(* A change is known by the number it was made as.  A mark is named         *)
(* <<m, 0>> by the device, and <<m, k>> by a server that found the name     *)
(* taken.                                                                   *)
(***************************************************************************)
EXTENDS Integers, FiniteSets, SequencesExt

CONSTANTS
    Users, Tabs,
    Marks,          \* the names a device may draw for a new mark
    HasLocks,       \* navigator.locks is there
    NoOne, NoTab,
    MaxChanges,     \* bound on the changes made
    MaxSignIns,     \* bound on the sign-ins
    MaxLoads,       \* bound on the lists loaded
    MaxEvents       \* bound on the rest together: sign-outs, expired
                    \* sessions, requests and answers lost, pages closed,
                    \* changes the storage refuses, edits made on other
                    \* devices

ASSUME NobodyAssumption == NoOne \notin Users \cup (Marks \X Nat) /\ NoTab \notin Tabs
ASSUME LocksAssumption == HasLocks \in BOOLEAN
ASSUME BoundsAssumption ==
    {MaxChanges, MaxSignIns, MaxLoads, MaxEvents} \subseteq Nat

VARIABLES
    cookie,     \* whose session the browser's cookie is
    owner,      \* whose the queue is, in localStorage
    queue,      \* the changes in IndexedDB
    tab,        \* what each page holds
    lock,       \* the tab that delivers
    server,     \* the annotations table
    clash,      \* names for a new mark that someone else's mark has already
    made,       \* history: every change made
    taken,      \* history: the changes the server has acted on
    dropped,    \* history: the changes given up
    adrift,     \* history: marks whose changes did not all keep to the queue
    stale,      \* history: changes recorded under a name no mark of the account
                \* has, or will have once what is on its way arrives
    used        \* what the bounds have been spent on

vars == <<cookie, owner, queue, tab, lock, server, clash, made, taken, dropped,
          adrift, stale, used>>

Names == Marks \X Nat
Change == [id : Nat \ {0}, owner : Users, kind : {"create", "patch", "delete"},
           name : Names, order : Nat \ {0}]
\* look is the change that gave the mark its colour and note, 0 for one made
\* on another device; origin is the change that made it.
Mark == [name : Names, owner : Users, look : Nat, origin : Nat, gone : BOOLEAN]
Nothing == [id |-> 0]
NoLoad == [phase |-> "none"]
Load == [phase : {"before", "served"}, start : Nat, user : Users,
         own : BOOLEAN, queue : SUBSET Change, served : SUBSET Mark]
Tab == [life : {"new", "signed", "open", "offline", "gone"}, session : Users \cup {NoOne},
        next : Users \cup {NoOne}, step : {"none", "claiming", "leaving"},
        memory : SUBSET Change, last : Nat,
        phase : {"idle", "looking", "picked", "answered", "renaming"},
        for : Users \cup {NoOne}, change : Change \cup {Nothing},
        answer : {"none", "taken", "refused", "denied"}, name : Names \cup {NoOne},
        load : Load \cup {NoLoad}, list : SUBSET Names]
Used == [signIns : Nat, loads : Nat, events : Nat]

\* Whatever is queued, stored or held by a page has its type.
TypeOK ==
    /\ cookie \in Users \cup {NoOne} /\ owner \in Users \cup {NoOne}
    /\ queue \subseteq Change /\ tab \in [Tabs -> Tab]
    /\ lock \in Tabs \cup {NoTab} /\ server \subseteq Mark /\ clash \subseteq Marks
    /\ made \subseteq Change /\ taken \subseteq Nat /\ dropped \subseteq Nat
    /\ adrift \subseteq Marks /\ stale \subseteq Nat /\ used \in Used

FreshTab ==
    [life |-> "new", session |-> NoOne, next |-> NoOne, step |-> "none",
     memory |-> {}, last |-> 0, phase |-> "idle", for |-> NoOne,
     change |-> Nothing, answer |-> "none", name |-> NoOne, load |-> NoLoad,
     list |-> {}]

\* A mark somebody has from before.
MadeEarlier ==
    {[name |-> <<m, 0>>, owner |-> u, look |-> 0, origin |-> 0, gone |-> FALSE] :
        m \in Marks, u \in Users}

Init ==
    /\ cookie = NoOne /\ owner = NoOne /\ queue = {} /\ lock = NoTab
    /\ tab = [t \in Tabs |-> FreshTab]
    /\ server \in {{}} \cup {{s} : s \in MadeEarlier}
    /\ clash \in SUBSET {m \in Marks : \A s \in server : s.name[1] # m}
    /\ made = {} /\ taken = {} /\ dropped = {} /\ adrift = {}
    /\ stale = {} /\ used = [signIns |-> 0, loads |-> 0, events |-> 0]

Ids(changes) == {c.id : c \in changes}
Greatest(numbers) == CHOOSE n \in numbers : \A k \in numbers : k <= n
Open(t) == tab[t].life \in {"signed", "open", "offline"}

\* queueAccount
Account(t) ==
    IF owner \in {NoOne, tab[t].session} THEN tab[t].session ELSE NoOne

\* readQueue: what IndexedDB and this page's memory hold, for one account.
Pending(t, u) == {c \in queue \cup tab[t].memory : c.owner = u}

\* Seeded fault: the newest first.
BeforeReversed(c, d) == c.order > d.order \/ (c.order = d.order /\ c.id > d.id)

\* byOrder
Before(c, d) == c.order < d.order \/ (c.order = d.order /\ c.id < d.id)

Spend(what) == used' = [used EXCEPT ![what] = @ + 1]
Event == used.events < MaxEvents /\ Spend("events")

\* The login screen takes the place of whatever page was open.
Cleared(r) == [r EXCEPT !.session = NoOne, !.life = "open", !.list = {}, !.load = NoLoad]

-----------------------------------------------------------------------------
(* The session of a page (state/session.tsx, claim and purge).              *)

\* SessionProvider.refresh, up to the answer of /api/auth/me: when the page is
\* loaded, after a sign-in, and when the network is back.  (The claim of a page
\* that learns nothing new is left out.)
Refresh(t) ==
    /\ tab[t].life \in {"new", "signed", "offline"} /\ tab[t].step = "none"
    /\ tab' = [tab EXCEPT ![t] =
                  IF cookie = NoOne THEN Cleared(@)
                  ELSE IF cookie = Account(t)
                  THEN [@ EXCEPT !.life = "open", !.session = cookie]
                  ELSE [@ EXCEPT !.life = "open", !.next = cookie, !.step = "claiming"]]
    /\ UNCHANGED <<cookie, owner, queue, lock, server, clash, made, taken, dropped, adrift, stale, used>>

\* No network for it: resumeStoredProgressSession.
StartOffline(t) ==
    /\ tab[t].life \in {"new", "signed"} /\ tab[t].step = "none" /\ Event
    /\ tab' = [tab EXCEPT ![t].life = "offline",
                          ![t].session = IF owner = NoOne THEN @ ELSE owner]
    /\ UNCHANGED <<cookie, owner, queue, lock, server, clash, made, taken, dropped, adrift, stale>>

\* The login form: the server sets the cookie, the answer is on its way.
SignIn(t, u) ==
    /\ tab[t].life = "open" /\ tab[t].session = NoOne /\ tab[t].step = "none"
    /\ used.signIns < MaxSignIns
    /\ cookie' = u
    /\ tab' = [tab EXCEPT ![t].life = "signed", ![t].next = u, ![t].step = "claiming"]
    /\ Spend("signIns")
    /\ UNCHANGED <<owner, queue, lock, server, clash, made, taken, dropped, adrift, stale>>

\* claimProgressQueue and claimMarkChanges
Foreign(t) == {c \in queue \cup tab[t].memory : c.owner # tab[t].next}
Claim(t) ==
    /\ Open(t) /\ tab[t].step = "claiming"
    /\ owner' = tab[t].next
    /\ queue' = queue \ Foreign(t)
    /\ tab' = [tab EXCEPT ![t].session = tab[t].next, ![t].next = NoOne,
                          ![t].memory = @ \ Foreign(t), ![t].step = "none"]
    /\ dropped' = dropped \cup Ids(Foreign(t))
    /\ UNCHANGED <<cookie, lock, server, clash, made, taken, adrift, stale, used>>

\* logout: the request, answered or not.
SignOut(t) ==
    /\ Open(t) /\ tab[t].session # NoOne /\ tab[t].step = "none"
    /\ Event
    /\ cookie' \in {NoOne, cookie}
    /\ tab' = [tab EXCEPT ![t].step = "leaving"]
    /\ UNCHANGED <<owner, queue, lock, server, clash, made, taken, dropped, adrift, stale>>

\* purgeProgressQueue and purgeMarkChanges
Purge(t) ==
    /\ Open(t) /\ tab[t].step = "leaving"
    /\ owner' = NoOne /\ queue' = {}
    /\ tab' = [tab EXCEPT ![t] = [Cleared(@) EXCEPT !.memory = {}, !.step = "none"]]
    /\ dropped' = dropped \cup Ids(queue \cup tab[t].memory)
    /\ UNCHANGED <<cookie, lock, server, clash, made, taken, adrift, stale, used>>

\* The session expires, or is revoked from another device.
Expire ==
    /\ cookie # NoOne /\ Event
    /\ cookie' = NoOne
    /\ UNCHANGED <<owner, queue, tab, lock, server, clash, made, taken, dropped, adrift, stale>>

-----------------------------------------------------------------------------
(* Making a change.                                                         *)

New(t, u, kind, name, order) ==
    [id |-> Cardinality(made) + 1, owner |-> u, kind |-> kind, name |-> name,
     order |-> order]

\* append and keepInMemory: the order a change gets in either tier.
NextStored(t) == Greatest({c.order : c \in queue} \cup {tab[t].last}) + 1
NextKept(t) == tab[t].last + 1

Drawn == {c.name[1] : c \in made} \cup {s.name[1] : s \in server}
Unused == {<<m, 0>> : m \in Marks \ Drawn}

\* The names of an account's marks: at the server, to be made there by what
\* is queued, or given by the device and about to be replaced everywhere.
Known(u) ==
    {s.name : s \in {m \in server : m.owner = u}}
        \cup {c.name : c \in {d \in queue : d.owner = u /\ d.kind = "create"}}
        \cup {tab[x].change.name :
                x \in {y \in Tabs : tab[y].name # NoOne /\ tab[y].change.owner = u}}

\* What a page shows once a change is recorded.
Edited(t, kind, name) ==
    CASE kind = "create" -> tab[t].list \cup {name}
      [] kind = "patch" -> tab[t].list
      [] kind = "delete" -> tab[t].list \ {name}

\* recordMarkChange, from the reader or the player: it changes what its own
\* list shows, under the names it shows.
Record(t, kind, name) ==
    LET u == Account(t) IN
    /\ Open(t) /\ u # NoOne /\ Cardinality(made) < MaxChanges
    /\ name \in IF kind = "create" THEN Unused ELSE tab[t].list
    /\ \/ LET c == New(t, u, kind, name, NextStored(t)) IN
          /\ queue' = queue \cup {c} /\ made' = made \cup {c}
          /\ tab' = [tab EXCEPT ![t].last = c.order, ![t].list = Edited(t, kind, name)]
          /\ UNCHANGED <<adrift, used>>
       \/ LET c == New(t, u, kind, name, NextKept(t)) IN
          /\ Event
          /\ made' = made \cup {c} /\ adrift' = adrift \cup {name[1]}
          /\ tab' = [tab EXCEPT ![t].last = c.order, ![t].memory = @ \cup {c},
                                ![t].list = Edited(t, kind, name)]
          /\ UNCHANGED queue
    /\ stale' = IF kind # "create" /\ name \notin Known(u)
                THEN stale \cup {Cardinality(made) + 1} ELSE stale
    /\ UNCHANGED <<cookie, owner, lock, server, clash, taken, dropped>>

-----------------------------------------------------------------------------
(* The server: what a request does, and what it answers.                    *)

Own(n, u) == {s \in server : s.name = n /\ s.owner = u}
NameTaken(n) == (n[2] = 0 /\ n[1] \in clash) \/ \E s \in server : s.name = n

\* newId
FreshName(n) ==
    <<n[1], Greatest({s.name[2] : s \in {m \in server : m.name[1] = n[1]}} \cup {0}) + 1>>

\* POST /api/books/:id/annotations
\* Seeded fault: a name that is taken gets a fresh one, whoever took it.
CreateAgain(c) ==
    LET n == IF NameTaken(c.name) THEN FreshName(c.name) ELSE c.name IN
    [server |-> server \cup
         {[name |-> n, owner |-> cookie, look |-> c.id, origin |-> c.id, gone |-> FALSE]},
     answer |-> "taken", name |-> IF n = c.name THEN NoOne ELSE n]
Create(c) ==
    LET n == IF NameTaken(c.name) THEN FreshName(c.name) ELSE c.name IN
    IF Own(c.name, cookie) # {}
    THEN [server |-> server, answer |-> "taken", name |-> NoOne]
    ELSE [server |-> server \cup
              {[name |-> n, owner |-> cookie, look |-> c.id, origin |-> c.id,
                gone |-> FALSE]},
          answer |-> "taken", name |-> IF n = c.name THEN NoOne ELSE n]

Changed(s, t) == (server \ {s}) \cup {t}

\* PATCH /api/annotations/:annId
Patch(c) ==
    LET own == {s \in Own(c.name, cookie) : ~s.gone} IN
    IF own = {} THEN [server |-> server, answer |-> "refused", name |-> NoOne]
    ELSE LET s == CHOOSE s \in own : TRUE IN
         [server |-> Changed(s, [s EXCEPT !.look = c.id]), answer |-> "taken",
          name |-> NoOne]

\* DELETE /api/annotations/:annId
Delete(c) ==
    LET own == Own(c.name, cookie) IN
    IF own = {} THEN [server |-> server, answer |-> "refused", name |-> NoOne]
    ELSE LET s == CHOOSE s \in own : TRUE IN
         [server |-> Changed(s, [s EXCEPT !.gone = TRUE]), answer |-> "taken",
          name |-> NoOne]

Handle(c) ==
    CASE cookie = NoOne -> [server |-> server, answer |-> "denied", name |-> NoOne]
      [] cookie # NoOne /\ c.kind = "create" -> Create(c)
      [] cookie # NoOne /\ c.kind = "patch" -> Patch(c)
      [] cookie # NoOne /\ c.kind = "delete" -> Delete(c)

\* The same account at work on another device.
EditElsewhere(s) ==
    /\ ~s.gone /\ Event
    /\ \E t \in {[s EXCEPT !.look = 0], [s EXCEPT !.gone = TRUE]} :
          server' = Changed(s, t)
    /\ UNCHANGED <<cookie, owner, queue, tab, lock, clash, made, taken, dropped, adrift, stale>>

-----------------------------------------------------------------------------
(* Delivery.                                                                *)

\* Seeded fault: the lock outlives the delivery.
ReleaseNever(t) == lock' = lock
Release(t) == lock' = IF lock = t THEN NoTab ELSE lock
Stopped(r) == [r EXCEPT !.phase = "idle", !.for = NoOne, !.change = Nothing,
                        !.answer = "none", !.name = NoOne]

\* Seeded fault: no lock is taken.
DeliverUnlocked(t) ==
    /\ Open(t) /\ tab[t].phase = "idle"
    /\ Account(t) # NoOne /\ Pending(t, Account(t)) # {}
    /\ tab' = [tab EXCEPT ![t].phase = "looking", ![t].for = Account(t)]
    /\ UNCHANGED <<cookie, owner, queue, lock, server, clash, made, taken, dropped, adrift, stale, used>>

\* deliverMarkChanges and oneAtATime, when there is something to deliver.
Deliver(t) ==
    /\ Open(t) /\ tab[t].phase = "idle"
    /\ Account(t) # NoOne /\ Pending(t, Account(t)) # {}
    /\ HasLocks => lock = NoTab
    /\ lock' = IF HasLocks THEN t ELSE lock
    /\ tab' = [tab EXCEPT ![t].phase = "looking", ![t].for = Account(t)]
    /\ UNCHANGED <<cookie, owner, queue, server, clash, made, taken, dropped, adrift, stale, used>>

\* One turn of deliverQueued, up to the request.
Pick(t) ==
    /\ Open(t) /\ tab[t].phase = "looking"
    /\ Account(t) = tab[t].for /\ Pending(t, tab[t].for) # {}
    /\ \E c \in Pending(t, tab[t].for) :
          /\ \A d \in Pending(t, tab[t].for) : d # c => Before(c, d)
          /\ tab' = [tab EXCEPT
                ![t].phase = "picked", ![t].change = c,
                ![t].last = Greatest({d.order : d \in queue} \cup {@})]
    /\ UNCHANGED <<cookie, owner, queue, lock, server, clash, made, taken, dropped, adrift, stale, used>>

\* Nothing left, or the account changed: the delivery ends.
Finish(t) ==
    /\ Open(t) /\ tab[t].phase = "looking"
    /\ Account(t) # tab[t].for \/ Pending(t, tab[t].for) = {}
    /\ tab' = [tab EXCEPT ![t] = Stopped(@)]
    /\ Release(t)
    /\ UNCHANGED <<cookie, owner, queue, server, clash, made, taken, dropped, adrift, stale, used>>

\* send, answered by whoever's cookie the browser has by then.
Send(t) ==
    LET c == tab[t].change
        h == Handle(c)
    IN
    /\ Open(t) /\ tab[t].phase = "picked"
    /\ server' = h.server
    /\ tab' = [tab EXCEPT ![t].phase = "answered", ![t].answer = h.answer,
                          ![t].name = h.name]
    /\ taken' = IF h.answer = "taken" THEN taken \cup {c.id} ELSE taken
    /\ adrift' = IF cookie \in {NoOne, c.owner} THEN adrift
                 ELSE adrift \cup {c.name[1]}
    /\ UNCHANGED <<cookie, owner, queue, lock, clash, made, dropped, stale, used>>

\* Seeded fault: what was sent leaves the queue, answered or not.
FailForgets(t) ==
    /\ Open(t) /\ tab[t].phase \in {"picked", "answered"} /\ Event
    /\ queue' = queue \ {tab[t].change}
    /\ tab' = [tab EXCEPT ![t] = Stopped(@)]
    /\ Release(t)
    /\ UNCHANGED <<cookie, owner, server, clash, made, taken, dropped, adrift, stale>>

\* No connection, a stalled one, or a bad answer: the change is kept.
Fail(t) ==
    /\ Open(t) /\ tab[t].phase \in {"picked", "answered"}
    /\ Event
    /\ tab' = [tab EXCEPT ![t] = Stopped(@)]
    /\ Release(t)
    /\ adrift' = IF tab[t].name = NoOne THEN adrift
                 ELSE adrift \cup {tab[t].change.name[1]}
    /\ UNCHANGED <<cookie, owner, queue, server, clash, made, taken, dropped, stale>>

\* The answer 401: the page drops to the login screen, the queue is kept.
Denied(t) ==
    /\ Open(t) /\ tab[t].phase = "answered" /\ tab[t].answer = "denied"
    /\ tab' = [tab EXCEPT ![t] = Cleared(Stopped(@))]
    /\ Release(t)
    /\ UNCHANGED <<cookie, owner, queue, server, clash, made, taken, dropped, adrift, stale, used>>

\* deliverOne, once answered: the change leaves the queue.
Settle(t) ==
    LET c == tab[t].change IN
    /\ Open(t) /\ tab[t].phase = "answered" /\ tab[t].answer \in {"taken", "refused"}
    /\ queue' = {d \in queue : d.id # c.id}
    /\ tab' = [tab EXCEPT
          ![t].memory = {d \in @ : d.id # c.id},
          ![t].phase = IF tab[t].name = NoOne THEN "looking" ELSE "renaming"]
    /\ dropped' = IF tab[t].answer = "refused" THEN dropped \cup {c.id} ELSE dropped
    /\ UNCHANGED <<cookie, owner, lock, server, clash, made, taken, adrift, stale, used>>

\* renameQueued: what is queued for the mark follows it to its name, and so
\* does the reader or player open in this tab (renameListeners).  No page of
\* another tab is told.  (A change this tab records in the moment between the
\* two goes the way of one recorded in another tab.)
Rename(t) ==
    LET from == tab[t].change.name
        Renamed(c) == IF c.name = from THEN [c EXCEPT !.name = tab[t].name] ELSE c
    IN
    /\ Open(t) /\ tab[t].phase = "renaming"
    /\ queue' = {Renamed(c) : c \in queue}
    /\ tab' = [tab EXCEPT ![t].memory = {Renamed(c) : c \in @},
                          ![t].list = {IF n = from THEN tab[t].name ELSE n : n \in @},
                          ![t].phase = "looking", ![t].name = NoOne]
    /\ UNCHANGED <<cookie, owner, lock, server, clash, made, taken, dropped, adrift, stale, used>>

\* The page is closed, or killed, with what it held in memory.
Close(t) ==
    /\ Open(t) /\ Event
    /\ tab' = [tab EXCEPT ![t] = [FreshTab EXCEPT !.life = "gone"]]
    /\ Release(t)
    /\ dropped' = dropped \cup Ids(tab[t].memory)
    /\ adrift' = IF tab[t].name = NoOne THEN adrift
                 ELSE adrift \cup {tab[t].change.name[1]}
    /\ UNCHANGED <<cookie, owner, queue, server, clash, made, taken, stale>>

-----------------------------------------------------------------------------
(* loadBookMarks: the queue, the served list, the queue again.              *)

\* The reader or the player is opened, in place of the page before it.
StartLoad(t) ==
    LET u == Account(t) IN
    /\ Open(t) /\ u # NoOne /\ tab[t].load = NoLoad
    /\ used.loads < MaxLoads /\ Spend("loads")
    /\ tab' = [tab EXCEPT ![t].list = {}, ![t].load =
          [phase |-> "before", start |-> Cardinality(made), user |-> u, own |-> TRUE,
           queue |-> Pending(t, u), served |-> {}]]
    /\ UNCHANGED <<cookie, owner, queue, lock, server, clash, made, taken, dropped, adrift, stale>>

\* GET /api/books/:id/annotations
Serve(t) ==
    /\ Open(t) /\ tab[t].load # NoLoad /\ tab[t].load.phase = "before"
    /\ tab' = IF cookie = NoOne THEN [tab EXCEPT ![t] = Cleared(@)]
              ELSE [tab EXCEPT ![t].load.phase = "served",
                        ![t].load.own = cookie = tab[t].load.user,
                        ![t].load.served =
                            {s \in server : s.owner = cookie /\ ~s.gone}]
    /\ UNCHANGED <<cookie, owner, queue, lock, server, clash, made, taken, dropped, adrift, stale, used>>

\* No connection for it, and no copy kept: only the marks made here.
ServeNothing(t) ==
    /\ Open(t) /\ tab[t].load # NoLoad /\ tab[t].load.phase = "before" /\ Event
    /\ tab' = [tab EXCEPT ![t].load.phase = "served", ![t].load.own = FALSE]
    /\ UNCHANGED <<cookie, owner, queue, lock, server, clash, made, taken, dropped, adrift, stale>>

\* withPendingChanges: the changes on their way over the served list.
Over(marks, c) ==
    CASE c.kind = "create" ->
            IF \E s \in marks : s.name = c.name THEN marks
            ELSE marks \cup {[name |-> c.name, look |-> c.id]}
      [] c.kind = "patch" ->
            {IF s.name = c.name THEN [s EXCEPT !.look = c.id] ELSE s : s \in marks}
      [] c.kind = "delete" -> {s \in marks : s.name # c.name}
\* Seeded fault: the queue is read once, after the list was served.
LoadedOnce(t) ==
    FoldLeft(Over, {[name |-> s.name, look |-> s.look] : s \in tab[t].load.served},
             SetToSortSeq(Pending(t, Account(t)), Before))

\* The list a page makes of them.
Loaded(t) ==
    LET l == tab[t].load
        after == Pending(t, Account(t))
        late == {c \in after : c.id \notin Ids(l.queue)}
    IN
    FoldLeft(Over, {[name |-> s.name, look |-> s.look] : s \in l.served},
             SetToSortSeq(l.queue \cup late, Before))

\* The names in it.
Listed(t) ==
    LET names == {s.name : s \in tab[t].load.served}
                    \cup {c.name : c \in tab[t].load.queue \cup Pending(t, Account(t))}
    IN {n \in names : \E s \in Loaded(t) : s.name = n}

FinishLoad(t) ==
    /\ Open(t) /\ tab[t].load # NoLoad /\ tab[t].load.phase = "served"
    /\ tab' = [tab EXCEPT ![t].load = NoLoad, ![t].list = Listed(t)]
    /\ UNCHANGED <<cookie, owner, queue, lock, server, clash, made, taken, dropped, adrift, stale, used>>

-----------------------------------------------------------------------------
Next ==
    \/ \E t \in Tabs :
          \/ Refresh(t) \/ StartOffline(t) \/ Claim(t) \/ SignOut(t) \/ Purge(t)
          \/ \E u \in Users : SignIn(t, u)
          \/ \E kind \in {"create", "patch", "delete"} :
                \E name \in Unused \cup tab[t].list :
                   Record(t, kind, name)
          \/ Deliver(t) \/ Pick(t) \/ Finish(t) \/ Send(t) \/ Fail(t)
          \/ Denied(t) \/ Settle(t) \/ Rename(t) \/ Close(t)
          \/ StartLoad(t) \/ Serve(t) \/ ServeNothing(t) \/ FinishLoad(t)
    \/ Expire
    \/ \E s \in server : EditElsewhere(s)

\* Timers fire, the network answers in the end, and pages run.
Fairness ==
    \A t \in Tabs :
        /\ WF_vars(tab[t].life = "signed" /\ Refresh(t))
        /\ WF_vars(Claim(t)) /\ WF_vars(Purge(t))
        /\ WF_vars(Deliver(t))
        /\ WF_vars(Pick(t) \/ Finish(t) \/ Send(t) \/ Denied(t) \/ Settle(t) \/ Rename(t))

Spec == Init /\ [][Next]_vars /\ Fairness

-----------------------------------------------------------------------------
(* Properties.                                                              *)

Kept == queue \cup UNION {tab[t].memory : t \in Tabs}

\* Every change recorded (recordMarkChange answered true) is kept on the
\* device until the server has acted on it or it was given up on purpose:
\* refused, of an account that left or another one replaced, or in the memory
\* of a page that is gone.
NothingIsLost == Ids(made) \subseteq Ids(Kept) \cup taken \cup dropped

\* A change recorded under the name its mark has - at the server, or once what
\* is on its way there has arrived - is refused only because the mark was
\* removed: never because an earlier change of the mark has not arrived yet, or
\* because the server gave the mark another name meanwhile.  (A page that has
\* not heard of a new name records under the old one, which is refused although
\* the mark is there: those changes are stale.)
RefusedIsGone ==
    \A t \in Tabs :
        LET n == tab[t].change.name IN
        tab[t].phase = "answered" /\ tab[t].answer = "refused"
        /\ n[1] \notin adrift /\ tab[t].change.id \notin stale
            => \E s \in server : s.name = n /\ s.gone

\* A mark made on this device becomes one mark, however often it is sent, and
\* is not made again once it was removed.
MadeOnce ==
    \A s \in server, z \in server :
        s.origin = z.origin /\ s.origin # 0 /\ s.name[1] \notin adrift => s = z

\* The changes of a mark reach the server in the order they were made: a
\* delivery never puts the look of an older change in place of a newer one.
NeverBackward ==
    [][\A s \in server, z \in server' :
          s.name = z.name /\ s.name[1] \notin adrift' /\ z.look # 0
              => z.look >= s.look]_vars

Removed(m) ==
    \/ \E s \in server : s.name[1] = m /\ s.gone
    \/ \E d \in made : d.name[1] = m /\ d.kind = "delete"

SameOrNewer(s, c) == s.name[1] = c.name[1] /\ (s.look = 0 \/ s.look >= c.id)

\* The list a page loads is no older than the changes made before it began:
\* none is missing because it was delivered while the list was on its way.
\* (A mark being renamed is shown without what is queued for it until
\* renameQueued has run.)
ViewIsWhole ==
    \A t \in Tabs :
        LET l == tab[t].load IN
        l # NoLoad /\ l.phase = "served" /\ l.own /\ Account(t) = l.user =>
            \A c \in made :
                c.id <= l.start /\ c.owner = l.user /\ c.id \notin dropped \cup stale
                /\ c.name[1] \notin adrift \cup clash =>
                    IF c.kind = "delete" THEN \A s \in Loaded(t) : s.name # c.name
                    ELSE Removed(c.name[1]) \/ \E s \in Loaded(t) : SameOrNewer(s, c)

\* While somebody stays signed in where a page is open, what they have queued
\* is delivered.
QueueDrains ==
    \A u \in Users :
        <>[](cookie = u /\ owner = u
             /\ \E t \in Tabs : /\ tab[t].life \in {"signed", "open"} /\ tab[t].step = "none"
                               /\ Account(t) = u)
            => <>[](\A c \in queue : c.owner # u)
=============================================================================
