---------------------------- MODULE Progress_proofs ----------------------------
(***************************************************************************)
(* Proofs about the reading place, for any number of people, browsers,     *)
(* pages, clocks, losses, resets and sign-outs.  That a reset is final, a  *)
(* revision was seen and sessions are in order is proved for browsers of   *)
(* which each is only ever used by one person; whose reading is filed, and *)
(* that a queued checkpoint is kept, whoever shares them.                  *)
(***************************************************************************)
EXTENDS Progress, TLAPS

-----------------------------------------------------------------------------
(* What the operators return.                                               *)

LEMMA DrainedDisk ==
    ASSUME NEW d \in Disk
    PROVE  /\ Drained(d) \in Disk
           /\ Drained(d).pending \subseteq d.pending \cup d.stash
           /\ Drained(d).stash = {} /\ Drained(d).gen = d.gen
           /\ Drained(d).cached = d.cached /\ Drained(d).owner = d.owner
  BY DEF Disk, Drained, Accepted

LEMMA ForgottenDisk ==
    ASSUME NEW d \in Disk
    PROVE  /\ Forgotten(d) \in Disk
           /\ Forgotten(d).pending = d.pending /\ Forgotten(d).stash = d.stash
           /\ Forgotten(d).gen = d.gen /\ Forgotten(d).cached = NoRow
           /\ Forgotten(d).owner = d.owner
  BY DEF Disk, Forgotten

LEMMA SealedDiskDisk ==
    ASSUME NEW d \in Disk
    PROVE  /\ SealedDisk(d) \in Disk
           /\ SealedDisk(d).pending = d.pending /\ SealedDisk(d).stash = {}
           /\ SealedDisk(d).gen = d.gen /\ SealedDisk(d).cached = d.cached
           /\ SealedDisk(d).owner = NoOne
  BY DEF Disk, SealedDisk

LEMMA NewerRow ==
    ASSUME NEW kept \in Row \cup {NoRow}, NEW row \in Row \cup {NoRow}
    PROVE  Newer(kept, row) \in {kept, row}
  BY DEF Newer

LEMMA MergedDisk ==
    ASSUME NEW d \in Disk, NEW gen \in Nat, NEW row \in Row \cup {NoRow}
    PROVE  /\ Merged(d, gen, row) \in Disk
           /\ Merged(d, gen, row).pending \subseteq d.pending
           /\ Merged(d, gen, row).stash = d.stash
           /\ Merged(d, gen, row).owner = d.owner
           /\ \/ Merged(d, gen, row) = d
              \/ /\ Merged(d, gen, row).gen = gen
                 /\ \/ Merged(d, gen, row).cached \in {row, NoRow}
                    \/ gen = d.gen /\ Merged(d, gen, row).cached = d.cached
<1> DEFINE kept == IF gen > d.gen THEN NoRow ELSE d.cached
           news == Newer(kept, row)
           left == {e \in d.pending : e.gen >= gen}
           m == [d EXCEPT !.gen = gen, !.cached = news, !.pending = left]
<1>1. kept \in Row \cup {NoRow} /\ d.gen \in Nat /\ d.cached \in Row \cup {NoRow}
  BY DEF Disk
<1>2. news \in {kept, row}
  BY <1>1, NewerRow
<1>3. news \in Row \cup {NoRow}
  BY <1>1, <1>2
<1>4. news \in {row, NoRow} \/ (gen = d.gen /\ news = d.cached) \/ gen < d.gen
  BY <1>1, <1>2
<1>5. Merged(d, gen, row) = IF gen < d.gen THEN d ELSE m
  BY DEF Merged
<1>6. left \subseteq d.pending
  OBVIOUS
<1> HIDE DEF news, left
<1>7. /\ m \in Disk /\ m.gen = gen /\ m.cached = news /\ m.pending = left
      /\ m.stash = d.stash /\ m.owner = d.owner
  BY <1>3, <1>6 DEF Disk
<1> QED
  BY <1>4, <1>5, <1>6, <1>7

LEMMA SealedTab ==
    ASSUME NEW t \in Tab
    PROVE  /\ Sealed(t) \in Tab
           /\ Sealed(t).seq = t.seq /\ Sealed(t).writing = t.writing
           /\ Sealed(t).known = 0 /\ Sealed(t).active = 0 /\ Sealed(t).next = t.next
  BY DEF Tab, Sealed

LEMMA ReleasedTab ==
    ASSUME NEW t \in Tab
    PROVE  /\ Released(t) \in Tab
           /\ Released(t).seq = t.seq /\ Released(t).writing = t.writing
           /\ Released(t).known = t.known /\ Released(t).active = t.active
           /\ Released(t).next = t.next /\ Released(t).session = NoOne
  BY DEF Tab, Released

LEMMA UnguardedTab ==
    ASSUME NEW t \in Tab, NEW m, m.guard \in BOOLEAN
    PROVE  /\ Unguarded(t, m) \in Tab
           /\ Unguarded(t, m).seq = t.seq /\ Unguarded(t, m).writing = t.writing
           /\ Unguarded(t, m).known = t.known /\ Unguarded(t, m).active = t.active
           /\ Unguarded(t, m).next = t.next /\ Unguarded(t, m).life = t.life
  BY DEF Tab, Unguarded

LEMMA LearnedTab ==
    ASSUME NEW t \in Tab, NEW m \in Answer
    PROVE  /\ Learned(t, m) \in Tab
           /\ Learned(t, m).seq = t.seq /\ Learned(t, m).writing = t.writing
           /\ Learned(t, m).active = t.active /\ Learned(t, m).next = t.next
           /\ \/ Learned(t, m).known = t.known
              \/ t.active = m.gen /\ Learned(t, m).known = Revision(m.row)
<1>1. CASE m.row = NoRow \/ t.active # m.gen
  BY <1>1 DEF Learned
<1>2. CASE ~(m.row = NoRow \/ t.active # m.gen)
  <2>1. m.row \in Row /\ m.row.revision \in Nat
    BY <1>2 DEF Answer, Row
  <2>2. Revision(m.row) = m.row.revision
    BY <1>2 DEF Revision
  <2> DEFINE r == [t EXCEPT !.known = m.row.revision]
  <2>3. Learned(t, m) = r
    BY <1>2 DEF Learned
  <2>4. /\ r \in Tab /\ r.seq = t.seq /\ r.writing = t.writing /\ r.active = t.active
        /\ r.next = t.next /\ r.known = m.row.revision
    BY <2>1 DEF Tab
  <2> QED
    BY <1>2, <2>2, <2>3, <2>4
<1> QED
  BY <1>1, <1>2

LEMMA RevisionIsNat ==
    ASSUME NEW row \in Row \cup {NoRow}
    PROVE  Revision(row) \in Nat
  BY DEF Revision, Row

LEMMA AdoptingTab ==
    ASSUME NEW t \in Tab, NEW d \in Disk
    PROVE  /\ Adopting(t, d) \in Tab
           /\ Adopting(t, d).seq = t.seq /\ Adopting(t, d).writing = t.writing
           /\ Adopting(t, d).active = d.gen
           /\ Adopting(t, d).known = Revision(d.cached)
           /\ Adopting(t, d).next = t.next /\ Adopting(t, d).session = t.session
<1>1. Revision(d.cached) \in Nat
  BY RevisionIsNat DEF Disk
<1> QED
  BY <1>1 DEF Tab, Disk, Adopting

LEMMA BuiltEvent ==
    ASSUME TypeOK, NEW p \in Pages, NEW x \in BOOLEAN
    PROVE  /\ tab[p].session \in Users /\ tab[p].reading \in Users => Built(p, x) \in Event
           /\ Built(p, x).page = p /\ Built(p, x).seq = tab[p].seq + 1
           /\ Built(p, x).at = DeviceClock(Home[p])
           /\ Built(p, x).base = tab[p].known /\ Built(p, x).gen = tab[p].active
<1>1. tab[p] \in Tab /\ clock \in Nat /\ Skew[Home[p]] \in Int
  BY HomeAssumption, ClockAssumption DEF TypeOK
<1> QED
  BY <1>1 DEF Built, Event, Tab, DeviceClock

LEMMA DeliveringIsSession ==
    ASSUME TypeOK, NEW p \in Pages, DeliveringFor(p) # NoOne
    PROVE  DeliveringFor(p) = tab[p].session /\ tab[p].session \in Users
<1>1. tab[p] \in Tab
  BY DEF TypeOK
<1> QED
  BY <1>1 DEF DeliveringFor, Tab

LEMMA QueueingTyped ==
    ASSUME queued \subseteq Event, NEW d, NEW S, S \subseteq Event
    PROVE  Queueing(d, S) \subseteq Event
  BY DEF Queueing, Accepted

-----------------------------------------------------------------------------
(* What is proved is proved of browsers that each carry the sessions of one *)
(* person; a person may have many browsers.                                 *)

CONSTANT Person     \* whom each browser belongs to

OwnBrowsers == \A b \in Browsers : cookie[b] \in {NoOne, Person[b]}

Of(p) == Person[Home[p]]

\* The account has, or had before it was erased, a place of this revision.
Real(u, gen, rev) ==
    \/ gen < account[u].gen
    \/ gen = account[u].gen /\ rev <= Revision(account[u].row)

\* An event of the account's generation was made after the last reset.
Fresh(e) ==
    LET a == account[Of(e.page)]
    IN  e.gen = a.gen => e.seq > a.erased[e.page]

\* An event that its own session has overtaken does not know the new place.
Overtaken(e) ==
    LET a == account[Of(e.page)]
    IN  (/\ e.gen = a.gen /\ a.row # NoRow /\ a.row.event.page = e.page
         /\ e.seq < a.row.event.seq)
        => e.base < a.row.revision

\* When the clock stands still, a browser has one time.
Stamped(e) == MaxClock = 0 => e.at = Skew[Home[e.page]]

Good(e) ==
    /\ e.seq <= tab[e.page].seq
    /\ Real(Of(e.page), e.gen, e.base)
    /\ Fresh(e) /\ Overtaken(e) /\ Stamped(e)

\* The time at which the server judges what a browser sends.
Judged(b) == Clamped(Skew[b] + Correction(Skew[b]))
Timed(row) == MaxClock = 0 => row.at = Judged(Home[row.event.page])

TabsTrue ==
    \A p \in Pages :
        /\ \A e \in tab[p].writing : e.page = p /\ Good(e)
        /\ Real(Of(p), tab[p].active, tab[p].known)
        /\ tab[p].next \in {NoOne, Of(p)}
        /\ account[Of(p)].erased[p] <= tab[p].seq

DisksTrue ==
    \A b \in Browsers :
        /\ \A e \in disk[b].pending \cup disk[b].stash : Home[e.page] = b /\ Good(e)
        /\ Real(Person[b], disk[b].gen, Revision(disk[b].cached))
        /\ disk[b].owner \in {NoOne, Person[b]}

AskedTrue ==
    \A m \in asked :
        /\ \A e \in m.events : Home[e.page] = Home[m.page] /\ Good(e)
        /\ MaxClock = 0 => m.sent = Skew[Home[m.page]]

AnswersTrue == \A m \in answered : Real(Of(m.page), m.gen, Revision(m.row))

AccountsTrue ==
    \A u \in Users :
        /\ \A e \in account[u].history :
              Of(e.page) = u /\ e.gen = account[u].gen /\ Good(e)
        /\ account[u].row # NoRow =>
              account[u].row.event \in account[u].history /\ Timed(account[u].row)

\* A batch has moved the place on from where it found it, or left it alone.
MovedOn(d, a) ==
    \/ d.row = a.row
    \/ /\ d.row # NoRow /\ d.row.revision > Revision(a.row)
       /\ Home[d.row.event.page] = Home[filing.page]

NotBack(d, a) ==
    (/\ MaxClock = 0 /\ a.row # NoRow /\ d.row # NoRow
     /\ a.row.event.page = d.row.event.page)
    => a.row.event.seq <= d.row.event.seq

FilingTrue ==
    filing # Idle =>
        LET a == account[filing.user]
            d == filing.draft
        IN  /\ filing.user = Of(filing.page)
            /\ filing.left \subseteq filing.events
            /\ \A e \in filing.events : Home[e.page] = Home[filing.page] /\ Good(e)
            /\ d.gen = a.gen /\ d.erased = a.erased
            /\ \A e \in d.history : e \in a.history \cup filing.events /\ e.gen = a.gen
            /\ d.row # NoRow => d.row.event \in d.history /\ Timed(d.row)
            /\ MaxClock = 0 => filing.shift = Correction(Skew[Home[filing.page]])
            /\ MovedOn(d, a) /\ NotBack(d, a)

Still == MaxClock = 0 => clock = 0

Sound == /\ TabsTrue /\ DisksTrue /\ AskedTrue /\ AnswersTrue /\ AccountsTrue
         /\ FilingTrue /\ Still

-----------------------------------------------------------------------------
(* What a step of a page may do.                                            *)

\* The event this step makes.
New(p, e) ==
    /\ e.page = p /\ e.seq = tab[p].seq + 1 /\ tab'[p].seq = tab[p].seq + 1
    /\ Real(Of(p), e.gen, e.base) /\ e.at = DeviceClock(Home[p])

PageTab(p) ==
    /\ \A q \in Pages \ {p} : tab'[q] = tab[q]
    /\ tab'[p].seq >= tab[p].seq
    /\ Real(Of(p), tab'[p].active, tab'[p].known)
    /\ tab'[p].next \in {NoOne, Of(p)}
    /\ \A e \in tab'[p].writing : e \in tab[p].writing \/ New(p, e)

PageDisk(p) ==
    LET b == Home[p]
    IN  /\ \A c \in Browsers \ {b} : disk'[c] = disk[c]
        /\ \A e \in disk'[b].pending \cup disk'[b].stash :
              \/ e \in disk[b].pending \cup disk[b].stash \cup tab[p].writing
              \/ New(p, e)
        /\ Real(Of(p), disk'[b].gen, Revision(disk'[b].cached))
        /\ disk'[b].owner \in {NoOne, Of(p)}

PageAsks(p) ==
    \A m \in asked' :
        \/ m \in asked
        \/ /\ m.page = p /\ m.sent = DeviceClock(Home[p])
           /\ \A e \in m.events : e \in disk[Home[p]].pending \/ New(p, e)

PageMove(p) ==
    /\ account' = account /\ clock' = clock /\ filing' \in {filing, Idle}
    /\ PageTab(p) /\ PageDisk(p) /\ PageAsks(p) /\ answered' \subseteq answered

LEMMA RealNone ==
    ASSUME TypeOK, NEW u \in Users
    PROVE  Real(u, 0, 0)
<1>1. /\ account[u] \in Account /\ account[u].gen \in Nat
      /\ Revision(account[u].row) \in Nat
  BY RevisionIsNat DEF TypeOK, Account
<1> QED
  BY <1>1 DEF Real

LEMMA OfUser ==
    ASSUME Person \in [Browsers -> Users], NEW p \in Pages
    PROVE  Of(p) \in Users /\ Home[p] \in Browsers /\ Person[Home[p]] = Of(p)
  BY HomeAssumption DEF Of

LEMMA RealMerged ==
    ASSUME TypeOK, NEW u \in Users,
           NEW d \in Disk, Real(u, d.gen, Revision(d.cached)),
           NEW gen \in Nat, NEW row \in Row \cup {NoRow}, Real(u, gen, Revision(row))
    PROVE  Real(u, Merged(d, gen, row).gen, Revision(Merged(d, gen, row).cached))
<1>1. /\ account[u] \in Account /\ account[u].gen \in Nat
      /\ Revision(account[u].row) \in Nat /\ Revision(row) \in Nat
      /\ Revision(NoRow) = 0
  BY RevisionIsNat DEF TypeOK, Account, Revision
<1>2. Real(u, gen, Revision(NoRow))
  BY <1>1 DEF Real
<1> QED
  BY <1>1, <1>2, MergedDisk

Ours == Person \in [Browsers -> Users] /\ Sound /\ OwnBrowsers

LEMMA Written ==
    ASSUME TypeOK, NEW p \in Pages, NEW r \in Tab, NEW d \in Disk,
           tab' = [tab EXCEPT ![p] = r], disk' = [disk EXCEPT ![Home[p]] = d],
           account' = account, clock' = clock, filing' \in {filing, Idle},
           cookie' \in [Browsers -> Users \cup {NoOne}],
           asked' \subseteq Ask, answered' \subseteq Answer, queued' \subseteq Event,
           muddled' \in BOOLEAN, carried' \in BOOLEAN, used' \in Used
    PROVE  /\ TypeOK' /\ Home[p] \in Browsers
           /\ tab'[p] = r /\ \A q \in Pages \ {p} : tab'[q] = tab[q]
           /\ disk'[Home[p]] = d /\ \A c \in Browsers \ {Home[p]} : disk'[c] = disk[c]
<1>1. Home[p] \in Browsers
  BY HomeAssumption
<1>2. tab' \in [Pages -> Tab] /\ disk' \in [Browsers -> Disk]
  BY <1>1 DEF TypeOK
<1> QED
  BY <1>1, <1>2 DEF TypeOK

\* What a step does to the page and its browser, when it makes no event.
LEMMA Quiet ==
    ASSUME TypeOK, NEW p \in Pages, Ours,
           account' = account, clock' = clock, filing' \in {filing, Idle},
           \A q \in Pages \ {p} : tab'[q] = tab[q],
           \A c \in Browsers \ {Home[p]} : disk'[c] = disk[c],
           tab'[p].seq = tab[p].seq,
           Real(Of(p), tab'[p].active, tab'[p].known),
           tab'[p].next \in {NoOne, Of(p)},
           tab'[p].writing \subseteq tab[p].writing,
           disk'[Home[p]].pending \cup disk'[Home[p]].stash
              \subseteq disk[Home[p]].pending \cup disk[Home[p]].stash \cup tab[p].writing,
           Real(Of(p), disk'[Home[p]].gen, Revision(disk'[Home[p]].cached)),
           disk'[Home[p]].owner \in {NoOne, Of(p)},
           PageAsks(p), answered' \subseteq answered
    PROVE  PageMove(p)
<1>1. tab[p].seq \in Nat
  BY DEF TypeOK, Tab
<1>2. PageTab(p)
  BY <1>1 DEF PageTab
<1>3. PageDisk(p)
  BY DEF PageDisk
<1> QED
  BY <1>2, <1>3 DEF PageMove

\* What is known of a page and of its browser.
LEMMA Here ==
    ASSUME TypeOK, Ours, NEW p \in Pages
    PROVE  /\ Of(p) \in Users /\ Home[p] \in Browsers
           /\ Real(Of(p), tab[p].active, tab[p].known)
           /\ Real(Of(p), 0, 0) /\ Real(Of(p), tab[p].active, 0)
           /\ tab[p].next \in {NoOne, Of(p)}
           /\ Real(Of(p), disk[Home[p]].gen, Revision(disk[Home[p]].cached))
           /\ Real(Of(p), disk[Home[p]].gen, Revision(NoRow))
           /\ disk[Home[p]].owner \in {NoOne, Of(p)}
           /\ cookie[Home[p]] \in {NoOne, Of(p)}
<1>1. Of(p) \in Users /\ Home[p] \in Browsers /\ Person[Home[p]] = Of(p)
  BY OfUser DEF Ours
<1>2. Real(Of(p), 0, 0)
  BY <1>1, RealNone
<1>3. /\ Real(Of(p), tab[p].active, tab[p].known) /\ tab[p].next \in {NoOne, Of(p)}
  BY DEF Ours, Sound, TabsTrue
<1>4. /\ Real(Of(p), disk[Home[p]].gen, Revision(disk[Home[p]].cached))
      /\ disk[Home[p]].owner \in {NoOne, Of(p)} /\ cookie[Home[p]] \in {NoOne, Of(p)}
  BY <1>1 DEF Ours, Sound, DisksTrue, OwnBrowsers
<1>5. /\ account[Of(p)].gen \in Nat /\ Revision(account[Of(p)].row) \in Nat
      /\ tab[p].active \in Nat /\ tab[p].known \in Nat /\ disk[Home[p]].gen \in Nat
      /\ Revision(disk[Home[p]].cached) \in Nat /\ Revision(NoRow) = 0
  BY <1>1, RevisionIsNat DEF TypeOK, Account, Tab, Disk, Revision
<1>6. Real(Of(p), tab[p].active, 0) /\ Real(Of(p), disk[Home[p]].gen, Revision(NoRow))
  BY <1>3, <1>4, <1>5 DEF Real
<1> QED
  BY <1>1, <1>2, <1>3, <1>4, <1>6

LEMMA OpenMoves ==
    ASSUME TypeOK, NEW p \in Pages, Open(p)
    PROVE  TypeOK' /\ (Ours => PageMove(p))
<1> DEFINE b == Home[p]
           d == Drained(disk[b])
<1>1. b \in Browsers /\ disk[b] \in Disk /\ tab[p] \in Tab
  BY HomeAssumption DEF TypeOK
<1>2. PICK u \in {NoOne, disk[b].owner} :
         tab' = [tab EXCEPT ![p].life = "visible", ![p].session = u]
  BY DEF Open
<1> DEFINE r == [tab[p] EXCEPT !.life = "visible", !.session = u]
<1>3. tab' = [tab EXCEPT ![p] = r]
  BY <1>2
<1>4. u \in Users \cup {NoOne}
  BY <1>1, <1>2 DEF Disk
<1>5. r \in Tab /\ r.seq = tab[p].seq /\ r.active = tab[p].active /\ r.known = tab[p].known
      /\ r.next = tab[p].next /\ r.writing = tab[p].writing
  BY <1>1, <1>4 DEF Tab
<1> HIDE DEF r
<1>6. disk' = [disk EXCEPT ![b] = d]
  BY DEF Open
<1>7. queued' \subseteq Event
  BY <1>1, QueueingTyped DEF Open, TypeOK, Disk
<1>8. /\ d \in Disk /\ d.pending \subseteq disk[b].pending \cup disk[b].stash
      /\ d.stash = {} /\ d.gen = disk[b].gen /\ d.cached = disk[b].cached
      /\ d.owner = disk[b].owner
  BY <1>1, DrainedDisk
<1> HIDE DEF d
<1>9. UNCHANGED <<clock, account, filing, cookie, asked, answered, muddled, carried, used>>
  BY DEF Open
<1>10. /\ TypeOK'
       /\ tab'[p] = r /\ \A q \in Pages \ {p} : tab'[q] = tab[q]
       /\ disk'[b] = d /\ \A c \in Browsers \ {b} : disk'[c] = disk[c]
  BY <1>3, <1>5, <1>6, <1>7, <1>8, <1>9, Written DEF TypeOK
<1>11. ASSUME Ours PROVE PageMove(p)
  <2>1. PageAsks(p)
    BY <1>9 DEF PageAsks
  <2> QED
    BY <1>5, <1>8, <1>9, <1>10, <1>11, <2>1, Here, Quiet
<1> QED
  BY <1>10, <1>11

LEMMA SameDisk ==
    ASSUME TypeOK, NEW p \in Pages, disk' = disk
    PROVE  disk' = [disk EXCEPT ![Home[p]] = disk[Home[p]]] /\ disk[Home[p]] \in Disk
  BY HomeAssumption DEF TypeOK

\* A step that only touches what no invariant is about.
LEMMA Idles ==
    ASSUME TypeOK, NEW p \in Pages, Ours, NEW r \in Tab,
           tab' = [tab EXCEPT ![p] = r], r.seq = tab[p].seq,
           Real(Of(p), r.active, r.known), r.next = tab[p].next,
           r.writing \subseteq tab[p].writing,
           filing' \in {filing, Idle}, answered' \subseteq answered, PageAsks(p),
           UNCHANGED <<clock, account, disk>>
    PROVE  PageMove(p)
<1>1. tab'[p] = r /\ \A q \in Pages \ {p} : tab'[q] = tab[q]
  BY DEF TypeOK
<1> QED
  BY <1>1, Here, Quiet

LEMMA UsedMore ==
    ASSUME used \in Used
    PROVE  /\ [used EXCEPT !.signIns = @ + 1] \in Used
           /\ [used EXCEPT !.signOuts = @ + 1] \in Used
           /\ [used EXCEPT !.losses = @ + 1] \in Used
           /\ [used EXCEPT !.deaths = @ + 1] \in Used
           /\ [used EXCEPT !.returns = @ + 1] \in Used
           /\ [used EXCEPT !.resets = @ + 1] \in Used
  BY DEF Used

LEMMA SignInMoves ==
    ASSUME TypeOK, NEW p \in Pages, NEW u \in Users, SignIn(p, u)
    PROVE  TypeOK' /\ (Ours => PageMove(p))
<1> DEFINE r == [tab[p] EXCEPT !.asking = TRUE]
<1>1. tab[p] \in Tab
  BY DEF TypeOK
<1>2. tab' = [tab EXCEPT ![p] = r]
  BY DEF SignIn
<1>3. r \in Tab /\ r.seq = tab[p].seq /\ r.active = tab[p].active /\ r.known = tab[p].known
      /\ r.next = tab[p].next /\ r.writing = tab[p].writing
  BY <1>1 DEF Tab
<1> HIDE DEF r
<1>4. cookie' \in [Browsers -> Users \cup {NoOne}] /\ used' \in Used
  BY UsedMore DEF SignIn, TypeOK
<1>5. UNCHANGED <<clock, account, filing, disk, asked, answered, queued, muddled, carried>>
  BY DEF SignIn
<1>6. TypeOK'
  BY <1>2, <1>3, <1>4, <1>5, SameDisk, Written DEF TypeOK
<1>7. ASSUME Ours PROVE PageMove(p)
  <2>1. PageAsks(p)
    BY <1>5 DEF PageAsks
  <2> QED
    BY <1>2, <1>3, <1>5, <1>7, <2>1, Here, Idles
<1> QED
  BY <1>6, <1>7

LEMMA SignOutMoves ==
    ASSUME TypeOK, NEW p \in Pages, SignOut(p)
    PROVE  TypeOK' /\ (Ours => PageMove(p))
<1> DEFINE r == [tab[p] EXCEPT !.purging = "leaving"]
<1>1. tab[p] \in Tab
  BY DEF TypeOK
<1>2. tab' = [tab EXCEPT ![p] = r]
  BY DEF SignOut
<1>3. r \in Tab /\ r.seq = tab[p].seq /\ r.active = tab[p].active /\ r.known = tab[p].known
      /\ r.next = tab[p].next /\ r.writing = tab[p].writing
  BY <1>1 DEF Tab
<1> HIDE DEF r
<1>4. cookie' \in [Browsers -> Users \cup {NoOne}] /\ used' \in Used
  <2>1. PICK c \in {NoOne, cookie[Home[p]]} : cookie' = [cookie EXCEPT ![Home[p]] = c]
    BY DEF SignOut
  <2>2. c \in Users \cup {NoOne}
    BY <2>1, HomeAssumption DEF TypeOK
  <2> QED
    BY <2>1, <2>2, UsedMore DEF SignOut, TypeOK
<1>5. UNCHANGED <<clock, account, filing, disk, asked, answered, queued, muddled, carried>>
  BY DEF SignOut
<1>6. TypeOK'
  BY <1>2, <1>3, <1>4, <1>5, SameDisk, Written DEF TypeOK
<1>7. ASSUME Ours PROVE PageMove(p)
  <2>1. PageAsks(p)
    BY <1>5 DEF PageAsks
  <2> QED
    BY <1>2, <1>3, <1>5, <1>7, <2>1, Here, Idles
<1> QED
  BY <1>6, <1>7

LEMMA PurgedMoves ==
    ASSUME TypeOK, NEW p \in Pages, Purged(p)
    PROVE  TypeOK' /\ (Ours => PageMove(p))
<1> DEFINE b == Home[p]
           t == tab[p]
           o == IF t.next = NoOne THEN disk[b].owner ELSE t.next
           r == [t EXCEPT !.purging = "no", !.next = NoOne, !.session = t.next]
           d == [disk[b] EXCEPT !.pending = {}, !.cached = NoRow, !.gen = 0, !.owner = o]
<1>1. b \in Browsers /\ disk[b] \in Disk /\ t \in Tab
  BY HomeAssumption DEF TypeOK
<1>2. tab' = [tab EXCEPT ![p] = r]
  BY DEF Purged
<1>3. r \in Tab /\ r.seq = t.seq /\ r.active = t.active /\ r.known = t.known
      /\ r.next = NoOne /\ r.writing = t.writing
  BY <1>1 DEF Tab
<1>4. disk' = [disk EXCEPT ![b] = d]
  BY <1>1 DEF Purged, TypeOK
<1>5. o \in Users \cup {NoOne} /\ o \in {disk[b].owner, t.next}
  BY <1>1 DEF Disk, Tab
<1> HIDE DEF r, o
<1>6. /\ d \in Disk /\ d.pending = {} /\ d.stash = disk[b].stash /\ d.gen = 0
      /\ d.cached = NoRow /\ d.owner = o
  BY <1>1, <1>5 DEF Disk
<1> HIDE DEF d
<1>7. /\ muddled' \in BOOLEAN
      /\ UNCHANGED <<clock, account, filing, cookie, asked, answered, queued, carried, used>>
  BY DEF Purged, TypeOK, Unfinished
<1>8. /\ TypeOK'
      /\ tab'[p] = r /\ \A q \in Pages \ {p} : tab'[q] = tab[q]
      /\ disk'[b] = d /\ \A c \in Browsers \ {b} : disk'[c] = disk[c]
  BY <1>2, <1>3, <1>4, <1>6, <1>7, Written DEF TypeOK
<1>9. ASSUME Ours PROVE PageMove(p)
  <2>1. PageAsks(p)
    BY <1>7 DEF PageAsks
  <2>2. Revision(NoRow) = 0
    BY DEF Revision
  <2> QED
    BY <1>3, <1>5, <1>6, <1>7, <1>8, <1>9, <2>1, <2>2, Here, Quiet
<1> QED
  BY <1>8, <1>9

LEMMA ClaimMoves ==
    ASSUME TypeOK, NEW p \in Pages, Claim(p)
    PROVE  TypeOK' /\ (Ours => PageMove(p))
<1> DEFINE b == Home[p]
           u == cookie[b]
<1>1. /\ b \in Browsers /\ disk[b] \in Disk /\ tab[p] \in Tab
      /\ u \in Users /\ cookie[b] \in Users \cup {NoOne}
  BY HomeAssumption DEF TypeOK, Claim
<1>2. /\ muddled' \in BOOLEAN /\ carried' \in BOOLEAN
      /\ UNCHANGED <<clock, account, filing, cookie, asked, answered, used>>
  BY DEF Claim
<1>3. ASSUME Ours PROVE PageAsks(p)
  BY <1>2 DEF PageAsks
<1>4. CASE /\ tab' = [tab EXCEPT ![p].session = u, ![p].asking = FALSE]
           /\ disk' = [disk EXCEPT ![b].owner = u]
           /\ UNCHANGED queued
  <2> DEFINE r == [tab[p] EXCEPT !.session = u, !.asking = FALSE]
             d == [disk[b] EXCEPT !.owner = u]
  <2>1. tab' = [tab EXCEPT ![p] = r] /\ disk' = [disk EXCEPT ![b] = d]
    BY <1>4
  <2>2. r \in Tab /\ r.seq = tab[p].seq /\ r.active = tab[p].active /\ r.known = tab[p].known
        /\ r.next = tab[p].next /\ r.writing = tab[p].writing
    BY <1>1 DEF Tab
  <2>3. /\ d \in Disk /\ d.pending = disk[b].pending /\ d.stash = disk[b].stash
        /\ d.gen = disk[b].gen /\ d.cached = disk[b].cached /\ d.owner = u
    BY <1>1 DEF Disk
  <2> HIDE DEF r, d
  <2>q. queued' \subseteq Event /\ cookie' = cookie /\ asked' = asked /\ answered' = answered
    BY <1>2, <1>4 DEF TypeOK
  <2>4. /\ TypeOK'
        /\ tab'[p] = r /\ \A q \in Pages \ {p} : tab'[q] = tab[q]
        /\ disk'[b] = d /\ \A c \in Browsers \ {b} : disk'[c] = disk[c]
    BY <1>2, <2>q, <2>1, <2>2, <2>3, Written DEF TypeOK
  <2>5. ASSUME Ours PROVE PageMove(p)
    BY <1>2, <1>3, <2>2, <2>3, <2>4, <2>5, Here, Quiet
  <2> QED
    BY <2>4, <2>5
<1>5. CASE /\ tab' = [tab EXCEPT ![p] = [Sealed(@) EXCEPT !.next = u]]
           /\ disk' = [disk EXCEPT ![b] = SealedDisk(@)]
           /\ queued' = LeftBehind(b)
  <2> DEFINE s == Sealed(tab[p])
             r == [s EXCEPT !.next = u]
             d == SealedDisk(disk[b])
  <2>1. tab' = [tab EXCEPT ![p] = r] /\ disk' = [disk EXCEPT ![b] = d]
    BY <1>5
  <2>2. /\ s \in Tab /\ s.seq = tab[p].seq /\ s.writing = tab[p].writing
        /\ s.known = 0 /\ s.active = 0
    BY <1>1, SealedTab
  <2> HIDE DEF s
  <2>3. r \in Tab /\ r.seq = tab[p].seq /\ r.active = 0 /\ r.known = 0
        /\ r.next = u /\ r.writing = tab[p].writing
    BY <1>1, <2>2 DEF Tab
  <2>4. /\ d \in Disk /\ d.pending = disk[b].pending /\ d.stash = {}
        /\ d.gen = disk[b].gen /\ d.cached = disk[b].cached /\ d.owner = NoOne
    BY <1>1, SealedDiskDisk
  <2> HIDE DEF r, d
  <2>5. queued' \subseteq Event
    BY <1>5 DEF LeftBehind, TypeOK
  <2>6. /\ TypeOK'
        /\ tab'[p] = r /\ \A q \in Pages \ {p} : tab'[q] = tab[q]
        /\ disk'[b] = d /\ \A c \in Browsers \ {b} : disk'[c] = disk[c]
    BY <1>2, <2>1, <2>3, <2>4, <2>5, Written DEF TypeOK
  <2>7. ASSUME Ours PROVE PageMove(p)
    BY <1>2, <1>3, <2>3, <2>4, <2>6, <2>7, Here, Quiet
  <2> QED
    BY <2>6, <2>7
<1> QED
  BY <1>4, <1>5 DEF Claim

LEMMA SealQueueMoves ==
    ASSUME TypeOK, NEW p \in Pages, SealQueue(p)
    PROVE  TypeOK' /\ (Ours => PageMove(p))
<1> DEFINE b == Home[p]
           s == Sealed(tab[p])
           r == [s EXCEPT !.reading = NoOne]
           f == Forgotten(disk[b])
           d == SealedDisk(f)
<1>1. b \in Browsers /\ disk[b] \in Disk /\ tab[p] \in Tab
  BY HomeAssumption DEF TypeOK
<1>2. tab' = [tab EXCEPT ![p] = r] /\ disk' = [disk EXCEPT ![b] = d]
  BY DEF SealQueue
<1>3. /\ s \in Tab /\ s.seq = tab[p].seq /\ s.writing = tab[p].writing
      /\ s.known = 0 /\ s.active = 0 /\ s.next = tab[p].next
  BY <1>1, SealedTab
<1> HIDE DEF s
<1>4. r \in Tab /\ r.seq = tab[p].seq /\ r.active = 0 /\ r.known = 0
      /\ r.next = tab[p].next /\ r.writing = tab[p].writing
  BY <1>1, <1>3 DEF Tab
<1>5. /\ f \in Disk /\ f.pending = disk[b].pending /\ f.gen = disk[b].gen /\ f.cached = NoRow
  BY <1>1, ForgottenDisk
<1> HIDE DEF f
<1>6. /\ d \in Disk /\ d.pending = disk[b].pending /\ d.stash = {}
      /\ d.gen = disk[b].gen /\ d.cached = NoRow /\ d.owner = NoOne
  BY <1>5, SealedDiskDisk
<1> HIDE DEF r, d
<1>7. queued' \subseteq Event
  BY DEF SealQueue, LeftBehind, TypeOK
<1>8. UNCHANGED <<clock, account, filing, cookie, asked, answered, muddled, carried, used>>
  BY DEF SealQueue
<1>9. /\ TypeOK'
      /\ tab'[p] = r /\ \A q \in Pages \ {p} : tab'[q] = tab[q]
      /\ disk'[b] = d /\ \A c \in Browsers \ {b} : disk'[c] = disk[c]
  BY <1>2, <1>4, <1>6, <1>7, <1>8, Written DEF TypeOK
<1>10. ASSUME Ours PROVE PageMove(p)
  <2>1. PageAsks(p)
    BY <1>8 DEF PageAsks
  <2> QED
    BY <1>4, <1>6, <1>8, <1>9, <1>10, <2>1, Here, Quiet
<1> QED
  BY <1>9, <1>10

LEMMA FoundSignedOutMoves ==
    ASSUME TypeOK, NEW p \in Pages, FoundSignedOut(p)
    PROVE  TypeOK' /\ (Ours => PageMove(p))
<1> DEFINE b == Home[p]
           r == Released(tab[p])
           d == Forgotten(disk[b])
<1>1. b \in Browsers /\ disk[b] \in Disk /\ tab[p] \in Tab
  BY HomeAssumption DEF TypeOK
<1>2. tab' = [tab EXCEPT ![p] = r] /\ disk' = [disk EXCEPT ![b] = d]
  BY DEF FoundSignedOut
<1>3. r \in Tab /\ r.seq = tab[p].seq /\ r.active = tab[p].active /\ r.known = tab[p].known
      /\ r.next = tab[p].next /\ r.writing = tab[p].writing
  BY <1>1, ReleasedTab
<1>4. /\ d \in Disk /\ d.pending = disk[b].pending /\ d.stash = disk[b].stash
      /\ d.gen = disk[b].gen /\ d.cached = NoRow /\ d.owner = disk[b].owner
  BY <1>1, ForgottenDisk
<1> HIDE DEF r, d
<1>5. UNCHANGED <<clock, account, filing, cookie, asked, answered, queued, muddled, carried,
                  used>>
  BY DEF FoundSignedOut
<1>6. /\ TypeOK'
      /\ tab'[p] = r /\ \A q \in Pages \ {p} : tab'[q] = tab[q]
      /\ disk'[b] = d /\ \A c \in Browsers \ {b} : disk'[c] = disk[c]
  BY <1>2, <1>3, <1>4, <1>5, Written DEF TypeOK
<1>7. ASSUME Ours PROVE PageMove(p)
  <2>1. PageAsks(p)
    BY <1>5 DEF PageAsks
  <2> QED
    BY <1>3, <1>4, <1>5, <1>6, <1>7, <2>1, Here, Quiet
<1> QED
  BY <1>6, <1>7

LEMMA RequestAsk ==
    ASSUME TypeOK, NEW p \in Pages, NEW kind \in {"events", "get", "peek", "reset"},
           NEW S \in SUBSET Event, NEW guard \in BOOLEAN
    PROVE  /\ Request(p, kind, S, guard) \in Ask
           /\ Request(p, kind, S, guard).page = p
           /\ Request(p, kind, S, guard).sent = DeviceClock(Home[p])
           /\ Request(p, kind, S, guard).events = S
<1>1. /\ tab[p] \in Tab /\ clock \in Nat /\ Skew[Home[p]] \in Int
      /\ cookie[Home[p]] \in Users \cup {NoOne}
  BY HomeAssumption, ClockAssumption DEF TypeOK
<1> QED
  BY <1>1 DEF Request, Ask, DeviceClock, Tab

LEMMA BasedEvent ==
    ASSUME TypeOK, NEW e \in Event, NEW d \in Disk
    PROVE  /\ Based(e, d) \in Event
           /\ Based(e, d).page = e.page /\ Based(e, d).seq = e.seq /\ Based(e, d).at = e.at
           /\ Based(e, d).gen = e.gen
           /\ \/ Based(e, d).base = e.base
              \/ d.gen = e.gen /\ Based(e, d).base = Revision(d.cached)
<1>1. CASE e.base = 0 /\ d.cached # NoRow /\ d.gen = e.gen
  <2> DEFINE v == d.cached.revision
  <2>1. v \in Nat /\ Revision(d.cached) = v
    BY <1>1 DEF Disk, Row, Revision
  <2>2. Based(e, d) = [e EXCEPT !.base = v]
    BY <1>1 DEF Based
  <2> HIDE DEF v
  <2> QED
    BY <1>1, <2>1, <2>2 DEF Event
<1>2. CASE ~(e.base = 0 /\ d.cached # NoRow /\ d.gen = e.gen)
  BY <1>2 DEF Based
<1> QED
  BY <1>1, <1>2

LEMMA RecordMoves ==
    ASSUME TypeOK, NEW p \in Pages, Record(p)
    PROVE  TypeOK' /\ (Ours => PageMove(p))
<1>1. PICK x \in BOOLEAN :
         LET e == Based(Built(p, x), disk[Home[p]])
         IN  tab' = [tab EXCEPT ![p].seq = @ + 1, ![p].known = e.base,
                                ![p].writing = @ \cup {e}]
  BY DEF Record
<1> DEFINE b == Home[p]
           made == Built(p, x)
           e == Based(made, disk[b])
           r == [tab[p] EXCEPT !.seq = @ + 1, !.known = e.base, !.writing = @ \cup {e}]
<1>2. /\ b \in Browsers /\ disk[b] \in Disk /\ tab[p] \in Tab
      /\ tab[p].session \in Users /\ tab[p].reading \in Users
  <2>1. tab[p] \in Tab /\ tab[p].reading # NoOne /\ tab[p].session \in Users
    BY DeliveringIsSession DEF TypeOK, Record
  <2> QED
    BY <2>1, HomeAssumption DEF TypeOK, Tab
<1>3. /\ made \in Event /\ made.page = p /\ made.seq = tab[p].seq + 1
      /\ made.at = DeviceClock(b) /\ made.base = tab[p].known /\ made.gen = tab[p].active
  BY <1>2, BuiltEvent
<1> HIDE DEF made
<1>4. /\ e \in Event /\ e.page = p /\ e.seq = tab[p].seq + 1
      /\ e.at = DeviceClock(b) /\ e.gen = tab[p].active
      /\ \/ e.base = tab[p].known
         \/ disk[b].gen = e.gen /\ e.base = Revision(disk[b].cached)
  BY <1>2, <1>3, BasedEvent
<1>5. tab' = [tab EXCEPT ![p] = r]
  BY <1>1 DEF made
<1> HIDE DEF e
<1>6. r \in Tab /\ r.seq = tab[p].seq + 1 /\ r.active = tab[p].active /\ r.known = e.base
      /\ r.next = tab[p].next /\ r.writing = tab[p].writing \cup {e} /\ e.base \in Nat
  BY <1>2, <1>4 DEF Tab, Event
<1> HIDE DEF r
<1>7. UNCHANGED <<clock, account, filing, cookie, disk, asked, answered, queued, muddled,
                  carried, used>>
  BY DEF Record
<1>8. TypeOK' /\ tab'[p] = r /\ \A q \in Pages \ {p} : tab'[q] = tab[q]
  BY <1>5, <1>6, <1>7, SameDisk, Written DEF TypeOK
<1>9. ASSUME Ours PROVE PageMove(p)
  <2>1. Real(Of(p), r.active, r.known)
    BY <1>4, <1>6, <1>9, Here
  <2>2. New(p, e)
    BY <1>4, <1>6, <1>8, <2>1 DEF New
  <2>3. PageTab(p)
    BY <1>2, <1>6, <1>8, <1>9, <2>1, <2>2, Here DEF PageTab, Tab
  <2>4. PageDisk(p)
    BY <1>7, <1>9, Here DEF PageDisk
  <2>5. PageAsks(p)
    BY <1>7 DEF PageAsks
  <2> QED
    BY <1>7, <2>3, <2>4, <2>5 DEF PageMove
<1> QED
  BY <1>8, <1>9

LEMMA StoreMoves ==
    ASSUME TypeOK, NEW p \in Pages, Store(p)
    PROVE  TypeOK' /\ (Ours => PageMove(p))
<1> DEFINE b == Home[p]
<1>1. PICK e \in tab[p].writing :
        /\ tab' = [tab EXCEPT ![p].writing = @ \ {e}]
        /\ disk' = [disk EXCEPT
              ![b].pending = @ \cup Accepted(disk[b], {e}),
              ![b].stash = @ \ Accepted(disk[b], {e})]
        /\ queued' = Queueing(disk[b], {e})
  BY DEF Store
<1> DEFINE taken == Accepted(disk[b], {e})
           less == tab[p].writing \ {e}
           more == disk[b].pending \cup taken
           left == disk[b].stash \ taken
           r == [tab[p] EXCEPT !.writing = less]
           d == [disk[b] EXCEPT !.pending = more, !.stash = left]
<1>2. b \in Browsers /\ disk[b] \in Disk /\ tab[p] \in Tab
  BY HomeAssumption DEF TypeOK
<1>3. e \in Event
  BY <1>1, <1>2 DEF Tab
<1>4. tab' = [tab EXCEPT ![p] = r] /\ disk' = [disk EXCEPT ![b] = d]
  BY <1>1
<1>5. taken \subseteq {e}
  BY DEF Accepted
<1>6. /\ less \subseteq tab[p].writing /\ less \in SUBSET Event
      /\ more \in SUBSET Event /\ left \in SUBSET Event
      /\ more \cup left \subseteq disk[b].pending \cup disk[b].stash \cup tab[p].writing
  BY <1>1, <1>2, <1>3, <1>5 DEF Tab, Disk
<1> HIDE DEF taken, less, more, left
<1>7. r \in Tab /\ r.seq = tab[p].seq /\ r.active = tab[p].active /\ r.known = tab[p].known
      /\ r.next = tab[p].next /\ r.writing = less
  BY <1>2, <1>6 DEF Tab
<1>8. /\ d \in Disk /\ d.pending = more /\ d.stash = left
      /\ d.gen = disk[b].gen /\ d.cached = disk[b].cached /\ d.owner = disk[b].owner
  BY <1>2, <1>6 DEF Disk
<1> HIDE DEF r, d
<1>9. queued' \subseteq Event
  BY <1>1, <1>3, QueueingTyped DEF TypeOK
<1>10. UNCHANGED <<clock, account, filing, cookie, asked, answered, muddled, carried, used>>
  BY DEF Store
<1>11. /\ TypeOK'
       /\ tab'[p] = r /\ \A q \in Pages \ {p} : tab'[q] = tab[q]
       /\ disk'[b] = d /\ \A c \in Browsers \ {b} : disk'[c] = disk[c]
  BY <1>4, <1>7, <1>8, <1>9, <1>10, Written DEF TypeOK
<1>12. ASSUME Ours PROVE PageMove(p)
  <2>1. PageAsks(p)
    BY <1>10 DEF PageAsks
  <2> QED
    BY <1>6, <1>7, <1>8, <1>10, <1>11, <1>12, <2>1, Here, Quiet
<1> QED
  BY <1>11, <1>12

LEMMA FlushMoves ==
    ASSUME TypeOK, NEW p \in Pages, Flush(p)
    PROVE  TypeOK' /\ (Ours => PageMove(p))
<1> DEFINE b == Home[p]
           mine == {e \in disk[b].pending : e.owner = DeliveringFor(p)}
           d == [disk[b] EXCEPT !.pending = mine]
           guard == ~tab[p].flushing
           m == Request(p, "events", mine, guard)
           s == [tab[p] EXCEPT !.flushing = TRUE]
<1>1. b \in Browsers /\ disk[b] \in Disk /\ tab[p] \in Tab
  BY HomeAssumption DEF TypeOK
<1>2. disk' = [disk EXCEPT ![b] = d]
  BY DEF Flush
<1>3. \/ /\ asked' = asked \cup {m}
         /\ tab' = [tab EXCEPT ![p] = s]
      \/ asked' = asked /\ tab' = [tab EXCEPT ![p] = tab[p]]
  BY DEF Flush, TypeOK
<1>4. mine \subseteq disk[b].pending /\ mine \in SUBSET Event
  BY <1>1 DEF Disk
<1>g. guard \in BOOLEAN
  OBVIOUS
<1> HIDE DEF mine, guard
<1>5. /\ d \in Disk /\ d.pending = mine /\ d.stash = disk[b].stash
      /\ d.gen = disk[b].gen /\ d.cached = disk[b].cached /\ d.owner = disk[b].owner
  BY <1>1, <1>4 DEF Disk
<1>6. m \in Ask /\ m.page = p /\ m.sent = DeviceClock(b) /\ m.events = mine
  BY <1>4, <1>g, RequestAsk
<1>7. s \in Tab /\ s.seq = tab[p].seq /\ s.active = tab[p].active /\ s.known = tab[p].known
      /\ s.next = tab[p].next /\ s.writing = tab[p].writing
  BY <1>1 DEF Tab
<1> HIDE DEF d, m, s
<1>8. PICK r \in {s, tab[p]} : tab' = [tab EXCEPT ![p] = r]
  BY <1>3
<1>9. r \in Tab /\ r.seq = tab[p].seq /\ r.active = tab[p].active /\ r.known = tab[p].known
      /\ r.next = tab[p].next /\ r.writing = tab[p].writing
  BY <1>1, <1>7, <1>8
<1>10. asked' \subseteq asked \cup {m}
  BY <1>3
<1>11. UNCHANGED <<clock, account, filing, cookie, answered, queued, muddled, carried, used>>
  BY DEF Flush
<1>12. /\ TypeOK'
       /\ tab'[p] = r /\ \A q \in Pages \ {p} : tab'[q] = tab[q]
       /\ disk'[b] = d /\ \A c \in Browsers \ {b} : disk'[c] = disk[c]
  BY <1>2, <1>5, <1>6, <1>8, <1>9, <1>10, <1>11, Written DEF TypeOK
<1>13. ASSUME Ours PROVE PageMove(p)
  <2>1. PageAsks(p)
    BY <1>4, <1>6, <1>10 DEF PageAsks
  <2> QED
    BY <1>4, <1>5, <1>9, <1>11, <1>12, <1>13, <2>1, Here, Quiet
<1> QED
  BY <1>12, <1>13

LEMMA HiddenTab ==
    ASSUME NEW t \in Tab, NEW S \in SUBSET Event
    PROVE  LET r == [t EXCEPT !.life = "hidden", !.seq = @ + 1, !.writing = S]
           IN  /\ r \in Tab /\ r.seq = t.seq + 1 /\ r.active = t.active
               /\ r.known = t.known /\ r.next = t.next /\ r.writing = S
<1> DEFINE l == [t EXCEPT !.life = "hidden"]
           q == [l EXCEPT !.seq = @ + 1]
           r == [t EXCEPT !.life = "hidden", !.seq = @ + 1, !.writing = S]
<1>1. /\ l \in Tab /\ l.seq = t.seq /\ l.active = t.active
      /\ l.known = t.known /\ l.next = t.next
  BY DEF Tab
<1>2. r = [q EXCEPT !.writing = S]
  OBVIOUS
<1> HIDE DEF l, r
<1>3. /\ q \in Tab /\ q.seq = l.seq + 1 /\ q.active = l.active
      /\ q.known = l.known /\ q.next = l.next
  BY <1>1 DEF Tab
<1> HIDE DEF q
<1>4. /\ r \in Tab /\ r.seq = q.seq /\ r.active = q.active
      /\ r.known = q.known /\ r.next = q.next /\ r.writing = S
  BY <1>2, <1>3 DEF Tab
<1> QED
  BY <1>1, <1>3, <1>4 DEF r

LEMMA StashedDisk ==
    ASSUME NEW d \in Disk, NEW S \in SUBSET Event
    PROVE  LET f == [d EXCEPT !.stash = S]
           IN  /\ f \in Disk /\ f.pending = d.pending /\ f.stash = S
               /\ f.gen = d.gen /\ f.cached = d.cached /\ f.owner = d.owner
<1> DEFINE f == [d EXCEPT !.stash = S]
<1>1. /\ f.pending = d.pending /\ f.stash = S
      /\ f.gen = d.gen /\ f.cached = d.cached /\ f.owner = d.owner
  BY DEF Disk
<1>2. f \in Disk
  BY DEF Disk
<1> QED
  BY <1>1, <1>2

LEMMA HideMoves ==
    ASSUME TypeOK, NEW p \in Pages, Hide(p)
    PROVE  TypeOK' /\ (Ours => PageMove(p))
<1> DEFINE b == Home[p]
           live == Built(p, FALSE)
           captures == /\ tab[p].reading # NoOne /\ DeliveringFor(p) # NoOne
                       /\ tab[p].seq < MaxSeq[p]
           m == Request(p, "events", {live}, FALSE)
<1>1. b \in Browsers /\ disk[b] \in Disk /\ tab[p] \in Tab
  BY HomeAssumption DEF TypeOK
<1>2. UNCHANGED <<clock, account, filing, cookie, answered, queued, muddled, carried, used>>
  BY DEF Hide
<1>3. CASE /\ captures
           /\ tab' = [tab EXCEPT ![p].life = "hidden", ![p].seq = @ + 1,
                                 ![p].writing = @ \cup {live}]
           /\ disk' = [disk EXCEPT ![b].stash = @ \cup {live}]
           /\ asked' = asked \cup {m}
  <2> DEFINE more == tab[p].writing \cup {live}
             kept == disk[b].stash \cup {live}
             r == [tab[p] EXCEPT !.life = "hidden", !.seq = @ + 1, !.writing = more]
             d == [disk[b] EXCEPT !.stash = kept]
  <2>1. tab[p].session \in Users /\ tab[p].reading \in Users
    BY <1>1, <1>3, DeliveringIsSession DEF Tab
  <2>2. /\ live \in Event /\ live.page = p /\ live.seq = tab[p].seq + 1
        /\ live.at = DeviceClock(b) /\ live.base = tab[p].known /\ live.gen = tab[p].active
    BY <2>1, BuiltEvent
  <2>3. tab' = [tab EXCEPT ![p] = r] /\ disk' = [disk EXCEPT ![b] = d]
    BY <1>3
  <2>s. more \in SUBSET Event /\ kept \in SUBSET Event
    BY <1>1, <2>2 DEF Tab, Disk
  <2> HIDE DEF live, more, kept, m, captures
  <2>t. tab[p] \in Tab /\ disk[b] \in Disk
    BY <1>1
  <2>4. r \in Tab /\ r.seq = tab[p].seq + 1 /\ r.active = tab[p].active
        /\ r.known = tab[p].known /\ r.next = tab[p].next /\ r.writing = more
    BY <2>t, <2>s, HiddenTab
  <2>5. /\ d \in Disk /\ d.pending = disk[b].pending /\ d.stash = kept
        /\ d.gen = disk[b].gen /\ d.cached = disk[b].cached /\ d.owner = disk[b].owner
    BY <2>t, <2>s, StashedDisk
  <2>6. m \in Ask /\ m.page = p /\ m.sent = DeviceClock(b) /\ m.events = {live}
    <3>1. {live} \in SUBSET Event /\ FALSE \in BOOLEAN
      BY <2>2
    <3> DEFINE S == {live}
    <3>2. m = Request(p, "events", S, FALSE)
      BY DEF m
    <3> HIDE DEF S
    <3>3. S \in SUBSET Event
      BY <3>1 DEF S
    <3>4. m \in Ask /\ m.page = p /\ m.sent = DeviceClock(b) /\ m.events = S
      BY <3>2, <3>3, RequestAsk
    <3> QED
      BY <3>4 DEF S
  <2> HIDE DEF r, d, m
  <2>7. asked' \subseteq Ask /\ asked' = asked \cup {m}
    BY <1>3, <2>6 DEF TypeOK
  <2>8. /\ TypeOK'
        /\ tab'[p] = r /\ \A q \in Pages \ {p} : tab'[q] = tab[q]
        /\ disk'[b] = d /\ \A c \in Browsers \ {b} : disk'[c] = disk[c]
    BY <1>2, <2>3, <2>4, <2>5, <2>7, Written DEF TypeOK
  <2>9. ASSUME Ours PROVE PageMove(p)
    <3>1. New(p, live)
      BY <2>2, <2>4, <2>8, <2>9, Here DEF New
    <3>2. PageTab(p)
      BY <1>1, <2>4, <2>8, <2>9, <3>1, Here DEF PageTab, Tab, more
    <3>3. PageDisk(p)
      BY <2>5, <2>8, <2>9, <3>1, Here DEF PageDisk, kept
    <3>4. PageAsks(p)
      BY <2>6, <2>7, <3>1 DEF PageAsks
    <3> QED
      BY <1>2, <3>2, <3>3, <3>4 DEF PageMove
  <2> QED
    BY <2>8, <2>9
<1>4. CASE ~captures /\ tab' = [tab EXCEPT ![p].life = "hidden"] /\ UNCHANGED <<disk, asked>>
  <2> DEFINE r == [tab[p] EXCEPT !.life = "hidden"]
  <2>1. tab' = [tab EXCEPT ![p] = r]
    BY <1>4
  <2>2. r \in Tab /\ r.seq = tab[p].seq /\ r.active = tab[p].active /\ r.known = tab[p].known
        /\ r.next = tab[p].next /\ r.writing = tab[p].writing
    BY <1>1 DEF Tab
  <2> HIDE DEF r
  <2>3. TypeOK'
    BY <1>2, <1>4, <2>1, <2>2, SameDisk, Written DEF TypeOK
  <2>4. ASSUME Ours PROVE PageMove(p)
    <3>1. PageAsks(p)
      BY <1>4 DEF PageAsks
    <3> QED
      BY <1>2, <1>4, <2>1, <2>2, <2>4, <3>1, Here, Idles
  <2> QED
    BY <2>3, <2>4
<1> QED
  BY <1>3, <1>4 DEF Hide

LEMMA AsksOnly ==
    ASSUME TypeOK, NEW p \in Pages, NEW kind \in {"events", "get", "peek", "reset"}
    PROVE  LET m == Request(p, kind, {}, FALSE)
           IN  m \in Ask /\ m.page = p /\ m.sent = DeviceClock(Home[p]) /\ m.events = {}
<1> DEFINE S == {}
           x == FALSE
<1>1. S \in SUBSET Event /\ x \in BOOLEAN
  OBVIOUS
<1> HIDE DEF S, x
<1>2. LET m == Request(p, kind, S, x)
      IN  m \in Ask /\ m.page = p /\ m.sent = DeviceClock(Home[p]) /\ m.events = S
  BY <1>1, RequestAsk
<1> QED
  BY <1>2 DEF S, x

LEMMA ShowMoves ==
    ASSUME TypeOK, NEW p \in Pages, Show(p)
    PROVE  TypeOK' /\ (Ours => PageMove(p))
<1> DEFINE r == [tab[p] EXCEPT !.life = "visible"]
           m == Request(p, "peek", {}, FALSE)
<1>1. tab[p] \in Tab
  BY DEF TypeOK
<1>2. tab' = [tab EXCEPT ![p] = r]
  BY DEF Show
<1>3. r \in Tab /\ r.seq = tab[p].seq /\ r.active = tab[p].active /\ r.known = tab[p].known
      /\ r.next = tab[p].next /\ r.writing = tab[p].writing
  BY <1>1 DEF Tab
<1> HIDE DEF r
<1>4. m \in Ask /\ m.page = p /\ m.sent = DeviceClock(Home[p]) /\ m.events = {}
  BY AsksOnly
<1>5. asked' \subseteq asked \cup {m}
  BY DEF Show
<1> HIDE DEF m
<1>6. UNCHANGED <<clock, account, filing, cookie, disk, answered, queued, muddled, carried>>
  BY DEF Show
<1>7. used' \in Used
  BY UsedMore DEF Show, TypeOK
<1>8. TypeOK'
  BY <1>2, <1>3, <1>4, <1>5, <1>6, <1>7, SameDisk, Written DEF TypeOK
<1>9. ASSUME Ours PROVE PageMove(p)
  <2>1. PageAsks(p)
    BY <1>4, <1>5 DEF PageAsks
  <2> QED
    BY <1>2, <1>3, <1>6, <1>9, <2>1, Here, Idles
<1> QED
  BY <1>8, <1>9

LEMMA DieMoves ==
    ASSUME TypeOK, NEW p \in Pages, Die(p)
    PROVE  TypeOK' /\ (Ours => PageMove(p))
<1> DEFINE r == [tab[p] EXCEPT !.life = "gone", !.writing = {}]
<1>1. tab[p] \in Tab
  BY DEF TypeOK
<1>2. tab' = [tab EXCEPT ![p] = r]
  BY DEF Die
<1>3. r \in Tab /\ r.seq = tab[p].seq /\ r.active = tab[p].active /\ r.known = tab[p].known
      /\ r.next = tab[p].next /\ r.writing = {}
  BY <1>1 DEF Tab
<1> HIDE DEF r
<1>4. UNCHANGED <<clock, account, filing, cookie, disk, asked, queued, carried>>
  BY DEF Die
<1>5. answered' \subseteq answered /\ muddled' \in BOOLEAN /\ used' \in Used
  BY UsedMore DEF Die, TypeOK
<1>6. TypeOK'
  BY <1>2, <1>3, <1>4, <1>5, SameDisk, Written DEF TypeOK
<1>7. ASSUME Ours PROVE PageMove(p)
  <2>1. PageAsks(p)
    BY <1>4 DEF PageAsks
  <2> QED
    BY <1>2, <1>3, <1>4, <1>5, <1>7, <2>1, Here, Idles
<1> QED
  BY <1>6, <1>7

LEMMA SameTab ==
    ASSUME TypeOK, NEW p \in Pages, tab' = tab
    PROVE  tab' = [tab EXCEPT ![p] = tab[p]] /\ tab[p] \in Tab
  BY DEF TypeOK

\* The book is asked for, or is to start again.
LEMMA AsksMove ==
    ASSUME TypeOK, NEW p \in Pages, OpenBook(p) \/ ResetBook(p)
    PROVE  TypeOK' /\ (Ours => PageMove(p))
<1>1. PICK kind \in {"get", "reset"} : asked' = asked \cup {Request(p, kind, {}, FALSE)}
  BY DEF OpenBook, ResetBook
<1> DEFINE m == Request(p, kind, {}, FALSE)
<1>2. m \in Ask /\ m.page = p /\ m.sent = DeviceClock(Home[p]) /\ m.events = {}
  BY AsksOnly
<1>3. asked' = asked \cup {m}
  BY <1>1
<1> HIDE DEF m
<1>4. /\ UNCHANGED <<clock, account, filing, cookie, disk, tab, answered, queued, muddled,
                     carried>>
      /\ used' \in Used
  BY UsedMore DEF OpenBook, ResetBook, TypeOK
<1>5. TypeOK'
  BY <1>2, <1>3, <1>4, SameTab, SameDisk, Written DEF TypeOK
<1>6. ASSUME Ours PROVE PageMove(p)
  <2>1. PageAsks(p)
    BY <1>2, <1>3 DEF PageAsks
  <2> QED
    BY <1>4, <1>6, <2>1, SameTab, Here, Idles
<1> QED
  BY <1>5, <1>6

\* A page that makes an event, from a place of which it knows so much.
Makes(p, r, e) ==
    /\ e \in Event /\ e.page = p /\ e.seq = tab[p].seq + 1 /\ e.at = DeviceClock(Home[p])
    /\ r.seq = tab[p].seq + 1 /\ r.writing = tab[p].writing \cup {e}
    /\ e.gen = r.active /\ e.base = r.known

LEMMA WrittenTab ==
    ASSUME NEW t \in Tab, NEW S \in SUBSET Event
    PROVE  LET r == [t EXCEPT !.seq = @ + 1, !.writing = S]
           IN  /\ r \in Tab /\ r.seq = t.seq + 1 /\ r.active = t.active
               /\ r.known = t.known /\ r.next = t.next /\ r.writing = S
<1> DEFINE q == [t EXCEPT !.seq = @ + 1]
           r == [q EXCEPT !.writing = S]
<1>1. /\ q \in Tab /\ q.seq = t.seq + 1 /\ q.active = t.active
      /\ q.known = t.known /\ q.next = t.next
  BY DEF Tab
<1>2. r = [t EXCEPT !.seq = @ + 1, !.writing = S]
  OBVIOUS
<1> HIDE DEF q
<1>3. /\ r \in Tab /\ r.seq = q.seq /\ r.active = q.active
      /\ r.known = q.known /\ r.next = q.next /\ r.writing = S
  BY <1>1 DEF Tab
<1> HIDE DEF r
<1> QED
  BY <1>1, <1>2, <1>3

LEMMA OpenedTab ==
    ASSUME TypeOK, NEW p \in Pages, NEW d \in Disk
    PROVE  LET r == Opened(p, d)
           IN  /\ r \in Tab /\ r.active = d.gen /\ r.known = Revision(d.cached)
               /\ r.next = tab[p].next
               /\ \/ r.seq = tab[p].seq /\ r.writing = tab[p].writing
                  \/ \E e \in Event : Makes(p, r, e)
<1> DEFINE t == Adopting(tab[p], d)
           made == Built(p, TRUE)
           open == [made EXCEPT !.base = t.known, !.gen = t.active, !.by = t.session]
           S == t.writing \cup {open}
           r == Opened(p, d)
<1>1. tab[p] \in Tab
  BY DEF TypeOK
<1>2. /\ t \in Tab /\ t.seq = tab[p].seq /\ t.writing = tab[p].writing /\ t.active = d.gen
      /\ t.known = Revision(d.cached) /\ t.next = tab[p].next /\ t.session = tab[p].session
  BY <1>1, AdoptingTab
<1>3. CASE DeliveringFor(p) = NoOne
  <2>1. r = t
    BY <1>3 DEF Opened
  <2> QED
    BY <1>2, <2>1
<1>4. CASE DeliveringFor(p) # NoOne
  <2>1. tab[p].session \in Users
    BY <1>4, DeliveringIsSession
  <2>2. r = [t EXCEPT !.seq = @ + 1, !.writing = S]
    BY <1>4 DEF Opened
  <2>3. /\ open \in Event /\ open.page = p /\ open.seq = tab[p].seq + 1
        /\ open.at = DeviceClock(Home[p]) /\ open.base = t.known /\ open.gen = t.active
    <3>1. /\ tab[p].seq \in Nat /\ DeviceClock(Home[p]) \in Int
      BY <1>1, HomeAssumption, ClockAssumption DEF Tab, TypeOK, DeviceClock
    <3>2. t.known \in Nat /\ t.active \in Nat /\ t.session \in Users
      BY <1>2, <2>1 DEF Tab
    <3>3. made \in [page : Pages, seq : Nat, at : Int, base : Nat, gen : Nat, owner : Users,
                   by : Users \cup {NoOne}, explicit : BOOLEAN]
      BY <1>1, <2>1, <3>1 DEF Built, Tab
    <3>4. made.page = p /\ made.seq = tab[p].seq + 1 /\ made.at = DeviceClock(Home[p])
      BY BuiltEvent
    <3> HIDE DEF t, made
    <3> QED
      BY <3>2, <3>3, <3>4 DEF Event
  <2> HIDE DEF t, open
  <2>4. S \in SUBSET Event
    BY <1>2, <2>3 DEF Tab
  <2> HIDE DEF S
  <2>5. /\ r \in Tab /\ r.seq = t.seq + 1 /\ r.active = t.active
        /\ r.known = t.known /\ r.next = t.next /\ r.writing = S
    <3>1. t \in Tab
      BY <1>2
    <3> DEFINE q == [t EXCEPT !.seq = @ + 1, !.writing = S]
    <3>2. /\ q \in Tab /\ q.seq = t.seq + 1 /\ q.active = t.active
          /\ q.known = t.known /\ q.next = t.next /\ q.writing = S
      BY <2>4, <3>1, WrittenTab
    <3> HIDE DEF q
    <3>3. r = q
      BY <2>2 DEF q
    <3> QED
      BY <3>2, <3>3
  <2>6. Makes(p, r, open)
    BY <1>2, <2>3, <2>5 DEF Makes, S
  <2> QED
    BY <1>2, <2>3, <2>5, <2>6
<1> QED
  BY <1>3, <1>4

\* What a step does to the page and its browser, when it may make an event.
LEMMA Making ==
    ASSUME TypeOK, NEW p \in Pages, Ours,
           account' = account, clock' = clock, filing' = filing,
           \A q \in Pages \ {p} : tab'[q] = tab[q],
           \A c \in Browsers \ {Home[p]} : disk'[c] = disk[c],
           \/ tab'[p].seq = tab[p].seq /\ tab'[p].writing = tab[p].writing
           \/ \E e \in Event : Makes(p, tab'[p], e),
           Real(Of(p), tab'[p].active, tab'[p].known),
           tab'[p].next = tab[p].next,
           disk'[Home[p]].pending \cup disk'[Home[p]].stash
              \subseteq disk[Home[p]].pending \cup disk[Home[p]].stash,
           Real(Of(p), disk'[Home[p]].gen, Revision(disk'[Home[p]].cached)),
           disk'[Home[p]].owner = disk[Home[p]].owner,
           asked' \subseteq asked, answered' \subseteq answered
    PROVE  PageMove(p)
<1>1. tab[p].seq \in Nat
  BY DEF TypeOK, Tab
<1>2. PageTab(p)
  BY <1>1, Here DEF PageTab, Makes, New
<1>3. PageDisk(p)
  BY Here DEF PageDisk
<1> QED
  BY <1>2, <1>3 DEF PageMove, PageAsks

LEMMA TakePlaceMoves ==
    ASSUME TypeOK, NEW p \in Pages, TakePlace(p)
    PROVE  TypeOK' /\ (Ours => PageMove(p))
<1> DEFINE b == Home[p]
<1>1. PICK m \in answered :
        LET d == Merged(disk[b], m.gen, m.row) IN
        /\ m.page = p /\ m.kind \in {"state", "peeked"}
        /\ answered' = answered \ {m}
        /\ disk' = [disk EXCEPT ![b] = Drained(d)]
        /\ tab' = [tab EXCEPT ![p] = IF m.kind = "state" THEN Opened(p, d) ELSE @]
        /\ queued' = Queueing(d, d.stash)
        /\ muddled' = (muddled \/ m.user # disk[b].owner)
        /\ UNCHANGED <<clock, account, filing, cookie, asked, carried, used>>
  BY DEF TakePlace
<1> DEFINE d == Merged(disk[b], m.gen, m.row)
           f == Drained(d)
           r == IF m.kind = "state" THEN Opened(p, d) ELSE tab[p]
<1>2. /\ b \in Browsers /\ disk[b] \in Disk /\ tab[p] \in Tab
      /\ m.gen \in Nat /\ m.row \in Row \cup {NoRow}
  BY HomeAssumption DEF TypeOK, Answer
<1>3. /\ d \in Disk /\ d.pending \subseteq disk[b].pending
      /\ d.stash = disk[b].stash /\ d.owner = disk[b].owner
  BY <1>2, MergedDisk
<1>4. ASSUME Ours PROVE Real(Of(p), d.gen, Revision(d.cached))
  <2>1. Real(Of(p), m.gen, Revision(m.row))
    BY <1>1, <1>4 DEF Ours, Sound, AnswersTrue
  <2> QED
    BY <1>2, <1>4, <2>1, Here, RealMerged
<1>5. /\ disk' = [disk EXCEPT ![b] = f] /\ tab' = [tab EXCEPT ![p] = r]
      /\ queued' = Queueing(d, d.stash)
  BY <1>1
<1> HIDE DEF d
<1>6. /\ f \in Disk /\ f.pending \cup f.stash \subseteq disk[b].pending \cup disk[b].stash
      /\ f.gen = d.gen /\ f.cached = d.cached /\ f.owner = disk[b].owner
  BY <1>3, DrainedDisk
<1>7. /\ r \in Tab /\ r.next = tab[p].next
      /\ \/ r.active = tab[p].active /\ r.known = tab[p].known
         \/ r.active = d.gen /\ r.known = Revision(d.cached)
      /\ \/ r.seq = tab[p].seq /\ r.writing = tab[p].writing
         \/ \E e \in Event : Makes(p, r, e)
  BY <1>2, <1>3, OpenedTab
<1> HIDE DEF f, r
<1>8. queued' \subseteq Event
  BY <1>3, <1>5, QueueingTyped DEF TypeOK, Disk
<1>9. /\ UNCHANGED <<clock, account, filing, cookie, asked, carried, used>>
      /\ answered' \subseteq answered /\ muddled' \in BOOLEAN
  BY <1>1
<1>10. /\ TypeOK'
       /\ tab'[p] = r /\ \A q \in Pages \ {p} : tab'[q] = tab[q]
       /\ disk'[b] = f /\ \A c \in Browsers \ {b} : disk'[c] = disk[c]
  BY <1>5, <1>6, <1>7, <1>8, <1>9, Written DEF TypeOK
<1>11. ASSUME Ours PROVE PageMove(p)
  <2>1. Real(Of(p), r.active, r.known) /\ Real(Of(p), f.gen, Revision(f.cached))
    BY <1>4, <1>6, <1>7, <1>11, Here
  <2> QED
    BY <1>6, <1>7, <1>9, <1>10, <1>11, <2>1, Making
<1> QED
  BY <1>10, <1>11

LEMMA ClaimingTab ==
    ASSUME NEW t \in Tab, NEW S \in SUBSET Event, NEW now \in Int
    PROVE  LET r == [t EXCEPT !.seq = @ + 1, !.writing = S, !.reclaimed = now]
           IN  /\ r \in Tab /\ r.seq = t.seq + 1 /\ r.active = t.active
               /\ r.known = t.known /\ r.next = t.next /\ r.writing = S
<1> DEFINE q == [t EXCEPT !.seq = @ + 1, !.writing = S]
           r == [q EXCEPT !.reclaimed = now]
<1>1. /\ q \in Tab /\ q.seq = t.seq + 1 /\ q.active = t.active
      /\ q.known = t.known /\ q.next = t.next /\ q.writing = S
  BY WrittenTab
<1>2. r = [t EXCEPT !.seq = @ + 1, !.writing = S, !.reclaimed = now]
  OBVIOUS
<1> HIDE DEF q
<1>3. /\ r \in Tab /\ r.seq = q.seq /\ r.active = q.active
      /\ r.known = q.known /\ r.next = q.next /\ r.writing = q.writing
  BY <1>1 DEF Tab
<1> HIDE DEF r
<1> QED
  BY <1>1, <1>2, <1>3

\* The page after an acknowledgement: it may claim its place.
Acked(p, m) ==
    LET t == Unguarded(Learned(tab[p], m), m)
        claim == [Built(p, TRUE) EXCEPT !.base = t.known]
    IN  IF ~Reclaims(p, m) THEN t
        ELSE [t EXCEPT !.seq = @ + 1, !.writing = @ \cup {claim}, !.reclaimed = clock]

LEMMA AckedTab ==
    ASSUME TypeOK, NEW p \in Pages, NEW m \in Answer
    PROVE  LET r == Acked(p, m)
           IN  /\ r \in Tab /\ r.active = tab[p].active /\ r.next = tab[p].next
               /\ r.known = tab[p].known \/ (r.active = m.gen /\ r.known = Revision(m.row))
               /\ \/ r.seq = tab[p].seq /\ r.writing = tab[p].writing
                  \/ \E e \in Event : Makes(p, r, e)
<1> DEFINE l == Learned(tab[p], m)
           t == Unguarded(l, m)
           made == Built(p, TRUE)
           claim == [made EXCEPT !.base = t.known]
           S == t.writing \cup {claim}
           r == Acked(p, m)
<1>1. tab[p] \in Tab /\ m.guard \in BOOLEAN
  BY DEF TypeOK, Answer
<1>2. /\ l \in Tab /\ l.seq = tab[p].seq /\ l.writing = tab[p].writing
      /\ l.active = tab[p].active /\ l.next = tab[p].next
      /\ l.known = tab[p].known \/ (l.active = m.gen /\ l.known = Revision(m.row))
  BY <1>1, LearnedTab
<1> HIDE DEF l
<1>3. /\ t \in Tab /\ t.seq = l.seq /\ t.writing = l.writing
      /\ t.active = l.active /\ t.next = l.next /\ t.known = l.known
  BY <1>1, <1>2, UnguardedTab
<1>4. CASE ~Reclaims(p, m)
  <2>1. r = t
    BY <1>4 DEF Acked, l
  <2> HIDE DEF t
  <2> QED
    BY <1>2, <1>3, <2>1
<1>5. CASE Reclaims(p, m)
  <2>1. tab[p].session \in Users /\ tab[p].reading \in Users
    BY <1>1, <1>5, DeliveringIsSession DEF Reclaims, Tab
  <2>2. r = [t EXCEPT !.seq = @ + 1, !.writing = S, !.reclaimed = clock]
    BY <1>5 DEF Acked, l
  <2>3. /\ made \in Event /\ made.page = p /\ made.seq = tab[p].seq + 1
        /\ made.at = DeviceClock(Home[p]) /\ made.gen = tab[p].active
    BY <2>1, BuiltEvent
  <2>4. t.known \in Nat
    BY <1>3 DEF Tab
  <2> HIDE DEF made, t
  <2>5. /\ claim \in Event /\ claim.page = p /\ claim.seq = tab[p].seq + 1
        /\ claim.at = DeviceClock(Home[p]) /\ claim.base = t.known
        /\ claim.gen = tab[p].active
    BY <2>3, <2>4 DEF Event
  <2> HIDE DEF claim
  <2>6. S \in SUBSET Event
    BY <1>3, <2>5 DEF Tab
  <2>7. clock \in Int
    BY DEF TypeOK
  <2> HIDE DEF S
  <2>8. /\ r \in Tab /\ r.seq = t.seq + 1 /\ r.active = t.active
        /\ r.known = t.known /\ r.next = t.next /\ r.writing = S
    <3>1. t \in Tab
      BY <1>3
    <3> DEFINE q == [t EXCEPT !.seq = @ + 1, !.writing = S, !.reclaimed = clock]
    <3>2. /\ q \in Tab /\ q.seq = t.seq + 1 /\ q.active = t.active
          /\ q.known = t.known /\ q.next = t.next /\ q.writing = S
      BY <2>6, <2>7, <3>1, ClaimingTab
    <3>3. r = q
      BY <2>2
    <3> HIDE DEF q
    <3> QED
      BY <3>2, <3>3
  <2>9. Makes(p, r, claim)
    BY <1>2, <1>3, <2>5, <2>8 DEF Makes, S
  <2> QED
    BY <1>2, <1>3, <2>5, <2>8, <2>9
<1> QED
  BY <1>4, <1>5

LEMMA TakeAckMoves ==
    ASSUME TypeOK, NEW p \in Pages, TakeAck(p)
    PROVE  TypeOK' /\ (Ours => PageMove(p))
<1> DEFINE b == Home[p]
<1>1. PICK m \in answered :
        /\ m.page = p /\ answered' = answered \ {m}
        /\ LET rest == [disk[b] EXCEPT !.pending = @ \ m.events]
           IN  disk' = [disk EXCEPT ![b] = Merged(rest, m.gen, m.row)]
        /\ tab' = [tab EXCEPT ![p] = Acked(p, m)]
        /\ muddled' = (muddled \/ m.user # disk[b].owner)
        /\ UNCHANGED <<clock, account, filing, cookie, asked, queued, carried, used>>
  BY DEF TakeAck, Acked
<1> DEFINE left == disk[b].pending \ m.events
           o == [disk[b] EXCEPT !.pending = left]
           d == Merged(o, m.gen, m.row)
           r == Acked(p, m)
<1>2. /\ b \in Browsers /\ disk[b] \in Disk /\ tab[p] \in Tab /\ m \in Answer
      /\ m.gen \in Nat /\ m.row \in Row \cup {NoRow}
  BY HomeAssumption DEF TypeOK, Answer
<1>3. left \subseteq disk[b].pending /\ left \in SUBSET Event
  BY <1>2 DEF Disk
<1>4. disk' = [disk EXCEPT ![b] = d] /\ tab' = [tab EXCEPT ![p] = r]
  BY <1>1
<1> HIDE DEF left
<1>5. /\ o \in Disk /\ o.pending = left /\ o.stash = disk[b].stash
      /\ o.gen = disk[b].gen /\ o.cached = disk[b].cached /\ o.owner = disk[b].owner
  BY <1>2, <1>3 DEF Disk
<1> HIDE DEF o
<1>6. /\ d \in Disk /\ d.pending \subseteq left /\ d.stash = disk[b].stash
      /\ d.owner = disk[b].owner
  BY <1>2, <1>5, MergedDisk
<1>7. ASSUME Ours PROVE Real(Of(p), m.gen, Revision(m.row))
  BY <1>1, <1>7 DEF Ours, Sound, AnswersTrue
<1>8. ASSUME Ours PROVE Real(Of(p), d.gen, Revision(d.cached))
  <2>1. Real(Of(p), o.gen, Revision(o.cached))
    BY <1>5, <1>8, Here
  <2> QED
    BY <1>2, <1>5, <1>7, <1>8, <2>1, Here, RealMerged
<1> HIDE DEF d
<1>9. /\ r \in Tab /\ r.active = tab[p].active /\ r.next = tab[p].next
      /\ r.known = tab[p].known \/ (r.active = m.gen /\ r.known = Revision(m.row))
      /\ \/ r.seq = tab[p].seq /\ r.writing = tab[p].writing
         \/ \E e \in Event : Makes(p, r, e)
  BY <1>2, AckedTab
<1> HIDE DEF r
<1>10. /\ UNCHANGED <<clock, account, filing, cookie, asked, queued, carried, used>>
       /\ answered' \subseteq answered /\ muddled' \in BOOLEAN
  BY <1>1
<1>11. /\ TypeOK'
       /\ tab'[p] = r /\ \A q \in Pages \ {p} : tab'[q] = tab[q]
       /\ disk'[b] = d /\ \A c \in Browsers \ {b} : disk'[c] = disk[c]
  BY <1>4, <1>6, <1>9, <1>10, Written DEF TypeOK
<1>12. ASSUME Ours PROVE PageMove(p)
  <2>1. Real(Of(p), r.active, r.known)
    BY <1>7, <1>9, <1>12, Here
  <2>2. Real(Of(p), d.gen, Revision(d.cached))
    BY <1>8, <1>12
  <2> QED
    BY <1>3, <1>6, <1>9, <1>10, <1>11, <1>12, <2>1, <2>2, Making
<1> QED
  BY <1>11, <1>12

LEMMA TakeErasedMoves ==
    ASSUME TypeOK, NEW p \in Pages, TakeErased(p)
    PROVE  TypeOK' /\ (Ours => PageMove(p))
<1> DEFINE b == Home[p]
<1>1. PICK m \in answered :
        LET d == Merged(disk[b], m.gen, NoRow) IN
        /\ m.page = p /\ m.kind = "erased"
        /\ answered' = answered \ {m}
        /\ disk' = [disk EXCEPT
              ![b] = [d EXCEPT !.stash = {e \in @ : e.gen >= m.gen}]]
        /\ tab' = [tab EXCEPT ![p].known = 0]
        /\ muddled' = (muddled \/ m.user # disk[b].owner)
        /\ UNCHANGED <<clock, account, filing, cookie, asked, queued, carried, used>>
  BY DEF TakeErased
<1> DEFINE d == Merged(disk[b], m.gen, NoRow)
           left == {e \in d.stash : e.gen >= m.gen}
           f == [d EXCEPT !.stash = left]
           r == [tab[p] EXCEPT !.known = 0]
<1>2. /\ b \in Browsers /\ disk[b] \in Disk /\ tab[p] \in Tab
      /\ m.gen \in Nat /\ m.row \in Row \cup {NoRow}
  BY HomeAssumption DEF TypeOK, Answer
<1>3. disk' = [disk EXCEPT ![b] = f] /\ tab' = [tab EXCEPT ![p] = r]
  BY <1>1
<1>4. /\ d \in Disk /\ d.pending \subseteq disk[b].pending
      /\ d.stash = disk[b].stash /\ d.owner = disk[b].owner
  BY <1>2, MergedDisk
<1>5. ASSUME Ours PROVE Real(Of(p), d.gen, Revision(d.cached))
  <2>1. Real(Of(p), m.gen, Revision(m.row))
    BY <1>1, <1>5 DEF Ours, Sound, AnswersTrue
  <2>2. /\ Of(p) \in Users /\ account[Of(p)].gen \in Nat
        /\ Revision(account[Of(p)].row) \in Nat /\ Revision(m.row) \in Nat
        /\ Revision(NoRow) = 0
    BY <1>2, <1>5, Here, RevisionIsNat DEF TypeOK, Account, Revision
  <2>3. Real(Of(p), m.gen, Revision(NoRow))
    BY <1>2, <2>1, <2>2 DEF Real
  <2> QED
    BY <1>2, <1>5, <2>3, Here, RealMerged
<1> HIDE DEF d
<1>6. left \subseteq disk[b].stash /\ left \in SUBSET Event
  BY <1>4 DEF Disk
<1> HIDE DEF left
<1>7. /\ f \in Disk /\ f.pending = d.pending /\ f.stash = left
      /\ f.gen = d.gen /\ f.cached = d.cached /\ f.owner = d.owner
  BY <1>4, <1>6, StashedDisk
<1>8. r \in Tab /\ r.seq = tab[p].seq /\ r.active = tab[p].active /\ r.known = 0
      /\ r.next = tab[p].next /\ r.writing = tab[p].writing
  BY <1>2 DEF Tab
<1> HIDE DEF f, r
<1>9. /\ UNCHANGED <<clock, account, filing, cookie, asked, queued, carried, used>>
      /\ answered' \subseteq answered /\ muddled' \in BOOLEAN
  BY <1>1
<1>10. /\ TypeOK'
       /\ tab'[p] = r /\ \A q \in Pages \ {p} : tab'[q] = tab[q]
       /\ disk'[b] = f /\ \A c \in Browsers \ {b} : disk'[c] = disk[c]
  BY <1>3, <1>7, <1>8, <1>9, Written DEF TypeOK
<1>11. ASSUME Ours PROVE PageMove(p)
  <2>1. Real(Of(p), f.gen, Revision(f.cached)) /\ Real(Of(p), r.active, r.known)
    BY <1>5, <1>7, <1>8, <1>11, Here
  <2> QED
    BY <1>4, <1>6, <1>7, <1>8, <1>9, <1>10, <1>11, <2>1, Making
<1> QED
  BY <1>10, <1>11

LEMMA TakeRefusalMoves ==
    ASSUME TypeOK, NEW p \in Pages, TakeRefusal(p)
    PROVE  TypeOK' /\ (Ours => PageMove(p))
<1> DEFINE b == Home[p]
<1>1. PICK m \in answered :
        LET denied == m.kind = "denied"
            kept == IF denied THEN Forgotten(disk[b]) ELSE disk[b]
            left == Unguarded(IF denied THEN Released(tab[p]) ELSE tab[p], m)
            drains == m.to \in {"get", "peek"}
        IN
        /\ m.page = p /\ m.kind \in {"denied", "refused"}
        /\ answered' = answered \ {m}
        /\ disk' = [disk EXCEPT ![b] = IF drains THEN Drained(kept) ELSE kept]
        /\ queued' = IF drains THEN Queueing(kept, kept.stash) ELSE queued
        /\ tab' = [tab EXCEPT ![p] =
              IF m.to = "get" THEN Adopting(left, kept) ELSE left]
        /\ UNCHANGED <<clock, account, filing, cookie, asked, muddled, carried, used>>
  BY DEF TakeRefusal
<1> DEFINE denied == m.kind = "denied"
           kept == IF denied THEN Forgotten(disk[b]) ELSE disk[b]
           was == IF denied THEN Released(tab[p]) ELSE tab[p]
           left == Unguarded(was, m)
           drains == m.to \in {"get", "peek"}
           d == IF drains THEN Drained(kept) ELSE kept
           r == IF m.to = "get" THEN Adopting(left, kept) ELSE left
<1>2. b \in Browsers /\ disk[b] \in Disk /\ tab[p] \in Tab /\ m.guard \in BOOLEAN
  BY HomeAssumption DEF TypeOK, Answer
<1>3. /\ disk' = [disk EXCEPT ![b] = d] /\ tab' = [tab EXCEPT ![p] = r]
      /\ queued' \in {Queueing(kept, kept.stash), queued}
  BY <1>1
<1>4. /\ kept \in Disk /\ kept.pending = disk[b].pending /\ kept.stash = disk[b].stash
      /\ kept.gen = disk[b].gen /\ kept.cached \in {disk[b].cached, NoRow}
      /\ kept.owner = disk[b].owner
  BY <1>2, ForgottenDisk
<1>5. /\ was \in Tab /\ was.seq = tab[p].seq /\ was.writing = tab[p].writing
      /\ was.known = tab[p].known /\ was.active = tab[p].active /\ was.next = tab[p].next
  BY <1>2, ReleasedTab
<1> HIDE DEF kept, was, denied, drains
<1>6. /\ left \in Tab /\ left.seq = was.seq /\ left.writing = was.writing
      /\ left.known = was.known /\ left.active = was.active /\ left.next = was.next
  BY <1>2, <1>5, UnguardedTab
<1> HIDE DEF left
<1>7. /\ r \in Tab /\ r.seq = tab[p].seq /\ r.writing = tab[p].writing
      /\ r.next = tab[p].next
      /\ \/ r.active = tab[p].active /\ r.known = tab[p].known
         \/ r.active = kept.gen /\ r.known = Revision(kept.cached)
  BY <1>4, <1>5, <1>6, AdoptingTab
<1>8. /\ d \in Disk /\ d.pending \cup d.stash \subseteq disk[b].pending \cup disk[b].stash
      /\ d.gen = disk[b].gen /\ d.cached = kept.cached /\ d.owner = disk[b].owner
  BY <1>4, DrainedDisk
<1>9. queued' \subseteq Event
  <2>1. kept.stash \subseteq Event /\ queued \subseteq Event
    BY <1>4 DEF Disk, TypeOK
  <2> QED
    BY <1>3, <2>1, QueueingTyped
<1> HIDE DEF r, d
<1>10. /\ UNCHANGED <<clock, account, filing, cookie, asked, muddled, carried, used>>
       /\ answered' \subseteq answered
  BY <1>1
<1>11. /\ TypeOK'
       /\ tab'[p] = r /\ \A q \in Pages \ {p} : tab'[q] = tab[q]
       /\ disk'[b] = d /\ \A c \in Browsers \ {b} : disk'[c] = disk[c]
  BY <1>3, <1>7, <1>8, <1>9, <1>10, Written DEF TypeOK
<1>12. ASSUME Ours PROVE PageMove(p)
  <2>1. Real(Of(p), d.gen, Revision(d.cached)) /\ Real(Of(p), r.active, r.known)
    BY <1>4, <1>7, <1>8, <1>12, Here
  <2> QED
    BY <1>7, <1>8, <1>10, <1>11, <1>12, <2>1, Making
<1> QED
  BY <1>11, <1>12

LEMMA RollbackMoves ==
    ASSUME TypeOK, Rollback
    PROVE  TypeOK' /\ (Ours => \E p \in Pages : PageMove(p))
<1> DEFINE p == filing.page
           r == Unguarded(tab[p], filing)
<1>1. p \in Pages /\ filing.guard \in BOOLEAN /\ tab[p] \in Tab
  BY DEF Rollback, TypeOK, Batch
<1>2. tab' = [tab EXCEPT ![p] = r]
  BY DEF Rollback
<1>3. r \in Tab /\ r.seq = tab[p].seq /\ r.active = tab[p].active /\ r.known = tab[p].known
      /\ r.next = tab[p].next /\ r.writing = tab[p].writing
  BY <1>1, UnguardedTab
<1> HIDE DEF p, r
<1>4. /\ UNCHANGED <<clock, account, cookie, disk, asked, answered, queued, muddled, carried>>
      /\ used' \in Used /\ filing' = Idle
  BY UsedMore DEF Rollback, TypeOK
<1>5. TypeOK'
  BY <1>1, <1>2, <1>3, <1>4, SameDisk, Written DEF TypeOK
<1>6. ASSUME Ours PROVE PageMove(p)
  <2>1. PageAsks(p)
    BY <1>4 DEF PageAsks
  <2> QED
    BY <1>1, <1>2, <1>3, <1>4, <1>6, <2>1, Here, Idles
<1> QED
  BY <1>1, <1>5, <1>6

LEMMA GivesUpMoves ==
    ASSUME TypeOK, NEW p \in Pages, NEW m, m.guard \in BOOLEAN, GivesUp(p, m),
           account' = account, clock' = clock, filing' = filing, cookie' = cookie,
           asked' \subseteq asked, answered' \subseteq answered,
           muddled' = muddled, carried' = carried, used' \in Used
    PROVE  TypeOK' /\ (Ours => PageMove(p))
<1> DEFINE b == Home[p]
<1>1. b \in Browsers /\ disk[b] \in Disk /\ tab[p] \in Tab
  BY HomeAssumption DEF TypeOK
<1>2. CASE m.kind \in {"get", "state", "peek", "peeked"} /\ Running(p)
  <2> DEFINE d == Drained(disk[b])
             r == IF m.kind \in {"get", "state"} THEN Opened(p, disk[b]) ELSE tab[p]
  <2>1. disk' = [disk EXCEPT ![b] = d] /\ queued' = Queueing(disk[b], disk[b].stash)
    BY <1>2 DEF GivesUp
  <2>2. tab' = [tab EXCEPT ![p] = r]
    BY <1>2 DEF GivesUp
  <2>3. /\ d \in Disk /\ d.pending \cup d.stash \subseteq disk[b].pending \cup disk[b].stash
        /\ d.gen = disk[b].gen /\ d.cached = disk[b].cached /\ d.owner = disk[b].owner
    BY <1>1, DrainedDisk
  <2>4. /\ r \in Tab /\ r.next = tab[p].next
        /\ \/ r.active = tab[p].active /\ r.known = tab[p].known
           \/ r.active = disk[b].gen /\ r.known = Revision(disk[b].cached)
        /\ \/ r.seq = tab[p].seq /\ r.writing = tab[p].writing
           \/ \E e \in Event : Makes(p, r, e)
    BY <1>1, OpenedTab
  <2> HIDE DEF d, r
  <2>5. queued' \subseteq Event
    BY <1>1, <2>1, QueueingTyped DEF TypeOK, Disk
  <2>6. asked' \subseteq Ask /\ answered' \subseteq Answer
    BY DEF TypeOK
  <2>7. /\ TypeOK'
        /\ tab'[p] = r /\ \A q \in Pages \ {p} : tab'[q] = tab[q]
        /\ disk'[b] = d /\ \A c \in Browsers \ {b} : disk'[c] = disk[c]
    BY <2>1, <2>2, <2>3, <2>4, <2>5, <2>6, Written DEF TypeOK
  <2>8. ASSUME Ours PROVE PageMove(p)
    <3>1. Real(Of(p), d.gen, Revision(d.cached)) /\ Real(Of(p), r.active, r.known)
      BY <2>3, <2>4, <2>8, Here
    <3> QED
      BY <2>3, <2>4, <2>7, <2>8, <3>1, Making
  <2> QED
    BY <2>7, <2>8
<1>3. CASE ~(m.kind \in {"get", "state", "peek", "peeked"} /\ Running(p))
  <2> DEFINE r == Unguarded(tab[p], m)
  <2>1. tab' = [tab EXCEPT ![p] = r] /\ UNCHANGED <<disk, queued>>
    BY <1>3 DEF GivesUp
  <2>2. r \in Tab /\ r.seq = tab[p].seq /\ r.active = tab[p].active /\ r.known = tab[p].known
        /\ r.next = tab[p].next /\ r.writing = tab[p].writing
    BY <1>1, UnguardedTab
  <2> HIDE DEF r
  <2>3. asked' \subseteq Ask /\ answered' \subseteq Answer
    BY DEF TypeOK
  <2>4. TypeOK'
    BY <2>1, <2>2, <2>3, SameDisk, Written DEF TypeOK
  <2>5. ASSUME Ours PROVE PageMove(p)
    <3>1. PageAsks(p)
      BY DEF PageAsks
    <3> QED
      BY <2>1, <2>2, <2>5, <3>1, Here, Idles
  <2> QED
    BY <2>4, <2>5
<1> QED
  BY <1>2, <1>3

LEMMA LoseMoves ==
    ASSUME TypeOK, Lose
    PROVE  TypeOK' /\ (Ours => \E p \in Pages : PageMove(p))
<1>1. PICK m \in asked \cup answered :
        /\ asked' = asked \ {m} /\ answered' = answered \ {m}
        /\ GivesUp(m.page, m)
  BY DEF Lose
<1>2. m.page \in Pages /\ m.guard \in BOOLEAN
  BY <1>1 DEF TypeOK, Ask, Answer
<1>3. UNCHANGED <<clock, account, filing, cookie, muddled, carried>> /\ used' \in Used
  BY UsedMore DEF Lose, TypeOK
<1> QED
  BY <1>1, <1>2, <1>3, GivesUpMoves

-----------------------------------------------------------------------------
(* What stays good when a step is taken.                                    *)

\* The account is erased, or it goes on, or nothing happens to it.
GoesOn(u) ==
    \/ account'[u].gen > account[u].gen
    \/ /\ account'[u].gen = account[u].gen /\ account'[u].erased = account[u].erased
       /\ \/ account'[u].row = account[u].row
          \/ /\ account'[u].row # NoRow
             /\ account'[u].row.revision > Revision(account[u].row)

Onward ==
    /\ \A p \in Pages : tab'[p].seq >= tab[p].seq
    /\ \A u \in Users : GoesOn(u)

LEMMA AccountTyped ==
    ASSUME TypeOK, NEW u \in Users
    PROVE  /\ account[u] \in Account /\ account[u].gen \in Nat
           /\ account[u].row \in Row \cup {NoRow} /\ Revision(account[u].row) \in Nat
           /\ account[u].history \subseteq Event
           /\ account[u].erased \in [Pages -> Nat]
  BY RevisionIsNat DEF TypeOK, Account

LEMMA RealStays ==
    ASSUME TypeOK, TypeOK', Onward, NEW u \in Users, NEW gen \in Nat, NEW rev \in Nat,
           Real(u, gen, rev)
    PROVE  Real(u, gen, rev)'
<1>1. /\ account[u].gen \in Nat /\ Revision(account[u].row) \in Nat
      /\ account'[u].gen \in Nat /\ account'[u].row \in Row \cup {NoRow}
      /\ GoesOn(u)
  BY AccountTyped DEF TypeOK, Account, Onward
<1>2. /\ account'[u].row # NoRow =>
            /\ Revision(account'[u].row) = account'[u].row.revision
            /\ account'[u].row.revision \in Nat
  BY <1>1 DEF Revision, Row
<1>3. \/ account'[u].gen > account[u].gen
      \/ /\ account'[u].gen = account[u].gen
         /\ \/ account'[u].row = account[u].row
            \/ /\ account'[u].row # NoRow
               /\ account'[u].row.revision > Revision(account[u].row)
  BY <1>1 DEF GoesOn
<1>4. Real(u, gen, rev)' <=>
         \/ gen < account'[u].gen
         \/ gen = account'[u].gen /\ rev <= Revision(account'[u].row)
  BY DEF Real
<1>5. \/ gen < account[u].gen
      \/ gen = account[u].gen /\ rev <= Revision(account[u].row)
  BY DEF Real
<1> QED
  BY <1>1, <1>2, <1>3, <1>4, <1>5

LEMMA GoodStays ==
    ASSUME TypeOK, TypeOK', Onward, Person \in [Browsers -> Users],
           NEW e \in Event, Good(e)
    PROVE  Good(e)'
<1> DEFINE u == Of(e.page)
<1>1. /\ e.page \in Pages /\ e.seq \in Nat /\ e.gen \in Nat /\ e.base \in Nat
      /\ u \in Users
  BY OfUser DEF Event
<1>2. /\ account[u].gen \in Nat /\ Revision(account[u].row) \in Nat
      /\ account[u].row \in Row \cup {NoRow}
      /\ account'[u].gen \in Nat /\ account'[u].row \in Row \cup {NoRow}
      /\ tab[e.page].seq \in Nat /\ tab'[e.page].seq \in Nat
      /\ tab'[e.page].seq >= tab[e.page].seq /\ GoesOn(u)
  BY <1>1, AccountTyped DEF TypeOK, Account, Tab, Onward
<1>3. e.seq <= tab[e.page].seq /\ Real(u, e.gen, e.base)
  BY DEF Good
<1>4. (e.seq <= tab[e.page].seq)'
  BY <1>1, <1>2, <1>3
<1>5. Real(u, e.gen, e.base)'
  BY <1>1, <1>3, RealStays
<1>6. CASE account'[u].gen > account[u].gen
  <2>1. e.gen # account'[u].gen
    BY <1>1, <1>2, <1>3, <1>6 DEF Real
  <2> QED
    BY <1>4, <1>5, <2>1 DEF Good, Fresh, Overtaken, Stamped
<1>7. CASE /\ account'[u].gen = account[u].gen /\ account'[u].erased = account[u].erased
           /\ \/ account'[u].row = account[u].row
              \/ /\ account'[u].row # NoRow
                 /\ account'[u].row.revision > Revision(account[u].row)
  <2>1. Fresh(e)'
    BY <1>7 DEF Good, Fresh
  <2>2. CASE account'[u].row = account[u].row
    BY <1>4, <1>5, <1>7, <2>1, <2>2 DEF Good, Overtaken, Stamped
  <2>3. CASE account'[u].row # NoRow /\ account'[u].row.revision > Revision(account[u].row)
    <3>1. account'[u].row.revision \in Nat
      BY <1>2, <2>3 DEF Row
    <3>2. e.gen = account[u].gen => e.base <= Revision(account[u].row)
      BY <1>1, <1>2, <1>3 DEF Real
    <3>3. e.gen = account'[u].gen => e.base < account'[u].row.revision
      BY <1>1, <1>2, <1>7, <2>3, <3>1, <3>2
    <3> QED
      BY <1>4, <1>5, <2>1, <3>3 DEF Good, Overtaken, Stamped
  <2> QED
    BY <1>7, <2>2, <2>3
<1> QED
  BY <1>2, <1>6, <1>7 DEF GoesOn

LEMMA NewIsGood ==
    ASSUME TypeOK, TypeOK', Ours, account' = account,
           NEW p \in Pages, NEW e \in Event, New(p, e)
    PROVE  Good(e)'
<1>1. /\ e.page = p /\ e.seq = tab[p].seq + 1 /\ tab'[p].seq = tab[p].seq + 1
      /\ Real(Of(p), e.gen, e.base) /\ e.at = DeviceClock(Home[p])
  BY DEF New
<1>2. /\ Of(p) \in Users /\ tab[p].seq \in Nat /\ account[Of(p)].erased \in [Pages -> Nat]
      /\ account[Of(p)].row \in Row \cup {NoRow} /\ Skew[Home[p]] \in Int
  BY Here, AccountTyped, ClockAssumption DEF TypeOK, Tab
<1>3. e.seq <= tab'[p].seq /\ Real(Of(p), e.gen, e.base)'
  BY <1>1, <1>2 DEF Real
<1>4. e.seq > account[Of(p)].erased[p]
  BY <1>1, <1>2 DEF Ours, Sound, TabsTrue
<1>5. ASSUME account[Of(p)].row # NoRow, account[Of(p)].row.event.page = p
      PROVE  ~(e.seq < account[Of(p)].row.event.seq)
  <2> DEFINE f == account[Of(p)].row.event
  <2>1. f \in Event /\ Good(f)
    BY <1>2, <1>5 DEF Ours, Sound, AccountsTrue, Row
  <2>2. f.seq \in Nat /\ f.seq <= tab[p].seq
    BY <1>5, <2>1 DEF Good, Event
  <2> QED
    BY <1>1, <1>2, <2>2
<1>6. MaxClock = 0 => e.at = Skew[Home[p]]
  BY <1>1, <1>2 DEF Ours, Sound, Still, DeviceClock
<1> QED
  BY <1>1, <1>3, <1>4, <1>5, <1>6 DEF Good, Fresh, Overtaken, Stamped

LEMMA TimedStays ==
    ASSUME Ours, clock' = clock, NEW row, Timed(row)
    PROVE  Timed(row)'
  BY DEF Timed, Judged, Clamped, Correction

LEMMA AccountsStay ==
    ASSUME TypeOK, TypeOK', Ours, Onward, account' = account,
           clock' = clock \/ MaxClock # 0
    PROVE  AccountsTrue'
<1> SUFFICES ASSUME NEW u \in Users
             PROVE  /\ \A e \in account[u].history :
                          Of(e.page) = u /\ e.gen = account[u].gen /\ Good(e)'
                    /\ account[u].row # NoRow =>
                          /\ account[u].row.event \in account[u].history
                          /\ Timed(account[u].row)'
  BY DEF AccountsTrue
<1>1. ASSUME NEW e \in account[u].history
      PROVE  Of(e.page) = u /\ e.gen = account[u].gen /\ Good(e)'
  <2>1. e \in Event /\ Of(e.page) = u /\ e.gen = account[u].gen /\ Good(e)
    BY AccountTyped DEF Ours, Sound, AccountsTrue
  <2> QED
    BY <2>1, GoodStays DEF Ours
<1>2. ASSUME account[u].row # NoRow
      PROVE  account[u].row.event \in account[u].history /\ Timed(account[u].row)'
  <2>1. account[u].row.event \in account[u].history /\ Timed(account[u].row)
    BY <1>2 DEF Ours, Sound, AccountsTrue
  <2>2. CASE clock' = clock
    BY <2>1, <2>2, TimedStays
  <2>3. CASE MaxClock # 0
    BY <2>1, <2>3 DEF Timed
  <2> QED
    BY <2>2, <2>3
<1> QED
  BY <1>1, <1>2

LEMMA FilingStays ==
    ASSUME TypeOK, TypeOK', Ours, Onward, account' = account, filing' = filing,
           clock' = clock
    PROVE  FilingTrue'
<1> SUFFICES ASSUME filing # Idle PROVE FilingTrue'
  BY DEF FilingTrue, Idle
<1> DEFINE a == account[filing.user]
           d == filing.draft
<1>1. /\ filing.user = Of(filing.page)
      /\ filing.left \subseteq filing.events
      /\ \A e \in filing.events : Home[e.page] = Home[filing.page] /\ Good(e)
      /\ d.gen = a.gen /\ d.erased = a.erased
      /\ \A e \in d.history : e \in a.history \cup filing.events /\ e.gen = a.gen
      /\ d.row # NoRow => d.row.event \in d.history /\ Timed(d.row)
      /\ MaxClock = 0 => filing.shift = Correction(Skew[Home[filing.page]])
      /\ MovedOn(d, a) /\ NotBack(d, a)
  BY DEF Ours, Sound, FilingTrue
<1>2. \A e \in filing.events : Good(e)'
  BY <1>1, GoodStays DEF Ours, TypeOK, Batch
<1>3. d.row # NoRow => Timed(d.row)'
  BY <1>1, TimedStays
<1>4. MaxClock = 0 => (filing.shift = Correction(Skew[Home[filing.page]]))'
  BY <1>1 DEF Correction
<1>5. (MovedOn(filing.draft, account[filing.user]))'
      /\ (NotBack(filing.draft, account[filing.user]))'
  BY <1>1 DEF MovedOn, NotBack
<1> QED
  BY <1>1, <1>2, <1>3, <1>4, <1>5 DEF FilingTrue, Idle

-----------------------------------------------------------------------------
(* The steps of a page.                                                     *)

LEMMA PageGoesOn ==
    ASSUME TypeOK, NEW p \in Pages, PageMove(p)
    PROVE  Onward
<1>1. \A q \in Pages : tab[q].seq \in Nat
  BY DEF TypeOK, Tab
<1>2. \A q \in Pages : tab'[q].seq >= tab[q].seq
  BY <1>1 DEF PageMove, PageTab
<1>3. \A u \in Users : GoesOn(u)
  BY DEF PageMove, GoesOn
<1> QED
  BY <1>2, <1>3 DEF Onward

LEMMA PageKeepsTabs ==
    ASSUME TypeOK, TypeOK', Ours, NEW p \in Pages, PageMove(p)
    PROVE  TabsTrue'
<1> SUFFICES ASSUME NEW q \in Pages
             PROVE  /\ \A e \in tab'[q].writing : e.page = q /\ Good(e)'
                    /\ Real(Of(q), tab[q].active, tab[q].known)'
                    /\ tab'[q].next \in {NoOne, Of(q)}
                    /\ account'[Of(q)].erased[q] <= tab'[q].seq
  BY DEF TabsTrue
<1>1. account' = account /\ Onward /\ PageTab(p)
  BY PageGoesOn DEF PageMove
<1>2. /\ Of(q) \in Users /\ tab'[q] \in Tab /\ tab[q] \in Tab
      /\ account[Of(q)].erased[q] \in Nat /\ tab[q].seq \in Nat /\ tab'[q].seq \in Nat
      /\ tab'[q].seq >= tab[q].seq
  BY <1>1, Here, AccountTyped DEF TypeOK, Tab, Onward
<1>3. ASSUME NEW e \in tab'[q].writing
      PROVE  e.page = q /\ Good(e)'
  <2>1. e \in Event
    BY <1>2 DEF Tab
  <2>2. CASE e \in tab[q].writing
    BY <1>1, <2>1, <2>2, GoodStays DEF Ours, Sound, TabsTrue
  <2>3. CASE q = p /\ New(p, e)
    BY <1>1, <2>1, <2>3, NewIsGood DEF New
  <2> QED
    BY <1>1, <2>2, <2>3 DEF PageTab
<1>4. Real(Of(q), tab[q].active, tab[q].known)'
  <2>1. Real(Of(q), tab'[q].active, tab'[q].known)
    BY <1>1 DEF PageTab, Ours, Sound, TabsTrue
  <2> QED
    BY <1>1, <2>1 DEF Real
<1>5. tab'[q].next \in {NoOne, Of(q)}
  BY <1>1 DEF PageTab, Ours, Sound, TabsTrue
<1>6. account'[Of(q)].erased[q] <= tab'[q].seq
  <2>1. account[Of(q)].erased[q] <= tab[q].seq
    BY DEF Ours, Sound, TabsTrue
  <2> QED
    BY <1>1, <1>2, <2>1
<1> QED
  BY <1>3, <1>4, <1>5, <1>6

LEMMA PageKeepsDisks ==
    ASSUME TypeOK, TypeOK', Ours, NEW p \in Pages, PageMove(p)
    PROVE  DisksTrue'
<1> SUFFICES ASSUME NEW b \in Browsers
             PROVE  /\ \A e \in disk'[b].pending \cup disk'[b].stash :
                          Home[e.page] = b /\ Good(e)'
                    /\ Real(Person[b], disk[b].gen, Revision(disk[b].cached))'
                    /\ disk'[b].owner \in {NoOne, Person[b]}
  BY DEF DisksTrue
<1>1. account' = account /\ Onward /\ PageDisk(p)
  BY PageGoesOn DEF PageMove
<1>2. disk'[b] \in Disk /\ disk[b] \in Disk
  BY DEF TypeOK
<1>3. /\ \A e \in disk[b].pending \cup disk[b].stash : Home[e.page] = b /\ Good(e)
      /\ Real(Person[b], disk[b].gen, Revision(disk[b].cached))
      /\ disk[b].owner \in {NoOne, Person[b]}
  BY DEF Ours, Sound, DisksTrue
<1>4. CASE b # Home[p]
  <2>1. disk'[b] = disk[b]
    BY <1>1, <1>4 DEF PageDisk
  <2>2. \A e \in disk[b].pending \cup disk[b].stash : Good(e)'
    BY <1>1, <1>2, <1>3, GoodStays DEF Ours, Disk
  <2>3. Real(Person[b], disk[b].gen, Revision(disk[b].cached))'
    BY <1>1, <1>3, <2>1 DEF Real
  <2> QED
    BY <1>3, <2>1, <2>2, <2>3
<1>5. CASE b = Home[p]
  <2>1. ASSUME NEW e \in disk'[b].pending \cup disk'[b].stash
        PROVE  Home[e.page] = b /\ Good(e)'
    <3>1. e \in Event
      BY <1>2 DEF Disk
    <3>2. CASE e \in disk[b].pending \cup disk[b].stash
      BY <1>1, <1>3, <3>1, <3>2, GoodStays DEF Ours
    <3>3. CASE e \in tab[p].writing
      <4>1. e.page = p /\ Good(e)
        BY <3>3 DEF Ours, Sound, TabsTrue
      <4> QED
        BY <1>1, <1>5, <3>1, <4>1, GoodStays DEF Ours
    <3>4. CASE New(p, e)
      BY <1>1, <1>5, <3>1, <3>4, NewIsGood DEF New
    <3> QED
      BY <1>1, <1>5, <3>2, <3>3, <3>4 DEF PageDisk
  <2>2. /\ Real(Person[b], disk'[b].gen, Revision(disk'[b].cached))
        /\ disk'[b].owner \in {NoOne, Person[b]}
    BY <1>1, <1>5 DEF PageDisk, Of
  <2>3. Real(Person[b], disk[b].gen, Revision(disk[b].cached))'
    BY <1>1, <2>2 DEF Real
  <2> QED
    BY <2>1, <2>2, <2>3
<1> QED
  BY <1>4, <1>5

LEMMA PageKeepsAsked ==
    ASSUME TypeOK, TypeOK', Ours, NEW p \in Pages, PageMove(p)
    PROVE  AskedTrue'
<1> SUFFICES ASSUME NEW m \in asked'
             PROVE  /\ \A e \in m.events : Home[e.page] = Home[m.page] /\ Good(e)'
                    /\ MaxClock = 0 => m.sent = Skew[Home[m.page]]
  BY DEF AskedTrue
<1>1. account' = account /\ Onward /\ PageAsks(p)
  BY PageGoesOn DEF PageMove
<1>2. m.events \subseteq Event
  BY DEF TypeOK, Ask
<1>3. CASE m \in asked
  BY <1>1, <1>2, <1>3, GoodStays DEF Ours, Sound, AskedTrue
<1>4. CASE /\ m.page = p /\ m.sent = DeviceClock(Home[p])
           /\ \A e \in m.events : e \in disk[Home[p]].pending \/ New(p, e)
  <2>1. ASSUME NEW e \in m.events
        PROVE  Home[e.page] = Home[p] /\ Good(e)'
    <3>1. CASE e \in disk[Home[p]].pending
      <4>1. Home[e.page] = Home[p] /\ Good(e)
        BY <3>1, Here DEF Ours, Sound, DisksTrue
      <4> QED
        BY <1>1, <1>2, <4>1, GoodStays DEF Ours
    <3>2. CASE New(p, e)
      BY <1>1, <1>2, <3>2, NewIsGood DEF New
    <3> QED
      BY <1>4, <3>1, <3>2
  <2>2. MaxClock = 0 => m.sent = Skew[Home[p]]
    <3>1. Skew[Home[p]] \in Int
      BY Here, ClockAssumption
    <3> QED
      BY <1>4, <3>1 DEF DeviceClock, Ours, Sound, Still
  <2> QED
    BY <1>4, <2>1, <2>2
<1> QED
  BY <1>1, <1>3, <1>4 DEF PageAsks

LEMMA PageKeepsAll ==
    ASSUME TypeOK, TypeOK', Ours, NEW p \in Pages, PageMove(p)
    PROVE  Sound'
<1>1. /\ account' = account /\ clock' = clock /\ filing' \in {filing, Idle}
      /\ answered' \subseteq answered /\ Onward
  BY PageGoesOn DEF PageMove
<1>2. AnswersTrue'
  BY <1>1 DEF Ours, Sound, AnswersTrue, Real
<1>3. AccountsTrue'
  BY <1>1, AccountsStay
<1>4. FilingTrue'
  <2>1. CASE filing' = filing
    BY <1>1, <2>1, FilingStays
  <2>2. CASE filing' = Idle
    BY <2>2 DEF FilingTrue, Idle
  <2> QED
    BY <1>1, <2>1, <2>2
<1>5. Still'
  BY <1>1 DEF Ours, Sound, Still
<1> QED
  BY <1>2, <1>3, <1>4, <1>5, PageKeepsTabs, PageKeepsDisks, PageKeepsAsked DEF Sound

-----------------------------------------------------------------------------
(* The steps of the server.                                                 *)

LEMMA ReplyAnswer ==
    ASSUME NEW m \in Ask, NEW kind \in {"filed", "state", "peeked", "erased", "denied", "refused"}
    PROVE  /\ Reply(m, kind) \in Answer /\ Reply(m, kind).page = m.page
           /\ Reply(m, kind).gen = 0 /\ Reply(m, kind).row = NoRow
  BY DEF Reply, Ask, Answer

LEMMA SentAnswers ==
    ASSUME NEW a PROVE Sent(a) \subseteq answered \cup {a}
  BY DEF Sent

\* The server says something true, or time passes, or a session ends.
Speaks ==
    /\ UNCHANGED <<account, filing, disk, tab>>
    /\ asked' \subseteq asked
    /\ \A m \in answered' :
          m \in answered \/ Real(Of(m.page), m.gen, Revision(m.row))
    /\ clock' = clock \/ (MaxClock # 0 /\ filing = Idle)

LEMMA RefuseSpeaks ==
    ASSUME TypeOK, Refuse
    PROVE  TypeOK' /\ (Ours => Speaks)
<1>1. PICK m \in asked :
        /\ asked' = asked \ {m}
        /\ \E kind \in {"denied", "refused"} : answered' = Sent(Reply(m, kind))
        /\ UNCHANGED <<clock, account, filing, cookie, disk, tab, queued, muddled, carried,
                       used>>
  BY DEF Refuse
<1>2. PICK kind \in {"denied", "refused"} : answered' = Sent(Reply(m, kind))
  BY <1>1
<1> DEFINE a == Reply(m, kind)
<1>3. m \in Ask /\ m.page \in Pages
  BY DEF TypeOK, Ask
<1>4. a \in Answer /\ a.page = m.page /\ a.gen = 0 /\ a.row = NoRow
  BY <1>3, ReplyAnswer
<1> HIDE DEF a
<1>5. answered' \subseteq answered \cup {a}
  BY <1>2, SentAnswers DEF a
<1>6. TypeOK'
  BY <1>1, <1>4, <1>5 DEF TypeOK
<1>7. ASSUME Ours PROVE Speaks
  <2>1. Real(Of(a.page), a.gen, Revision(a.row))
    BY <1>3, <1>4, <1>7, Here DEF Revision
  <2> QED
    BY <1>1, <1>5, <2>1 DEF Speaks
<1> QED
  BY <1>6, <1>7

\* Whoever is let in is the person the browser belongs to.
LEMMA AuthenticatedIsPerson ==
    ASSUME TypeOK, NEW m \in asked, Authenticated(m)
    PROVE  /\ m.user \in Users /\ m.page \in Pages
           /\ Ours => m.user = Of(m.page)
<1>1. m \in Ask /\ m.page \in Pages
  BY DEF TypeOK, Ask
<1> QED
  BY <1>1, Here DEF Authenticated, Ask

LEMMA TellPlaceSpeaks ==
    ASSUME TypeOK, TellPlace
    PROVE  TypeOK' /\ (Ours => Speaks)
<1>1. PICK m \in asked :
        /\ Authenticated(m) /\ asked' = asked \ {m}
        /\ \E kind \in {"state", "peeked"} :
              answered' = Sent([Reply(m, kind) EXCEPT
                                   !.row = account[m.user].row, !.gen = account[m.user].gen])
        /\ UNCHANGED <<clock, account, filing, cookie, disk, tab, queued, muddled, carried,
                       used>>
  BY DEF TellPlace
<1>2. PICK kind \in {"state", "peeked"} :
         answered' = Sent([Reply(m, kind) EXCEPT
                              !.row = account[m.user].row, !.gen = account[m.user].gen])
  BY <1>1
<1> DEFINE o == Reply(m, kind)
           a == [o EXCEPT !.row = account[m.user].row, !.gen = account[m.user].gen]
<1>3. m \in Ask /\ m.page \in Pages /\ m.user \in Users
  BY <1>1, AuthenticatedIsPerson DEF TypeOK
<1>4. o \in Answer /\ o.page = m.page
  BY <1>3, ReplyAnswer
<1>5. account[m.user].gen \in Nat /\ account[m.user].row \in Row \cup {NoRow}
  BY <1>3, AccountTyped
<1>6. answered' \subseteq answered \cup {a}
  BY <1>2, SentAnswers
<1> HIDE DEF o
<1>7. /\ a \in Answer /\ a.page = m.page /\ a.gen = account[m.user].gen
      /\ a.row = account[m.user].row
  BY <1>4, <1>5 DEF Answer
<1> HIDE DEF a
<1>8. TypeOK'
  BY <1>1, <1>6, <1>7 DEF TypeOK
<1>9. ASSUME Ours PROVE Speaks
  <2>1. Real(Of(a.page), a.gen, Revision(a.row))
    <3>1. Of(a.page) = m.user /\ Revision(account[m.user].row) \in Nat
      BY <1>1, <1>3, <1>7, <1>9, AuthenticatedIsPerson, AccountTyped
    <3> QED
      BY <1>7, <3>1 DEF Real
  <2> QED
    BY <1>1, <1>6, <2>1 DEF Speaks
<1> QED
  BY <1>8, <1>9

LEMMA SessionEndsSpeaks ==
    ASSUME TypeOK, NEW b \in Browsers, SessionEnds(b)
    PROVE  TypeOK' /\ Speaks
<1>1. cookie' \in [Browsers -> Users \cup {NoOne}] /\ used' \in Used
  BY UsedMore DEF SessionEnds, TypeOK
<1> QED
  BY <1>1 DEF SessionEnds, TypeOK, Speaks

LEMMA TickSpeaks ==
    ASSUME TypeOK, Tick, Between
    PROVE  TypeOK' /\ (Ours => Speaks)
<1>1. TypeOK'
  BY DEF Tick, TypeOK
<1>2. ASSUME Ours PROVE Speaks
  <2>1. MaxClock # 0
    BY <1>2 DEF Tick, Ours, Sound, Still
  <2> QED
    BY <2>1 DEF Tick, Speaks, Between
<1> QED
  BY <1>1, <1>2

LEMMA SpeakingKeepsAll ==
    ASSUME TypeOK, TypeOK', Ours, Speaks
    PROVE  Sound'
<1>1. Onward
  BY DEF Speaks, Onward, GoesOn, TypeOK, Tab
<1>2. \A e \in Event : Good(e) => Good(e)'
  BY <1>1, GoodStays DEF Ours
<1>3. TabsTrue'
  <2>1. \A p \in Pages : tab[p].writing \subseteq Event
    BY DEF TypeOK, Tab
  <2> QED
    BY <1>2, <2>1 DEF Speaks, Ours, Sound, TabsTrue, Real
<1>4. DisksTrue'
  <2>1. \A b \in Browsers : disk[b].pending \cup disk[b].stash \subseteq Event
    BY DEF TypeOK, Disk
  <2> QED
    BY <1>2, <2>1 DEF Speaks, Ours, Sound, DisksTrue, Real
<1>5. AskedTrue'
  <2>1. \A m \in asked : m.events \subseteq Event
    BY DEF TypeOK, Ask
  <2> QED
    BY <1>2, <2>1 DEF Speaks, Ours, Sound, AskedTrue
<1>6. AnswersTrue'
  BY DEF Speaks, Ours, Sound, AnswersTrue, Real
<1>7. AccountsTrue'
  BY <1>1, AccountsStay DEF Speaks
<1>8. FilingTrue'
  <2>1. CASE clock' = clock
    BY <1>1, <2>1, FilingStays DEF Speaks
  <2>2. CASE filing = Idle
    BY <2>2 DEF Speaks, FilingTrue, Idle
  <2> QED
    BY <2>1, <2>2 DEF Speaks
<1>9. Still'
  BY DEF Speaks, Ours, Sound, Still
<1> QED
  BY <1>3, <1>4, <1>5, <1>6, <1>7, <1>8, <1>9 DEF Sound

-----------------------------------------------------------------------------
(* The transaction.                                                         *)

LEMMA MovedToRow ==
    ASSUME NEW e \in Event, NEW at \in Int, NEW row \in Row \cup {NoRow}
    PROVE  /\ MovedTo(e, at, row) \in Row /\ MovedTo(e, at, row) # NoRow
           /\ MovedTo(e, at, row).event = e
           /\ MovedTo(e, at, row).at = IF row # NoRow /\ ~e.explicit THEN row.at ELSE at
           /\ MovedTo(e, at, row).revision = Revision(row) + 1
<1> DEFINE t == IF row # NoRow /\ ~e.explicit THEN row.at ELSE at
           v == IF row = NoRow THEN 1 ELSE row.revision + 1
           r == [event |-> e, at |-> t, revision |-> v]
<1>1. t \in Int
  BY DEF Row
<1>2. v \in Nat \ {0} /\ v = Revision(row) + 1
  BY DEF Row, Revision
<1>3. MovedTo(e, at, row) = r
  BY DEF MovedTo
<1> HIDE DEF t, v
<1>4. r \in Row /\ r.event = e /\ r.at = t /\ r.revision = v
  BY <1>1, <1>2 DEF Row
<1> HIDE DEF r
<1>5. r # NoRow
  BY <1>4, NoRowAssumption
<1> QED
  BY <1>2, <1>3, <1>4, <1>5 DEF t

LEMMA JudgedTyped ==
    ASSUME TypeOK, NEW at \in Int
    PROVE  Clamped(at) \in Int /\ Correction(at) \in Int
<1>1. clock \in Int /\ FutureSkew \in Int /\ MaxCorrection \in Int
  BY ClockAssumption DEF TypeOK
<1> QED
  BY <1>1 DEF Clamped, Correction, Lesser, Greater

\* The time the server takes an event to be of.
Seen(e, shift) == Clamped(e.at + shift)

\* What becomes of an account when one event is filed.
LEMMA FiledAccount ==
    ASSUME TypeOK, NEW e \in Event, NEW u, NEW a \in Account, NEW shift,
           Seen(e, shift) \in Int, NEW d, d = Filed(e, u, a, shift), NEW at, at = Seen(e, shift)
    PROVE  /\ d \in Account /\ d.gen = a.gen /\ d.erased = a.erased
           /\ \/ d = a /\ ~Fileable(e, u, a)
              \/ /\ Fileable(e, u, a) /\ d.history = a.history \cup {e}
                 /\ \/ d.row = a.row
                    \/ Moves(e, at, a.row) /\ d.row = MovedTo(e, at, a.row)
<1> DEFINE h == a.history \cup {e}
           w == IF Moves(e, at, a.row) THEN MovedTo(e, at, a.row) ELSE a.row
           D == [a EXCEPT !.history = h, !.row = w]
<1>1. at \in Int
  OBVIOUS
<1>2. a.row \in Row \cup {NoRow} /\ h \in SUBSET Event
  BY DEF Account
<1>3. w \in Row \cup {NoRow}
  BY <1>1, <1>2, MovedToRow
<1>4. Filed(e, u, a, shift) = IF ~Fileable(e, u, a) THEN a ELSE D
  BY DEF Filed, Seen
<1>5. \/ w = a.row
      \/ Moves(e, at, a.row) /\ w = MovedTo(e, at, a.row)
  OBVIOUS
<1> HIDE DEF h, w
<1>6. /\ D \in Account /\ D.gen = a.gen /\ D.erased = a.erased
      /\ D.history = h /\ D.row = w
  BY <1>2, <1>3 DEF Account
<1> HIDE DEF D
<1>7. CASE ~Fileable(e, u, a)
  BY <1>4, <1>7
<1>8. CASE Fileable(e, u, a)
  BY <1>4, <1>5, <1>6, <1>8 DEF h
<1> QED
  BY <1>7, <1>8

\* The server leaves the pages and the browsers as they are.
LEMMA ServerKeepsPages ==
    ASSUME TypeOK, TypeOK', Ours, Onward, UNCHANGED <<tab, disk>>, asked' \subseteq asked,
           \A p \in Pages : account'[Of(p)].erased[p] <= tab[p].seq
    PROVE  TabsTrue' /\ DisksTrue' /\ AskedTrue'
           /\ \A m \in answered : Real(Of(m.page), m.gen, Revision(m.row))'
<1>1. \A e \in Event : Good(e) => Good(e)'
  BY GoodStays DEF Ours
<1>2. TabsTrue'
  <2> SUFFICES ASSUME NEW p \in Pages
               PROVE  /\ \A e \in tab[p].writing : e.page = p /\ Good(e)'
                      /\ Real(Of(p), tab[p].active, tab[p].known)'
                      /\ tab[p].next \in {NoOne, Of(p)}
                      /\ account'[Of(p)].erased[p] <= tab[p].seq
    BY DEF TabsTrue
  <2>1. tab[p].writing \subseteq Event /\ tab[p].active \in Nat /\ tab[p].known \in Nat
    BY DEF TypeOK, Tab
  <2>2. /\ \A e \in tab[p].writing : e.page = p /\ Good(e)
        /\ Real(Of(p), tab[p].active, tab[p].known)
        /\ tab[p].next \in {NoOne, Of(p)} /\ Of(p) \in Users
    BY Here DEF Ours, Sound, TabsTrue
  <2>3. Real(Of(p), tab[p].active, tab[p].known)'
    BY <2>1, <2>2, RealStays
  <2> QED
    BY <1>1, <2>1, <2>2, <2>3
<1>3. DisksTrue'
  <2> SUFFICES ASSUME NEW b \in Browsers
               PROVE  /\ \A e \in disk[b].pending \cup disk[b].stash :
                            Home[e.page] = b /\ Good(e)'
                      /\ Real(Person[b], disk[b].gen, Revision(disk[b].cached))'
                      /\ disk[b].owner \in {NoOne, Person[b]}
    BY DEF DisksTrue
  <2>1. /\ disk[b].pending \cup disk[b].stash \subseteq Event /\ disk[b].gen \in Nat
        /\ Revision(disk[b].cached) \in Nat
    BY RevisionIsNat DEF TypeOK, Disk
  <2>2. /\ \A e \in disk[b].pending \cup disk[b].stash : Home[e.page] = b /\ Good(e)
        /\ Real(Person[b], disk[b].gen, Revision(disk[b].cached))
        /\ disk[b].owner \in {NoOne, Person[b]} /\ Person[b] \in Users
    BY DEF Ours, Sound, DisksTrue
  <2>3. Real(Person[b], disk[b].gen, Revision(disk[b].cached))'
    BY <2>1, <2>2, RealStays
  <2> QED
    BY <1>1, <2>1, <2>2, <2>3
<1>4. AskedTrue'
  <2>1. \A m \in asked : m.events \subseteq Event
    BY DEF TypeOK, Ask
  <2> QED
    BY <1>1, <2>1 DEF Ours, Sound, AskedTrue
<1>5. ASSUME NEW m \in answered
      PROVE  Real(Of(m.page), m.gen, Revision(m.row))'
  <2>1. m \in Answer /\ m.page \in Pages /\ m.gen \in Nat /\ Revision(m.row) \in Nat
    BY RevisionIsNat DEF TypeOK, Answer
  <2>2. Real(Of(m.page), m.gen, Revision(m.row)) /\ Of(m.page) \in Users
    BY <2>1, Here DEF Ours, Sound, AnswersTrue
  <2> QED
    BY <2>1, <2>2, RealStays
<1> QED
  BY <1>2, <1>3, <1>4, <1>5

LEMMA BeginTyped ==
    ASSUME TypeOK, Begin
    PROVE  /\ TypeOK'
           /\ \E m \in asked :
                 /\ Authenticated(m) /\ asked' = asked \ {m}
                 /\ filing'.user = m.user /\ filing'.events = m.events
                 /\ filing'.left = m.events /\ filing'.shift = Correction(m.sent)
                 /\ filing'.draft = account[m.user] /\ filing'.page = m.page
<1>1. PICK m \in asked :
        /\ Authenticated(m)
        /\ asked' = asked \ {m}
        /\ filing' = [user |-> m.user, events |-> m.events, left |-> m.events,
                      shift |-> Correction(m.sent),
                      draft |-> account[m.user], unclaimed |-> FALSE,
                      page |-> m.page, guard |-> m.guard]
        /\ UNCHANGED <<clock, account, cookie, disk, tab, answered, queued,
                       muddled, carried, used>>
  BY DEF Begin
<1>2. /\ m \in Ask /\ m.user \in Users /\ m.page \in Pages /\ m.events \in SUBSET Event
      /\ m.sent \in Int /\ m.guard \in BOOLEAN
  BY <1>1, AuthenticatedIsPerson DEF TypeOK, Ask
<1>3. Correction(m.sent) \in Int /\ account[m.user] \in Account
  BY <1>2, JudgedTyped, AccountTyped
<1>4. filing' \in Batch
  BY <1>1, <1>2, <1>3 DEF Batch
<1> QED
  BY <1>1, <1>4 DEF TypeOK

LEMMA BeginKeepsAll ==
    ASSUME TypeOK, TypeOK', Ours, Begin
    PROVE  Sound'
<1>1. PICK m \in asked :
         /\ Authenticated(m) /\ asked' = asked \ {m}
         /\ filing'.user = m.user /\ filing'.events = m.events
         /\ filing'.left = m.events /\ filing'.shift = Correction(m.sent)
         /\ filing'.draft = account[m.user] /\ filing'.page = m.page
  BY BeginTyped
<1>2. UNCHANGED <<clock, account, disk, tab, answered>>
  BY DEF Begin
<1>3. m.user \in Users /\ m.page \in Pages /\ m.user = Of(m.page)
  BY <1>1, AuthenticatedIsPerson
<1>4. Onward
  BY <1>2 DEF Onward, GoesOn, TypeOK, Tab
<1>5. TabsTrue' /\ DisksTrue' /\ AskedTrue'
  BY <1>1, <1>2, <1>4, ServerKeepsPages DEF Ours, Sound, TabsTrue
<1>6. AnswersTrue'
  BY <1>2 DEF Ours, Sound, AnswersTrue, Real
<1>7. AccountsTrue'
  BY <1>2, <1>4, AccountsStay
<1>8. FilingTrue'
  <2> DEFINE a == account[m.user]
  <2>1. ASSUME NEW e \in m.events
        PROVE  Home[e.page] = Home[m.page] /\ Good(e)'
    <3>1. e \in Event
      BY DEF TypeOK, Ask
    <3>2. Home[e.page] = Home[m.page] /\ Good(e)
      BY DEF Ours, Sound, AskedTrue
    <3> QED
      BY <1>4, <3>1, <3>2, GoodStays DEF Ours
  <2>2. a.row # NoRow => a.row.event \in a.history /\ Timed(a.row)'
    BY <1>2, <1>3, TimedStays DEF Ours, Sound, AccountsTrue
  <2>3. \A e \in a.history : e.gen = a.gen
    BY <1>3 DEF Ours, Sound, AccountsTrue
  <2>4. MaxClock = 0 => (filing.shift = Correction(Skew[Home[filing.page]]))'
    BY <1>1, <1>2 DEF Ours, Sound, AskedTrue, Correction
  <2>5. (MovedOn(filing.draft, account[filing.user]))'
        /\ (NotBack(filing.draft, account[filing.user]))'
    <3>1. /\ filing'.draft = account'[filing'.user]
          /\ a.row # NoRow => a.row.event.seq \in Nat
      BY <1>1, <1>2, <1>3, AccountTyped DEF Row, Event
    <3> QED
      BY <1>1, <1>2, <3>1 DEF MovedOn, NotBack
  <2> QED
    BY <1>1, <1>2, <1>3, <2>1, <2>2, <2>3, <2>4, <2>5 DEF FilingTrue
<1>9. Still'
  BY <1>2 DEF Ours, Sound, Still
<1> QED
  BY <1>5, <1>6, <1>7, <1>8, <1>9 DEF Sound

LEMMA FileNextTyped ==
    ASSUME TypeOK, FileNext
    PROVE  /\ TypeOK'
           /\ \E e \in filing.left :
                 filing' = [filing EXCEPT
                    !.left = @ \ {e},
                    !.draft = Filed(e, filing.user, @, filing.shift),
                    !.unclaimed = filing'.unclaimed]
<1>1. PICK e \in filing.left :
        filing' = [filing EXCEPT
              !.left = @ \ {e},
              !.draft = Filed(e, filing.user, @, filing.shift),
              !.unclaimed = @ \/ (/\ Fileable(e, filing.user, filing.draft)
                                  /\ Unclaimed(e, filing.draft.row)
                                  /\ e.page = filing.page)]
  BY DEF FileNext
<1> DEFINE L == filing.left \ {e}
           D == Filed(e, filing.user, filing.draft, filing.shift)
           x == filing.unclaimed \/ (/\ Fileable(e, filing.user, filing.draft)
                                     /\ Unclaimed(e, filing.draft.row)
                                     /\ e.page = filing.page)
           f == [filing EXCEPT !.left = L, !.draft = D, !.unclaimed = x]
<1>2. filing \in Batch
  BY DEF TypeOK, FileNext
<1>3. filing' = f
  BY <1>1
<1>4. L \in SUBSET Event
  BY <1>2 DEF Batch
<1>5. D \in Account
  <2>1. e \in Event /\ filing.draft \in Account /\ filing.shift \in Int
    BY <1>2 DEF Batch
  <2>2. Seen(e, filing.shift) \in Int
    BY <2>1, JudgedTyped DEF Event, Seen
  <2> QED
    BY <2>1, <2>2, FiledAccount
<1>6. x \in BOOLEAN
  OBVIOUS
<1> HIDE DEF L, D, x
<1>7. f \in Batch /\ f.unclaimed = x
  BY <1>2, <1>4, <1>5, <1>6 DEF Batch
<1>8. TypeOK'
  BY <1>3, <1>7 DEF FileNext, TypeOK
<1> QED
  BY <1>3, <1>7, <1>8 DEF L, D

\* The event, as the server judges its time.
LEMMA JudgedAsStamped ==
    ASSUME TypeOK, NEW e \in Event, Stamped(e), MaxClock = 0, NEW shift,
           shift = Correction(Skew[Home[e.page]])
    PROVE  Seen(e, shift) = Judged(Home[e.page])
  BY DEF Stamped, Judged, Seen

LEMMA FilingGoesOn ==
    ASSUME TypeOK, Ours, FileNext, NEW e \in filing.left, NEW D,
           D = Filed(e, filing.user, filing.draft, filing.shift)
    PROVE  LET a == account[filing.user]
           IN  /\ D.gen = a.gen /\ D.erased = a.erased
               /\ \A g \in D.history : g \in a.history \cup filing.events /\ g.gen = a.gen
               /\ D.row # NoRow => D.row.event \in D.history /\ Timed(D.row)
               /\ MovedOn(D, a) /\ NotBack(D, a)
<1> DEFINE a == account[filing.user]
           d == filing.draft
           at == Seen(e, filing.shift)
<1>1. filing \in Batch /\ filing # Idle
  BY DEF TypeOK, FileNext
<1>2. /\ filing.user \in Users /\ filing.page \in Pages /\ filing.shift \in Int
      /\ e \in Event /\ d \in Account /\ a \in Account
  BY <1>1, AccountTyped DEF Batch
<1>3. /\ filing.user = Of(filing.page)
      /\ e \in filing.events
      /\ Home[e.page] = Home[filing.page] /\ Good(e)
      /\ d.gen = a.gen /\ d.erased = a.erased
      /\ \A g \in d.history : g \in a.history \cup filing.events /\ g.gen = a.gen
      /\ d.row # NoRow => d.row.event \in d.history /\ Timed(d.row)
      /\ MaxClock = 0 => filing.shift = Correction(Skew[Home[filing.page]])
      /\ MovedOn(d, a) /\ NotBack(d, a)
  BY <1>1 DEF Ours, Sound, FilingTrue
<1>4. /\ D \in Account /\ D.gen = d.gen /\ D.erased = d.erased
      /\ \/ D = d
         \/ /\ Fileable(e, filing.user, d) /\ D.history = d.history \cup {e}
            /\ \/ D.row = d.row
               \/ Moves(e, at, d.row) /\ D.row = MovedTo(e, at, d.row)
  <2> DEFINE u == filing.user
             shift == filing.shift
  <2>1. /\ d \in Account /\ e \in Event /\ D = Filed(e, u, d, shift)
        /\ at = Seen(e, shift) /\ Seen(e, shift) \in Int
    BY <1>2, JudgedTyped DEF Event, Seen
  <2> HIDE DEF u, shift, d, at
  <2>2. /\ D \in Account /\ D.gen = d.gen /\ D.erased = d.erased
        /\ \/ D = d
           \/ /\ Fileable(e, u, d) /\ D.history = d.history \cup {e}
              /\ \/ D.row = d.row
                 \/ Moves(e, at, d.row) /\ D.row = MovedTo(e, at, d.row)
    BY <2>1, FiledAccount
  <2> QED
    BY <2>2 DEF u
<1>5. /\ a.row \in Row \cup {NoRow} /\ d.row \in Row \cup {NoRow}
      /\ Revision(a.row) \in Nat /\ Revision(d.row) \in Nat /\ at \in Int
      /\ e.seq \in Nat /\ e.base \in Nat
  BY <1>2, RevisionIsNat, JudgedTyped DEF Account, Event, Seen
<1>6. CASE D = d
  BY <1>3, <1>6
<1>7. CASE /\ Fileable(e, filing.user, d) /\ D.history = d.history \cup {e}
           /\ D.row = d.row
  BY <1>3, <1>4, <1>7 DEF Fileable, BehindReset, MovedOn, NotBack
<1>8. CASE /\ Fileable(e, filing.user, d) /\ D.history = d.history \cup {e}
           /\ Moves(e, at, d.row) /\ D.row = MovedTo(e, at, d.row)
  <2>1. e.gen = a.gen
    BY <1>3, <1>8 DEF Fileable, BehindReset
  <2>2. \A g \in D.history : g \in a.history \cup filing.events /\ g.gen = a.gen
    BY <1>3, <1>8, <2>1
  <2>3. /\ D.row # NoRow /\ D.row.event = e /\ D.row.revision = Revision(d.row) + 1
        /\ D.row.at = IF d.row # NoRow /\ ~e.explicit THEN d.row.at ELSE at
    BY <1>2, <1>5, <1>8, MovedToRow
  <2>4. MaxClock = 0 => at = Judged(Home[e.page])
    BY <1>2, <1>3, JudgedAsStamped DEF Good
  <2>5. Timed(D.row)
    <3>1. CASE d.row # NoRow /\ ~e.explicit
      <4>1. e.page = d.row.event.page
        BY <1>8, <3>1 DEF Moves
      <4> QED
        BY <1>3, <2>3, <3>1, <4>1 DEF Timed
    <3>2. CASE ~(d.row # NoRow /\ ~e.explicit)
      BY <2>3, <2>4, <3>2 DEF Timed
    <3> QED
      BY <3>1, <3>2
  <2>6. Revision(d.row) >= Revision(a.row)
    <3>1. CASE d.row = a.row
      BY <1>5, <3>1
    <3>2. CASE d.row # NoRow /\ d.row.revision > Revision(a.row)
      BY <1>5, <3>2 DEF Revision, Row
    <3> QED
      BY <1>3, <3>1, <3>2 DEF MovedOn
  <2>7. MovedOn(D, a)
    BY <1>3, <1>5, <2>3, <2>6 DEF MovedOn
  <2>8. NotBack(D, a)
    <3> SUFFICES ASSUME MaxClock = 0, a.row # NoRow, a.row.event.page = e.page
                 PROVE  a.row.event.seq <= e.seq
      BY <2>3 DEF NotBack
    <3>1. /\ d.row # NoRow /\ d.row.at \in Int /\ d.row.revision \in Nat
          /\ d.row.event.seq \in Nat /\ a.row.event.seq \in Nat /\ a.row.revision \in Nat
          /\ Revision(a.row) = a.row.revision /\ Revision(d.row) = d.row.revision
      BY <1>3, <1>5 DEF MovedOn, Row, Event, Revision
    <3>2. at = Judged(Home[e.page]) /\ d.row.at = Judged(Home[d.row.event.page])
      BY <1>3, <2>4, <3>1 DEF Timed
    <3>3. CASE d.row = a.row
      <4>1. at = d.row.at
        BY <3>2, <3>3
      <4>2. e.base = d.row.revision => ~(e.seq < a.row.event.seq)
        <5>1. Overtaken(e) /\ account[Of(e.page)] = a
          BY <1>3 DEF Good, Of
        <5>2. e.seq < a.row.event.seq => e.base < a.row.revision
          BY <2>1, <5>1 DEF Overtaken
        <5> QED
          BY <1>5, <3>1, <3>3, <5>2
      <4> QED
        BY <1>5, <1>8, <3>1, <3>3, <4>1, <4>2 DEF Moves
    <3>4. CASE d.row # a.row
      <4>1. d.row.revision > Revision(a.row) /\ Home[d.row.event.page] = Home[filing.page]
        BY <1>3, <3>4 DEF MovedOn
      <4>2. at = d.row.at
        BY <1>3, <3>2, <4>1
      <4>3. e.base # d.row.revision
        <5>1. e.base <= Revision(a.row)
          <6>1. account[Of(e.page)] = a /\ a.gen \in Nat
            BY <1>2, <1>3 DEF Of, Account
          <6>2. Real(Of(e.page), e.gen, e.base)
            BY <1>3 DEF Good
          <6> QED
            BY <2>1, <6>1, <6>2 DEF Real
        <5> QED
          BY <1>5, <3>1, <4>1, <5>1
      <4>4. e.page = d.row.event.page /\ e.seq > d.row.event.seq
        BY <1>5, <1>8, <3>1, <4>2, <4>3 DEF Moves
      <4>5. a.row.event.seq <= d.row.event.seq
        BY <1>3, <3>1, <4>4 DEF NotBack
      <4> QED
        BY <1>5, <3>1, <4>4, <4>5
    <3> QED
      BY <3>3, <3>4
  <2> QED
    BY <1>3, <1>4, <1>8, <2>2, <2>3, <2>5, <2>7, <2>8
<1> QED
  BY <1>4, <1>6, <1>7, <1>8

LEMMA FileNextKeepsAll ==
    ASSUME TypeOK, TypeOK', Ours, FileNext
    PROVE  Sound'
<1>1. PICK e \in filing.left :
         filing' = [filing EXCEPT
            !.left = @ \ {e},
            !.draft = Filed(e, filing.user, @, filing.shift),
            !.unclaimed = filing'.unclaimed]
  BY FileNextTyped
<1> DEFINE a == account[filing.user]
<1>2. /\ UNCHANGED <<clock, account, disk, tab, asked, answered>>
      /\ filing \in Batch /\ filing # Idle
  BY DEF FileNext, TypeOK
<1>0. PICK D : D = Filed(e, filing.user, filing.draft, filing.shift)
  OBVIOUS
<1>3. /\ filing'.left \subseteq filing.left /\ filing'.draft = D
      /\ filing'.events = filing.events /\ filing'.user = filing.user
      /\ filing'.page = filing.page /\ filing'.shift = filing.shift
  BY <1>0, <1>1, <1>2 DEF Batch
<1>4. Onward
  BY <1>2 DEF Onward, GoesOn, TypeOK, Tab
<1>5. TabsTrue' /\ DisksTrue' /\ AskedTrue'
  BY <1>2, <1>4, ServerKeepsPages DEF Ours, Sound, TabsTrue
<1>6. AnswersTrue'
  BY <1>2 DEF Ours, Sound, AnswersTrue, Real
<1>7. AccountsTrue'
  BY <1>2, <1>4, AccountsStay
<1>8. /\ filing.user = Of(filing.page)
      /\ filing.left \subseteq filing.events
      /\ \A g \in filing.events : Home[g.page] = Home[filing.page] /\ Good(g)
      /\ MaxClock = 0 => filing.shift = Correction(Skew[Home[filing.page]])
  BY <1>2 DEF Ours, Sound, FilingTrue
<1>9. /\ D.gen = a.gen /\ D.erased = a.erased
      /\ \A g \in D.history : g \in a.history \cup filing.events /\ g.gen = a.gen
      /\ D.row # NoRow => D.row.event \in D.history /\ Timed(D.row)
      /\ MovedOn(D, a) /\ NotBack(D, a)
  BY <1>0, FilingGoesOn
<1>10. FilingTrue'
  <2>1. \A g \in filing.events : Good(g)'
    <3>1. filing.events \subseteq Event
      BY <1>2 DEF Batch
    <3> QED
      BY <1>4, <1>8, <3>1, GoodStays DEF Ours
  <2>2. D.row # NoRow => Timed(D.row)'
    BY <1>2, <1>9, TimedStays
  <2>3. MaxClock = 0 => (filing.shift = Correction(Skew[Home[filing.page]]))'
    BY <1>2, <1>3, <1>8 DEF Correction
  <2>4. (MovedOn(filing.draft, account[filing.user]))'
        /\ (NotBack(filing.draft, account[filing.user]))'
    BY <1>2, <1>3, <1>9 DEF MovedOn, NotBack
  <2>5. filing'.left \subseteq filing'.events
    BY <1>3, <1>8
  <2>6. filing'.draft.row # NoRow => Timed(filing.draft.row)'
    BY <1>3, <2>2 DEF Timed
  <2> QED
    BY <1>2, <1>3, <1>8, <1>9, <2>1, <2>3, <2>4, <2>5, <2>6 DEF FilingTrue
<1>11. Still'
  BY <1>2 DEF Ours, Sound, Still
<1> QED
  BY <1>5, <1>6, <1>7, <1>10, <1>11 DEF Sound

LEMMA CommitTyped ==
    ASSUME TypeOK, Commit
    PROVE  /\ TypeOK' /\ filing \in Batch /\ filing # Idle
           /\ account' = [account EXCEPT ![filing.user] = filing.draft]
           /\ \E m \in Answer :
                 /\ m.page = filing.page /\ m.gen = filing.draft.gen
                 /\ m.row = filing.draft.row /\ answered' \subseteq answered \cup {m}
           /\ filing' = Idle /\ UNCHANGED <<clock, disk, tab, asked>>
<1> DEFINE m == [kind |-> "filed", to |-> "events", page |-> filing.page,
                 user |-> filing.user, events |-> filing.events,
                 row |-> filing.draft.row, gen |-> filing.draft.gen,
                 unclaimed |-> filing.unclaimed, guard |-> filing.guard]
<1>1. filing \in Batch /\ filing # Idle
  BY DEF Commit, TypeOK
<1>2. /\ filing.user \in Users /\ filing.page \in Pages /\ filing.draft \in Account
      /\ filing.events \in SUBSET Event /\ filing.unclaimed \in BOOLEAN
      /\ filing.guard \in BOOLEAN
  BY <1>1 DEF Batch
<1>3. filing.draft.row \in Row \cup {NoRow} /\ filing.draft.gen \in Nat
  BY <1>2 DEF Account
<1>4. /\ m \in Answer /\ m.page = filing.page /\ m.gen = filing.draft.gen
      /\ m.row = filing.draft.row
  BY <1>2, <1>3 DEF Answer
<1>5. answered' = Sent(m)
  BY DEF Commit
<1> HIDE DEF m
<1>6. answered' \subseteq answered \cup {m}
  BY <1>5, SentAnswers
<1>7. account' = [account EXCEPT ![filing.user] = filing.draft]
      /\ filing' = Idle /\ UNCHANGED <<clock, cookie, disk, tab, asked, queued, muddled,
                                       carried, used>>
  BY DEF Commit
<1>8. account' \in [Users -> Account]
  BY <1>2, <1>7 DEF TypeOK
<1>9. TypeOK'
  BY <1>4, <1>6, <1>7, <1>8 DEF TypeOK
<1> QED
  BY <1>1, <1>4, <1>6, <1>7, <1>9

\* What the transaction leaves in the account it was for.
LEMMA CommitGoesOn ==
    ASSUME TypeOK, Ours, Commit
    PROVE  /\ Onward
           /\ \A v \in Users : v # filing.user => account'[v] = account[v]
           /\ filing.user \in Users /\ filing.user = Of(filing.page)
           /\ account'[filing.user] = filing.draft
           /\ filing.draft.gen = account[filing.user].gen
           /\ filing.draft.erased = account[filing.user].erased
           /\ \A e \in filing.draft.history :
                 e \in Event /\ Of(e.page) = filing.user /\ e.gen = filing.draft.gen /\ Good(e)
           /\ filing.draft.row # NoRow =>
                 filing.draft.row.event \in filing.draft.history /\ Timed(filing.draft.row)
           /\ NotBack(filing.draft, account[filing.user])
<1> DEFINE u == filing.user
           a == account[u]
           d == filing.draft
<1>1. /\ filing \in Batch /\ filing # Idle /\ account' = [account EXCEPT ![u] = d]
      /\ UNCHANGED <<clock, disk, tab, asked>>
  BY CommitTyped
<1>2. u \in Users /\ d \in Account /\ filing.page \in Pages /\ filing.events \subseteq Event
  BY <1>1 DEF Batch
<1>3. account'[u] = d /\ \A v \in Users : v # u => account'[v] = account[v]
  BY <1>1, <1>2 DEF TypeOK
<1>4. /\ u = Of(filing.page)
      /\ \A e \in filing.events : Home[e.page] = Home[filing.page] /\ Good(e)
      /\ d.gen = a.gen /\ d.erased = a.erased
      /\ \A e \in d.history : e \in a.history \cup filing.events /\ e.gen = a.gen
      /\ d.row # NoRow => d.row.event \in d.history /\ Timed(d.row)
      /\ MovedOn(d, a) /\ NotBack(d, a)
  BY <1>1 DEF Ours, Sound, FilingTrue
<1>5. ASSUME NEW e \in d.history
      PROVE  e \in Event /\ Of(e.page) = u /\ e.gen = d.gen /\ Good(e)
  <2>1. CASE e \in a.history
    BY <1>2, <1>4, <2>1, AccountTyped DEF Ours, Sound, AccountsTrue
  <2>2. CASE e \in filing.events
    BY <1>2, <1>4, <2>2 DEF Of
  <2> QED
    BY <1>4, <2>1, <2>2
<1>6. ASSUME NEW v \in Users PROVE GoesOn(v)
  <2>1. CASE v # u
    BY <1>3, <2>1 DEF GoesOn
  <2>2. CASE v = u
    BY <1>3, <1>4, <2>2 DEF GoesOn, MovedOn
  <2> QED
    BY <2>1, <2>2
<1>7. Onward
  BY <1>1, <1>6 DEF Onward, TypeOK, Tab
<1> QED
  BY <1>2, <1>3, <1>4, <1>5, <1>7

LEMMA CommitKeepsAll ==
    ASSUME TypeOK, TypeOK', Ours, Commit
    PROVE  Sound'
<1>1. PICK u, d, m :
        /\ u = filing.user /\ d = filing.draft /\ m.page = filing.page
        /\ m.gen = d.gen /\ m.row = d.row /\ answered' \subseteq answered \cup {m}
  BY CommitTyped
<1>2. filing' = Idle /\ UNCHANGED <<clock, disk, tab, asked>> /\ d \in Account
  BY <1>1, CommitTyped DEF Batch
<1>3. /\ Onward /\ u \in Users /\ u = Of(m.page)
      /\ \A v \in Users : v # u => account'[v] = account[v]
      /\ account'[u] = d /\ d.gen = account[u].gen /\ d.erased = account[u].erased
  BY <1>1, CommitGoesOn
<1>4. /\ \A e \in d.history : e \in Event /\ Of(e.page) = u /\ e.gen = d.gen /\ Good(e)
      /\ d.row # NoRow => d.row.event \in d.history /\ Timed(d.row)
  BY <1>1, CommitGoesOn
<1>5. \A p \in Pages : account'[Of(p)].erased[p] <= tab[p].seq
  BY <1>3, Here DEF Ours, Sound, TabsTrue
<1>6. /\ TabsTrue' /\ DisksTrue' /\ AskedTrue'
      /\ \A o \in answered : Real(Of(o.page), o.gen, Revision(o.row))'
  BY <1>2, <1>3, <1>5, ServerKeepsPages
<1>7. AnswersTrue'
  <2>1. d.gen \in Nat /\ Revision(d.row) \in Nat
    BY <1>2, RevisionIsNat DEF Account
  <2>2. Real(Of(m.page), m.gen, Revision(m.row))'
    BY <1>1, <1>3, <2>1 DEF Real
  <2> QED
    BY <1>1, <1>6, <2>2 DEF AnswersTrue
<1>8. AccountsTrue'
  <2> SUFFICES ASSUME NEW v \in Users
               PROVE  /\ \A e \in account'[v].history :
                            Of(e.page) = v /\ e.gen = account'[v].gen /\ Good(e)'
                      /\ account'[v].row # NoRow =>
                            /\ account'[v].row.event \in account'[v].history
                            /\ (Timed(account[v].row))'
    BY DEF AccountsTrue
  <2>1. CASE v = u
    <3>1. \A e \in d.history : Good(e)'
      BY <1>3, <1>4, GoodStays DEF Ours
    <3>2. d.row # NoRow => Timed(d.row)'
      BY <1>2, <1>4, TimedStays
    <3> QED
      BY <1>3, <1>4, <2>1, <3>1, <3>2 DEF Timed
  <2>2. CASE v # u
    <3>1. PICK a : a = account[v]
      OBVIOUS
    <3>2. a = account'[v] /\ a.history \subseteq Event
      BY <1>3, <2>2, <3>1, AccountTyped
    <3>3. /\ \A e \in a.history : Of(e.page) = v /\ e.gen = a.gen /\ Good(e)
          /\ a.row # NoRow => a.row.event \in a.history /\ Timed(a.row)
      BY <3>1 DEF Ours, Sound, AccountsTrue
    <3>4. \A e \in a.history : Good(e)'
      BY <1>3, <3>2, <3>3, GoodStays DEF Ours
    <3>5. a.row # NoRow => Timed(a.row)'
      BY <1>2, <3>3, TimedStays
    <3> QED
      BY <3>2, <3>3, <3>4, <3>5 DEF Timed
  <2> QED
    BY <2>1, <2>2
<1>9. FilingTrue' /\ Still'
  BY <1>2 DEF FilingTrue, Ours, Sound, Still
<1> QED
  BY <1>6, <1>7, <1>8, <1>9 DEF Sound

LEMMA EraseTyped ==
    ASSUME TypeOK, Erase
    PROVE  /\ TypeOK'
           /\ \E m \in asked, o \in Answer :
                 /\ Authenticated(m) /\ asked' = asked \ {m}
                 /\ account' = [account EXCEPT
                       ![m.user] = [row |-> NoRow, history |-> {}, gen |-> @.gen + 1,
                                    erased |-> MadeSoFar]]
                 /\ o.page = m.page /\ o.gen = account[m.user].gen + 1 /\ o.row = NoRow
                 /\ answered' \subseteq answered \cup {o}
           /\ UNCHANGED <<clock, filing, disk, tab>>
<1>1. PICK m \in asked :
        /\ Authenticated(m) /\ asked' = asked \ {m}
        /\ account' = [account EXCEPT
              ![m.user] = [row |-> NoRow, history |-> {}, gen |-> @.gen + 1,
                           erased |-> MadeSoFar]]
        /\ answered' = Sent([Reply(m, "erased") EXCEPT !.gen = account[m.user].gen + 1])
        /\ UNCHANGED <<clock, filing, cookie, disk, tab, queued, muddled, carried, used>>
  BY DEF Erase
<1> DEFINE r == Reply(m, "erased")
           g == account[m.user].gen + 1
           o == [r EXCEPT !.gen = g]
           h == {}
           a == [row |-> NoRow, history |-> h, gen |-> g, erased |-> MadeSoFar]
<1>2. m \in Ask /\ m.user \in Users
  BY <1>1, AuthenticatedIsPerson DEF TypeOK
<1>3. g \in Nat /\ account' = [account EXCEPT ![m.user] = a]
  BY <1>1, <1>2, AccountTyped
<1>4. MadeSoFar \in [Pages -> Nat]
  BY DEF MadeSoFar, TypeOK, Tab
<1>5. h \in SUBSET Event
  OBVIOUS
<1>6. r \in Answer /\ r.page = m.page /\ r.row = NoRow
  BY <1>2, ReplyAnswer
<1>7. answered' \subseteq answered \cup {o}
  BY <1>1, SentAnswers
<1> HIDE DEF r, g, h
<1>8. o \in Answer /\ o.page = m.page /\ o.row = NoRow /\ o.gen = g
  BY <1>3, <1>6 DEF Answer
<1>9. a \in Account
  BY <1>3, <1>4, <1>5 DEF Account
<1> HIDE DEF o, a
<1>10. account' \in [Users -> Account]
  BY <1>3, <1>9 DEF TypeOK
<1>11. TypeOK'
  BY <1>1, <1>7, <1>8, <1>10 DEF TypeOK
<1> QED
  BY <1>1, <1>7, <1>8, <1>11 DEF g

LEMMA EraseKeepsAll ==
    ASSUME TypeOK, TypeOK', Ours, Erase, Between
    PROVE  Sound'
<1>1. PICK m \in asked, o \in Answer :
        /\ Authenticated(m) /\ asked' = asked \ {m}
        /\ account' = [account EXCEPT
              ![m.user] = [row |-> NoRow, history |-> {}, gen |-> @.gen + 1,
                           erased |-> MadeSoFar]]
        /\ o.page = m.page /\ o.gen = account[m.user].gen + 1 /\ o.row = NoRow
        /\ answered' \subseteq answered \cup {o}
  BY EraseTyped
<1>2. PICK u : u = m.user
  OBVIOUS
<1>3. UNCHANGED <<clock, filing, disk, tab>>
  BY EraseTyped
<1>4. u \in Users /\ u = Of(o.page)
  BY <1>1, <1>2, AuthenticatedIsPerson
<1>5. /\ account'[u].row = NoRow /\ account'[u].history = {}
      /\ account'[u].gen = account[u].gen + 1 /\ account'[u].erased = MadeSoFar
      /\ \A v \in Users : v # u => account'[v] = account[v]
  BY <1>1, <1>2, <1>4 DEF TypeOK
<1>6. Onward
  <2>1. ASSUME NEW v \in Users PROVE GoesOn(v)
    <3>1. CASE v = u
      BY <1>5, <3>1, AccountTyped DEF GoesOn
    <3>2. CASE v # u
      BY <1>5, <3>2 DEF GoesOn
    <3> QED
      BY <3>1, <3>2
  <2> QED
    BY <1>3, <2>1 DEF Onward, TypeOK, Tab
<1>7. ASSUME NEW p \in Pages PROVE account'[Of(p)].erased[p] <= tab[p].seq
  <2>1. tab[p].seq \in Nat /\ Of(p) \in Users /\ account[Of(p)].erased[p] <= tab[p].seq
    BY Here DEF TypeOK, Tab, Ours, Sound, TabsTrue
  <2>2. CASE Of(p) = u
    BY <1>5, <2>1, <2>2 DEF MadeSoFar
  <2>3. CASE Of(p) # u
    BY <1>5, <2>1, <2>3
  <2> QED
    BY <2>2, <2>3
<1>8. /\ TabsTrue' /\ DisksTrue' /\ AskedTrue'
      /\ \A n \in answered : Real(Of(n.page), n.gen, Revision(n.row))'
  BY <1>1, <1>3, <1>6, <1>7, ServerKeepsPages
<1>9. AnswersTrue'
  <2>1. Real(Of(o.page), o.gen, Revision(o.row))'
    BY <1>1, <1>2, <1>4, <1>5 DEF Real, Revision
  <2> QED
    BY <1>1, <1>8, <2>1 DEF AnswersTrue
<1>10. AccountsTrue'
  <2> SUFFICES ASSUME NEW v \in Users
               PROVE  /\ \A e \in account'[v].history :
                            Of(e.page) = v /\ e.gen = account'[v].gen /\ Good(e)'
                      /\ account'[v].row # NoRow =>
                            /\ account'[v].row.event \in account'[v].history
                            /\ (Timed(account[v].row))'
    BY DEF AccountsTrue
  <2>1. CASE v = u
    BY <1>5, <2>1
  <2>2. CASE v # u
    <3>1. PICK a : a = account[v]
      OBVIOUS
    <3>2. a = account'[v] /\ a.history \subseteq Event
      BY <1>5, <2>2, <3>1, AccountTyped
    <3>3. /\ \A e \in a.history : Of(e.page) = v /\ e.gen = a.gen /\ Good(e)
          /\ a.row # NoRow => a.row.event \in a.history /\ Timed(a.row)
      BY <3>1 DEF Ours, Sound, AccountsTrue
    <3>4. \A e \in a.history : Good(e)'
      BY <1>6, <3>2, <3>3, GoodStays DEF Ours
    <3>5. a.row # NoRow => Timed(a.row)'
      BY <1>3, <3>3, TimedStays
    <3> QED
      BY <3>2, <3>3, <3>4, <3>5 DEF Timed
  <2> QED
    BY <2>1, <2>2
<1>11. FilingTrue' /\ Still'
  BY <1>3 DEF FilingTrue, Between, Idle, Ours, Sound, Still
<1> QED
  BY <1>8, <1>9, <1>10, <1>11 DEF Sound

-----------------------------------------------------------------------------
(* The invariant, and what follows from it.                                 *)

LEMMA UnreadTyped ==
    ASSUME NEW now \in Nat, NEW pages, NEW spent \in Used, Unread(now, pages, spent)
    PROVE  TypeOK
<1> DEFINE S == {}
           a == [row |-> NoRow, history |-> S, gen |-> 0, erased |-> [p \in Pages |-> 0]]
           d == [owner |-> NoOne, stash |-> S, pending |-> S, gen |-> 0, cached |-> NoRow]
           t(p) == [life |-> IF p \in pages THEN "new" ELSE "gone",
                    session |-> NoOne, asking |-> TRUE, purging |-> "no",
                    next |-> NoOne, reading |-> NoOne, seq |-> 0, known |-> 0,
                    active |-> 0, writing |-> S, flushing |-> FALSE, reclaimed |-> -1]
<1>1. /\ account = [u \in Users |-> a] /\ disk = [b \in Browsers |-> d]
      /\ tab = [p \in Pages |-> t(p)]
  BY DEF Unread
<1>2. S \in SUBSET Event
  OBVIOUS
<1> HIDE DEF S
<1>3. a \in Account
  BY <1>2 DEF Account
<1>4. d \in Disk
  BY <1>2 DEF Disk
<1>5. ASSUME NEW p \in Pages PROVE t(p) \in Tab
  BY <1>2 DEF Tab
<1> HIDE DEF a, d, t
<1>6. account \in [Users -> Account] /\ disk \in [Browsers -> Disk] /\ tab \in [Pages -> Tab]
  BY <1>1, <1>3, <1>4, <1>5
<1> QED
  BY <1>6 DEF Unread, TypeOK

LEMMA UnreadSound ==
    ASSUME TypeOK, Person \in [Browsers -> Users], NEW now, NEW pages, NEW spent,
           Unread(now, pages, spent), MaxClock = 0 => now = 0
    PROVE  Sound
<1>1. /\ \A p \in Pages : /\ tab[p].writing = {} /\ tab[p].active = 0 /\ tab[p].known = 0
                          /\ tab[p].next = NoOne /\ tab[p].seq = 0
      /\ \A u \in Users : /\ account[u].row = NoRow /\ account[u].history = {}
                          /\ account[u].gen = 0
                          /\ \A p \in Pages : account[u].erased[p] = 0
      /\ \A b \in Browsers : /\ disk[b].pending = {} /\ disk[b].stash = {}
                             /\ disk[b].gen = 0 /\ disk[b].cached = NoRow
                             /\ disk[b].owner = NoOne
      /\ asked = {} /\ answered = {} /\ filing = Idle /\ clock = now
  BY DEF Unread
<1>2. \A u \in Users : Real(u, 0, 0)
  BY RealNone
<1>3. TabsTrue
  BY <1>1, <1>2, OfUser DEF TabsTrue
<1>4. DisksTrue
  BY <1>1, <1>2 DEF DisksTrue, Revision
<1>5. AskedTrue /\ AnswersTrue /\ FilingTrue /\ Still
  BY <1>1 DEF AskedTrue, AnswersTrue, FilingTrue, Still
<1>6. AccountsTrue
  BY <1>1 DEF AccountsTrue
<1> QED
  BY <1>3, <1>4, <1>5, <1>6 DEF Sound

LEMMA InitTyped == Init => TypeOK
<1> DEFINE none == [resets |-> 0, signIns |-> 0, signOuts |-> 0, losses |-> 0,
                    deaths |-> 0, returns |-> 0]
<1>1. none \in Used
  BY DEF Used
<1>2. Init => Unread(0, Pages, none)
  BY DEF Init
<1> HIDE DEF none
<1> QED
  BY <1>1, <1>2, UnreadTyped

LEMMA InitSound == ASSUME Person \in [Browsers -> Users] PROVE Init => Sound
  BY InitTyped, UnreadSound DEF Init

\* What any step does.
Kept == Sound' /\ (account' = account \/ Commit \/ Erase)

LEMMA PageMoveKeeps ==
    ASSUME TypeOK, TypeOK', NEW p \in Pages, Ours => PageMove(p)
    PROVE  Ours => Kept
  BY PageKeepsAll DEF PageMove, Kept

LEMMA SpeakingKeeps ==
    ASSUME TypeOK, TypeOK', Ours => Speaks
    PROVE  Ours => Kept
  BY SpeakingKeepsAll DEF Speaks, Kept

LEMMA AccountStepKeeps ==
    ASSUME TypeOK, NEW p \in Pages, AccountStep(p)
    PROVE  TypeOK' /\ (Ours => Kept)
<1>1. ASSUME NEW u \in Users, SignIn(p, u) PROVE TypeOK' /\ (Ours => Kept)
  BY <1>1, SignInMoves, PageMoveKeeps
<1>2. CASE Open(p)
  BY <1>2, OpenMoves, PageMoveKeeps
<1>3. CASE Claim(p)
  BY <1>3, ClaimMoves, PageMoveKeeps
<1>4. CASE Purged(p)
  BY <1>4, PurgedMoves, PageMoveKeeps
<1>5. CASE SignOut(p)
  BY <1>5, SignOutMoves, PageMoveKeeps
<1>6. CASE SealQueue(p)
  BY <1>6, SealQueueMoves, PageMoveKeeps
<1>7. CASE FoundSignedOut(p)
  BY <1>7, FoundSignedOutMoves, PageMoveKeeps
<1> QED
  BY <1>1, <1>2, <1>3, <1>4, <1>5, <1>6, <1>7 DEF AccountStep

LEMMA PageStepKeeps ==
    ASSUME TypeOK, NEW p \in Pages, PageStep(p)
    PROVE  TypeOK' /\ (Ours => Kept)
<1>1. CASE Record(p)
  BY <1>1, RecordMoves, PageMoveKeeps
<1>2. CASE Store(p)
  BY <1>2, StoreMoves, PageMoveKeeps
<1>3. CASE Flush(p)
  BY <1>3, FlushMoves, PageMoveKeeps
<1>4. CASE Hide(p)
  BY <1>4, HideMoves, PageMoveKeeps
<1>5. CASE Show(p)
  BY <1>5, ShowMoves, PageMoveKeeps
<1>6. CASE Die(p)
  BY <1>6, DieMoves, PageMoveKeeps
<1>7. CASE OpenBook(p) \/ ResetBook(p)
  BY <1>7, AsksMove, PageMoveKeeps
<1>8. CASE TakePlace(p)
  BY <1>8, TakePlaceMoves, PageMoveKeeps
<1>9. CASE TakeAck(p)
  BY <1>9, TakeAckMoves, PageMoveKeeps
<1>10. CASE TakeErased(p)
  BY <1>10, TakeErasedMoves, PageMoveKeeps
<1>11. CASE TakeRefusal(p)
  BY <1>11, TakeRefusalMoves, PageMoveKeeps
<1> QED
  BY <1>1, <1>2, <1>3, <1>4, <1>5, <1>6, <1>7, <1>8, <1>9, <1>10, <1>11 DEF PageStep

LEMMA ServerStepKeeps ==
    ASSUME TypeOK, ServerStep
    PROVE  TypeOK' /\ (Ours => Kept)
<1>1. CASE FileNext
  BY <1>1, FileNextTyped, FileNextKeepsAll DEF Kept, FileNext
<1>2. CASE Commit
  BY <1>2, CommitTyped, CommitKeepsAll DEF Kept
<1>3. CASE Rollback \/ Lose
  <2>1. TypeOK' /\ (Ours => \E p \in Pages : PageMove(p))
    BY <1>3, RollbackMoves, LoseMoves
  <2> QED
    BY <2>1, PageMoveKeeps
<1>4. CASE Begin
  BY <1>4, BeginTyped, BeginKeepsAll DEF Kept, Begin
<1>5. CASE Between /\ (Refuse \/ TellPlace \/ Tick)
  <2>1. TypeOK' /\ (Ours => Speaks)
    BY <1>5, RefuseSpeaks, TellPlaceSpeaks, TickSpeaks
  <2> QED
    BY <2>1, SpeakingKeeps
<1>6. CASE Between /\ Erase
  BY <1>6, EraseTyped, EraseKeepsAll DEF Kept
<1> QED
  BY <1>1, <1>2, <1>3, <1>4, <1>5, <1>6 DEF ServerStep

LEMMA NextKeeps ==
    ASSUME TypeOK, [Next]_vars
    PROVE  TypeOK' /\ (Ours => Kept)
<1>1. CASE ServerStep
  BY <1>1, ServerStepKeeps
<1>2. CASE \E p \in Pages : AccountStep(p) \/ PageStep(p)
  BY <1>2, AccountStepKeeps, PageStepKeeps
<1>3. CASE \E b \in Browsers : Between /\ SessionEnds(b)
  <2>1. TypeOK' /\ Speaks
    BY <1>3, SessionEndsSpeaks
  <2> QED
    BY <2>1, SpeakingKeeps
<1>4. CASE UNCHANGED vars
  <2>1. TypeOK' /\ Speaks
    BY <1>4 DEF TypeOK, vars, Speaks
  <2> QED
    BY <2>1, SpeakingKeeps
<1> QED
  BY <1>1, <1>2, <1>3, <1>4 DEF Next

\* Whatever is stored, queued or under way has its type, whoever uses which
\* browser.
THEOREM TypeCorrect == Spec => []TypeOK
<1>1. TypeOK /\ [Next]_vars => TypeOK'
  BY NextKeeps
<1> QED
  BY <1>1, InitTyped, PTL DEF Spec

LEMMA AllIsSound ==
    ASSUME Person \in [Browsers -> Users]
    PROVE  Spec /\ []OwnBrowsers => [](TypeOK /\ Ours)
<1>1. Init => TypeOK /\ Sound
  BY InitTyped, InitSound
<1>2. TypeOK /\ Sound /\ OwnBrowsers /\ [Next]_vars => (TypeOK /\ Sound)'
  BY NextKeeps DEF Ours, Kept
<1>3. Sound /\ OwnBrowsers => Ours
  BY DEF Ours
<1> QED
  BY <1>1, <1>2, <1>3, PTL DEF Spec

\* After a reset, nothing the account's pages made before it comes back: not
\* by a request that was under way or lost, not by the queue or the stash of
\* any browser, and not by a tab that has not heard of the reset
\* (resetProgress, the barrier in applyProgressEvents, activeGenerations).
THEOREM ResetIsFinal ==
    ASSUME Person \in [Browsers -> Users]
    PROVE  Spec /\ []OwnBrowsers => []ErasedStaysErased
<1>1. ASSUME TypeOK, Ours PROVE ErasedStaysErased
  <2> SUFFICES ASSUME NEW u \in Users
               PROVE  /\ \A e \in account[u].history : e.seq > account[u].erased[e.page]
                      /\ account[u].row # NoRow =>
                            LET e == account[u].row.event
                            IN  e.seq > account[u].erased[e.page]
    BY DEF ErasedStaysErased
  <2>1. \A e \in account[u].history : e.seq > account[u].erased[e.page]
    BY <1>1 DEF Ours, Sound, AccountsTrue, Good, Fresh
  <2>2. account[u].row # NoRow => account[u].row.event \in account[u].history
    BY <1>1 DEF Ours, Sound, AccountsTrue
  <2> QED
    BY <2>1, <2>2
<1> QED
  BY <1>1, AllIsSound, PTL

\* No queued checkpoint claims to have seen a revision that its account never
\* had (knownRevision and activeGenerations of the engine).
THEOREM RevisionsWereSeen ==
    ASSUME Person \in [Browsers -> Users]
    PROVE  Spec /\ []OwnBrowsers => []CausalityIsReal
<1>1. ASSUME TypeOK, Ours PROVE CausalityIsReal
  <2> SUFFICES ASSUME NEW b \in Browsers, NEW e \in disk[b].pending,
                      e.owner = disk[b].owner, e.gen = account[e.owner].gen
               PROVE  e.base <= Revision(account[e.owner].row)
    BY DEF CausalityIsReal
  <2>1. e.owner \in Users /\ e.gen \in Nat
    BY <1>1 DEF TypeOK, Disk, Event
  <2>2. Home[e.page] = b /\ Good(e) /\ disk[b].owner \in {NoOne, Person[b]}
    BY <1>1 DEF Ours, Sound, DisksTrue
  <2>3. e.owner = Of(e.page)
    BY <2>1, <2>2, NobodyAssumption DEF Of
  <2> QED
    BY <2>1, <2>2, <2>3 DEF Good, Real
<1> QED
  BY <1>1, AllIsSound, PTL

\* The places of one session are filed in the order they were made, for any
\* number of pages, whatever is lost, sent twice or late, and whichever of its
\* requests is filed first, as long as no time passes between what a page
\* sends and what the server judges (applyProgressEvents, decideApply).
THEOREM SessionsAreInOrder ==
    ASSUME Person \in [Browsers -> Users], MaxClock = 0
    PROVE  Spec /\ []OwnBrowsers => SessionsMoveForward
<1> DEFINE Forward == \A u \in Users :
                        LET was == account[u].row
                            is == account'[u].row
                        IN (/\ was # NoRow /\ is # NoRow
                            /\ was.event.page = is.event.page)
                           => was.event.seq <= is.event.seq
<1>1. ASSUME TypeOK, Ours, [Next]_vars PROVE [Forward]_vars
  <2> SUFFICES ASSUME NEW u \in Users, account[u].row # NoRow, account'[u].row # NoRow,
                      account[u].row.event.page = account'[u].row.event.page
               PROVE  account[u].row.event.seq <= account'[u].row.event.seq
    OBVIOUS
  <2>1. account[u].row.event.seq \in Nat
    BY <1>1, AccountTyped DEF Row, Event
  <2>2. CASE account' = account
    BY <2>1, <2>2
  <2>3. CASE Commit
    <3>1. /\ \A v \in Users : v # filing.user => account'[v] = account[v]
          /\ account'[filing.user] = filing.draft
          /\ NotBack(filing.draft, account[filing.user])
      BY <1>1, <2>3, CommitGoesOn
    <3>2. CASE u = filing.user
      BY <3>1, <3>2 DEF NotBack
    <3>3. CASE u # filing.user
      BY <2>1, <3>1, <3>3
    <3> QED
      BY <3>2, <3>3
  <2>4. CASE Erase
    <3>1. PICK m \in asked :
             account' = [account EXCEPT
                ![m.user] = [row |-> NoRow, history |-> {}, gen |-> @.gen + 1,
                             erased |-> MadeSoFar]]
      BY <1>1, <2>4, EraseTyped
    <3>2. CASE u = m.user
      BY <1>1, <3>1, <3>2 DEF TypeOK
    <3>3. CASE u # m.user
      BY <1>1, <2>1, <3>1, <3>3 DEF TypeOK
    <3> QED
      BY <3>2, <3>3
  <2> QED
    BY <1>1, <2>2, <2>3, <2>4, NextKeeps DEF Kept
<1>2. Spec /\ []OwnBrowsers => [][Forward]_vars
  BY <1>1, AllIsSound, PTL DEF Spec
<1> QED
  BY <1>2 DEF SessionsMoveForward

-----------------------------------------------------------------------------
(* Whose reading it is, and what is kept for it, whoever uses the browser.  *)

Own(e) == e.by = e.owner

\* A page reads for the account it has, or is about to have.
ReadsOwn(t) ==
    t.reading # NoOne => /\ t.session \in {NoOne, t.reading}
                         /\ t.next \in {NoOne, t.reading}

Turning(t) ==
    /\ t.next # NoOne => t.purging = "clearing" /\ t.session = NoOne
    /\ t.life = "new" => /\ t.session = NoOne /\ t.reading = NoOne
                         /\ t.next = NoOne /\ t.purging = "no"

\* A stated place leaves its page once: what was stored is not written again.
Passed(e) ==
    e.explicit => e.seq <= tab[e.page].seq /\ e \notin tab[e.page].writing

OwnAccount(u, a) ==
    /\ \A e \in a.history : e.owner = u /\ Own(e)
    /\ a.row # NoRow => a.row.event.owner = u /\ Own(a.row.event)

\* Where events are, and whom a batch or an answer is for.
Origins ==
    /\ \A p \in Pages : /\ Turning(tab[p])
                        /\ \A e \in tab[p].writing : e.page = p /\ e.seq <= tab[p].seq
    /\ \A b \in Browsers :
          /\ \A e \in disk[b].stash : Home[e.page] = b /\ ~e.explicit
          /\ \A e \in disk[b].pending : Home[e.page] = b /\ Passed(e)
    /\ \A m \in asked : \A e \in m.events : e.owner = m.owner /\ Passed(e)
    /\ \A m \in answered :
          /\ \A e \in m.events : Passed(e)
          /\ m.kind \notin {"denied", "refused"} =>
                m.user \in Users /\ m.gen <= account[m.user].gen
    /\ filing # Idle =>
          /\ \A e \in filing.events : e.owner = filing.user /\ Passed(e)
          /\ filing.left \subseteq filing.events
          /\ filing.draft.gen = account[filing.user].gen
          /\ account[filing.user].history \subseteq filing.draft.history

\* Every event is of the reading of the account that it names.
Owned ==
    /\ \A p \in Pages : ReadsOwn(tab[p]) /\ \A e \in tab[p].writing : Own(e)
    /\ \A b \in Browsers : \A e \in disk[b].stash \cup disk[b].pending : Own(e)
    /\ \A m \in asked : \A e \in m.events : Own(e)
    /\ \A u \in Users : OwnAccount(u, account[u])
    /\ filing # Idle => /\ \A e \in filing.events : Own(e)
                        /\ OwnAccount(filing.user, filing.draft)

\* The account has the event, or had it before a reset.
Has(e) == e \in account[e.owner].history \/ e.gen < account[e.owner].gen

\* The queue of a browser is of its owner and of a generation the owner had;
\* while it is cleared it is nobody's, and then it is new.
Handed ==
    \A b \in Browsers :
        /\ \A p \in Pages : Home[p] = b /\ tab[p].purging = "clearing" => disk[b].owner = NoOne
        /\ disk[b].owner # NoOne => disk[b].gen <= account[disk[b].owner].gen
        /\ disk[b].owner = NoOne =>
              \/ disk[b].gen = 0
              \/ \E p \in Pages : Home[p] = b /\ tab[p].purging = "clearing"
        /\ \A e \in queued : Home[e.page] = b => e.owner = disk[b].owner

\* A queued place waits, or its account has it; when its batch was answered, its
\* account has it.
Waits ==
    /\ Handed
    /\ \A e \in queued : e.gen <= account[e.owner].gen
    /\ \A e \in queued : e.explicit => e \in disk[Home[e.page]].pending \/ Has(e)
    /\ \A m \in answered : m.kind = "filed" => \A e \in m.events \cap queued : e.explicit => Has(e)
    /\ filing # Idle =>
          \A e \in queued : e.explicit /\ e \in filing.events \ filing.left =>
              e \in filing.draft.history \/ e.gen < filing.draft.gen

Whose == Origins /\ (~carried => Owned) /\ (~muddled => Waits)

\* The event that the page makes in this step.
Authors(p, r, e) ==
    /\ e.page = p /\ e.seq = tab[p].seq + 1 /\ r.seq = e.seq
    /\ ReadsOwn(tab[p]) => Own(e)

\* What a step of a page may do to it and to its browser.
Moved(p) ==
    LET t == tab[p]
        r == tab'[p]
        d == disk[Home[p]]
        f == disk'[Home[p]]
    IN  /\ \A q \in Pages \ {p} : tab'[q] = tab[q]
        /\ \A c \in Browsers \ {Home[p]} : disk'[c] = disk[c]
        /\ account' = account /\ filing' = Idle /\ answered' \subseteq answered
        /\ carried => carried'
        /\ muddled => muddled'
        /\ r.seq >= t.seq /\ Turning(r) /\ (~carried' /\ ReadsOwn(t) => ReadsOwn(r))
        /\ \A e \in r.writing : e \in t.writing \/ Authors(p, r, e)
        /\ \A e \in f.stash : e \in d.stash \/ (Authors(p, r, e) /\ ~e.explicit)
        /\ \A e \in f.pending :
              e \in d.pending \cup d.stash \/ (e \in t.writing /\ e \notin r.writing)
        /\ \A m \in asked' :
              \/ m \in asked
              \/ \A e \in m.events :
                    e.owner = m.owner /\ (e \in d.pending \/ (Authors(p, r, e) /\ ~e.explicit))

\* And what becomes of the queue.
HandsOn(p) ==
    LET b == Home[p]
        t == tab[p]
        d == disk[b]
        f == disk'[b]
    IN  /\ \A q \in Pages : Home[q] = b /\ tab'[q].purging = "clearing" => f.owner = NoOne
        /\ f.owner # NoOne => f.gen <= account[f.owner].gen
        /\ f.owner = NoOne =>
              \/ f.gen = 0
              \/ \E q \in Pages : Home[q] = b /\ tab'[q].purging = "clearing"
        /\ \A e \in queued' : Home[e.page] = b => e.owner = f.owner
        /\ \A e \in queued' :
              \/ e \in queued
              \/ e \in f.pending /\ e.gen <= account[e.owner].gen /\ (e.explicit => e \in t.writing)
        /\ \A e \in queued' : e.explicit /\ e \in d.pending => e \in f.pending \/ Has(e)

LEMMA MovedOrigins ==
    ASSUME TypeOK, TypeOK', Origins, NEW p \in Pages, Moved(p)
    PROVE  Origins'
<1> DEFINE b == Home[p]
           t == tab[p]
           r == tab'[p]
<1>1. b \in Browsers /\ t \in Tab /\ r \in Tab /\ t.seq \in Nat /\ r.seq \in Nat
  BY HomeAssumption DEF TypeOK, Tab
<1>2. \A e \in Event : Passed(e) => Passed(e)'
  <2> SUFFICES ASSUME NEW e \in Event, Passed(e), e.explicit
               PROVE  e.seq <= tab'[e.page].seq /\ e \notin tab'[e.page].writing
    BY DEF Passed
  <2>1. e.page \in Pages /\ e.seq \in Nat /\ tab[e.page].seq \in Nat
    BY DEF Event, TypeOK, Tab
  <2>2. CASE e.page = p
    BY <1>1, <2>1, <2>2 DEF Passed, Moved, Authors
  <2>3. CASE e.page # p
    BY <2>1, <2>3 DEF Passed, Moved
  <2> QED BY <2>2, <2>3
<1>3. ASSUME NEW q \in Pages
      PROVE  Turning(tab'[q]) /\ \A e \in tab'[q].writing : e.page = q /\ e.seq <= tab'[q].seq
  <2>1. CASE q = p
    <3>1. ASSUME NEW e \in r.writing PROVE e.page = p /\ e.seq <= r.seq
      <4>1. e \in Event /\ e.seq \in Nat
        BY <1>1 DEF Tab, Event
      <4> QED BY <1>1, <4>1, <3>1 DEF Origins, Moved, Authors
    <3> QED BY <2>1, <3>1 DEF Moved
  <2>2. CASE q # p
    BY <2>2 DEF Origins, Moved
  <2> QED BY <2>1, <2>2
<1>4. ASSUME NEW c \in Browsers
      PROVE  /\ \A e \in disk'[c].stash : Home[e.page] = c /\ ~e.explicit
             /\ \A e \in disk'[c].pending : Home[e.page] = c /\ Passed(e)'
  <2>1. disk[c] \in Disk /\ disk'[c] \in Disk
    BY DEF TypeOK
  <2>2. CASE c = b
    <3>1. ASSUME NEW e \in disk'[c].stash PROVE Home[e.page] = c /\ ~e.explicit
      BY <2>2, <3>1 DEF Origins, Moved, Authors
    <3>2. ASSUME NEW e \in disk'[c].pending PROVE Home[e.page] = c /\ Passed(e)'
      <4>1. e \in Event /\ e.seq \in Nat
        BY <2>1 DEF Disk, Event
      <4>2. CASE e \in disk[b].pending
        BY <1>2, <2>2, <4>1, <4>2 DEF Origins
      <4>3. CASE e \in disk[b].stash
        <5>1. Home[e.page] = c /\ ~e.explicit
          BY <2>2, <4>3 DEF Origins
        <5> QED BY <5>1 DEF Passed
      <4>4. CASE e \in t.writing /\ e \notin r.writing
        <5>1. e.page = p /\ e.seq <= t.seq /\ r.seq >= t.seq
          BY <4>4 DEF Origins, Moved
        <5> QED BY <1>1, <2>2, <4>1, <4>4, <5>1 DEF Passed
      <4> QED BY <2>2, <4>2, <4>3, <4>4 DEF Moved
    <3> QED BY <3>1, <3>2
  <2>3. CASE c # b
    <3>1. disk'[c] = disk[c] /\ \A e \in disk[c].pending : e \in Event
      BY <2>1, <2>3 DEF Moved, Disk
    <3> QED BY <1>2, <2>3, <3>1 DEF Origins
  <2> QED BY <2>2, <2>3
<1>5. ASSUME NEW m \in asked', NEW e \in m.events PROVE e.owner = m.owner /\ Passed(e)'
  <2>1. e \in Event
    BY <1>5 DEF TypeOK, Ask
  <2>2. CASE m \in asked
    BY <1>2, <2>1, <2>2 DEF Origins
  <2>3. CASE m \notin asked
    <3>1. e.owner = m.owner /\ (e \in disk[b].pending \/ ~e.explicit)
      BY <2>3 DEF Moved
    <3>2. ~e.explicit => Passed(e)'
      BY DEF Passed
    <3>3. e \in disk[b].pending => Passed(e)'
      BY <1>1, <1>2, <2>1 DEF Origins
    <3> QED BY <3>1, <3>2, <3>3
  <2> QED BY <2>2, <2>3
<1>6. ASSUME NEW m \in answered'
      PROVE  /\ \A e \in m.events : Passed(e)'
             /\ m.kind \notin {"denied", "refused"} =>
                   m.user \in Users /\ m.gen <= account'[m.user].gen
  <2>1. m \in answered /\ account' = account /\ \A e \in m.events : e \in Event
    BY <1>6 DEF Moved, TypeOK, Answer
  <2> QED BY <1>2, <2>1 DEF Origins
<1>7. filing' = Idle
  BY DEF Moved
<1> QED BY <1>3, <1>4, <1>5, <1>6, <1>7 DEF Origins

LEMMA MovedOwned ==
    ASSUME TypeOK, TypeOK', Origins, Owned, NEW p \in Pages, Moved(p), ~carried'
    PROVE  Owned'
<1>1. Home[p] \in Browsers /\ ReadsOwn(tab[p])
  BY HomeAssumption DEF Owned
<1>2. ASSUME NEW q \in Pages
      PROVE  ReadsOwn(tab'[q]) /\ \A e \in tab'[q].writing : Own(e)
  BY <1>1 DEF Owned, Moved, Authors
<1>3. ASSUME NEW b \in Browsers, NEW e \in disk'[b].stash \cup disk'[b].pending PROVE Own(e)
  BY <1>1, <1>3 DEF Owned, Moved, Authors
<1>4. ASSUME NEW m \in asked', NEW e \in m.events PROVE Own(e)
  BY <1>1, <1>4 DEF Owned, Moved, Authors
<1>5. account' = account /\ filing' = Idle
  BY DEF Moved
<1> QED BY <1>2, <1>3, <1>4, <1>5 DEF Owned

LEMMA MovedWaits ==
    ASSUME TypeOK, TypeOK', Origins, Waits, NEW p \in Pages, Moved(p), HandsOn(p)
    PROVE  Waits'
<1> DEFINE b == Home[p]
<1>1. b \in Browsers /\ tab[p] \in Tab /\ queued' \subseteq Event /\ queued \subseteq Event
  BY HomeAssumption DEF TypeOK
<1>2. account' = account /\ filing' = Idle /\ \A e : Has(e)' <=> Has(e)
  BY DEF Moved, Has
<1>3. ASSUME NEW e \in queued' PROVE e \in queued \/ Home[e.page] = b
  <2>1. e \in queued \/ e \in disk'[b].pending
    BY DEF HandsOn
  <2>2. Origins'
    BY MovedOrigins
  <2> QED BY <1>1, <2>1, <2>2 DEF Origins
<1>4. ASSUME NEW c \in Browsers
      PROVE  /\ \A q \in Pages : Home[q] = c /\ tab'[q].purging = "clearing" => disk'[c].owner = NoOne
             /\ disk'[c].owner # NoOne => disk'[c].gen <= account'[disk'[c].owner].gen
             /\ disk'[c].owner = NoOne =>
                   \/ disk'[c].gen = 0
                   \/ \E q \in Pages : Home[q] = c /\ tab'[q].purging = "clearing"
             /\ \A e \in queued' : Home[e.page] = c => e.owner = disk'[c].owner
  <2>1. CASE c = b
    BY <1>2, <2>1 DEF HandsOn
  <2>2. CASE c # b
    <3>1. disk'[c] = disk[c] /\ \A q \in Pages : Home[q] = c => tab'[q] = tab[q]
      BY <2>2 DEF Moved
    <3>2. \A e \in queued' : Home[e.page] = c => e \in queued
      BY <1>3, <2>2
    <3> QED BY <1>2, <3>1, <3>2 DEF Waits, Handed
  <2> QED BY <2>1, <2>2
<1>5. ASSUME NEW e \in queued' PROVE e.gen <= account'[e.owner].gen
  BY <1>2 DEF HandsOn, Waits
<1>6. ASSUME NEW e \in queued', e.explicit
      PROVE  e \in disk'[Home[e.page]].pending \/ Has(e)
  <2>1. Home[e.page] \in Browsers
    BY <1>1, HomeAssumption DEF Event
  <2>2. CASE e \in queued /\ Home[e.page] # b
    BY <1>6, <2>1, <2>2 DEF Waits, Moved
  <2>3. CASE e \in queued /\ Home[e.page] = b
    BY <1>6, <2>3 DEF Waits, HandsOn
  <2>4. CASE e \notin queued
    BY <1>3, <2>4 DEF HandsOn
  <2> QED BY <2>2, <2>3, <2>4
<1>7. ASSUME NEW m \in answered', m.kind = "filed", NEW e \in m.events \cap queued', e.explicit
      PROVE  Has(e)
  <2>1. m \in answered
    BY DEF Moved
  <2>2. CASE e \in queued
    BY <1>7, <2>1, <2>2 DEF Waits
  <2>3. CASE e \notin queued
    <3>1. e \in tab[p].writing
      BY <1>7, <2>3 DEF HandsOn
    <3>2. e.page = p /\ Passed(e)
      BY <2>1, <3>1 DEF Origins
    <3> QED BY <1>7, <3>1, <3>2 DEF Passed
  <2> QED BY <2>2, <2>3
<1> QED BY <1>2, <1>4, <1>5, <1>6, <1>7 DEF Waits, Handed


\* A step that moves no page and nothing of a browser.
LEMMA StillWhose ==
    ASSUME TypeOK, TypeOK', Whose, UNCHANGED <<disk, queued, muddled, carried, tab, account>>,
           filing' = filing, asked' \subseteq asked,
           \A m \in answered' : \/ m \in answered
                                \/ m.events = {} /\ m.kind \in {"denied", "refused"}
                                \/ /\ m.events = {} /\ m.kind # "filed"
                                   /\ m.user \in Users /\ m.gen <= account[m.user].gen
    PROVE  Whose'
<1>1. \A e : (Passed(e)' <=> Passed(e)) /\ (Has(e)' <=> Has(e))
  BY DEF Passed, Has
<1>2. Origins'
  BY <1>1 DEF Whose, Origins
<1>3. ~carried => Owned'
  BY DEF Whose, Owned
<1>4. ~muddled => Waits'
  BY <1>1 DEF Whose, Waits, Handed
<1> QED BY <1>2, <1>3, <1>4 DEF Whose

LEMMA QuietWhose ==
    ASSUME TypeOK, TypeOK', Whose,
           Refuse \/ TellPlace \/ Tick \/ (\E b \in Browsers : SessionEnds(b)) \/ UNCHANGED vars
    PROVE  Whose'
<1>1. CASE Refuse
  <2>1. PICK m \in asked :
           /\ asked' = asked \ {m}
           /\ answered' \in {Sent(Reply(m, "denied")), Sent(Reply(m, "refused"))}
           /\ UNCHANGED <<clock, account, filing, cookie, disk, tab, queued, muddled, carried, used>>
    BY <1>1 DEF Refuse
  <2>2. \A n \in answered' : n \in answered \/ (n.events = {} /\ n.kind \in {"denied", "refused"})
    BY <2>1 DEF Sent, Reply
  <2> QED BY <2>1, <2>2, StillWhose
<1>2. CASE TellPlace
  <2>1. PICK m \in asked :
           /\ m.kind \in {"get", "peek"} /\ Authenticated(m)
           /\ asked' = asked \ {m}
           /\ answered' = Sent(
                 [Reply(m, IF m.kind = "get" THEN "state" ELSE "peeked") EXCEPT
                     !.row = account[m.user].row, !.gen = account[m.user].gen])
           /\ UNCHANGED <<clock, account, filing, cookie, disk, tab, queued, muddled, carried, used>>
    BY <1>2 DEF TellPlace
  <2>2. m.user \in Users /\ account[m.user].gen \in Nat
    BY <2>1 DEF Authenticated, TypeOK, Ask, Account
  <2> DEFINE k == IF m.kind = "get" THEN "state" ELSE "peeked"
             place == account[m.user].row
             gen == account[m.user].gen
             a == [Reply(m, k) EXCEPT !.row = place, !.gen = gen]
  <2>3. a.events = {} /\ a.kind = k /\ a.user = m.user /\ a.gen = gen
    <3> HIDE DEF k, place, gen
    <3> QED BY DEF Reply
  <2>4. answered' \subseteq answered \cup {a} /\ k \in {"state", "peeked"}
    BY <2>1 DEF Sent
  <2> HIDE DEF a, k
  <2>5. \A n \in answered' : n \in answered \/
           (n.events = {} /\ n.kind # "filed" /\ n.user \in Users /\ n.gen <= account[n.user].gen)
    BY <2>2, <2>3, <2>4
  <2> QED BY <2>1, <2>5, StillWhose
<1>3. CASE Tick \/ (\E b \in Browsers : SessionEnds(b)) \/ UNCHANGED vars
  BY <1>3, StillWhose DEF Tick, SessionEnds, vars
<1> QED BY <1>1, <1>2, <1>3

LEMMA BeginWhose ==
    ASSUME TypeOK, TypeOK', Whose, Begin
    PROVE  Whose'
<1>1. PICK m \in asked :
        /\ m.kind = "events" /\ Authenticated(m) /\ m.owner = m.user
        /\ asked' = asked \ {m}
        /\ filing' = [user |-> m.user, events |-> m.events, left |-> m.events,
                      shift |-> Correction(m.sent),
                      draft |-> account[m.user], unclaimed |-> FALSE,
                      page |-> m.page, guard |-> m.guard]
        /\ UNCHANGED <<clock, account, cookie, disk, tab, answered, queued, muddled, carried, used>>
  BY DEF Begin
<1>2. /\ m.user \in Users /\ filing'.user = m.user /\ filing'.events = m.events
      /\ filing'.left = m.events /\ filing'.draft = account[m.user]
  BY <1>1 DEF Authenticated, TypeOK, Ask
<1>3. \A e : (Passed(e)' <=> Passed(e)) /\ (Has(e)' <=> Has(e))
  BY <1>1 DEF Passed, Has
<1>4. Origins'
  <2>1. \A e \in filing'.events : e.owner = filing'.user /\ Passed(e)
    BY <1>1, <1>2 DEF Whose, Origins
  <2>2. \A n \in asked' : \A e \in n.events : e.owner = n.owner /\ Passed(e)
    BY <1>1 DEF Whose, Origins
  <2>3. /\ \A q \in Pages : Turning(tab'[q])
                        /\ \A e \in tab'[q].writing : e.page = q /\ e.seq <= tab'[q].seq
        /\ \A b \in Browsers :
              /\ \A e \in disk'[b].stash : Home[e.page] = b /\ ~e.explicit
              /\ \A e \in disk'[b].pending : Home[e.page] = b /\ Passed(e)
        /\ \A n \in answered' :
              /\ \A e \in n.events : Passed(e)
              /\ n.kind \notin {"denied", "refused"} =>
                    n.user \in Users /\ n.gen <= account'[n.user].gen
    BY <1>1 DEF Whose, Origins
  <2> QED BY <1>1, <1>2, <1>3, <2>1, <2>2, <2>3 DEF Origins
<1>5. ~carried => Owned'
  <2> SUFFICES ASSUME ~carried PROVE Owned'
    OBVIOUS
  <2>1. Owned
    BY DEF Whose
  <2>2. /\ \A e \in filing'.events : Own(e)
        /\ OwnAccount(filing'.user, filing'.draft)
    BY <1>1, <1>2, <2>1 DEF Owned
  <2>3. /\ \A q \in Pages : ReadsOwn(tab'[q]) /\ \A e \in tab'[q].writing : Own(e)
        /\ \A b \in Browsers : \A e \in disk'[b].stash \cup disk'[b].pending : Own(e)
        /\ \A n \in asked' : \A e \in n.events : Own(e)
        /\ \A u \in Users : OwnAccount(u, account'[u])
    BY <1>1, <2>1 DEF Owned
  <2> QED BY <2>2, <2>3 DEF Owned
<1>6. ~muddled => Waits'
  <2>1. filing'.events \ filing'.left = {}
    BY <1>2
  <2> QED BY <1>1, <1>3, <2>1 DEF Whose, Waits, Handed
<1> QED BY <1>1, <1>4, <1>5, <1>6 DEF Whose

LEMMA FileNextWhose ==
    ASSUME TypeOK, TypeOK', Whose, FileNext
    PROVE  Whose'
<1>1. PICK e \in filing.left :
        filing' = [filing EXCEPT
              !.left = @ \ {e},
              !.draft = Filed(e, filing.user, @, filing.shift),
              !.unclaimed = @ \/ (/\ Fileable(e, filing.user, filing.draft)
                                  /\ Unclaimed(e, filing.draft.row)
                                  /\ e.page = filing.page)]
  BY DEF FileNext
<1> DEFINE u == filing.user
           a == filing.draft
           n == Filed(e, u, a, filing.shift)
           more == filing.unclaimed \/ (/\ Fileable(e, u, a) /\ Unclaimed(e, a.row) /\ e.page = filing.page)
<1>2. /\ filing # Idle /\ filing \in Batch /\ u \in Users /\ a \in Account /\ e \in Event
      /\ UNCHANGED <<clock, account, cookie, disk, tab, asked, answered, queued, muddled, carried, used>>
  BY <1>1 DEF TypeOK, FileNext, Batch
<1>3. filing' = [filing EXCEPT !.left = filing.left \ {e}, !.draft = n, !.unclaimed = more]
  BY <1>1
<1>4. \A i : i = e => \/ n = a /\ ~Fileable(i, u, a)
                      \/ /\ Fileable(i, u, a) /\ n.history = a.history \cup {i} /\ n.gen = a.gen
                         /\ n.row = a.row \/ (n.row # NoRow /\ n.row.event = i)
  <2> DEFINE at == Seen(e, filing.shift)
  <2>1. e.at \in Int /\ filing.shift \in Int /\ a.row \in Row \cup {NoRow}
    BY <1>2 DEF Event, Batch, Account
  <2>2. at \in Int
    BY <2>1, JudgedTyped DEF Seen
  <2> HIDE DEF at, n
  <2>3. /\ n.gen = a.gen
        /\ \/ n = a /\ ~Fileable(e, u, a)
           \/ /\ Fileable(e, u, a) /\ n.history = a.history \cup {e}
              /\ \/ n.row = a.row
                 \/ n.row = MovedTo(e, at, a.row)
    BY <1>2, <2>2, FiledAccount DEF n, at
  <2>4. MovedTo(e, at, a.row) # NoRow /\ MovedTo(e, at, a.row).event = e
    BY <1>2, <2>1, <2>2, MovedToRow
  <2> QED BY <2>3, <2>4
<1> HIDE DEF n, more
<1>5. /\ filing'.left = filing.left \ {e} /\ filing'.draft = n /\ filing'.user = u
      /\ filing'.events = filing.events /\ filing' # Idle
  <2>1. filing \in Batch
    BY <1>2
  <2>2. /\ filing'.left = filing.left \ {e} /\ filing'.draft = n /\ filing'.user = filing.user
        /\ filing'.events = filing.events
    BY <1>3, <2>1 DEF Batch
  <2>3. filing'.user # Idle.user
    BY <1>2, <2>2, NobodyAssumption DEF Idle
  <2> QED BY <2>2, <2>3
<1>6. \A x : (Passed(x)' <=> Passed(x)) /\ (Has(x)' <=> Has(x))
  BY <1>2 DEF Passed, Has
<1>7. e.owner = u /\ a.gen = account[u].gen
  BY <1>1, <1>2 DEF Whose, Origins
<1>8. Origins'
  <2>1. n.gen = a.gen /\ a.history \subseteq n.history
    BY <1>4
  <2> QED BY <1>2, <1>5, <1>6, <2>1 DEF Whose, Origins
<1>9. ASSUME ~carried PROVE Owned'
  <2>1. Owned /\ Own(e) /\ OwnAccount(u, a)
    BY <1>1, <1>2, <1>9 DEF Whose, Owned, Origins
  <2>2. OwnAccount(u, n)
    BY <1>4, <1>7, <2>1 DEF OwnAccount
  <2> QED BY <1>2, <1>5, <2>1, <2>2 DEF Owned
<1>10. ASSUME ~muddled PROVE Waits'
  <2>1. Waits
    BY <1>10 DEF Whose
  <2>2. ASSUME NEW x \in queued, x.explicit, x \in filing.events \ (filing.left \ {e})
        PROVE  x \in n.history \/ x.gen < n.gen
    <3>1. CASE x = e
      <4>1. x \in Event /\ x.gen \in Nat /\ x.gen <= a.gen /\ a.gen \in Nat
        BY <1>2, <1>7, <2>1, <3>1 DEF Waits, Event, Account
      <4>2. Fileable(x, u, a) \/ x \in a.history \/ x.gen < a.gen
        BY <1>7, <2>2, <3>1, <4>1 DEF Fileable, BehindReset
      <4> QED BY <1>4, <3>1, <4>2
    <3>2. CASE x # e
      <4>1. x \in a.history \/ x.gen < a.gen
        BY <1>2, <2>1, <2>2, <3>2 DEF Waits
      <4> QED BY <1>4, <4>1
    <3> QED BY <3>1, <3>2
  <2> QED BY <1>2, <1>5, <1>6, <2>1, <2>2 DEF Waits, Handed
<1> QED BY <1>2, <1>8, <1>9, <1>10 DEF Whose

LEMMA CommitWhose ==
    ASSUME TypeOK, TypeOK', Whose, Commit
    PROVE  Whose'
<1> DEFINE u == filing.user
           a == filing.draft
           answer == [kind |-> "filed", to |-> "events", page |-> filing.page,
            user |-> filing.user, events |-> filing.events, row |-> filing.draft.row,
            gen |-> filing.draft.gen, unclaimed |-> filing.unclaimed,
            guard |-> filing.guard]
<1>1. /\ filing # Idle /\ filing \in Batch /\ u \in Users /\ a \in Account /\ filing.left = {}
      /\ filing' = Idle /\ answered' \subseteq answered \cup {answer}
      /\ UNCHANGED <<clock, cookie, disk, tab, asked, queued, muddled, carried, used>>
  BY DEF TypeOK, Commit, Batch, Sent
<1>2. account'[u] = a /\ \A v \in Users \ {u} : account'[v] = account[v]
  BY <1>1 DEF Commit, TypeOK
<1>3. /\ answer.kind = "filed" /\ answer.events = filing.events /\ answer.user = u
      /\ answer.gen = a.gen
  OBVIOUS
<1> HIDE DEF answer
<1>4. /\ a.gen = account[u].gen /\ account[u].history \subseteq a.history /\ a.gen \in Nat
      /\ \A e \in filing.events : e.owner = u /\ Passed(e)
  BY <1>1 DEF Whose, Origins, Account
<1>5. \A v \in Users : account'[v].gen = account[v].gen
  BY <1>2, <1>4
<1>6. \A e \in Event : (Passed(e)' <=> Passed(e)) /\ (Has(e) => Has(e)')
  <2> SUFFICES ASSUME NEW e \in Event PROVE (Passed(e)' <=> Passed(e)) /\ (Has(e) => Has(e)')
    OBVIOUS
  <2>1. e.owner \in Users
    BY DEF Event
  <2>2. CASE e.owner = u
    BY <1>1, <1>2, <1>4, <2>2 DEF Passed, Has
  <2>3. CASE e.owner # u
    BY <1>1, <1>2, <2>1, <2>3 DEF Passed, Has
  <2> QED BY <2>2, <2>3
<1>7. Origins'
  <2>1. \A m \in answered' :
          /\ \A e \in m.events : Passed(e)'
          /\ m.kind \notin {"denied", "refused"} =>
                m.user \in Users /\ m.gen <= account'[m.user].gen
    <3> SUFFICES ASSUME NEW m \in answered'
                 PROVE  /\ \A e \in m.events : Passed(e)'
                        /\ m.kind \notin {"denied", "refused"} =>
                              m.user \in Users /\ m.gen <= account'[m.user].gen
      OBVIOUS
    <3>1. \A e \in m.events : e \in Event
      BY DEF TypeOK, Answer
    <3>2. CASE m = answer
      BY <1>1, <1>2, <1>3, <1>4, <1>6, <3>1, <3>2
    <3>3. CASE m \in answered
      BY <1>5, <1>6, <3>1, <3>3 DEF Whose, Origins
    <3> QED BY <1>1, <3>2, <3>3
  <2>2. \A e : Passed(e)' <=> Passed(e)
    BY <1>1 DEF Passed
  <2> QED BY <1>1, <2>1, <2>2 DEF Whose, Origins
<1>8. ASSUME ~carried PROVE Owned'
  <2>1. \A v \in Users : OwnAccount(v, account'[v])
    BY <1>1, <1>2, <1>8 DEF Whose, Owned
  <2> QED BY <1>1, <1>8, <2>1 DEF Whose, Owned
<1>9. ASSUME ~muddled PROVE Waits'
  <2>1. Waits /\ queued' = queued /\ queued \subseteq Event
    BY <1>1, <1>9 DEF Whose, TypeOK
  <2>2. Handed'
    <3>1. \A b \in Browsers : disk[b].owner \in Users \cup {NoOne}
      BY DEF TypeOK, Disk
    <3> QED BY <1>1, <1>5, <2>1, <3>1 DEF Waits, Handed
  <2>3. \A e \in queued : e.gen <= account'[e.owner].gen
    BY <1>5, <2>1 DEF Waits, Event
  <2>4. \A e \in queued : e.explicit => e \in disk[Home[e.page]].pending \/ Has(e)'
    BY <1>6, <2>1 DEF Waits
  <2>5. ASSUME NEW m \in answered', m.kind = "filed", NEW e \in m.events \cap queued, e.explicit
        PROVE  Has(e)'
    <3>1. CASE m \in answered
      BY <1>6, <2>1, <2>5, <3>1 DEF Waits
    <3>2. CASE m = answer
      <4>1. e \in filing.events \ filing.left /\ e.owner = u
        BY <1>1, <1>3, <1>4, <2>5, <3>2
      <4>2. e \in a.history \/ e.gen < a.gen
        BY <1>1, <2>1, <2>5, <4>1 DEF Waits
      <4> QED BY <1>2, <4>1, <4>2 DEF Has
    <3> QED BY <1>1, <3>1, <3>2
  <2> QED BY <1>1, <2>1, <2>2, <2>3, <2>4, <2>5 DEF Waits
<1> QED BY <1>1, <1>7, <1>8, <1>9 DEF Whose

LEMMA EraseWhose ==
    ASSUME TypeOK, TypeOK', Whose, filing = Idle, Erase
    PROVE  Whose'
<1>1. PICK m \in asked :
        /\ m.kind = "reset" /\ Authenticated(m)
        /\ asked' = asked \ {m}
        /\ account' = [account EXCEPT
              ![m.user] = [row |-> NoRow, history |-> {}, gen |-> @.gen + 1,
                           erased |-> MadeSoFar]]
        /\ answered' = Sent([Reply(m, "erased") EXCEPT !.gen = account[m.user].gen + 1])
        /\ UNCHANGED <<clock, filing, cookie, disk, tab, queued, muddled, carried, used>>
  BY DEF Erase
<1> DEFINE u == m.user
<1>2. u \in Users /\ \A v \in Users : account[v].gen \in Nat
  BY <1>1 DEF Authenticated, TypeOK, Ask, Account
<1>3. /\ account'[u].history = {} /\ account'[u].gen = account[u].gen + 1
      /\ account'[u].row = NoRow
      /\ \A v \in Users \ {u} : account'[v] = account[v]
  BY <1>1, <1>2 DEF TypeOK
<1>4. \A n \in answered' : \/ n \in answered
                           \/ n.events = {} /\ n.kind = "erased" /\ n.user = u /\ n.gen = account[u].gen + 1
  BY <1>1 DEF Sent, Reply
<1>5. \A e : Passed(e)' <=> Passed(e)
  BY <1>1 DEF Passed
<1>6. \A v \in Users : account[v].gen <= account'[v].gen /\ account'[v].gen \in Nat
  BY <1>2, <1>3
<1>7. Origins'
  <2>1. ASSUME NEW n \in answered'
        PROVE /\ \A e \in n.events : Passed(e)
              /\ n.kind \notin {"denied", "refused"} =>
                    n.user \in Users /\ n.gen <= account'[n.user].gen
    <3>1. CASE n \in answered
      <4>1. n.gen \in Nat
        BY <3>1 DEF TypeOK, Answer
      <4> QED BY <1>2, <1>6, <3>1, <4>1 DEF Whose, Origins
    <3>2. CASE n \notin answered
      BY <1>2, <1>3, <1>4, <3>2
    <3> QED BY <3>1, <3>2
  <2> QED BY <1>1, <1>5, <2>1 DEF Whose, Origins
<1>8. ASSUME ~carried PROVE Owned'
  <2>1. \A v \in Users : OwnAccount(v, account'[v])
    BY <1>3, <1>8 DEF Whose, Owned, OwnAccount
  <2> QED BY <1>1, <1>8, <2>1 DEF Whose, Owned
<1>9. ASSUME ~muddled PROVE Waits'
  <2>1. Waits /\ queued' = queued /\ queued \subseteq Event /\ filing' = Idle
    BY <1>1, <1>9 DEF Whose, TypeOK
  <2>2. Handed'
    <3>1. \A b \in Browsers : disk[b].owner \in Users \cup {NoOne} /\ disk[b].gen \in Nat
      BY DEF TypeOK, Disk
    <3>2. ASSUME NEW b \in Browsers, disk[b].owner # NoOne
          PROVE  disk[b].gen <= account'[disk[b].owner].gen
      <4>1. disk[b].gen <= account[disk[b].owner].gen
        BY <2>1, <3>2 DEF Waits, Handed
      <4> QED BY <1>2, <1>6, <3>1, <3>2, <4>1
    <3> QED BY <1>1, <2>1, <3>2 DEF Waits, Handed
  <2>3. ASSUME NEW e \in queued
        PROVE  e.gen <= account'[e.owner].gen /\ (Has(e) => Has(e)')
               /\ (e.owner = u => Has(e)')
    <3>1. e.owner \in Users /\ e.gen \in Nat /\ e.gen <= account[e.owner].gen
      BY <2>1 DEF Event, Waits
    <3>2. CASE e.owner = u
      BY <1>2, <1>3, <3>1, <3>2 DEF Has
    <3>3. CASE e.owner # u
      BY <1>3, <3>1, <3>3 DEF Has
    <3> QED BY <3>2, <3>3
  <2>4. \A e \in queued : e.explicit => e \in disk[Home[e.page]].pending \/ Has(e)'
    BY <2>1, <2>3 DEF Waits
  <2>5. ASSUME NEW n \in answered', n.kind = "filed", NEW e \in n.events \cap queued, e.explicit
        PROVE  Has(e)'
    <3>1. n \in answered
      BY <1>4, <2>5
    <3> QED BY <2>1, <2>3, <2>5, <3>1 DEF Waits
  <2> QED BY <1>1, <2>1, <2>2, <2>3, <2>4, <2>5 DEF Waits
<1> QED BY <1>1, <1>7, <1>8, <1>9 DEF Whose


LEMMA PageWhose ==
    ASSUME TypeOK, TypeOK', Whose, NEW p \in Pages, Moved(p),
           Origins /\ Waits /\ ~muddled' => HandsOn(p)
    PROVE  Whose'
<1>1. Origins'
  BY MovedOrigins DEF Whose
<1>2. ~carried' => Owned'
  BY MovedOwned DEF Whose, Moved
<1>3. ~muddled' => Waits'
  BY MovedWaits DEF Whose, Moved
<1> QED BY <1>1, <1>2, <1>3 DEF Whose

\* The queue does not change hands.
LEMMA SameHands ==
    ASSUME TypeOK, TypeOK', Waits, NEW p \in Pages, Moved(p),
           tab'[p].purging # tab[p].purging => "clearing" \notin {tab[p].purging, tab'[p].purging},
           disk'[Home[p]].owner = disk[Home[p]].owner,
           \/ disk'[Home[p]].gen = disk[Home[p]].gen
           \/ /\ disk[Home[p]].owner # NoOne
              /\ disk'[Home[p]].gen <= account[disk[Home[p]].owner].gen,
           \A e \in queued' : \/ e \in queued
                              \/ /\ e.owner = disk[Home[p]].owner /\ e \in disk'[Home[p]].pending
                                 /\ e.gen = disk'[Home[p]].gen /\ (e.explicit => e \in tab[p].writing),
           \A e \in queued' : e.explicit /\ e \in disk[Home[p]].pending =>
                                 e \in disk'[Home[p]].pending \/ Has(e)
    PROVE  HandsOn(p)
<1> DEFINE b == Home[p]
           d == disk[b]
           f == disk'[b]
<1>1. b \in Browsers /\ d.owner \in Users \cup {NoOne} /\ f.gen \in Nat
  BY HomeAssumption DEF TypeOK, Disk
<1>2. \A q \in Pages : tab'[q].purging = "clearing" <=> tab[q].purging = "clearing"
  BY DEF Moved
<1>3. f.owner # NoOne => f.gen <= account[f.owner].gen
  BY <1>1 DEF Waits, Handed
<1>4. \A q \in Pages : Home[q] = b /\ tab'[q].purging = "clearing" => f.owner = NoOne
  BY <1>1, <1>2 DEF Waits, Handed
<1>5. f.owner = NoOne =>
         \/ f.gen = 0
         \/ \E q \in Pages : Home[q] = b /\ tab'[q].purging = "clearing"
  BY <1>1, <1>2 DEF Waits, Handed
<1>6. ASSUME NEW e \in queued' PROVE Home[e.page] = b => e.owner = f.owner
  BY <1>1 DEF Waits, Handed
<1>7. ASSUME NEW e \in queued'
      PROVE  \/ e \in queued
             \/ e \in f.pending /\ e.gen <= account[e.owner].gen /\ (e.explicit => e \in tab[p].writing)
  <2>1. CASE e \notin queued
    <3>1. e.owner \in Users
      BY DEF TypeOK, Event
    <3> QED BY <1>3, <2>1, <3>1, NobodyAssumption
  <2> QED BY <2>1
<1> QED BY <1>3, <1>4, <1>5, <1>6, <1>7 DEF HandsOn

\* A step that writes at most one new event and leaves the queue its owner.
LEMMA PageRests ==
    ASSUME TypeOK, TypeOK', Whose, NEW p \in Pages, NEW r \in Tab, NEW f \in Disk,
           tab' = [tab EXCEPT ![p] = r], disk' = [disk EXCEPT ![Home[p]] = f],
           account' = account, filing' = Idle, carried' = carried, muddled => muddled',
           r.seq \in {tab[p].seq, tab[p].seq + 1},
           \A e \in r.writing : e \in tab[p].writing \/ Authors(p, r, e),
           Turning(tab[p]) => Turning(r),
           ReadsOwn(tab[p]) /\ Turning(tab[p]) => ReadsOwn(r),
           r.purging # tab[p].purging => "clearing" \notin {tab[p].purging, r.purging},
           answered' \subseteq answered,
           f.owner = disk[Home[p]].owner,
           Origins /\ ~muddled' =>
              \/ f.gen = disk[Home[p]].gen
              \/ f.owner # NoOne /\ f.gen <= account[f.owner].gen,
           \A e \in f.stash : e \in disk[Home[p]].stash \/ (Authors(p, r, e) /\ ~e.explicit),
           \A e \in f.pending : \/ e \in disk[Home[p]].pending \cup disk[Home[p]].stash
                                \/ e \in tab[p].writing /\ e \notin r.writing,
           \A m \in asked' :
              \/ m \in asked
              \/ \A e \in m.events :
                    e.owner = m.owner
                    /\ (e \in disk[Home[p]].pending \/ (Authors(p, r, e) /\ ~e.explicit)),
           Origins => \A e \in queued' :
              \/ e \in queued
              \/ /\ e.owner = disk[Home[p]].owner /\ e \in f.pending
                 /\ e.gen = f.gen /\ (e.explicit => e \in tab[p].writing),
           Origins /\ Waits /\ ~muddled' =>
              \A e \in queued' : e.explicit /\ e \in disk[Home[p]].pending => e \in f.pending \/ Has(e)
    PROVE  Whose'
<1>1. /\ Home[p] \in Browsers /\ tab'[p] = r /\ \A q \in Pages \ {p} : tab'[q] = tab[q]
      /\ disk'[Home[p]] = f /\ \A c \in Browsers \ {Home[p]} : disk'[c] = disk[c]
  BY HomeAssumption DEF TypeOK
<1>2. Turning(tab[p]) /\ tab[p].seq \in Nat
  BY DEF Whose, Origins, TypeOK, Tab
<1>3. Moved(p)
  BY <1>1, <1>2 DEF Moved
<1>4. ASSUME Origins, Waits, ~muddled' PROVE HandsOn(p)
  BY <1>1, <1>3, <1>4, SameHands
<1> QED BY <1>3, <1>4, PageWhose

\* What the page's own browser keeps does not change.
LEMMA TabRests ==
    ASSUME TypeOK, TypeOK', Whose, NEW p \in Pages, NEW r \in Tab,
           tab' = [tab EXCEPT ![p] = r], UNCHANGED <<account, filing, disk, queued, carried>>,
           filing = Idle, muddled => muddled', r.seq \in {tab[p].seq, tab[p].seq + 1},
           \A e \in r.writing : e \in tab[p].writing \/ Authors(p, r, e),
           Turning(tab[p]) => Turning(r),
           ReadsOwn(tab[p]) /\ Turning(tab[p]) => ReadsOwn(r),
           r.purging # tab[p].purging => "clearing" \notin {tab[p].purging, r.purging},
           answered' \subseteq answered,
           \A m \in asked' : m \in asked \/ m.events = {}
    PROVE  Whose'
<1>1. disk' = [disk EXCEPT ![Home[p]] = disk[Home[p]]] /\ disk[Home[p]] \in Disk
  BY SameDisk
<1> QED BY <1>1, PageRests

\* What is put back into the queue from the stash.
LEMMA DrainedExactly ==
    ASSUME NEW d \in Disk
    PROVE  /\ \A e : e \in Drained(d).pending <=> e \in d.pending \/ (e \in d.stash /\ e.gen = d.gen)
           /\ \A e \in Queueing(d, d.stash) :
                 e \in queued \/ (e \in d.stash /\ e.gen = d.gen /\ e.owner = d.owner)
           /\ \A S : \A e \in Queueing(d, S) :
                 e \in queued \/ (e \in S /\ e.gen = d.gen /\ e.owner = d.owner)
  BY DEF Disk, Drained, Accepted, Queueing

LEMMA OpenWhose ==
    ASSUME TypeOK, TypeOK', Whose, filing = Idle, NEW p \in Pages, Open(p)
    PROVE  Whose'
<1> DEFINE b == Home[p]
           f == Drained(disk[b])
<1>1. b \in Browsers /\ disk[b] \in Disk /\ tab[p] \in Tab
  BY HomeAssumption DEF TypeOK
<1>2. PICK u \in {NoOne, disk[b].owner} :
         tab' = [tab EXCEPT ![p].life = "visible", ![p].session = u]
  BY DEF Open
<1> DEFINE r == [tab[p] EXCEPT !.life = "visible", !.session = u]
<1>3. tab' = [tab EXCEPT ![p] = r] /\ disk' = [disk EXCEPT ![b] = f]
  BY <1>2 DEF Open
<1>4. u \in Users \cup {NoOne}
  BY <1>1, <1>2 DEF Disk
<1>5. /\ r \in Tab /\ r.seq = tab[p].seq /\ r.writing = tab[p].writing /\ r.life = "visible"
      /\ r.session = u /\ r.next = tab[p].next /\ r.purging = tab[p].purging
      /\ r.reading = tab[p].reading
  BY <1>1, <1>4 DEF Tab
<1> HIDE DEF r
<1>6. Turning(tab[p]) => r.next = NoOne /\ r.reading = NoOne
  BY <1>5 DEF Turning, Open
<1>7. (Turning(tab[p]) => Turning(r)) /\ (Turning(tab[p]) => ReadsOwn(r))
  BY <1>5, <1>6 DEF Turning, ReadsOwn
<1>8. /\ f \in Disk /\ f.stash = {} /\ f.gen = disk[b].gen /\ f.owner = disk[b].owner
      /\ \A e : e \in f.pending <=>
            e \in disk[b].pending \/ (e \in disk[b].stash /\ e.gen = disk[b].gen)
  BY <1>1, DrainedDisk, DrainedExactly
<1> HIDE DEF f
<1>9. Origins => \A e \in queued' :
         \/ e \in queued
         \/ e.owner = disk[b].owner /\ e \in f.pending /\ e.gen = f.gen /\ ~e.explicit
  BY <1>1, <1>8, DrainedExactly DEF Open, Origins
<1>10. UNCHANGED <<account, filing, asked, answered, muddled, carried>>
  BY DEF Open
<1> QED BY <1>3, <1>5, <1>7, <1>8, <1>9, <1>10, PageRests

LEMMA SignWhose ==
    ASSUME TypeOK, TypeOK', Whose, filing = Idle, NEW p \in Pages,
           (\E u \in Users : SignIn(p, u)) \/ SignOut(p)
    PROVE  Whose'
<1>1. tab[p] \in Tab
  BY DEF TypeOK
<1>2. CASE \E u \in Users : SignIn(p, u)
  <2> DEFINE r == [tab[p] EXCEPT !.asking = TRUE]
  <2>1. /\ r \in Tab /\ r.seq = tab[p].seq /\ r.writing = tab[p].writing /\ r.life = tab[p].life
        /\ r.session = tab[p].session /\ r.next = tab[p].next /\ r.purging = tab[p].purging
        /\ r.reading = tab[p].reading
    BY <1>1 DEF Tab
  <2>2. tab' = [tab EXCEPT ![p] = r]
    BY <1>2 DEF SignIn
  <2> HIDE DEF r
  <2>3. UNCHANGED <<account, filing, disk, asked, answered, queued, muddled, carried>>
    BY <1>2 DEF SignIn
  <2> QED BY <2>1, <2>2, <2>3, TabRests DEF Turning, ReadsOwn
<1>3. CASE SignOut(p)
  <2> DEFINE r == [tab[p] EXCEPT !.purging = "leaving"]
  <2>1. /\ r \in Tab /\ r.seq = tab[p].seq /\ r.writing = tab[p].writing /\ r.life = tab[p].life
        /\ r.session = tab[p].session /\ r.next = tab[p].next /\ r.purging = "leaving"
        /\ r.reading = tab[p].reading
    BY <1>1 DEF Tab
  <2>2. tab' = [tab EXCEPT ![p] = r]
    BY <1>3 DEF SignOut
  <2> HIDE DEF r
  <2>3. /\ UNCHANGED <<account, filing, disk, asked, answered, queued, muddled, carried>>
        /\ tab[p].purging = "no" /\ tab[p].life # "new"
    BY <1>3 DEF SignOut, Running
  <2> QED BY <2>1, <2>2, <2>3, TabRests DEF Turning, ReadsOwn
<1> QED BY <1>2, <1>3

LEMMA FoundSignedOutWhose ==
    ASSUME TypeOK, TypeOK', Whose, filing = Idle, NEW p \in Pages, FoundSignedOut(p)
    PROVE  Whose'
<1> DEFINE b == Home[p]
           r == Released(tab[p])
           f == Forgotten(disk[b])
<1>1. b \in Browsers /\ disk[b] \in Disk /\ tab[p] \in Tab
  BY HomeAssumption DEF TypeOK
<1>2. /\ r \in Tab /\ r.seq = tab[p].seq /\ r.writing = tab[p].writing /\ r.life = tab[p].life
      /\ r.session = NoOne /\ r.next = tab[p].next /\ r.purging = tab[p].purging
      /\ r.reading = NoOne
  BY <1>1 DEF Tab, Released
<1>3. /\ f \in Disk /\ f.stash = disk[b].stash /\ f.pending = disk[b].pending
      /\ f.gen = disk[b].gen /\ f.owner = disk[b].owner
  BY <1>1, ForgottenDisk
<1>4. /\ tab' = [tab EXCEPT ![p] = r] /\ disk' = [disk EXCEPT ![b] = f]
      /\ UNCHANGED <<account, filing, asked, answered, queued, muddled, carried>>
  BY DEF FoundSignedOut
<1> HIDE DEF r, f
<1>5. (Turning(tab[p]) => Turning(r)) /\ ReadsOwn(r)
  BY <1>2 DEF Turning, ReadsOwn
<1> QED BY <1>2, <1>3, <1>4, <1>5, PageRests

LEMMA StoreWhose ==
    ASSUME TypeOK, TypeOK', Whose, filing = Idle, NEW p \in Pages, Store(p)
    PROVE  Whose'
<1> DEFINE b == Home[p]
<1>1. PICK e \in tab[p].writing :
        /\ tab' = [tab EXCEPT ![p].writing = @ \ {e}]
        /\ disk' = [disk EXCEPT
              ![b].pending = @ \cup Accepted(disk[b], {e}),
              ![b].stash = @ \ Accepted(disk[b], {e})]
        /\ queued' = Queueing(disk[b], {e})
  BY DEF Store
<1> DEFINE taken == Accepted(disk[b], {e})
           less == tab[p].writing \ {e}
           more == disk[b].pending \cup taken
           rest == disk[b].stash \ taken
           r == [tab[p] EXCEPT !.writing = less]
           f == [disk[b] EXCEPT !.pending = more, !.stash = rest]
<1>2. b \in Browsers /\ disk[b] \in Disk /\ tab[p] \in Tab
  BY HomeAssumption DEF TypeOK
<1>3. e \in Event
  BY <1>1, <1>2 DEF Tab
<1>4. tab' = [tab EXCEPT ![p] = r] /\ disk' = [disk EXCEPT ![b] = f]
  BY <1>1
<1>5. taken = {x \in {e} : x.gen = disk[b].gen}
  BY DEF Accepted
<1> HIDE DEF taken
<1>6. /\ less \in SUBSET Event /\ more \in SUBSET Event /\ rest \in SUBSET Event
  BY <1>2, <1>3, <1>5 DEF Tab, Disk
<1>7. \A x \in more : x \in disk[b].pending \/ (x \in tab[p].writing /\ x \notin less)
  BY <1>1, <1>5
<1>8. \A x \in queued' : x \in queued \/ (x = e /\ x.gen = disk[b].gen /\ x.owner = disk[b].owner)
  BY <1>1, <1>2, DrainedExactly
<1>9. \A x \in queued' : x \in queued \/
         (x.gen = disk[b].gen /\ x.owner = disk[b].owner /\ x \in more /\ x \in tab[p].writing)
  BY <1>1, <1>5, <1>8
<1>10. less \subseteq tab[p].writing /\ rest \subseteq disk[b].stash /\ disk[b].pending \subseteq more
  OBVIOUS
<1> HIDE DEF less, more, rest
<1>11. /\ r \in Tab /\ r.seq = tab[p].seq /\ r.writing = less /\ r.life = tab[p].life
       /\ r.session = tab[p].session /\ r.next = tab[p].next /\ r.purging = tab[p].purging
       /\ r.reading = tab[p].reading
  BY <1>2, <1>6 DEF Tab
<1>12. /\ f \in Disk /\ f.pending = more /\ f.stash = rest
       /\ f.gen = disk[b].gen /\ f.owner = disk[b].owner
  BY <1>2, <1>6 DEF Disk
<1> HIDE DEF r, f
<1>13. UNCHANGED <<account, filing, asked, answered, muddled, carried>>
  BY DEF Store
<1>14. (Turning(tab[p]) => Turning(r)) /\ (ReadsOwn(tab[p]) => ReadsOwn(r))
  BY <1>11 DEF Turning, ReadsOwn
<1> QED BY <1>4, <1>7, <1>9, <1>10, <1>11, <1>12, <1>13, <1>14, PageRests

LEMMA FlushWhose ==
    ASSUME TypeOK, TypeOK', Whose, filing = Idle, NEW p \in Pages, Flush(p)
    PROVE  Whose'
<1> DEFINE b == Home[p]
           mine == {e \in disk[b].pending : e.owner = DeliveringFor(p)}
           f == [disk[b] EXCEPT !.pending = mine]
           guard == ~tab[p].flushing
           m == Request(p, "events", mine, guard)
           s == [tab[p] EXCEPT !.flushing = TRUE]
<1>1. b \in Browsers /\ disk[b] \in Disk /\ tab[p] \in Tab
  BY HomeAssumption DEF TypeOK
<1>2. DeliveringFor(p) # NoOne /\ disk' = [disk EXCEPT ![b] = f]
  BY DEF Flush
<1>3. \/ /\ asked' = asked \cup {m}
         /\ tab' = [tab EXCEPT ![p] = s]
      \/ asked' = asked /\ tab' = [tab EXCEPT ![p] = tab[p]]
  BY DEF Flush, TypeOK
<1>4. /\ mine \subseteq disk[b].pending /\ mine \in SUBSET Event
      /\ \A e \in mine : e.owner = tab[p].session
  BY <1>1, <1>2, DeliveringIsSession DEF Disk
<1>5. m.events = mine /\ m.owner = tab[p].session
  BY DEF Request
<1>6. Origins /\ Waits => \A e \in queued : e \in disk[b].pending => e \in mine
  <2> SUFFICES ASSUME Origins, Waits, NEW e \in queued, e \in disk[b].pending
               PROVE  e.owner = DeliveringFor(p)
    OBVIOUS
  <2>1. e.owner = disk[b].owner /\ e.owner # NoOne
    BY <1>1, NobodyAssumption DEF Origins, Waits, Handed, TypeOK, Event
  <2> QED BY <1>2, <2>1 DEF DeliveringFor
<1> HIDE DEF mine, m, guard
<1>7. /\ f \in Disk /\ f.pending = mine /\ f.stash = disk[b].stash
      /\ f.gen = disk[b].gen /\ f.owner = disk[b].owner
  BY <1>1, <1>4 DEF Disk
<1>8. /\ s \in Tab /\ s.seq = tab[p].seq /\ s.writing = tab[p].writing /\ s.life = tab[p].life
      /\ s.session = tab[p].session /\ s.next = tab[p].next /\ s.purging = tab[p].purging
      /\ s.reading = tab[p].reading
  BY <1>1 DEF Tab
<1> HIDE DEF f, s
<1>9. PICK r \in {s, tab[p]} : tab' = [tab EXCEPT ![p] = r]
  BY <1>3
<1>10. /\ r \in Tab /\ r.seq = tab[p].seq /\ r.writing = tab[p].writing /\ r.life = tab[p].life
       /\ r.session = tab[p].session /\ r.next = tab[p].next /\ r.purging = tab[p].purging
       /\ r.reading = tab[p].reading
  BY <1>1, <1>8, <1>9
<1>11. UNCHANGED <<account, filing, answered, queued, muddled, carried>>
  BY DEF Flush
<1>12. /\ (Turning(tab[p]) => Turning(r)) /\ (ReadsOwn(tab[p]) => ReadsOwn(r))
       /\ Origins /\ Waits => \A e \in queued' : e.explicit /\ e \in disk[b].pending => e \in f.pending
  BY <1>6, <1>7, <1>10, <1>11 DEF Turning, ReadsOwn
<1>13. \A n \in asked' :
          \/ n \in asked
          \/ \A e \in n.events :
                e.owner = n.owner /\ (e \in disk[b].pending \/ (Authors(p, r, e) /\ ~e.explicit))
  BY <1>3, <1>4, <1>5
<1> QED BY <1>2, <1>4, <1>6, <1>7, <1>9, <1>10, <1>11, <1>12, <1>13, PageRests


LEMMA BasedOwn ==
    ASSUME NEW e \in Event, NEW d
    PROVE  Based(e, d).owner = e.owner /\ Based(e, d).by = e.by
<1>1. Based(e, d) = e \/ Based(e, d) = [e EXCEPT !.base = d.cached.revision]
  BY DEF Based
<1> QED BY <1>1 DEF Event

\* What is built from the open book is of the account that reads it.
LEMMA BuiltOwn ==
    ASSUME TypeOK, NEW p \in Pages, NEW x \in BOOLEAN,
           tab[p].reading # NoOne, DeliveringFor(p) # NoOne
    PROVE  /\ Built(p, x) \in Event /\ Built(p, x).explicit = x
           /\ Built(p, x).page = p /\ Built(p, x).seq = tab[p].seq + 1
           /\ Built(p, x).owner = tab[p].session
           /\ ReadsOwn(tab[p]) => Own(Built(p, x))
<1>1. tab[p].session \in Users /\ tab[p].reading \in Users
  BY DeliveringIsSession DEF TypeOK, Tab
<1>2. Built(p, x) \in Event
  BY <1>1, BuiltEvent
<1>3. /\ Built(p, x).explicit = x /\ Built(p, x).page = p /\ Built(p, x).seq = tab[p].seq + 1
      /\ Built(p, x).owner = tab[p].session /\ Built(p, x).by = tab[p].reading
  BY DEF Built
<1> QED BY <1>1, <1>2, <1>3, NobodyAssumption DEF ReadsOwn, Own

LEMMA RecordWhose ==
    ASSUME TypeOK, TypeOK', Whose, filing = Idle, NEW p \in Pages, Record(p)
    PROVE  Whose'
<1>1. PICK x \in BOOLEAN :
         LET e == Based(Built(p, x), disk[Home[p]])
         IN  tab' = [tab EXCEPT ![p].seq = @ + 1, ![p].known = e.base,
                                ![p].writing = @ \cup {e}]
  BY DEF Record
<1> DEFINE made == Built(p, x)
           e == Based(made, disk[Home[p]])
           r == [tab[p] EXCEPT !.seq = @ + 1, !.known = e.base, !.writing = @ \cup {e}]
<1>2. disk[Home[p]] \in Disk /\ tab[p] \in Tab
  BY HomeAssumption DEF TypeOK
<1>3. /\ made \in Event /\ made.page = p /\ made.seq = tab[p].seq + 1
      /\ ReadsOwn(tab[p]) => Own(made)
  BY BuiltOwn DEF Record
<1> HIDE DEF made
<1>4. /\ e \in Event /\ e.page = p /\ e.seq = tab[p].seq + 1
      /\ ReadsOwn(tab[p]) => Own(e)
  BY <1>2, <1>3, BasedEvent, BasedOwn DEF Own
<1>5. tab' = [tab EXCEPT ![p] = r]
  BY <1>1 DEF made
<1> HIDE DEF e
<1>6. /\ r \in Tab /\ r.seq = tab[p].seq + 1 /\ r.writing = tab[p].writing \cup {e}
      /\ r.life = tab[p].life /\ r.session = tab[p].session /\ r.next = tab[p].next
      /\ r.purging = tab[p].purging /\ r.reading = tab[p].reading
  BY <1>2, <1>4 DEF Tab, Event
<1> HIDE DEF r
<1>7. Authors(p, r, e)
  BY <1>4, <1>6 DEF Authors
<1>8. UNCHANGED <<account, filing, disk, asked, answered, queued, muddled, carried>>
  BY DEF Record
<1>9. (Turning(tab[p]) => Turning(r)) /\ (ReadsOwn(tab[p]) => ReadsOwn(r))
  BY <1>6 DEF Turning, ReadsOwn
<1> QED BY <1>5, <1>6, <1>7, <1>8, <1>9, TabRests

\* The tab comes and goes.
LEMMA ComesAndGoes ==
    ASSUME TypeOK, TypeOK', Whose, filing = Idle, NEW p \in Pages,
           NEW life \in {"visible", "hidden", "gone"}, NEW S \in SUBSET tab[p].writing,
           tab' = [tab EXCEPT ![p] = [tab[p] EXCEPT !.life = life, !.writing = S]],
           UNCHANGED <<account, filing, disk, queued, carried>>,
           muddled => muddled', answered' \subseteq answered,
           \A m \in asked' : m \in asked \/ m.events = {}
    PROVE  Whose'
<1> DEFINE r == [tab[p] EXCEPT !.life = life, !.writing = S]
<1>1. tab[p] \in Tab /\ S \in SUBSET Event
  BY DEF TypeOK, Tab
<1>2. /\ r \in Tab /\ r.life = life /\ r.writing = S /\ r.seq = tab[p].seq
      /\ r.session = tab[p].session /\ r.next = tab[p].next
      /\ r.purging = tab[p].purging /\ r.reading = tab[p].reading
  BY <1>1 DEF Tab
<1>3. tab' = [tab EXCEPT ![p] = r]
  OBVIOUS
<1> HIDE DEF r
<1>4. (Turning(tab[p]) => Turning(r)) /\ (ReadsOwn(tab[p]) => ReadsOwn(r))
  BY <1>2 DEF Turning, ReadsOwn
<1> QED BY <1>2, <1>3, <1>4, TabRests

LEMMA ShowWhose ==
    ASSUME TypeOK, TypeOK', Whose, filing = Idle, NEW p \in Pages, Show(p) \/ Die(p)
    PROVE  Whose'
<1>1. tab[p] \in Tab /\ tab[p].writing \in SUBSET tab[p].writing
  BY DEF TypeOK
<1>2. CASE Show(p)
  <2> DEFINE m == Request(p, "peek", {}, FALSE)
  <2>1. m.events = {}
    BY DEF Request
  <2>2. asked' \subseteq asked \cup {m}
    BY <1>2 DEF Show
  <2> HIDE DEF m
  <2>3. tab' = [tab EXCEPT ![p] = [tab[p] EXCEPT !.life = "visible"]]
    BY <1>2 DEF Show
  <2>4. [tab[p] EXCEPT !.life = "visible"]
           = [tab[p] EXCEPT !.life = "visible", !.writing = tab[p].writing]
    BY <1>1 DEF Tab
  <2>5. UNCHANGED <<account, filing, disk, answered, queued, muddled, carried>>
    BY <1>2 DEF Show
  <2>6. \A n \in asked' : n \in asked \/ n.events = {}
    BY <2>1, <2>2
  <2>7. tab' = [tab EXCEPT ![p] = [tab[p] EXCEPT !.life = "visible", !.writing = tab[p].writing]]
    BY <2>3, <2>4
  <2>8. answered' \subseteq answered
    BY <2>5
  <2> QED BY <1>1, <2>5, <2>6, <2>7, <2>8, ComesAndGoes
<1>3. CASE Die(p)
  <2>1. /\ tab' = [tab EXCEPT ![p] = [tab[p] EXCEPT !.life = "gone", !.writing = {}]]
        /\ UNCHANGED <<account, filing, disk, asked, queued, carried>>
        /\ muddled => muddled'
        /\ answered' \subseteq answered
        /\ \A n \in asked' : n \in asked \/ n.events = {}
        /\ {} \in SUBSET tab[p].writing
    BY <1>3 DEF Die
  <2> QED BY <2>1, ComesAndGoes
<1> QED BY <1>2, <1>3

LEMMA HideWhose ==
    ASSUME TypeOK, TypeOK', Whose, filing = Idle, NEW p \in Pages, Hide(p)
    PROVE  Whose'
<1> DEFINE b == Home[p]
           live == Built(p, FALSE)
           captures == /\ tab[p].reading # NoOne /\ DeliveringFor(p) # NoOne
                       /\ tab[p].seq < MaxSeq[p]
           m == Request(p, "events", {live}, FALSE)
<1>1. disk[b] \in Disk /\ tab[p] \in Tab
  BY HomeAssumption DEF TypeOK
<1>2. UNCHANGED <<account, filing, answered, queued, muddled, carried>>
  BY DEF Hide
<1>3. CASE /\ captures
           /\ tab' = [tab EXCEPT ![p].life = "hidden", ![p].seq = @ + 1,
                                 ![p].writing = @ \cup {live}]
           /\ disk' = [disk EXCEPT ![b].stash = @ \cup {live}]
           /\ asked' = asked \cup {m}
  <2> DEFINE more == tab[p].writing \cup {live}
             kept == disk[b].stash \cup {live}
             r == [tab[p] EXCEPT !.life = "hidden", !.seq = @ + 1, !.writing = more]
             f == [disk[b] EXCEPT !.stash = kept]
  <2>1. /\ live \in Event /\ live.page = p /\ live.seq = tab[p].seq + 1 /\ ~live.explicit
        /\ live.owner = tab[p].session /\ (ReadsOwn(tab[p]) => Own(live))
    BY <1>3, BuiltOwn
  <2>2. tab' = [tab EXCEPT ![p] = r] /\ disk' = [disk EXCEPT ![b] = f]
    BY <1>3
  <2>3. m.events = {live} /\ m.owner = tab[p].session
    BY DEF Request
  <2>4. more \in SUBSET Event /\ kept \in SUBSET Event
    BY <1>1, <2>1 DEF Tab, Disk
  <2> HIDE DEF live, m, captures
  <2>5. more = tab[p].writing \cup {live} /\ kept = disk[b].stash \cup {live}
    OBVIOUS
  <2> HIDE DEF more, kept
  <2>t. tab[p] \in Tab /\ disk[b] \in Disk
    BY <1>1
  <2>6. r \in Tab /\ r.seq = tab[p].seq + 1 /\ r.writing = more
    BY <2>4, <2>t, HiddenTab
  <2>7. /\ r.life = "hidden" /\ r.session = tab[p].session /\ r.next = tab[p].next
        /\ r.purging = tab[p].purging /\ r.reading = tab[p].reading
    BY <2>t DEF Tab
  <2>8. /\ f \in Disk /\ f.pending = disk[b].pending /\ f.stash = kept
        /\ f.gen = disk[b].gen /\ f.owner = disk[b].owner
    BY <2>4, <2>t, StashedDisk
  <2> HIDE DEF r, f
  <2>9. Authors(p, r, live)
    BY <2>1, <2>6 DEF Authors
  <2>10. (Turning(tab[p]) => Turning(r)) /\ (ReadsOwn(tab[p]) => ReadsOwn(r))
    BY <2>7 DEF Turning, ReadsOwn
  <2>11. \A n \in asked' :
            \/ n \in asked
            \/ \A e \in n.events :
                  e.owner = n.owner
                  /\ (e \in disk[b].pending \/ (Authors(p, r, e) /\ ~e.explicit))
    BY <1>3, <2>1, <2>3, <2>9
  <2>12. /\ \A e \in r.writing : e \in tab[p].writing \/ Authors(p, r, e)
         /\ \A e \in f.stash : e \in disk[b].stash \/ (Authors(p, r, e) /\ ~e.explicit)
    BY <2>1, <2>5, <2>6, <2>8, <2>9
  <2> QED BY <1>2, <2>2, <2>6, <2>7, <2>8, <2>10, <2>11, <2>12, PageRests
<1>4. CASE ~captures /\ tab' = [tab EXCEPT ![p].life = "hidden"] /\ UNCHANGED <<disk, asked>>
  <2>1. tab' = [tab EXCEPT ![p] = [tab[p] EXCEPT !.life = "hidden"]]
    BY <1>4
  <2>2. /\ [tab[p] EXCEPT !.life = "hidden"]
              = [tab[p] EXCEPT !.life = "hidden", !.writing = tab[p].writing]
        /\ tab[p].writing \in SUBSET tab[p].writing
    BY <1>1 DEF Tab
  <2> QED BY <1>2, <1>4, <2>1, <2>2, ComesAndGoes
<1> QED BY <1>3, <1>4 DEF Hide

LEMMA AsksWhose ==
    ASSUME TypeOK, TypeOK', Whose, filing = Idle, NEW p \in Pages, OpenBook(p) \/ ResetBook(p)
    PROVE  Whose'
<1>1. PICK kind \in {"get", "reset"} : asked' = asked \cup {Request(p, kind, {}, FALSE)}
  BY DEF OpenBook, ResetBook
<1>2. Request(p, kind, {}, FALSE).events = {}
  BY DEF Request
<1>3. \A m \in asked' : m \in asked \/ m.events = {}
  BY <1>1, <1>2
<1>4. UNCHANGED <<account, filing, disk, tab, answered, queued, muddled, carried>>
  BY DEF OpenBook, ResetBook
<1>5. tab' = [tab EXCEPT ![p] = tab[p]] /\ tab[p] \in Tab
  BY <1>4, SameTab
<1> QED BY <1>3, <1>4, <1>5, TabRests


\* Merging drops from the queue what is of an older generation.
LEMMA MergedExactly ==
    ASSUME NEW d \in Disk, NEW gen \in Nat, NEW row \in Row \cup {NoRow}
    PROVE  /\ Merged(d, gen, row).gen \in {d.gen, gen}
           /\ \A e \in d.pending : e \in Merged(d, gen, row).pending \/ e.gen < gen
<1> DEFINE left == {e \in d.pending : e.gen >= gen}
           news == Newer(IF gen > d.gen THEN NoRow ELSE d.cached, row)
           m == [d EXCEPT !.gen = gen, !.cached = news, !.pending = left]
<1>1. Merged(d, gen, row) \in {d, m}
  BY DEF Merged
<1>2. \A e \in d.pending : e \in left \/ e.gen < gen
  <2> SUFFICES ASSUME NEW e \in d.pending PROVE e.gen >= gen \/ e.gen < gen
    OBVIOUS
  <2>1. e.gen \in Nat
    BY DEF Disk, Event
  <2> QED BY <2>1
<1> HIDE DEF left, news
<1>3. m.gen = gen /\ m.pending = left
  BY DEF Disk
<1> HIDE DEF m
<1> QED BY <1>1, <1>2, <1>3

\* What an answer to the owner of the queue may take out of it.
LEMMA AnswerIsKnown ==
    ASSUME TypeOK, Origins, NEW b \in Browsers, NEW m \in answered,
           m.kind \notin {"denied", "refused"}, m.user = disk[b].owner
    PROVE  /\ disk[b].owner # NoOne /\ m.gen <= account[disk[b].owner].gen
           /\ Waits => \A e \in queued : e \in disk[b].pending /\ e.gen < m.gen => Has(e)
<1>1. /\ m.user \in Users /\ m.gen <= account[m.user].gen
      /\ m.gen \in Nat /\ account[m.user].gen \in Nat
  BY DEF Origins, TypeOK, Answer, Account
<1>2. ASSUME Waits, NEW e \in queued, e \in disk[b].pending, e.gen < m.gen PROVE Has(e)
  <2>1. e.owner = m.user /\ e.gen \in Nat
    BY <1>2 DEF Origins, Waits, Handed, TypeOK, Event
  <2> QED BY <1>1, <1>2, <2>1 DEF Has
<1> QED BY <1>1, <1>2, NobodyAssumption

LEMMA OpenedOwn ==
    ASSUME TypeOK, NEW p \in Pages, NEW d \in Disk
    PROVE  LET r == Opened(p, d)
           IN  /\ r \in Tab /\ r.seq \in {tab[p].seq, tab[p].seq + 1}
               /\ \A e \in r.writing : e \in tab[p].writing \/ Authors(p, r, e)
               /\ tab[p].writing \subseteq r.writing
               /\ r.life = tab[p].life /\ r.session = tab[p].session
               /\ r.next = tab[p].next /\ r.purging = tab[p].purging
               /\ r.reading = tab[p].session
<1> DEFINE t == Adopting(tab[p], d)
           made == Built(p, TRUE)
           open == [made EXCEPT !.base = t.known, !.gen = t.active, !.by = t.session]
           S == t.writing \cup {open}
           r == Opened(p, d)
<1>1. tab[p] \in Tab
  BY DEF TypeOK
<1>2. /\ t \in Tab /\ t.seq = tab[p].seq /\ t.writing = tab[p].writing
      /\ t.session = tab[p].session /\ t.next = tab[p].next
  BY <1>1, AdoptingTab
<1>3. t.life = tab[p].life /\ t.purging = tab[p].purging /\ t.reading = tab[p].session
  BY <1>1 DEF Adopting, Tab
<1>4. r \in Tab /\ r.next = tab[p].next
  BY OpenedTab
<1>5. CASE DeliveringFor(p) = NoOne
  <2>1. r = t
    BY <1>5 DEF Opened
  <2> HIDE DEF t
  <2> QED BY <1>2, <1>3, <1>4, <2>1
<1>6. CASE DeliveringFor(p) # NoOne
  <2>1. r = [t EXCEPT !.seq = @ + 1, !.writing = S]
    BY <1>6 DEF Opened
  <2>2. made.page = p /\ made.seq = tab[p].seq + 1 /\ made.owner = tab[p].session
    BY DEF Built
  <2>3. open.page = made.page /\ open.seq = made.seq /\ open.owner = made.owner /\ open.by = t.session
    BY DEF Built
  <2> HIDE DEF t, open, made
  <2>4. S = tab[p].writing \cup {open}
    BY <1>2
  <2> HIDE DEF S
  <2>5. /\ r.seq = tab[p].seq + 1 /\ r.writing = S /\ r.life = t.life /\ r.session = t.session
        /\ r.purging = t.purging /\ r.reading = t.reading
    BY <1>2, <2>1 DEF Tab
  <2> HIDE DEF r
  <2>6. Authors(p, r, open)
    BY <1>2, <2>2, <2>3, <2>5 DEF Authors, Own
  <2> QED BY <1>2, <1>3, <1>4, <2>4, <2>5, <2>6 DEF r
<1> QED BY <1>5, <1>6

LEMMA AckedOwn ==
    ASSUME TypeOK, NEW p \in Pages, NEW m \in Answer
    PROVE  LET r == Acked(p, m)
           IN  /\ r \in Tab /\ r.seq \in {tab[p].seq, tab[p].seq + 1}
               /\ \A e \in r.writing : e \in tab[p].writing \/ Authors(p, r, e)
               /\ r.life = tab[p].life /\ r.session = tab[p].session
               /\ r.next = tab[p].next /\ r.purging = tab[p].purging
               /\ r.reading = tab[p].reading
<1> DEFINE l == Learned(tab[p], m)
           t == Unguarded(l, m)
           made == Built(p, TRUE)
           claim == [made EXCEPT !.base = t.known]
           S == t.writing \cup {claim}
           r == Acked(p, m)
<1>1. tab[p] \in Tab /\ m.guard \in BOOLEAN
  BY DEF TypeOK, Answer
<1>2. l \in Tab /\ l.seq = tab[p].seq /\ l.writing = tab[p].writing /\ l.next = tab[p].next
  BY <1>1, LearnedTab
<1>3. /\ l.life = tab[p].life /\ l.purging = tab[p].purging /\ l.reading = tab[p].reading
      /\ l.session = tab[p].session
  <2>1. l = tab[p] \/ l = [tab[p] EXCEPT !.known = m.row.revision]
    BY DEF Learned
  <2> QED BY <1>1, <2>1 DEF Tab
<1> HIDE DEF l
<1>4. t \in Tab /\ t.seq = l.seq /\ t.writing = l.writing /\ t.next = l.next
  BY <1>1, <1>2, UnguardedTab
<1>5. t.life = l.life /\ t.purging = l.purging /\ t.reading = l.reading /\ t.session = l.session
  BY <1>2 DEF Unguarded, Tab
<1>6. r \in Tab /\ r.next = tab[p].next
  BY AckedTab
<1>7. CASE ~Reclaims(p, m)
  <2>1. r = t
    BY <1>7 DEF Acked, l
  <2> HIDE DEF t
  <2> QED BY <1>2, <1>3, <1>4, <1>5, <1>6, <2>1
<1>8. CASE Reclaims(p, m)
  <2>1. r = [t EXCEPT !.seq = @ + 1, !.writing = S, !.reclaimed = clock]
    BY <1>8 DEF Acked, l
  <2>2. /\ made.page = p /\ made.seq = tab[p].seq + 1
        /\ ReadsOwn(tab[p]) => Own(made)
    BY <1>8, BuiltOwn DEF Reclaims
  <2>3. /\ claim.page = made.page /\ claim.seq = made.seq
        /\ claim.owner = made.owner /\ claim.by = made.by
    BY DEF Built
  <2> HIDE DEF t, claim, made
  <2>4. S = tab[p].writing \cup {claim}
    BY <1>2, <1>4
  <2> HIDE DEF S
  <2>5. /\ r.seq = tab[p].seq + 1 /\ r.writing = S /\ r.life = t.life /\ r.session = t.session
        /\ r.purging = t.purging /\ r.reading = t.reading
    BY <1>2, <1>4, <2>1 DEF Tab
  <2> HIDE DEF r
  <2>6. Authors(p, r, claim)
    BY <2>2, <2>3, <2>5 DEF Authors, Own
  <2> QED BY <1>2, <1>3, <1>5, <1>6, <2>4, <2>5, <2>6 DEF r
<1> QED BY <1>7, <1>8


LEMMA TakePlaceWhose ==
    ASSUME TypeOK, TypeOK', Whose, filing = Idle, NEW p \in Pages, TakePlace(p)
    PROVE  Whose'
<1> DEFINE b == Home[p]
<1>1. PICK m \in answered :
        LET d == Merged(disk[b], m.gen, m.row) IN
        /\ m.page = p /\ m.kind \in {"state", "peeked"}
        /\ answered' = answered \ {m}
        /\ disk' = [disk EXCEPT ![b] = Drained(d)]
        /\ tab' = [tab EXCEPT ![p] = IF m.kind = "state" THEN Opened(p, d) ELSE @]
        /\ queued' = Queueing(d, d.stash)
        /\ muddled' = (muddled \/ m.user # disk[b].owner)
        /\ UNCHANGED <<clock, account, filing, cookie, asked, carried, used>>
  BY DEF TakePlace
<1> DEFINE d == Merged(disk[b], m.gen, m.row)
           f == Drained(d)
           r == IF m.kind = "state" THEN Opened(p, d) ELSE tab[p]
<1>2. /\ b \in Browsers /\ disk[b] \in Disk /\ tab[p] \in Tab
      /\ m.gen \in Nat /\ m.row \in Row \cup {NoRow}
  BY HomeAssumption DEF TypeOK, Answer
<1>3. /\ d \in Disk /\ d.pending \subseteq disk[b].pending
      /\ d.stash = disk[b].stash /\ d.owner = disk[b].owner
      /\ d.gen \in {disk[b].gen, m.gen}
      /\ \A e \in disk[b].pending : e \in d.pending \/ e.gen < m.gen
  BY <1>2, MergedDisk, MergedExactly
<1>4. /\ disk' = [disk EXCEPT ![b] = f] /\ tab' = [tab EXCEPT ![p] = r]
      /\ queued' = Queueing(d, d.stash)
  BY <1>1
<1> HIDE DEF d
<1>5. /\ f \in Disk /\ f.stash = {} /\ f.gen = d.gen /\ f.owner = disk[b].owner
      /\ \A e : e \in f.pending <=> e \in d.pending \/ (e \in d.stash /\ e.gen = d.gen)
  BY <1>3, DrainedDisk, DrainedExactly
<1>6. \A e \in queued' : e \in queued \/ (e \in disk[b].stash /\ e.gen = f.gen /\ e.owner = disk[b].owner)
  BY <1>3, <1>4, <1>5, DrainedExactly
<1>7. /\ r \in Tab /\ r.seq \in {tab[p].seq, tab[p].seq + 1}
      /\ \A e \in r.writing : e \in tab[p].writing \/ Authors(p, r, e)
      /\ tab[p].writing \subseteq r.writing
      /\ r.life = tab[p].life /\ r.session = tab[p].session
      /\ r.next = tab[p].next /\ r.purging = tab[p].purging
      /\ r.reading \in {tab[p].session, tab[p].reading}
  BY <1>2, <1>3, OpenedOwn
<1> HIDE DEF f, r
<1>8. (Turning(tab[p]) => Turning(r)) /\ (ReadsOwn(tab[p]) /\ Turning(tab[p]) => ReadsOwn(r))
  BY <1>7 DEF Turning, ReadsOwn
<1>9. ASSUME Origins, ~muddled'
      PROVE  f.gen = disk[b].gen \/ (f.owner # NoOne /\ f.gen <= account[f.owner].gen)
  BY <1>1, <1>2, <1>3, <1>5, <1>9, AnswerIsKnown
<1>10. ASSUME Origins, NEW e \in queued'
       PROVE  \/ e \in queued
              \/ /\ e.owner = disk[b].owner /\ e \in f.pending
                 /\ e.gen = f.gen /\ (e.explicit => e \in tab[p].writing)
  BY <1>2, <1>3, <1>5, <1>6, <1>10 DEF Origins
<1>11. ASSUME Origins, Waits, ~muddled', NEW e \in queued', e.explicit, e \in disk[b].pending
       PROVE  e \in f.pending \/ Has(e)
  <2>1. e \in queued
    BY <1>2, <1>6, <1>11 DEF Origins
  <2> QED BY <1>1, <1>2, <1>3, <1>5, <1>11, <2>1, AnswerIsKnown
<1>12. /\ f.stash \subseteq disk[b].stash
       /\ \A e \in f.pending : e \in disk[b].pending \cup disk[b].stash
       /\ UNCHANGED <<account, filing, asked, carried>>
       /\ answered' \subseteq answered /\ (muddled => muddled')
  BY <1>1, <1>3, <1>5
<1>13. f \in Disk /\ f.owner = disk[b].owner
  BY <1>5
<1> QED BY <1>4, <1>7, <1>8, <1>9, <1>10, <1>11, <1>12, <1>13, PageRests


LEMMA TakeAckWhose ==
    ASSUME TypeOK, TypeOK', Whose, filing = Idle, NEW p \in Pages, TakeAck(p)
    PROVE  Whose'
<1> DEFINE b == Home[p]
<1>1. PICK m \in answered :
        /\ m.page = p /\ m.kind = "filed" /\ answered' = answered \ {m}
        /\ LET rest == [disk[b] EXCEPT !.pending = @ \ m.events]
           IN  disk' = [disk EXCEPT ![b] = Merged(rest, m.gen, m.row)]
        /\ tab' = [tab EXCEPT ![p] = Acked(p, m)]
        /\ muddled' = (muddled \/ m.user # disk[b].owner)
        /\ UNCHANGED <<clock, account, filing, cookie, asked, queued, carried, used>>
  BY DEF TakeAck, Acked
<1> DEFINE left == disk[b].pending \ m.events
           o == [disk[b] EXCEPT !.pending = left]
           f == Merged(o, m.gen, m.row)
           r == Acked(p, m)
<1>2. /\ b \in Browsers /\ disk[b] \in Disk /\ tab[p] \in Tab /\ m \in Answer
      /\ m.gen \in Nat /\ m.row \in Row \cup {NoRow}
  BY HomeAssumption DEF TypeOK, Answer
<1>3. left \in SUBSET Event /\ left = disk[b].pending \ m.events
  BY <1>2 DEF Disk
<1>4. disk' = [disk EXCEPT ![b] = f] /\ tab' = [tab EXCEPT ![p] = r]
  BY <1>1
<1> HIDE DEF left
<1>5. /\ o \in Disk /\ o.pending = left /\ o.stash = disk[b].stash
      /\ o.gen = disk[b].gen /\ o.owner = disk[b].owner
  BY <1>2, <1>3 DEF Disk
<1> HIDE DEF o
<1>6. /\ f \in Disk /\ f.pending \subseteq left /\ f.stash = disk[b].stash
      /\ f.owner = disk[b].owner /\ f.gen \in {disk[b].gen, m.gen}
      /\ \A e \in left : e \in f.pending \/ e.gen < m.gen
  BY <1>2, <1>5, MergedDisk, MergedExactly
<1>7. /\ r \in Tab /\ r.seq \in {tab[p].seq, tab[p].seq + 1}
      /\ \A e \in r.writing : e \in tab[p].writing \/ Authors(p, r, e)
      /\ r.life = tab[p].life /\ r.session = tab[p].session
      /\ r.next = tab[p].next /\ r.purging = tab[p].purging
      /\ r.reading = tab[p].reading
  BY <1>2, AckedOwn
<1> HIDE DEF f, r
<1>8. (Turning(tab[p]) => Turning(r)) /\ (ReadsOwn(tab[p]) /\ Turning(tab[p]) => ReadsOwn(r))
  BY <1>7 DEF Turning, ReadsOwn
<1>9. ASSUME Origins, ~muddled'
      PROVE  f.gen = disk[b].gen \/ (f.owner # NoOne /\ f.gen <= account[f.owner].gen)
  BY <1>1, <1>2, <1>6, <1>9, AnswerIsKnown
<1>10. ASSUME Origins, Waits, ~muddled', NEW e \in queued', e.explicit, e \in disk[b].pending
       PROVE  e \in f.pending \/ Has(e)
  <2>1. e \in queued
    BY <1>1
  <2>2. CASE e \in m.events
    BY <1>1, <1>10, <2>1, <2>2 DEF Waits
  <2>3. CASE e \in left
    BY <1>1, <1>2, <1>6, <1>10, <2>1, <2>3, AnswerIsKnown
  <2> QED BY <1>3, <1>10, <2>2, <2>3
<1>11. /\ f.stash \subseteq disk[b].stash
       /\ \A e \in f.pending : e \in disk[b].pending \cup disk[b].stash
       /\ UNCHANGED <<account, filing, asked, queued, carried>>
       /\ answered' \subseteq answered /\ (muddled => muddled')
  BY <1>1, <1>3, <1>6
<1> QED BY <1>4, <1>6, <1>7, <1>8, <1>9, <1>10, <1>11, PageRests

LEMMA TakeErasedWhose ==
    ASSUME TypeOK, TypeOK', Whose, filing = Idle, NEW p \in Pages, TakeErased(p)
    PROVE  Whose'
<1> DEFINE b == Home[p]
<1>1. PICK m \in answered :
        LET d == Merged(disk[b], m.gen, NoRow) IN
        /\ m.page = p /\ m.kind = "erased"
        /\ answered' = answered \ {m}
        /\ disk' = [disk EXCEPT
              ![b] = [d EXCEPT !.stash = {e \in @ : e.gen >= m.gen}]]
        /\ tab' = [tab EXCEPT ![p].known = 0]
        /\ muddled' = (muddled \/ m.user # disk[b].owner)
        /\ UNCHANGED <<clock, account, filing, cookie, asked, queued, carried, used>>
  BY DEF TakeErased
<1> DEFINE d == Merged(disk[b], m.gen, NoRow)
           left == {e \in d.stash : e.gen >= m.gen}
           f == [d EXCEPT !.stash = left]
           r == [tab[p] EXCEPT !.known = 0]
<1>2. /\ b \in Browsers /\ disk[b] \in Disk /\ tab[p] \in Tab
      /\ m.gen \in Nat /\ NoRow \in Row \cup {NoRow}
  BY HomeAssumption DEF TypeOK, Answer
<1>3. disk' = [disk EXCEPT ![b] = f] /\ tab' = [tab EXCEPT ![p] = r]
  BY <1>1
<1>4. /\ d \in Disk /\ d.pending \subseteq disk[b].pending
      /\ d.stash = disk[b].stash /\ d.owner = disk[b].owner
      /\ d.gen \in {disk[b].gen, m.gen}
      /\ \A e \in disk[b].pending : e \in d.pending \/ e.gen < m.gen
  BY <1>2, MergedDisk, MergedExactly
<1> HIDE DEF d
<1>5. left \subseteq disk[b].stash /\ left \in SUBSET Event
  BY <1>4 DEF Disk
<1> HIDE DEF left
<1>6. /\ f \in Disk /\ f.pending = d.pending /\ f.stash = left
      /\ f.gen = d.gen /\ f.owner = d.owner
  BY <1>4, <1>5, StashedDisk
<1>7. /\ r \in Tab /\ r.seq = tab[p].seq /\ r.writing = tab[p].writing
      /\ r.life = tab[p].life /\ r.session = tab[p].session
      /\ r.next = tab[p].next /\ r.purging = tab[p].purging
      /\ r.reading = tab[p].reading
  BY <1>2 DEF Tab
<1> HIDE DEF f, r
<1>8. (Turning(tab[p]) => Turning(r)) /\ (ReadsOwn(tab[p]) /\ Turning(tab[p]) => ReadsOwn(r))
  BY <1>7 DEF Turning, ReadsOwn
<1>9. ASSUME Origins, ~muddled'
      PROVE  f.gen = disk[b].gen \/ (f.owner # NoOne /\ f.gen <= account[f.owner].gen)
  BY <1>1, <1>2, <1>4, <1>6, <1>9, AnswerIsKnown
<1>10. ASSUME Origins, Waits, ~muddled', NEW e \in queued', e.explicit, e \in disk[b].pending
       PROVE  e \in f.pending \/ Has(e)
  BY <1>1, <1>2, <1>4, <1>6, <1>10, AnswerIsKnown
<1>11. /\ f.stash \subseteq disk[b].stash /\ f.owner = disk[b].owner
       /\ \A e \in f.pending : e \in disk[b].pending \cup disk[b].stash
       /\ UNCHANGED <<account, filing, asked, queued, carried>>
       /\ answered' \subseteq answered /\ (muddled => muddled')
  BY <1>1, <1>4, <1>5, <1>6
<1> QED BY <1>3, <1>6, <1>7, <1>8, <1>9, <1>10, <1>11, PageRests

LEMMA UnguardedOwn ==
    ASSUME NEW t \in Tab, NEW m, m.guard \in BOOLEAN
    PROVE  LET r == Unguarded(t, m)
           IN  /\ r \in Tab /\ r.seq = t.seq /\ r.writing = t.writing
               /\ r.life = t.life /\ r.session = t.session /\ r.next = t.next
               /\ r.purging = t.purging /\ r.reading = t.reading
  BY DEF Tab, Unguarded

LEMMA TakeRefusalWhose ==
    ASSUME TypeOK, TypeOK', Whose, filing = Idle, NEW p \in Pages, TakeRefusal(p)
    PROVE  Whose'
<1> DEFINE b == Home[p]
<1>1. PICK m \in answered :
        LET denied == m.kind = "denied"
            kept == IF denied THEN Forgotten(disk[b]) ELSE disk[b]
            left == Unguarded(IF denied THEN Released(tab[p]) ELSE tab[p], m)
            drains == m.to \in {"get", "peek"}
        IN
        /\ m.page = p /\ m.kind \in {"denied", "refused"}
        /\ answered' = answered \ {m}
        /\ disk' = [disk EXCEPT ![b] = IF drains THEN Drained(kept) ELSE kept]
        /\ queued' = IF drains THEN Queueing(kept, kept.stash) ELSE queued
        /\ tab' = [tab EXCEPT ![p] =
              IF m.to = "get" THEN Adopting(left, kept) ELSE left]
        /\ UNCHANGED <<clock, account, filing, cookie, asked, muddled, carried, used>>
  BY DEF TakeRefusal
<1> DEFINE denied == m.kind = "denied"
           kept == IF denied THEN Forgotten(disk[b]) ELSE disk[b]
           was == IF denied THEN Released(tab[p]) ELSE tab[p]
           left == Unguarded(was, m)
           drains == m.to \in {"get", "peek"}
           f == IF drains THEN Drained(kept) ELSE kept
           r == IF m.to = "get" THEN Adopting(left, kept) ELSE left
<1>2. b \in Browsers /\ disk[b] \in Disk /\ tab[p] \in Tab /\ m.guard \in BOOLEAN
  BY HomeAssumption DEF TypeOK, Answer
<1>3. /\ disk' = [disk EXCEPT ![b] = f] /\ tab' = [tab EXCEPT ![p] = r]
      /\ queued' = IF drains THEN Queueing(kept, kept.stash) ELSE queued
  BY <1>1
<1>4. /\ kept \in Disk /\ kept.pending = disk[b].pending /\ kept.stash = disk[b].stash
      /\ kept.gen = disk[b].gen /\ kept.owner = disk[b].owner
  BY <1>2, ForgottenDisk
<1>5. /\ was \in Tab /\ was.seq = tab[p].seq /\ was.writing = tab[p].writing
      /\ was.life = tab[p].life /\ was.next = tab[p].next /\ was.purging = tab[p].purging
      /\ was.session \in {tab[p].session, NoOne}
      /\ was.reading \in {tab[p].reading, NoOne}
  BY <1>2 DEF Tab, Released
<1> HIDE DEF kept, was, denied
<1>6. /\ left \in Tab /\ left.seq = was.seq /\ left.writing = was.writing
      /\ left.life = was.life /\ left.session = was.session /\ left.next = was.next
      /\ left.purging = was.purging /\ left.reading = was.reading
  BY <1>2, <1>5, UnguardedOwn
<1> HIDE DEF left
<1>7. /\ r \in Tab /\ r.seq = tab[p].seq /\ r.writing = tab[p].writing
      /\ r.life = tab[p].life /\ r.next = tab[p].next /\ r.purging = tab[p].purging
      /\ r.session \in {tab[p].session, NoOne}
      /\ r.reading \in {tab[p].reading, NoOne, r.session}
  <2>1. CASE m.to = "get"
    <3>1. r = Adopting(left, kept) /\ r \in Tab /\ r.seq = left.seq /\ r.writing = left.writing
          /\ r.next = left.next /\ r.session = left.session
      BY <1>4, <1>6, <2>1, AdoptingTab
    <3>2. r.life = left.life /\ r.purging = left.purging /\ r.reading = left.session
      BY <1>6, <2>1 DEF Adopting, Tab
    <3> HIDE DEF r
    <3> QED BY <1>5, <1>6, <3>1, <3>2
  <2>2. CASE m.to # "get"
    BY <1>5, <1>6, <2>2
  <2> QED BY <2>1, <2>2
<1>8. /\ f \in Disk /\ f.pending \subseteq disk[b].pending \cup disk[b].stash
      /\ disk[b].pending \subseteq f.pending /\ f.stash \subseteq disk[b].stash
      /\ f.gen = disk[b].gen /\ f.owner = disk[b].owner
  BY <1>4, DrainedDisk, DrainedExactly
<1>9. \A e \in queued' :
         \/ e \in queued
         \/ e \in disk[b].stash /\ e \in f.pending /\ e.gen = f.gen /\ e.owner = disk[b].owner
  BY <1>3, <1>4, <1>8, DrainedExactly
<1> HIDE DEF r, f
<1>10. (Turning(tab[p]) => Turning(r)) /\ (ReadsOwn(tab[p]) /\ Turning(tab[p]) => ReadsOwn(r))
  BY <1>7 DEF Turning, ReadsOwn
<1>11. UNCHANGED <<account, filing, asked, muddled, carried>> /\ answered' \subseteq answered
  BY <1>1
<1>12. ASSUME Origins, NEW e \in queued'
       PROVE  \/ e \in queued
              \/ /\ e.owner = disk[b].owner /\ e \in f.pending
                 /\ e.gen = f.gen /\ (e.explicit => e \in tab[p].writing)
  BY <1>2, <1>9, <1>12 DEF Origins
<1> QED BY <1>3, <1>7, <1>8, <1>10, <1>11, <1>12, PageRests

LEMMA RollbackWhose ==
    ASSUME TypeOK, TypeOK', Whose, Rollback
    PROVE  Whose'
<1> DEFINE p == filing.page
           r == Unguarded(tab[p], filing)
<1>1. p \in Pages /\ filing.guard \in BOOLEAN /\ tab[p] \in Tab
  BY DEF Rollback, TypeOK, Batch
<1>2. tab' = [tab EXCEPT ![p] = r]
  BY DEF Rollback
<1>3. /\ r \in Tab /\ r.seq = tab[p].seq /\ r.writing = tab[p].writing
      /\ r.life = tab[p].life /\ r.session = tab[p].session /\ r.next = tab[p].next
      /\ r.purging = tab[p].purging /\ r.reading = tab[p].reading
  BY <1>1, UnguardedOwn
<1>4. (Turning(tab[p]) => Turning(r)) /\ (ReadsOwn(tab[p]) /\ Turning(tab[p]) => ReadsOwn(r))
  BY <1>3 DEF Turning, ReadsOwn
<1> HIDE DEF p, r
<1>5. /\ UNCHANGED <<account, asked, answered, queued, muddled, carried>>
      /\ filing' = Idle
  BY DEF Rollback
<1>6. disk' = [disk EXCEPT ![Home[p]] = disk[Home[p]]] /\ disk[Home[p]] \in Disk
  BY <1>1, SameDisk DEF Rollback
<1> QED BY <1>1, <1>2, <1>3, <1>4, <1>5, <1>6, PageRests

LEMMA LoseWhose ==
    ASSUME TypeOK, TypeOK', Whose, filing = Idle, Lose
    PROVE  Whose'
<1>1. PICK m \in asked \cup answered :
        /\ asked' = asked \ {m} /\ answered' = answered \ {m}
        /\ GivesUp(m.page, m)
  BY DEF Lose
<1> DEFINE p == m.page
           b == Home[p]
<1>2. p \in Pages /\ b \in Browsers /\ m.guard \in BOOLEAN
  BY <1>1, HomeAssumption DEF TypeOK, Ask, Answer
<1>3. disk[b] \in Disk /\ tab[p] \in Tab
  BY <1>2 DEF TypeOK
<1>4. UNCHANGED <<account, filing, muddled, carried>>
  BY DEF Lose
<1>5. asked' \subseteq asked /\ answered' \subseteq answered /\ GivesUp(p, m)
  BY <1>1
<1> HIDE DEF p
<1>6. CASE m.kind \in {"get", "state", "peek", "peeked"} /\ Running(p)
  <2> DEFINE f == Drained(disk[b])
             r == IF m.kind \in {"get", "state"} THEN Opened(p, disk[b]) ELSE tab[p]
  <2>1. /\ disk' = [disk EXCEPT ![b] = f] /\ queued' = Queueing(disk[b], disk[b].stash)
        /\ tab' = [tab EXCEPT ![p] = r]
    BY <1>5, <1>6 DEF GivesUp
  <2>2. /\ f \in Disk /\ f.gen = disk[b].gen /\ f.owner = disk[b].owner
        /\ f.pending \subseteq disk[b].pending \cup disk[b].stash
        /\ disk[b].pending \subseteq f.pending /\ f.stash \subseteq disk[b].stash
    BY <1>3, DrainedDisk, DrainedExactly
  <2>3. \A e \in queued' :
           \/ e \in queued
           \/ e \in disk[b].stash /\ e \in f.pending /\ e.gen = f.gen /\ e.owner = disk[b].owner
    BY <1>3, <2>1, <2>2, DrainedExactly
  <2>4. /\ r \in Tab /\ r.seq \in {tab[p].seq, tab[p].seq + 1}
        /\ \A e \in r.writing : e \in tab[p].writing \/ Authors(p, r, e)
        /\ tab[p].writing \subseteq r.writing
        /\ r.life = tab[p].life /\ r.session = tab[p].session
        /\ r.next = tab[p].next /\ r.purging = tab[p].purging
        /\ r.reading \in {tab[p].session, tab[p].reading}
    BY <1>2, <1>3, OpenedOwn
  <2> HIDE DEF r, f
  <2>5. (Turning(tab[p]) => Turning(r)) /\ (ReadsOwn(tab[p]) /\ Turning(tab[p]) => ReadsOwn(r))
    BY <2>4 DEF Turning, ReadsOwn
  <2>6. ASSUME Origins, NEW e \in queued'
        PROVE  \/ e \in queued
               \/ /\ e.owner = disk[b].owner /\ e \in f.pending
                  /\ e.gen = f.gen /\ (e.explicit => e \in tab[p].writing)
    BY <1>2, <2>3, <2>6 DEF Origins
  <2> QED BY <1>2, <1>4, <1>5, <2>1, <2>2, <2>4, <2>5, <2>6, PageRests
<1>7. CASE ~(m.kind \in {"get", "state", "peek", "peeked"} /\ Running(p))
  <2> DEFINE r == Unguarded(tab[p], m)
  <2>1. tab' = [tab EXCEPT ![p] = r] /\ UNCHANGED <<disk, queued>>
    BY <1>5, <1>7 DEF GivesUp
  <2>2. /\ r \in Tab /\ r.seq = tab[p].seq /\ r.writing = tab[p].writing
        /\ r.life = tab[p].life /\ r.session = tab[p].session /\ r.next = tab[p].next
        /\ r.purging = tab[p].purging /\ r.reading = tab[p].reading
    BY <1>2, <1>3, UnguardedOwn
  <2> HIDE DEF r
  <2>3. (Turning(tab[p]) => Turning(r)) /\ (ReadsOwn(tab[p]) /\ Turning(tab[p]) => ReadsOwn(r))
    BY <2>2 DEF Turning, ReadsOwn
  <2> QED BY <1>2, <1>4, <1>5, <2>1, <2>2, <2>3, TabRests
<1> QED BY <1>6, <1>7


\* A step that makes nothing, but may pass the queue on.
LEMMA NothingMade ==
    ASSUME TypeOK, TypeOK', Whose, filing = Idle, filing' = Idle,
           NEW p \in Pages, NEW r \in Tab, NEW f \in Disk,
           tab' = [tab EXCEPT ![p] = r], disk' = [disk EXCEPT ![Home[p]] = f],
           UNCHANGED <<account, asked, answered>>,
           carried => carried', muddled => muddled',
           r.seq = tab[p].seq, r.writing = tab[p].writing,
           Turning(tab[p]) => Turning(r),
           ReadsOwn(tab[p]) /\ Turning(tab[p]) /\ ~carried' => ReadsOwn(r),
           f.pending \subseteq disk[Home[p]].pending, f.stash \subseteq disk[Home[p]].stash,
           Origins /\ Waits /\ ~muddled' => HandsOn(p)
    PROVE  Whose'
<1>1. /\ Home[p] \in Browsers /\ tab'[p] = r /\ \A q \in Pages \ {p} : tab'[q] = tab[q]
      /\ disk'[Home[p]] = f /\ \A c \in Browsers \ {Home[p]} : disk'[c] = disk[c]
  BY HomeAssumption DEF TypeOK
<1>2. Turning(tab[p]) /\ tab[p].seq \in Nat
  BY DEF Whose, Origins, TypeOK, Tab
<1>3. Moved(p)
  BY <1>1, <1>2 DEF Moved
<1> QED BY <1>3, PageWhose

\* The queue is being cleared: nothing in it is its owner's any more.
LEMMA Clearing ==
    ASSUME TypeOK, NEW p \in Pages, Waits,
           tab'[p].purging = "clearing", disk'[Home[p]].owner = NoOne,
           disk'[Home[p]].pending = disk[Home[p]].pending,
           queued' = LeftBehind(Home[p])
    PROVE  HandsOn(p)
  BY DEF HandsOn, LeftBehind

LEMMA SealQueueWhose ==
    ASSUME TypeOK, TypeOK', Whose, filing = Idle, NEW p \in Pages, SealQueue(p)
    PROVE  Whose'
<1> DEFINE b == Home[p]
           s == Sealed(tab[p])
           r == [s EXCEPT !.reading = NoOne]
           g == Forgotten(disk[b])
           f == SealedDisk(g)
<1>1. b \in Browsers /\ disk[b] \in Disk /\ tab[p] \in Tab
  BY HomeAssumption DEF TypeOK
<1>2. tab' = [tab EXCEPT ![p] = r] /\ disk' = [disk EXCEPT ![b] = f]
  BY DEF SealQueue
<1>3. /\ s \in Tab /\ s.seq = tab[p].seq /\ s.writing = tab[p].writing /\ s.next = tab[p].next
  BY <1>1, SealedTab
<1>4. s.life = tab[p].life /\ s.session = NoOne /\ s.purging = "clearing"
  BY <1>1 DEF Sealed, Tab
<1> HIDE DEF s
<1>5. /\ r \in Tab /\ r.seq = tab[p].seq /\ r.writing = tab[p].writing /\ r.next = tab[p].next
      /\ r.life = tab[p].life /\ r.session = NoOne /\ r.purging = "clearing"
      /\ r.reading = NoOne
  BY <1>3, <1>4 DEF Tab
<1>6. g \in Disk /\ g.pending = disk[b].pending /\ g.stash = disk[b].stash
  BY <1>1, ForgottenDisk
<1> HIDE DEF g
<1>7. f \in Disk /\ f.pending = disk[b].pending /\ f.stash = {} /\ f.owner = NoOne
  BY <1>6, SealedDiskDisk
<1> HIDE DEF r, f
<1>8. tab'[p] = r /\ disk'[b] = f
  BY <1>1, <1>2 DEF TypeOK
<1>9. /\ UNCHANGED <<account, filing, asked, answered, muddled, carried>>
      /\ queued' = LeftBehind(b) /\ tab[p].life # "new"
  BY DEF SealQueue, Running
<1>10. (Turning(tab[p]) => Turning(r)) /\ ReadsOwn(r)
  BY <1>5, <1>9 DEF Turning, ReadsOwn
<1>11. Waits => HandsOn(p)
  BY <1>5, <1>7, <1>8, <1>9, Clearing
<1> QED BY <1>2, <1>5, <1>7, <1>9, <1>10, <1>11, NothingMade

LEMMA PurgedWhose ==
    ASSUME TypeOK, TypeOK', Whose, filing = Idle, NEW p \in Pages, Purged(p)
    PROVE  Whose'
<1> DEFINE b == Home[p]
           t == tab[p]
           o == IF t.next = NoOne THEN disk[b].owner ELSE t.next
           r == [t EXCEPT !.purging = "no", !.next = NoOne, !.session = t.next]
           f == [disk[b] EXCEPT !.pending = {}, !.cached = NoRow, !.gen = 0, !.owner = o]
<1>1. b \in Browsers /\ disk[b] \in Disk /\ t \in Tab
  BY HomeAssumption DEF TypeOK
<1>2. tab' = [tab EXCEPT ![p] = r] /\ disk' = [disk EXCEPT ![b] = f]
  BY <1>1 DEF Purged, TypeOK
<1>3. /\ r \in Tab /\ r.seq = t.seq /\ r.writing = t.writing /\ r.life = t.life
      /\ r.next = NoOne /\ r.purging = "no" /\ r.session = t.next /\ r.reading = t.reading
  BY <1>1 DEF Tab
<1>4. o \in Users \cup {NoOne}
  BY <1>1 DEF Disk, Tab
<1> HIDE DEF r, o
<1>5. /\ f \in Disk /\ f.pending = {} /\ f.stash = disk[b].stash /\ f.gen = 0 /\ f.owner = o
  BY <1>1, <1>4 DEF Disk
<1> HIDE DEF f
<1>6. /\ UNCHANGED <<account, filing, asked, answered, queued, carried>>
      /\ muddled' = (muddled \/ (t.next # NoOne /\ Unfinished(b)'))
      /\ t.purging = "clearing" /\ t.life # "new"
  BY DEF Purged, Running
<1>7. tab'[p] = r /\ disk'[b] = f
  BY <1>1, <1>2 DEF TypeOK
<1>8. (Turning(t) => Turning(r)) /\ (ReadsOwn(t) => ReadsOwn(r))
  BY <1>3, <1>6 DEF Turning, ReadsOwn
<1>9. ASSUME Origins, Waits, ~muddled' PROVE HandsOn(p)
  <2>1. disk[b].owner = NoOne
    BY <1>1, <1>6, <1>9 DEF Waits, Handed
  <2>2. \A e \in queued : Home[e.page] # b
    BY <1>1, <1>9, <2>1, NobodyAssumption DEF Waits, Handed, TypeOK, Event
  <2>3. \A q \in Pages : Home[q] = b /\ tab'[q].purging = "clearing" => o = NoOne
    BY <1>6, <1>9, <2>1 DEF o, Unfinished
  <2>4. o # NoOne => 0 <= account[o].gen
    BY <1>4 DEF TypeOK, Account
  <2>5. \A e \in queued : e \notin disk[b].pending
    BY <1>1, <1>9, <2>2 DEF Origins
  <2> QED BY <1>5, <1>6, <1>7, <2>2, <2>3, <2>4, <2>5 DEF HandsOn
<1> QED BY <1>2, <1>3, <1>5, <1>6, <1>8, <1>9, NothingMade

LEMMA ClaimWhose ==
    ASSUME TypeOK, TypeOK', Whose, filing = Idle, NEW p \in Pages, Claim(p)
    PROVE  Whose'
<1> DEFINE b == Home[p]
           u == cookie[b]
<1>1. /\ b \in Browsers /\ disk[b] \in Disk /\ tab[p] \in Tab /\ u \in Users /\ u # NoOne
  BY HomeAssumption, NobodyAssumption DEF TypeOK, Claim
<1>2. /\ UNCHANGED <<account, filing, asked, answered>>
      /\ tab[p].purging = "no" /\ tab[p].life # "new"
      /\ (carried => carried') /\ (muddled => muddled')
      /\ ~carried' => tab[p].reading \in {NoOne, u}
      /\ ~muddled' => ~Unfinished(b)
  BY DEF Claim, Running
<1>3. CASE /\ disk[b].owner \in {NoOne, u}
           /\ tab' = [tab EXCEPT ![p].session = u, ![p].asking = FALSE]
           /\ disk' = [disk EXCEPT ![b].owner = u]
           /\ UNCHANGED queued
  <2> DEFINE r == [tab[p] EXCEPT !.session = u, !.asking = FALSE]
             f == [disk[b] EXCEPT !.owner = u]
  <2>1. tab' = [tab EXCEPT ![p] = r] /\ disk' = [disk EXCEPT ![b] = f]
    BY <1>3
  <2>2. /\ r \in Tab /\ r.seq = tab[p].seq /\ r.writing = tab[p].writing
        /\ r.life = tab[p].life /\ r.session = u /\ r.next = tab[p].next
        /\ r.purging = "no" /\ r.reading = tab[p].reading
    BY <1>1, <1>2 DEF Tab
  <2>3. /\ f \in Disk /\ f.pending = disk[b].pending /\ f.stash = disk[b].stash
        /\ f.gen = disk[b].gen /\ f.owner = u
    BY <1>1 DEF Disk
  <2> HIDE DEF r, f
  <2>4. /\ tab'[p] = r /\ \A q \in Pages \ {p} : tab'[q] = tab[q]
        /\ disk'[b] = f
    BY <1>1, <2>1 DEF TypeOK
  <2>5. /\ Turning(tab[p]) => Turning(r)
        /\ ReadsOwn(tab[p]) /\ Turning(tab[p]) /\ ~carried' => ReadsOwn(r)
    BY <1>2, <2>2 DEF Turning, ReadsOwn
  <2>6. ASSUME Origins, Waits, ~muddled' PROVE HandsOn(p)
    <3>1. \A q \in Pages : Home[q] = b => tab[q].purging = "no"
      BY <1>2, <2>6 DEF Unfinished
    <3>2. \A q \in Pages : Home[q] = b => tab'[q].purging = "no"
      BY <2>2, <2>4, <3>1
    <3>3. f.gen <= account[u].gen
      <4>1. CASE disk[b].owner = u
        BY <1>1, <2>3, <2>6, <4>1 DEF Waits, Handed
      <4>2. CASE disk[b].owner = NoOne
        <5>1. f.gen = 0
          BY <1>1, <2>3, <2>6, <3>1, <4>2 DEF Waits, Handed
        <5> QED BY <1>1, <5>1 DEF TypeOK, Account
      <4> QED BY <1>3, <4>1, <4>2
    <3>4. \A e \in queued : Home[e.page] = b => e.owner = u
      BY <1>1, <1>3, <2>6, NobodyAssumption DEF Waits, Handed, TypeOK, Event
    <3> QED BY <1>1, <1>3, <2>3, <2>4, <3>2, <3>3, <3>4 DEF HandsOn
  <2>7. /\ filing' = Idle /\ UNCHANGED <<account, asked, answered>>
        /\ (carried => carried') /\ (muddled => muddled')
        /\ f.pending \subseteq disk[b].pending /\ f.stash \subseteq disk[b].stash
    BY <1>2, <2>3
  <2> QED BY <2>1, <2>2, <2>3, <2>5, <2>6, <2>7, NothingMade
<1>4. CASE /\ tab' = [tab EXCEPT ![p] = [Sealed(@) EXCEPT !.next = u]]
           /\ disk' = [disk EXCEPT ![b] = SealedDisk(@)]
           /\ queued' = LeftBehind(b)
  <2> DEFINE s == Sealed(tab[p])
             r == [s EXCEPT !.next = u]
             f == SealedDisk(disk[b])
  <2>1. tab' = [tab EXCEPT ![p] = r] /\ disk' = [disk EXCEPT ![b] = f]
    BY <1>4
  <2>2. s \in Tab /\ s.seq = tab[p].seq /\ s.writing = tab[p].writing
    BY <1>1, SealedTab
  <2>3. /\ s.life = tab[p].life /\ s.session = NoOne /\ s.purging = "clearing"
        /\ s.reading = tab[p].reading
    BY <1>1 DEF Sealed, Tab
  <2> HIDE DEF s
  <2>4. /\ r \in Tab /\ r.seq = tab[p].seq /\ r.writing = tab[p].writing /\ r.next = u
        /\ r.life = tab[p].life /\ r.session = NoOne /\ r.purging = "clearing"
        /\ r.reading = tab[p].reading
    BY <1>1, <2>2, <2>3 DEF Tab
  <2>5. f \in Disk /\ f.pending = disk[b].pending /\ f.stash = {} /\ f.owner = NoOne
    BY <1>1, SealedDiskDisk
  <2> HIDE DEF r, f
  <2>6. tab'[p] = r /\ disk'[b] = f
    BY <1>1, <2>1 DEF TypeOK
  <2>7. /\ Turning(tab[p]) => Turning(r)
        /\ ReadsOwn(tab[p]) /\ Turning(tab[p]) /\ ~carried' => ReadsOwn(r)
    BY <1>2, <2>4 DEF Turning, ReadsOwn
  <2>8. Origins /\ Waits /\ ~muddled' => HandsOn(p)
    BY <1>4, <2>4, <2>5, <2>6, Clearing
  <2>9. /\ filing' = Idle /\ UNCHANGED <<account, asked, answered>>
        /\ (carried => carried') /\ (muddled => muddled')
        /\ f.pending \subseteq disk[b].pending /\ f.stash \subseteq disk[b].stash
    BY <1>2, <2>5
  <2> QED BY <2>1, <2>4, <2>5, <2>7, <2>8, <2>9, NothingMade
<1> QED BY <1>3, <1>4 DEF Claim


-----------------------------------------------------------------------------
(* No browser has to be one person's for this.                              *)

LEMMA InitWhose == Init => Whose
<1> SUFFICES ASSUME Init PROVE Whose
  OBVIOUS
<1>1. /\ \A p \in Pages : /\ tab[p].writing = {} /\ tab[p].session = NoOne
                          /\ tab[p].reading = NoOne /\ tab[p].next = NoOne
                          /\ tab[p].purging = "no"
      /\ \A u \in Users : account[u].row = NoRow /\ account[u].history = {}
      /\ \A b \in Browsers : /\ disk[b].pending = {} /\ disk[b].stash = {}
                             /\ disk[b].gen = 0 /\ disk[b].owner = NoOne
      /\ asked = {} /\ answered = {} /\ filing = Idle /\ queued = {}
  BY DEF Init, Unread
<1>2. Origins
  BY <1>1 DEF Origins, Turning
<1>3. Owned
  BY <1>1 DEF Owned, ReadsOwn, OwnAccount
<1>4. Waits
  BY <1>1 DEF Waits, Handed
<1> QED BY <1>2, <1>3, <1>4 DEF Whose

LEMMA ServerStepWhose ==
    ASSUME TypeOK, TypeOK', Whose, ServerStep
    PROVE  Whose'
<1>1. CASE FileNext \/ Commit \/ Rollback
  BY <1>1, FileNextWhose, CommitWhose, RollbackWhose
<1>2. CASE Begin
  BY <1>2, BeginWhose
<1>3. CASE Refuse \/ TellPlace \/ Tick
  BY <1>3, QuietWhose
<1>4. CASE Between /\ (Erase \/ Lose)
  BY <1>4, EraseWhose, LoseWhose DEF Between
<1> QED BY <1>1, <1>2, <1>3, <1>4 DEF ServerStep

LEMMA AccountStepWhose ==
    ASSUME TypeOK, TypeOK', Whose, NEW p \in Pages, AccountStep(p)
    PROVE  Whose'
<1>1. filing = Idle
  BY DEF AccountStep, Between
<1>2. CASE Open(p) \/ FoundSignedOut(p)
  BY <1>1, <1>2, OpenWhose, FoundSignedOutWhose
<1>3. CASE Claim(p) \/ Purged(p) \/ SealQueue(p)
  BY <1>1, <1>3, ClaimWhose, PurgedWhose, SealQueueWhose
<1>4. CASE SignOut(p) \/ \E u \in Users : SignIn(p, u)
  BY <1>1, <1>4, SignWhose
<1> QED BY <1>2, <1>3, <1>4 DEF AccountStep

LEMMA PageStepWhose ==
    ASSUME TypeOK, TypeOK', Whose, NEW p \in Pages, PageStep(p)
    PROVE  Whose'
<1>1. filing = Idle
  BY DEF PageStep, Between
<1>2. CASE Record(p) \/ Store(p) \/ Flush(p)
  BY <1>1, <1>2, RecordWhose, StoreWhose, FlushWhose
<1>3. CASE Hide(p) \/ Show(p) \/ Die(p)
  BY <1>1, <1>3, HideWhose, ShowWhose
<1>4. CASE OpenBook(p) \/ ResetBook(p)
  BY <1>1, <1>4, AsksWhose
<1>5. CASE TakePlace(p) \/ TakeAck(p) \/ TakeErased(p) \/ TakeRefusal(p)
  BY <1>1, <1>5, TakePlaceWhose, TakeAckWhose, TakeErasedWhose, TakeRefusalWhose
<1> QED BY <1>2, <1>3, <1>4, <1>5 DEF PageStep

LEMMA NextWhose ==
    ASSUME TypeOK, Whose, [Next]_vars
    PROVE  Whose'
<1>1. TypeOK'
  BY NextKeeps
<1>2. CASE ServerStep
  BY <1>1, <1>2, ServerStepWhose
<1>3. CASE \E p \in Pages : AccountStep(p) \/ PageStep(p)
  BY <1>1, <1>3, AccountStepWhose, PageStepWhose
<1>4. CASE (\E b \in Browsers : SessionEnds(b)) \/ UNCHANGED vars
  BY <1>1, <1>4, QuietWhose
<1> QED BY <1>2, <1>3, <1>4 DEF Next

LEMMA AllIsWhose == Spec => [](TypeOK /\ Whose)
<1>1. Init => TypeOK /\ Whose
  BY InitTyped, InitWhose
<1>2. TypeOK /\ Whose /\ [Next]_vars => (TypeOK /\ Whose)'
  BY NextKeeps, NextWhose
<1> QED BY <1>1, <1>2, PTL DEF Spec

\* Whoever signs in after whom on whichever browser, and whatever is still being
\* stored, queued, stashed or under way then: as long as no page takes an open
\* book along into another account, no account is given a place of a book that
\* was opened for another (claimProgressQueue, the owner of an event in
\* applyProgressEvents).
THEOREM ReadingStaysOwn == Spec => []RowsAreOwn
<1>1. TypeOK /\ Whose => RowsAreOwn
  <2> SUFFICES ASSUME Whose, ~carried, NEW u \in Users
               PROVE  /\ \A e \in account[u].history : e.by = u
                      /\ account[u].row # NoRow => account[u].row.event.by = u
    BY DEF RowsAreOwn, ReadingIsOwn
  <2>1. OwnAccount(u, account[u])
    BY DEF Whose, Owned
  <2> QED BY <2>1 DEF OwnAccount, Own
<1> QED BY <1>1, AllIsWhose, PTL

\* Until the queue changes hands over unfinished business, a stated place that
\* was accepted into its owner's queue is not lost, for any number of people
\* who share any number of browsers, whatever requests and answers are lost,
\* late or repeated and whichever pages die: it waits there, or the server has
\* it, or a reset has erased it (flushPending, handleAck, mergeProgressSnapshot,
\* purgeProgressQueue).
THEOREM QueueIsKept == Spec => []QueuedIsKept
<1>1. TypeOK /\ Whose => QueuedIsKept
  BY DEF Whose, Waits, Has, QueuedIsKept
<1> QED BY <1>1, AllIsWhose, PTL
=============================================================================
