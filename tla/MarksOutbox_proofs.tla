------------------------- MODULE MarksOutbox_proofs -------------------------
(***************************************************************************)
(* No mark is lost on its way to the server, whatever pages, accounts and   *)
(* requests come to; and where the browser has locks, it is made once, its  *)
(* changes arrive in order, and none that was recorded under a name known   *)
(* of is refused before its mark is removed.                                *)
(*                                                                         *)
(* The first needs little: a change leaves the queue only once it is        *)
(* answered for.  The rest is one argument about the single tab that        *)
(* delivers: the queue of an account is in order, the making of a mark      *)
(* comes before all that is done to it, and between the answer that renames *)
(* a mark and renameQueued nothing else is sent.                            *)
(***************************************************************************)
EXTENDS MarksOutbox, FiniteSetTheorems, WellFoundedInduction, TLAPS

\* The changes and the names a server gives are finitely many, so that there is
\* a greatest order and a greatest name.
Bounded ==
    /\ IsFiniteSet(made)
    /\ \E n \in Nat : \A c \in queue : c.order <= n
    /\ \E n \in Nat : \A s \in server : s.name[2] <= n

InHand(t) == tab[t].phase \in {"picked", "answered", "renaming"}

\* A tab that sends has something to send, one that renames has a name.
HandsAreFull == \A t \in Tabs :
    /\ InHand(t) => tab[t].change \in Change
    /\ tab[t].phase = "renaming" => tab[t].name \in Names
    /\ tab[t].name # NoOne => InHand(t)

Typed == TypeOK /\ Bounded /\ HandsAreFull

-----------------------------------------------------------------------------
(* Operators.                                                               *)

\* A bounded set of numbers has a greatest one.
LEMMA GreatestOf ==
    ASSUME NEW S, S \subseteq Nat, S # {}, NEW n \in Nat, \A k \in S : k <= n
    PROVE  Greatest(S) \in S /\ \A k \in S : k <= Greatest(S)
<1> DEFINE bounds == {m \in Nat : \A k \in S : k <= m}
<1>1. bounds # {} /\ bounds \subseteq Nat
  OBVIOUS
<1>2. PICK m \in bounds : \A q \in bounds : ~ <<q, m>> \in OpToRel(<, Nat)
  BY <1>1, NatLessThanWellFounded, WFMin, Zenon
<1>3. \A q \in bounds : ~ q < m
  <2> SUFFICES ASSUME NEW q \in bounds, q < m PROVE FALSE
    OBVIOUS
  <2>1. <<q, m>> \in OpToRel(<, Nat)
    BY DEF OpToRel
  <2> QED BY <1>2, <2>1
<1>4. m \in S
  <2> SUFFICES ASSUME m \notin S PROVE FALSE
    OBVIOUS
  <2>1. PICK k \in S : TRUE
    OBVIOUS
  <2>2. m # 0
    BY <2>1
  <2>3. m - 1 \in bounds
    BY <2>2
  <2> QED BY <1>3, <2>3
<1> QED BY <1>4 DEF Greatest

LEMMA IdsType == \A S : S \subseteq Change => Ids(S) \subseteq Nat
BY DEF Ids, Change

LEMMA AccountType ==
    ASSUME TypeOK, NEW t \in Tabs PROVE Account(t) \in Users \cup {NoOne}
BY DEF TypeOK, Account, Tab

\* What one page becomes is all that changes.
LEMMA PageType ==
    ASSUME TypeOK, NEW t \in Tabs, NEW r \in Tab, tab' = [tab EXCEPT ![t] = r]
    PROVE  tab' \in [Tabs -> Tab] /\ tab'[t] = r /\ \A x \in Tabs \ {t} : tab'[x] = tab[x]
BY DEF TypeOK

\* The numbers a new change gets.
LEMMA NextType ==
    ASSUME Typed, NEW t \in Tabs
    PROVE  /\ NextStored(t) \in Nat \ {0} /\ NextKept(t) \in Nat \ {0}
           /\ \A c \in queue : c.order < NextStored(t)
           /\ Cardinality(made) + 1 \in Nat \ {0}
<1> DEFINE S == {c.order : c \in queue} \cup {tab[t].last}
<1>1. tab[t].last \in Nat /\ \A c \in queue : c.order \in Nat
  BY DEF Typed, TypeOK, Tab, Change
<1>2. PICK n \in Nat : \A c \in queue : c.order <= n
  BY DEF Typed, Bounded
<1>3. PICK m \in Nat : n <= m /\ tab[t].last <= m
  <2>1. CASE n <= tab[t].last
    BY <1>1, <2>1
  <2>2. CASE ~ n <= tab[t].last
    BY <1>1, <2>2
  <2> QED BY <2>1, <2>2
<1>4. S \subseteq Nat /\ S # {} /\ \A k \in S : k <= m
  BY <1>1, <1>2, <1>3
<1>5. Greatest(S) \in S /\ \A k \in S : k <= Greatest(S)
  <2> HIDE DEF S
  <2> QED BY <1>4, GreatestOf
<1>6. NextStored(t) = Greatest(S) + 1
  BY DEF NextStored
<1>7. Cardinality(made) \in Nat
  BY FS_CardinalityType DEF Typed, Bounded
<1>8. \A c \in queue : c.order \in S
  OBVIOUS
<1> HIDE DEF S
<1>9. Greatest(S) \in Nat
  BY <1>4, <1>5
<1>10. \A c \in queue : c.order < Greatest(S) + 1
  <2> SUFFICES ASSUME NEW c \in queue PROVE c.order < Greatest(S) + 1
    OBVIOUS
  <2>1. c.order \in S /\ c.order \in Nat
    BY <1>1, <1>8
  <2> QED BY <1>5, <1>9, <2>1
<1> QED BY <1>1, <1>6, <1>7, <1>9, <1>10 DEF NextKept

\* A fresh name is of the same mark, and nobody's.
LEMMA FreshNameIsFresh ==
    ASSUME Typed, NEW n \in Names
    PROVE  /\ FreshName(n) \in Names /\ FreshName(n)[1] = n[1]
           /\ FreshName(n)[2] # 0
           /\ \A s \in server : s.name # FreshName(n)
<1> DEFINE S == {s.name[2] : s \in {m \in server : m.name[1] = n[1]}} \cup {0}
<1>1. \A s \in server : s.name[2] \in Nat
  BY DEF Typed, TypeOK, Mark, Names
<1>2. PICK k \in Nat : \A s \in server : s.name[2] <= k
  BY DEF Typed, Bounded
<1>3. S \subseteq Nat /\ S # {} /\ \A i \in S : i <= k
  BY <1>1, <1>2
<1>4. Greatest(S) \in S /\ \A i \in S : i <= Greatest(S)
  <2> HIDE DEF S
  <2> QED BY <1>2, <1>3, GreatestOf
<1>5. FreshName(n) = <<n[1], Greatest(S) + 1>>
  BY DEF FreshName
<1>6. Greatest(S) \in Nat
  BY <1>3, <1>4
<1>7. \A s \in server : s.name[1] = n[1] => s.name[2] <= Greatest(S)
  BY <1>4
<1> HIDE DEF S
<1>8. FreshName(n)[1] = n[1] /\ FreshName(n)[2] = Greatest(S) + 1
  BY <1>5
<1>9. n[1] \in Marks
  BY DEF Names
<1>10. FreshName(n) \in Names
  BY <1>5, <1>6, <1>9 DEF Names
<1> QED BY <1>1, <1>6, <1>7, <1>8, <1>10

-----------------------------------------------------------------------------
(* Types.                                                                   *)

LEMMA InitTyped == Init => Typed
<1> SUFFICES ASSUME Init PROVE Typed
  OBVIOUS
<1>1. FreshTab \in Tab
  BY DEF FreshTab, Tab
<1>2. server \subseteq Mark /\ \A s \in server : s.name[2] = 0
  <2>1. ASSUME NEW s \in MadeEarlier
        PROVE  s \in Mark /\ s.name[2] = 0
    <3>1. PICK m \in Marks, u \in Users :
             s = [name |-> <<m, 0>>, owner |-> u, look |-> 0, origin |-> 0, gone |-> FALSE]
      BY DEF MadeEarlier
    <3>2. <<m, 0>> \in Names
      BY DEF Names
    <3>3. <<m, 0>>[2] = 0
      OBVIOUS
    <3> QED BY <3>1, <3>2, <3>3 DEF Mark
  <2>2. server \subseteq MadeEarlier
    BY DEF Init
  <2> QED BY <2>1, <2>2
<1>3. TypeOK
  <2>1. tab \in [Tabs -> Tab]
    BY <1>1 DEF Init
  <2>2. used \in Used
    BY DEF Init, Used
  <2> QED BY <1>2, <2>1, <2>2 DEF Init, TypeOK
<1>4. Bounded
  BY <1>2, FS_EmptySet DEF Init, Bounded
<1>5. HandsAreFull
  BY DEF Init, HandsAreFull, InHand, FreshTab
<1> QED BY <1>3, <1>4, <1>5 DEF Typed

LEMMA SpendType ==
    ASSUME TypeOK, NEW what \in {"signIns", "loads", "events"}, Spend(what) PROVE used' \in Used
BY DEF TypeOK, Spend, Used

\* The login screen leaves what a page has to send.
LEMMA ClearedType ==
    ASSUME NEW r \in Tab
    PROVE  /\ Cleared(r) \in Tab /\ Cleared(r).phase = r.phase
           /\ Cleared(r).change = r.change /\ Cleared(r).answer = r.answer
           /\ Cleared(r).name = r.name /\ Cleared(r).memory = r.memory
BY DEF Cleared, Tab

\* What page x has to send, and how far it is with it, stays.
Same(x) ==
    /\ tab'[x].phase = tab[x].phase /\ tab'[x].change = tab[x].change
    /\ tab'[x].answer = tab[x].answer /\ tab'[x].name = tab[x].name
    /\ tab'[x].memory = tab[x].memory

\* A step that has to do with no change.
Quiet ==
    /\ UNCHANGED <<queue, lock, server, clash, made, taken, dropped, adrift, stale>>
    /\ \A x \in Tabs : Same(x)

\* What such a step leaves of a page.
Beside(r, t) ==
    /\ r \in Tab /\ r.phase = tab[t].phase /\ r.change = tab[t].change
    /\ r.answer = tab[t].answer /\ r.name = tab[t].name /\ r.memory = tab[t].memory

LEMMA QuietTyped ==
    ASSUME Typed, Quiet, tab' \in [Tabs -> Tab], cookie' \in Users \cup {NoOne},
           owner' \in Users \cup {NoOne}, used' \in Used
    PROVE  Typed'
BY DEF Typed, TypeOK, Quiet, Same, Bounded, HandsAreFull, InHand

\* A page that begins, looks around or changes hands.
LEMMA SessionTyped ==
    ASSUME Typed, NEW t \in Tabs,
           \/ Refresh(t) \/ StartOffline(t) \/ SignOut(t) \/ Expire
           \/ \E u \in Users : SignIn(t, u)
    PROVE  Typed' /\ Quiet
<1>1. /\ cookie' \in Users \cup {NoOne} /\ used' \in Used
      /\ UNCHANGED <<owner, queue, lock, server, clash, made, taken, dropped, adrift, stale>>
  BY SpendType DEF Typed, TypeOK, Refresh, StartOffline, SignOut, Expire, SignIn, Event
<1>2. tab[t] \in Tab /\ cookie \in Users \cup {NoOne} /\ owner \in Users \cup {NoOne}
  BY DEF Typed, TypeOK
<1>3. \E r \in Tab :
         /\ tab' = [tab EXCEPT ![t] = r]
         /\ Beside(r, t)
  <2>1. CASE Refresh(t)
    <3>1. CASE cookie = NoOne
      <4>1. tab' = [tab EXCEPT ![t] = Cleared(tab[t])]
        BY <2>1, <3>1 DEF Refresh
      <4> QED BY <1>2, <4>1, ClearedType DEF Beside
    <3>2. CASE cookie # NoOne /\ cookie = Account(t)
      <4> DEFINE r == [tab[t] EXCEPT !.life = "open", !.session = cookie]
      <4>1. Beside(r, t)
        BY <1>2 DEF Tab, Beside
      <4>2. tab' = [tab EXCEPT ![t] = r]
        BY <2>1, <3>2 DEF Refresh
      <4> QED BY <4>1, <4>2 DEF Beside
    <3>3. CASE cookie \notin {NoOne, Account(t)}
      <4> DEFINE r == [tab[t] EXCEPT !.life = "open", !.next = cookie, !.step = "claiming"]
      <4>1. Beside(r, t)
        BY <1>2 DEF Tab, Beside
      <4>2. tab' = [tab EXCEPT ![t] = r]
        BY <2>1, <3>3 DEF Refresh
      <4> QED BY <4>1, <4>2 DEF Beside
    <3> QED BY <3>1, <3>2, <3>3
  <2>2. CASE StartOffline(t)
    <3> DEFINE r == [tab[t] EXCEPT !.life = "offline",
                        !.session = IF owner = NoOne THEN @ ELSE owner]
    <3>1. Beside(r, t)
      BY <1>2 DEF Tab, Beside
    <3>2. tab' = [tab EXCEPT ![t] = r]
      BY <2>2 DEF StartOffline
    <3> QED BY <3>1, <3>2 DEF Beside
  <2>3. CASE SignOut(t)
    <3> DEFINE r == [tab[t] EXCEPT !.step = "leaving"]
    <3>1. Beside(r, t)
      BY <1>2 DEF Tab, Beside
    <3>2. tab' = [tab EXCEPT ![t] = r]
      BY <2>3 DEF SignOut
    <3> QED BY <3>1, <3>2 DEF Beside
  <2>4. CASE Expire
    <3>1. tab' = [tab EXCEPT ![t] = tab[t]]
      BY <2>4 DEF Expire, Typed, TypeOK
    <3> QED BY <1>2, <3>1 DEF Beside
  <2>5. ASSUME NEW u \in Users, SignIn(t, u)
        PROVE  \E r \in Tab :
                 /\ tab' = [tab EXCEPT ![t] = r]
                 /\ Beside(r, t)
    <3> DEFINE r == [tab[t] EXCEPT !.life = "signed", !.next = u, !.step = "claiming"]
    <3>1. Beside(r, t)
      BY <1>2 DEF Tab, Beside
    <3>2. tab' = [tab EXCEPT ![t] = r]
      BY <2>5 DEF SignIn
    <3> QED BY <3>1, <3>2 DEF Beside
  <2> QED BY <2>1, <2>2, <2>3, <2>4, <2>5
<1>4. PICK r \in Tab :
         /\ tab' = [tab EXCEPT ![t] = r]
         /\ Beside(r, t)
  BY <1>3
<1>5. tab' \in [Tabs -> Tab] /\ \A x \in Tabs : Same(x)
  BY <1>4, PageType DEF Typed, Beside, Same
<1>6. Quiet
  BY <1>1, <1>5 DEF Quiet
<1>7. owner' \in Users \cup {NoOne}
  BY <1>1, <1>2
<1> QED BY <1>1, <1>5, <1>6, <1>7, QuietTyped

\* A page that loads the list.
LEMMA LoadTyped ==
    ASSUME Typed, NEW t \in Tabs,
           StartLoad(t) \/ Serve(t) \/ ServeNothing(t) \/ FinishLoad(t)
    PROVE  Typed' /\ Quiet
<1>1. /\ used' \in Used
      /\ UNCHANGED <<cookie, owner, queue, lock, server, clash, made, taken, dropped, adrift, stale>>
  BY SpendType DEF Typed, TypeOK, StartLoad, Serve, ServeNothing, FinishLoad, Event
<1>2. tab[t] \in Tab /\ cookie \in Users \cup {NoOne} /\ server \subseteq Mark
  BY DEF Typed, TypeOK
<1>3. \E r \in Tab : tab' = [tab EXCEPT ![t] = r] /\ Beside(r, t)
  <2>1. CASE StartLoad(t)
    <3> DEFINE l == [phase |-> "before", start |-> Cardinality(made), user |-> Account(t),
                     own |-> TRUE, queue |-> Pending(t, Account(t)), served |-> {}]
               r == [tab[t] EXCEPT !.list = {}, !.load = l]
    <3>1. Account(t) \in Users
      BY <2>1, AccountType DEF StartLoad, Typed
    <3>2. Pending(t, Account(t)) \subseteq Change
      BY <1>2 DEF Pending, Typed, TypeOK, Tab
    <3>3. Cardinality(made) \in Nat
      BY FS_CardinalityType DEF Typed, Bounded
    <3>4. l \in Load
      BY <3>1, <3>2, <3>3 DEF Load
    <3>5. tab' = [tab EXCEPT ![t] = r]
      BY <2>1 DEF StartLoad
    <3> HIDE DEF l
    <3>6. Beside(r, t)
      BY <1>2, <3>4 DEF Tab, Beside
    <3> QED BY <3>5, <3>6 DEF Beside
  <2>2. CASE Serve(t) /\ cookie = NoOne
    <3>1. tab' = [tab EXCEPT ![t] = Cleared(tab[t])]
      BY <2>2 DEF Serve
    <3> QED BY <1>2, <3>1, ClearedType DEF Beside
  <2>3. CASE Serve(t) /\ cookie # NoOne
    <3> DEFINE own == cookie = tab[t].load.user
               served == {s \in server : s.owner = cookie /\ ~s.gone}
               l == [tab[t].load EXCEPT !.phase = "served", !.own = own, !.served = served]
               r == [tab[t] EXCEPT !.load = l]
    <3>1. tab[t].load \in Load
      BY <1>2, <2>3 DEF Serve, Tab
    <3>2. own \in BOOLEAN /\ served \subseteq Mark
      BY <1>2
    <3>3. tab' = [tab EXCEPT ![t] = r]
      BY <2>3, <1>2, <3>1 DEF Serve, Tab, Load, Typed, TypeOK
    <3> HIDE DEF own, served
    <3>4. l \in Load
      BY <3>1, <3>2 DEF Load
    <3> HIDE DEF l
    <3>5. Beside(r, t)
      BY <1>2, <3>4 DEF Tab, Beside
    <3> QED BY <3>3, <3>5 DEF Beside
  <2>4. CASE ServeNothing(t)
    <3> DEFINE l == [tab[t].load EXCEPT !.phase = "served", !.own = FALSE]
               r == [tab[t] EXCEPT !.load = l]
    <3>1. tab[t].load \in Load
      BY <1>2, <2>4 DEF ServeNothing, Tab
    <3>2. tab' = [tab EXCEPT ![t] = r]
      BY <2>4, <1>2, <3>1 DEF ServeNothing, Tab, Load, Typed, TypeOK
    <3>3. l \in Load
      BY <3>1 DEF Load
    <3> HIDE DEF l
    <3>4. Beside(r, t)
      BY <1>2, <3>3 DEF Tab, Beside
    <3> QED BY <3>2, <3>4 DEF Beside
  <2>5. CASE FinishLoad(t)
    <3> DEFINE r == [tab[t] EXCEPT !.load = NoLoad, !.list = Listed(t)]
    <3>1. tab' = [tab EXCEPT ![t] = r]
      BY <2>5 DEF FinishLoad
    <3>2. tab[t].load \in Load /\ Pending(t, Account(t)) \subseteq Change
      BY <1>2, <2>5 DEF FinishLoad, Tab, Pending, Typed, TypeOK
    <3>3. Listed(t) \subseteq Names
      BY <3>2 DEF Listed, Load, Mark, Change
    <3>4. Beside(r, t)
      BY <1>2, <3>3 DEF Tab, Beside
    <3> QED BY <3>1, <3>4 DEF Beside
  <2> QED BY <2>1, <2>2, <2>3, <2>4, <2>5
<1>4. PICK r \in Tab : tab' = [tab EXCEPT ![t] = r] /\ Beside(r, t)
  BY <1>3
<1>5. tab' \in [Tabs -> Tab] /\ \A x \in Tabs : Same(x)
  BY <1>4, PageType DEF Typed, Beside, Same
<1>6. Quiet
  BY <1>1, <1>5 DEF Quiet
<1>7. cookie' \in Users \cup {NoOne} /\ owner' \in Users \cup {NoOne}
  BY <1>1 DEF Typed, TypeOK
<1> QED BY <1>1, <1>5, <1>6, <1>7, QuietTyped

Others(t) == \A x \in Tabs \ {t} : Same(x)

\* A delivery begins.
Begins(t) ==
    /\ UNCHANGED <<queue, server, clash, made, taken, dropped, adrift, stale>> /\ Others(t)
    /\ tab[t].phase = "idle" /\ tab'[t].phase = "looking"
    /\ tab'[t].name = tab[t].name /\ tab'[t].memory = tab[t].memory
    /\ HasLocks => lock = NoTab /\ lock' = t

LEMMA DeliverTyped ==
    ASSUME Typed, NEW t \in Tabs, Deliver(t)
    PROVE  Typed' /\ Begins(t)
<1> DEFINE r == [tab[t] EXCEPT !.phase = "looking", !.for = Account(t)]
<1>1. tab[t] \in Tab /\ Account(t) \in Users \cup {NoOne}
  BY AccountType DEF Typed, TypeOK
<1>2. r \in Tab /\ r.phase = "looking" /\ r.name = tab[t].name /\ r.memory = tab[t].memory
  BY <1>1 DEF Tab
<1>3. tab' = [tab EXCEPT ![t] = r]
  BY DEF Deliver
<1> HIDE DEF r
<1>4. tab' \in [Tabs -> Tab] /\ tab'[t] = r /\ \A x \in Tabs \ {t} : tab'[x] = tab[x]
  BY <1>2, <1>3, PageType DEF Typed
<1>5. tab[t].phase = "idle"
  BY DEF Deliver
<1>6. HandsAreFull'
  BY <1>2, <1>4, <1>5 DEF Typed, HandsAreFull, InHand
<1>7. TypeOK' /\ Bounded'
  BY <1>4 DEF Deliver, Typed, TypeOK, Bounded
<1>8. /\ UNCHANGED <<queue, server, clash, made, taken, dropped, adrift, stale>>
      /\ HasLocks => lock = NoTab /\ lock' = t
  BY DEF Deliver
<1> QED BY <1>2, <1>4, <1>5, <1>6, <1>7, <1>8 DEF Typed, Begins, Others, Same

\* The next change is taken in hand.
Takes(t) ==
    /\ UNCHANGED <<queue, lock, server, clash, made, taken, dropped, adrift, stale>> /\ Others(t)
    /\ tab[t].phase = "looking" /\ tab'[t].phase = "picked"
    /\ tab'[t].name = tab[t].name /\ tab'[t].memory = tab[t].memory
    /\ tab'[t].change \in queue \cup tab[t].memory
    /\ \A d \in queue : d.owner = tab'[t].change.owner /\ d # tab'[t].change
          => Before(tab'[t].change, d)

LEMMA PickTyped ==
    ASSUME Typed, NEW t \in Tabs, Pick(t)
    PROVE  Typed' /\ Takes(t)
<1>1. PICK c \in Pending(t, tab[t].for) :
        /\ \A d \in Pending(t, tab[t].for) : d # c => Before(c, d)
        /\ tab' = [tab EXCEPT
              ![t].phase = "picked", ![t].change = c,
              ![t].last = Greatest({d.order : d \in queue} \cup {@})]
  BY DEF Pick
<1> DEFINE last == Greatest({d.order : d \in queue} \cup {tab[t].last})
           r == [tab[t] EXCEPT !.phase = "picked", !.change = c, !.last = last]
<1>2. tab[t] \in Tab
  BY DEF Typed, TypeOK
<1>3. c \in queue \cup tab[t].memory /\ c \in Change /\ c.owner = tab[t].for
  BY <1>2 DEF Pending, Typed, TypeOK, Tab
<1>4. last \in Nat
  <2>1. last + 1 = NextStored(t)
    BY DEF NextStored
  <2> DEFINE S == {d.order : d \in queue} \cup {tab[t].last}
  <2>2. S \subseteq Nat /\ S # {}
    BY <1>2 DEF Typed, TypeOK, Tab, Change
  <2>3. PICK n \in Nat : \A d \in queue : d.order <= n
    BY DEF Typed, Bounded
  <2>4. tab[t].last \in Nat /\ \A d \in queue : d.order \in Nat
    BY <1>2 DEF Typed, TypeOK, Tab, Change
  <2>5. PICK m \in Nat : n <= m /\ tab[t].last <= m
    BY <2>4, n <= tab[t].last \/ tab[t].last <= n
  <2>6. \A k \in S : k <= m
    BY <2>3, <2>4, <2>5
  <2> HIDE DEF S
  <2>7. Greatest(S) \in S
    BY <2>2, <2>6, GreatestOf
  <2> QED BY <2>2, <2>7 DEF S
<1>5. tab' = [tab EXCEPT ![t] = r]
  BY <1>1
<1> HIDE DEF last
<1>6. /\ r \in Tab /\ r.phase = "picked" /\ r.change = c
      /\ r.name = tab[t].name /\ r.memory = tab[t].memory
  BY <1>2, <1>3, <1>4 DEF Tab
<1> HIDE DEF r
<1>7. tab' \in [Tabs -> Tab] /\ tab'[t] = r /\ \A x \in Tabs \ {t} : tab'[x] = tab[x]
  BY <1>5, <1>6, PageType DEF Typed
<1>8. tab[t].phase = "looking"
  BY DEF Pick
<1>9. HandsAreFull'
  BY <1>3, <1>6, <1>7, <1>8 DEF Typed, HandsAreFull, InHand
<1>10. TypeOK' /\ Bounded'
  BY <1>7 DEF Pick, Typed, TypeOK, Bounded
<1>11. \A d \in queue : d.owner = c.owner => d \in Pending(t, tab[t].for)
  BY <1>3 DEF Pending
<1>12. UNCHANGED <<queue, lock, server, clash, made, taken, dropped, adrift, stale>>
  BY DEF Pick
<1> QED BY <1>1, <1>3, <1>6, <1>7, <1>8, <1>9, <1>10, <1>11, <1>12
        DEF Typed, Takes, Others, Same

\* A delivery ends: nothing is in hand any more.
LetsGo(t) ==
    /\ UNCHANGED <<queue, server, clash, made, taken, stale>> /\ Others(t)
    /\ tab'[t].phase = "idle" /\ tab'[t].name = NoOne
    /\ tab'[t].memory \subseteq tab[t].memory
    /\ Ids(tab[t].memory) \subseteq Ids(tab'[t].memory) \cup dropped'
    /\ lock' = IF lock = t THEN NoTab ELSE lock
    /\ dropped \subseteq dropped' /\ adrift \subseteq adrift'
    /\ \/ tab[t].name = NoOne
       \/ tab[t].phase = "looking"
       \/ tab[t].phase = "answered" /\ tab[t].answer = "denied"
       \/ tab[t].change.name[1] \in adrift'

LEMMA StoppedType ==
    ASSUME NEW r \in Tab
    PROVE  /\ Stopped(r) \in Tab /\ Stopped(r).phase = "idle" /\ Stopped(r).name = NoOne
           /\ Stopped(r).memory = r.memory
BY DEF Stopped, Tab

LEMMA EndTyped ==
    ASSUME Typed, NEW t \in Tabs, Finish(t) \/ Fail(t) \/ Denied(t) \/ Close(t)
    PROVE  Typed' /\ LetsGo(t)
<1>1. tab[t] \in Tab /\ lock \in Tabs \cup {NoTab}
  BY DEF Typed, TypeOK
<1>2. /\ used' \in Used
      /\ UNCHANGED <<cookie, owner, queue, server, clash, made, taken, stale>>
      /\ lock' = IF lock = t THEN NoTab ELSE lock
  BY SpendType DEF Typed, TypeOK, Finish, Fail, Denied, Close, Event, Release
<1>3. \E r \in Tab :
        /\ tab' = [tab EXCEPT ![t] = r] /\ r.phase = "idle" /\ r.name = NoOne
        /\ \/ r.memory = tab[t].memory /\ dropped' = dropped
           \/ r.memory = {} /\ dropped' = dropped \cup Ids(tab[t].memory)
  <2>1. CASE Finish(t) \/ Fail(t)
    <3>1. tab' = [tab EXCEPT ![t] = Stopped(tab[t])] /\ dropped' = dropped
      BY <2>1 DEF Finish, Fail
    <3> QED BY <1>1, <3>1, StoppedType
  <2>2. CASE Denied(t)
    <3> DEFINE s == Stopped(tab[t])
               r == Cleared(s)
    <3>1. tab' = [tab EXCEPT ![t] = r] /\ dropped' = dropped
      BY <2>2 DEF Denied
    <3>2. s \in Tab /\ s.phase = "idle" /\ s.name = NoOne /\ s.memory = tab[t].memory
      BY <1>1, StoppedType
    <3> HIDE DEF s
    <3>3. r \in Tab /\ r.phase = "idle" /\ r.name = NoOne /\ r.memory = tab[t].memory
      BY <3>2, ClearedType
    <3> QED BY <3>1, <3>3
  <2>3. CASE Close(t)
    <3> DEFINE r == [FreshTab EXCEPT !.life = "gone"]
    <3>1. tab' = [tab EXCEPT ![t] = r] /\ dropped' = dropped \cup Ids(tab[t].memory)
      BY <2>3 DEF Close
    <3>2. r \in Tab /\ r.phase = "idle" /\ r.name = NoOne /\ r.memory = {}
      BY DEF FreshTab, Tab
    <3> QED BY <3>1, <3>2
  <2> QED BY <2>1, <2>2, <2>3
<1>4. PICK r \in Tab :
        /\ tab' = [tab EXCEPT ![t] = r] /\ r.phase = "idle" /\ r.name = NoOne
        /\ \/ r.memory = tab[t].memory /\ dropped' = dropped
           \/ r.memory = {} /\ dropped' = dropped \cup Ids(tab[t].memory)
  BY <1>3
<1>5. tab' \in [Tabs -> Tab] /\ tab'[t] = r /\ \A x \in Tabs \ {t} : tab'[x] = tab[x]
  BY <1>4, PageType DEF Typed
<1>6. /\ adrift \subseteq adrift' /\ adrift' \subseteq Marks
      /\ \/ tab[t].name = NoOne
         \/ tab[t].phase = "looking"
         \/ tab[t].phase = "answered" /\ tab[t].answer = "denied"
         \/ tab[t].change.name[1] \in adrift'
  <2>1. tab[t].name # NoOne => tab[t].change.name[1] \in Marks
    BY DEF Typed, HandsAreFull, Change, Names
  <2> QED BY <2>1 DEF Typed, TypeOK, Finish, Fail, Denied, Close
<1>7. dropped' \subseteq Nat
  <2>1. tab[t].memory \subseteq Change /\ dropped \subseteq Nat
    BY <1>1 DEF Typed, TypeOK, Tab
  <2> QED BY <1>4, <2>1, IdsType
<1>8. LetsGo(t)
  <2>1. /\ tab'[t].memory \subseteq tab[t].memory /\ dropped \subseteq dropped'
        /\ Ids(tab[t].memory) \subseteq Ids(tab'[t].memory) \cup dropped'
    BY <1>4, <1>5
  <2>2. Others(t)
    BY <1>5 DEF Others, Same
  <2> QED BY <1>2, <1>4, <1>5, <1>6, <2>1, <2>2 DEF LetsGo
<1>9. HandsAreFull'
  BY <1>4, <1>5 DEF Typed, HandsAreFull, InHand
<1>10. TypeOK' /\ Bounded'
  BY <1>1, <1>2, <1>5, <1>6, <1>7 DEF Typed, TypeOK, Bounded
<1> QED BY <1>8, <1>9, <1>10 DEF Typed

\* What an account had queued is given up, all of it.
Drops(t) ==
    /\ UNCHANGED <<lock, server, clash, made, taken, adrift, stale>> /\ Others(t)
    /\ tab'[t].phase = tab[t].phase /\ tab'[t].change = tab[t].change
    /\ tab'[t].answer = tab[t].answer /\ tab'[t].name = tab[t].name
    /\ queue' \subseteq queue /\ tab'[t].memory \subseteq tab[t].memory
    /\ dropped \subseteq dropped'
    /\ Ids(queue \cup tab[t].memory) \subseteq Ids(queue' \cup tab'[t].memory) \cup dropped'
    /\ \A c \in queue', d \in queue : c.owner = d.owner => d \in queue'

LEMMA DropTyped ==
    ASSUME Typed, NEW t \in Tabs, Claim(t) \/ Purge(t)
    PROVE  Typed' /\ Drops(t)
<1>1. tab[t] \in Tab /\ queue \subseteq Change
  BY DEF Typed, TypeOK
<1>2. UNCHANGED <<cookie, lock, server, clash, made, taken, adrift, stale, used>>
  BY DEF Claim, Purge
<1>3. /\ owner' \in Users \cup {NoOne} /\ queue' \subseteq queue
      /\ \A c \in queue', d \in queue : c.owner = d.owner => d \in queue'
      /\ \E r \in Tab :
           /\ tab' = [tab EXCEPT ![t] = r]
           /\ r.phase = tab[t].phase /\ r.change = tab[t].change
           /\ r.answer = tab[t].answer /\ r.name = tab[t].name
           /\ r.memory \subseteq tab[t].memory
           /\ dropped' = dropped \cup Ids((queue \cup tab[t].memory) \ (queue' \cup r.memory))
  <2>1. CASE Claim(t)
    <3> DEFINE memory == tab[t].memory \ Foreign(t)
               r == [tab[t] EXCEPT !.session = tab[t].next, !.next = NoOne,
                                   !.memory = memory, !.step = "none"]
    <3>1. tab' = [tab EXCEPT ![t] = r]
      BY <2>1 DEF Claim
    <3>2. memory \subseteq Change /\ memory \subseteq tab[t].memory
      BY <1>1 DEF Tab
    <3>3. /\ queue' = queue \ Foreign(t) /\ dropped' = dropped \cup Ids(Foreign(t))
          /\ owner' = tab[t].next
      BY <2>1 DEF Claim
    <3>4. Foreign(t) = (queue \cup tab[t].memory) \ (queue' \cup memory)
      BY <3>3 DEF Foreign
    <3>5. \A c \in queue', d \in queue : c.owner = d.owner => d \in queue'
      BY <3>3 DEF Foreign
    <3> HIDE DEF memory
    <3>6. /\ r \in Tab /\ r.phase = tab[t].phase /\ r.change = tab[t].change
          /\ r.answer = tab[t].answer /\ r.name = tab[t].name /\ r.memory = memory
          /\ tab[t].next \in Users \cup {NoOne}
      BY <1>1, <3>2 DEF Tab
    <3> HIDE DEF r
    <3> QED BY <3>1, <3>2, <3>3, <3>4, <3>5, <3>6
  <2>2. CASE Purge(t)
    <3> DEFINE s == Cleared(tab[t])
               r == [s EXCEPT !.memory = {}, !.step = "none"]
    <3>1. tab' = [tab EXCEPT ![t] = r]
      BY <2>2 DEF Purge
    <3>2. /\ queue' = {} /\ dropped' = dropped \cup Ids(queue \cup tab[t].memory)
          /\ owner' = NoOne
      BY <2>2 DEF Purge
    <3>3. /\ r \in Tab /\ r.phase = tab[t].phase /\ r.change = tab[t].change
          /\ r.answer = tab[t].answer /\ r.name = tab[t].name /\ r.memory = {}
      <4>1. /\ s \in Tab /\ s.phase = tab[t].phase /\ s.change = tab[t].change
            /\ s.answer = tab[t].answer /\ s.name = tab[t].name
        BY <1>1, ClearedType
      <4> HIDE DEF s
      <4> QED BY <4>1 DEF Tab
    <3>4. (queue \cup tab[t].memory) \ (queue' \cup r.memory) = queue \cup tab[t].memory
      BY <3>2, <3>3
    <3> HIDE DEF r
    <3> QED BY <3>1, <3>2, <3>3, <3>4
  <2> QED BY <2>1, <2>2
<1>4. PICK r \in Tab :
           /\ tab' = [tab EXCEPT ![t] = r]
           /\ r.phase = tab[t].phase /\ r.change = tab[t].change
           /\ r.answer = tab[t].answer /\ r.name = tab[t].name
           /\ r.memory \subseteq tab[t].memory
           /\ dropped' = dropped \cup Ids((queue \cup tab[t].memory) \ (queue' \cup r.memory))
  BY <1>3
<1>5. tab' \in [Tabs -> Tab] /\ tab'[t] = r /\ \A x \in Tabs \ {t} : tab'[x] = tab[x]
  BY <1>4, PageType DEF Typed
<1>6. dropped' \subseteq Nat
  <2>1. (queue \cup tab[t].memory) \ (queue' \cup r.memory) \subseteq Change /\ dropped \subseteq Nat
    BY <1>1 DEF Typed, TypeOK, Tab
  <2> QED BY <1>4, <2>1, IdsType
<1>7. Drops(t)
  <2> DEFINE held == queue \cup tab[t].memory
             kept == queue' \cup tab'[t].memory
  <2>1. Ids(held) \subseteq Ids(kept) \cup Ids(held \ kept)
    BY DEF Ids
  <2>2. dropped' = dropped \cup Ids(held \ kept)
    BY <1>4, <1>5
  <2>3. Others(t)
    BY <1>5 DEF Others, Same
  <2> QED BY <1>2, <1>3, <1>4, <1>5, <2>1, <2>2, <2>3 DEF Drops
<1>8. HandsAreFull'
  BY <1>4, <1>5 DEF Typed, HandsAreFull, InHand
<1>9. TypeOK'
  BY <1>2, <1>3, <1>5, <1>6 DEF Typed, TypeOK
<1>10. Bounded'
  BY <1>2, <1>3 DEF Typed, Bounded
<1> QED BY <1>7, <1>8, <1>9, <1>10 DEF Typed

\* A change is recorded: in the queue, or in the memory of its page, in which
\* case its mark is adrift.
Records(t, c) ==
    /\ UNCHANGED <<lock, server, clash, taken, dropped>> /\ Others(t)
    /\ tab'[t].phase = tab[t].phase /\ tab'[t].change = tab[t].change
    /\ tab'[t].answer = tab[t].answer /\ tab'[t].name = tab[t].name
    /\ c \in Change /\ c.id = Cardinality(made) + 1 /\ made' = made \cup {c}
    /\ c.kind = "create" => c.name \in Unused
    /\ stale \subseteq stale'
    /\ c.kind # "create" /\ c.id \notin stale' => c.name \in Known(c.owner)
    /\ \/ /\ queue' = queue \cup {c} /\ \A d \in queue : d.order < c.order
          /\ tab'[t].memory = tab[t].memory /\ adrift' = adrift
       \/ /\ queue' = queue /\ tab'[t].memory = tab[t].memory \cup {c}
          /\ adrift' = adrift \cup {c.name[1]}

LEMMA RecordTyped ==
    ASSUME Typed, NEW t \in Tabs, NEW kind \in {"create", "patch", "delete"}, NEW name,
           Record(t, kind, name)
    PROVE  Typed' /\ \E c \in Change : Records(t, c)
<1> DEFINE u == Account(t)
           stored == New(t, u, kind, name, NextStored(t))
           kept == New(t, u, kind, name, NextKept(t))
           list == Edited(t, kind, name)
<1>1. tab[t] \in Tab /\ made \subseteq Change /\ queue \subseteq Change /\ server \subseteq Mark
  BY DEF Typed, TypeOK
<1>2. u \in Users
  BY AccountType DEF Record, Typed
<1>3. name \in Names /\ name[1] \in Marks
  <2>1. Unused \subseteq Names
    BY DEF Unused, Names
  <2>2. tab[t].list \subseteq Names
    BY <1>1 DEF Tab
  <2>3. name \in Names
    BY <2>1, <2>2 DEF Record
  <2> QED BY <2>3 DEF Names
<1>4. /\ NextStored(t) \in Nat \ {0} /\ NextKept(t) \in Nat \ {0}
      /\ \A d \in queue : d.order < NextStored(t)
      /\ Cardinality(made) + 1 \in Nat \ {0}
  BY NextType
<1>5. /\ stored \in Change /\ stored.order = NextStored(t)
      /\ kept \in Change /\ kept.order = NextKept(t)
      /\ \A c \in {stored, kept} : /\ c.id = Cardinality(made) + 1 /\ c.owner = u
                                   /\ c.kind = kind /\ c.name = name
  BY <1>2, <1>3, <1>4 DEF New, Change
<1>6. /\ kind = "create" => name \in Unused
      /\ stale \subseteq stale'
      /\ kind # "create" /\ Cardinality(made) + 1 \notin stale' => name \in Known(u)
      /\ stale' \subseteq stale \cup {Cardinality(made) + 1}
  BY DEF Record
<1>7. UNCHANGED <<cookie, owner, lock, server, clash, taken, dropped>>
  BY DEF Record
<1>8. ASSUME NEW r \in Tab, tab' = [tab EXCEPT ![t] = r], r.phase = tab[t].phase,
             r.change = tab[t].change, r.answer = tab[t].answer, r.name = tab[t].name
      PROVE  /\ tab' \in [Tabs -> Tab] /\ Others(t) /\ tab'[t] = r
             /\ HandsAreFull'
  <2>1. tab' \in [Tabs -> Tab] /\ tab'[t] = r /\ \A x \in Tabs \ {t} : tab'[x] = tab[x]
    BY <1>8, PageType DEF Typed
  <2> QED BY <1>8, <2>1 DEF Typed, HandsAreFull, InHand, Others, Same
<1>9. ASSUME NEW c \in Change, made' = made \cup {c}
      PROVE  IsFiniteSet(made') /\ made' \subseteq Change
  BY <1>1, <1>9, FS_AddElement DEF Typed, Bounded
<1>10. list \subseteq Names /\ stale' \subseteq Nat
  BY <1>1, <1>3, <1>4, <1>6 DEF Edited, Tab, Typed, TypeOK
<1>11. CASE /\ queue' = queue \cup {stored} /\ made' = made \cup {stored}
            /\ tab' = [tab EXCEPT ![t].last = stored.order, ![t].list = Edited(t, kind, name)]
            /\ UNCHANGED <<adrift, used>>
  <2> DEFINE r == [tab[t] EXCEPT !.last = stored.order, !.list = list]
  <2>1. stored.order \in Nat
    BY <1>4, <1>5
  <2>2. tab' = [tab EXCEPT ![t] = r]
    BY <1>11
  <2> HIDE DEF stored, list
  <2>3. /\ r \in Tab /\ r.phase = tab[t].phase /\ r.change = tab[t].change
        /\ r.answer = tab[t].answer /\ r.name = tab[t].name /\ r.memory = tab[t].memory
    BY <1>1, <1>10, <2>1 DEF Tab
  <2> HIDE DEF r
  <2>4. tab' \in [Tabs -> Tab] /\ Others(t) /\ tab'[t] = r /\ HandsAreFull'
    BY <1>8, <2>2, <2>3
  <2>5. \A d \in queue : d.order < stored.order
    BY <1>4, <1>5
  <2>6. Records(t, stored)
    BY <1>5, <1>6, <1>7, <1>11, <2>3, <2>4, <2>5 DEF Records
  <2>7. \A d \in queue' : d.order <= stored.order
    BY <1>1, <1>11, <2>1, <2>5 DEF Change
  <2>8. Bounded'
    BY <1>5, <1>7, <1>9, <1>11, <2>1, <2>7 DEF Typed, Bounded
  <2>9. TypeOK'
    BY <1>5, <1>7, <1>9, <1>11, <1>10, <2>4 DEF Typed, TypeOK
  <2> QED BY <1>5, <2>4, <2>6, <2>8, <2>9 DEF Typed
<1>12. CASE /\ Event /\ made' = made \cup {kept} /\ adrift' = adrift \cup {name[1]}
            /\ tab' = [tab EXCEPT ![t].last = kept.order, ![t].memory = @ \cup {kept},
                                  ![t].list = Edited(t, kind, name)]
            /\ UNCHANGED queue
  <2> DEFINE memory == tab[t].memory \cup {kept}
             r == [tab[t] EXCEPT !.last = kept.order, !.memory = memory, !.list = list]
  <2>1. kept.order \in Nat /\ memory \subseteq Change
    BY <1>1, <1>4, <1>5 DEF Tab
  <2>2. tab' = [tab EXCEPT ![t] = r]
    BY <1>12
  <2> HIDE DEF kept, memory, list
  <2>3. /\ r \in Tab /\ r.phase = tab[t].phase /\ r.change = tab[t].change
        /\ r.answer = tab[t].answer /\ r.name = tab[t].name /\ r.memory = memory
    BY <1>1, <1>10, <2>1 DEF Tab
  <2> HIDE DEF r
  <2>4. tab' \in [Tabs -> Tab] /\ Others(t) /\ tab'[t] = r /\ HandsAreFull'
    BY <1>8, <2>2, <2>3
  <2>5. Records(t, kept)
    BY <1>5, <1>6, <1>7, <1>12, <2>3, <2>4 DEF Records, memory
  <2>6. Bounded'
    BY <1>5, <1>7, <1>9, <1>12 DEF Typed, Bounded
  <2>7. TypeOK'
    BY <1>3, <1>5, <1>7, <1>9, <1>12, <1>10, <2>4, SpendType DEF Typed, TypeOK, Event
  <2> QED BY <1>5, <2>4, <2>5, <2>6, <2>7 DEF Typed
<1> QED BY <1>11, <1>12 DEF Record

\* A mark is changed in place.
Edits(s, w) ==
    /\ s \in server /\ w \in Mark /\ server' = Changed(s, w)
    /\ w.name = s.name /\ w.owner = s.owner /\ w.origin = s.origin
    /\ s.gone => w.gone

\* The same account is at work on another device.
Elsewhere == \E s \in server, w \in Mark :
    /\ Edits(s, w) /\ w.look \in {0, s.look}
    /\ UNCHANGED <<queue, tab, lock, clash, made, taken, dropped, adrift, stale>>

LEMMA EditsBounded ==
    ASSUME Typed, NEW s, NEW w, Edits(s, w)
    PROVE  server' \subseteq Mark /\ \E n \in Nat : \A z \in server' : z.name[2] <= n
BY DEF Typed, TypeOK, Bounded, Edits, Changed

LEMMA EditTyped ==
    ASSUME Typed, NEW s \in server, EditElsewhere(s)
    PROVE  Typed' /\ Elsewhere
<1>1. s \in Mark
  BY DEF Typed, TypeOK
<1>2. PICK w \in {[s EXCEPT !.look = 0], [s EXCEPT !.gone = TRUE]} : server' = Changed(s, w)
  BY DEF EditElsewhere
<1>3. /\ w \in Mark /\ w.name = s.name /\ w.owner = s.owner /\ w.origin = s.origin
      /\ s.gone => w.gone
      /\ w.look \in {0, s.look}
  <2>1. CASE w = [s EXCEPT !.look = 0]
    BY <1>1, <2>1 DEF Mark
  <2>2. CASE w = [s EXCEPT !.gone = TRUE]
    BY <1>1, <2>2 DEF Mark
  <2> QED BY <1>2, <2>1, <2>2
<1>4. Edits(s, w)
  BY <1>2, <1>3 DEF Edits
<1>5. /\ UNCHANGED <<cookie, owner, queue, tab, lock, clash, made, taken, dropped, adrift, stale>>
      /\ used' \in Used
  BY SpendType DEF EditElsewhere, Event, Typed
<1>6. server' \subseteq Mark /\ \E n \in Nat : \A z \in server' : z.name[2] <= n
  BY <1>4, EditsBounded
<1>7. TypeOK'
  BY <1>5, <1>6 DEF Typed, TypeOK
<1>8. Bounded'
  BY <1>5, <1>6 DEF Typed, Bounded
<1>9. HandsAreFull'
  BY <1>5 DEF Typed, HandsAreFull, InHand
<1> QED BY <1>3, <1>4, <1>5, <1>7, <1>8, <1>9 DEF Typed, Elsewhere

\* What the server answers to a request, and what it has done.
Serves(c, answer, name) ==
    \/ /\ cookie = NoOne /\ server' = server /\ answer = "denied" /\ name = NoOne
    \/ /\ cookie # NoOne /\ c.kind = "create" /\ Own(c.name, cookie) # {}
       /\ server' = server /\ answer = "taken" /\ name = NoOne
    \/ /\ cookie # NoOne /\ c.kind = "create" /\ Own(c.name, cookie) = {}
       /\ answer = "taken"
       /\ \E z \in Mark :
             /\ server' = server \cup {z} /\ \A s \in server : s.name # z.name
             /\ z.owner = cookie /\ z.look = c.id /\ z.origin = c.id
             /\ z.name[1] = c.name[1] /\ (z.name = c.name \/ z.name[2] # 0)
             /\ name = IF z.name = c.name THEN NoOne ELSE z.name
    \/ /\ cookie # NoOne /\ c.kind # "create"
       /\ c.kind = "patch" => \A s \in Own(c.name, cookie) : s.gone
       /\ c.kind = "delete" => Own(c.name, cookie) = {}
       /\ server' = server /\ answer = "refused" /\ name = NoOne
    \/ /\ cookie # NoOne /\ c.kind # "create"
       /\ answer = "taken" /\ name = NoOne
       /\ \E s \in server, w \in Mark :
             /\ Edits(s, w) /\ w.look \in {s.look, c.id}
             /\ s.name = c.name /\ s.owner = cookie

LEMMA HandleServes ==
    ASSUME Typed, NEW c \in Change, server' = Handle(c).server
    PROVE  Serves(c, Handle(c).answer, Handle(c).name)
<1>1. server \subseteq Mark /\ cookie \in Users \cup {NoOne} /\ NoOne \notin Users
  BY NobodyAssumption DEF Typed, TypeOK
<1>2. c.name \in Names /\ c.id \in Nat \ {0}
  BY DEF Change
<1>3. CASE cookie = NoOne
  BY <1>3 DEF Handle, Serves
<1>4. CASE cookie # NoOne /\ c.kind = "create"
  <2>1. Handle(c) = Create(c)
    BY <1>4 DEF Handle
  <2>2. CASE Own(c.name, cookie) # {}
    BY <1>4, <2>1, <2>2 DEF Create, Serves
  <2>3. CASE Own(c.name, cookie) = {}
    <3> DEFINE n == IF NameTaken(c.name) THEN FreshName(c.name) ELSE c.name
               z == [name |-> n, owner |-> cookie, look |-> c.id, origin |-> c.id,
                     gone |-> FALSE]
    <3>1. /\ n \in Names /\ n[1] = c.name[1] /\ \A s \in server : s.name # n
          /\ n = c.name \/ n[2] # 0
      BY <1>2, FreshNameIsFresh DEF NameTaken
    <3>2. Create(c) = [server |-> server \cup {z}, answer |-> "taken",
                       name |-> IF n = c.name THEN NoOne ELSE n]
      BY <2>3 DEF Create
    <3> HIDE DEF n
    <3>3. z \in Mark
      BY <1>1, <1>2, <1>4, <3>1 DEF Mark
    <3>4. z.name = n /\ z.owner = cookie /\ z.look = c.id /\ z.origin = c.id
      OBVIOUS
    <3> HIDE DEF z
    <3> QED BY <1>4, <2>1, <2>3, <3>1, <3>2, <3>3, <3>4 DEF Serves
  <2> QED BY <2>2, <2>3
<1>5. CASE cookie # NoOne /\ c.kind = "patch"
  <2> DEFINE own == {s \in Own(c.name, cookie) : ~s.gone}
  <2>1. Handle(c) = Patch(c)
    BY <1>5 DEF Handle
  <2>2. CASE own = {}
    <3>1. \A s \in Own(c.name, cookie) : s.gone
      BY <2>2, <1>1 DEF Own, Mark
    <3> QED BY <1>5, <2>1, <2>2, <3>1 DEF Patch, Serves
  <2>3. CASE own # {}
    <3> DEFINE s == CHOOSE s \in own : TRUE
               w == [s EXCEPT !.look = c.id]
    <3>1. s \in own
      BY <2>3
    <3>2. Patch(c) = [server |-> Changed(s, w), answer |-> "taken", name |-> NoOne]
      BY <2>3 DEF Patch
    <3>3. s \in server /\ s \in Mark /\ s.name = c.name /\ s.owner = cookie /\ ~s.gone
      BY <1>1, <3>1 DEF Own
    <3> HIDE DEF s
    <3>4. /\ w \in Mark /\ w.name = s.name /\ w.owner = s.owner /\ w.origin = s.origin
          /\ w.look = c.id
      BY <1>2, <3>3 DEF Mark
    <3> HIDE DEF w
    <3>5. Edits(s, w)
      BY <2>1, <3>2, <3>3, <3>4 DEF Edits
    <3> QED BY <1>5, <2>1, <3>2, <3>3, <3>4, <3>5 DEF Serves
  <2> QED BY <2>2, <2>3
<1>6. CASE cookie # NoOne /\ c.kind = "delete"
  <2> DEFINE own == Own(c.name, cookie)
  <2>1. Handle(c) = Delete(c)
    BY <1>6 DEF Handle
  <2>2. CASE own = {}
    BY <1>6, <2>1, <2>2 DEF Delete, Serves
  <2>3. CASE own # {}
    <3> DEFINE s == CHOOSE s \in own : TRUE
               w == [s EXCEPT !.gone = TRUE]
    <3>1. s \in own
      BY <2>3
    <3>2. Delete(c) = [server |-> Changed(s, w), answer |-> "taken", name |-> NoOne]
      BY <2>3 DEF Delete
    <3>3. s \in server /\ s \in Mark /\ s.name = c.name /\ s.owner = cookie
      BY <1>1, <3>1 DEF Own
    <3> HIDE DEF s
    <3>4. /\ w \in Mark /\ w.name = s.name /\ w.owner = s.owner /\ w.origin = s.origin
          /\ w.gone /\ w.look = s.look
      BY <3>3 DEF Mark
    <3> HIDE DEF w
    <3>5. Edits(s, w)
      BY <2>1, <3>2, <3>3, <3>4 DEF Edits
    <3> QED BY <1>6, <2>1, <3>2, <3>3, <3>4, <3>5 DEF Serves
  <2> QED BY <2>2, <2>3
<1>7. c.kind \in {"create", "patch", "delete"}
  BY DEF Change
<1> QED BY <1>3, <1>4, <1>5, <1>6, <1>7

\* A request is answered.
Sends(t) ==
    /\ UNCHANGED <<queue, lock, clash, made, dropped, stale>> /\ Others(t)
    /\ tab[t].phase = "picked" /\ tab'[t].phase = "answered"
    /\ tab'[t].change = tab[t].change /\ tab'[t].memory = tab[t].memory
    /\ Serves(tab[t].change, tab'[t].answer, tab'[t].name)
    /\ taken' = IF tab'[t].answer = "taken" THEN taken \cup {tab[t].change.id} ELSE taken
    /\ adrift' = IF cookie \in {NoOne, tab[t].change.owner} THEN adrift
                 ELSE adrift \cup {tab[t].change.name[1]}

LEMMA ServesTyped ==
    ASSUME Typed, NEW c \in Change, NEW answer, NEW name, Serves(c, answer, name)
    PROVE  /\ server' \subseteq Mark /\ \E n \in Nat : \A z \in server' : z.name[2] <= n
           /\ answer \in {"taken", "refused", "denied"} /\ name \in Names \cup {NoOne}
<1>1. /\ server \subseteq Mark
      /\ \E n \in Nat : \A z \in server : z.name[2] <= n
  BY DEF Typed, TypeOK, Bounded
<1>2. ASSUME NEW z \in Mark, server' = server \cup {z}
      PROVE  \E n \in Nat : \A s \in server' : s.name[2] <= n
  <2>1. PICK n \in Nat : \A s \in server : s.name[2] <= n
    BY <1>1
  <2>2. z.name[2] \in Nat /\ \A s \in server : s.name[2] \in Nat
    BY <1>1 DEF Mark, Names
  <2>3. CASE z.name[2] <= n
    BY <1>2, <2>1, <2>3
  <2>4. CASE ~ z.name[2] <= n
    <3>1. \A s \in server' : s.name[2] <= z.name[2]
      BY <1>2, <2>1, <2>2, <2>4
    <3> QED BY <2>2, <3>1
  <2> QED BY <2>3, <2>4
<1>3. \A z \in Mark : z.name \in Names
  BY DEF Mark
<1>4. server' \subseteq Mark /\ \E n \in Nat : \A z \in server' : z.name[2] <= n
  BY <1>1, <1>2, EditsBounded DEF Serves
<1> QED BY <1>3, <1>4 DEF Serves

LEMMA SendTyped ==
    ASSUME Typed, NEW t \in Tabs, Send(t)
    PROVE  Typed' /\ Sends(t)
<1> DEFINE c == tab[t].change
           h == Handle(c)
           answer == h.answer
           name == h.name
           r == [tab[t] EXCEPT !.phase = "answered", !.answer = answer, !.name = name]
<1>1. tab[t] \in Tab /\ c \in Change /\ tab[t].phase = "picked"
  BY DEF Typed, TypeOK, HandsAreFull, InHand, Send
<1>2. /\ server' = h.server
      /\ tab' = [tab EXCEPT ![t] = r]
      /\ taken' = IF answer = "taken" THEN taken \cup {c.id} ELSE taken
      /\ adrift' = IF cookie \in {NoOne, c.owner} THEN adrift ELSE adrift \cup {c.name[1]}
      /\ UNCHANGED <<cookie, owner, queue, lock, clash, made, dropped, stale, used>>
  BY DEF Send
<1>3. Serves(c, answer, name)
  BY <1>1, <1>2, HandleServes
<1> HIDE DEF answer, name
<1>4. /\ server' \subseteq Mark /\ \E n \in Nat : \A z \in server' : z.name[2] <= n
      /\ answer \in {"taken", "refused", "denied"} /\ name \in Names \cup {NoOne}
  BY <1>1, <1>3, ServesTyped
<1>5. /\ r \in Tab /\ r.phase = "answered" /\ r.answer = answer /\ r.name = name
      /\ r.change = tab[t].change /\ r.memory = tab[t].memory
  BY <1>1, <1>4 DEF Tab
<1> HIDE DEF r
<1>6. tab' \in [Tabs -> Tab] /\ tab'[t] = r /\ \A x \in Tabs \ {t} : tab'[x] = tab[x]
  BY <1>2, <1>5, PageType DEF Typed
<1>7. Sends(t)
  <2>1. Others(t)
    BY <1>6 DEF Others, Same
  <2>2. Serves(tab[t].change, tab'[t].answer, tab'[t].name)
    BY <1>3, <1>5, <1>6
  <2> QED BY <1>1, <1>2, <1>5, <1>6, <2>1, <2>2 DEF Sends
<1>8. HandsAreFull'
  BY <1>1, <1>5, <1>6 DEF Typed, HandsAreFull, InHand
<1>9. taken' \subseteq Nat /\ adrift' \subseteq Marks
  BY <1>1, <1>2 DEF Change, Names, Typed, TypeOK
<1>10. TypeOK' /\ Bounded'
  BY <1>2, <1>4, <1>6, <1>9 DEF Typed, TypeOK, Bounded
<1> QED BY <1>7, <1>8, <1>10 DEF Typed

\* A change that was answered for leaves the queue.
Settles(t) ==
    /\ UNCHANGED <<lock, server, clash, made, taken, adrift, stale>> /\ Others(t)
    /\ tab[t].phase = "answered" /\ tab[t].answer \in {"taken", "refused"}
    /\ tab'[t].phase = IF tab[t].name = NoOne THEN "looking" ELSE "renaming"
    /\ tab'[t].change = tab[t].change /\ tab'[t].answer = tab[t].answer
    /\ tab'[t].name = tab[t].name
    /\ queue' = {d \in queue : d.id # tab[t].change.id}
    /\ tab'[t].memory = {d \in tab[t].memory : d.id # tab[t].change.id}
    /\ dropped' = IF tab[t].answer = "refused" THEN dropped \cup {tab[t].change.id}
                  ELSE dropped

LEMMA SettleTyped ==
    ASSUME Typed, NEW t \in Tabs, Settle(t)
    PROVE  Typed' /\ Settles(t)
<1> DEFINE c == tab[t].change
           memory == {d \in tab[t].memory : d.id # c.id}
           phase == IF tab[t].name = NoOne THEN "looking" ELSE "renaming"
           r == [tab[t] EXCEPT !.memory = memory, !.phase = phase]
<1>1. tab[t] \in Tab /\ c \in Change /\ tab[t].phase = "answered"
  BY DEF Typed, TypeOK, HandsAreFull, InHand, Settle
<1>2. /\ queue' = {d \in queue : d.id # c.id}
      /\ tab' = [tab EXCEPT ![t] = r]
      /\ dropped' = IF tab[t].answer = "refused" THEN dropped \cup {c.id} ELSE dropped
      /\ UNCHANGED <<cookie, owner, lock, server, clash, made, taken, adrift, stale, used>>
      /\ tab[t].answer \in {"taken", "refused"}
  BY DEF Settle
<1>3. memory \subseteq Change
  BY <1>1 DEF Tab
<1> HIDE DEF memory
<1>4. /\ r \in Tab /\ r.phase = phase /\ r.answer = tab[t].answer /\ r.name = tab[t].name
      /\ r.change = c /\ r.memory = memory
      /\ r.name \in Names \cup {NoOne}
  BY <1>1, <1>3 DEF Tab
<1> HIDE DEF r
<1>5. tab' \in [Tabs -> Tab] /\ tab'[t] = r /\ \A x \in Tabs \ {t} : tab'[x] = tab[x]
  BY <1>2, <1>4, PageType DEF Typed
<1>6. Settles(t)
  BY <1>1, <1>2, <1>4, <1>5 DEF Settles, Others, Same, memory
<1>7. HandsAreFull'
  BY <1>1, <1>4, <1>5 DEF Typed, HandsAreFull, InHand
<1>8. dropped' \subseteq Nat
  BY <1>1, <1>2 DEF Change, Typed, TypeOK
<1>9. TypeOK' /\ Bounded'
  BY <1>2, <1>5, <1>8 DEF Typed, TypeOK, Bounded
<1> QED BY <1>6, <1>7, <1>9 DEF Typed

\* What is queued for a mark follows it to its name.
Follow(t, c) == IF c.name = tab[t].change.name THEN [c EXCEPT !.name = tab[t].name] ELSE c
Renames(t) ==
    /\ UNCHANGED <<lock, server, clash, made, taken, dropped, adrift, stale>> /\ Others(t)
    /\ tab[t].phase = "renaming" /\ tab'[t].phase = "looking"
    /\ tab'[t].change = tab[t].change /\ tab'[t].answer = tab[t].answer
    /\ tab'[t].name = NoOne
    /\ queue' = {Follow(t, c) : c \in queue}
    /\ tab'[t].memory = {Follow(t, c) : c \in tab[t].memory}

LEMMA FollowType ==
    ASSUME NEW t \in Tabs, NEW c \in Change, tab[t].name \in Names
    PROVE  /\ Follow(t, c) \in Change /\ Follow(t, c).id = c.id
           /\ Follow(t, c).owner = c.owner /\ Follow(t, c).kind = c.kind
           /\ Follow(t, c).order = c.order
           /\ Follow(t, c).name = IF c.name = tab[t].change.name THEN tab[t].name ELSE c.name
BY DEF Follow, Change

LEMMA RenameTyped ==
    ASSUME Typed, NEW t \in Tabs, Rename(t)
    PROVE  Typed' /\ Renames(t)
<1> DEFINE memory == {Follow(t, c) : c \in tab[t].memory}
           Q == {Follow(t, c) : c \in queue}
           list == {IF n = tab[t].change.name THEN tab[t].name ELSE n : n \in tab[t].list}
           r == [tab[t] EXCEPT !.memory = memory, !.list = list, !.phase = "looking",
                               !.name = NoOne]
<1>1. /\ tab[t] \in Tab /\ tab[t].name \in Names /\ tab[t].phase = "renaming"
      /\ queue \subseteq Change
  BY DEF Typed, TypeOK, HandsAreFull, InHand, Rename
<1>2. /\ queue' = Q
      /\ tab' = [tab EXCEPT ![t] = r]
      /\ UNCHANGED <<cookie, owner, lock, server, clash, made, taken, dropped, adrift, stale, used>>
  BY DEF Rename, Follow
<1>3. memory \subseteq Change /\ Q \subseteq Change /\ list \subseteq Names
  BY <1>1, FollowType DEF Tab
<1>4. \E n \in Nat : \A c \in Q : c.order <= n
  <2>1. PICK n \in Nat : \A c \in queue : c.order <= n
    BY DEF Typed, Bounded
  <2>2. \A c \in queue : Follow(t, c).order = c.order
    BY <1>1, FollowType
  <2> QED BY <2>1, <2>2
<1> HIDE DEF memory, Q, list
<1>5. /\ r \in Tab /\ r.phase = "looking" /\ r.answer = tab[t].answer /\ r.name = NoOne
      /\ r.change = tab[t].change /\ r.memory = memory
  BY <1>1, <1>3 DEF Tab
<1> HIDE DEF r
<1>6. tab' \in [Tabs -> Tab] /\ tab'[t] = r /\ \A x \in Tabs \ {t} : tab'[x] = tab[x]
  BY <1>2, <1>5, PageType DEF Typed
<1>7. Renames(t)
  BY <1>1, <1>2, <1>5, <1>6 DEF Renames, Others, Same, memory, Q
<1>8. HandsAreFull'
  BY <1>5, <1>6 DEF Typed, HandsAreFull, InHand
<1>9. TypeOK' /\ Bounded'
  BY <1>2, <1>3, <1>4, <1>6 DEF Typed, TypeOK, Bounded
<1> QED BY <1>7, <1>8, <1>9 DEF Typed

LEMMA StutterTyped == Typed /\ UNCHANGED vars => Typed' /\ Quiet
BY DEF Typed, TypeOK, Bounded, HandsAreFull, InHand, vars, Quiet, Same

-----------------------------------------------------------------------------
\* Every step is one of these, and keeps the types.
Moves ==
    \/ Quiet
    \/ Elsewhere
    \/ \E t \in Tabs :
          \/ Begins(t) \/ Takes(t) \/ LetsGo(t) \/ Drops(t) \/ Sends(t) \/ Settles(t)
          \/ Renames(t) \/ \E c \in Change : Records(t, c)

LEMMA StepTyped ==
    ASSUME Typed, [Next]_vars
    PROVE  Typed' /\ Moves
<1>1. ASSUME NEW t \in Tabs,
             \/ Refresh(t) \/ StartOffline(t) \/ SignOut(t)
             \/ \E u \in Users : SignIn(t, u)
      PROVE  Typed' /\ Moves
  BY <1>1, SessionTyped DEF Moves
<1>2. CASE Expire
  <2>1. Quiet
    BY <1>2 DEF Expire, Quiet, Same
  <2>2. /\ cookie' \in Users \cup {NoOne} /\ used' \in Used
        /\ UNCHANGED <<owner, tab>>
    BY <1>2, SpendType DEF Expire, Event, Typed
  <2>3. tab' \in [Tabs -> Tab] /\ owner' \in Users \cup {NoOne}
    BY <2>2 DEF Typed, TypeOK
  <2> QED BY <2>1, <2>2, <2>3, QuietTyped DEF Moves
<1>3. ASSUME NEW t \in Tabs, StartLoad(t) \/ Serve(t) \/ ServeNothing(t) \/ FinishLoad(t)
      PROVE  Typed' /\ Moves
  BY <1>3, LoadTyped DEF Moves
<1>4. ASSUME NEW t \in Tabs, Deliver(t) \/ Pick(t)
      PROVE  Typed' /\ Moves
  BY <1>4, DeliverTyped, PickTyped DEF Moves
<1>5. ASSUME NEW t \in Tabs, Finish(t) \/ Fail(t) \/ Denied(t) \/ Close(t)
      PROVE  Typed' /\ Moves
  BY <1>5, EndTyped DEF Moves
<1>6. ASSUME NEW t \in Tabs, Claim(t) \/ Purge(t)
      PROVE  Typed' /\ Moves
  BY <1>6, DropTyped DEF Moves
<1>7. ASSUME NEW t \in Tabs, Send(t) \/ Settle(t) \/ Rename(t)
      PROVE  Typed' /\ Moves
  BY <1>7, SendTyped, SettleTyped, RenameTyped DEF Moves
<1>8. ASSUME NEW t \in Tabs, NEW kind \in {"create", "patch", "delete"}, NEW name,
             Record(t, kind, name)
      PROVE  Typed' /\ Moves
  BY <1>8, RecordTyped DEF Moves
<1>9. ASSUME NEW s \in server, EditElsewhere(s)
      PROVE  Typed' /\ Moves
  BY <1>9, EditTyped DEF Moves
<1>10. CASE UNCHANGED vars
  BY <1>10, StutterTyped DEF Moves
<1> QED BY <1>1, <1>2, <1>3, <1>4, <1>5, <1>6, <1>7, <1>8, <1>9, <1>10 DEF Next

\* Whatever is queued, stored or held by a page has its type.
THEOREM TypeCorrect == Spec => []TypeOK
<1>1. Init => Typed
  BY InitTyped
<1>2. Typed /\ [Next]_vars => Typed'
  BY StepTyped
<1>3. Typed => TypeOK
  BY DEF Typed
<1> QED BY <1>1, <1>2, <1>3, PTL DEF Spec

LEMMA AlwaysTyped == Spec => []Typed
BY InitTyped, StepTyped, PTL DEF Spec

-----------------------------------------------------------------------------
(* Nothing is lost.                                                         *)

\* The server has acted on what it said it took.
TakenIsTaken == \A t \in Tabs :
    tab[t].phase = "answered" /\ tab[t].answer = "taken" => tab[t].change.id \in taken

Lossless == Typed /\ TakenIsTaken /\ NothingIsLost

LEMMA IdsIn == \A S, c : c \in S => c.id \in Ids(S)
BY DEF Ids

\* A change is kept where it is queued or where some page holds it.
LEMMA KeptIds ==
    \A i : i \in Ids(Kept) <=> \/ i \in Ids(queue)
                               \/ \E t \in Tabs : i \in Ids(tab[t].memory)
BY DEF Kept, Ids

LEMMA TakenStays == ASSUME Lossless, Moves PROVE TakenIsTaken'
<1>1. CASE Quiet
  BY <1>1 DEF Lossless, TakenIsTaken, Quiet, Same
<1>2. CASE Elsewhere
  BY <1>2 DEF Elsewhere, Lossless, TakenIsTaken
<1>3. ASSUME NEW t \in Tabs, Begins(t) \/ Takes(t)
      PROVE  TakenIsTaken'
  BY <1>3 DEF Lossless, TakenIsTaken, Begins, Takes, Others, Same
<1>4. ASSUME NEW t \in Tabs, LetsGo(t) \/ Settles(t) \/ Renames(t)
      PROVE  TakenIsTaken'
  BY <1>4 DEF Lossless, TakenIsTaken, LetsGo, Settles, Renames, Others, Same
<1>5. ASSUME NEW t \in Tabs, Drops(t) \/ \E c \in Change : Records(t, c)
      PROVE  TakenIsTaken'
  BY <1>5 DEF Lossless, TakenIsTaken, Drops, Records, Others, Same
<1>6. ASSUME NEW t \in Tabs, Sends(t)
      PROVE  TakenIsTaken'
  BY <1>6 DEF Lossless, TakenIsTaken, Sends, Others, Same
<1> QED BY <1>1, <1>2, <1>3, <1>4, <1>5, <1>6 DEF Moves

\* What is still safe, after a step.
Accounted == Ids(Kept) \cup taken \cup dropped

\* A step that makes no change, and takes from one page and from the queue only
\* what is accounted for afterwards, loses nothing.
LEMMA NothingGoesBy ==
  ASSUME NothingIsLost, NEW t \in Tabs, made' = made, taken \subseteq taken',
         dropped \subseteq dropped', \A x \in Tabs \ {t} : tab'[x].memory = tab[x].memory,
         Ids(queue) \subseteq Accounted', Ids(tab[t].memory) \subseteq Accounted'
  PROVE  NothingIsLost'
<1> SUFFICES ASSUME NEW i \in Ids(made) PROVE i \in Accounted'
  BY DEF NothingIsLost, Accounted
<1>1. i \in Ids(Kept) \cup taken \cup dropped
  BY DEF NothingIsLost
<1>2. CASE i \in Ids(queue) \/ i \in taken \/ i \in dropped
  BY <1>2 DEF Accounted
<1>3. ASSUME NEW x \in Tabs, i \in Ids(tab[x].memory)
      PROVE  i \in Accounted'
  <2>1. CASE x = t
    BY <1>3, <2>1
  <2>2. CASE x # t
    <3>1. i \in Ids(tab'[x].memory)
      BY <1>3, <2>2
    <3> QED BY <3>1 DEF Accounted, Kept, Ids
  <2> QED BY <2>1, <2>2
<1> QED BY <1>1, <1>2, <1>3, KeptIds

LEMMA NothingGoes == ASSUME Lossless, Moves PROVE NothingIsLost'
<1>1. NothingIsLost
  BY DEF Lossless
<1>2. CASE Quiet
  <2>1. Kept' = Kept
    BY <1>2 DEF Kept, Quiet, Same
  <2> QED BY <1>1, <1>2, <2>1 DEF NothingIsLost, Quiet
<1>3. CASE Elsewhere
  BY <1>1, <1>3 DEF Elsewhere, NothingIsLost, Kept
<1>4. ASSUME NEW t \in Tabs, Begins(t) \/ Takes(t)
      PROVE  NothingIsLost'
  <2>1. /\ Others(t) /\ tab'[t].memory = tab[t].memory
        /\ UNCHANGED <<queue, made, taken, dropped>>
    BY <1>4 DEF Begins, Takes
  <2>2. Kept' = Kept
    BY <2>1 DEF Kept, Others, Same
  <2> QED BY <1>1, <2>1, <2>2 DEF NothingIsLost
<1>6. \A x \in Tabs : Ids(tab'[x].memory) \subseteq Accounted'
  BY DEF Kept, Ids, Accounted
<1>7. /\ Ids(queue') \subseteq Accounted' /\ taken' \subseteq Accounted'
      /\ dropped' \subseteq Accounted'
  BY DEF Kept, Ids, Accounted
<1>8. ASSUME NEW t \in Tabs, LetsGo(t)
      PROVE  NothingIsLost'
  <2>1. /\ made' = made /\ taken' = taken /\ dropped \subseteq dropped' /\ queue' = queue
        /\ \A x \in Tabs \ {t} : tab'[x].memory = tab[x].memory
        /\ Ids(tab[t].memory) \subseteq Ids(tab'[t].memory) \cup dropped'
    BY <1>8 DEF LetsGo, Others, Same
  <2>2. /\ Ids(queue) \subseteq Accounted' /\ Ids(tab[t].memory) \subseteq Accounted'
    BY <2>1, <1>6, <1>7
  <2> QED BY <2>1, <2>2, <1>1, NothingGoesBy
<1>9. ASSUME NEW t \in Tabs, Drops(t)
      PROVE  NothingIsLost'
  <2>1. /\ made' = made /\ taken' = taken /\ dropped \subseteq dropped'
        /\ \A x \in Tabs \ {t} : tab'[x].memory = tab[x].memory
        /\ Ids(queue \cup tab[t].memory) \subseteq Ids(queue' \cup tab'[t].memory) \cup dropped'
    BY <1>9 DEF Drops, Others, Same
  <2>2. \A i \in Ids(queue \cup tab[t].memory) : i \in Accounted'
    <3>1. \A i \in Ids(queue' \cup tab'[t].memory) : i \in Ids(queue') \/ i \in Ids(tab'[t].memory)
      BY DEF Ids
    <3> QED BY <2>1, <3>1, <1>6, <1>7
  <2>3. /\ \A i \in Ids(queue) : i \in Ids(queue \cup tab[t].memory)
        /\ \A i \in Ids(tab[t].memory) : i \in Ids(queue \cup tab[t].memory)
    BY DEF Ids
  <2> QED BY <2>1, <2>2, <2>3, <1>1, NothingGoesBy
<1>10. ASSUME NEW t \in Tabs, Sends(t)
       PROVE  NothingIsLost'
  <2>1. /\ made' = made /\ taken \subseteq taken' /\ dropped' = dropped /\ queue' = queue
        /\ \A x \in Tabs \ {t} : tab'[x].memory = tab[x].memory
        /\ tab'[t].memory = tab[t].memory
    BY <1>10 DEF Sends, Others, Same
  <2>2. /\ Ids(queue) \subseteq Accounted' /\ Ids(tab[t].memory) \subseteq Accounted'
    BY <2>1, <1>6, <1>7
  <2> QED BY <2>1, <2>2, <1>1, NothingGoesBy
<1>11. ASSUME NEW t \in Tabs, Settles(t)
       PROVE  NothingIsLost'
  <2>1. /\ made' = made /\ taken' = taken /\ dropped \subseteq dropped'
        /\ \A x \in Tabs \ {t} : tab'[x].memory = tab[x].memory
        /\ queue' = {d \in queue : d.id # tab[t].change.id}
        /\ tab'[t].memory = {d \in tab[t].memory : d.id # tab[t].change.id}
    BY <1>11 DEF Settles, Others, Same
  <2>2. tab[t].change.id \in taken' \cup dropped'
    BY <1>11 DEF Settles, Lossless, TakenIsTaken
  <2>3. ASSUME NEW d \in queue \cup tab[t].memory
        PROVE  d.id \in Accounted'
    <3>1. CASE d.id = tab[t].change.id
      BY <2>2, <3>1, <1>7
    <3>2. CASE d.id # tab[t].change.id
      <4>1. d.id \in Ids(queue') \/ d.id \in Ids(tab'[t].memory)
        BY <2>1, <3>2 DEF Ids
      <4> QED BY <4>1, <1>6, <1>7
    <3> QED BY <3>1, <3>2
  <2>4. /\ Ids(queue) \subseteq Accounted' /\ Ids(tab[t].memory) \subseteq Accounted'
    BY <2>3 DEF Ids
  <2> QED BY <2>1, <2>4, <1>1, NothingGoesBy
<1>12. ASSUME NEW t \in Tabs, Renames(t)
       PROVE  NothingIsLost'
  <2>1. /\ UNCHANGED <<made, taken, dropped>>
        /\ \A x \in Tabs \ {t} : tab'[x].memory = tab[x].memory
        /\ queue' = {Follow(t, c) : c \in queue}
        /\ tab'[t].memory = {Follow(t, c) : c \in tab[t].memory}
    BY <1>12 DEF Renames, Others, Same
  <2>2. tab[t].name \in Names /\ queue \subseteq Change /\ tab[t].memory \subseteq Change
    BY <1>12 DEF Renames, Lossless, Typed, HandsAreFull, TypeOK, Tab
  <2>3. \A c \in queue \cup tab[t].memory : Follow(t, c).id = c.id
    BY <2>2, FollowType
  <2>4. Ids(queue) \subseteq Ids(queue') /\ Ids(tab[t].memory) \subseteq Ids(tab'[t].memory)
    <3>1. ASSUME NEW c \in queue PROVE c.id \in Ids(queue')
      BY <2>1, <2>3 DEF Ids
    <3>2. ASSUME NEW c \in tab[t].memory PROVE c.id \in Ids(tab'[t].memory)
      BY <2>1, <2>3 DEF Ids
    <3> QED BY <3>1, <3>2 DEF Ids
  <2>5. /\ Ids(queue) \subseteq Accounted' /\ Ids(tab[t].memory) \subseteq Accounted'
    BY <2>4, <1>6, <1>7
  <2> QED BY <2>1, <2>5, <1>1, NothingGoesBy
<1>13. ASSUME NEW t \in Tabs, NEW c \in Change, Records(t, c)
       PROVE  NothingIsLost'
  <2>1. /\ UNCHANGED <<taken, dropped>> /\ made' = made \cup {c}
        /\ queue \subseteq queue' /\ \A x \in Tabs : tab[x].memory \subseteq tab'[x].memory
        /\ c \in queue' \/ c \in tab'[t].memory
    BY <1>13 DEF Records, Others, Same
  <2>2. Kept \subseteq Kept' /\ c \in Kept'
    BY <2>1 DEF Kept
  <2>3. Ids(Kept) \subseteq Ids(Kept') /\ Ids(made') = Ids(made) \cup {c.id} /\ c.id \in Ids(Kept')
    BY <2>1, <2>2 DEF Ids
  <2> QED BY <1>1, <2>1, <2>3 DEF NothingIsLost
<1> QED BY <1>2, <1>3, <1>4, <1>8, <1>9, <1>10, <1>11, <1>12, <1>13 DEF Moves

\* Every change the reader was told is kept stays on the device until the server
\* has acted on it or it was given up on purpose, in every order of steps of any
\* number of tabs, with locks or without.
THEOREM ChangesAreNotLost == Spec => []NothingIsLost
<1>1. Init => Lossless
  <2> SUFFICES ASSUME Init PROVE TakenIsTaken /\ NothingIsLost
    BY InitTyped DEF Lossless
  <2>1. TakenIsTaken
    BY DEF Init, TakenIsTaken, FreshTab
  <2>2. NothingIsLost
    BY DEF Init, NothingIsLost, Ids
  <2> QED BY <2>1, <2>2
<1>2. Lossless /\ [Next]_vars => Lossless'
  BY StepTyped, TakenStays, NothingGoes DEF Lossless
<1>3. Lossless => NothingIsLost
  BY DEF Lossless
<1> QED BY <1>1, <1>2, <1>3, PTL DEF Spec

-----------------------------------------------------------------------------
(* One delivery at a time, where the browser has locks.                     *)

\* A change is one that was made, of the same mark; a new mark keeps its name.
MadeAs(c) == \E d \in made :
    /\ d.id = c.id /\ d.kind = c.kind /\ d.owner = c.owner /\ d.name[1] = c.name[1]
    /\ c.kind = "create" => d.name = c.name

\* Changes are numbered as they are made, the making of a mark is the first
\* that is done to it, and a mark that is not adrift is one account's, as far as
\* its changes are recorded under a name it has.
Numbered ==
    /\ \A c \in made : c.id <= Cardinality(made)
    /\ \A c, d \in made : c.id = d.id => c = d
    /\ \A c, d \in made : c.kind = "create" /\ c.name[1] = d.name[1] => c.id <= d.id
    /\ \A c \in made : c.kind = "create" => c.name[2] = 0
OneOwner == \A c, d \in made :
    c.kind = "create" /\ c.name[1] = d.name[1] /\ c.name[1] \notin adrift
    /\ d.id \notin stale
        => c.owner = d.owner

\* What is under way was made; what waits in the memory of a page is adrift.
Recorded ==
    /\ \A c \in queue : MadeAs(c)
    /\ \A t \in Tabs : \A c \in tab[t].memory : MadeAs(c) /\ c.name[1] \in adrift
    /\ \A t \in Tabs : InHand(t) => MadeAs(tab[t].change)

\* The server has one mark of a name; it comes from a change that was made, or
\* it was there before, and then no change makes it.
Served ==
    /\ \A s, z \in server : s.name = z.name => s = z
    /\ \A s \in server : s.look <= Cardinality(made)
    /\ \A s \in server : s.origin = 0 =>
          \A d \in made : d.kind = "create" => d.name[1] # s.name[1]
    /\ \A s \in server : s.origin # 0 => \E d \in made :
          /\ d.id = s.origin /\ d.kind = "create" /\ d.name[1] = s.name[1]
          /\ s.name[1] \notin adrift => d.owner = s.owner

OneDelivers == \A t \in Tabs : tab[t].phase # "idle" => lock = t

\* How far a delivery is tells what is in hand: only the making of a mark is
\* answered with a name, and the change has left the queue before it follows.
Phases == \A t \in Tabs :
    /\ tab[t].name # NoOne =>
          /\ tab[t].phase \in {"answered", "renaming"} /\ tab[t].change.kind = "create"
          /\ tab[t].name[1] = tab[t].change.name[1]
          /\ tab[t].phase = "answered" => tab[t].answer = "taken"
    /\ tab[t].phase = "answered" /\ tab[t].answer = "refused" =>
          tab[t].change.kind # "create"
    /\ tab[t].phase = "renaming" =>
          /\ tab[t].name # NoOne
          /\ \A c \in queue \cup tab[t].memory : c.id # tab[t].change.id

\* The order of the queue is the order the changes were made in.
InOrder == \A c, d \in queue :
    /\ c.id = d.id => c = d
    /\ c.id < d.id => c.order < d.order

\* The answer to the making of c's mark is in the hands of tab t, and c is
\* about to follow it.
OnItsWay(t, c) ==
    /\ tab[t].phase \in {"answered", "renaming"} /\ tab[t].name # NoOne
    /\ tab[t].change.name = c.name /\ tab[t].change.owner = c.owner

ArrivedAs(c, name) == \E s \in server : s.name = name /\ s.owner = c.owner

\* The mark a change is for has arrived, or its making is before the change in
\* the queue, or was just answered.
Awaited(c) ==
    \/ ArrivedAs(c, c.name)
    \/ \E d \in queue : d.kind = "create" /\ d.name = c.name /\ d.owner = c.owner
    \/ \E t \in Tabs : OnItsWay(t, c)
QueuedFirst == \A c \in queue :
    c.kind # "create" /\ c.name[1] \notin adrift /\ c.id \notin stale => Awaited(c)

\* When a change is sent its mark has arrived, unless the name it was recorded
\* under was known no more; and when the making of one is
\* answered so has that, by the name the answer gives.
PickedFirst == \A t \in Tabs :
    (/\ tab[t].phase = "picked" /\ tab[t].change.kind # "create"
     /\ tab[t].change.name[1] \notin adrift /\ tab[t].change.id \notin stale)
        => ArrivedAs(tab[t].change, tab[t].change.name)
GivenName(t) == IF tab[t].name = NoOne THEN tab[t].change.name ELSE tab[t].name
AnsweredFirst == \A t \in Tabs :
    (/\ \/ tab[t].phase = "answered" /\ tab[t].answer = "taken"
        \/ tab[t].phase = "renaming"
     /\ tab[t].change.kind = "create" /\ tab[t].change.name[1] \notin adrift)
        => ArrivedAs(tab[t].change, GivenName(t))
CreatedFirst == QueuedFirst /\ PickedFirst /\ AnsweredFirst

\* No mark has the look of a change later than one that is still to come: in
\* the queue, in hand, or about to follow a mark to the name it was given.
QueuedLater == \A s \in server, c \in queue :
    s.name = c.name /\ s.owner = c.owner /\ s.name[1] \notin adrift => s.look <= c.id
PickedLater == \A t \in Tabs :
    tab[t].phase = "picked" /\ tab[t].change.name[1] \notin adrift =>
        /\ \A s \in server :
              s.name = tab[t].change.name /\ s.owner = tab[t].change.owner
                  => s.look <= tab[t].change.id
        /\ \A d \in queue :
              d.name = tab[t].change.name /\ d.owner = tab[t].change.owner
                  => tab[t].change.id <= d.id
GivenLater == \A t \in Tabs :
    tab[t].name # NoOne /\ tab[t].change.name[1] \notin adrift =>
        \A s \in server : s.name = tab[t].name => s.look \in {0, tab[t].change.id}
Forward == QueuedLater /\ PickedLater /\ GivenLater

\* A change that made a mark and is still to be answered for would find the mark
\* again when it is sent once more; or it is about to leave the queue.
QueuedOnce == \A s \in server, c \in queue :
    s.origin # 0 /\ s.name[1] \notin adrift /\ c.id = s.origin =>
        \/ s.name = c.name /\ s.owner = c.owner
        \/ \E t \in Tabs : /\ tab[t].phase = "answered" /\ tab[t].name # NoOne
                           /\ tab[t].change.id = c.id
PickedOnce == \A s \in server, t \in Tabs :
    /\ s.origin # 0 /\ s.name[1] \notin adrift
    /\ tab[t].phase = "picked" /\ tab[t].change.id = s.origin
    => s.name = tab[t].change.name /\ s.owner = tab[t].change.owner
Once == QueuedOnce /\ PickedOnce

History == Numbered /\ OneOwner /\ Recorded /\ Served
Delivery == OneDelivers /\ Phases /\ InOrder
Ordered == Typed /\ History /\ Delivery
Orderly == Ordered /\ CreatedFirst /\ Forward /\ Once /\ MadeOnce /\ RefusedIsGone

LEMMA MadeType ==
    ASSUME Typed, Numbered, NEW c, MadeAs(c)
    PROVE  c.id \in Nat /\ Cardinality(made) \in Nat /\ c.id <= Cardinality(made) /\ c.id # 0
<1>1. Cardinality(made) \in Nat
  BY FS_CardinalityType DEF Typed, Bounded
<1>2. PICK d \in made : d.id = c.id
  BY DEF MadeAs
<1>3. d.id \in Nat \ {0} /\ d.id <= Cardinality(made)
  BY <1>2 DEF Typed, TypeOK, Change, Numbered
<1> QED BY <1>1, <1>2, <1>3

LEMMA MadeStays ==
    ASSUME NEW c, MadeAs(c), made \subseteq made' PROVE MadeAs(c)'
BY DEF MadeAs

\* A number is one change.
LEMMA SameChange ==
    ASSUME Numbered, NEW c, NEW d, MadeAs(c), MadeAs(d), c.id = d.id
    PROVE  /\ c.kind = d.kind /\ c.owner = d.owner /\ c.name[1] = d.name[1]
           /\ c.kind = "create" => c.name = d.name
BY DEF MadeAs, Numbered

\* The making of a mark is before all that is done to it.
LEMMA MadeFirst ==
    ASSUME Numbered, NEW c, NEW d, MadeAs(c), MadeAs(d), c.kind = "create",
           c.name[1] = d.name[1]
    PROVE  c.id <= d.id /\ c.name[2] = 0
<1>1. PICK e \in made : e.id = c.id /\ e.kind = "create" /\ e.name = c.name
  BY DEF MadeAs
<1>2. PICK f \in made : f.id = d.id /\ f.name[1] = d.name[1]
  BY DEF MadeAs
<1> QED BY <1>1, <1>2 DEF Numbered

\* A mark is made by one change.
LEMMA MadeByOne ==
    ASSUME Typed, Numbered, NEW c, NEW d, MadeAs(c), MadeAs(d), c.kind = "create",
           d.kind = "create", c.name[1] = d.name[1]
    PROVE  c.id = d.id /\ c.name = d.name /\ c.owner = d.owner
<1>1. c.id <= d.id /\ d.id <= c.id
  BY MadeFirst
<1>2. c.id \in Nat /\ d.id \in Nat
  BY MadeType
<1>3. c.id = d.id
  BY <1>1, <1>2
<1> QED BY <1>3, SameChange

LEMMA MadeAlike ==
    ASSUME OneOwner, NEW c, NEW d, MadeAs(c), MadeAs(d), c.kind = "create",
           c.name[1] = d.name[1], c.name[1] \notin adrift, d.id \notin stale
    PROVE  c.owner = d.owner
BY DEF MadeAs, OneOwner

\* Whose change a mark of the server is, unless it is adrift.
LEMMA OriginOf ==
    ASSUME Numbered, Served, NEW s \in server, s.origin # 0, NEW c, MadeAs(c), c.id = s.origin
    PROVE  /\ c.kind = "create" /\ c.name[1] = s.name[1]
           /\ s.name[1] \notin adrift => c.owner = s.owner
<1>1. PICK d \in made : d.id = s.origin /\ d.kind = "create" /\ d.name[1] = s.name[1]
                        /\ (s.name[1] \notin adrift => d.owner = s.owner)
  BY DEF Served
<1>2. PICK e \in made : e.id = c.id /\ e.kind = c.kind /\ e.name[1] = c.name[1]
                        /\ e.owner = c.owner
  BY DEF MadeAs
<1> QED BY <1>1, <1>2 DEF Numbered

\* Only one tab is at it.
LEMMA OnlyOne ==
    ASSUME OneDelivers, NEW t \in Tabs, NEW x \in Tabs, tab[t].phase # "idle",
           tab[x].phase # "idle"
    PROVE  x = t
BY DEF OneDelivers

\* Most steps make no change.
LEMMA MakesOrNot ==
    ASSUME Moves
    PROVE  /\ made' = made \/ \E t \in Tabs, c \in Change : Records(t, c)
           /\ adrift \subseteq adrift' /\ stale \subseteq stale'
<1>1. CASE Quiet \/ Elsewhere
  BY <1>1 DEF Quiet, Elsewhere
<1>2. ASSUME NEW t \in Tabs, Begins(t) \/ Takes(t) \/ LetsGo(t) \/ Drops(t)
      PROVE  made' = made /\ adrift \subseteq adrift' /\ stale \subseteq stale'
  BY <1>2 DEF Begins, Takes, LetsGo, Drops
<1>3. ASSUME NEW t \in Tabs, Sends(t) \/ Settles(t) \/ Renames(t)
      PROVE  made' = made /\ adrift \subseteq adrift' /\ stale \subseteq stale'
  BY <1>3 DEF Sends, Settles, Renames
<1>4. ASSUME NEW t \in Tabs, NEW c \in Change, Records(t, c)
      PROVE  adrift \subseteq adrift' /\ stale \subseteq stale'
  BY <1>4 DEF Records
<1> QED BY <1>1, <1>2, <1>3, <1>4 DEF Moves

\* What is known of a change that is made.
LEMMA RecordsNew ==
    ASSUME Ordered, NEW t \in Tabs, NEW c \in Change, Records(t, c)
    PROVE  /\ Cardinality(made) \in Nat /\ Cardinality(made') = Cardinality(made) + 1
           /\ c.id = Cardinality(made) + 1 /\ made' = made \cup {c}
           /\ c.kind = "create" =>
                 /\ c.name[2] = 0 /\ \A d \in made : d.name[1] # c.name[1]
                 /\ \A s \in server : s.name[1] # c.name[1]
           /\ c.kind # "create" /\ c.id \notin stale' => c.name \in Known(c.owner)
           /\ c \notin made
<1>1. /\ c.id = Cardinality(made) + 1 /\ made' = made \cup {c}
      /\ c.kind = "create" => c.name \in Unused
      /\ c.kind # "create" /\ c.id \notin stale' => c.name \in Known(c.owner)
  BY DEF Records
<1>2. IsFiniteSet(made) /\ Cardinality(made) \in Nat
  BY FS_CardinalityType DEF Ordered, Typed, Bounded
<1>3. c \notin made
  BY <1>1, <1>2 DEF Ordered, History, Numbered
<1>4. Cardinality(made') = Cardinality(made) + 1
  BY <1>1, <1>2, <1>3, FS_AddElement
<1>5. ASSUME c.kind = "create"
      PROVE  /\ c.name[2] = 0 /\ \A d \in made : d.name[1] # c.name[1]
             /\ \A s \in server : s.name[1] # c.name[1]
  <2>1. PICK m \in Marks \ Drawn : c.name = <<m, 0>>
    BY <1>1, <1>5 DEF Unused
  <2> QED BY <2>1 DEF Drawn
<1> QED BY <1>1, <1>2, <1>3, <1>4, <1>5

LEMMA NumberedStays == ASSUME Ordered, Moves PROVE Numbered'
<1>1. CASE made' = made
  BY <1>1 DEF Ordered, History, Numbered
<1>2. ASSUME NEW t \in Tabs, NEW c \in Change, Records(t, c)
      PROVE  Numbered'
  <2>1. /\ Cardinality(made) \in Nat /\ Cardinality(made') = Cardinality(made) + 1
        /\ c.id = Cardinality(made) + 1 /\ made' = made \cup {c}
    BY <1>2, RecordsNew
  <2>2. \A d \in made : d.id \in Nat /\ d.id <= Cardinality(made) /\ d.id < c.id
    BY <2>1 DEF Ordered, Typed, TypeOK, Change, History, Numbered
  <2>3. \A d \in made' : d.id <= Cardinality(made')
    BY <2>1, <2>2
  <2>4. \A d, e \in made' : d.id = e.id => d = e
    BY <2>1, <2>2 DEF Ordered, History, Numbered
  <2>5. \A d, e \in made' : d.kind = "create" /\ d.name[1] = e.name[1] => d.id <= e.id
    <3> SUFFICES ASSUME NEW d \in made', NEW e \in made', d.kind = "create",
                        d.name[1] = e.name[1]
                 PROVE  d.id <= e.id
      OBVIOUS
    <3>1. CASE d = c /\ e # c
      BY <1>2, <2>1, <3>1, RecordsNew
    <3>2. CASE d = c /\ e = c
      BY <2>1, <3>2
    <3>3. CASE d # c /\ e = c
      BY <2>1, <2>2, <3>3
    <3>4. CASE d # c /\ e # c
      BY <2>1, <3>4 DEF Ordered, History, Numbered
    <3> QED BY <3>1, <3>2, <3>3, <3>4
  <2>6. \A d \in made' : d.kind = "create" => d.name[2] = 0
    BY <1>2, <2>1, RecordsNew DEF Ordered, History, Numbered
  <2> QED BY <2>3, <2>4, <2>5, <2>6 DEF Numbered
<1> QED BY <1>1, <1>2, MakesOrNot

\* Whose the mark is that a name is known of, when its making is known.
LEMMA KnownIsOwn ==
    ASSUME Ordered, NEW u, NEW n \in Known(u), NEW d \in made,
           d.kind = "create", d.name[1] = n[1], n[1] \notin adrift
    PROVE  d.owner = u
<1>1. CASE \E s \in server : s.name = n /\ s.owner = u
  <2>1. PICK s \in server : s.name = n /\ s.owner = u
    BY <1>1
  <2>2. s.origin # 0
    BY <2>1 DEF Ordered, History, Served
  <2>3. PICK e \in made : /\ e.id = s.origin /\ e.kind = "create" /\ e.name[1] = s.name[1]
                          /\ e.owner = s.owner
    BY <2>1, <2>2 DEF Ordered, History, Served
  <2>4. MadeAs(d) /\ MadeAs(e)
    BY DEF MadeAs
  <2> QED BY <2>1, <2>3, <2>4, MadeByOne DEF Ordered, History
<1>2. CASE \E c \in queue : c.kind = "create" /\ c.name = n /\ c.owner = u
  <2>1. PICK c \in queue : c.kind = "create" /\ c.name = n /\ c.owner = u
    BY <1>2
  <2>2. MadeAs(c) /\ MadeAs(d)
    BY DEF MadeAs, Ordered, History, Recorded
  <2> QED BY <2>1, <2>2, MadeByOne DEF Ordered, History
<1>3. CASE \E x \in Tabs : tab[x].name # NoOne /\ tab[x].change.owner = u
                            /\ tab[x].change.name = n
  <2>1. PICK x \in Tabs : tab[x].name # NoOne /\ tab[x].change.owner = u
                          /\ tab[x].change.name = n
    BY <1>3
  <2>2. InHand(x) /\ tab[x].change.kind = "create"
    BY <2>1 DEF InHand, Ordered, Delivery, Phases
  <2>3. MadeAs(tab[x].change) /\ MadeAs(d)
    BY <2>2 DEF MadeAs, Ordered, History, Recorded
  <2> QED BY <2>1, <2>2, <2>3, MadeByOne DEF Ordered, History
<1> QED BY <1>1, <1>2, <1>3 DEF Known

LEMMA OneOwnerStays == ASSUME Ordered, Moves PROVE OneOwner'
<1>1. CASE made' = made
  BY <1>1, MakesOrNot DEF Ordered, History, OneOwner
<1>2. ASSUME NEW t \in Tabs, NEW c \in Change, Records(t, c)
      PROVE  OneOwner'
  <2>1. made' = made \cup {c} /\ adrift \subseteq adrift' /\ stale \subseteq stale'
    BY <1>2 DEF Records
  <2> SUFFICES ASSUME NEW d \in made', NEW e \in made', d.kind = "create",
                      d.name[1] = e.name[1], d.name[1] \notin adrift', e.id \notin stale'
               PROVE  d.owner = e.owner
    BY DEF OneOwner
  <2>2. CASE d = c /\ e # c
    BY <1>2, <2>1, <2>2, RecordsNew
  <2>3. CASE d # c /\ e = c
    <3>1. c.kind # "create"
      BY <1>2, <2>1, <2>3, RecordsNew
    <3>2. c.name \in Known(c.owner)
      BY <1>2, <2>3, <3>1, RecordsNew
    <3> QED BY <2>1, <2>3, <3>2, KnownIsOwn
  <2>4. CASE d # c /\ e # c
    BY <2>1, <2>4 DEF Ordered, History, OneOwner
  <2> QED BY <2>2, <2>3, <2>4
<1> QED BY <1>1, <1>2, MakesOrNot

\* When a mark is renamed, its making has left the queue.
LEMMA RenamesOthers ==
    ASSUME Ordered, NEW t \in Tabs, Renames(t)
    PROVE  /\ tab[t].change \in Change /\ tab[t].change.kind = "create"
           /\ MadeAs(tab[t].change)
           /\ tab[t].name \in Names /\ tab[t].name # NoOne
           /\ tab[t].name[1] = tab[t].change.name[1]
           /\ \A c \in queue \cup tab[t].memory :
                 /\ c \in Change /\ MadeAs(c)
                 /\ c.name[1] = tab[t].change.name[1] => c.kind # "create"
<1>1. tab[t].phase = "renaming" /\ InHand(t)
  BY DEF Renames, InHand
<1>2. /\ tab[t].change \in Change /\ MadeAs(tab[t].change) /\ tab[t].name \in Names
  BY <1>1 DEF Ordered, Typed, HandsAreFull, History, Recorded
<1>3. /\ tab[t].name # NoOne /\ tab[t].change.kind = "create"
      /\ tab[t].name[1] = tab[t].change.name[1]
      /\ \A c \in queue \cup tab[t].memory : c.id # tab[t].change.id
  BY <1>1 DEF Ordered, Delivery, Phases
<1>4. ASSUME NEW c \in queue \cup tab[t].memory
      PROVE  c \in Change /\ MadeAs(c)
  BY DEF Ordered, Typed, TypeOK, Tab, History, Recorded
<1>5. ASSUME NEW c \in queue \cup tab[t].memory, c.name[1] = tab[t].change.name[1],
             c.kind = "create"
      PROVE  FALSE
  <2>1. c.id = tab[t].change.id
    BY <1>2, <1>3, <1>4, <1>5, MadeByOne DEF Ordered, History
  <2> QED BY <1>3, <2>1
<1> QED BY <1>2, <1>3, <1>4, <1>5

\* What becomes of a change that may follow.
LEMMA Followed ==
    ASSUME Ordered, NEW t \in Tabs, Renames(t), NEW c \in queue \cup tab[t].memory
    PROVE  /\ Follow(t, c) \in Change /\ MadeAs(Follow(t, c))
           /\ Follow(t, c).id = c.id /\ Follow(t, c).kind = c.kind
           /\ Follow(t, c).owner = c.owner /\ Follow(t, c).order = c.order
           /\ Follow(t, c).name[1] = c.name[1]
           /\ Follow(t, c).name = IF c.name = tab[t].change.name THEN tab[t].name ELSE c.name
           /\ c.kind = "create" => Follow(t, c).name = c.name
<1>1. /\ c \in Change /\ MadeAs(c) /\ tab[t].name \in Names
      /\ tab[t].name[1] = tab[t].change.name[1]
      /\ c.name[1] = tab[t].change.name[1] => c.kind # "create"
  BY RenamesOthers
<1>2. /\ Follow(t, c) \in Change /\ Follow(t, c).id = c.id
      /\ Follow(t, c).owner = c.owner /\ Follow(t, c).kind = c.kind
      /\ Follow(t, c).order = c.order
      /\ Follow(t, c).name = IF c.name = tab[t].change.name THEN tab[t].name ELSE c.name
  BY <1>1, FollowType
<1>3. Follow(t, c).name[1] = c.name[1] /\ (c.kind = "create" => Follow(t, c).name = c.name)
  BY <1>1, <1>2
<1>4. MadeAs(Follow(t, c))
  BY <1>1, <1>2, <1>3 DEF MadeAs
<1> QED BY <1>2, <1>3, <1>4

\* Where a change in the queue comes from.
LEMMA QueueGrows ==
    ASSUME Moves, NEW c \in queue'
    PROVE  \/ c \in queue
           \/ \E t \in Tabs : c \in Change /\ Records(t, c) /\ queue' = queue \cup {c}
           \/ \E t \in Tabs, d \in queue : Renames(t) /\ c = Follow(t, d)
<1>1. CASE Quiet \/ Elsewhere
  BY <1>1 DEF Quiet, Elsewhere
<1>2. ASSUME NEW t \in Tabs,
             Begins(t) \/ Takes(t) \/ LetsGo(t) \/ Drops(t) \/ Sends(t) \/ Settles(t)
      PROVE  c \in queue
  BY <1>2 DEF Begins, Takes, LetsGo, Drops, Sends, Settles
<1>3. ASSUME NEW t \in Tabs, Renames(t)
      PROVE  \E d \in queue : c = Follow(t, d)
  BY <1>3 DEF Renames
<1>4. ASSUME NEW t \in Tabs, NEW d \in Change, Records(t, d), c \notin queue
      PROVE  c = d /\ queue' = queue \cup {d}
  BY <1>4 DEF Records
<1> QED BY <1>1, <1>2, <1>3, <1>4 DEF Moves

LEMMA MemoryGrows ==
    ASSUME Moves, NEW x \in Tabs, NEW c \in tab'[x].memory
    PROVE  \/ c \in tab[x].memory
           \/ c \in Change /\ Records(x, c) /\ queue' = queue /\ c.name[1] \in adrift'
           \/ Renames(x) /\ \E d \in tab[x].memory : c = Follow(x, d)
<1>1. CASE Quiet \/ Elsewhere
  BY <1>1 DEF Quiet, Elsewhere, Same
<1>2. ASSUME NEW t \in Tabs,
             Begins(t) \/ Takes(t) \/ LetsGo(t) \/ Drops(t) \/ Sends(t) \/ Settles(t)
      PROVE  c \in tab[x].memory
  BY <1>2 DEF Begins, Takes, LetsGo, Drops, Sends, Settles, Others, Same
<1>3. ASSUME NEW t \in Tabs, Renames(t), c \notin tab[x].memory
      PROVE  x = t /\ \E d \in tab[x].memory : c = Follow(x, d)
  BY <1>3 DEF Renames, Others, Same
<1>4. ASSUME NEW t \in Tabs, NEW d \in Change, Records(t, d), c \notin tab[x].memory
      PROVE  c = d /\ x = t /\ queue' = queue /\ c.name[1] \in adrift'
  BY <1>4 DEF Records, Others, Same
<1> QED BY <1>1, <1>2, <1>3, <1>4 DEF Moves

\* What a tab has in hand is from the queue, or its own memory.
LEMMA HandTakes ==
    ASSUME Moves, NEW x \in Tabs, InHand(x)'
    PROVE  \/ InHand(x) /\ tab'[x].change = tab[x].change
           \/ Takes(x) /\ tab'[x].change \in queue \cup tab[x].memory
<1>1. CASE Quiet \/ Elsewhere
  BY <1>1 DEF Quiet, Elsewhere, Same, InHand
<1>2. ASSUME NEW t \in Tabs, Begins(t) \/ LetsGo(t) \/ Drops(t)
      PROVE  InHand(x) /\ tab'[x].change = tab[x].change
  BY <1>2 DEF Begins, LetsGo, Drops, Others, Same, InHand
<1>3. ASSUME NEW t \in Tabs, Sends(t) \/ Settles(t) \/ Renames(t)
      PROVE  InHand(x) /\ tab'[x].change = tab[x].change
  BY <1>3 DEF Sends, Settles, Renames, Others, Same, InHand
<1>4. ASSUME NEW t \in Tabs, NEW c \in Change, Records(t, c)
      PROVE  InHand(x) /\ tab'[x].change = tab[x].change
  BY <1>4 DEF Records, Others, Same, InHand
<1>5. ASSUME NEW t \in Tabs, Takes(t)
      PROVE  \/ InHand(x) /\ tab'[x].change = tab[x].change
             \/ t = x /\ tab'[x].change \in queue \cup tab[x].memory
  BY <1>5 DEF Takes, Others, Same, InHand
<1> QED BY <1>1, <1>2, <1>3, <1>4, <1>5 DEF Moves

LEMMA RecordedStays == ASSUME Ordered, Moves PROVE Recorded'
<1>1. made \subseteq made' /\ adrift \subseteq adrift'
  BY MakesOrNot DEF Records
<1>2. ASSUME NEW t \in Tabs, NEW c \in Change, Records(t, c)
      PROVE  MadeAs(c)'
  BY <1>2 DEF Records, MadeAs
<1>3. ASSUME NEW c \in queue'
      PROVE  MadeAs(c)'
  <2>1. MadeAs(c) => MadeAs(c)'
    BY <1>1, MadeStays
  <2>2. c \in queue => MadeAs(c)
    BY DEF Ordered, History, Recorded
  <2>3. ASSUME NEW t \in Tabs, NEW d \in queue, Renames(t), c = Follow(t, d)
        PROVE  MadeAs(c)
    BY <2>3, Followed
  <2> QED BY <1>2, <2>1, <2>2, <2>3, QueueGrows
<1>4. ASSUME NEW x \in Tabs, NEW c \in tab'[x].memory
      PROVE  MadeAs(c)' /\ c.name[1] \in adrift'
  <2>1. MadeAs(c) => MadeAs(c)'
    BY <1>1, MadeStays
  <2>2. c \in tab[x].memory => MadeAs(c) /\ c.name[1] \in adrift
    BY DEF Ordered, History, Recorded
  <2>3. ASSUME NEW d \in tab[x].memory, Renames(x), c = Follow(x, d)
        PROVE  MadeAs(c) /\ c.name[1] \in adrift
    <3>1. d.name[1] \in adrift
      BY DEF Ordered, History, Recorded
    <3> QED BY <2>3, <3>1, Followed
  <2> QED BY <1>1, <1>2, <2>1, <2>2, <2>3, MemoryGrows
<1>5. ASSUME NEW x \in Tabs, InHand(x)'
      PROVE  MadeAs(tab[x].change)'
  <2>1. MadeAs(tab'[x].change)
    <3>1. CASE InHand(x) /\ tab'[x].change = tab[x].change
      BY <3>1 DEF Ordered, History, Recorded
    <3>2. CASE tab'[x].change \in queue \cup tab[x].memory
      BY <3>2 DEF Ordered, History, Recorded
    <3> QED BY <1>5, <3>1, <3>2, HandTakes
  <2> QED BY <1>1, <2>1 DEF MadeAs
<1> QED BY <1>3, <1>4, <1>5 DEF Recorded

\* What a step makes of the marks of the server: nothing, a change in place, or
\* one mark more, which is of the change in hand.
Creates(t, z) ==
    /\ Sends(t) /\ server' = server \cup {z} /\ \A s \in server : s.name # z.name
    /\ cookie # NoOne /\ tab[t].change.kind = "create"
    /\ Own(tab[t].change.name, cookie) = {} /\ tab'[t].answer = "taken"
    /\ z.owner = cookie /\ z.look = tab[t].change.id /\ z.origin = tab[t].change.id
    /\ z.name[1] = tab[t].change.name[1]
    /\ z.name = tab[t].change.name \/ z.name[2] # 0
    /\ tab'[t].name = IF z.name = tab[t].change.name THEN NoOne ELSE z.name
Touches(t, s, w) ==
    /\ Sends(t) /\ Edits(s, w) /\ w.look \in {s.look, tab[t].change.id}
    /\ s.name = tab[t].change.name /\ s.owner = cookie /\ cookie # NoOne

LEMMA SendsOne ==
    ASSUME NEW t \in Tabs, Sends(t)
    PROVE  \/ server' = server
           \/ \E z \in Mark : Creates(t, z)
           \/ \E s \in server, w \in Mark : Touches(t, s, w)
<1>1. ASSUME NEW z \in Mark,
             cookie # NoOne, tab[t].change.kind = "create",
             Own(tab[t].change.name, cookie) = {}, tab'[t].answer = "taken",
             server' = server \cup {z} /\ \A s \in server : s.name # z.name,
             z.owner = cookie /\ z.look = tab[t].change.id /\ z.origin = tab[t].change.id,
             z.name[1] = tab[t].change.name[1]
                /\ (z.name = tab[t].change.name \/ z.name[2] # 0),
             tab'[t].name = IF z.name = tab[t].change.name THEN NoOne ELSE z.name
      PROVE  Creates(t, z)
  BY <1>1 DEF Creates
<1>2. ASSUME NEW s \in server, NEW w \in Mark, cookie # NoOne, Edits(s, w),
             w.look \in {s.look, tab[t].change.id},
             s.name = tab[t].change.name /\ s.owner = cookie
      PROVE  Touches(t, s, w)
  BY <1>2 DEF Touches
<1>3. Serves(tab[t].change, tab'[t].answer, tab'[t].name)
  BY DEF Sends
<1> QED BY <1>1, <1>2, <1>3 DEF Serves

LEMMA ServerMoves ==
    ASSUME Moves
    PROVE  \/ server' = server \/ Elsewhere
           \/ \E t \in Tabs, z \in Mark : Creates(t, z)
           \/ \E t \in Tabs, s \in server, w \in Mark : Touches(t, s, w)
<1>1. CASE Quiet
  BY <1>1 DEF Quiet
<1>2. ASSUME NEW t \in Tabs, Begins(t) \/ Takes(t) \/ LetsGo(t) \/ Drops(t)
      PROVE  server' = server
  BY <1>2 DEF Begins, Takes, LetsGo, Drops
<1>3. ASSUME NEW t \in Tabs, Settles(t) \/ Renames(t) \/ \E c \in Change : Records(t, c)
      PROVE  server' = server
  BY <1>3 DEF Settles, Renames, Records
<1> QED BY <1>1, <1>2, <1>3, SendsOne DEF Moves

\* The marks stay, as whose and what they are.
LEMMA MarksStay ==
    ASSUME Moves, NEW s \in server
    PROVE  \E z \in server' : /\ z.name = s.name /\ z.owner = s.owner
                              /\ z.origin = s.origin /\ (s.gone => z.gone)
<1>1. ASSUME NEW y \in server, NEW w \in Mark, Edits(y, w)
      PROVE  \E z \in server' : /\ z.name = s.name /\ z.owner = s.owner
                                /\ z.origin = s.origin /\ (s.gone => z.gone)
  <2>1. CASE s = y
    BY <1>1, <2>1 DEF Edits, Changed
  <2>2. CASE s # y
    BY <1>1, <2>2 DEF Edits, Changed
  <2> QED BY <2>1, <2>2
<1> QED BY <1>1, ServerMoves DEF Elsewhere, Creates, Touches

\* Where a mark comes from.
LEMMA MarksFrom ==
    ASSUME Moves, NEW z \in server'
    PROVE  \/ z \in server
           \/ \E t \in Tabs : Creates(t, z)
           \/ \E s \in server : /\ z.name = s.name /\ z.owner = s.owner /\ z.origin = s.origin
                                /\ \/ z.look \in {0, s.look}
                                   \/ \E t \in Tabs : /\ Touches(t, s, z)
                                                      /\ z.look = tab[t].change.id
<1>1. ASSUME NEW t \in Tabs, NEW y \in Mark, Creates(t, y)
      PROVE  z \in server \/ z = y
  BY <1>1 DEF Creates
<1>2. ASSUME NEW s \in server, NEW w \in Mark, Edits(s, w)
      PROVE  /\ z \in server \/ z = w
             /\ w.name = s.name /\ w.owner = s.owner /\ w.origin = s.origin
  BY <1>2 DEF Edits, Changed
<1>3. CASE server' = server
  BY <1>3
<1>4. CASE Elsewhere
  BY <1>2, <1>4 DEF Elsewhere
<1>5. CASE \E t \in Tabs, y \in Mark : Creates(t, y)
  BY <1>1, <1>5
<1>6. ASSUME NEW t \in Tabs, NEW s \in server, NEW w \in Mark, Touches(t, s, w)
      PROVE  \/ z \in server
             \/ /\ z = w /\ z.name = s.name /\ z.owner = s.owner /\ z.origin = s.origin
                /\ z.look \in {s.look, tab[t].change.id}
  BY <1>2, <1>6 DEF Touches
<1> QED BY <1>3, <1>4, <1>5, <1>6, ServerMoves

LEMMA NamesStayUnique ==
    ASSUME Ordered, Moves, NEW s \in server', NEW z \in server', s.name = z.name
    PROVE  s = z
<1>1. \A x, y \in server : x.name = y.name => x = y
  BY DEF Ordered, History, Served
<1>2. ASSUME NEW y \in server, NEW w \in Mark, Edits(y, w)
      PROVE  s = z
  <2>1. w.name = y.name /\ server' = (server \ {y}) \cup {w}
    BY <1>2 DEF Edits, Changed
  <2> QED BY <1>1, <2>1
<1>3. ASSUME NEW t \in Tabs, NEW y \in Mark, Creates(t, y)
      PROVE  s = z
  BY <1>1, <1>3 DEF Creates
<1> QED BY <1>1, <1>2, <1>3, ServerMoves DEF Elsewhere, Touches

\* What is in hand when a request is answered.
LEMMA SendsHand ==
    ASSUME Ordered, NEW t \in Tabs, Sends(t)
    PROVE  /\ tab[t].change \in Change /\ MadeAs(tab[t].change)
           /\ tab[t].change.id \in Nat /\ tab[t].change.id # 0
           /\ Cardinality(made) \in Nat /\ tab[t].change.id <= Cardinality(made)
           /\ tab[t].change.name[1] \notin adrift' /\ cookie # NoOne
                 => cookie = tab[t].change.owner
<1>1. InHand(t)
  BY DEF Sends, InHand
<1>2. tab[t].change \in Change /\ MadeAs(tab[t].change)
  BY <1>1 DEF Ordered, Typed, HandsAreFull, History, Recorded
<1>3. tab[t].change.name[1] \notin adrift' /\ cookie # NoOne => cookie = tab[t].change.owner
  BY DEF Sends
<1> QED BY <1>2, <1>3, MadeType DEF Ordered, History

LEMMA ServedStays == ASSUME Ordered, Moves PROVE Served'
<1>1. \A s, z \in server' : s.name = z.name => s = z
  BY NamesStayUnique
<1>2. made \subseteq made' /\ adrift \subseteq adrift'
  BY MakesOrNot DEF Records
<1>3. Cardinality(made) \in Nat /\ Cardinality(made') \in Nat
      /\ Cardinality(made) <= Cardinality(made')
  <2>1. Cardinality(made) \in Nat
    BY FS_CardinalityType DEF Ordered, Typed, Bounded
  <2>2. made' = made \/ Cardinality(made') = Cardinality(made) + 1
    BY RecordsNew, MakesOrNot
  <2> QED BY <2>1, <2>2
<1>4. ASSUME NEW s \in server'
      PROVE  s.look <= Cardinality(made')
  <2>1. \A z \in server : z.look \in Nat /\ z.look <= Cardinality(made)
    BY DEF Ordered, Typed, TypeOK, Mark, History, Served
  <2>2. \A t \in Tabs : Sends(t) =>
           tab[t].change.id \in Nat /\ tab[t].change.id <= Cardinality(made)
    BY SendsHand
  <2>3. s.look \in Nat /\ s.look <= Cardinality(made)
    <3>1. CASE s \in server
      BY <2>1, <3>1
    <3>2. CASE \E t \in Tabs : Creates(t, s)
      BY <2>2, <3>2 DEF Creates
    <3>3. ASSUME NEW z \in server, s.look \in {0, z.look}
          PROVE  s.look \in Nat /\ s.look <= Cardinality(made)
      BY <1>3, <2>1, <3>3
    <3>4. ASSUME NEW t \in Tabs, NEW z \in server, Touches(t, z, s), s.look = tab[t].change.id
          PROVE  s.look \in Nat /\ s.look <= Cardinality(made)
      BY <2>2, <3>4 DEF Touches
    <3> QED BY <3>1, <3>2, <3>3, <3>4, MarksFrom
  <2> QED BY <1>3, <2>3
<1>5. ASSUME NEW s \in server', s.origin = 0, NEW d \in made', d.kind = "create"
      PROVE  d.name[1] # s.name[1]
  <2>1. PICK z \in server : z.name = s.name /\ z.origin = 0
    BY <1>5, SendsHand, MarksFrom DEF Creates
  <2>2. d \in made \/ \E t \in Tabs : d \in Change /\ Records(t, d)
    BY MakesOrNot DEF Records
  <2>3. CASE d \in made
    BY <1>5, <2>1, <2>3 DEF Ordered, History, Served
  <2>4. ASSUME NEW t \in Tabs, d \in Change, Records(t, d)
        PROVE  d.name[1] # s.name[1]
    BY <1>5, <2>1, <2>4, RecordsNew
  <2> QED BY <2>2, <2>3, <2>4
<1>6. ASSUME NEW s \in server', s.origin # 0
      PROVE  \E d \in made : /\ d.id = s.origin /\ d.kind = "create" /\ d.name[1] = s.name[1]
                             /\ s.name[1] \notin adrift' => d.owner = s.owner
  <2>1. ASSUME NEW z \in server, z.origin = s.origin, z.name = s.name, z.owner = s.owner
        PROVE  \E d \in made : /\ d.id = s.origin /\ d.kind = "create"
                               /\ d.name[1] = s.name[1]
                               /\ s.name[1] \notin adrift' => d.owner = s.owner
    BY <1>2, <1>6, <2>1 DEF Ordered, History, Served
  <2>2. ASSUME NEW t \in Tabs, Creates(t, s)
        PROVE  \E d \in made : /\ d.id = s.origin /\ d.kind = "create"
                               /\ d.name[1] = s.name[1]
                               /\ s.name[1] \notin adrift' => d.owner = s.owner
    <3>1. PICK d \in made : /\ d.id = tab[t].change.id /\ d.kind = tab[t].change.kind
                            /\ d.name[1] = tab[t].change.name[1]
                            /\ d.owner = tab[t].change.owner
      BY <2>2, SendsHand DEF Creates, MadeAs
    <3>2. s.name[1] \notin adrift' => tab[t].change.owner = s.owner
      BY <2>2, SendsHand DEF Creates
    <3> QED BY <2>2, <3>1, <3>2 DEF Creates
  <2> QED BY <2>1, <2>2, MarksFrom
<1> QED BY <1>1, <1>2, <1>4, <1>5, <1>6 DEF Served

LEMMA OneDeliversStays == ASSUME HasLocks, Ordered, Moves PROVE OneDelivers'
<1> SUFFICES ASSUME NEW x \in Tabs, tab'[x].phase # "idle" PROVE lock' = x
  BY DEF OneDelivers
<1>1. tab[x].phase # "idle" => lock = x
  BY DEF Ordered, Delivery, OneDelivers
<1>2. CASE Quiet \/ Elsewhere
  BY <1>1, <1>2 DEF Quiet, Elsewhere, Same
<1>3. ASSUME NEW t \in Tabs, Begins(t)
      PROVE  lock' = x
  BY <1>1, <1>3, NobodyAssumption DEF Begins, Others, Same
<1>4. ASSUME NEW t \in Tabs, Takes(t) \/ Drops(t) \/ Sends(t)
      PROVE  lock' = x
  BY <1>1, <1>4 DEF Takes, Drops, Sends, Others, Same
<1>5. ASSUME NEW t \in Tabs, Settles(t) \/ Renames(t) \/ \E c \in Change : Records(t, c)
      PROVE  lock' = x
  BY <1>1, <1>5 DEF Settles, Renames, Records, Others, Same
<1>6. ASSUME NEW t \in Tabs, LetsGo(t)
      PROVE  lock' = x
  BY <1>1, <1>6 DEF LetsGo, Others, Same
<1> QED BY <1>2, <1>3, <1>4, <1>5, <1>6 DEF Moves

LEMMA InOrderStays == ASSUME Ordered, Moves PROVE InOrder'
<1>1. CASE queue' \subseteq queue
  BY <1>1 DEF Ordered, Delivery, InOrder
<1>2. ASSUME NEW t \in Tabs, NEW c \in Change, Records(t, c), queue' = queue \cup {c}
      PROVE  InOrder'
  <2>1. c \notin queue => \A d \in queue : d.order < c.order
    BY <1>2 DEF Records
  <2>2. \A d \in queue : d.id \in Nat /\ d.id < c.id /\ c.id \in Nat
    <3> SUFFICES ASSUME NEW d \in queue PROVE d.id \in Nat /\ d.id < c.id /\ c.id \in Nat
      OBVIOUS
    <3>1. d.id \in Nat /\ d.id <= Cardinality(made)
      BY MadeType DEF Ordered, History, Recorded
    <3> QED BY <1>2, <3>1, RecordsNew
  <2>3. CASE c \in queue
    BY <2>2, <2>3
  <2>4. CASE c \notin queue
    <3> SUFFICES ASSUME NEW d \in queue', NEW e \in queue'
                 PROVE  (d.id = e.id => d = e) /\ (d.id < e.id => d.order < e.order)
      BY DEF InOrder
    <3>1. CASE d \in queue /\ e \in queue
      BY <3>1 DEF Ordered, Delivery, InOrder
    <3>2. CASE d \in queue /\ e = c
      BY <2>1, <2>2, <2>4, <3>2
    <3>3. CASE d = c /\ e \in queue
      BY <2>2, <3>3
    <3>4. CASE d = c /\ e = c
      <4>1. c.id \in Nat
        BY DEF Change
      <4> QED BY <3>4, <4>1
    <3> QED BY <1>2, <3>1, <3>2, <3>3, <3>4
  <2> QED BY <2>3, <2>4
<1>3. ASSUME NEW t \in Tabs, Renames(t)
      PROVE  InOrder'
  <2>1. queue' = {Follow(t, c) : c \in queue}
    BY <1>3 DEF Renames
  <2>2. \A c \in queue : Follow(t, c).id = c.id /\ Follow(t, c).order = c.order
    BY <1>3, Followed
  <2> QED BY <2>1, <2>2 DEF Ordered, Delivery, InOrder
<1>4. \/ queue' \subseteq queue
      \/ \E t \in Tabs, c \in Change : Records(t, c) /\ queue' = queue \cup {c}
      \/ \E t \in Tabs : Renames(t)
  <2>1. CASE Quiet \/ Elsewhere
    BY <2>1 DEF Quiet, Elsewhere
  <2>2. ASSUME NEW t \in Tabs,
               Begins(t) \/ Takes(t) \/ LetsGo(t) \/ Drops(t) \/ Sends(t) \/ Settles(t)
        PROVE  queue' \subseteq queue
    BY <2>2 DEF Begins, Takes, LetsGo, Drops, Sends, Settles
  <2>3. ASSUME NEW t \in Tabs, NEW c \in Change, Records(t, c)
        PROVE  queue' \subseteq queue \/ queue' = queue \cup {c}
    BY <2>3 DEF Records
  <2> QED BY <2>1, <2>2, <2>3 DEF Moves
<1> QED BY <1>1, <1>2, <1>3, <1>4

LEMMA PhasesStay == ASSUME Ordered, Moves PROVE Phases'
<1> DEFINE Gone(x) == tab[x].phase = "renaming" =>
              \A c \in queue \cup tab[x].memory : c.id # tab[x].change.id
           Named(x) ==
              /\ tab[x].name # NoOne =>
                    /\ tab[x].phase \in {"answered", "renaming"}
                    /\ tab[x].change.kind = "create"
                    /\ tab[x].name[1] = tab[x].change.name[1]
                    /\ tab[x].phase = "answered" => tab[x].answer = "taken"
              /\ tab[x].phase = "answered" /\ tab[x].answer = "refused" =>
                    tab[x].change.kind # "create"
              /\ tab[x].phase = "renaming" => tab[x].name # NoOne
<1>1. \A x \in Tabs : Named(x) /\ Gone(x)
  BY DEF Ordered, Delivery, Phases
<1>2. ASSUME NEW x \in Tabs, tab[x].phase = "renaming", tab'[x].change = tab[x].change
      PROVE  Gone(x)'
  <2>1. \A c \in queue \cup tab[x].memory : c.id # tab[x].change.id
    BY <1>1, <1>2
  <2>2. InHand(x)
    BY <1>2 DEF InHand
  <2>3. /\ tab[x].change.id \in Nat /\ tab[x].change.id <= Cardinality(made)
        /\ Cardinality(made) \in Nat
    BY <2>2, MadeType DEF Ordered, History, Recorded
  <2>4. \A t \in Tabs, c \in Change : Records(t, c) => c.id # tab[x].change.id
    BY <2>3, RecordsNew
  <2>5. \A c \in queue' : c.id # tab[x].change.id
    <3> SUFFICES ASSUME NEW c \in queue' PROVE c.id # tab[x].change.id
      OBVIOUS
    <3>1. ASSUME NEW t \in Tabs, NEW d \in queue, Renames(t), c = Follow(t, d)
          PROVE  c.id # tab[x].change.id
      <4>1. c.id = d.id
        BY <3>1, Followed
      <4> QED BY <2>1, <4>1
    <3> QED BY <2>1, <2>4, <3>1, QueueGrows
  <2>6. \A c \in tab'[x].memory : c.id # tab[x].change.id
    <3> SUFFICES ASSUME NEW c \in tab'[x].memory PROVE c.id # tab[x].change.id
      OBVIOUS
    <3>1. ASSUME NEW d \in tab[x].memory, Renames(x), c = Follow(x, d)
          PROVE  c.id # tab[x].change.id
      <4>1. c.id = d.id
        BY <3>1, Followed
      <4> QED BY <2>1, <4>1
    <3> QED BY <2>1, <2>4, <3>1, MemoryGrows
  <2> QED BY <1>2, <2>5, <2>6
<1>3. ASSUME NEW x \in Tabs, tab'[x].phase = tab[x].phase, tab'[x].change = tab[x].change,
             tab'[x].answer = tab[x].answer, tab'[x].name = tab[x].name
      PROVE  Named(x)' /\ Gone(x)'
  <2>1. Named(x)'
    BY <1>1, <1>3
  <2>2. Gone(x)'
    BY <1>2, <1>3
  <2> QED BY <2>1, <2>2
<1>4. ASSUME NEW t \in Tabs, Named(t)' /\ Gone(t)', Others(t)
      PROVE  Phases'
  <2>1. \A x \in Tabs : Named(x)' /\ Gone(x)'
    <3> SUFFICES ASSUME NEW x \in Tabs, x # t PROVE Named(x)' /\ Gone(x)'
      BY <1>4
    <3> QED BY <1>3, <1>4 DEF Others, Same
  <2> QED BY <2>1 DEF Phases
<1>5. CASE Quiet \/ Elsewhere
  <2>1. \A x \in Tabs : Named(x)' /\ Gone(x)'
    BY <1>3, <1>5 DEF Quiet, Elsewhere, Same
  <2> QED BY <2>1 DEF Phases
<1>6. ASSUME NEW t \in Tabs, Begins(t) \/ Takes(t) \/ LetsGo(t)
      PROVE  Phases'
  <2>1. tab'[t].name = NoOne \/ (tab'[t].name = tab[t].name /\ tab[t].phase \in {"idle", "looking"})
    BY <1>6 DEF Begins, Takes, LetsGo
  <2>2. tab'[t].name = NoOne /\ tab'[t].phase \notin {"answered", "renaming"} /\ Others(t)
    BY <1>1, <1>6, <2>1 DEF Begins, Takes, LetsGo
  <2>3. Named(t)' /\ Gone(t)'
    BY <2>2
  <2> QED BY <1>4, <2>2, <2>3
<1>7. ASSUME NEW t \in Tabs, Drops(t) \/ \E c \in Change : Records(t, c)
      PROVE  Phases'
  <2>1. Named(t)' /\ Gone(t)'
    BY <1>3, <1>7 DEF Drops, Records
  <2> QED BY <1>4, <1>7, <2>1 DEF Drops, Records
<1>8. ASSUME NEW t \in Tabs, Sends(t)
      PROVE  Phases'
  <2>1. /\ tab'[t].phase = "answered" /\ tab'[t].change = tab[t].change
        /\ Serves(tab[t].change, tab'[t].answer, tab'[t].name) /\ Others(t)
    BY <1>8 DEF Sends
  <2>2. Named(t)'
    BY <2>1 DEF Serves
  <2>3. Gone(t)'
    BY <2>1
  <2> QED BY <1>4, <2>1, <2>2, <2>3
<1>9. ASSUME NEW t \in Tabs, Settles(t)
      PROVE  Phases'
  <2>1. /\ tab[t].phase = "answered" /\ tab'[t].change = tab[t].change
        /\ tab'[t].phase = IF tab[t].name = NoOne THEN "looking" ELSE "renaming"
        /\ tab'[t].answer = tab[t].answer /\ tab'[t].name = tab[t].name /\ Others(t)
    BY <1>9 DEF Settles
  <2>2. Named(t)'
    BY <1>1, <2>1
  <2>3. Gone(t)'
    BY <1>9 DEF Settles
  <2> QED BY <1>4, <2>1, <2>2, <2>3
<1>10. ASSUME NEW t \in Tabs, Renames(t)
       PROVE  Phases'
  <2>1. tab'[t].name = NoOne /\ tab'[t].phase = "looking" /\ Others(t)
    BY <1>10 DEF Renames
  <2>2. Named(t)' /\ Gone(t)'
    BY <2>1
  <2> QED BY <1>4, <2>1, <2>2
<1> QED BY <1>5, <1>6, <1>7, <1>8, <1>9, <1>10 DEF Moves

LEMMA OrderedStays == ASSUME HasLocks, Ordered, [Next]_vars PROVE Ordered' /\ Moves
<1>1. Typed' /\ Moves
  BY StepTyped DEF Ordered
<1> QED BY <1>1, NumberedStays, OneOwnerStays, RecordedStays, ServedStays, OneDeliversStays,
           PhasesStay, InOrderStays DEF Ordered, History, Delivery

-----------------------------------------------------------------------------
(* The making of a mark comes first.                                        *)

LEMMA ArrivedStays ==
    ASSUME Moves, NEW c, NEW n, ArrivedAs(c, n) PROVE ArrivedAs(c, n)'
BY MarksStay DEF ArrivedAs

\* The making of a mark leaves the queue only once it has arrived.
LEMMA CreateSettles ==
    ASSUME Ordered, CreatedFirst, NEW t \in Tabs, Settles(t), NEW d \in queue,
           d.kind = "create", d.id = tab[t].change.id, d.name[1] \notin adrift,
           NEW c, c.name = d.name, c.owner = d.owner
    PROVE  ArrivedAs(c, c.name) \/ OnItsWay(t, c)'
<1>1. tab[t].phase = "answered" /\ InHand(t)
  BY DEF Settles, InHand
<1>2. MadeAs(d) /\ MadeAs(tab[t].change)
  BY <1>1 DEF Ordered, History, Recorded
<1>3. /\ tab[t].change.kind = "create" /\ tab[t].change.name = d.name
      /\ tab[t].change.owner = d.owner
  BY <1>2, SameChange DEF Ordered, History
<1>4. tab[t].answer = "taken"
  BY <1>1, <1>3 DEF Settles, Ordered, Delivery, Phases
<1>5. ArrivedAs(tab[t].change, GivenName(t))
  BY <1>1, <1>3, <1>4 DEF CreatedFirst, AnsweredFirst
<1>6. CASE tab[t].name = NoOne
  BY <1>3, <1>5, <1>6 DEF GivenName, ArrivedAs
<1>7. CASE tab[t].name # NoOne
  BY <1>3, <1>7 DEF Settles, OnItsWay
<1> QED BY <1>6, <1>7

\* A delivery that ends before the queue has followed leaves the mark adrift.
LEMMA LetsGoAdrift ==
    ASSUME Ordered, NEW t \in Tabs, LetsGo(t), tab[t].name # NoOne
    PROVE  tab[t].change.name[1] \in adrift'
BY DEF Ordered, Delivery, Phases, LetsGo

LEMMA OnItsWayStays ==
    ASSUME Ordered, Moves, NEW t \in Tabs, NEW c, OnItsWay(t, c), c.name[1] \notin adrift'
    PROVE  OnItsWay(t, c)' \/ Renames(t)
<1>1. /\ tab[t].phase \in {"answered", "renaming"} /\ tab[t].name # NoOne
      /\ tab[t].change.name = c.name /\ tab[t].change.owner = c.owner
  BY DEF OnItsWay
<1>2. ASSUME Same(t)
      PROVE  OnItsWay(t, c)'
  BY <1>2 DEF Same, OnItsWay
<1>3. CASE Quiet \/ Elsewhere
  BY <1>2, <1>3 DEF Quiet, Elsewhere, Same
<1>4. ASSUME NEW x \in Tabs, Begins(x) \/ Takes(x) \/ Sends(x)
      PROVE  OnItsWay(t, c)'
  BY <1>1, <1>2, <1>4 DEF Begins, Takes, Sends, Others
<1>5. ASSUME NEW x \in Tabs, LetsGo(x)
      PROVE  OnItsWay(t, c)'
  <2>1. x # t
    BY <1>1, <1>5, LetsGoAdrift
  <2> QED BY <1>2, <1>5, <2>1 DEF LetsGo, Others
<1>6. ASSUME NEW x \in Tabs, Drops(x) \/ \E d \in Change : Records(x, d)
      PROVE  OnItsWay(t, c)'
  <2>1. CASE x = t
    BY <1>1, <1>6, <2>1 DEF Drops, Records, OnItsWay
  <2>2. CASE x # t
    BY <1>2, <1>6, <2>2 DEF Drops, Records, Others
  <2> QED BY <2>1, <2>2
<1>7. ASSUME NEW x \in Tabs, Settles(x)
      PROVE  OnItsWay(t, c)'
  <2>1. CASE x = t
    BY <1>1, <1>7, <2>1 DEF Settles, OnItsWay
  <2>2. CASE x # t
    BY <1>2, <1>7, <2>2 DEF Settles, Others
  <2> QED BY <2>1, <2>2
<1>8. ASSUME NEW x \in Tabs, Renames(x)
      PROVE  OnItsWay(t, c)' \/ Renames(t)
  BY <1>2, <1>8 DEF Renames, Others
<1> QED BY <1>3, <1>4, <1>5, <1>6, <1>7, <1>8 DEF Moves

\* Where the making of a mark goes.
LEMMA CreateStays ==
    ASSUME Ordered, CreatedFirst, Moves, NEW c \in queue, c \in queue',
           c.name[1] \notin adrift',
           NEW d \in queue, d.kind = "create", d.name = c.name, d.owner = c.owner
    PROVE  Awaited(c)'
<1>1. adrift \subseteq adrift'
  BY MakesOrNot
<1>2. d \in queue' => Awaited(c)'
  BY DEF Awaited
<1>3. CASE Quiet \/ Elsewhere
  BY <1>2, <1>3 DEF Quiet, Elsewhere
<1>4. ASSUME NEW t \in Tabs, Begins(t) \/ Takes(t) \/ LetsGo(t) \/ Drops(t) \/ Sends(t)
      PROVE  Awaited(c)'
  BY <1>2, <1>4 DEF Begins, Takes, LetsGo, Drops, Sends
<1>5. ASSUME NEW t \in Tabs, NEW e \in Change, Records(t, e)
      PROVE  Awaited(c)'
  BY <1>2, <1>5 DEF Records
<1>6. ASSUME NEW t \in Tabs, Settles(t)
      PROVE  Awaited(c)'
  <2>1. CASE d.id # tab[t].change.id
    BY <1>2, <1>6, <2>1 DEF Settles
  <2>2. CASE d.id = tab[t].change.id
    <3>1. ArrivedAs(c, c.name) \/ OnItsWay(t, c)'
      BY <1>1, <1>6, <2>2, CreateSettles
    <3> QED BY <3>1, ArrivedStays DEF Awaited
  <2> QED BY <2>1, <2>2
<1>7. ASSUME NEW t \in Tabs, Renames(t)
      PROVE  Awaited(c)'
  <2>1. Follow(t, d) \in queue'
    BY <1>7 DEF Renames
  <2>2. /\ Follow(t, d).kind = "create" /\ Follow(t, d).name = c.name
        /\ Follow(t, d).owner = c.owner
    BY <1>7, Followed
  <2> QED BY <2>1, <2>2 DEF Awaited
<1> QED BY <1>3, <1>4, <1>5, <1>6, <1>7 DEF Moves

LEMMA QueuedFirstStays == ASSUME Ordered, CreatedFirst, Moves PROVE QueuedFirst'
<1> SUFFICES ASSUME NEW c \in queue', c.kind # "create", c.name[1] \notin adrift',
                    c.id \notin stale'
             PROVE  Awaited(c)'
  BY DEF QueuedFirst
<1>1. c.name[1] \notin adrift /\ c.id \notin stale
  BY MakesOrNot
<1>2. ArrivedAs(c, c.name) => Awaited(c)'
  BY ArrivedStays DEF Awaited
<1>3. ASSUME c \in queue, ~ \E t \in Tabs : OnItsWay(t, c) /\ Renames(t)
      PROVE  Awaited(c)'
  <2>1. Awaited(c)
    BY <1>1, <1>3 DEF CreatedFirst, QueuedFirst
  <2>2. ASSUME NEW d \in queue, d.kind = "create", d.name = c.name, d.owner = c.owner
        PROVE  Awaited(c)'
    BY <1>3, <2>2, CreateStays
  <2>3. ASSUME NEW t \in Tabs, OnItsWay(t, c)
        PROVE  Awaited(c)'
    <3>1. OnItsWay(t, c)'
      BY <1>3, <2>3, OnItsWayStays
    <3> QED BY <3>1 DEF Awaited
  <2> QED BY <1>2, <2>1, <2>2, <2>3 DEF Awaited
<1>4. ASSUME NEW t \in Tabs, NEW d \in queue, Renames(t), c = Follow(t, d)
      PROVE  Awaited(c)'
  <2>1. /\ d.owner = c.owner /\ d.name[1] = c.name[1] /\ d.id = c.id
        /\ tab[t].phase = "renaming"
        /\ c.name = IF d.name = tab[t].change.name THEN tab[t].name ELSE d.name
    BY <1>4, Followed DEF Renames
  <2>2. /\ tab[t].change.kind = "create" /\ MadeAs(tab[t].change) /\ MadeAs(d)
        /\ tab[t].name # NoOne
    BY <1>4, RenamesOthers
  <2>3. CASE d.name = tab[t].change.name
    <3>1. tab[t].change.owner = d.owner
      BY <1>1, <2>1, <2>2, <2>3, MadeAlike DEF Ordered, History
    <3>2. ArrivedAs(tab[t].change, tab[t].name)
      BY <1>1, <2>1, <2>2, <2>3 DEF CreatedFirst, AnsweredFirst, GivenName
    <3>3. ArrivedAs(c, c.name)
      BY <2>1, <2>3, <3>1, <3>2 DEF ArrivedAs
    <3> QED BY <1>2, <3>3
  <2>4. CASE d.name # tab[t].change.name
    <3>1. c = d
      BY <1>4, <2>4 DEF Follow
    <3>2. ASSUME NEW x \in Tabs, OnItsWay(x, c)
          PROVE  FALSE
      <4>1. x = t
        BY <2>1, <3>2, OnlyOne DEF OnItsWay, Ordered, Delivery
      <4> QED BY <2>4, <3>1, <3>2, <4>1 DEF OnItsWay
    <3> QED BY <1>3, <3>1, <3>2
  <2> QED BY <2>3, <2>4
<1>5. ASSUME c \in queue
      PROVE  Awaited(c)'
  <2>1. ASSUME NEW t \in Tabs, Renames(t)
        PROVE  \E d \in queue : c = Follow(t, d)
    BY <2>1 DEF Renames
  <2> QED BY <1>3, <1>4, <1>5, <2>1
<1>6. ASSUME NEW t \in Tabs, c \in Change, Records(t, c), queue' = queue \cup {c}
      PROVE  Awaited(c)'
  <2>1. c.name \in Known(c.owner)
    BY <1>6, RecordsNew
  <2>2. CASE \E s \in server : s.name = c.name /\ s.owner = c.owner
    BY <1>2, <2>2 DEF ArrivedAs
  <2>3. CASE \E d \in queue : d.kind = "create" /\ d.name = c.name /\ d.owner = c.owner
    BY <1>6, <2>3 DEF Awaited
  <2>4. CASE \E x \in Tabs : tab[x].name # NoOne /\ tab[x].change.owner = c.owner
                              /\ tab[x].change.name = c.name
    <3>1. PICK x \in Tabs : tab[x].name # NoOne /\ tab[x].change.owner = c.owner
                            /\ tab[x].change.name = c.name
      BY <2>4
    <3>2. OnItsWay(x, c)
      BY <3>1 DEF OnItsWay, Ordered, Delivery, Phases
    <3>3. tab'[x].phase = tab[x].phase /\ tab'[x].name = tab[x].name
          /\ tab'[x].change = tab[x].change
      BY <1>6 DEF Records, Others, Same
    <3>4. OnItsWay(x, c)'
      BY <3>2, <3>3 DEF OnItsWay
    <3> QED BY <3>4 DEF Awaited
  <2> QED BY <2>1, <2>2, <2>3, <2>4 DEF Known
<1> QED BY <1>4, <1>5, <1>6, QueueGrows

LEMMA PickedFirstStays == ASSUME Ordered, CreatedFirst, Moves PROVE PickedFirst'
<1> SUFFICES ASSUME NEW t \in Tabs, tab'[t].phase = "picked",
                    tab'[t].change.kind # "create", tab'[t].change.name[1] \notin adrift',
                    tab'[t].change.id \notin stale'
             PROVE  ArrivedAs(tab[t].change, tab[t].change.name)'
  BY DEF PickedFirst, ArrivedAs
<1> DEFINE c == tab'[t].change
<1>1. c.name[1] \notin adrift /\ c.id \notin stale
  BY MakesOrNot
<1>2. ASSUME \E s \in server : s.name = c.name /\ s.owner = c.owner
      PROVE  \E s \in server' : s.name = c.name /\ s.owner = c.owner
  BY <1>2, MarksStay
<1>3. CASE Takes(t)
  <2>1. c \in queue \cup tab[t].memory /\ tab[t].phase = "looking"
    BY <1>3 DEF Takes
  <2>2. c \notin tab[t].memory
    BY <1>1 DEF Ordered, History, Recorded
  <2>3. MadeAs(c) /\ Awaited(c) /\ c \in Change
    BY <1>1, <2>1, <2>2
       DEF Ordered, Typed, TypeOK, History, Recorded, CreatedFirst, QueuedFirst
  <2>4. ASSUME NEW x \in Tabs, OnItsWay(x, c)
        PROVE  FALSE
    <3>1. tab[x].phase \in {"answered", "renaming"}
      BY <2>4 DEF OnItsWay
    <3>2. x = t
      BY <2>1, <3>1, OnlyOne DEF Ordered, Delivery
    <3> QED BY <2>1, <3>1, <3>2
  <2>5. ASSUME NEW d \in queue, d.kind = "create", d.name = c.name, d.owner = c.owner
        PROVE  FALSE
    <3>1. MadeAs(d) /\ d \in Change
      BY DEF Ordered, Typed, TypeOK, History, Recorded
    <3>2. d.id <= c.id
      BY <2>3, <2>5, <3>1, MadeFirst DEF Ordered, History
    <3>3. d # c /\ Before(c, d)
      BY <1>3, <2>5 DEF Takes
    <3>4. d.id # c.id
      BY <2>3, <2>5, <3>1, SameChange DEF Ordered, History
    <3>5. d.id \in Nat /\ c.id \in Nat /\ d.order \in Nat /\ c.order \in Nat
      BY <2>3, <3>1 DEF Change
    <3>6. d.id < c.id
      BY <3>2, <3>4, <3>5
    <3>7. d.order < c.order
      BY <2>1, <2>2, <3>6 DEF Ordered, Delivery, InOrder
    <3> QED BY <3>3, <3>5, <3>6, <3>7 DEF Before
  <2> QED BY <1>2, <2>3, <2>4, <2>5 DEF Awaited, ArrivedAs
<1>4. ASSUME tab[t].phase = "picked" /\ tab'[t].change = tab[t].change
      PROVE  ArrivedAs(tab[t].change, tab[t].change.name)'
  <2>1. ArrivedAs(tab[t].change, tab[t].change.name)
    BY <1>1, <1>4 DEF CreatedFirst, PickedFirst
  <2> QED BY <1>2, <1>4, <2>1 DEF ArrivedAs
<1>5. CASE Same(t)
  BY <1>4, <1>5 DEF Same
<1>6. ASSUME NEW x \in Tabs, Drops(x) \/ \E d \in Change : Records(x, d)
      PROVE  ArrivedAs(tab[t].change, tab[t].change.name)'
  BY <1>4, <1>6 DEF Drops, Records, Others, Same
<1>7. ASSUME NEW x \in Tabs, Begins(x) \/ LetsGo(x) \/ Sends(x) \/ Settles(x) \/ Renames(x)
      PROVE  Same(t)
  BY <1>7 DEF Begins, LetsGo, Sends, Settles, Renames, Others
<1>8. ASSUME NEW x \in Tabs, Takes(x)
      PROVE  Same(t) \/ Takes(t)
  BY <1>8 DEF Takes, Others
<1>9. CASE Quiet \/ Elsewhere
  BY <1>5, <1>9 DEF Quiet, Elsewhere, Same
<1> QED BY <1>3, <1>5, <1>6, <1>7, <1>8, <1>9 DEF Moves

LEMMA AnsweredFirstStays == ASSUME Ordered, CreatedFirst, Moves PROVE AnsweredFirst'
<1> DEFINE Answered(t) == /\ \/ tab[t].phase = "answered" /\ tab[t].answer = "taken"
                             \/ tab[t].phase = "renaming"
                          /\ tab[t].change.kind = "create"
<1> SUFFICES ASSUME NEW t \in Tabs, Answered(t)', tab'[t].change.name[1] \notin adrift'
             PROVE  ArrivedAs(tab[t].change, GivenName(t))'
  BY DEF AnsweredFirst, ArrivedAs, GivenName
<1>1. tab'[t].change.name[1] \notin adrift
  BY MakesOrNot
<1>2. ASSUME Answered(t), tab'[t].change = tab[t].change, tab'[t].name = tab[t].name
      PROVE  ArrivedAs(tab[t].change, GivenName(t))'
  <2>1. ArrivedAs(tab[t].change, GivenName(t))
    BY <1>1, <1>2 DEF CreatedFirst, AnsweredFirst
  <2>2. PICK s \in server : s.name = GivenName(t) /\ s.owner = tab[t].change.owner
    BY <2>1 DEF ArrivedAs
  <2>3. PICK z \in server' : z.name = s.name /\ z.owner = s.owner
    BY MarksStay
  <2>4. GivenName(t)' = GivenName(t)
    BY <1>2 DEF GivenName
  <2> QED BY <1>2, <2>2, <2>3, <2>4 DEF ArrivedAs
<1>3. CASE Same(t)
  BY <1>2, <1>3 DEF Same
<1>4. CASE Sends(t)
  <2>1. /\ tab'[t].answer = "taken" /\ tab'[t].change = tab[t].change
        /\ tab[t].change.kind = "create"
        /\ Serves(tab[t].change, tab'[t].answer, tab'[t].name)
    BY <1>4 DEF Sends
  <2>2. cookie # NoOne
    BY <2>1 DEF Serves
  <2>3. cookie = tab[t].change.owner
    BY <1>4, <2>1, <2>2, SendsHand
  <2>4. CASE Own(tab[t].change.name, cookie) # {}
    <3>1. tab'[t].name = NoOne /\ server' = server
      BY <2>1, <2>4 DEF Serves
    <3> QED BY <2>1, <2>3, <2>4, <3>1 DEF ArrivedAs, GivenName, Own
  <2>5. CASE Own(tab[t].change.name, cookie) = {}
    <3>1. PICK z \in Mark :
            /\ server' = server \cup {z} /\ z.owner = cookie
            /\ tab'[t].name = IF z.name = tab[t].change.name THEN NoOne ELSE z.name
      BY <2>1, <2>2, <2>5 DEF Serves
    <3>2. z.name # NoOne
      BY NobodyAssumption DEF Mark, Names
    <3>3. GivenName(t)' = z.name
      BY <2>1, <3>1, <3>2 DEF GivenName
    <3> QED BY <2>1, <2>3, <3>1, <3>3 DEF ArrivedAs
  <2> QED BY <2>4, <2>5
<1>5. CASE Settles(t)
  <2>1. /\ tab[t].phase = "answered" /\ tab'[t].change = tab[t].change
        /\ tab'[t].name = tab[t].name
    BY <1>5 DEF Settles
  <2>2. tab[t].answer = "taken"
    BY <1>5, <2>1 DEF Settles, Ordered, Delivery, Phases
  <2> QED BY <1>2, <2>1, <2>2
<1>6. ASSUME NEW x \in Tabs, Drops(x) \/ \E d \in Change : Records(x, d)
      PROVE  ArrivedAs(tab[t].change, GivenName(t))'
  BY <1>2, <1>3, <1>6 DEF Drops, Records, Others
<1>7. ASSUME NEW x \in Tabs, Begins(x) \/ Takes(x) \/ LetsGo(x) \/ Renames(x)
      PROVE  Same(t)
  BY <1>7 DEF Begins, Takes, LetsGo, Renames, Others
<1>8. ASSUME NEW x \in Tabs, Sends(x) \/ Settles(x)
      PROVE  Same(t) \/ Sends(t) \/ Settles(t)
  BY <1>8 DEF Sends, Settles, Others
<1>9. CASE Quiet \/ Elsewhere
  BY <1>3, <1>9 DEF Quiet, Elsewhere, Same
<1> QED BY <1>3, <1>4, <1>5, <1>6, <1>7, <1>8, <1>9 DEF Moves

LEMMA CreatedFirstStays == ASSUME Ordered, CreatedFirst, Moves PROVE CreatedFirst'
BY QueuedFirstStays, PickedFirstStays, AnsweredFirstStays DEF CreatedFirst

-----------------------------------------------------------------------------
(* The changes of a mark arrive in order.                                   *)

\* What a request does to a mark that is not adrift, it does for the account of
\* the change, and no later change waits for it.
LEMMA TouchesOwn ==
    ASSUME Ordered, Forward, NEW t \in Tabs, NEW s, NEW w, Touches(t, s, w),
           s.name[1] \notin adrift'
    PROVE  /\ s.owner = tab[t].change.owner /\ s.name = tab[t].change.name /\ s \in server
           /\ s.look \in Nat /\ tab[t].change.id \in Nat /\ s.look <= tab[t].change.id
           /\ w.look \in {s.look, tab[t].change.id} /\ w.look <= tab[t].change.id
           /\ \A d \in queue : d.name = s.name /\ d.owner = s.owner
                 => tab[t].change.id <= d.id
<1>1. /\ Sends(t) /\ s.name = tab[t].change.name /\ s.owner = cookie /\ cookie # NoOne
      /\ s \in server /\ w.look \in {s.look, tab[t].change.id}
  BY DEF Touches, Edits
<1>2. s.owner = tab[t].change.owner /\ tab[t].change.id \in Nat
  BY <1>1, SendsHand
<1>3. tab[t].phase = "picked" /\ s.name[1] \notin adrift /\ s.look \in Nat
  BY <1>1 DEF Sends, Ordered, Typed, TypeOK, Mark
<1>4. /\ s.look <= tab[t].change.id
      /\ \A d \in queue : d.name = s.name /\ d.owner = s.owner => tab[t].change.id <= d.id
  BY <1>1, <1>2, <1>3 DEF Forward, PickedLater
<1> QED BY <1>1, <1>2, <1>3, <1>4

LEMMA LookType ==
    ASSUME Ordered, NEW s \in server
    PROVE  s.look \in Nat /\ Cardinality(made) \in Nat /\ s.look <= Cardinality(made)
<1>1. Cardinality(made) \in Nat
  BY FS_CardinalityType DEF Ordered, Typed, Bounded
<1> QED BY <1>1 DEF Ordered, Typed, TypeOK, Mark, History, Served

LEMMA QueuedLaterStays ==
    ASSUME Ordered, Forward, Moves PROVE QueuedLater'
<1> SUFFICES ASSUME NEW z \in server', NEW c \in queue',
                    z.name = c.name, z.owner = c.owner, z.name[1] \notin adrift'
             PROVE  z.look <= c.id
  BY DEF QueuedLater
<1>1. z.name[1] \notin adrift
  BY MakesOrNot
<1>2. \A d \in queue : d.id \in Nat /\ MadeAs(d) /\ d \in Change
  BY DEF Ordered, Typed, TypeOK, Change, History, Recorded
<1>3. ASSUME c \in queue
      PROVE  z.look <= c.id
  <2>1. ASSUME NEW s \in server, s.name = z.name, s.owner = z.owner, z.look \in {0, s.look}
        PROVE  z.look <= c.id
    <3>1. s.look <= c.id
      BY <1>1, <1>3, <2>1 DEF Forward, QueuedLater
    <3> QED BY <1>2, <1>3, <2>1, <3>1
  <2>2. ASSUME NEW t \in Tabs, NEW s \in server, Touches(t, s, z), s.name = z.name,
               s.owner = z.owner, z.look = tab[t].change.id
        PROVE  z.look <= c.id
    BY <1>3, <2>2, TouchesOwn
  <2>3. ASSUME NEW t \in Tabs, Creates(t, z)
        PROVE  z.look <= c.id
    <3>1. /\ Sends(t) /\ tab[t].change.kind = "create" /\ z.look = tab[t].change.id
          /\ tab[t].change.name[1] = c.name[1]
      BY <2>3 DEF Creates
    <3>2. MadeAs(tab[t].change) /\ MadeAs(c)
      BY <1>2, <1>3, <3>1, SendsHand
    <3> QED BY <3>1, <3>2, MadeFirst DEF Ordered, History
  <2>4. z \in server => z.look <= c.id
    BY <2>1
  <2> QED BY <2>1, <2>2, <2>3, <2>4, MarksFrom
<1>4. ASSUME NEW t \in Tabs, NEW d \in queue, Renames(t), c = Follow(t, d)
      PROVE  z.look <= c.id
  <2>1. /\ d.owner = c.owner /\ d.name[1] = c.name[1] /\ c.id = d.id
        /\ c.name = IF d.name = tab[t].change.name THEN tab[t].name ELSE d.name
    BY <1>4, Followed
  <2>2. /\ tab[t].change.kind = "create" /\ MadeAs(tab[t].change) /\ MadeAs(d)
        /\ tab[t].name # NoOne /\ server' = server
    BY <1>4, RenamesOthers DEF Renames
  <2>3. CASE d.name = tab[t].change.name
    <3>1. z.look \in {0, tab[t].change.id}
      BY <1>1, <2>1, <2>2, <2>3 DEF Forward, GivenLater
    <3>2. tab[t].change.id <= d.id
      BY <2>2, <2>3, MadeFirst DEF Ordered, History
    <3> QED BY <1>2, <2>1, <3>1, <3>2
  <2>4. CASE d.name # tab[t].change.name
    BY <1>1, <2>1, <2>2, <2>4 DEF Forward, QueuedLater
  <2> QED BY <2>3, <2>4
<1>5. ASSUME NEW t \in Tabs, c \in Change, Records(t, c)
      PROVE  z.look <= c.id
  <2>1. server' = server /\ c.id = Cardinality(made) + 1
    BY <1>5 DEF Records
  <2>2. z.look \in Nat /\ Cardinality(made) \in Nat /\ z.look <= Cardinality(made)
    BY <2>1, LookType
  <2> QED BY <2>1, <2>2
<1> QED BY <1>3, <1>4, <1>5, QueueGrows

\* While a change is in hand no other tab has a request answered.
LEMMA ServerWaits ==
    ASSUME Ordered, Moves, NEW t \in Tabs, tab[t].phase # "idle", ~ Sends(t)
    PROVE  server' = server \/ Elsewhere
<1>1. ASSUME NEW x \in Tabs, Sends(x)
      PROVE  x = t
  <2>1. tab[x].phase # "idle"
    BY <1>1 DEF Sends
  <2> QED BY <2>1, OnlyOne DEF Ordered, Delivery
<1>2. \A x \in Tabs : ~ Sends(x)
  BY <1>1
<1> QED BY <1>2, ServerMoves DEF Creates, Touches

\* Elsewhere a mark only loses its look, or keeps it.
LEMMA ElsewhereLooks ==
    ASSUME server' = server \/ Elsewhere, NEW z \in server'
    PROVE  \E s \in server : /\ z.name = s.name /\ z.owner = s.owner /\ z.origin = s.origin
                             /\ z.look \in {0, s.look}
BY DEF Elsewhere, Edits, Changed

LEMMA PickedLaterStays == ASSUME Ordered, Forward, Moves PROVE PickedLater'
<1> SUFFICES ASSUME NEW t \in Tabs, tab'[t].phase = "picked",
                    tab'[t].change.name[1] \notin adrift'
             PROVE  /\ \A s \in server' : s.name = tab'[t].change.name
                                          /\ s.owner = tab'[t].change.owner
                          => s.look <= tab'[t].change.id
                    /\ \A d \in queue' : d.name = tab'[t].change.name
                                         /\ d.owner = tab'[t].change.owner
                          => tab'[t].change.id <= d.id
  BY DEF PickedLater
<1> DEFINE c == tab'[t].change
           Later == /\ \A s \in server' : s.name = c.name /\ s.owner = c.owner
                          => s.look <= c.id
                    /\ \A d \in queue' : d.name = c.name /\ d.owner = c.owner
                          => c.id <= d.id
<1>1. c.name[1] \notin adrift
  BY MakesOrNot
<1>2. CASE Takes(t)
  <2>1. c \in queue \cup tab[t].memory /\ queue' = queue /\ server' = server
    BY <1>2 DEF Takes
  <2>2. c \in queue
    BY <1>1, <2>1 DEF Ordered, History, Recorded
  <2>3. \A s \in server : s.name = c.name /\ s.owner = c.owner => s.look <= c.id
    BY <1>1, <2>2 DEF Forward, QueuedLater
  <2>4. ASSUME NEW d \in queue, d.owner = c.owner
        PROVE  c.id <= d.id
    <3>1. /\ d.id \in Nat /\ c.id \in Nat /\ d.order \in Nat /\ c.order \in Nat
      BY <2>2 DEF Ordered, Typed, TypeOK, Change
    <3>2. d = c \/ Before(c, d)
      BY <1>2, <2>4 DEF Takes
    <3>3. d.id < c.id => d.order < c.order
      BY <2>2 DEF Ordered, Delivery, InOrder
    <3> QED BY <3>1, <3>2, <3>3 DEF Before
  <2> QED BY <2>1, <2>3, <2>4
<1>3. ASSUME tab[t].phase = "picked", tab'[t].change = tab[t].change
      PROVE  Later
  <2>1. ~ Sends(t)
    BY DEF Sends
  <2>2. InHand(t)
    BY <1>3 DEF InHand
  <2>3. /\ c.id \in Nat /\ Cardinality(made) \in Nat /\ c.id <= Cardinality(made)
    BY <1>3, <2>2, MadeType DEF Ordered, History, Recorded
  <2>4. /\ \A s \in server : s.name = c.name /\ s.owner = c.owner => s.look <= c.id
        /\ \A d \in queue : d.name = c.name /\ d.owner = c.owner => c.id <= d.id
    BY <1>1, <1>3 DEF Forward, PickedLater
  <2>5. ASSUME NEW s \in server', s.name = c.name, s.owner = c.owner
        PROVE  s.look <= c.id
    <3>1. PICK z \in server : z.name = s.name /\ z.owner = s.owner /\ s.look \in {0, z.look}
      BY <1>3, <2>1, ServerWaits, ElsewhereLooks
    <3> QED BY <2>3, <2>4, <2>5, <3>1
  <2>6. ASSUME NEW d \in queue', d.name = c.name, d.owner = c.owner
        PROVE  c.id <= d.id
    <3>1. ASSUME NEW x \in Tabs, Records(x, d), d \in Change
          PROVE  c.id <= d.id
      <4>1. d.id = Cardinality(made) + 1
        BY <3>1 DEF Records
      <4> QED BY <2>3, <4>1
    <3>2. ASSUME NEW x \in Tabs, Renames(x)
          PROVE  FALSE
      <4>1. x = t /\ tab[x].phase = "renaming"
        BY <1>3, <3>2, OnlyOne DEF Ordered, Delivery, Renames
      <4> QED BY <1>3, <4>1
    <3> QED BY <2>4, <2>6, <3>1, <3>2, QueueGrows
  <2> QED BY <2>5, <2>6
<1>4. CASE Same(t)
  BY <1>3, <1>4 DEF Same
<1>5. ASSUME NEW x \in Tabs, Drops(x) \/ \E d \in Change : Records(x, d)
      PROVE  Later
  BY <1>3, <1>5 DEF Drops, Records, Others, Same
<1>6. ASSUME NEW x \in Tabs, Begins(x) \/ LetsGo(x) \/ Sends(x) \/ Settles(x) \/ Renames(x)
      PROVE  Same(t)
  BY <1>6 DEF Begins, LetsGo, Sends, Settles, Renames, Others
<1>7. ASSUME NEW x \in Tabs, Takes(x)
      PROVE  Same(t) \/ Takes(t)
  BY <1>7 DEF Takes, Others
<1>8. CASE Quiet \/ Elsewhere
  BY <1>4, <1>8 DEF Quiet, Elsewhere, Same
<1> QED BY <1>2, <1>4, <1>5, <1>6, <1>7, <1>8 DEF Moves

LEMMA GivenLaterStays == ASSUME Ordered, Forward, Moves PROVE GivenLater'
<1> SUFFICES ASSUME NEW t \in Tabs, tab'[t].name # NoOne,
                    tab'[t].change.name[1] \notin adrift',
                    NEW s \in server', s.name = tab'[t].name
             PROVE  s.look \in {0, tab'[t].change.id}
  BY DEF GivenLater
<1>1. tab'[t].change.name[1] \notin adrift
  BY MakesOrNot
<1>2. ASSUME tab[t].name = tab'[t].name, tab'[t].change = tab[t].change
      PROVE  s.look \in {0, tab'[t].change.id}
  <2>1. tab[t].phase \in {"answered", "renaming"}
    BY <1>2 DEF Ordered, Delivery, Phases
  <2>2. ~ Sends(t)
    BY <2>1 DEF Sends
  <2>3. PICK z \in server : z.name = s.name /\ s.look \in {0, z.look}
    BY <2>1, <2>2, ServerWaits, ElsewhereLooks
  <2> QED BY <1>1, <1>2, <2>3 DEF Forward, GivenLater
<1>3. CASE Sends(t)
  <2>1. /\ tab'[t].change = tab[t].change
        /\ Serves(tab[t].change, tab'[t].answer, tab'[t].name)
    BY <1>3 DEF Sends
  <2>2. PICK z \in Mark :
          /\ server' = server \cup {z} /\ \A y \in server : y.name # z.name
          /\ z.look = tab[t].change.id
          /\ tab'[t].name = IF z.name = tab[t].change.name THEN NoOne ELSE z.name
    BY <2>1 DEF Serves
  <2> QED BY <2>1, <2>2
<1>4. CASE Same(t)
  BY <1>2, <1>4 DEF Same
<1>5. ASSUME NEW x \in Tabs, Drops(x) \/ Settles(x) \/ \E d \in Change : Records(x, d)
      PROVE  s.look \in {0, tab'[t].change.id}
  BY <1>2, <1>5 DEF Drops, Settles, Records, Others, Same
<1>6. ASSUME NEW x \in Tabs, Begins(x) \/ Takes(x) \/ LetsGo(x) \/ Renames(x)
      PROVE  Same(t)
  <2>1. CASE x = t
    <3>1. tab'[t].name = tab[t].name /\ tab[t].phase \in {"idle", "looking"}
      BY <1>6, <2>1 DEF Begins, Takes, LetsGo, Renames
    <3> QED BY <3>1 DEF Ordered, Delivery, Phases
  <2>2. CASE x # t
    BY <1>6, <2>2 DEF Begins, Takes, LetsGo, Renames, Others
  <2> QED BY <2>1, <2>2
<1>7. ASSUME NEW x \in Tabs, Sends(x)
      PROVE  Same(t) \/ Sends(t)
  BY <1>7 DEF Sends, Others
<1>8. CASE Quiet \/ Elsewhere
  BY <1>4, <1>8 DEF Quiet, Elsewhere, Same
<1> QED BY <1>3, <1>4, <1>5, <1>6, <1>7, <1>8 DEF Moves

LEMMA ForwardStays == ASSUME Ordered, Forward, Moves PROVE Forward'
BY QueuedLaterStays, PickedLaterStays, GivenLaterStays DEF Forward

-----------------------------------------------------------------------------
(* A mark is made once.                                                     *)

LEMMA QueuedOnceStays == ASSUME Ordered, Once, Moves PROVE QueuedOnce'
<1> DEFINE Answers(c) == \E t \in Tabs : /\ tab[t].phase = "answered"
                                         /\ tab[t].name # NoOne /\ tab[t].change.id = c.id
<1> SUFFICES ASSUME NEW z \in server', NEW c \in queue', z.origin # 0,
                    z.name[1] \notin adrift', c.id = z.origin
             PROVE  (z.name = c.name /\ z.owner = c.owner) \/ Answers(c)'
  BY DEF QueuedOnce
<1>1. z.name[1] \notin adrift
  BY MakesOrNot
<1>2. \A d \in queue : d.id \in Nat /\ d.id <= Cardinality(made) /\ MadeAs(d)
  BY MadeType DEF Ordered, History, Recorded
<1>3. ASSUME NEW t \in Tabs, Creates(t, z), c \in queue
      PROVE  (z.name = c.name /\ z.owner = c.owner) \/ Answers(c)'
  <2>1. /\ Sends(t) /\ tab[t].change.kind = "create" /\ c.id = tab[t].change.id
        /\ z.owner = cookie /\ cookie # NoOne /\ z.name[1] = tab[t].change.name[1]
        /\ tab'[t].name = IF z.name = tab[t].change.name THEN NoOne ELSE z.name
    BY <1>3 DEF Creates
  <2>2. /\ MadeAs(tab[t].change) /\ cookie = tab[t].change.owner
    BY <2>1, SendsHand
  <2>3. c.name = tab[t].change.name /\ c.owner = tab[t].change.owner
    BY <1>2, <1>3, <2>1, <2>2, SameChange DEF Ordered, History
  <2>4. z \in Mark
    BY <1>3 DEF Ordered, Typed, TypeOK, Creates, Sends, Serves
  <2>5. CASE z.name = c.name
    BY <2>1, <2>2, <2>3, <2>5
  <2>6. CASE z.name # c.name
    <3>1. z.name # NoOne
      BY <2>4, NobodyAssumption DEF Mark, Names
    <3>2. tab'[t].name # NoOne /\ tab'[t].phase = "answered" /\ tab'[t].change.id = c.id
      BY <2>1, <2>3, <2>6, <3>1 DEF Sends
    <3> QED BY <3>2
  <2> QED BY <2>5, <2>6
<1>4. ASSUME NEW s \in server, s.name = z.name, s.owner = z.owner, s.origin = z.origin,
             c \in queue
      PROVE  (z.name = c.name /\ z.owner = c.owner) \/ Answers(c)'
  <2>1. CASE s.name = c.name /\ s.owner = c.owner
    BY <1>4, <2>1
  <2>2. ASSUME NEW t \in Tabs, tab[t].phase = "answered", tab[t].name # NoOne,
               tab[t].change.id = c.id
        PROVE  Answers(c)'
    <3>1. CASE Same(t)
      BY <2>2, <3>1 DEF Same
    <3>2. ASSUME NEW x \in Tabs, Drops(x) \/ \E d \in Change : Records(x, d)
          PROVE  Answers(c)'
      <4>1. /\ tab'[t].phase = tab[t].phase /\ tab'[t].change = tab[t].change
            /\ tab'[t].name = tab[t].name
        BY <3>2 DEF Drops, Records, Others, Same
      <4> QED BY <2>2, <4>1
    <3>3. ASSUME NEW x \in Tabs, Begins(x) \/ Takes(x) \/ Sends(x) \/ Renames(x)
          PROVE  Same(t)
      BY <2>2, <3>3 DEF Begins, Takes, Sends, Renames, Others
    <3>4. ASSUME NEW x \in Tabs, Settles(x)
          PROVE  Same(t)
      <4>1. x # t
        BY <2>2, <3>4 DEF Settles
      <4> QED BY <3>4, <4>1 DEF Settles, Others
    <3>5. ASSUME NEW x \in Tabs, LetsGo(x)
          PROVE  Same(t)
      <4>1. MadeAs(tab[t].change)
        BY <2>2 DEF Ordered, History, Recorded, InHand
      <4>2. tab[t].change.name[1] = s.name[1]
        BY <1>4, <2>2, <4>1, OriginOf DEF Ordered, History
      <4>3. x # t
        BY <1>4, <2>2, <3>5, <4>2, LetsGoAdrift
      <4> QED BY <3>5, <4>3 DEF LetsGo, Others
    <3>6. CASE Quiet \/ Elsewhere
      BY <3>1, <3>6 DEF Quiet, Elsewhere, Same
    <3> QED BY <3>1, <3>2, <3>3, <3>4, <3>5, <3>6 DEF Moves
  <2> QED BY <1>1, <1>4, <2>1, <2>2 DEF Once, QueuedOnce
<1>5. ASSUME c \in queue
      PROVE  (z.name = c.name /\ z.owner = c.owner) \/ Answers(c)'
  BY <1>3, <1>4, <1>5, MarksFrom
<1>6. ASSUME NEW t \in Tabs, NEW d \in queue, Renames(t), c = Follow(t, d)
      PROVE  c = d
  <2>1. server' = server /\ d.id = z.origin
    BY <1>6, Followed DEF Renames
  <2>2. d.kind = "create"
    BY <1>2, <2>1, OriginOf DEF Ordered, History
  <2>3. d.name # tab[t].change.name
    BY <1>6, <2>2, RenamesOthers
  <2> QED BY <1>6, <2>3 DEF Follow
<1>7. ASSUME NEW t \in Tabs, c \in Change, Records(t, c)
      PROVE  FALSE
  <2>1. server' = server
    BY <1>7 DEF Records
  <2>2. PICK d \in made : d.id = c.id
    BY <2>1 DEF Ordered, History, Served
  <2>3. /\ Cardinality(made) \in Nat /\ c.id = Cardinality(made) + 1
    BY <1>7, RecordsNew
  <2> QED BY <2>2, <2>3 DEF Ordered, History, Numbered
<1> QED BY <1>5, <1>6, <1>7, QueueGrows

LEMMA PickedOnceStays == ASSUME Ordered, Once, Moves PROVE PickedOnce'
<1> SUFFICES ASSUME NEW z \in server', NEW t \in Tabs, z.origin # 0,
                    z.name[1] \notin adrift', tab'[t].phase = "picked",
                    tab'[t].change.id = z.origin
             PROVE  z.name = tab'[t].change.name /\ z.owner = tab'[t].change.owner
  BY DEF PickedOnce
<1> DEFINE c == tab'[t].change
<1>1. z.name[1] \notin adrift
  BY MakesOrNot
<1>2. CASE Takes(t)
  <2>1. /\ c \in queue \cup tab[t].memory /\ server' = server /\ tab[t].phase = "looking"
    BY <1>2 DEF Takes
  <2>2. MadeAs(c)
    BY <2>1 DEF Ordered, History, Recorded
  <2>3. c.name[1] = z.name[1]
    BY <2>1, <2>2, OriginOf DEF Ordered, History
  <2>4. c \in queue
    BY <1>1, <2>1, <2>3 DEF Ordered, History, Recorded
  <2>5. ASSUME NEW x \in Tabs, tab[x].phase = "answered"
        PROVE  FALSE
    <3>1. x = t
      BY <2>1, <2>5, OnlyOne DEF Ordered, Delivery
    <3> QED BY <2>1, <2>5, <3>1
  <2> QED BY <1>1, <2>1, <2>4, <2>5 DEF Once, QueuedOnce
<1>3. ASSUME tab[t].phase = "picked", tab'[t].change = tab[t].change
      PROVE  z.name = c.name /\ z.owner = c.owner
  <2>1. ~ Sends(t)
    BY DEF Sends
  <2>2. PICK s \in server : s.name = z.name /\ s.owner = z.owner /\ s.origin = z.origin
    BY <1>3, <2>1, ServerWaits, ElsewhereLooks
  <2> QED BY <1>1, <1>3, <2>2 DEF Once, PickedOnce
<1>4. CASE Same(t)
  BY <1>3, <1>4 DEF Same
<1>5. ASSUME NEW x \in Tabs, Drops(x) \/ \E d \in Change : Records(x, d)
      PROVE  z.name = c.name /\ z.owner = c.owner
  BY <1>3, <1>5 DEF Drops, Records, Others, Same
<1>6. ASSUME NEW x \in Tabs, Begins(x) \/ LetsGo(x) \/ Sends(x) \/ Settles(x) \/ Renames(x)
      PROVE  Same(t)
  BY <1>6 DEF Begins, LetsGo, Sends, Settles, Renames, Others
<1>7. ASSUME NEW x \in Tabs, Takes(x)
      PROVE  Same(t) \/ Takes(t)
  BY <1>7 DEF Takes, Others
<1>8. CASE Quiet \/ Elsewhere
  BY <1>4, <1>8 DEF Quiet, Elsewhere, Same
<1> QED BY <1>2, <1>4, <1>5, <1>6, <1>7, <1>8 DEF Moves

LEMMA MadeOnceStays == ASSUME Ordered, Once, MadeOnce, Moves PROVE MadeOnce'
<1> SUFFICES ASSUME NEW s \in server', NEW z \in server', s.origin = z.origin,
                    s.origin # 0, s.name[1] \notin adrift'
             PROVE  s = z
  BY DEF MadeOnce
<1>1. Served' /\ Numbered'
  BY ServedStays, NumberedStays
<1>2. s.name[1] = z.name[1]
  BY <1>1 DEF Served, Numbered
<1>3. s.name[1] \notin adrift
  BY MakesOrNot
<1>4. ASSUME NEW t \in Tabs, NEW x, NEW y \in server, Creates(t, x), x.origin = s.origin,
             y.origin = s.origin, y.name[1] = s.name[1]
      PROVE  FALSE
  <2>1. /\ tab[t].phase = "picked" /\ tab[t].change.id = y.origin /\ cookie # NoOne
        /\ Sends(t) /\ Own(tab[t].change.name, cookie) = {}
        /\ x.name[1] = tab[t].change.name[1]
    BY <1>4 DEF Creates, Sends
  <2>2. y.name = tab[t].change.name /\ y.owner = tab[t].change.owner
    BY <1>3, <1>4, <2>1 DEF Once, PickedOnce
  <2>3. cookie = tab[t].change.owner
    BY <1>4, <2>1, <2>2, SendsHand
  <2> QED BY <2>1, <2>2, <2>3 DEF Own
<1>5. ASSUME NEW t \in Tabs, NEW x \in Mark, Creates(t, x)
      PROVE  s = z
  <2>1. server' = server \cup {x}
    BY <1>5 DEF Creates
  <2>2. CASE s \in server /\ z \in server
    BY <1>3, <2>2 DEF MadeOnce
  <2>3. CASE s = x /\ z \in server
    BY <1>2, <1>4, <1>5, <2>3
  <2>4. CASE s \in server /\ z = x
    BY <1>2, <1>4, <1>5, <2>4
  <2> QED BY <2>1, <2>2, <2>3, <2>4
<1>6. ASSUME NEW y \in server, NEW w \in Mark, Edits(y, w)
      PROVE  s = z
  BY <1>2, <1>3, <1>6 DEF Edits, Changed, MadeOnce
<1> QED BY <1>3, <1>5, <1>6, ServerMoves DEF Elsewhere, Touches, MadeOnce

-----------------------------------------------------------------------------
(* What is refused, and what comes back.                                    *)

LEMMA RefusedIsGoneStays ==
    ASSUME Ordered, CreatedFirst, RefusedIsGone, Moves PROVE RefusedIsGone'
<1> DEFINE Refused(t) == tab[t].phase = "answered" /\ tab[t].answer = "refused"
<1> SUFFICES ASSUME NEW t \in Tabs, Refused(t)', tab'[t].change.name[1] \notin adrift',
                    tab'[t].change.id \notin stale'
             PROVE  \E s \in server' : s.name = tab'[t].change.name /\ s.gone
  BY DEF RefusedIsGone
<1>1. tab'[t].change.name[1] \notin adrift /\ tab'[t].change.id \notin stale
  BY MakesOrNot
<1>2. ASSUME Refused(t), tab'[t].change = tab[t].change
      PROVE  \E s \in server' : s.name = tab'[t].change.name /\ s.gone
  <2>1. PICK s \in server : s.name = tab[t].change.name /\ s.gone
    BY <1>1, <1>2 DEF RefusedIsGone
  <2> QED BY <1>2, <2>1, MarksStay
<1>3. CASE Sends(t)
  <2>1. /\ tab'[t].change = tab[t].change /\ tab[t].phase = "picked"
        /\ Serves(tab[t].change, tab'[t].answer, tab'[t].name)
    BY <1>3 DEF Sends
  <2>2. /\ cookie # NoOne /\ tab[t].change.kind # "create" /\ server' = server
        /\ tab[t].change.kind = "patch" =>
              \A s \in Own(tab[t].change.name, cookie) : s.gone
        /\ tab[t].change.kind = "delete" => Own(tab[t].change.name, cookie) = {}
    BY <2>1 DEF Serves
  <2>3. cookie = tab[t].change.owner /\ tab[t].change \in Change
    BY <1>3, <2>1, <2>2, SendsHand
  <2>4. ArrivedAs(tab[t].change, tab[t].change.name)
    BY <1>1, <2>1, <2>2 DEF CreatedFirst, PickedFirst
  <2>5. PICK s \in server : s \in Own(tab[t].change.name, cookie)
    BY <2>3, <2>4 DEF ArrivedAs, Own
  <2>6. tab[t].change.kind = "patch"
    BY <2>2, <2>3, <2>5 DEF Change
  <2> QED BY <2>1, <2>2, <2>5, <2>6 DEF Own
<1>4. CASE Same(t)
  BY <1>2, <1>4 DEF Same
<1>5. ASSUME NEW x \in Tabs, Drops(x) \/ \E d \in Change : Records(x, d)
      PROVE  \E s \in server' : s.name = tab'[t].change.name /\ s.gone
  BY <1>2, <1>5 DEF Drops, Records, Others, Same
<1>6. ASSUME NEW x \in Tabs, Begins(x) \/ Takes(x) \/ LetsGo(x) \/ Settles(x) \/ Renames(x)
      PROVE  Same(t)
  BY <1>6 DEF Begins, Takes, LetsGo, Settles, Renames, Others
<1>7. ASSUME NEW x \in Tabs, Sends(x)
      PROVE  Same(t) \/ Sends(t)
  BY <1>7 DEF Sends, Others
<1>8. CASE Quiet \/ Elsewhere
  BY <1>4, <1>8 DEF Quiet, Elsewhere, Same
<1> QED BY <1>3, <1>4, <1>5, <1>6, <1>7, <1>8 DEF Moves

LEMMA OrderlyStays == ASSUME HasLocks, Orderly, [Next]_vars PROVE Orderly'
<1>1. Ordered' /\ Moves
  BY OrderedStays DEF Orderly
<1> QED BY <1>1, CreatedFirstStays, ForwardStays, QueuedOnceStays, PickedOnceStays,
           MadeOnceStays, RefusedIsGoneStays DEF Orderly, Once

LEMMA InitOrderly == Init => Orderly
<1> SUFFICES ASSUME Init PROVE Orderly
  OBVIOUS
<1>1. /\ Typed /\ queue = {} /\ made = {}
      /\ \A t \in Tabs : /\ tab[t].phase = "idle" /\ tab[t].name = NoOne
                         /\ tab[t].memory = {}
      /\ \A s \in server : s.look = 0 /\ s.origin = 0 /\ \A z \in server : z = s
  BY InitTyped DEF Init, FreshTab, MadeEarlier
<1>2. Cardinality(made) = 0
  BY <1>1, FS_EmptySet
<1>3. History
  BY <1>1, <1>2 DEF History, Numbered, OneOwner, Recorded, Served, InHand
<1>4. Delivery
  BY <1>1 DEF Delivery, OneDelivers, Phases, InOrder
<1>5. CreatedFirst /\ Forward /\ Once /\ MadeOnce /\ RefusedIsGone
  BY <1>1 DEF CreatedFirst, QueuedFirst, PickedFirst, AnsweredFirst, Forward, QueuedLater,
              PickedLater, GivenLater, Once, QueuedOnce, PickedOnce, MadeOnce, RefusedIsGone
<1> QED BY <1>1, <1>3, <1>4, <1>5 DEF Orderly, Ordered

LEMMA AlwaysOrderly == ASSUME HasLocks PROVE Spec => []Orderly
<1>1. Orderly /\ [Next]_vars => Orderly'
  BY OrderlyStays
<1> QED BY <1>1, InitOrderly, PTL DEF Spec

\* A mark made on this device becomes one mark on the server, however often its
\* making is sent, whatever names are taken, and though it is edited elsewhere
\* meanwhile, where the browser has locks.
THEOREM MarksAreMadeOnce == ASSUME HasLocks PROVE Spec => []MadeOnce
<1>1. Orderly => MadeOnce
  BY DEF Orderly
<1> QED BY <1>1, AlwaysOrderly, PTL

\* A change recorded under a name the account's mark has, or will have once what
\* is on its way arrives, is refused only because the mark was removed, where the
\* browser has locks.
THEOREM RefusalsAreFinal == ASSUME HasLocks PROVE Spec => []RefusedIsGone
<1>1. Orderly => RefusedIsGone
  BY DEF Orderly
<1> QED BY <1>1, AlwaysOrderly, PTL

\* The changes of a mark reach the server in the order they were made, where the
\* browser has locks.
THEOREM ChangesArriveInOrder == ASSUME HasLocks PROVE Spec => NeverBackward
<1> DEFINE Onward == \A s \in server, z \in server' :
              s.name = z.name /\ s.name[1] \notin adrift' /\ z.look # 0
                  => z.look >= s.look
<1>1. ASSUME Orderly, Moves PROVE Onward
  <2> SUFFICES ASSUME NEW s \in server, NEW z \in server', s.name = z.name,
                      s.name[1] \notin adrift', z.look # 0
               PROVE  z.look >= s.look
    OBVIOUS
  <2>1. Ordered /\ Forward /\ s.look \in Nat
    BY <1>1, LookType DEF Orderly
  <2>2. \A y \in server : y.name = z.name => y = s
    BY <2>1 DEF Ordered, History, Served
  <2>3. ASSUME z \in server \/ \E y \in server : y.name = z.name /\ z.look \in {0, y.look}
        PROVE  z.look >= s.look
    BY <2>1, <2>2, <2>3
  <2>4. ASSUME NEW t \in Tabs, Creates(t, z)
        PROVE  FALSE
    BY <2>4 DEF Creates
  <2>5. ASSUME NEW t \in Tabs, NEW y \in server, Touches(t, y, z), y.name = z.name,
               z.look = tab[t].change.id
        PROVE  z.look >= s.look
    <3>1. y = s /\ s.look \in Nat /\ tab[t].change.id \in Nat /\ s.look <= tab[t].change.id
      BY <2>1, <2>2, <2>5, TouchesOwn
    <3> QED BY <2>5, <3>1
  <2> QED BY <1>1, <2>3, <2>4, <2>5, MarksFrom
<1>2. Orderly /\ [Next]_vars => [Onward]_vars
  <2> SUFFICES ASSUME Orderly, [Next]_vars PROVE Onward
    OBVIOUS
  <2>1. Moves
    BY OrderedStays, StepTyped DEF Orderly, Ordered
  <2> QED BY <1>1, <2>1
<1> QED BY <1>2, AlwaysOrderly, PTL DEF Spec, NeverBackward
=============================================================================
