-------------------------- MODULE Sittings_proofs --------------------------
(***************************************************************************)
(* The diary of a key is its history: the sittings are what the times read *)
(* fall into when they are split at every silence longer than the gap,     *)
(* whatever checkpoints arrive in whatever order and wherever a backfill   *)
(* is cut off.                                                             *)
(*                                                                         *)
(* The argument is about one fold: it removes the sittings the checkpoint  *)
(* touches and puts one in their place that reaches no further than they   *)
(* and the checkpoint did, and counts what they counted and one more; the  *)
(* neighbours left are the next ones over.  A backfill folds likewise into *)
(* a draft, of a history that holds what it has come to: the Tally.        *)
(*                                                                         *)
(* What a sitting is credited with is measured along: a step is known of   *)
(* as far as it is counted, and what is known of two stretches one after   *)
(* the other is known of both.                                             *)
(***************************************************************************)
EXTENDS MCPeople, FiniteSetTheorems, WellFoundedInduction, TLAPS

USE DiaryAssumption DEF DiaryParameters, Diary!Time

\* A diary a fold may start from.
Book(d) == d \subseteq Diary!Sitting /\ Diary!Apart(d)

-----------------------------------------------------------------------------
(* The parts of a fold.                                                    *)

LEMMA OneMoreAt ==
    ASSUME NEW f \in [Diary!Time -> Nat], NEW x \in Diary!Time
    PROVE  [f EXCEPT ![x] = @ + 1] \in [Diary!Time -> Nat]
<1> HIDE DEF Diary!Time
<1>1. f[x] + 1 \in Nat
  OBVIOUS
<1> QED BY <1>1

LEMMA CountedType == \A took \in Nat : Diary!Counted(took) \in Nat
BY DEF Diary!Counted

LEMMA ForwardType ==
    ASSUME NEW from \in Positions, NEW to \in Positions, NEW took \in Nat
    PROVE  Diary!Forward(from, to, took) \in Nat
BY DEF Diary!Forward

LEMMA RereadType ==
    ASSUME NEW from \in Positions, NEW to \in Positions
    PROVE  Diary!Reread(from, to) \in Nat /\ Diary!Rereads(from, to) \in Nat
BY DEF Diary!Reread, Diary!Rereads

LEMMA PlusType ==
    ASSUME NEW a \in Nat \cup {Unmeasured}, NEW b \in Nat \cup {Unmeasured}
    PROVE  Diary!Plus(a, b) \in Nat \cup {Unmeasured}
BY DEF Diary!Plus

LEMMA WithStepType ==
    ASSUME NEW s \in Diary!Sitting, NEW from \in Positions, NEW to \in Positions, NEW took \in Nat
    PROVE  Diary!WithStep(s, from, to, took) \in Diary!Sitting
<1> DEFINE advanced == s.advanced + Diary!Forward(from, to, took)
           active == Diary!Plus(s.active, Diary!Counted(took))
           rereads == s.rereads + Diary!Rereads(from, to)
           back == s.back + Diary!Reread(from, to)
<1>1. advanced \in Nat
  <2>1. Diary!Forward(from, to, took) \in Nat
    BY ForwardType
  <2>2. s.advanced \in Nat
    BY DEF Diary!Sitting
  <2> QED BY <2>1, <2>2
<1>2. active \in Nat \cup {Unmeasured}
  <2>1. Diary!Counted(took) \in Nat
    BY CountedType
  <2>2. s.active \in Nat \cup {Unmeasured}
    BY DEF Diary!Sitting
  <2> QED BY <2>1, <2>2, PlusType
<1>3. rereads \in Nat /\ back \in Nat
  BY RereadType DEF Diary!Sitting
<1>4. Diary!WithStep(s, from, to, took) =
        [s EXCEPT !.events = s.events + 1, !.advanced = advanced, !.active = active,
                  !.rereads = rereads, !.back = back]
  BY DEF Diary!WithStep
<1>5. s.events + 1 \in Nat
  BY DEF Diary!Sitting
<1> DEFINE events == s.events + 1
           new == [s EXCEPT !.events = events, !.advanced = advanced, !.active = active,
                            !.rereads = rereads, !.back = back]
<1> HIDE DEF events, advanced, active, rereads, back
<1>6. new \in Diary!Sitting
  BY <1>1, <1>2, <1>3, <1>5 DEF Diary!Sitting, events
<1> QED BY <1>4, <1>6 DEF events

LEMMA ExtendedType ==
    ASSUME NEW p \in Diary!Sitting, NEW at \in Diary!Time, NEW pct \in Positions, p.end <= at
    PROVE  /\ Diary!Extended(p, at, pct) \in Diary!Sitting
           /\ Diary!Extended(p, at, pct).start = p.start
           /\ Diary!Extended(p, at, pct).end = at
<1>1. /\ p.last \in Positions
      /\ at - p.end \in Nat
  BY DEF Diary!Sitting
<1>2. Diary!WithStep(p, p.last, pct, at - p.end) \in Diary!Sitting
  BY <1>1, WithStepType
<1>3. Diary!WithStep(p, p.last, pct, at - p.end).start = p.start
  BY DEF Diary!WithStep, Diary!Sitting
<1>4. PICK s \in Diary!Sitting : s = Diary!WithStep(p, p.last, pct, at - p.end)
  BY <1>2, Zenon
<1>5. Diary!Extended(p, at, pct) = [s EXCEPT !.end = at, !.last = pct]
  BY <1>4 DEF Diary!Extended
<1> QED BY <1>3, <1>4, <1>5 DEF Diary!Sitting

LEMMA ExtendedBackType ==
    ASSUME NEW n \in Diary!Sitting, NEW at \in Diary!Time, NEW pct \in Positions, at <= n.start
    PROVE  /\ Diary!ExtendedBack(n, at, pct) \in Diary!Sitting
           /\ Diary!ExtendedBack(n, at, pct).start = at
           /\ Diary!ExtendedBack(n, at, pct).end = n.end
<1>1. /\ n.first \in Positions
      /\ n.start - at \in Nat
  BY DEF Diary!Sitting
<1>2. Diary!WithStep(n, pct, n.first, n.start - at) \in Diary!Sitting
  BY <1>1, WithStepType
<1>3. Diary!WithStep(n, pct, n.first, n.start - at).end = n.end
  BY DEF Diary!WithStep, Diary!Sitting
<1>4. PICK s \in Diary!Sitting : s = Diary!WithStep(n, pct, n.first, n.start - at)
  BY <1>2, Zenon
<1>5. Diary!ExtendedBack(n, at, pct) = [s EXCEPT !.start = at, !.first = pct]
  BY <1>4 DEF Diary!ExtendedBack
<1> QED BY <1>3, <1>4, <1>5 DEF Diary!Sitting

LEMMA MergedType ==
    ASSUME NEW p \in Diary!Sitting, NEW n \in Diary!Sitting,
           NEW at \in Diary!Time, NEW pct \in Positions,
           p.end <= at, at <= n.start
    PROVE  /\ Diary!Merged(p, n, at, pct) \in Diary!Sitting
           /\ Diary!Merged(p, n, at, pct).start = p.start
           /\ Diary!Merged(p, n, at, pct).end = n.end
<1>1. Diary!Extended(p, at, pct) \in Diary!Sitting /\ Diary!ExtendedBack(n, at, pct) \in Diary!Sitting
  BY ExtendedType, ExtendedBackType
<1> DEFINE e == Diary!Extended(p, at, pct)
           b == Diary!ExtendedBack(n, at, pct)
<1>2. Diary!Plus(e.active, b.active) \in Nat \cup {Unmeasured}
  BY <1>1, PlusType DEF Diary!Sitting
<1>3. e.advanced + b.advanced \in Nat /\ e.rereads + b.rereads \in Nat
      /\ e.back + b.back \in Nat
  BY <1>1 DEF Diary!Sitting
<1>4. p.events + n.events + 1 \in Nat
  BY DEF Diary!Sitting
<1> HIDE DEF e, b
<1>5. Diary!Merged(p, n, at, pct) =
        [start |-> p.start, end |-> n.end, first |-> p.first, last |-> n.last,
         events |-> p.events + n.events + 1, advanced |-> e.advanced + b.advanced,
         active |-> Diary!Plus(e.active, b.active), rereads |-> e.rereads + b.rereads,
         back |-> e.back + b.back]
  BY DEF Diary!Merged, e, b
<1> QED BY <1>2, <1>3, <1>4, <1>5 DEF Diary!Sitting

-----------------------------------------------------------------------------
(* One fold.                                                               *)

LEMMA NeighboursType ==
    ASSUME NEW d, Book(d), NEW at \in Diary!Time
    PROVE  /\ \A p \in Diary!Previous(d, at) : p \in d /\ p \in Diary!Sitting /\ p.start <= at
           /\ \A n \in Diary!Following(d, at) : n \in d /\ n \in Diary!Sitting /\ at < n.start
BY DEF Book, Diary!Previous, Diary!Following

\* Nothing else in the diary lies between the neighbours of a checkpoint.
LEMMA NeighboursAreNext ==
    ASSUME NEW d, Book(d), NEW at \in Diary!Time, NEW r \in d
    PROVE  /\ \A p \in Diary!Previous(d, at) :
                 r = p \/ r.end + Gap < p.start \/ (p.end + Gap < r.start /\ at < r.start)
           /\ \A n \in Diary!Following(d, at) :
                 r = n \/ n.end + Gap < r.start \/ (r.end + Gap < n.start /\ r.start <= at)
<1>1. \A s \in d : s.start \in Int /\ s.end \in Int /\ s.start <= s.end
  BY DEF Book, Diary!Sitting, Diary!Apart
<1>2. \A s \in d : r = s \/ s.end + Gap < r.start \/ r.end + Gap < s.start
  BY DEF Book, Diary!Apart
<1>3. \A p \in Diary!Previous(d, at) : p \in d /\ (r.start <= at => r.start <= p.start)
  BY DEF Diary!Previous
<1>4. \A n \in Diary!Following(d, at) : n \in d /\ (r.start > at => r.start >= n.start)
  BY DEF Diary!Following
<1> QED BY <1>1, <1>2, <1>3, <1>4

\* Naturals have a least one.
LEMMA LeastOf ==
    ASSUME NEW S, S # {}, S \subseteq Nat
    PROVE  \E t \in S : \A q \in S : t <= q
<1>1. PICK t \in S : \A q \in S : ~ <<q, t>> \in OpToRel(<, Nat)
  BY NatLessThanWellFounded, WFMin, Zenon
<1>2. ASSUME NEW q \in S
      PROVE  ~ q < t
  <2>1. q < t => <<q, t>> \in OpToRel(<, Nat)
    BY DEF OpToRel
  <2> QED BY <1>1, <2>1, Zenon
<1> QED BY <1>2

\* A checkpoint that nothing follows within the gap is more than the gap from
\* all that follows; one that joins nothing, from all that came before.
LEMMA NoneFollows ==
    ASSUME NEW d, Book(d), NEW at \in Diary!Time, Diary!JoinedBy(d, at) = {}
    PROVE  \A r \in d : r.start > at => at + Gap < r.start
<1> SUFFICES ASSUME NEW r \in d, r.start > at
             PROVE  at + Gap < r.start
  OBVIOUS
<1> DEFINE starts == {t \in Nat : \E s \in d : s.start = t /\ t > at}
<1>1. \A s \in d : s.start \in Nat
  BY DEF Book, Diary!Sitting
<1>2. starts # {} /\ starts \subseteq Nat
  BY <1>1
<1>3. PICK t \in starts : \A q \in starts : t <= q
  BY <1>2, LeastOf
<1>4. PICK s \in d : s.start = t /\ t > at
  OBVIOUS
<1>5. \A q \in d : q.start > at => q.start >= s.start
  BY <1>1, <1>3, <1>4
<1>6. s \in Diary!Following(d, at)
  BY <1>4, <1>5 DEF Diary!Following
<1>7. ~ s.start - at <= Gap
  BY <1>6 DEF Diary!JoinedBy
<1>8. r.start >= s.start /\ r.start \in Nat /\ s.start \in Nat /\ at \in Int
  BY <1>1, <1>4, <1>5
<1> HIDE DEF starts
<1> QED BY <1>7, <1>8

LEMMA NoneBefore ==
    ASSUME NEW d, Book(d), NEW at \in Diary!Time, Diary!Joining(d, at) = {}
    PROVE  \A r \in d : r.start <= at => r.end + Gap < at
<1> SUFFICES ASSUME NEW r \in d, r.start <= at
             PROVE  r.end + Gap < at
  OBVIOUS
<1> DEFINE before == {t \in Nat : \E s \in d : at - s.start = t}
<1>1. \A s \in d : s.start \in Nat /\ s.end \in Nat /\ s.start <= s.end
  BY DEF Book, Diary!Sitting, Diary!Apart
<1>2. before # {} /\ before \subseteq Nat
  <2>1. at - r.start \in Nat
    BY <1>1
  <2> QED BY <2>1
<1>3. PICK t \in before : \A q \in before : t <= q
  BY <1>2, LeastOf
<1>4. PICK s \in d : at - s.start = t
  OBVIOUS
<1>5. s.start <= at /\ \A q \in d : q.start <= at => q.start <= s.start
  <2> SUFFICES ASSUME NEW q \in d, q.start <= at
               PROVE  s.start <= at /\ q.start <= s.start
    BY <1>1, <1>4
  <2>1. at - q.start \in Nat
    BY <1>1
  <2>2. at - q.start \in before
    BY <2>1
  <2> QED BY <1>1, <1>3, <1>4, <2>2
<1>6. s \in Diary!Previous(d, at)
  BY <1>5 DEF Diary!Previous
<1>7. at - s.end > Gap
  BY <1>1, <1>6 DEF Diary!Joining
<1>8. s = r \/ r.end + Gap < s.start
  BY <1>1, <1>5 DEF Book, Diary!Apart
<1> QED BY <1>1, <1>5, <1>7, <1>8

\* new is no part of any of d, and too far from each to be one with it.
Clear(d, new) == \A r \in d : r.end + Gap < new.start \/ new.end + Gap < r.start

\* A diary stays apart when sittings are replaced by one that keeps clear of the rest.
LEMMA ReplacedApart ==
    \A d, out, new :
        Book(d) /\ new \in Diary!Sitting /\ new.start <= new.end /\ Clear(d \ out, new)
        => Book((d \ out) \cup {new})
<1> SUFFICES ASSUME NEW d, Book(d), NEW out, NEW new \in Diary!Sitting, new.start <= new.end,
                    Clear(d \ out, new)
             PROVE  Book((d \ out) \cup {new})
  BY Zenon
<1>1. (d \ out) \cup {new} \subseteq Diary!Sitting
  BY DEF Book
<1>2. ASSUME NEW s \in (d \ out) \cup {new}, NEW r \in (d \ out) \cup {new}
      PROVE  s.start <= s.end /\ (s = r \/ s.end + Gap < r.start \/ r.end + Gap < s.start)
  BY DEF Book, Diary!Apart, Clear
<1> QED BY <1>1, <1>2 DEF Book, Diary!Apart

\* A fold takes the sittings in out from the diary and puts new in their place.
Replaced(d, at, pct, out, new) ==
    /\ Diary!Folded(d, at, pct) = (d \ out) \cup {new}
    /\ out \subseteq d /\ new \in Diary!Sitting /\ new.start <= new.end
    /\ Clear(d \ out, new)

\* The five ways a checkpoint is folded in.
LEMMA FoldForms ==
    ASSUME NEW d, Book(d), NEW at \in Diary!Time, NEW pct \in Positions
    PROVE  \/ \E p \in d : /\ Replaced(d, at, pct, {p}, Diary!Touched(p))
                         /\ p.start <= at /\ at < p.end
           \/ \E p \in d, n \in d : /\ Replaced(d, at, pct, {p, n}, Diary!Merged(p, n, at, pct))
                                  /\ p.end <= at /\ at - p.end <= Gap
                                  /\ at < n.start /\ n.start - at <= Gap
           \/ \E p \in d : /\ Replaced(d, at, pct, {p}, Diary!Extended(p, at, pct))
                         /\ p.end <= at /\ at - p.end <= Gap
           \/ \E n \in d : /\ Replaced(d, at, pct, {n}, Diary!ExtendedBack(n, at, pct))
                         /\ at < n.start /\ n.start - at <= Gap
           \/ Replaced(d, at, pct, {}, Diary!Fresh(at, pct))
<1> DEFINE p == CHOOSE s \in Diary!Previous(d, at) : TRUE
           n == CHOOSE s \in Diary!Following(d, at) : TRUE
<1> HIDE DEF p, n
<1>1. /\ Diary!Covering(d, at) # {} => p \in Diary!Covering(d, at)
      /\ Diary!Joining(d, at) # {} => p \in Diary!Joining(d, at)
      /\ Diary!JoinedBy(d, at) # {} => n \in Diary!JoinedBy(d, at)
  <2>1. \A s \in Diary!Previous(d, at), r \in Diary!Previous(d, at) : s = r
    <3>1. \A s \in d : s.start \in Int /\ s.end \in Int /\ s.start <= s.end
      BY DEF Book, Diary!Sitting, Diary!Apart
    <3> QED BY <3>1, NeighboursAreNext DEF Diary!Previous
  <2>2. \A s \in Diary!Following(d, at), r \in Diary!Following(d, at) : s = r
    <3>1. \A s \in d : s.start \in Int /\ s.end \in Int /\ s.start <= s.end
      BY DEF Book, Diary!Sitting, Diary!Apart
    <3> QED BY <3>1, NeighboursAreNext DEF Diary!Following
  <2>3. Diary!Previous(d, at) # {} => p \in Diary!Previous(d, at)
    BY DEF p
  <2>4. Diary!Following(d, at) # {} => n \in Diary!Following(d, at)
    BY DEF n
  <2> QED BY <2>1, <2>2, <2>3, <2>4 DEF Diary!Covering, Diary!Joining, Diary!JoinedBy
<1>2. /\ \A s \in d : /\ s \in Diary!Sitting /\ s.start \in Diary!Time
                     /\ s.end \in Diary!Time /\ s.start <= s.end
      /\ at \in Int /\ Gap \in Nat
  BY DEF Book, Diary!Sitting, Diary!Apart
<1>3. CASE Diary!Covering(d, at) # {}
  <2> DEFINE new == Diary!Touched(p)
  <2>1. Diary!Folded(d, at, pct) = (d \ {p}) \cup {new}
    <3>1. \A s \in Diary!Covering(d, at) : at - s.end <= Gap
      BY <1>2 DEF Diary!Covering, Diary!Previous
    <3>2. Diary!Joining(d, at) # {}
      BY <1>3, <3>1 DEF Diary!Covering, Diary!Joining
    <3> QED BY <1>3, <3>2, Zenon DEF Diary!Folded, p
  <2>2. p \in d /\ p.start <= at /\ at < p.end
    BY <1>1, <1>3 DEF Diary!Covering, Diary!Previous
  <2>3. new \in Diary!Sitting /\ new.start = p.start /\ new.end = p.end
    BY <2>2, <1>2 DEF Diary!Touched, Diary!Sitting
  <2> HIDE DEF new
  <2>4. Clear(d \ {p}, new)
    BY <2>2, <2>3 DEF Book, Diary!Apart, Clear
  <2>5. new.start <= new.end
    BY <1>2, <2>2, <2>3
  <2>6. Replaced(d, at, pct, {p}, new)
    BY <2>1, <2>2, <2>3, <2>4, <2>5 DEF Replaced
  <2> QED BY <2>2, <2>6 DEF new
<1>4. CASE Diary!Covering(d, at) = {} /\ Diary!Joining(d, at) # {}
  <2>1. p \in Diary!Previous(d, at) /\ p \in d /\ p.start <= at /\ p.end <= at /\ at - p.end <= Gap
    BY <1>1, <1>2, <1>4 DEF Diary!Covering, Diary!Joining, Diary!Previous
  <2>2. CASE Diary!JoinedBy(d, at) # {}
    <3> DEFINE new == Diary!Merged(p, n, at, pct)
    <3>1. Diary!Folded(d, at, pct) = (d \ {p, n}) \cup {new}
      BY <1>4, <2>2, Zenon DEF Diary!Folded, p, n
    <3>2. n \in Diary!Following(d, at) /\ n \in d /\ at < n.start /\ n.start - at <= Gap
      BY <1>1, <2>2 DEF Diary!JoinedBy, Diary!Following
    <3>3. new \in Diary!Sitting /\ new.start = p.start /\ new.end = n.end
      BY <1>2, <2>1, <3>2, MergedType
    <3> HIDE DEF new
    <3>4. Clear(d \ {p, n}, new)
      BY <1>2, <2>1, <3>2, <3>3, NeighboursAreNext DEF Clear
    <3>5. new.start <= new.end
      BY <1>2, <2>1, <3>2, <3>3
    <3>6. Replaced(d, at, pct, {p, n}, new)
      BY <2>1, <3>1, <3>2, <3>3, <3>4, <3>5 DEF Replaced
    <3> QED BY <2>1, <3>2, <3>6 DEF new
  <2>3. CASE Diary!JoinedBy(d, at) = {}
    <3> DEFINE new == Diary!Extended(p, at, pct)
    <3>1. Diary!Folded(d, at, pct) = (d \ {p}) \cup {new}
      BY <1>4, <2>3, Zenon DEF Diary!Folded, p
    <3>2. new \in Diary!Sitting /\ new.start = p.start /\ new.end = at
      BY <1>2, <2>1, ExtendedType
    <3> HIDE DEF new
    <3>3. \A r \in d : r.start > at => at + Gap < r.start
      BY <2>3, NoneFollows
    <3>4. Clear(d \ {p}, new)
      BY <1>2, <2>1, <3>2, <3>3, NeighboursAreNext DEF Clear
    <3>5. new.start <= new.end
      BY <1>2, <2>1, <3>2
    <3>6. Replaced(d, at, pct, {p}, new)
      BY <2>1, <3>1, <3>2, <3>4, <3>5 DEF Replaced
    <3> QED BY <2>1, <3>6 DEF new
  <2> QED BY <2>2, <2>3
<1>5. CASE Diary!Covering(d, at) = {} /\ Diary!Joining(d, at) = {}
  <2>1. \A r \in d : r.start <= at => r.end + Gap < at
    BY <1>2, <1>5, NoneBefore
  <2>2. CASE Diary!JoinedBy(d, at) # {}
    <3> DEFINE new == Diary!ExtendedBack(n, at, pct)
    <3>1. Diary!Folded(d, at, pct) = (d \ {n}) \cup {new}
      BY <1>5, <2>2, Zenon DEF Diary!Folded, n
    <3>2. n \in Diary!Following(d, at) /\ n \in d /\ at < n.start /\ n.start - at <= Gap
      BY <1>1, <2>2 DEF Diary!JoinedBy, Diary!Following
    <3>3. new \in Diary!Sitting /\ new.start = at /\ new.end = n.end
      BY <1>2, <3>2, ExtendedBackType
    <3> HIDE DEF new
    <3>4. Clear(d \ {n}, new)
      BY <1>2, <2>1, <3>2, <3>3, NeighboursAreNext DEF Clear
    <3>5. new.start <= new.end
      BY <1>2, <3>2, <3>3
    <3>6. Replaced(d, at, pct, {n}, new)
      BY <3>1, <3>2, <3>3, <3>4, <3>5 DEF Replaced
    <3> QED BY <3>2, <3>6 DEF new
  <2>3. CASE Diary!JoinedBy(d, at) = {}
    <3> DEFINE new == Diary!Fresh(at, pct)
               none == {}
    <3>1. Diary!Folded(d, at, pct) = d \cup {new} /\ d \ none = d
      BY <1>5, <2>3, Zenon DEF Diary!Folded
    <3>2. new \in Diary!Sitting /\ new.start = at /\ new.end = at
      BY DEF Diary!Fresh, Diary!Sitting
    <3> HIDE DEF new, none
    <3>3. \A r \in d : r.start > at => at + Gap < r.start
      BY <2>3, NoneFollows
    <3>4. Clear(d \ none, new)
      BY <1>2, <2>1, <3>1, <3>2, <3>3 DEF Clear
    <3>5. new.start <= new.end
      BY <1>2, <3>2
    <3>6. Replaced(d, at, pct, none, new)
      <4>1. (d \ none) \cup {new} = d \cup {new} /\ none \subseteq d
        BY <3>1 DEF none
      <4> QED BY <3>1, <3>2, <3>4, <3>5, <4>1 DEF Replaced
    <3> QED BY <3>6 DEF new, none
  <2> QED BY <2>2, <2>3
<1> QED BY <1>3, <1>4, <1>5

LEMMA FoldKeepsDiary ==
    ASSUME NEW d, Book(d), NEW at \in Diary!Time, NEW pct \in Positions
    PROVE  Book(Diary!Folded(d, at, pct))
<1>1. PICK out, new : Replaced(d, at, pct, out, new)
  BY FoldForms, Zenon
<1>2. /\ Diary!Folded(d, at, pct) = (d \ out) \cup {new} /\ new \in Diary!Sitting
      /\ new.start <= new.end /\ Clear(d \ out, new)
  BY <1>1, Zenon DEF Replaced
<1>3. Book((d \ out) \cup {new})
  BY <1>2, ReplacedApart, Zenon
<1> QED BY <1>2, <1>3

-----------------------------------------------------------------------------
(* The invariant.                                                          *)

\* Both diaries are ones a fold may start from: the kept one, and the one the
\* backfill has in hand.
IInv == Diary!TypeOK /\ Diary!Apart(sittings) /\ Diary!Apart(draft)

LEMMA DiariesAreDiaries == IInv => Book(sittings) /\ Book(draft)
BY DEF IInv, Diary!TypeOK, Book

LEMMA PartsAreApart == \A d, e : Diary!Apart(d) /\ e \subseteq d => Diary!Apart(e)
BY DEF Diary!Apart

LEMMA InitOK == Diary!Init => IInv
<1> SUFFICES ASSUME Diary!Init
             PROVE  IInv
  OBVIOUS
<1>1. Diary!Legacy \in Diary!Sitting /\ Diary!Legacy.start = 0 /\ Diary!Legacy.end = 0
  BY DEF Diary!Legacy, Diary!Sitting
<1>2. sittings = {Diary!Legacy} /\ draft = {}
  BY DEF Diary!Init
<1>3. Diary!Apart(sittings) /\ Diary!Apart(draft)
  BY <1>1, <1>2 DEF Diary!Apart
<1>4. read \in [Diary!Time -> Nat]
  BY DEF Diary!Init
<1>5. spent \in [events : 0..MaxEvents, resets : 0..MaxDiaryResets,
                starts : 0..MaxStarts, clears : 0..MaxClears]
  BY DEF Diary!Init
<1>6. now \in 0..MaxTime /\ phase \in {"serving", "starting", "deriving"}
  BY DEF Diary!Init
<1>7. \A s \in sittings \cup draft : s \in Diary!Sitting
  BY <1>1, <1>2
<1>8. rows \subseteq Diary!Row /\ todo \subseteq Diary!Row /\ erased \subseteq Diary!Time
      /\ behind \in BOOLEAN /\ missed \in BOOLEAN
  BY DEF Diary!Init
<1> QED BY <1>3, <1>4, <1>5, <1>6, <1>7, <1>8 DEF IInv, Diary!TypeOK

LEMMA SpendType ==
    ASSUME Diary!TypeOK, NEW what \in {"events", "resets", "starts", "clears"}, Diary!Spend(what),
           what = "events" => spent.events < MaxEvents,
           what = "resets" => spent.resets < MaxDiaryResets,
           what = "starts" => spent.starts < MaxStarts,
           what = "clears" => spent.clears < MaxClears
    PROVE  spent' \in [events : 0..MaxEvents, resets : 0..MaxDiaryResets,
                       starts : 0..MaxStarts, clears : 0..MaxClears]
<1>1. spent' = [spent EXCEPT ![what] = @ + 1]
  BY DEF Diary!Spend
<1>2. spent \in [events : 0..MaxEvents, resets : 0..MaxDiaryResets,
                starts : 0..MaxStarts, clears : 0..MaxClears]
  BY DEF Diary!TypeOK
<1>3. CASE what = "events"
  BY <1>1, <1>2, <1>3
<1>4. CASE what = "resets"
  BY <1>1, <1>2, <1>4
<1>5. CASE what = "starts"
  BY <1>1, <1>2, <1>5
<1>6. CASE what = "clears"
  BY <1>1, <1>2, <1>6
<1> QED BY <1>3, <1>4, <1>5, <1>6

LEMMA CheckpointKeeps ==
    ASSUME IInv, NEW at \in Diary!Time, NEW pct \in Positions, Diary!Checkpoint(at, pct)
    PROVE  IInv'
<1>1. Book(sittings')
  BY DiariesAreDiaries, FoldKeepsDiary DEF Diary!Checkpoint
<1>2. [id |-> spent.events + 1, at |-> at, received |-> now, pct |-> pct] \in Diary!Row
  <2>1. spent \in [events : 0..MaxEvents, resets : 0..MaxDiaryResets,
                  starts : 0..MaxStarts, clears : 0..MaxClears]
    BY DEF IInv, Diary!TypeOK
  <2>2. spent.events < MaxEvents
    BY DEF Diary!Checkpoint
  <2>3. spent.events + 1 \in 1..MaxEvents
    BY <2>1, <2>2
  <2>4. now \in 0..MaxTime
    BY DEF IInv, Diary!TypeOK
  <2> QED BY <2>3, <2>4 DEF Diary!Row
<1>3. rows' \subseteq Diary!Row
  BY <1>2 DEF IInv, Diary!TypeOK, Diary!Checkpoint
<1>4. spent' \in [events : 0..MaxEvents, resets : 0..MaxDiaryResets,
                  starts : 0..MaxStarts, clears : 0..MaxClears]
  <2>1. Diary!Spend("events") /\ spent.events < MaxEvents
    BY DEF Diary!Checkpoint
  <2>2. Diary!TypeOK
    BY DEF IInv
  <2> QED BY <2>1, <2>2, SpendType
<1>5. read' \in [Diary!Time -> Nat]
  <2>1. read \in [Diary!Time -> Nat]
    BY DEF IInv, Diary!TypeOK
  <2>2. read' = [read EXCEPT ![at] = @ + 1]
    BY DEF Diary!Checkpoint
  <2> QED BY <2>1, <2>2, OneMoreAt
<1>6. missed' \in BOOLEAN
  BY DEF IInv, Diary!TypeOK, Diary!Checkpoint
<1> DEFINE spendings == [events : 0..MaxEvents, resets : 0..MaxDiaryResets,
                         starts : 0..MaxStarts, clears : 0..MaxClears]
<1> HIDE DEF spendings
<1>8. spent' \in spendings
  BY <1>4 DEF spendings
<1>9. /\ now \in 0..MaxTime /\ erased \subseteq Diary!Time /\ behind \in BOOLEAN
      /\ phase \in {"serving", "starting", "deriving"} /\ todo \subseteq Diary!Row
      /\ \A s \in sittings \cup draft : s \in Diary!Sitting
  BY DEF IInv, Diary!TypeOK
<1>10. UNCHANGED <<now, phase, draft, todo, erased, behind>>
  BY DEF Diary!Checkpoint
<1>11. \A s \in sittings' \cup draft' : s \in Diary!Sitting
  BY <1>1, <1>9, <1>10 DEF Book
<1>7. Diary!TypeOK'
  BY <1>3, <1>5, <1>6, <1>8, <1>9, <1>10, <1>11 DEF Diary!TypeOK, spendings
<1> QED BY <1>1, <1>7 DEF IInv, Diary!Checkpoint, Book

LEMMA StepKeeps == IInv /\ [Diary!Next]_(Diary!vars) => IInv'
<1> SUFFICES ASSUME IInv, [Diary!Next]_(Diary!vars)
             PROVE  IInv'
  OBVIOUS
<1>0. /\ Book(sittings) /\ Book(draft)
      /\ Diary!TypeOK /\ Diary!Apart(sittings) /\ Diary!Apart(draft)
  BY DiariesAreDiaries DEF IInv
<1>1. CASE \E at \in Diary!Time, pct \in Positions : Diary!Checkpoint(at, pct)
  BY <1>1, CheckpointKeeps
<1>2. CASE Diary!Reset
  <2>1. spent' \in [events : 0..MaxEvents, resets : 0..MaxDiaryResets,
                    starts : 0..MaxStarts, clears : 0..MaxClears]
    BY <1>0, <1>2, SpendType DEF Diary!Reset
  <2>2. erased' \subseteq Diary!Time
    BY <1>0, <1>2 DEF Diary!TypeOK, Diary!Reset, Diary!Row
  <2>3. Diary!TypeOK'
    BY <1>0, <1>2, <2>1, <2>2 DEF Diary!TypeOK, Diary!Reset
  <2> QED BY <1>0, <1>2, <2>3 DEF IInv, Diary!Reset
<1>3. CASE Diary!Compact
  BY <1>0, <1>3 DEF IInv, Diary!TypeOK, Diary!Compact
<1>4. CASE Diary!Tick
  <2>1. now' \in 0..MaxTime
    BY <1>0, <1>4 DEF Diary!TypeOK, Diary!Tick
  <2>2. UNCHANGED <<rows, sittings, phase, draft, todo, spent, read, erased, behind, missed>>
    BY <1>4 DEF Diary!Tick
  <2>3. Diary!TypeOK' /\ Diary!Apart(sittings') /\ Diary!Apart(draft')
    BY <1>0, <2>1, <2>2 DEF Diary!TypeOK
  <2> QED BY <2>3 DEF IInv
<1>5. CASE Diary!Stop
  <2>1. spent' \in [events : 0..MaxEvents, resets : 0..MaxDiaryResets,
                    starts : 0..MaxStarts, clears : 0..MaxClears]
    BY <1>0, <1>5, SpendType DEF Diary!Stop
  <2>2. Diary!TypeOK'
    BY <1>0, <1>5, <2>1 DEF Diary!TypeOK, Diary!Stop
  <2>3. Diary!Apart(draft')
    BY <1>5 DEF Diary!Stop, Diary!Apart
  <2> QED BY <1>0, <1>5, <2>2, <2>3 DEF IInv, Diary!Stop
<1>6. CASE Diary!ClearRecent
  <2>1. spent' \in [events : 0..MaxEvents, resets : 0..MaxDiaryResets,
                    starts : 0..MaxStarts, clears : 0..MaxClears]
    BY <1>0, <1>6, SpendType DEF Diary!ClearRecent
  <2>2. sittings' \subseteq sittings
    BY <1>6 DEF Diary!ClearRecent
  <2>3. Diary!TypeOK'
    BY <1>0, <1>6, <2>1, <2>2 DEF Diary!TypeOK, Diary!ClearRecent
  <2>4. Diary!Apart(sittings')
    BY <1>0, <2>2, PartsAreApart
  <2> QED BY <1>0, <1>6, <2>3, <2>4 DEF IInv, Diary!ClearRecent
<1>7. CASE Diary!Derive
  BY <1>0, <1>7 DEF IInv, Diary!TypeOK, Diary!Derive
<1>8. CASE Diary!DeriveNext
  <2>1. PICK r \in Diary!Earliest(todo) : draft' = Diary!Folded(draft, r.at, r.pct) /\ todo' = todo \ {r}
    BY <1>8 DEF Diary!DeriveNext
  <2>2. r.at \in Diary!Time /\ r.pct \in Positions
    BY <1>0 DEF Diary!Earliest, Diary!TypeOK, Diary!Row
  <2>3. Book(draft')
    BY <1>0, <2>1, <2>2, FoldKeepsDiary
  <2>4. Diary!TypeOK'
    BY <1>0, <1>8, <2>1, <2>3 DEF Diary!TypeOK, Diary!DeriveNext, Book
  <2> QED BY <1>0, <1>8, <2>3, <2>4 DEF IInv, Diary!DeriveNext, Book
<1>9. CASE Diary!DeriveEnds
  <2>1. Diary!Apart(draft')
    BY <1>9 DEF Diary!DeriveEnds, Diary!Apart
  <2> QED BY <1>0, <1>9, <2>1 DEF IInv, Diary!TypeOK, Diary!DeriveEnds
<1>10. CASE Diary!DeriveFails
  <2>1. Diary!Apart(draft')
    BY <1>10 DEF Diary!DeriveFails, Diary!Apart
  <2> QED BY <1>0, <1>10, <2>1 DEF IInv, Diary!TypeOK, Diary!DeriveFails
<1>11. CASE UNCHANGED Diary!vars
  BY <1>0, <1>11 DEF IInv, Diary!TypeOK, Diary!Apart, Diary!vars
<1> QED BY <1>1, <1>2, <1>3, <1>4, <1>5, <1>6, <1>7, <1>8, <1>9, <1>10, <1>11 DEF Diary!Next

LEMMA AlwaysIInv == Diary!Spec => []IInv
BY InitOK, StepKeeps, PTL DEF Diary!Spec

-----------------------------------------------------------------------------
(* Sums over times.                                                        *)

Sum(f, S) == Diary!MapThenSumSet(LAMBDA t : f[t], S)

\* What the sum is computed by, over the parts of S.
Summing(f, S, g) ==
    g = [s \in SUBSET S |-> IF s = {} THEN 0
                            ELSE LET x == CHOOSE y \in s : TRUE
                                 IN f[x] + g[s \ {x}]]

LEMMA SumIs == \A f, S : Sum(f, S) = (CHOOSE g : Summing(f, S, g))[S]
BY DEF Sum, Diary!MapThenSumSet, Diary!MapThenFoldSet, Summing

LEMMA TimesAreFinite ==
    /\ IsFiniteSet(Diary!Time)
    /\ \A S \in SUBSET Diary!Time : IsFiniteSet(S) /\ Cardinality(S) \in Nat
<1>1. IsFiniteSet(Diary!Time)
  <2>1. MaxTime + Lead \in Int /\ 0 \in Int
    OBVIOUS
  <2> QED BY <2>1, FS_Interval
<1>2. ASSUME NEW S \in SUBSET Diary!Time
      PROVE  IsFiniteSet(S) /\ Cardinality(S) \in Nat
  <2>1. IsFiniteSet(S)
    BY <1>1, FS_Subset
  <2> QED BY <2>1, FS_CardinalityType
<1> QED BY <1>1, <1>2

\* Without one of its times, a set of times has one fewer.
LEMMA OneFewer ==
    ASSUME NEW S \in SUBSET Diary!Time, NEW x \in S
    PROVE  Cardinality(S \ {x}) < Cardinality(S)
<1>1. IsFiniteSet(S) /\ Cardinality(S) \in Nat
  BY TimesAreFinite
<1>2. Cardinality(S \ {x}) = Cardinality(S) - 1
  BY <1>1, FS_RemoveElement
<1> QED BY <1>1, <1>2

\* What holds of a set of times when it holds of what is left of it without any
\* one of them holds of every set of times.
LEMMA TimeInduction ==
    ASSUME NEW Good,
           \A S \in SUBSET Diary!Time : (\A x \in S : S \ {x} \in Good) => S \in Good
    PROVE  \A S \in SUBSET Diary!Time : S \in Good
<1> SUFFICES ASSUME NEW R \in SUBSET Diary!Time, R \notin Good
             PROVE  FALSE
  OBVIOUS
<1> DEFINE sizes == {n \in Nat : \E S \in SUBSET Diary!Time : S \notin Good /\ Cardinality(S) = n}
<1>1. sizes # {} /\ sizes \subseteq Nat
  <2>1. Cardinality(R) \in sizes
    BY TimesAreFinite
  <2> QED BY <2>1
<1>2. PICK n \in sizes : \A q \in sizes : n <= q
  BY <1>1, LeastOf
<1>3. PICK S \in SUBSET Diary!Time : S \notin Good /\ Cardinality(S) = n
  BY <1>2
<1>4. ASSUME NEW x \in S
      PROVE  S \ {x} \in Good
  <2>1. S \ {x} \in SUBSET Diary!Time /\ Cardinality(S \ {x}) \in Nat
    BY TimesAreFinite
  <2>2. Cardinality(S \ {x}) < n
    BY <1>3, OneFewer
  <2>3. n \in Nat
    BY <1>2
  <2> HIDE DEF sizes
  <2>4. Cardinality(S \ {x}) \notin sizes
    BY <1>2, <2>1, <2>2, <2>3
  <2> QED BY <2>1, <2>4 DEF sizes
<1> QED BY <1>3, <1>4

\* The sets of n times at most.
Small(n) == {S \in SUBSET Diary!Time : Cardinality(S) <= n}

\* What the sum of s is if h has those of its parts.
Added(f, h, s) == IF s = {} THEN 0 ELSE f[CHOOSE y \in s : TRUE] + h[s \ {CHOOSE y \in s : TRUE}]

LEMMA SmallerIsSmall ==
    ASSUME NEW n \in Nat, n # 0, NEW s \in Small(n), s # {}
    PROVE  s \ {CHOOSE y \in s : TRUE} \in Small(n - 1)
<1> DEFINE x == CHOOSE y \in s : TRUE
<1>1. x \in s
  OBVIOUS
<1> HIDE DEF x
<1>2. s \in SUBSET Diary!Time /\ s \ {x} \in SUBSET Diary!Time
  BY DEF Small
<1>3. /\ Cardinality(s \ {x}) \in Nat /\ Cardinality(s) \in Nat
      /\ Cardinality(s \ {x}) < Cardinality(s)
  BY <1>1, <1>2, TimesAreFinite, OneFewer
<1>4. s \ {x} \in Small(n - 1)
  BY <1>2, <1>3 DEF Small
<1> QED BY <1>4 DEF x

LEMMA SumOfSmall ==
    ASSUME NEW f \in [Diary!Time -> Nat], NEW n \in Nat
    PROVE  \E g \in [Small(n) -> Nat] : \A s \in Small(n) : g[s] = Added(f, g, s)
<1> DEFINE Can(k) == \E g \in [Small(k) -> Nat] : \A s \in Small(k) : g[s] = Added(f, g, s)
           bad == {k \in Nat : ~Can(k)}
<1> SUFFICES ASSUME bad # {}
             PROVE  FALSE
  OBVIOUS
<1>1. PICK k \in bad : \A q \in bad : k <= q
  BY LeastOf
<1>2. k \in Nat /\ ~Can(k)
  BY <1>1
<1> HIDE DEF Can
<1>5. k # 0 => Can(k - 1)
  <2> SUFFICES ASSUME k # 0, ~Can(k - 1)
               PROVE  FALSE
    OBVIOUS
  <2>1. k - 1 \in Nat /\ ~(k <= k - 1)
    BY <1>2
  <2>2. k - 1 \in bad
    BY <2>1
  <2> QED BY <1>1, <2>1, <2>2
<1>3. CASE k = 0
  <2>1. \A s \in Small(0) : s = {}
    <3> SUFFICES ASSUME NEW s \in Small(0), s # {}
                 PROVE  FALSE
      OBVIOUS
    <3>1. PICK x \in s : TRUE
      OBVIOUS
    <3>2. s \in SUBSET Diary!Time /\ Cardinality(s) <= 0
      BY DEF Small
    <3>3. Cardinality(s \ {x}) \in Nat /\ Cardinality(s \ {x}) < Cardinality(s) /\ Cardinality(s) \in Nat
      BY <3>2, TimesAreFinite, OneFewer
    <3> QED BY <3>2, <3>3
  <2> DEFINE g == [s \in Small(0) |-> 0]
  <2>2. g \in [Small(0) -> Nat] /\ \A s \in Small(0) : g[s] = Added(f, g, s)
    BY <2>1 DEF Added
  <2>3. Can(0)
    BY <2>2 DEF Can
  <2> QED BY <1>2, <1>3, <2>3
<1>4. CASE k # 0
  <2>1. k - 1 \in Nat
    BY <1>2, <1>4
  <2>2. PICK h \in [Small(k - 1) -> Nat] : \A s \in Small(k - 1) : h[s] = Added(f, h, s)
    BY <1>4, <1>5 DEF Can
  <2> DEFINE g == [s \in Small(k) |-> Added(f, h, s)]
  <2>3. ASSUME NEW s \in Small(k)
        PROVE  Added(f, h, s) \in Nat
    <3>1. CASE s = {}
      BY <3>1 DEF Added
    <3>2. CASE s # {}
      <4>1. s \ {CHOOSE y \in s : TRUE} \in Small(k - 1)
        BY <1>2, <1>4, <3>2, SmallerIsSmall
      <4>2. (CHOOSE y \in s : TRUE) \in Diary!Time
        BY <3>2 DEF Small
      <4>3. f[CHOOSE y \in s : TRUE] \in Nat /\ h[s \ {CHOOSE y \in s : TRUE}] \in Nat
        BY <4>1, <4>2, <2>2
      <4>4. Added(f, h, s) = f[CHOOSE y \in s : TRUE] + h[s \ {CHOOSE y \in s : TRUE}]
        BY <3>2 DEF Added
      <4> DEFINE a == f[CHOOSE y \in s : TRUE]
                 b == h[s \ {CHOOSE y \in s : TRUE}]
      <4>5. a \in Nat /\ b \in Nat /\ Added(f, h, s) = a + b
        BY <4>3, <4>4
      <4> HIDE DEF a, b
      <4> QED BY <4>5
    <3> QED BY <3>1, <3>2
  <2>4. g \in [Small(k) -> Nat]
    BY <2>3
  <2>5. ASSUME NEW s \in Small(k)
        PROVE  g[s] = Added(f, g, s)
    <3>1. CASE s = {}
      BY <3>1 DEF Added
    <3>2. CASE s # {}
      <4> DEFINE r == s \ {CHOOSE y \in s : TRUE}
      <4>1. r \in Small(k - 1)
        BY <1>2, <1>4, <3>2, SmallerIsSmall
      <4> HIDE DEF r
      <4>2. r \in Small(k)
        <5>1. Cardinality(r) \in Nat
          BY <4>1, TimesAreFinite DEF Small
        <5> QED BY <1>2, <4>1, <5>1 DEF Small
      <4>3. g[r] = h[r]
        BY <2>2, <4>1, <4>2
      <4>4. g[s] = Added(f, h, s)
        OBVIOUS
      <4> HIDE DEF g
      <4>5. Added(f, h, s) = f[CHOOSE y \in s : TRUE] + h[r]
        BY <3>2 DEF Added, r
      <4>6. Added(f, g, s) = f[CHOOSE y \in s : TRUE] + g[r]
        BY <3>2 DEF Added, r
      <4> QED BY <4>3, <4>4, <4>5, <4>6
    <3> QED BY <3>1, <3>2
  <2>6. Can(k)
    BY <2>4, <2>5 DEF Can
  <2> QED BY <1>2, <2>6
<1> QED BY <1>3, <1>4

\* The sums of all the sets of times, in one table.
LEMMA SumTable ==
    ASSUME NEW f \in [Diary!Time -> Nat]
    PROVE  \E g \in [SUBSET Diary!Time -> Nat] :
              \A s \in SUBSET Diary!Time : g[s] = Added(f, g, s) /\ Sum(f, s) = g[s]
<1> DEFINE n == Cardinality(Diary!Time)
<1>1. n \in Nat /\ Diary!Time \in SUBSET Diary!Time
  BY TimesAreFinite
<1> HIDE DEF n
<1>2. Small(n) = SUBSET Diary!Time
  <2>1. ASSUME NEW s \in SUBSET Diary!Time
        PROVE  Cardinality(s) <= n
    BY TimesAreFinite, FS_Subset DEF n
  <2> QED BY <2>1 DEF Small
<1>3. PICK g \in [Small(n) -> Nat] : \A s \in Small(n) : g[s] = Added(f, g, s)
  BY <1>1, SumOfSmall
<1>4. ASSUME NEW S \in SUBSET Diary!Time
      PROVE  Sum(f, S) = g[S]
  <2> DEFINE h == CHOOSE k : Summing(f, S, k)
             r == [s \in SUBSET S |-> g[s]]
  <2>1. \A k : Summing(f, S, k) <=> k = [s \in SUBSET S |-> Added(f, k, s)]
    BY DEF Summing, Added
  <2>2. Summing(f, S, r)
    <3>1. ASSUME NEW s \in SUBSET S
          PROVE  r[s] = Added(f, r, s)
      <4>1. s \in SUBSET Diary!Time /\ s \ {CHOOSE y \in s : TRUE} \in SUBSET S
        OBVIOUS
      <4>2. r[s] = g[s] /\ r[s \ {CHOOSE y \in s : TRUE}] = g[s \ {CHOOSE y \in s : TRUE}]
        BY <4>1
      <4>3. g[s] = Added(f, g, s)
        BY <1>2, <1>3, <4>1
      <4> HIDE DEF r
      <4> QED BY <4>2, <4>3 DEF Added
    <3>2. r = [s \in SUBSET S |-> r[s]]
      OBVIOUS
    <3> HIDE DEF r
    <3>3. r = [s \in SUBSET S |-> Added(f, r, s)]
      BY <3>1, <3>2
    <3> QED BY <2>1, <3>3
  <2>3. Summing(f, S, h)
    BY <2>2
  <2> HIDE DEF h, r
  <2>4. \A s \in SUBSET S : h[s] = Added(f, h, s)
    <3>1. h = [s \in SUBSET S |-> Added(f, h, s)]
      BY <2>1, <2>3
    <3> QED BY <3>1
  <2> DEFINE Same == {s \in SUBSET Diary!Time : s \subseteq S => h[s] = g[s]}
  <2>5. ASSUME NEW s \in SUBSET Diary!Time, \A x \in s : s \ {x} \in Same
        PROVE  s \in Same
    <3> SUFFICES ASSUME s \subseteq S
                 PROVE  h[s] = g[s]
      OBVIOUS
    <3>1. h[s] = Added(f, h, s) /\ g[s] = Added(f, g, s)
      BY <2>4, <1>2, <1>3
    <3>2. CASE s = {}
      BY <3>1, <3>2 DEF Added
    <3>3. CASE s # {}
      <4> DEFINE x == CHOOSE y \in s : TRUE
      <4>1. x \in s
        BY <3>3
      <4>2. h[s \ {x}] = g[s \ {x}]
        BY <4>1, <2>5
      <4> QED BY <3>1, <3>3, <4>2 DEF Added
    <3> QED BY <3>2, <3>3
  <2> HIDE DEF Same
  <2>6. \A s \in SUBSET Diary!Time : s \in Same
    BY <2>5, TimeInduction
  <2>7. h[S] = g[S]
    BY <2>6 DEF Same
  <2>8. Sum(f, S) = h[S]
    BY SumIs DEF h
  <2> QED BY <2>7, <2>8
<1> QED BY <1>2, <1>3, <1>4

\* Nothing sums to nothing, and one time more adds what is at it.
LEMMA SumMore ==
    ASSUME NEW f \in [Diary!Time -> Nat]
    PROVE  /\ Sum(f, {}) = 0
           /\ \A S \in SUBSET Diary!Time :
                 /\ Sum(f, S) \in Nat
                 /\ \A x \in Diary!Time \ S : Sum(f, S \cup {x}) = f[x] + Sum(f, S)
<1>1. PICK g \in [SUBSET Diary!Time -> Nat] :
         \A s \in SUBSET Diary!Time : g[s] = Added(f, g, s) /\ Sum(f, s) = g[s]
  BY SumTable
<1>2. Sum(f, {}) = 0
  BY <1>1 DEF Added
<1> DEFINE Good == {S \in SUBSET Diary!Time :
                      \A x \in Diary!Time \ S : g[S \cup {x}] = f[x] + g[S]}
<1>3. ASSUME NEW S \in SUBSET Diary!Time, \A x \in S : S \ {x} \in Good
      PROVE  S \in Good
  <2> SUFFICES ASSUME NEW x \in Diary!Time \ S
               PROVE  g[S \cup {x}] = f[x] + g[S]
    OBVIOUS
  <2> DEFINE c == CHOOSE y \in S \cup {x} : TRUE
  <2>1. c \in S \cup {x}
    OBVIOUS
  <2>2. g[S \cup {x}] = f[c] + g[(S \cup {x}) \ {c}]
    <3>1. S \cup {x} \in SUBSET Diary!Time /\ S \cup {x} # {}
      OBVIOUS
    <3> QED BY <1>1, <3>1 DEF Added
  <2> HIDE DEF c
  <2>3. CASE c = x
    <3>1. (S \cup {x}) \ {c} = S
      BY <2>3
    <3> QED BY <2>2, <2>3, <3>1
  <2>4. CASE c # x
    <3>1. c \in S /\ c \in Diary!Time /\ x \in Diary!Time
      BY <2>1, <2>4
    <3> DEFINE T == S \ {c}
    <3>2. (S \cup {x}) \ {c} = T \cup {x} /\ S = T \cup {c} /\ c \notin T /\ x \notin T
      BY <3>1, <2>4
    <3>3. T \in Good
      BY <1>3, <3>1
    <3>4. g[T \cup {x}] = f[x] + g[T] /\ g[T \cup {c}] = f[c] + g[T]
      BY <3>1, <3>2, <3>3
    <3>5. f[x] \in Nat /\ f[c] \in Nat /\ g[T] \in Nat
      BY <3>1
    <3>6. (S \cup {x}) \ {c} = T \cup {x} /\ S = T \cup {c}
      BY <3>2
    <3>7. g[S \cup {x}] = f[c] + g[T \cup {x}] /\ g[S] = g[T \cup {c}]
      BY <2>2, <3>6, Zenon
    <3> DEFINE a == f[x]
               b == f[c]
               t == g[T]
    <3>8. g[S \cup {x}] = b + (a + t) /\ g[S] = b + t /\ a \in Nat /\ b \in Nat /\ t \in Nat
      BY <3>4, <3>5, <3>7, Zenon
    <3> HIDE DEF a, b, t
    <3>9. b + (a + t) = a + (b + t)
      BY <3>8
    <3>10. g[S \cup {x}] = a + g[S]
      BY <3>8, <3>9, Zenon
    <3> QED BY <3>10 DEF a
  <2> QED BY <2>3, <2>4
<1> HIDE DEF Good
<1>4. \A S \in SUBSET Diary!Time : S \in Good
  BY <1>3, TimeInduction
<1>5. ASSUME NEW S \in SUBSET Diary!Time
      PROVE  /\ Sum(f, S) \in Nat
             /\ \A x \in Diary!Time \ S : Sum(f, S \cup {x}) = f[x] + Sum(f, S)
  <2>1. Sum(f, S) = g[S]
    BY <1>1
  <2>2. ASSUME NEW x \in Diary!Time \ S
        PROVE  Sum(f, S \cup {x}) = f[x] + Sum(f, S)
    <3>1. S \cup {x} \in SUBSET Diary!Time
      OBVIOUS
    <3>2. Sum(f, S \cup {x}) = g[S \cup {x}]
      BY <1>1, <3>1
    <3>3. g[S \cup {x}] = f[x] + g[S]
      BY <1>4 DEF Good
    <3> QED BY <2>1, <3>2, <3>3
  <2> QED BY <2>1, <2>2
<1> QED BY <1>2, <1>5

\* Two sets of times that share none.
LEMMA SumOfTwo ==
    ASSUME NEW f \in [Diary!Time -> Nat], NEW A \in SUBSET Diary!Time, NEW B \in SUBSET Diary!Time,
           A \cap B = {}
    PROVE  Sum(f, A \cup B) = Sum(f, A) + Sum(f, B)
<1> DEFINE Good == {S \in SUBSET Diary!Time :
                      A \cap S = {} => Sum(f, A \cup S) = Sum(f, A) + Sum(f, S)}
<1>1. ASSUME NEW S \in SUBSET Diary!Time, \A x \in S : S \ {x} \in Good
      PROVE  S \in Good
  <2> SUFFICES ASSUME A \cap S = {}
               PROVE  Sum(f, A \cup S) = Sum(f, A) + Sum(f, S)
    OBVIOUS
  <2>1. CASE S = {}
    <3>1. A \cup S = A
      BY <2>1
    <3>2. Sum(f, A) \in Nat /\ Sum(f, {}) = 0
      BY SumMore
    <3> QED BY <2>1, <3>1, <3>2
  <2>2. CASE S # {}
    <3>1. PICK x \in S : TRUE
      BY <2>2
    <3> DEFINE T == S \ {x}
    <3>2. Sum(f, A \cup T) = Sum(f, A) + Sum(f, T)
      BY <1>1
    <3>3. /\ T \in SUBSET Diary!Time /\ A \cup T \in SUBSET Diary!Time
          /\ x \in Diary!Time \ T /\ x \in Diary!Time \ (A \cup T)
          /\ S = T \cup {x} /\ A \cup S = (A \cup T) \cup {x}
      OBVIOUS
    <3> HIDE DEF T
    <3>4. Sum(f, T \cup {x}) = f[x] + Sum(f, T)
      BY <3>3, SumMore
    <3>5. Sum(f, (A \cup T) \cup {x}) = f[x] + Sum(f, A \cup T)
      BY <3>3, SumMore
    <3>6. f[x] \in Nat /\ Sum(f, T) \in Nat /\ Sum(f, A) \in Nat
      BY <3>3, SumMore
    <3> DEFINE a == f[x]
               t == Sum(f, T)
               m == Sum(f, A)
    <3>7. Sum(f, A \cup S) = a + (m + t) /\ Sum(f, S) = a + t
      BY <3>2, <3>3, <3>4, <3>5, Zenon
    <3>8. a \in Nat /\ t \in Nat /\ m \in Nat
      BY <3>6
    <3> HIDE DEF a, t
    <3>9. a + (m + t) = m + (a + t)
      BY <3>8
    <3> QED BY <3>7, <3>9
  <2> QED BY <2>1, <2>2
<1> HIDE DEF Good
<1>2. \A S \in SUBSET Diary!Time : S \in Good
  BY <1>1, TimeInduction
<1> QED BY <1>2 DEF Good

\* Where a function is no less, its sum is no less.
LEMMA AddedUp == \A a, b, c, e \in Nat : a <= b /\ c <= e => a + c <= b + e
OBVIOUS

LEMMA SumAtMost ==
    ASSUME NEW f \in [Diary!Time -> Nat], NEW g \in [Diary!Time -> Nat],
           NEW R \in SUBSET Diary!Time, \A t \in R : f[t] <= g[t]
    PROVE  Sum(f, R) <= Sum(g, R)
<1> DEFINE Good == {S \in SUBSET Diary!Time : S \subseteq R => Sum(f, S) <= Sum(g, S)}
<1>1. ASSUME NEW S \in SUBSET Diary!Time, \A x \in S : S \ {x} \in Good
      PROVE  S \in Good
  <2> SUFFICES ASSUME S \subseteq R
               PROVE  Sum(f, S) <= Sum(g, S)
    OBVIOUS
  <2>1. CASE S = {}
    <3>1. Sum(f, {}) = 0 /\ Sum(g, {}) = 0
      BY SumMore
    <3> QED BY <2>1, <3>1
  <2>2. CASE S # {}
    <3>1. PICK x \in S : TRUE
      BY <2>2
    <3> DEFINE T == S \ {x}
    <3>2. Sum(f, T) <= Sum(g, T)
      BY <1>1
    <3>3. T \in SUBSET Diary!Time /\ x \in Diary!Time \ T /\ S = T \cup {x} /\ x \in R
      OBVIOUS
    <3> HIDE DEF T
    <3>4. Sum(f, S) = f[x] + Sum(f, T) /\ Sum(f, T) \in Nat
      BY <3>3, SumMore
    <3>5. Sum(g, S) = g[x] + Sum(g, T) /\ Sum(g, T) \in Nat
      BY <3>3, SumMore
    <3>6. f[x] \in Nat /\ g[x] \in Nat /\ f[x] <= g[x]
      BY <3>3
    <3>7. f[x] + Sum(f, T) <= g[x] + Sum(g, T)
      BY <3>2, <3>4, <3>5, <3>6, AddedUp
    <3> QED BY <3>4, <3>5, <3>7
  <2> QED BY <2>1, <2>2
<1> HIDE DEF Good
<1>2. \A S \in SUBSET Diary!Time : S \in Good
  BY <1>1, TimeInduction
<1> QED BY <1>2 DEF Good

LEMMA SumSame ==
    ASSUME NEW f \in [Diary!Time -> Nat], NEW g \in [Diary!Time -> Nat],
           NEW R \in SUBSET Diary!Time, \A t \in R : f[t] = g[t]
    PROVE  Sum(f, R) = Sum(g, R)
<1>1. \A t \in R : f[t] <= g[t] /\ g[t] <= f[t]
  <2>1. \A t \in R : f[t] \in Nat /\ g[t] \in Nat
    OBVIOUS
  <2> QED BY <2>1
<1>2. Sum(f, R) <= Sum(g, R) /\ Sum(g, R) <= Sum(f, R)
  BY <1>1, SumAtMost
<1>3. Sum(f, R) \in Nat /\ Sum(g, R) \in Nat
  BY SumMore
<1> QED BY <1>2, <1>3

\* More times sum to no less, and to the same if nothing is at the others.
LEMMA SumOfPart ==
    ASSUME NEW f \in [Diary!Time -> Nat], NEW B \in SUBSET Diary!Time, NEW A \in SUBSET B
    PROVE  /\ Sum(f, A) <= Sum(f, B)
           /\ (\A t \in B \ A : f[t] = 0) => Sum(f, A) = Sum(f, B)
<1> DEFINE rest == B \ A
<1>1. rest \in SUBSET Diary!Time /\ A \in SUBSET Diary!Time /\ A \cap rest = {} /\ A \cup rest = B
  OBVIOUS
<1> HIDE DEF rest
<1>2. Sum(f, B) = Sum(f, A) + Sum(f, rest)
  <2>1. Sum(f, A \cup rest) = Sum(f, A) + Sum(f, rest)
    BY <1>1, SumOfTwo
  <2> QED BY <1>1, <2>1
<1>3. Sum(f, A) \in Nat /\ Sum(f, rest) \in Nat
  BY <1>1, SumMore
<1>4. ASSUME \A t \in rest : f[t] = 0
      PROVE  Sum(f, rest) = 0
  <2> DEFINE Good == {S \in SUBSET Diary!Time : S \subseteq rest => Sum(f, S) = 0}
  <2>1. ASSUME NEW S \in SUBSET Diary!Time, \A x \in S : S \ {x} \in Good
        PROVE  S \in Good
    <3> SUFFICES ASSUME S \subseteq rest
                 PROVE  Sum(f, S) = 0
      OBVIOUS
    <3>1. CASE S = {}
      BY <3>1, SumMore
    <3>2. CASE S # {}
      <4>1. PICK x \in S : TRUE
        BY <3>2
      <4> DEFINE T == S \ {x}
      <4>2. Sum(f, T) = 0
        BY <2>1
      <4>3. T \in SUBSET Diary!Time /\ x \in Diary!Time \ T /\ S = T \cup {x} /\ f[x] = 0
        BY <1>4
      <4> HIDE DEF T
      <4>4. Sum(f, S) = f[x] + Sum(f, T)
        BY <4>3, SumMore
      <4> QED BY <4>2, <4>3, <4>4
    <3> QED BY <3>1, <3>2
  <2> HIDE DEF Good
  <2>2. \A S \in SUBSET Diary!Time : S \in Good
    BY <2>1, TimeInduction
  <2> QED BY <1>1, <2>2 DEF Good
<1> QED BY <1>2, <1>3, <1>4 DEF rest

\* One more at a time of the set is one more in all.
LEMMA SumRaised ==
    ASSUME NEW f \in [Diary!Time -> Nat], NEW S \in SUBSET Diary!Time, NEW x \in S
    PROVE  /\ [f EXCEPT ![x] = @ + 1] \in [Diary!Time -> Nat]
           /\ Sum([f EXCEPT ![x] = @ + 1], S) = Sum(f, S) + 1
<1> DEFINE g == [f EXCEPT ![x] = @ + 1]
           T == S \ {x}
<1>1. x \in Diary!Time \ T /\ T \in SUBSET Diary!Time /\ S = T \cup {x}
  OBVIOUS
<1>2. g \in [Diary!Time -> Nat] /\ g[x] = f[x] + 1 /\ (\A t \in T : f[t] = g[t]) /\ f[x] \in Nat
  OBVIOUS
<1> HIDE DEF g, T
<1>3. Sum(g, S) = g[x] + Sum(g, T) /\ Sum(f, S) = f[x] + Sum(f, T) /\ Sum(f, T) \in Nat
  BY <1>1, <1>2, SumMore
<1>4. Sum(f, T) = Sum(g, T)
  BY <1>1, <1>2, SumSame
<1>5. Sum(g, S) = Sum(f, S) + 1
  BY <1>2, <1>3, <1>4
<1> QED BY <1>2, <1>5 DEF g

-----------------------------------------------------------------------------
(* What a fold does to the sittings it touches.                            *)

\* new is what the sittings in out and a checkpoint at `at` grow together to: it
\* reaches as far as they do, is nowhere silent for longer than the gap, and
\* counts what they count and the checkpoint.
Grown(d, at, out, new) ==
    /\ new.start <= at /\ at <= new.end
    /\ \A s \in out : new.start <= s.start /\ s.end <= new.end
    /\ new.start = at \/ \E s \in out : new.start = s.start
    /\ new.end = at \/ \E s \in out : new.end = s.end
    /\ \/ out = {} /\ new.events = 1
       \/ \E p \in d : out = {p} /\ new.events = p.events + 1
       \/ \E p \in d, n \in d :
             out = {p, n} /\ p.end < n.start /\ new.events = p.events + n.events + 1
    /\ \A t \in Diary!Time : new.start <= t /\ t < new.end =>
          \/ \E s \in out : s.start <= t /\ t < s.end
          \/ t < at /\ at - t <= Gap
          \/ \E s \in out : t < s.start /\ s.start - t <= Gap

LEMMA EventsOfStep ==
    \A s \in Diary!Sitting : \A from, to, took :
        Diary!WithStep(s, from, to, took).events = s.events + 1
BY DEF Diary!WithStep, Diary!Sitting

LEMMA EventsOfExtended ==
    ASSUME NEW p \in Diary!Sitting, NEW at \in Diary!Time, NEW pct \in Positions
    PROVE  /\ Diary!Extended(p, at, pct).events = p.events + 1
           /\ Diary!ExtendedBack(p, at, pct).events = p.events + 1
<1>1. \A from, to, took : Diary!WithStep(p, from, to, took).events = p.events + 1
  BY EventsOfStep
<1>2. Diary!Extended(p, at, pct).events =
         Diary!WithStep(p, p.last, pct, at - p.end).events
  BY DEF Diary!Extended, Diary!WithStep, Diary!Sitting
<1>3. Diary!ExtendedBack(p, at, pct).events =
         Diary!WithStep(p, pct, p.first, p.start - at).events
  BY DEF Diary!ExtendedBack, Diary!WithStep, Diary!Sitting
<1> QED BY <1>1, <1>2, <1>3

LEMMA FoldGrows ==
    ASSUME NEW d, Book(d), NEW at \in Diary!Time, NEW pct \in Positions
    PROVE  \E out, new : Replaced(d, at, pct, out, new) /\ Grown(d, at, out, new)
<1>1. \A s \in d : /\ s \in Diary!Sitting /\ s.start \in Diary!Time /\ s.end \in Diary!Time
                   /\ s.start <= s.end /\ s.events \in Nat
  BY DEF Book, Diary!Sitting, Diary!Apart
<1>2. ASSUME NEW p \in d, p.start <= at, at < p.end
      PROVE  Grown(d, at, {p}, Diary!Touched(p))
  <2> DEFINE new == Diary!Touched(p)
  <2>1. new.start = p.start /\ new.end = p.end /\ new.events = p.events + 1
    BY <1>1 DEF Diary!Touched, Diary!Sitting
  <2> HIDE DEF new
  <2>2. Grown(d, at, {p}, new)
    BY <1>1, <1>2, <2>1 DEF Grown
  <2> QED BY <2>2 DEF new
<1>3. ASSUME NEW p \in d, NEW n \in d,
             p.end <= at, at - p.end <= Gap, at < n.start, n.start - at <= Gap
      PROVE  Grown(d, at, {p, n}, Diary!Merged(p, n, at, pct))
  <2> DEFINE new == Diary!Merged(p, n, at, pct)
  <2>1. new.start = p.start /\ new.end = n.end /\ new.events = p.events + n.events + 1
    BY DEF Diary!Merged
  <2> HIDE DEF new
  <2>2. p.end < n.start
    BY <1>1, <1>3
  <2>3. \A t \in Diary!Time : new.start <= t /\ t < new.end =>
          \/ \E s \in {p, n} : s.start <= t /\ t < s.end
          \/ t < at /\ at - t <= Gap
          \/ \E s \in {p, n} : t < s.start /\ s.start - t <= Gap
    BY <1>1, <1>3, <2>1
  <2>4. /\ new.start <= at /\ at <= new.end
        /\ \A s \in {p, n} : new.start <= s.start /\ s.end <= new.end
    BY <1>1, <1>3, <2>1
  <2>5. Grown(d, at, {p, n}, new)
    BY <2>1, <2>2, <2>3, <2>4 DEF Grown
  <2> QED BY <2>5 DEF new
<1>4. ASSUME NEW p \in d, p.end <= at, at - p.end <= Gap
      PROVE  Grown(d, at, {p}, Diary!Extended(p, at, pct))
  <2> DEFINE new == Diary!Extended(p, at, pct)
  <2>1. new.start = p.start /\ new.end = at /\ new.events = p.events + 1
    BY <1>1, <1>4, ExtendedType, EventsOfExtended
  <2> HIDE DEF new
  <2>2. Grown(d, at, {p}, new)
    BY <1>1, <1>4, <2>1 DEF Grown
  <2> QED BY <2>2 DEF new
<1>5. ASSUME NEW n \in d, at < n.start, n.start - at <= Gap
      PROVE  Grown(d, at, {n}, Diary!ExtendedBack(n, at, pct))
  <2> DEFINE new == Diary!ExtendedBack(n, at, pct)
  <2>1. at <= n.start
    BY <1>1, <1>5
  <2>2. new.start = at /\ new.end = n.end /\ new.events = n.events + 1
    BY <1>1, <2>1, ExtendedBackType, EventsOfExtended
  <2> HIDE DEF new
  <2>3. Grown(d, at, {n}, new)
    BY <1>1, <1>5, <2>2 DEF Grown
  <2> QED BY <2>3 DEF new
<1>6. Grown(d, at, {}, Diary!Fresh(at, pct))
  <2> DEFINE new == Diary!Fresh(at, pct)
  <2>1. new.start = at /\ new.end = at /\ new.events = 1
    BY DEF Diary!Fresh
  <2> HIDE DEF new
  <2>2. Grown(d, at, {}, new)
    BY <2>1 DEF Grown
  <2> QED BY <2>2 DEF new
<1> DEFINE Is(out, new) == Replaced(d, at, pct, out, new) /\ Grown(d, at, out, new)
<1>7. \/ \E p \in d : Is({p}, Diary!Touched(p))
      \/ \E p \in d, n \in d : Is({p, n}, Diary!Merged(p, n, at, pct))
      \/ \E p \in d : Is({p}, Diary!Extended(p, at, pct))
      \/ \E n \in d : Is({n}, Diary!ExtendedBack(n, at, pct))
      \/ Is({}, Diary!Fresh(at, pct))
  BY FoldForms, <1>2, <1>3, <1>4, <1>5, <1>6, Zenon
<1> HIDE DEF Is
<1>8. \E out, new : Is(out, new)
  BY <1>7, Zenon
<1> QED BY <1>8 DEF Is

\* The times of a sitting.
Span(s) == {t \in Diary!Time : Diary!Within(s, t)}

\* Something was read at both ends of s and, from any time in it, within the gap;
\* and s counts no more than was read in it.  f says how often each time was read.
Held(s, f) ==
    /\ f[s.start] > 0 /\ f[s.end] > 0
    /\ \A t \in Diary!Time : s.start <= t /\ t < s.end =>
          \E r \in Diary!Time : t < r /\ r <= s.end /\ r - t <= Gap /\ f[r] > 0
    /\ s.events <= Sum(f, Span(s))

\* Nothing read in s is in E.
Clean(s, f, E) == \A t \in Span(s) : f[t] > 0 => t \notin E

\* A sitting counts all that was read in it, unless some of it is in E.
Exact(d, f, E) == \A s \in d : Clean(s, f, E) => s.events = Sum(f, Span(s))

\* All that was read, but for what is in E, is in some sitting.
Covered(d, f, E) == \A t \in Diary!Time : f[t] > 0 /\ t \notin E => \E s \in d : t \in Span(s)

Counts == [Diary!Time -> Nat]

LEMMA HeldMore ==
    ASSUME NEW f \in Counts, NEW g \in Counts, \A t \in Diary!Time : f[t] <= g[t],
           NEW s \in Diary!Sitting, Held(s, f)
    PROVE  Held(s, g)
<1>1. f \in [Diary!Time -> Nat] /\ g \in [Diary!Time -> Nat]
  BY DEF Counts
<1>2. s.start \in Diary!Time /\ s.end \in Diary!Time /\ s.events \in Nat
  BY DEF Diary!Sitting
<1>3. \A t \in Diary!Time : f[t] > 0 => g[t] > 0
  <2>1. \A t \in Diary!Time : f[t] \in Nat /\ g[t] \in Nat
    BY <1>1
  <2> QED BY <2>1
<1>4. Span(s) \in SUBSET Diary!Time
  BY DEF Span
<1>5. Sum(f, Span(s)) <= Sum(g, Span(s))
  BY <1>1, <1>4, SumAtMost
<1>6. Sum(f, Span(s)) \in Nat /\ Sum(g, Span(s)) \in Nat
  BY <1>1, <1>4, SumMore
<1>7. s.events <= Sum(f, Span(s))
  BY DEF Held
<1>8. s.events <= Sum(g, Span(s))
  BY <1>2, <1>5, <1>6, <1>7
<1> QED BY <1>2, <1>3, <1>8 DEF Held

\* The times of some sittings.
Times(out) == {t \in Diary!Time : \E s \in out : t \in Span(s)}

\* What the sittings in out count, new counts, and one more.
LEMMA GrownCounts ==
    ASSUME NEW d, Book(d), NEW at \in Diary!Time, NEW out, out \subseteq d,
           NEW new \in Diary!Sitting, Grown(d, at, out, new), NEW f \in Counts
    PROVE  /\ Times(out) \subseteq Span(new) /\ at \in Span(new)
           /\ (\A s \in out : s.events <= Sum(f, Span(s))) => new.events <= Sum(f, Times(out)) + 1
           /\ (\A s \in out : s.events = Sum(f, Span(s))) => new.events = Sum(f, Times(out)) + 1
<1>0. \A t : t \in Times(out) <=> \E s \in out : t \in Span(s)
  BY DEF Times, Span
<1>1. \A s \in d : /\ s \in Diary!Sitting /\ s.start \in Diary!Time /\ s.end \in Diary!Time
                   /\ s.start <= s.end /\ s.events \in Nat
  BY DEF Book, Diary!Sitting, Diary!Apart
<1>2. \A s : Span(s) \in SUBSET Diary!Time
  BY DEF Span
<1>3. f \in [Diary!Time -> Nat]
  BY DEF Counts
<1>4. \A S \in SUBSET Diary!Time : Sum(f, S) \in Nat
  BY <1>3, SumMore
<1>5. Times(out) \subseteq Span(new)
  <2> SUFFICES ASSUME NEW t, NEW s \in out, t \in Span(s)
               PROVE  t \in Span(new)
    BY <1>0
  <2>1. s.start <= t /\ t <= s.end /\ new.start <= s.start /\ s.end <= new.end
    BY DEF Span, Diary!Within, Grown
  <2>2. new.start \in Int /\ new.end \in Int /\ s.start \in Int /\ s.end \in Int
    BY <1>1 DEF Diary!Sitting
  <2> QED BY <2>1, <2>2 DEF Span, Diary!Within
<1>6. at \in Span(new)
  BY DEF Span, Diary!Within, Grown
<1>7. CASE out = {} /\ new.events = 1
  <2>1. Times(out) = {}
    BY <1>0, <1>7
  <2>2. Sum(f, Times(out)) = 0
    BY <1>3, <2>1, SumMore
  <2> QED BY <1>5, <1>6, <1>7, <2>2
<1>8. ASSUME NEW p \in d, out = {p}, new.events = p.events + 1
      PROVE  /\ (\A s \in out : s.events <= Sum(f, Span(s))) => new.events <= Sum(f, Times(out)) + 1
             /\ (\A s \in out : s.events = Sum(f, Span(s))) => new.events = Sum(f, Times(out)) + 1
  <2>1. Times(out) = Span(p)
    BY <1>0, <1>2, <1>8
  <2> QED BY <1>1, <1>2, <1>4, <1>8, <2>1
<1>9. ASSUME NEW p \in d, NEW n \in d, out = {p, n}, p.end < n.start,
             new.events = p.events + n.events + 1
      PROVE  /\ (\A s \in out : s.events <= Sum(f, Span(s))) => new.events <= Sum(f, Times(out)) + 1
             /\ (\A s \in out : s.events = Sum(f, Span(s))) => new.events = Sum(f, Times(out)) + 1
  <2>1. Times(out) = Span(p) \cup Span(n)
    BY <1>0, <1>2, <1>9
  <2>2. Span(p) \cap Span(n) = {}
    <3> SUFFICES ASSUME NEW t \in Span(p), t \in Span(n)
                 PROVE  FALSE
      OBVIOUS
    <3>1. t \in Int /\ p.end \in Int /\ n.start \in Int
      BY <1>1 DEF Span
    <3>2. t <= p.end /\ n.start <= t
      BY DEF Span, Diary!Within
    <3> QED BY <1>9, <3>1, <3>2
  <2>3. Sum(f, Times(out)) = Sum(f, Span(p)) + Sum(f, Span(n))
    BY <1>2, <1>3, <2>1, <2>2, SumOfTwo
  <2>4. Sum(f, Span(p)) \in Nat /\ Sum(f, Span(n)) \in Nat /\ p.events \in Nat /\ n.events \in Nat
    BY <1>1, <1>2, <1>4
  <2>5. (\A s \in out : s.events <= Sum(f, Span(s)))
           => p.events <= Sum(f, Span(p)) /\ n.events <= Sum(f, Span(n))
    BY <1>9
  <2>6. (\A s \in out : s.events = Sum(f, Span(s)))
           => p.events = Sum(f, Span(p)) /\ n.events = Sum(f, Span(n))
    BY <1>9
  <2> QED BY <1>9, <2>3, <2>4, <2>5, <2>6
<1>10. \/ out = {} /\ new.events = 1
       \/ \E p \in d : out = {p} /\ new.events = p.events + 1
       \/ \E p \in d, n \in d :
             out = {p, n} /\ p.end < n.start /\ new.events = p.events + n.events + 1
  BY DEF Grown
<1> QED BY <1>5, <1>6, <1>7, <1>8, <1>9, <1>10

\* A checkpoint folded into a diary that holds what was read is held by it too.
LEMMA FoldHolds ==
    ASSUME NEW d, Book(d), NEW at \in Diary!Time, NEW pct \in Positions, NEW f \in Counts,
           \A s \in d : Held(s, f), NEW g, g = [f EXCEPT ![at] = @ + 1]
    PROVE  /\ g \in Counts
           /\ \A z \in Diary!Folded(d, at, pct) : Held(z, g)
           /\ \A s \in d : \E z \in Diary!Folded(d, at, pct) :
                 z.start <= s.start /\ s.end <= z.end
           /\ \E z \in Diary!Folded(d, at, pct) : at \in Span(z)
           /\ \A E : Covered(d, f, E) /\ Exact(d, f, E)
                        => Exact(Diary!Folded(d, at, pct), g, E)
<1>1. \A s \in d : /\ s \in Diary!Sitting /\ s.start \in Diary!Time /\ s.end \in Diary!Time
                   /\ s.start <= s.end /\ s.events \in Nat
  BY DEF Book, Diary!Sitting, Diary!Apart
<1>2. \A s : Span(s) \in SUBSET Diary!Time
  BY DEF Span
<1>3. f \in [Diary!Time -> Nat]
  BY DEF Counts
<1>4. /\ g \in [Diary!Time -> Nat] /\ g \in Counts
      /\ \A t \in Diary!Time : /\ f[t] \in Nat /\ g[t] \in Nat /\ f[t] <= g[t]
                               /\ t # at => g[t] = f[t]
      /\ g[at] > 0
  <2>1. \A t \in Diary!Time : f[t] \in Nat
    BY <1>3
  <2>2. \A t \in Diary!Time : g[t] = IF t = at THEN f[t] + 1 ELSE f[t]
    BY <1>3
  <2>4. g \in [Diary!Time -> Nat]
    BY <1>3, OneMoreAt
  <2>5. \A t \in Diary!Time : /\ g[t] \in Nat /\ f[t] <= g[t]
                             /\ t # at => g[t] = f[t]
    BY <2>1, <2>2
  <2>6. g[at] > 0
    BY <2>1, <2>2
  <2>7. g \in Counts
    BY <2>4 DEF Counts
  <2> QED
    <3> HIDE DEF Diary!Time
    <3> QED BY <2>1, <2>4, <2>5, <2>6, <2>7
<1>5. PICK out, new : Replaced(d, at, pct, out, new) /\ Grown(d, at, out, new)
  BY FoldGrows
<1>6. /\ Diary!Folded(d, at, pct) = (d \ out) \cup {new}
      /\ out \subseteq d /\ new \in Diary!Sitting /\ new.start <= new.end
      /\ \A r \in d \ out : r.end + Gap < new.start \/ new.end + Gap < r.start
  BY <1>5 DEF Replaced, Clear
<1>7. new.start \in Diary!Time /\ new.end \in Diary!Time /\ new.events \in Nat
  BY <1>6 DEF Diary!Sitting
<1>8. /\ Times(out) \subseteq Span(new) /\ at \in Span(new)
      /\ (\A s \in out : s.events <= Sum(f, Span(s))) => new.events <= Sum(f, Times(out)) + 1
      /\ (\A s \in out : s.events = Sum(f, Span(s))) => new.events = Sum(f, Times(out)) + 1
  <2>1. out \subseteq d
    BY <1>6
  <2>2. new \in Diary!Sitting
    BY <1>6
  <2>3. Grown(d, at, out, new)
    BY <1>5
  <2> QED BY <2>1, <2>2, <2>3, GrownCounts
<1>9. /\ Sum(f, Times(out)) <= Sum(f, Span(new))
      /\ (\A t \in Span(new) \ Times(out) : f[t] = 0) => Sum(f, Times(out)) = Sum(f, Span(new))
  BY <1>2, <1>3, <1>8, SumOfPart
<1>10. Sum(g, Span(new)) = Sum(f, Span(new)) + 1
  BY <1>2, <1>3, <1>8, SumRaised
<1>11. Sum(f, Times(out)) \in Nat /\ Sum(f, Span(new)) \in Nat /\ Sum(g, Span(new)) \in Nat
  <2>1. Times(out) \in SUBSET Diary!Time
    BY DEF Times
  <2> QED BY <1>2, <1>3, <1>4, <2>1, SumMore
<1>12. ASSUME NEW s \in d \ out
       PROVE  at \notin Span(s) /\ Sum(g, Span(s)) = Sum(f, Span(s))
  <2>1. at \notin Span(s)
    <3>1. s.end < new.start \/ new.end < s.start
      BY <1>1, <1>6, <1>7
    <3>2. new.start <= at /\ at <= new.end
      BY <1>5 DEF Grown
    <3>3. at \in Int /\ s.end \in Int /\ s.start \in Int /\ new.start \in Int /\ new.end \in Int
      BY <1>1, <1>7
    <3> QED BY <3>1, <3>2, <3>3 DEF Span, Diary!Within
  <2>2. \A t \in Span(s) : g[t] = f[t]
    BY <1>2, <1>4, <2>1
  <2> QED BY <1>2, <1>3, <1>4, <2>1, <2>2, SumSame
<1>13. \A s \in d : Held(s, g)
  BY <1>1, <1>4, HeldMore
<1>14. Held(new, g)
  <2>1. new.events <= Sum(g, Span(new))
    <3>1. \A s \in out : s.events <= Sum(f, Span(s))
      BY <1>6 DEF Held
    <3>2. new.events <= Sum(f, Times(out)) + 1
      BY <1>8, <3>1
    <3> QED BY <1>7, <1>9, <1>10, <1>11, <3>2
  <2>2. g[new.start] > 0 /\ g[new.end] > 0
    <3>1. \A s \in out : g[s.start] > 0 /\ g[s.end] > 0
      BY <1>6, <1>13 DEF Held
    <3>2. /\ new.start = at \/ \E s \in out : new.start = s.start
          /\ new.end = at \/ \E s \in out : new.end = s.end
      BY <1>5 DEF Grown
    <3> QED BY <1>4, <3>1, <3>2
  <2>3. ASSUME NEW t \in Diary!Time, new.start <= t, t < new.end
        PROVE  \E r \in Diary!Time : t < r /\ r <= new.end /\ r - t <= Gap /\ g[r] > 0
    <3>1. new.end \in Int /\ at <= new.end /\ \A s \in out : s.end <= new.end
      BY <1>5, <1>7 DEF Grown
    <3>2. CASE \E s \in out : s.start <= t /\ t < s.end
      <4>1. PICK s \in out : s.start <= t /\ t < s.end
        BY <3>2
      <4>2. PICK r \in Diary!Time : t < r /\ r <= s.end /\ r - t <= Gap /\ g[r] > 0
        BY <1>6, <1>13, <4>1 DEF Held
      <4>3. r <= new.end
        BY <1>1, <1>6, <3>1, <4>2
      <4> QED BY <4>2, <4>3
    <3>3. CASE t < at /\ at - t <= Gap
      BY <1>4, <3>1, <3>3
    <3>4. CASE \E s \in out : t < s.start /\ s.start - t <= Gap
      <4>1. PICK s \in out : t < s.start /\ s.start - t <= Gap
        BY <3>4
      <4>2. s.start \in Diary!Time /\ s.start <= s.end /\ s.end \in Diary!Time /\ g[s.start] > 0
        BY <1>1, <1>6, <1>13 DEF Held
      <4>3. s.start <= new.end
        BY <3>1, <4>2
      <4> QED BY <4>1, <4>2, <4>3
    <3> QED BY <1>5, <2>3, <3>2, <3>3, <3>4 DEF Grown
  <2> QED BY <2>1, <2>2, <2>3 DEF Held
<1>15. \A s \in d : \E z \in Diary!Folded(d, at, pct) : z.start <= s.start /\ s.end <= z.end
  <2> SUFFICES ASSUME NEW s \in d
               PROVE  \E z \in Diary!Folded(d, at, pct) : z.start <= s.start /\ s.end <= z.end
    OBVIOUS
  <2>1. CASE s \in out
    <3>1. new.start <= s.start /\ s.end <= new.end
      BY <1>5, <2>1 DEF Grown
    <3> QED BY <1>6, <3>1
  <2>2. CASE s \notin out
    BY <1>1, <1>6, <2>2
  <2> QED BY <2>1, <2>2
<1>16. ASSUME NEW E, Covered(d, f, E), Exact(d, f, E)
       PROVE  Exact(Diary!Folded(d, at, pct), g, E)
  <2> SUFFICES ASSUME NEW z \in Diary!Folded(d, at, pct), Clean(z, g, E)
               PROVE  z.events = Sum(g, Span(z))
    BY DEF Exact
  <2>1. CASE z \in d \ out
    <3>1. Clean(z, f, E)
      BY <1>2, <1>4, <1>12, <2>1 DEF Clean
    <3>2. z.events = Sum(f, Span(z))
      BY <1>16, <2>1, <3>1 DEF Exact
    <3> QED BY <1>12, <2>1, <3>2
  <2>2. CASE z = new
    <3>1. \A t \in Span(new) : f[t] > 0 => t \notin E
      <4>1. \A t \in Diary!Time : f[t] > 0 => g[t] > 0
        BY <1>4
      <4> QED BY <1>2, <2>2, <4>1 DEF Clean
    <3>2. ASSUME NEW s \in out
          PROVE  s.events = Sum(f, Span(s))
      <4>1. Span(s) \subseteq Span(new)
        BY <1>2, <1>8 DEF Times
      <4>2. Clean(s, f, E)
        BY <3>1, <4>1 DEF Clean
      <4> QED BY <1>6, <1>16, <4>2 DEF Exact
    <3>3. ASSUME NEW t \in Span(new) \ Times(out)
          PROVE  f[t] = 0
      <4>1. t \in Diary!Time
        BY <1>2
      <4>6. f[t] \in Nat
        BY <1>3, <4>1
      <4> SUFFICES ASSUME f[t] > 0
                   PROVE  FALSE
        BY <4>6
      <4>2. PICK s \in d : t \in Span(s)
        BY <1>16, <3>1, <4>1 DEF Covered
      <4>3. s \notin out
        BY <4>1, <4>2 DEF Times
      <4>4. s.end < new.start \/ new.end < s.start
        BY <1>1, <1>6, <1>7, <4>3
      <4>5. /\ s.start <= t /\ t <= s.end /\ new.start <= t /\ t <= new.end
            /\ t \in Int /\ s.end \in Int /\ s.start \in Int
            /\ new.start \in Int /\ new.end \in Int
        BY <1>1, <1>7, <4>1, <4>2 DEF Span, Diary!Within
      <4> QED BY <4>4, <4>5
    <3>4. new.events = Sum(f, Times(out)) + 1 /\ Sum(f, Times(out)) = Sum(f, Span(new))
      BY <1>8, <1>9, <3>2, <3>3
    <3> QED BY <1>10, <1>11, <2>2, <3>4
  <2> QED BY <1>6, <2>1, <2>2
<1>17. \A z \in Diary!Folded(d, at, pct) : Held(z, g)
  BY <1>6, <1>13, <1>14
<1>18. \E z \in Diary!Folded(d, at, pct) : at \in Span(z)
  BY <1>6, <1>8
<1> QED BY <1>4, <1>15, <1>16, <1>17, <1>18

-----------------------------------------------------------------------------
(* The diary and the history.                                              *)

\* How many of the rows in R are of time t.
Count(R, t) == Cardinality({r \in R : r.at = t})

LEMMA CountType ==
    ASSUME NEW R, IsFiniteSet(R), NEW t
    PROVE  /\ Count(R, t) \in Nat
           /\ (\A r \in R : r.at # t) => Count(R, t) = 0
           /\ Count(R, t) # 0 => \E r \in R : r.at = t
<1> DEFINE of == {r \in R : r.at = t}
<1>1. IsFiniteSet(of)
  BY FS_Subset
<1>2. Cardinality(of) \in Nat
  BY <1>1, FS_CardinalityType
<1>3. (\A r \in R : r.at # t) => of = {}
  OBVIOUS
<1>4. Cardinality({}) = 0
  BY FS_EmptySet
<1> HIDE DEF of
<1>5. (\A r \in R : r.at # t) => Cardinality(of) = 0
  BY <1>3, <1>4
<1> QED BY <1>2, <1>5 DEF Count, of

LEMMA CountMore ==
    ASSUME NEW R, IsFiniteSet(R), NEW r, r \notin R, NEW t
    PROVE  Count(R \cup {r}, t) = IF t = r.at THEN Count(R, t) + 1 ELSE Count(R, t)
<1>1. CASE t = r.at
  <2>1. {q \in R \cup {r} : q.at = t} = {q \in R : q.at = t} \cup {r}
    BY <1>1
  <2>2. IsFiniteSet({q \in R : q.at = t}) /\ r \notin {q \in R : q.at = t}
    BY FS_Subset
  <2>3. Cardinality({q \in R : q.at = t} \cup {r}) = Cardinality({q \in R : q.at = t}) + 1
    BY <2>2, FS_AddElement
  <2> QED BY <1>1, <2>1, <2>3 DEF Count
<1>2. CASE t # r.at
  <2>1. {q \in R \cup {r} : q.at = t} = {q \in R : q.at = t}
    BY <1>2
  <2> QED BY <1>2, <2>1 DEF Count
<1> QED BY <1>1, <1>2

\* All that was read at t is in the rows.
Full(t) == Count(rows, t) = read[t]

RowsKnown ==
    /\ IsFiniteSet(rows)
    /\ \A r \in rows : r.id <= spent.events /\ r.at <= r.received + Lead

\* Only what is older than a migration clears has left the rows without a reset.
Recorded ==
    \A t \in Diary!Time :
        /\ Count(rows, t) <= read[t]
        /\ ~missed /\ t \notin erased => Full(t) \/ t < now - Recent

Holding == \A s \in sittings : Held(s, read)

Faithful == ~missed => Exact(sittings, read, erased)

\* What was cleared is later than what was not, and all of it is in the rows.
Complete ==
    ~missed => \A t \in Diary!Time : read[t] > 0 /\ t \notin erased =>
        \/ \E s \in sittings : t \in Span(s)
        \/ behind /\ Full(t) /\ \A s \in sittings : s.end < t

\* How often each time was read as far as the backfill has come.
Tally ==
    [t \in Diary!Time |-> IF \E s \in sittings : t <= s.end THEN read[t]
                          ELSE Count(rows \ todo, t)]

Rederived ==
    phase = "deriving" =>
        /\ todo \subseteq {r \in rows : Diary!Uncovered(r)}
        /\ \A s \in draft : Held(s, Tally)
        /\ \A s \in sittings : \E z \in draft : z.start <= s.start /\ s.end <= z.end
        /\ \A r \in rows \ todo : Diary!Uncovered(r) => \E z \in draft : r.at \in Span(z)
        /\ ~missed => Exact(draft, Tally, erased)

History == RowsKnown /\ Recorded /\ Holding /\ Faithful /\ Complete /\ Rederived

DiaryInv == IInv /\ History

LEMMA TypesOfDiary ==
    ASSUME IInv
    PROVE  /\ read \in Counts /\ \A t \in Diary!Time : read[t] \in Nat
           /\ Book(sittings) /\ Book(draft)
           /\ \A s \in sittings \cup draft :
                 /\ s \in Diary!Sitting /\ s.start \in Diary!Time /\ s.end \in Diary!Time
                 /\ s.start <= s.end /\ Span(s) \in SUBSET Diary!Time
           /\ \A r \in rows : /\ r.id \in Nat /\ r.at \in Diary!Time /\ r.received \in Nat
                              /\ r \in Diary!Row
           /\ spent.events \in Nat /\ now \in Nat /\ erased \in SUBSET Diary!Time
           /\ missed \in BOOLEAN /\ behind \in BOOLEAN
<1>1. Book(sittings) /\ Book(draft)
  BY DiariesAreDiaries
<1>2. read \in [Diary!Time -> Nat]
  BY DEF IInv, Diary!TypeOK
<1>3. \A s \in sittings \cup draft :
         /\ s \in Diary!Sitting /\ s.start \in Diary!Time /\ s.end \in Diary!Time
         /\ s.start <= s.end /\ Span(s) \in SUBSET Diary!Time
  BY <1>1 DEF Book, Diary!Sitting, Diary!Apart, Span
<1>4. \A r \in rows : r \in Diary!Row
  BY DEF IInv, Diary!TypeOK
<1>5. \A r \in rows : r.id \in Nat /\ r.at \in Diary!Time /\ r.received \in Nat
  BY <1>4 DEF Diary!Row
<1>6. spent.events \in Nat
  BY DEF IInv, Diary!TypeOK
<1>7. /\ now \in Nat /\ erased \in SUBSET Diary!Time
      /\ missed \in BOOLEAN /\ behind \in BOOLEAN
  BY DEF IInv, Diary!TypeOK
<1>8. read \in Counts /\ \A t \in Diary!Time : read[t] \in Nat
  BY <1>2 DEF Counts
<1> QED BY <1>1, <1>3, <1>4, <1>5, <1>6, <1>7, <1>8

LEMMA InitHistory == Diary!Init => History
<1> SUFFICES ASSUME Diary!Init
             PROVE  History
  OBVIOUS
<1>1. /\ rows = {} /\ sittings = {Diary!Legacy} /\ phase = "serving" /\ ~behind /\ ~missed
      /\ read = [t \in Diary!Time |-> IF t = 0 THEN 1 ELSE 0] /\ erased = {} /\ now = Today
  BY DEF Diary!Init
<1>2. /\ Diary!Legacy.start = 0 /\ Diary!Legacy.end = 0 /\ Diary!Legacy.events = 1
      /\ 0 \in Diary!Time
  BY DEF Diary!Legacy
<1>3. read \in [Diary!Time -> Nat] /\ read[0] = 1 /\ \A t \in Diary!Time : t # 0 => read[t] = 0
  BY <1>1, <1>2
<1>4. Span(Diary!Legacy) = {0}
  BY <1>2 DEF Span, Diary!Within
<1>5. Sum(read, {0}) = 1
  <2>1. Sum(read, {}) = 0 /\ {} \in SUBSET Diary!Time /\ 0 \in Diary!Time \ {}
    BY <1>2, <1>3, SumMore
  <2>2. Sum(read, {} \cup {0}) = read[0] + Sum(read, {})
    BY <1>3, <2>1, SumMore
  <2>3. {} \cup {0} = {0}
    OBVIOUS
  <2> QED BY <1>3, <2>1, <2>2, <2>3
<1>6. IsFiniteSet(rows)
  BY <1>1, FS_EmptySet
<1>7. RowsKnown
  BY <1>1, <1>6 DEF RowsKnown
<1>8. Recorded
  <2>1. \A t : Count(rows, t) = 0
    BY <1>1, <1>6, CountType
  <2>2. 0 < now - Recent
    BY <1>1, LegacyAssumption DEF LegacyParameters
  <2> QED BY <1>3, <2>1, <2>2 DEF Recorded, Full
<1>9. Holding
  <2>1. Held(Diary!Legacy, read)
    BY <1>2, <1>3, <1>4, <1>5 DEF Held
  <2> QED BY <1>1, <2>1 DEF Holding
<1>10. Faithful
  BY <1>1, <1>2, <1>4, <1>5 DEF Faithful, Exact
<1>11. Complete
  BY <1>1, <1>3, <1>4 DEF Complete
<1>12. Rederived
  BY <1>1 DEF Rederived
<1> QED BY <1>7, <1>8, <1>9, <1>10, <1>11, <1>12 DEF History

LEMMA CheckpointHistory ==
    ASSUME DiaryInv, NEW at \in Diary!Time, NEW pct \in Positions, Diary!Checkpoint(at, pct)
    PROVE  History'
<1>1. /\ IInv /\ RowsKnown /\ Recorded /\ Holding /\ Faithful /\ Complete
  BY DEF DiaryInv, History
<1> DEFINE row == [id |-> spent.events + 1, at |-> at, received |-> now, pct |-> pct]
<1>2. /\ phase = "serving" /\ phase' = phase /\ at <= now + Lead
      /\ rows' = rows \cup {row}
      /\ sittings' = Diary!Folded(sittings, at, pct)
      /\ read' = [read EXCEPT ![at] = @ + 1]
      /\ missed' = (missed \/ behind)
      /\ now' = now /\ erased' = erased /\ behind' = behind
      /\ Diary!Spend("events")
  BY DEF Diary!Checkpoint
<1>3. spent'.events = spent.events + 1
  <2>1. spent' = [spent EXCEPT !["events"] = @ + 1]
    BY <1>2 DEF Diary!Spend
  <2>2. spent \in [events : 0..MaxEvents, resets : 0..MaxDiaryResets,
                   starts : 0..MaxStarts, clears : 0..MaxClears]
    BY <1>1 DEF IInv, Diary!TypeOK
  <2> QED BY <2>1, <2>2
<1>4. /\ row.id = spent.events + 1 /\ row.at = at /\ row.received = now
  OBVIOUS
<1> HIDE DEF row
<1>5. row \notin rows
  BY <1>1, <1>4, TypesOfDiary DEF RowsKnown
<1>6. IsFiniteSet(rows) /\ IsFiniteSet(rows')
  BY <1>1, <1>2, FS_AddElement DEF RowsKnown
<1>7. RowsKnown'
  <2>1. row.id <= spent'.events /\ row.at <= row.received + Lead
    BY <1>1, <1>2, <1>3, <1>4, TypesOfDiary
  <2>2. \A r \in rows : r.id <= spent'.events
    BY <1>1, <1>3, TypesOfDiary DEF RowsKnown
  <2> QED BY <1>1, <1>2, <1>6, <2>1, <2>2 DEF RowsKnown
<1>8. \A t \in Diary!Time :
         /\ Count(rows, t) \in Nat /\ read[t] \in Nat
         /\ Count(rows', t) = IF t = at THEN Count(rows, t) + 1 ELSE Count(rows, t)
         /\ read'[t] = IF t = at THEN read[t] + 1 ELSE read[t]
  <2>1. \A t : Count(rows, t) \in Nat
    BY <1>6, CountType
  <2>2. \A t : Count(rows \cup {row}, t) = IF t = row.at THEN Count(rows, t) + 1 ELSE Count(rows, t)
    BY <1>5, <1>6, CountMore
  <2>3. read \in [Diary!Time -> Nat]
    BY <1>1, TypesOfDiary DEF Counts
  <2> QED BY <1>2, <1>4, <2>1, <2>2, <2>3
<1>9. Recorded'
  <2> SUFFICES ASSUME NEW t \in Diary!Time
               PROVE  /\ Count(rows', t) <= read'[t]
                      /\ ~missed' /\ t \notin erased' =>
                            Count(rows', t) = read'[t] \/ t < now' - Recent
    BY DEF Recorded, Full
  <2>1. /\ Count(rows, t) <= read[t]
        /\ ~missed /\ t \notin erased => Count(rows, t) = read[t] \/ t < now - Recent
    BY <1>1 DEF Recorded, Full
  <2>2. (~missed' => ~missed) /\ erased' = erased /\ now' = now
    BY <1>2
  <2>3. CASE t = at
    BY <1>8, <2>1, <2>2, <2>3
  <2>4. CASE t # at
    BY <1>8, <2>1, <2>2, <2>4
  <2> QED BY <2>3, <2>4
<1>10. /\ \A z \in sittings' : Held(z, read')
       /\ \A s \in sittings : \E z \in sittings' : z.start <= s.start /\ s.end <= z.end
       /\ \E z \in sittings' : at \in Span(z)
       /\ Covered(sittings, read, erased) /\ Exact(sittings, read, erased)
             => Exact(sittings', read', erased)
  <2>1. Book(sittings) /\ read \in Counts /\ \A s \in sittings : Held(s, read)
    BY <1>1, TypesOfDiary DEF Holding
  <2> QED BY <1>2, <2>1, FoldHolds
<1>11. Holding'
  BY <1>10 DEF Holding
<1>12. ~missed' => ~missed /\ ~behind
  BY <1>2
<1>13. ~missed' => Covered(sittings, read, erased)
  BY <1>1, <1>12 DEF Complete, Covered
<1>14. Faithful'
  BY <1>1, <1>2, <1>10, <1>12, <1>13 DEF Faithful
<1>15. Complete'
  <2> SUFFICES ASSUME ~missed', NEW t \in Diary!Time, read'[t] > 0, t \notin erased
               PROVE  \E s \in sittings' : t \in Span(s)
    BY <1>2 DEF Complete
  <2>1. CASE t = at
    BY <1>10, <2>1
  <2>2. CASE t # at
    <3>1. PICK s \in sittings : t \in Span(s)
      BY <1>8, <1>13, <2>2 DEF Covered
    <3>2. PICK z \in sittings' : z.start <= s.start /\ s.end <= z.end
      BY <1>10
    <3>3. s.start \in Int /\ s.end \in Int /\ z.start \in Int /\ z.end \in Int
      <4>1. z \in Diary!Sitting
        <5>1. Book(sittings')
          BY <1>1, <1>2, TypesOfDiary, FoldKeepsDiary
        <5> QED BY <5>1 DEF Book
      <4> QED BY <1>1, <4>1, TypesOfDiary DEF Diary!Sitting
    <3>4. t \in Span(z)
      BY <3>1, <3>2, <3>3 DEF Span, Diary!Within
    <3> QED BY <3>4
  <2> QED BY <2>1, <2>2
<1>16. Rederived'
  BY <1>2 DEF Rederived
<1> QED BY <1>7, <1>9, <1>11, <1>14, <1>15, <1>16 DEF History

\* Fewer rows count no more, and as many where none is gone.
LEMMA CountLess ==
    ASSUME NEW R, IsFiniteSet(R), NEW Q, Q \subseteq R, NEW t
    PROVE  /\ IsFiniteSet(Q) /\ Count(Q, t) <= Count(R, t)
           /\ (\A r \in R \ Q : r.at # t) => Count(Q, t) = Count(R, t)
<1> DEFINE few == {r \in Q : r.at = t}
           many == {r \in R : r.at = t}
<1>1. few \subseteq many /\ IsFiniteSet(many) /\ IsFiniteSet(Q)
  BY FS_Subset
<1>2. (\A r \in R \ Q : r.at # t) => few = many
  OBVIOUS
<1>3. Cardinality(few) <= Cardinality(many)
  <2> HIDE DEF few, many
  <2> QED BY <1>1, FS_Subset
<1> QED BY <1>1, <1>2, <1>3 DEF Count

LEMMA StayHistory ==
    ASSUME DiaryInv,
           UNCHANGED <<rows, sittings, spent, read, erased, missed, behind>>,
           now' \in Nat, now <= now', Rederived'
    PROVE  History'
<1>1. RowsKnown /\ Recorded /\ Holding /\ Faithful /\ Complete
  BY DEF DiaryInv, History
<1>2. RowsKnown'
  BY <1>1 DEF RowsKnown
<1>3. Recorded'
  <2>1. \A t \in Diary!Time : t < now - Recent => t < now' - Recent
    BY TypesOfDiary DEF DiaryInv
  <2> QED BY <1>1, <2>1 DEF Recorded, Full
<1>4. Holding' /\ Faithful'
  BY <1>1 DEF Holding, Faithful
<1>5. Complete'
  BY <1>1 DEF Complete, Full
<1> QED BY <1>2, <1>3, <1>4, <1>5 DEF History

LEMMA TickHistory ==
    ASSUME DiaryInv, Diary!Tick
    PROVE  History'
<1>1. /\ UNCHANGED <<rows, sittings, phase, draft, todo, spent, read, erased, behind, missed>>
      /\ now' = now + 1
  BY DEF Diary!Tick
<1>2. now \in Nat /\ now' \in Nat /\ now <= now'
  BY <1>1, TypesOfDiary DEF DiaryInv
<1>3. Rederived'
  <2>1. Rederived
    BY DEF DiaryInv, History
  <2> QED BY <1>1, <2>1 DEF Rederived, Tally, Diary!Uncovered
<1> QED BY <1>1, <1>2, <1>3, StayHistory

LEMMA RestHistory ==
    ASSUME DiaryInv, Diary!Stop \/ Diary!DeriveFails
    PROVE  History'
<1>1. /\ UNCHANGED <<now, rows, sittings, read, erased, behind, missed>>
      /\ phase' # "deriving"
  BY DEF Diary!Stop, Diary!DeriveFails
<1>2. RowsKnown /\ Recorded /\ Holding /\ Faithful /\ Complete
  BY DEF DiaryInv, History
<1>3. spent'.events = spent.events
  <2>1. spent \in [events : 0..MaxEvents, resets : 0..MaxDiaryResets,
                   starts : 0..MaxStarts, clears : 0..MaxClears]
    BY DEF DiaryInv, IInv, Diary!TypeOK
  <2>2. spent' = spent \/ spent' = [spent EXCEPT !["starts"] = @ + 1]
    BY DEF Diary!Stop, Diary!DeriveFails, Diary!Spend
  <2> QED BY <2>1, <2>2
<1>4. RowsKnown'
  BY <1>1, <1>2, <1>3 DEF RowsKnown
<1>5. Recorded'
  BY <1>1, <1>2 DEF Recorded, Full
<1>6. Holding' /\ Faithful'
  BY <1>1, <1>2 DEF Holding, Faithful
<1>7. Complete'
  BY <1>1, <1>2 DEF Complete, Full
<1>8. Rederived'
  BY <1>1 DEF Rederived
<1> QED BY <1>4, <1>5, <1>6, <1>7, <1>8 DEF History

LEMMA ResetHistory ==
    ASSUME DiaryInv, Diary!Reset
    PROVE  History'
<1>1. IInv /\ RowsKnown /\ Recorded /\ Holding /\ Faithful /\ Complete
  BY DEF DiaryInv, History
<1>2. /\ UNCHANGED <<now, sittings, phase, draft, todo, read, behind, missed>>
      /\ phase = "serving" /\ rows' = {} /\ erased' = erased \cup {r.at : r \in rows}
  BY DEF Diary!Reset
<1>3. IsFiniteSet(rows')
  BY <1>2, FS_EmptySet
<1>4. RowsKnown'
  BY <1>2, <1>3 DEF RowsKnown
<1>5. ASSUME NEW t \in Diary!Time, t \notin erased'
      PROVE  Count(rows, t) = 0 /\ t \notin erased
  <2>1. \A r \in rows : r.at # t
    BY <1>2, <1>5
  <2> QED BY <1>1, <1>2, <1>5, <2>1, CountType DEF RowsKnown
<1>6. Recorded'
  <2>1. \A t : Count(rows', t) = 0
    BY <1>2, <1>3, CountType
  <2>2. \A t \in Diary!Time : read[t] \in Nat
    BY <1>1, TypesOfDiary
  <2> QED BY <1>1, <1>2, <1>5, <2>1, <2>2 DEF Recorded, Full
<1>7. Holding'
  BY <1>1, <1>2 DEF Holding
<1>8. Faithful'
  BY <1>1, <1>2 DEF Faithful, Exact, Clean
<1>9. Complete'
  BY <1>1, <1>2, <1>5 DEF Complete, Full
<1>10. Rederived'
  BY <1>2 DEF Rederived
<1> QED BY <1>4, <1>6, <1>7, <1>8, <1>9, <1>10 DEF History

LEMMA CompactHistory ==
    ASSUME DiaryInv, Diary!Compact
    PROVE  History'
<1>1. IInv /\ RowsKnown /\ Recorded /\ Holding /\ Faithful /\ Complete
  BY DEF DiaryInv, History
<1>2. PICK r \in rows : Diary!Compactable(r) /\ rows' = rows \ {r}
  BY DEF Diary!Compact
<1>3. /\ UNCHANGED <<now, sittings, phase, draft, todo, spent, read, erased, behind>>
      /\ phase = "serving" /\ missed' = (missed \/ behind)
  BY DEF Diary!Compact
<1>4. IsFiniteSet(rows')
  BY <1>1, <1>2, CountLess DEF RowsKnown
<1>5. RowsKnown'
  BY <1>1, <1>2, <1>3, <1>4 DEF RowsKnown
<1>6. r.at < now - Recent
  <2>1. r.received < now - Keep /\ r.at <= r.received + Lead
    BY <1>1, <1>2 DEF Diary!Compactable, RowsKnown
  <2>2. r.received \in Nat /\ r.at \in Nat /\ now \in Nat
    BY <1>1, TypesOfDiary
  <2> QED BY <2>1, <2>2
<1>7. Recorded'
  <2> SUFFICES ASSUME NEW t \in Diary!Time
               PROVE  /\ Count(rows', t) <= read[t]
                      /\ ~missed /\ t \notin erased => Count(rows', t) = read[t] \/ t < now - Recent
    BY <1>3 DEF Recorded, Full
  <2>1. /\ Count(rows', t) <= Count(rows, t)
        /\ t # r.at => Count(rows', t) = Count(rows, t)
    BY <1>1, <1>2, CountLess DEF RowsKnown
  <2>2. Count(rows', t) \in Nat /\ Count(rows, t) \in Nat /\ read[t] \in Nat
    BY <1>1, <1>4, CountType, TypesOfDiary DEF RowsKnown
  <2>3. /\ Count(rows, t) <= read[t]
        /\ ~missed /\ t \notin erased => Count(rows, t) = read[t] \/ t < now - Recent
    BY <1>1 DEF Recorded, Full
  <2> QED BY <1>6, <2>1, <2>2, <2>3
<1>8. Holding' /\ Faithful'
  BY <1>1, <1>3 DEF Holding, Faithful
<1>9. Complete'
  BY <1>1, <1>3 DEF Complete
<1>10. Rederived'
  BY <1>3 DEF Rederived
<1> QED BY <1>5, <1>7, <1>8, <1>9, <1>10 DEF History

LEMMA ClearHistory ==
    ASSUME DiaryInv, Diary!ClearRecent
    PROVE  History'
<1>1. IInv /\ RowsKnown /\ Recorded /\ Holding /\ Faithful /\ Complete
  BY DEF DiaryInv, History
<1>2. /\ UNCHANGED <<now, rows, phase, draft, todo, read, erased, missed>>
      /\ phase \in {"starting", "serving"}
      /\ sittings' = {s \in sittings : s.start < now - Recent} /\ behind' = TRUE
  BY DEF Diary!ClearRecent
<1>3. spent'.events = spent.events
  <2>1. spent \in [events : 0..MaxEvents, resets : 0..MaxDiaryResets,
                   starts : 0..MaxStarts, clears : 0..MaxClears]
    BY <1>1 DEF IInv, Diary!TypeOK
  <2>2. spent' = [spent EXCEPT !["clears"] = @ + 1]
    BY DEF Diary!ClearRecent, Diary!Spend
  <2> QED BY <2>1, <2>2
<1>4. RowsKnown'
  BY <1>1, <1>2, <1>3 DEF RowsKnown
<1>5. Recorded'
  BY <1>1, <1>2 DEF Recorded, Full
<1>6. Holding' /\ Faithful'
  BY <1>1, <1>2 DEF Holding, Faithful, Exact
<1>7. Complete'
  <2> SUFFICES ASSUME ~missed, NEW t \in Diary!Time, read[t] > 0, t \notin erased
               PROVE  \/ \E s \in sittings' : t \in Span(s)
                      \/ Full(t) /\ \A s \in sittings' : s.end < t
    BY <1>2 DEF Complete, Full
  <2>1. CASE behind /\ Full(t) /\ \A s \in sittings : s.end < t
    BY <1>2, <2>1
  <2>2. CASE \E s \in sittings : t \in Span(s)
    <3>1. PICK s \in sittings : t \in Span(s)
      BY <2>2
    <3>2. CASE s.start < now - Recent
      BY <1>2, <3>1, <3>2
    <3>3. CASE ~(s.start < now - Recent)
      <4>1. /\ s.start \in Nat /\ s.end \in Nat /\ t \in Nat /\ now \in Nat
            /\ s.start <= t /\ s.start <= s.end
        BY <1>1, <3>1, TypesOfDiary DEF Span, Diary!Within
      <4>2. ~(t < now - Recent)
        BY <3>3, <4>1
      <4>3. Full(t)
        BY <1>1, <4>2 DEF Recorded
      <4>4. ASSUME NEW z \in sittings'
            PROVE  z.end < t
        <5>1. z \in sittings /\ z.start < now - Recent
          BY <1>2
        <5>2. z.start \in Nat /\ z.end \in Nat
          BY <1>1, <5>1, TypesOfDiary
        <5>3. z # s
          BY <3>3, <5>1
        <5>4. z.end + Gap < s.start \/ s.end + Gap < z.start
          BY <1>1, <5>1, <5>3, TypesOfDiary DEF Book, Diary!Apart
        <5>5. z.start < s.start
          BY <3>3, <4>1, <5>1, <5>2
        <5> QED BY <4>1, <5>2, <5>4, <5>5
      <4> QED BY <4>3, <4>4
    <3> QED BY <3>2, <3>3
  <2> QED BY <1>1, <2>1, <2>2 DEF Complete
<1>8. Rederived'
  BY <1>2 DEF Rederived
<1> QED BY <1>4, <1>5, <1>6, <1>7, <1>8 DEF History

\* Two histories that agree up to the end of a sitting agree about the sitting.
LEMMA HeldSame ==
    ASSUME NEW f \in Counts, NEW g \in Counts, NEW s \in Diary!Sitting,
           \A t \in Diary!Time : t <= s.end => g[t] = f[t], s.start <= s.end
    PROVE  /\ Held(s, f) => Held(s, g)
           /\ Sum(g, Span(s)) = Sum(f, Span(s))
           /\ \A E : Clean(s, g, E) => Clean(s, f, E)
<1>1. s.start \in Diary!Time /\ s.end \in Diary!Time
  BY DEF Diary!Sitting
<1>2. Span(s) \in SUBSET Diary!Time /\ \A t \in Span(s) : t <= s.end
  BY DEF Span, Diary!Within
<1>3. \A t \in Span(s) : g[t] = f[t]
  BY <1>2
<1>4. Sum(g, Span(s)) = Sum(f, Span(s))
  BY <1>2, <1>3, SumSame DEF Counts
<1>5. \A E : Clean(s, g, E) => Clean(s, f, E)
  BY <1>3 DEF Clean
<1>6. ASSUME Held(s, f)
      PROVE  Held(s, g)
  <2>1. g[s.start] > 0 /\ g[s.end] > 0
    <3>1. s.end <= s.end
      BY <1>1
    <3>2. g[s.start] = f[s.start] /\ g[s.end] = f[s.end]
      BY <1>1, <3>1
    <3> QED BY <1>6, <3>2 DEF Held
  <2>2. s.events <= Sum(g, Span(s))
    BY <1>4, <1>6 DEF Held
  <2>3. ASSUME NEW t \in Diary!Time, s.start <= t, t < s.end
        PROVE  \E r \in Diary!Time : t < r /\ r <= s.end /\ r - t <= Gap /\ g[r] > 0
    <3>1. PICK r \in Diary!Time : t < r /\ r <= s.end /\ r - t <= Gap /\ f[r] > 0
      BY <1>6, <2>3 DEF Held
    <3>2. g[r] > 0
      BY <3>1
    <3> QED BY <3>1, <3>2
  <2> QED BY <2>1, <2>2, <2>3 DEF Held
<1> QED BY <1>4, <1>5, <1>6

LEMMA TallyCounts ==
    ASSUME DiaryInv
    PROVE  /\ Tally \in Counts
           /\ \A t \in Diary!Time : Tally[t] <= read[t]
           /\ \A t \in Diary!Time : Tally[t] = IF \E s \in sittings : t <= s.end THEN read[t]
                                               ELSE Count(rows \ todo, t)
<1>1. \A t : Count(rows \ todo, t) \in Nat /\ Count(rows, t) \in Nat
             /\ Count(rows \ todo, t) <= Count(rows, t)
  BY CountLess, CountType DEF DiaryInv, History, RowsKnown
<1>2. \A t \in Diary!Time : read[t] \in Nat /\ Count(rows, t) <= read[t]
  BY TypesOfDiary DEF DiaryInv, History, Recorded
<1>3. \A t \in Diary!Time : Tally[t] = IF \E s \in sittings : t <= s.end THEN read[t]
                                       ELSE Count(rows \ todo, t)
  BY DEF Tally
<1>4. Tally \in [Diary!Time -> Nat]
  BY <1>1, <1>2 DEF Tally
<1>5. ASSUME NEW t \in Diary!Time
      PROVE  Tally[t] <= read[t]
  <2>1. Tally[t] = read[t] \/ Tally[t] = Count(rows \ todo, t)
    BY <1>3
  <2>2. /\ Count(rows \ todo, t) \in Nat /\ Count(rows, t) \in Nat /\ read[t] \in Nat
        /\ Count(rows \ todo, t) <= Count(rows, t) /\ Count(rows, t) <= read[t]
    BY <1>1, <1>2
  <2> QED BY <2>1, <2>2
<1> QED BY <1>3, <1>4, <1>5 DEF Counts

LEMMA DeriveHistory ==
    ASSUME DiaryInv, Diary!Derive
    PROVE  History'
<1>1. IInv /\ RowsKnown /\ Recorded /\ Holding /\ Faithful /\ Complete
  BY DEF DiaryInv, History
<1>2. /\ UNCHANGED <<now, rows, sittings, spent, read, erased, behind, missed>>
      /\ draft' = sittings /\ todo' = {r \in rows : Diary!Uncovered(r)}
  BY DEF Diary!Derive
<1>3. RowsKnown'
  BY <1>1, <1>2 DEF RowsKnown
<1>4. Recorded'
  BY <1>1, <1>2 DEF Recorded, Full
<1>5. Holding' /\ Faithful'
  BY <1>1, <1>2 DEF Holding, Faithful
<1>6. Complete'
  BY <1>1, <1>2 DEF Complete, Full
<1>7. Rederived'
  <2>1. \A t : Count(rows \ todo', t) \in Nat
    BY <1>1, CountLess, CountType DEF RowsKnown
  <2>2. \A t \in Diary!Time : Tally'[t] = IF \E s \in sittings : t <= s.end THEN read[t]
                                          ELSE Count(rows \ todo', t)
    BY <1>2 DEF Tally
  <2>3. Tally' \in Counts
    <3>1. \A t \in Diary!Time : read[t] \in Nat
      BY <1>1, TypesOfDiary
    <3> QED BY <1>2, <2>1, <3>1 DEF Tally, Counts
  <2>4. ASSUME NEW s \in sittings
        PROVE  /\ Held(s, Tally')
               /\ ~missed /\ Clean(s, Tally', erased) => s.events = Sum(Tally', Span(s))
    <3>1. /\ s \in Diary!Sitting /\ s.start <= s.end /\ read \in Counts
      BY <1>1, TypesOfDiary
    <3>2. \A t \in Diary!Time : t <= s.end => Tally'[t] = read[t]
      BY <2>2
    <3>3. /\ Held(s, read) => Held(s, Tally')
          /\ Sum(Tally', Span(s)) = Sum(read, Span(s))
          /\ Clean(s, Tally', erased) => Clean(s, read, erased)
      BY <2>3, <3>1, <3>2, HeldSame
    <3> QED BY <1>1, <3>3 DEF Holding, Faithful, Exact
  <2>5. /\ todo' \subseteq {r \in rows' : Diary!Uncovered(r)'}
        /\ \A r \in rows' \ todo' : ~Diary!Uncovered(r)'
    BY <1>2 DEF Diary!Uncovered
  <2>6. \A s \in sittings : s.start <= s.start /\ s.end <= s.end
    BY <1>1, TypesOfDiary
  <2> QED BY <1>2, <2>4, <2>5, <2>6 DEF Rederived, Exact
<1> QED BY <1>3, <1>4, <1>5, <1>6, <1>7 DEF History

LEMMA EndsHistory ==
    ASSUME DiaryInv, Diary!DeriveEnds
    PROVE  History'
<1>1. IInv /\ RowsKnown /\ Recorded /\ Holding /\ Faithful /\ Complete /\ Rederived
  BY DEF DiaryInv, History
<1>2. /\ UNCHANGED <<now, rows, spent, read, erased, missed>>
      /\ phase = "deriving" /\ phase' = "serving" /\ todo = {} /\ sittings' = draft
  BY DEF Diary!DeriveEnds
<1>3. RowsKnown'
  BY <1>1, <1>2 DEF RowsKnown
<1>4. Recorded'
  BY <1>1, <1>2 DEF Recorded, Full
<1>5. /\ Tally \in Counts /\ read \in Counts
      /\ \A t \in Diary!Time : Tally[t] <= read[t]
      /\ \A t \in Diary!Time : Tally[t] = IF \E s \in sittings : t <= s.end THEN read[t]
                                          ELSE Count(rows, t)
  <2>1. rows \ todo = rows
    BY <1>2
  <2> QED BY <1>1, <2>1, TallyCounts, TypesOfDiary
<1>6. Holding'
  <2> SUFFICES ASSUME NEW s \in draft
               PROVE  Held(s, read)
    BY <1>2 DEF Holding
  <2>1. s \in Diary!Sitting /\ Held(s, Tally)
    BY <1>1, <1>2, TypesOfDiary DEF Rederived
  <2> QED BY <1>5, <2>1, HeldMore
<1>7. ASSUME ~missed, NEW t \in Diary!Time, read[t] > 0, t \notin erased
      PROVE  Tally[t] = read[t] /\ \E z \in draft : t \in Span(z)
  <2>1. CASE \E s \in sittings : t \in Span(s)
    <3>1. PICK s \in sittings : t \in Span(s)
      BY <2>1
    <3>2. PICK z \in draft : z.start <= s.start /\ s.end <= z.end
      BY <1>1, <1>2 DEF Rederived
    <3>3. s.start <= t /\ t <= s.end
      BY <3>1 DEF Span, Diary!Within
    <3>4. s.start \in Int /\ s.end \in Int /\ z.start \in Int /\ z.end \in Int
      <4>1. s.start \in Diary!Time /\ s.end \in Diary!Time
        BY <1>1, TypesOfDiary
      <4>2. z.start \in Diary!Time /\ z.end \in Diary!Time
        BY <1>1, TypesOfDiary
      <4> QED BY <4>1, <4>2
    <3>5. t \in Span(z)
      BY <3>2, <3>3, <3>4 DEF Span, Diary!Within
    <3> QED BY <1>5, <3>3, <3>5
  <2>2. CASE behind /\ Full(t) /\ \A s \in sittings : s.end < t
    <3>1. Count(rows, t) = read[t]
      BY <2>2 DEF Full
    <3>2. \A s \in sittings : ~(t <= s.end)
      BY <1>1, <2>2, TypesOfDiary
    <3>3. Count(rows, t) # 0
      BY <1>1, <1>7, <3>1, TypesOfDiary
    <3>4. PICK r \in rows : r.at = t
      BY <1>1, <3>3, CountType DEF RowsKnown
    <3>5. Diary!Uncovered(r)
      BY <1>1, <2>2, <3>4, TypesOfDiary DEF Diary!Uncovered
    <3>6. \E z \in draft : r.at \in Span(z)
      BY <1>1, <1>2, <3>5 DEF Rederived
    <3> QED BY <1>5, <3>1, <3>2, <3>4, <3>6
  <2> QED BY <1>1, <1>7, <2>1, <2>2 DEF Complete
<1>8. Faithful'
  <2> SUFFICES ASSUME ~missed, NEW s \in draft, Clean(s, read, erased)
               PROVE  s.events = Sum(read, Span(s))
    BY <1>2 DEF Faithful, Exact
  <2>1. Span(s) \in SUBSET Diary!Time
    BY <1>1, TypesOfDiary
  <2>2. ASSUME NEW t \in Span(s)
        PROVE  Tally[t] = read[t]
    <3>1. t \in Diary!Time /\ read[t] \in Nat /\ Tally[t] \in Nat /\ Tally[t] <= read[t]
      BY <1>1, <1>5, <2>1, TypesOfDiary DEF Counts
    <3>2. CASE read[t] = 0
      BY <3>1, <3>2
    <3>3. CASE read[t] > 0
      BY <1>7, <3>1, <3>3 DEF Clean
    <3> QED BY <3>1, <3>2, <3>3
  <2>3. Sum(Tally, Span(s)) = Sum(read, Span(s))
    BY <1>5, <2>1, <2>2, SumSame DEF Counts
  <2>4. Clean(s, Tally, erased)
    BY <2>2 DEF Clean
  <2> QED BY <1>1, <1>2, <2>3, <2>4 DEF Rederived, Exact
<1>9. Complete'
  BY <1>2, <1>7 DEF Complete
<1>10. Rederived'
  BY <1>2 DEF Rederived
<1> QED BY <1>3, <1>4, <1>6, <1>8, <1>9, <1>10 DEF History

\* The backfill counts one checkpoint more.
LEMMA NextTally ==
    ASSUME DiaryInv, Diary!DeriveNext
    PROVE  \E r \in todo : /\ r \in rows /\ r.at \in Diary!Time /\ r.pct \in Positions
                           /\ Diary!Uncovered(r)
                           /\ draft' = Diary!Folded(draft, r.at, r.pct) /\ todo' = todo \ {r}
                           /\ Tally' = [Tally EXCEPT ![r.at] = @ + 1]
<1>1. IInv /\ RowsKnown /\ Recorded /\ Holding /\ Faithful /\ Complete /\ Rederived
  BY DEF DiaryInv, History
<1>2. /\ UNCHANGED <<now, rows, sittings, phase, spent, read, erased, behind, missed>>
      /\ phase = "deriving"
  BY DEF Diary!DeriveNext
<1>3. PICK r \in todo : draft' = Diary!Folded(draft, r.at, r.pct) /\ todo' = todo \ {r}
  BY DEF Diary!DeriveNext, Diary!Earliest
<1>4. /\ todo \subseteq rows /\ r \in rows /\ Diary!Uncovered(r)
      /\ r.at \in Diary!Time /\ r.pct \in Positions
  <2>1. todo \subseteq rows /\ r \in rows /\ Diary!Uncovered(r)
    BY <1>1, <1>2, <1>3 DEF Rederived
  <2>2. r \in Diary!Row
    BY <1>1, <2>1, TypesOfDiary
  <2> QED BY <2>1, <2>2 DEF Diary!Row
<1>5. Tally' = [Tally EXCEPT ![r.at] = @ + 1]
  <2>1. /\ IsFiniteSet(rows \ todo) /\ r \notin rows \ todo
        /\ rows \ todo' = (rows \ todo) \cup {r}
    BY <1>1, <1>3, <1>4, CountLess DEF RowsKnown
  <2>2. \A t : Count(rows \ todo', t) = IF t = r.at THEN Count(rows \ todo, t) + 1
                                       ELSE Count(rows \ todo, t)
    BY <2>1, CountMore
  <2>3. \A s \in sittings : ~(r.at <= s.end)
    <3>1. \A s \in sittings : r.at > s.end /\ s.end \in Diary!Time
      BY <1>1, <1>4, TypesOfDiary DEF Diary!Uncovered
    <3> QED BY <1>4, <3>1
  <2>4. Tally' = [t \in Diary!Time |-> IF \E s \in sittings : t <= s.end THEN read[t]
                                       ELSE Count(rows \ todo', t)]
    BY <1>2 DEF Tally
  <2>5. Tally = [t \in Diary!Time |-> IF \E s \in sittings : t <= s.end THEN read[t]
                                      ELSE Count(rows \ todo, t)]
    BY DEF Tally
  <2>6. [Tally EXCEPT ![r.at] = @ + 1]
          = [t \in Diary!Time |-> IF t = r.at THEN Tally[t] + 1 ELSE Tally[t]]
    BY <1>4, <2>5
  <2>7. ASSUME NEW t \in Diary!Time
        PROVE  (IF \E s \in sittings : t <= s.end THEN read[t] ELSE Count(rows \ todo', t))
                 = IF t = r.at THEN Tally[t] + 1 ELSE Tally[t]
    <3>1. Tally[t] = IF \E s \in sittings : t <= s.end THEN read[t] ELSE Count(rows \ todo, t)
      BY <2>5
    <3>2. CASE t = r.at
      BY <2>2, <2>3, <3>1, <3>2
    <3>3. CASE t # r.at
      BY <2>2, <3>1, <3>3
    <3> QED BY <3>2, <3>3
  <2> QED BY <2>4, <2>6, <2>7
<1> QED BY <1>3, <1>4, <1>5

LEMMA NextHistory ==
    ASSUME DiaryInv, Diary!DeriveNext
    PROVE  History'
<1>1. IInv /\ RowsKnown /\ Recorded /\ Holding /\ Faithful /\ Complete /\ Rederived
  BY DEF DiaryInv, History
<1>2. /\ UNCHANGED <<now, rows, sittings, phase, spent, read, erased, behind, missed>>
      /\ phase = "deriving"
  BY DEF Diary!DeriveNext
<1>3. PICK r \in todo : /\ r \in rows /\ r.at \in Diary!Time /\ r.pct \in Positions
                        /\ Diary!Uncovered(r)
                        /\ draft' = Diary!Folded(draft, r.at, r.pct) /\ todo' = todo \ {r}
                        /\ Tally' = [Tally EXCEPT ![r.at] = @ + 1]
  BY NextTally
<1>4. todo \subseteq rows
  BY <1>1, <1>2 DEF Rederived
<1>5. RowsKnown'
  BY <1>1, <1>2 DEF RowsKnown
<1>6. Recorded'
  BY <1>1, <1>2 DEF Recorded, Full
<1>7. Holding' /\ Faithful'
  BY <1>1, <1>2 DEF Holding, Faithful
<1>8. Complete'
  BY <1>1, <1>2 DEF Complete, Full
<1>9. Tally' = [Tally EXCEPT ![r.at] = @ + 1]
  BY <1>3
<1>10. /\ \A z \in draft' : Held(z, Tally')
       /\ \A s \in draft : \E z \in draft' : z.start <= s.start /\ s.end <= z.end
       /\ \E z \in draft' : r.at \in Span(z)
       /\ Covered(draft, Tally, erased) /\ Exact(draft, Tally, erased)
             => Exact(draft', Tally', erased)
  <2>1. Book(draft) /\ Tally \in Counts /\ \A s \in draft : Held(s, Tally)
    BY <1>1, <1>2, TallyCounts, TypesOfDiary DEF Rederived
  <2> QED BY <1>3, <1>4, <1>9, <2>1, FoldHolds
<1>11. \A z \in draft \cup draft' : z.start \in Int /\ z.end \in Int
  <2>1. Book(draft)
    BY <1>1, TypesOfDiary
  <2>2. Book(draft')
    BY <1>3, <1>4, <2>1, FoldKeepsDiary
  <2>3. \A z \in draft \cup draft' : z.start \in Diary!Time /\ z.end \in Diary!Time
    BY <2>1, <2>2 DEF Book, Diary!Sitting
  <2> QED BY <2>3
<1>12. \A s \in sittings : s.start \in Int /\ s.end \in Int
  <2>1. \A s \in sittings : s.start \in Diary!Time /\ s.end \in Diary!Time
    BY <1>1, TypesOfDiary
  <2> QED BY <2>1
<1>13. ASSUME NEW s, NEW z, z.start <= s.start, s.end <= z.end, NEW t \in Span(s),
              s.start \in Int, s.end \in Int, z.start \in Int, z.end \in Int
       PROVE  t \in Span(z)
  <2>1. t \in Int
    BY DEF Span
  <2> QED BY <1>13, <2>1 DEF Span, Diary!Within
<1>14. ~missed => Covered(draft, Tally, erased)
  <2> SUFFICES ASSUME ~missed, NEW t \in Diary!Time, Tally[t] > 0, t \notin erased
               PROVE  \E z \in draft : t \in Span(z)
    BY DEF Covered
  <2>1. CASE \E s \in sittings : t <= s.end
    <3>1. read[t] > 0
      BY <2>1, TallyCounts
    <3>2. ~ \A s \in sittings : s.end < t
      BY <1>12, <2>1
    <3>3. PICK s \in sittings : t \in Span(s)
      BY <1>1, <3>1, <3>2 DEF Complete
    <3>4. PICK z \in draft : z.start <= s.start /\ s.end <= z.end
      BY <1>1, <1>2 DEF Rederived
    <3> QED BY <1>11, <1>12, <1>13, <3>3, <3>4
  <2>2. CASE ~ \E s \in sittings : t <= s.end
    <3>1. IsFiniteSet(rows \ todo) /\ Count(rows \ todo, t) # 0
      <4>1. IsFiniteSet(rows \ todo)
        BY <1>1, CountLess DEF RowsKnown
      <4>2. Tally[t] = Count(rows \ todo, t)
        BY <2>2, TallyCounts
      <4> QED BY <4>1, <4>2
    <3>2. PICK q \in rows \ todo : q.at = t
      BY <3>1, CountType
    <3>3. Diary!Uncovered(q)
      BY <1>12, <2>2, <3>2 DEF Diary!Uncovered
    <3> QED BY <1>1, <1>2, <3>2, <3>3 DEF Rederived
  <2> QED BY <2>1, <2>2
<1>15. \A s \in sittings : \E z \in draft' : z.start <= s.start /\ s.end <= z.end
  <2> SUFFICES ASSUME NEW s \in sittings
               PROVE  \E z \in draft' : z.start <= s.start /\ s.end <= z.end
    OBVIOUS
  <2>1. PICK y \in draft : y.start <= s.start /\ s.end <= y.end
    BY <1>1, <1>2 DEF Rederived
  <2>2. PICK z \in draft' : z.start <= y.start /\ y.end <= z.end
    BY <1>10
  <2> QED BY <1>11, <1>12, <2>1, <2>2
<1>16. ASSUME NEW q \in rows \ todo', Diary!Uncovered(q)
       PROVE  \E z \in draft' : q.at \in Span(z)
  <2>1. CASE q = r
    BY <1>10, <2>1
  <2>2. CASE q # r
    <3>1. PICK y \in draft : q.at \in Span(y)
      BY <1>1, <1>2, <1>3, <1>16, <2>2 DEF Rederived
    <3>2. PICK z \in draft' : z.start <= y.start /\ y.end <= z.end
      BY <1>10
    <3> QED BY <1>11, <1>13, <3>1, <3>2
  <2> QED BY <2>1, <2>2
<1>17. \A q : Diary!Uncovered(q)' <=> Diary!Uncovered(q)
  BY <1>2 DEF Diary!Uncovered
<1>18. todo' \subseteq {q \in rows : Diary!Uncovered(q)}
  BY <1>1, <1>2, <1>3 DEF Rederived
<1>19. ~missed => Exact(draft', Tally', erased)
  BY <1>1, <1>2, <1>10, <1>14 DEF Rederived
<1>20. Rederived'
  BY <1>2, <1>10, <1>15, <1>16, <1>17, <1>18, <1>19 DEF Rederived
<1> QED BY <1>5, <1>6, <1>7, <1>8, <1>20 DEF History

LEMMA DiaryStep == DiaryInv /\ [Diary!Next]_(Diary!vars) => History'
<1> SUFFICES ASSUME DiaryInv, [Diary!Next]_(Diary!vars)
             PROVE  History'
  OBVIOUS
<1>1. ASSUME NEW at \in Diary!Time, NEW pct \in Positions, Diary!Checkpoint(at, pct)
      PROVE  History'
  BY <1>1, CheckpointHistory
<1>2. CASE Diary!Reset
  BY <1>2, ResetHistory
<1>3. CASE Diary!Compact
  BY <1>3, CompactHistory
<1>4. CASE Diary!Tick
  BY <1>4, TickHistory
<1>5. CASE Diary!Stop \/ Diary!DeriveFails
  BY <1>5, RestHistory
<1>6. CASE Diary!ClearRecent
  BY <1>6, ClearHistory
<1>7. CASE Diary!Derive
  BY <1>7, DeriveHistory
<1>8. CASE Diary!DeriveNext
  BY <1>8, NextHistory
<1>9. CASE Diary!DeriveEnds
  BY <1>9, EndsHistory
<1>10. CASE UNCHANGED Diary!vars
  <2>1. UNCHANGED <<now, rows, sittings, phase, draft, todo, spent, read, erased, behind, missed>>
    BY <1>10 DEF Diary!vars
  <2>2. now \in Nat /\ Rederived
    BY TypesOfDiary DEF DiaryInv, History
  <2>3. Rederived'
    BY <2>1, <2>2 DEF Rederived, Tally, Diary!Uncovered
  <2>4. now' \in Nat /\ now <= now'
    BY <2>1, <2>2
  <2> QED BY <2>1, <2>3, <2>4, StayHistory
<1> QED BY <1>1, <1>2, <1>3, <1>4, <1>5, <1>6, <1>7, <1>8, <1>9, <1>10 DEF Diary!Next

LEMMA AlwaysDiaryInv == Diary!Spec => []DiaryInv
<1>1. Diary!Init => DiaryInv
  BY InitOK, InitHistory DEF DiaryInv
<1>2. DiaryInv /\ [Diary!Next]_(Diary!vars) => DiaryInv'
  BY StepKeeps, DiaryStep DEF DiaryInv
<1> QED BY <1>1, <1>2, PTL DEF Diary!Spec

LEMMA DiaryInvSuffices == DiaryInv => DiaryIsTheHistory
<1> SUFFICES ASSUME DiaryInv
             PROVE  Diary!DiaryIsTheHistory
  BY DEF DiaryIsTheHistory
<1>1. IInv /\ Holding /\ Faithful /\ Complete
  BY DEF DiaryInv, History
<1>2. Diary!Apart(sittings) /\ read \in [Diary!Time -> Nat]
  BY <1>1, TypesOfDiary DEF Book, Counts
<1>3. ASSUME NEW s \in sittings
      PROVE  /\ {s.start, s.end} \subseteq Diary!ReadIn(s)
             /\ \A t \in Diary!ReadIn(s) :
                   t = s.end \/ \E r \in Diary!ReadIn(s) : t < r /\ r - t <= Gap
             /\ s.events <= Diary!CheckpointsIn(s)
             /\ ~missed /\ Diary!ReadIn(s) \cap erased = {} => s.events = Diary!CheckpointsIn(s)
  <2>1. /\ s.start \in Diary!Time /\ s.end \in Diary!Time /\ s.start <= s.end
        /\ Span(s) \in SUBSET Diary!Time
    BY <1>1, TypesOfDiary
  <2>2. Held(s, read)
    BY <1>1 DEF Holding
  <2>3. Diary!ReadIn(s) = {t \in Span(s) : read[t] > 0}
    BY DEF Diary!ReadIn, Span
  <2>4. {s.start, s.end} \subseteq Diary!ReadIn(s)
    BY <2>1, <2>2 DEF Held, Diary!ReadIn, Diary!Within
  <2>5. ASSUME NEW t \in Diary!ReadIn(s)
        PROVE  t = s.end \/ \E r \in Diary!ReadIn(s) : t < r /\ r - t <= Gap
    <3>1. t \in Diary!Time /\ s.start <= t /\ t <= s.end
      BY DEF Diary!ReadIn, Diary!Within
    <3>2. CASE t < s.end
      <4>1. PICK r \in Diary!Time : t < r /\ r <= s.end /\ r - t <= Gap /\ read[r] > 0
        BY <2>2, <3>1, <3>2 DEF Held
      <4>2. s.start <= r
        BY <2>1, <3>1, <4>1
      <4>3. r \in Diary!ReadIn(s)
        BY <4>1, <4>2 DEF Diary!ReadIn, Diary!Within
      <4> QED BY <4>1, <4>3
    <3>3. CASE ~(t < s.end)
      BY <2>1, <3>1, <3>3
    <3> QED BY <3>2, <3>3
  <2>6. Diary!CheckpointsIn(s) = Sum(read, Span(s))
    <3>1. Diary!CheckpointsIn(s) = Sum(read, Diary!ReadIn(s))
      BY DEF Diary!CheckpointsIn, Sum
    <3>2. Diary!ReadIn(s) \in SUBSET Span(s)
      BY <2>3
    <3>3. \A t \in Span(s) \ Diary!ReadIn(s) : read[t] = 0
      BY <1>2, <2>1, <2>3
    <3> QED BY <1>2, <2>1, <3>1, <3>2, <3>3, SumOfPart
  <2>7. s.events <= Diary!CheckpointsIn(s)
    BY <2>2, <2>6 DEF Held
  <2>8. ASSUME ~missed, Diary!ReadIn(s) \cap erased = {}
        PROVE  s.events = Diary!CheckpointsIn(s)
    <3>1. Clean(s, read, erased)
      BY <2>3, <2>8 DEF Clean
    <3> QED BY <1>1, <2>6, <2>8, <3>1 DEF Faithful, Exact
  <2> QED BY <2>4, <2>5, <2>7, <2>8
<1>4. ASSUME ~behind, ~missed, NEW t \in Diary!Time \ erased, read[t] > 0
      PROVE  \E s \in sittings : Diary!Within(s, t)
  <2>1. PICK s \in sittings : t \in Span(s)
    BY <1>1, <1>4 DEF Complete
  <2> QED BY <2>1 DEF Span
<1> QED BY <1>2, <1>3, <1>4 DEF Diary!DiaryIsTheHistory

-----------------------------------------------------------------------------
(* What a sitting is credited with.                                        *)

\* The ground that k steps over a stretch of time may cover at most.
Ground(k, units) == Floor * k + Pace * units

\* What k steps back go over at most and at least.
Farthest(k) == MaxBack * k
Nearest(k) == (Jitter + 1) * k

LEMMA Products ==
    \A c \in Nat : /\ \A a \in Nat, b \in Nat : c * (a + b) = c * a + c * b
                   /\ \A a \in Nat : c * a \in Nat /\ c * a = a * c
                   /\ c * 0 = 0 /\ c * 1 = c
OBVIOUS

LEMMA GroundType ==
    ASSUME NEW k \in Nat, NEW units \in Nat
    PROVE  Ground(k, units) \in Nat
<1>1. Floor * k \in Nat /\ Pace * units \in Nat
  BY Products
<1> QED BY <1>1 DEF Ground

LEMMA GroundAdds ==
    ASSUME NEW k \in Nat, NEW units \in Nat, NEW j \in Nat, NEW more \in Nat
    PROVE  Ground(k, units) + Ground(j, more) = Ground(k + j, units + more)
<1>1. Floor \in Nat /\ Pace \in Nat
  OBVIOUS
<1>2. /\ Floor * (k + j) = Floor * k + Floor * j
      /\ Pace * (units + more) = Pace * units + Pace * more
  BY <1>1, Products
<1>3. /\ Floor * k \in Nat /\ Floor * j \in Nat /\ Pace * units \in Nat /\ Pace * more \in Nat
  BY <1>1, Products
<1> QED BY <1>2, <1>3 DEF Ground

LEMMA GroundOfNothing == Ground(0, 0) = 0
<1>1. Floor * 0 = 0 /\ Pace * 0 = 0
  BY Products
<1> QED BY <1>1 DEF Ground

LEMMA BackAdds ==
    /\ \A k \in Nat : Farthest(k) \in Nat /\ Nearest(k) \in Nat
    /\ \A k \in Nat, j \in Nat : /\ Farthest(k) + Farthest(j) = Farthest(k + j)
                                 /\ Nearest(k) + Nearest(j) = Nearest(k + j)
    /\ Farthest(0) = 0 /\ Nearest(0) = 0
    /\ Farthest(1) = MaxBack /\ Nearest(1) = Jitter + 1
<1>1. MaxBack \in Nat /\ Jitter + 1 \in Nat
  OBVIOUS
<1> QED BY <1>1, Products DEF Farthest, Nearest

\* One step.
LEMMA ForwardIsGround ==
    ASSUME NEW from \in Positions, NEW to \in Positions, NEW took \in Nat
    PROVE  /\ Diary!Forward(from, to, took) \in Nat
           /\ Diary!Forward(from, to, took) <= Ground(1, took)
<1>1. Floor * 1 = Floor /\ Pace * took \in Nat /\ took * Pace = Pace * took
  BY Products
<1>2. Ground(1, took) = Floor + Pace * took
  BY <1>1 DEF Ground
<1> DEFINE walk == Pace * took
<1>3. Diary!Plausible(took) = IF walk <= Floor THEN Floor ELSE walk
  BY <1>1 DEF Diary!Plausible
<1>4. walk \in Nat /\ Ground(1, took) = Floor + walk
  BY <1>1, <1>2
<1> HIDE DEF walk
<1>5. Diary!Plausible(took) \in Nat /\ Diary!Plausible(took) <= Ground(1, took)
  BY <1>3, <1>4
<1>6. Diary!Forward(from, to, took) = IF to > from /\ to - from <= Diary!Plausible(took)
                                      THEN to - from ELSE 0
  BY DEF Diary!Forward
<1> QED BY <1>4, <1>5, <1>6

LEMMA RereadIsNear ==
    ASSUME NEW from \in Positions, NEW to \in Positions
    PROVE  LET k == Diary!Rereads(from, to)
               back == Diary!Reread(from, to)
           IN  k \in {0, 1} /\ back \in Nat /\ Nearest(k) <= back /\ back <= Farthest(k)
<1>1. from \in Nat /\ to \in Nat
  OBVIOUS
<1>2. CASE from - to > Jitter /\ from - to <= MaxBack
  <2>1. Diary!Reread(from, to) = from - to /\ from - to > 0
    BY <1>1, <1>2 DEF Diary!Reread
  <2>2. Diary!Rereads(from, to) = 1
    BY <2>1 DEF Diary!Rereads
  <2>3. Nearest(1) <= from - to /\ from - to <= Farthest(1) /\ from - to \in Nat
    BY <1>1, <1>2, BackAdds
  <2> QED BY <2>1, <2>2, <2>3
<1>3. CASE ~(from - to > Jitter /\ from - to <= MaxBack)
  <2>1. Diary!Reread(from, to) = 0
    BY <1>3 DEF Diary!Reread
  <2>2. Diary!Rereads(from, to) = 0
    BY <2>1 DEF Diary!Rereads
  <2> QED BY <2>1, <2>2, BackAdds
<1> QED BY <1>2, <1>3

LEMMA CountedAdds ==
    ASSUME NEW a \in Nat, NEW b \in Nat
    PROVE  /\ Diary!Counted(a + b) <= Diary!Counted(a) + Diary!Counted(b)
           /\ Diary!Counted(0) = 0
<1>1. StepCap \in Nat
  OBVIOUS
<1>2. \A k \in Nat : Diary!Counted(k) = IF k <= StepCap THEN k ELSE StepCap
  BY DEF Diary!Counted
<1>3. Diary!Counted(0) = 0
  BY <1>1, <1>2
<1>4. /\ Diary!Counted(a) = IF a <= StepCap THEN a ELSE StepCap
      /\ Diary!Counted(b) = IF b <= StepCap THEN b ELSE StepCap
      /\ Diary!Counted(a + b) = IF a + b <= StepCap THEN a + b ELSE StepCap
  BY <1>2
<1> QED BY <1>1, <1>3, <1>4

LEMMA PlusAdds ==
    /\ \A a \in Nat \cup {Unmeasured}, b \in Nat :
          /\ Diary!Plus(a, b) = Unmeasured <=> a = Unmeasured
          /\ a # Unmeasured => Diary!Plus(a, b) = a + b
BY DEF Diary!Plus

\* So many steps over so much time cover no less than ground.
Covers(steps, ground, units) == ground <= Ground(steps, units)

LEMMA CoversAdds ==
    ASSUME NEW n \in Nat, NEW a \in Nat, NEW w \in Nat,
           NEW m \in Nat, NEW c \in Nat, NEW v \in Nat, Covers(n, a, w), Covers(m, c, v)
    PROVE  Covers(n + m, a + c, w + v)
<1> DEFINE x == Ground(n, w)
           y == Ground(m, v)
<1>1. Floor \in Nat /\ Pace \in Nat
  OBVIOUS
<1>2. Floor * (n + m) = Floor * n + Floor * m
  BY <1>1, Products
<1>3. Pace * (w + v) = Pace * w + Pace * v
  BY <1>1, Products
<1>4. /\ Floor * n \in Nat /\ Floor * m \in Nat /\ Pace * w \in Nat /\ Pace * v \in Nat
  BY <1>1, Products
<1>5. Ground(n + m, w + v) = x + y /\ x \in Nat /\ y \in Nat
  BY <1>2, <1>3, <1>4 DEF Ground
<1>6. a <= x /\ c <= y
  BY DEF Covers
<1> HIDE DEF x, y
<1>7. a + c <= x + y
  BY <1>5, <1>6
<1> QED BY <1>5, <1>7 DEF Covers

\* A stretch of so many steps over so much time covers no more ground, and goes
\* back as far, as its steps can.
Stretch(steps, ground, units, rereads, back) ==
    /\ Covers(steps, ground, units)
    /\ rereads <= steps
    /\ Nearest(rereads) <= back /\ back <= Farthest(rereads)

LEMMA StretchesAdd ==
    ASSUME NEW n \in Nat, NEW a \in Nat, NEW w \in Nat, NEW r \in Nat, NEW b \in Nat,
           NEW m \in Nat, NEW c \in Nat, NEW v \in Nat, NEW q \in Nat, NEW d \in Nat,
           Stretch(n, a, w, r, b), Stretch(m, c, v, q, d)
    PROVE  Stretch(n + m, a + c, w + v, r + q, b + d)
<1>1. Covers(n, a, w) /\ Covers(m, c, v)
  BY DEF Stretch
<1>2. Covers(n + m, a + c, w + v)
  BY <1>1, CoversAdds, Zenon
<1>3. /\ Nearest(r) + Nearest(q) = Nearest(r + q) /\ Farthest(r) + Farthest(q) = Farthest(r + q)
      /\ Nearest(r) \in Nat /\ Nearest(q) \in Nat /\ Farthest(r) \in Nat /\ Farthest(q) \in Nat
  BY BackAdds
<1>4. Nearest(r + q) <= b + d /\ b + d <= Farthest(r + q)
  BY <1>3 DEF Stretch
<1>5. r + q <= n + m
  BY DEF Stretch
<1> QED BY <1>2, <1>4, <1>5 DEF Stretch

LEMMA StepIsStretch ==
    ASSUME NEW from \in Positions, NEW to \in Positions, NEW took \in Nat
    PROVE  Stretch(1, Diary!Forward(from, to, took), took,
                   Diary!Rereads(from, to), Diary!Reread(from, to))
<1>1. Covers(1, Diary!Forward(from, to, took), took)
  BY ForwardIsGround DEF Covers
<1>2. /\ Diary!Rereads(from, to) \in {0, 1}
      /\ Nearest(Diary!Rereads(from, to)) <= Diary!Reread(from, to)
      /\ Diary!Reread(from, to) <= Farthest(Diary!Rereads(from, to))
  BY RereadIsNear
<1> QED BY <1>1, <1>2 DEF Stretch

\* s is credited with no more ground, and with just the steps back, that its
\* checkpoints can show.
Walked(s) ==
    /\ 1 <= s.events
    /\ Stretch(s.events - 1, s.advanced, s.end - s.start, s.rereads, s.back)

\* What a step credits a sitting with.
LEMMA StepCredits ==
    ASSUME NEW s \in Diary!Sitting, NEW from \in Positions, NEW to \in Positions, NEW took \in Nat
    PROVE  /\ Diary!WithStep(s, from, to, took).advanced = s.advanced + Diary!Forward(from, to, took)
           /\ Diary!WithStep(s, from, to, took).active = Diary!Plus(s.active, Diary!Counted(took))
           /\ Diary!WithStep(s, from, to, took).rereads = s.rereads + Diary!Rereads(from, to)
           /\ Diary!WithStep(s, from, to, took).back = s.back + Diary!Reread(from, to)
           /\ Diary!WithStep(s, from, to, took).events = s.events + 1
<1> DEFINE advanced == s.advanced + Diary!Forward(from, to, took)
           active == Diary!Plus(s.active, Diary!Counted(took))
           rereads == s.rereads + Diary!Rereads(from, to)
           back == s.back + Diary!Reread(from, to)
           events == s.events + 1
           new == [s EXCEPT !.events = events, !.advanced = advanced, !.active = active,
                            !.rereads = rereads, !.back = back]
<1>1. Diary!WithStep(s, from, to, took) = new
  BY DEF Diary!WithStep
<1> HIDE DEF events, advanced, active, rereads, back
<1>2. /\ new.advanced = advanced /\ new.active = active /\ new.rereads = rereads
      /\ new.back = back /\ new.events = events
  BY DEF Diary!Sitting
<1> HIDE DEF new
<1> QED BY <1>1, <1>2 DEF events, advanced, active, rereads, back

LEMMA WalkedExtended ==
    ASSUME NEW p \in Diary!Sitting, NEW at \in Diary!Time, NEW pct \in Positions,
           p.start <= p.end, p.end <= at, Walked(p)
    PROVE  /\ Walked(Diary!Extended(p, at, pct))
           /\ Diary!Extended(p, at, pct).active = Diary!Plus(p.active, Diary!Counted(at - p.end))
<1> DEFINE new == Diary!Extended(p, at, pct)
           from == p.last
           took == at - p.end
           old == Diary!WithStep(p, from, pct, took)
<1>1. /\ from \in Positions /\ took \in Nat /\ p.end - p.start \in Nat
      /\ p.events \in Nat /\ p.advanced \in Nat /\ p.rereads \in Nat /\ p.back \in Nat
      /\ (p.end - p.start) + took = at - p.start
  BY DEF Diary!Sitting
<1>2. old \in Diary!Sitting
  <2> HIDE DEF from, took
  <2> QED BY <1>1, WithStepType
<1>3. /\ old.advanced = p.advanced + Diary!Forward(from, pct, took)
      /\ old.active = Diary!Plus(p.active, Diary!Counted(took))
      /\ old.rereads = p.rereads + Diary!Rereads(from, pct)
      /\ old.back = p.back + Diary!Reread(from, pct)
      /\ old.events = p.events + 1
  <2> HIDE DEF from, took
  <2> QED BY <1>1, StepCredits
<1>4. new = [old EXCEPT !.end = at, !.last = pct]
  BY DEF Diary!Extended
<1> HIDE DEF old
<1>5. /\ new.advanced = old.advanced /\ new.rereads = old.rereads /\ new.back = old.back
      /\ new.events = old.events /\ new.active = old.active
  <2> HIDE DEF new
  <2> QED BY <1>2, <1>4 DEF Diary!Sitting
<1>6. new.start = p.start /\ new.end = at
  BY ExtendedType
<1>7. PICK n \in Nat : n = p.events - 1
  BY <1>1 DEF Walked
<1>8. PICK w \in Nat : w = p.end - p.start
  BY <1>1
<1> HIDE DEF new, from, took
<1>9. Stretch(n, p.advanced, w, p.rereads, p.back)
  BY <1>7, <1>8 DEF Walked
<1>10. Stretch(1, Diary!Forward(from, pct, took), took, Diary!Rereads(from, pct), Diary!Reread(from, pct))
  BY <1>1, StepIsStretch
<1>11. PICK c \in Nat, q \in Nat, d \in Nat :
          /\ c = Diary!Forward(from, pct, took)
          /\ q = Diary!Rereads(from, pct) /\ d = Diary!Reread(from, pct)
  BY <1>1, ForwardType, RereadType
<1>12. Stretch(n + 1, p.advanced + c, w + took, p.rereads + q, p.back + d)
  <2>1. Stretch(1, c, took, q, d)
    BY <1>10, <1>11
  <2>2. 1 \in Nat
    OBVIOUS
  <2> HIDE DEF Diary!Time
  <2> QED BY <1>1, <1>9, <2>1, <2>2, StretchesAdd
<1>13. new.events - 1 = n + 1 /\ 1 <= new.events /\ new.end - new.start = w + took
  BY <1>1, <1>3, <1>5, <1>6, <1>7, <1>8
<1>14. Walked(new)
  BY <1>3, <1>5, <1>11, <1>12, <1>13 DEF Walked
<1> QED BY <1>3, <1>5, <1>14 DEF new, took

LEMMA WalkedExtendedBack ==
    ASSUME NEW n \in Diary!Sitting, NEW at \in Diary!Time, NEW pct \in Positions,
           n.start <= n.end, at <= n.start, Walked(n)
    PROVE  /\ Walked(Diary!ExtendedBack(n, at, pct))
           /\ Diary!ExtendedBack(n, at, pct).active = Diary!Plus(n.active, Diary!Counted(n.start - at))
<1> DEFINE new == Diary!ExtendedBack(n, at, pct)
           to == n.first
           took == n.start - at
           old == Diary!WithStep(n, pct, to, took)
<1>1. /\ to \in Positions /\ took \in Nat /\ n.end - n.start \in Nat
      /\ n.events \in Nat /\ n.advanced \in Nat /\ n.rereads \in Nat /\ n.back \in Nat
      /\ (n.end - n.start) + took = n.end - at
  BY DEF Diary!Sitting
<1>2. old \in Diary!Sitting
  <2> HIDE DEF to, took
  <2> QED BY <1>1, WithStepType
<1>3. /\ old.advanced = n.advanced + Diary!Forward(pct, to, took)
      /\ old.active = Diary!Plus(n.active, Diary!Counted(took))
      /\ old.rereads = n.rereads + Diary!Rereads(pct, to)
      /\ old.back = n.back + Diary!Reread(pct, to)
      /\ old.events = n.events + 1
  <2> HIDE DEF to, took
  <2> QED BY <1>1, StepCredits
<1>4. new = [old EXCEPT !.start = at, !.first = pct]
  BY DEF Diary!ExtendedBack
<1> HIDE DEF old
<1>5. /\ new.advanced = old.advanced /\ new.rereads = old.rereads /\ new.back = old.back
      /\ new.events = old.events /\ new.active = old.active
  <2> HIDE DEF new
  <2> QED BY <1>2, <1>4 DEF Diary!Sitting
<1>6. new.start = at /\ new.end = n.end
  BY ExtendedBackType
<1>7. PICK m \in Nat : m = n.events - 1
  BY <1>1 DEF Walked
<1>8. PICK w \in Nat : w = n.end - n.start
  BY <1>1
<1> HIDE DEF new, to, took
<1>9. Stretch(m, n.advanced, w, n.rereads, n.back)
  BY <1>7, <1>8 DEF Walked
<1>10. Stretch(1, Diary!Forward(pct, to, took), took, Diary!Rereads(pct, to), Diary!Reread(pct, to))
  BY <1>1, StepIsStretch
<1>11. PICK c \in Nat, q \in Nat, d \in Nat :
          /\ c = Diary!Forward(pct, to, took)
          /\ q = Diary!Rereads(pct, to) /\ d = Diary!Reread(pct, to)
  BY <1>1, ForwardType, RereadType
<1>12. Stretch(m + 1, n.advanced + c, w + took, n.rereads + q, n.back + d)
  <2>1. Stretch(1, c, took, q, d)
    BY <1>10, <1>11
  <2>2. 1 \in Nat
    OBVIOUS
  <2> HIDE DEF Diary!Time
  <2> QED BY <1>1, <1>9, <2>1, <2>2, StretchesAdd
<1>13. new.events - 1 = m + 1 /\ 1 <= new.events /\ new.end - new.start = w + took
  BY <1>1, <1>3, <1>5, <1>6, <1>7, <1>8
<1>14. Walked(new)
  BY <1>3, <1>5, <1>11, <1>12, <1>13 DEF Walked
<1> QED BY <1>3, <1>5, <1>14 DEF new, took

LEMMA WalkedMerged ==
    ASSUME NEW p \in Diary!Sitting, NEW n \in Diary!Sitting,
           NEW at \in Diary!Time, NEW pct \in Positions,
           p.start <= p.end, p.end <= at, at <= n.start, n.start <= n.end, Walked(p), Walked(n)
    PROVE  /\ Walked(Diary!Merged(p, n, at, pct))
           /\ Diary!Merged(p, n, at, pct).active
                = Diary!Plus(Diary!Plus(p.active, Diary!Counted(at - p.end)),
                             Diary!Plus(n.active, Diary!Counted(n.start - at)))
<1> DEFINE new == Diary!Merged(p, n, at, pct)
           toEvent == Diary!Extended(p, at, pct)
           fromEvent == Diary!ExtendedBack(n, at, pct)
<1>1. /\ Walked(toEvent) /\ Walked(fromEvent)
      /\ toEvent.active = Diary!Plus(p.active, Diary!Counted(at - p.end))
      /\ fromEvent.active = Diary!Plus(n.active, Diary!Counted(n.start - at))
  BY WalkedExtended, WalkedExtendedBack
<1>2. /\ toEvent \in Diary!Sitting /\ toEvent.start = p.start /\ toEvent.end = at
      /\ fromEvent \in Diary!Sitting /\ fromEvent.start = at /\ fromEvent.end = n.end
      /\ toEvent.events = p.events + 1 /\ fromEvent.events = n.events + 1
  BY ExtendedType, ExtendedBackType, EventsOfExtended
<1>3. /\ new.advanced = toEvent.advanced + fromEvent.advanced
      /\ new.rereads = toEvent.rereads + fromEvent.rereads
      /\ new.back = toEvent.back + fromEvent.back
      /\ new.events = p.events + n.events + 1 /\ new.start = p.start /\ new.end = n.end
      /\ new.active = Diary!Plus(toEvent.active, fromEvent.active)
  BY DEF Diary!Merged
<1> HIDE DEF new, toEvent, fromEvent
<1>4. /\ toEvent.advanced \in Nat /\ toEvent.rereads \in Nat /\ toEvent.back \in Nat
      /\ fromEvent.advanced \in Nat /\ fromEvent.rereads \in Nat /\ fromEvent.back \in Nat
      /\ p.events \in Nat /\ n.events \in Nat
  BY <1>2 DEF Diary!Sitting
<1>5. PICK w \in Nat, v \in Nat : /\ w = at - p.start /\ v = n.end - at
                                  /\ w + v = n.end - p.start
  BY DEF Diary!Sitting
<1>6. /\ Stretch(p.events, toEvent.advanced, w, toEvent.rereads, toEvent.back)
      /\ Stretch(n.events, fromEvent.advanced, v, fromEvent.rereads, fromEvent.back)
  <2>1. toEvent.events - 1 = p.events /\ fromEvent.events - 1 = n.events
    BY <1>2, <1>4
  <2> QED BY <1>1, <1>2, <1>5, <2>1 DEF Walked
<1>7. Stretch(p.events + n.events, toEvent.advanced + fromEvent.advanced, w + v,
              toEvent.rereads + fromEvent.rereads, toEvent.back + fromEvent.back)
  <2> HIDE DEF Diary!Time
  <2> QED BY <1>4, <1>6, StretchesAdd
<1>8. /\ 1 <= new.events /\ new.events - 1 = p.events + n.events
      /\ new.end - new.start = w + v
  BY <1>3, <1>4, <1>5
<1>9. Walked(new)
  BY <1>3, <1>7, <1>8 DEF Walked
<1> QED BY <1>1, <1>3, <1>9 DEF new, toEvent, fromEvent

-----------------------------------------------------------------------------
(* What the clock shows of a sitting.                                      *)

\* The units of time from a on and before b that a reader who was read of at the
\* times of f can have been reading: each within a step of such a time.
Units(a, b, f) ==
    {u \in Diary!Time : /\ a <= u /\ u < b
                        /\ \E t \in Diary!Time : f[t] > 0 /\ a <= t /\ t <= u /\ u - t < StepCap}

Known(a, b, f) == Cardinality(Units(a, b, f))

LEMMA KnownType ==
    ASSUME NEW a, NEW b, NEW f
    PROVE  /\ Units(a, b, f) \in SUBSET Diary!Time /\ IsFiniteSet(Units(a, b, f))
           /\ Known(a, b, f) \in Nat
<1>1. Units(a, b, f) \in SUBSET Diary!Time
  BY DEF Units
<1> QED BY <1>1, TimesAreFinite DEF Known

LEMMA KnownMore ==
    ASSUME NEW a \in Diary!Time, NEW b \in Diary!Time,
           NEW f, NEW g, \A t \in Diary!Time : t <= b /\ f[t] > 0 => g[t] > 0
    PROVE  Known(a, b, f) <= Known(a, b, g)
<1>1. ASSUME NEW u \in Units(a, b, f)
      PROVE  u \in Units(a, b, g)
  <2>1. /\ u \in Diary!Time /\ a <= u /\ u < b
        /\ \E t \in Diary!Time : f[t] > 0 /\ a <= t /\ t <= u /\ u - t < StepCap
    BY DEF Units
  <2>2. PICK t \in Diary!Time : f[t] > 0 /\ a <= t /\ t <= u /\ u - t < StepCap
    BY <2>1
  <2>3. g[t] > 0
    BY <2>1, <2>2
  <2> QED BY <2>1, <2>2, <2>3 DEF Units
<1>2. Units(a, b, f) \in SUBSET Units(a, b, g)
  BY <1>1
<1> QED BY <1>2, KnownType, FS_Subset DEF Known

\* What is known of two stretches one after the other is known of both together.
LEMMA KnownAdds ==
    ASSUME NEW a \in Diary!Time, NEW m \in Diary!Time, NEW b \in Diary!Time, a <= m, m <= b,
           NEW f
    PROVE  Known(a, m, f) + Known(m, b, f) <= Known(a, b, f)
<1> DEFINE early == Units(a, m, f)
           late == Units(m, b, f)
<1>1. early \cup late \in SUBSET Units(a, b, f)
  <2>1. ASSUME NEW u \in early
        PROVE  u \in Units(a, b, f)
    BY DEF Units
  <2>2. ASSUME NEW u \in late
        PROVE  u \in Units(a, b, f)
    <3>1. PICK t \in Diary!Time : f[t] > 0 /\ m <= t /\ t <= u /\ u - t < StepCap
      BY DEF Units
    <3>2. u \in Diary!Time /\ m <= u /\ u < b
      BY DEF Units
    <3>3. a <= t /\ a <= u
      BY <3>1, <3>2
    <3> QED BY <3>1, <3>2, <3>3 DEF Units
  <2> QED BY <2>1, <2>2
<1>2. early \cap late = {}
  BY DEF Units
<1>3. IsFiniteSet(early) /\ IsFiniteSet(late) /\ IsFiniteSet(Units(a, b, f))
  BY KnownType
<1>4. Known(a, m, f) = Cardinality(early) /\ Known(m, b, f) = Cardinality(late)
  BY DEF Known
<1>5. Cardinality(early) \in Nat /\ Cardinality(late) \in Nat
  BY <1>3, FS_CardinalityType
<1> HIDE DEF early, late
<1>6. Cardinality(early \cup late) = Cardinality(early) + Cardinality(late) - Cardinality({})
  BY <1>2, <1>3, FS_Union
<1>7. Cardinality({}) = 0
  BY FS_EmptySet
<1>8. Cardinality(early \cup late) <= Cardinality(Units(a, b, f))
  BY <1>1, <1>3, FS_Subset
<1>9. Cardinality(early \cup late) = Cardinality(early) + Cardinality(late)
  BY <1>5, <1>6, <1>7
<1> QED BY <1>4, <1>8, <1>9 DEF Known

\* A step from a time read of is known of as far as it is counted.
LEMMA StepIsKnown ==
    ASSUME NEW a \in Diary!Time, NEW b \in Diary!Time, a <= b, NEW f, f[a] > 0
    PROVE  Diary!Counted(b - a) <= Known(a, b, f)
<1> DEFINE n == Diary!Counted(b - a)
           counted == a..(a + n - 1)
<1>1. n \in Nat /\ n <= b - a /\ n <= StepCap
  BY DEF Diary!Counted
<1> HIDE DEF n
<1>2. a \in Int /\ a + n - 1 \in Int
  BY <1>1
<1>3. Cardinality(counted) = n
  <2>1. Cardinality(counted) = IF a > a + n - 1 THEN 0 ELSE (a + n - 1) - a + 1
    BY <1>2, FS_Interval
  <2> QED BY <1>1, <2>1
<1>4. counted \in SUBSET Units(a, b, f)
  <2> SUFFICES ASSUME NEW u \in counted
               PROVE  u \in Units(a, b, f)
    OBVIOUS
  <2>1. u \in Int /\ a <= u /\ u < a + n
    BY <1>1
  <2>2. u < b /\ u - a < StepCap /\ u \in Diary!Time
    BY <1>1, <2>1
  <2>3. a <= a
    OBVIOUS
  <2> QED BY <2>1, <2>2, <2>3 DEF Units
<1>5. Cardinality(counted) <= Cardinality(Units(a, b, f))
  BY <1>4, KnownType, FS_Subset
<1> QED BY <1>3, <1>5 DEF Known, n

\* A sitting whose time was kept is credited with no less of it than its ends
\* show and no more than is known of it.
Shown(x, a, b, f) == x # Unmeasured => Diary!Counted(b - a) <= x /\ x <= Known(a, b, f)

Timed(s, f) == Shown(s.active, s.start, s.end, f)

\* Two stretches that are timed, one after the other, are one.
LEMMA TimesAdd ==
    ASSUME NEW a \in Diary!Time, NEW m \in Diary!Time, NEW b \in Diary!Time, a <= m, m <= b,
           NEW f, NEW x \in Nat, NEW y \in Nat,
           Diary!Counted(m - a) <= x, x <= Known(a, m, f),
           Diary!Counted(b - m) <= y, y <= Known(m, b, f)
    PROVE  Diary!Counted(b - a) <= x + y /\ x + y <= Known(a, b, f)
<1>1. /\ m - a \in Nat /\ b - m \in Nat /\ b - a \in Nat
      /\ (m - a) + (b - m) = b - a
  OBVIOUS
<1>2. PICK v \in Nat, w \in Nat : v = m - a /\ w = b - m
  BY <1>1
<1>3. Diary!Counted(v + w) <= Diary!Counted(v) + Diary!Counted(w)
  BY CountedAdds
<1>4. v + w = b - a
  BY <1>1, <1>2
<1>5. /\ Diary!Counted(v) \in Nat /\ Diary!Counted(w) \in Nat /\ Diary!Counted(v + w) \in Nat
  <2>1. v + w \in Nat
    OBVIOUS
  <2> QED BY <2>1, CountedType
<1>6. Diary!Counted(b - a) <= x + y
  BY <1>2, <1>3, <1>4, <1>5
<1>7. x + y <= Known(a, b, f)
  <2>1. Known(a, m, f) + Known(m, b, f) <= Known(a, b, f)
    BY KnownAdds
  <2>2. Known(a, m, f) \in Nat /\ Known(m, b, f) \in Nat /\ Known(a, b, f) \in Nat
    BY KnownType
  <2> QED BY <2>1, <2>2
<1> QED BY <1>6, <1>7

\* A step at the end of a sitting, and one at its beginning, is timed with it.
LEMMA TimedFurther ==
    ASSUME NEW a \in Diary!Time, NEW m \in Diary!Time, NEW b \in Diary!Time, a <= m, m <= b,
           NEW f, f[m] > 0, NEW x \in Nat \cup {Unmeasured},
           Shown(x, a, m, f)
    PROVE  /\ Diary!Plus(x, Diary!Counted(b - m)) = Unmeasured <=> x = Unmeasured
           /\ Shown(Diary!Plus(x, Diary!Counted(b - m)), a, b, f)
<1> DEFINE y == Diary!Plus(x, Diary!Counted(b - m))
<1>1. PICK c \in Nat : c = Diary!Counted(b - m)
  <2>1. b - m \in Nat
    OBVIOUS
  <2> QED BY <2>1, CountedType
<1>2. /\ y = Unmeasured <=> x = Unmeasured
      /\ x # Unmeasured => y = x + c
  BY <1>1, PlusAdds
<1>3. ASSUME x # Unmeasured
      PROVE  Diary!Counted(b - a) <= y /\ y <= Known(a, b, f)
  <2>1. x \in Nat /\ Diary!Counted(m - a) <= x /\ x <= Known(a, m, f)
    BY <1>3 DEF Shown
  <2>2. c <= Known(m, b, f) /\ Diary!Counted(b - m) <= c
    BY <1>1, StepIsKnown
  <2>3. Diary!Counted(b - a) <= x + c /\ x + c <= Known(a, b, f)
    BY <2>1, <2>2, TimesAdd
  <2> QED BY <1>2, <1>3, <2>3
<1> QED BY <1>2, <1>3 DEF Shown

LEMMA TimedEarlier ==
    ASSUME NEW a \in Diary!Time, NEW m \in Diary!Time, NEW b \in Diary!Time, a <= m, m <= b,
           NEW f, f[a] > 0, NEW x \in Nat \cup {Unmeasured},
           Shown(x, m, b, f)
    PROVE  /\ Diary!Plus(x, Diary!Counted(m - a)) = Unmeasured <=> x = Unmeasured
           /\ Shown(Diary!Plus(x, Diary!Counted(m - a)), a, b, f)
<1> DEFINE y == Diary!Plus(x, Diary!Counted(m - a))
<1>1. PICK c \in Nat : c = Diary!Counted(m - a)
  <2>1. m - a \in Nat
    OBVIOUS
  <2> QED BY <2>1, CountedType
<1>2. /\ y = Unmeasured <=> x = Unmeasured
      /\ x # Unmeasured => y = x + c
  BY <1>1, PlusAdds
<1>3. ASSUME x # Unmeasured
      PROVE  Diary!Counted(b - a) <= y /\ y <= Known(a, b, f)
  <2>1. x \in Nat /\ Diary!Counted(b - m) <= x /\ x <= Known(m, b, f)
    BY <1>3 DEF Shown
  <2>2. c <= Known(a, m, f) /\ Diary!Counted(m - a) <= c
    BY <1>1, StepIsKnown
  <2>3. Diary!Counted(b - a) <= c + x /\ c + x <= Known(a, b, f)
    BY <2>1, <2>2, TimesAdd
  <2>4. c + x = x + c
    BY <2>1
  <2> QED BY <1>2, <1>3, <2>3, <2>4
<1> QED BY <1>2, <1>3 DEF Shown

\* Only the sitting of long ago was not timed, and it is still there.
Begun(d) ==
    /\ \E s \in d : s.start = 0
    /\ \A s \in d : s.active = Unmeasured <=> s.start = 0

\* What d says of how its sittings were read is what the times of f can show.
Measure(d, f) == Begun(d) /\ \A s \in d : Walked(s) /\ Timed(s, f)

LEMMA TimedMore ==
    ASSUME NEW s \in Diary!Sitting, NEW f, Timed(s, f),
           NEW g, \A t \in Diary!Time : t <= s.end /\ f[t] > 0 => g[t] > 0
    PROVE  Timed(s, g)
<1>0. s.start \in Diary!Time /\ s.end \in Diary!Time
  BY DEF Diary!Sitting
<1>1. Known(s.start, s.end, f) <= Known(s.start, s.end, g)
  <2> HIDE DEF Diary!Time
  <2> QED BY <1>0, KnownMore
<1>2. Known(s.start, s.end, f) \in Nat /\ Known(s.start, s.end, g) \in Nat
  BY KnownType
<1>3. s.active # Unmeasured => s.active \in Nat
  BY DEF Diary!Sitting
<1> QED BY <1>1, <1>2, <1>3 DEF Timed, Shown

\* A new sitting in the place of some, in a diary that is measured.
LEMMA ReplacedMeasures ==
    ASSUME NEW d, NEW f, NEW out, NEW new, Measure(d, f), Walked(new), Timed(new, f),
           new.active = Unmeasured <=> new.start = 0,
           (\E s \in out : s.start = 0) => new.start = 0
    PROVE  Measure((d \ out) \cup {new}, f)
<1>1. \A s \in d : Walked(s) /\ Timed(s, f) /\ (s.active = Unmeasured <=> s.start = 0)
  BY DEF Measure, Begun
<1>2. PICK s \in d : s.start = 0
  BY DEF Measure, Begun
<1>3. \E r \in (d \ out) \cup {new} : r.start = 0
  BY <1>2
<1>4. \A r \in (d \ out) \cup {new} :
         Walked(r) /\ Timed(r, f) /\ (r.active = Unmeasured <=> r.start = 0)
  BY <1>1
<1> QED BY <1>3, <1>4 DEF Measure, Begun

LEMMA FoldMeasures ==
    ASSUME NEW d, Book(d), NEW at \in Diary!Time, NEW pct \in Positions, NEW f \in Counts,
           \A s \in d : Held(s, f), Measure(d, f),
           NEW g, \A t \in Diary!Time : f[t] > 0 => g[t] > 0, g[at] > 0
    PROVE  Measure(Diary!Folded(d, at, pct), g)
<1>1. (\A t \in Diary!Time : f[t] > 0 => g[t] > 0) /\ g[at] > 0
  OBVIOUS
<1>2. \A s \in d : /\ s \in Diary!Sitting /\ s.start \in Diary!Time /\ s.end \in Diary!Time
                   /\ s.start <= s.end /\ s.active \in Nat \cup {Unmeasured}
                   /\ s.events \in Nat
  BY DEF Book, Diary!Sitting, Diary!Apart
<1>3. \A s \in d : g[s.start] > 0 /\ g[s.end] > 0
  BY <1>1, <1>2 DEF Held
<1>4. Measure(d, g)
  <2>1. \A s \in d : Timed(s, g)
    BY <1>1, <1>2, TimedMore DEF Measure
  <2> QED BY <2>1 DEF Measure
<1>5. PICK first \in d : first.start = 0
  BY <1>4 DEF Measure, Begun
<1>6. \A s \in d : /\ Walked(s) /\ Timed(s, g) /\ (s.active = Unmeasured <=> s.start = 0)
  BY <1>4 DEF Measure, Begun
<1> DEFINE after == Diary!Folded(d, at, pct)
<1>7. ASSUME NEW p \in d, Replaced(d, at, pct, {p}, Diary!Touched(p))
      PROVE  Measure(after, g)
  <2> DEFINE new == Diary!Touched(p)
  <2>1. /\ new.start = p.start /\ new.end = p.end /\ new.active = p.active
        /\ new.events = p.events + 1 /\ new.advanced = p.advanced
        /\ new.rereads = p.rereads /\ new.back = p.back
    BY <1>2 DEF Diary!Touched, Diary!Sitting
  <2> HIDE DEF new
  <2>2. Timed(new, g) /\ (new.active = Unmeasured <=> new.start = 0)
    BY <1>6, <2>1 DEF Timed, Shown
  <2>3. Walked(new)
    <3>1. PICK n \in Nat : n = p.events - 1
      BY <1>2, <1>6 DEF Walked
    <3>2. PICK w \in Nat : w = p.end - p.start
      BY <1>2
    <3>3. p.advanced \in Nat /\ p.rereads \in Nat /\ p.back \in Nat
      BY <1>2 DEF Diary!Sitting
    <3>4. Stretch(n, p.advanced, w, p.rereads, p.back)
      BY <1>6, <3>1, <3>2 DEF Walked
    <3>5. Stretch(n + 1, p.advanced, w, p.rereads, p.back)
      <4>1. Ground(n, w) + Ground(1, 0) = Ground(n + 1, w + 0) /\ w + 0 = w
        BY GroundAdds
      <4>2. Ground(n, w) \in Nat /\ Ground(1, 0) \in Nat
        BY GroundType
      <4> QED BY <3>3, <3>4, <4>1, <4>2 DEF Stretch, Covers
    <3>6. new.events - 1 = n + 1 /\ 1 <= new.events
      BY <1>2, <2>1, <3>1
    <3> QED BY <2>1, <3>2, <3>5, <3>6 DEF Walked
  <2>4. (\E s \in {p} : s.start = 0) => new.start = 0
    BY <2>1
  <2>5. Measure((d \ {p}) \cup {new}, g)
    BY <1>4, <2>2, <2>3, <2>4, ReplacedMeasures
  <2> QED BY <1>7, <2>5 DEF Replaced, new
<1>8. ASSUME NEW p \in d, NEW n \in d, Replaced(d, at, pct, {p, n}, Diary!Merged(p, n, at, pct)),
             p.end <= at, at < n.start
      PROVE  Measure(after, g)
  <2> DEFINE new == Diary!Merged(p, n, at, pct)
             x == Diary!Plus(p.active, Diary!Counted(at - p.end))
             y == Diary!Plus(n.active, Diary!Counted(n.start - at))
  <2>1. at <= n.start
    BY <1>2, <1>8
  <2>2. new.start = p.start /\ new.end = n.end
    BY <1>2, <1>8, <2>1, MergedType
  <2>3. Walked(new) /\ new.active = Diary!Plus(x, y)
    BY <1>2, <1>6, <1>8, <2>1, WalkedMerged
  <2> HIDE DEF new, x, y
  <2>4. p.start <= at /\ at <= n.end /\ n.start # 0
    BY <1>2, <1>8
  <2>5. /\ x = Unmeasured <=> p.active = Unmeasured
        /\ Shown(x, p.start, at, g)
    <3>1. /\ p.start \in Diary!Time /\ p.end \in Diary!Time /\ p.start <= p.end /\ g[p.end] > 0
          /\ p.active \in Nat \cup {Unmeasured}
          /\ Shown(p.active, p.start, p.end, g)
      BY <1>2, <1>3, <1>6 DEF Timed
    <3>2. x = Diary!Plus(p.active, Diary!Counted(at - p.end))
      BY DEF x
    <3>3. /\ Diary!Plus(p.active, Diary!Counted(at - p.end)) = Unmeasured <=> p.active = Unmeasured
          /\ Shown(Diary!Plus(p.active, Diary!Counted(at - p.end)), p.start, at, g)
      <4> HIDE DEF Diary!Time
      <4>1. p.end <= at
        BY <1>8
      <4> QED BY <3>1, <4>1, TimedFurther
    <3> QED BY <3>3, <3>2
  <2>6. n.active # Unmeasured
    BY <1>6, <2>4
  <2>7. y # Unmeasured /\ Shown(y, at, n.end, g)
    <3>1. /\ n.start \in Diary!Time /\ n.end \in Diary!Time /\ n.start <= n.end
          /\ n.active \in Nat \cup {Unmeasured}
          /\ Shown(n.active, n.start, n.end, g)
      BY <1>2, <1>6 DEF Timed
    <3>2. y = Diary!Plus(n.active, Diary!Counted(n.start - at))
      BY DEF y
    <3>3. /\ Diary!Plus(n.active, Diary!Counted(n.start - at)) = Unmeasured <=> n.active = Unmeasured
          /\ Shown(Diary!Plus(n.active, Diary!Counted(n.start - at)), at, n.end, g)
      <4> HIDE DEF Diary!Time
      <4> QED BY <1>1, <2>1, <3>1, TimedEarlier
    <3> QED BY <3>3, <3>2, <2>6
  <2>8. x \in Nat \cup {Unmeasured} /\ y \in Nat
    <3>1. at - p.end \in Nat /\ n.start - at \in Nat
      BY <1>2, <1>8
    <3>2. Diary!Counted(at - p.end) \in Nat /\ Diary!Counted(n.start - at) \in Nat
      BY <3>1, CountedType
    <3>3. x \in Nat \cup {Unmeasured} /\ y \in Nat \cup {Unmeasured}
      BY <1>2, <3>2, PlusType DEF x, y
    <3> QED BY <2>7, <3>3
  <2>9. new.active = Unmeasured <=> x = Unmeasured
    BY <2>3, <2>8, PlusAdds
  <2>10. Timed(new, g)
    <3> SUFFICES ASSUME x # Unmeasured
                 PROVE  /\ Diary!Counted(new.end - new.start) <= new.active
                        /\ new.active <= Known(new.start, new.end, g)
      BY <2>9 DEF Timed, Shown
    <3>3. /\ Diary!Counted(at - p.start) <= x /\ x <= Known(p.start, at, g)
          /\ Diary!Counted(n.end - at) <= y /\ y <= Known(at, n.end, g)
      BY <2>5, <2>7 DEF Shown
    <3>1. new.active = x + y /\ x \in Nat
      BY <2>3, <2>8, PlusAdds
    <3>2. /\ Diary!Counted(n.end - p.start) <= x + y
          /\ x + y <= Known(p.start, n.end, g)
      BY <1>2, <2>4, <2>8, <3>1, <3>3, TimesAdd
    <3> QED BY <2>2, <3>1, <3>2
  <2>11. /\ new.active = Unmeasured <=> new.start = 0
         /\ (\E s \in {p, n} : s.start = 0) => new.start = 0
    BY <1>6, <2>2, <2>4, <2>5, <2>9
  <2>12. Measure((d \ {p, n}) \cup {new}, g)
    BY <1>4, <2>3, <2>10, <2>11, ReplacedMeasures
  <2> QED BY <1>8, <2>12 DEF Replaced, new
<1>9. ASSUME NEW p \in d, Replaced(d, at, pct, {p}, Diary!Extended(p, at, pct)), p.end <= at
      PROVE  Measure(after, g)
  <2> DEFINE new == Diary!Extended(p, at, pct)
  <2>1. new.start = p.start /\ new.end = at
    BY <1>2, <1>9, ExtendedType
  <2>2. Walked(new) /\ new.active = Diary!Plus(p.active, Diary!Counted(at - p.end))
    BY <1>2, <1>6, <1>9, WalkedExtended
  <2> HIDE DEF new
  <2>3. /\ new.active = Unmeasured <=> p.active = Unmeasured
        /\ Shown(new.active, p.start, at, g)
    <3>1. /\ p.start \in Diary!Time /\ p.end \in Diary!Time /\ p.start <= p.end /\ g[p.end] > 0
          /\ p.active \in Nat \cup {Unmeasured}
          /\ Shown(p.active, p.start, p.end, g)
      BY <1>2, <1>3, <1>6 DEF Timed
    <3>2. /\ Diary!Plus(p.active, Diary!Counted(at - p.end)) = Unmeasured <=> p.active = Unmeasured
          /\ Shown(Diary!Plus(p.active, Diary!Counted(at - p.end)), p.start, at, g)
      <4> HIDE DEF Diary!Time
      <4>1. p.end <= at
        BY <1>9
      <4> QED BY <3>1, <4>1, TimedFurther
    <3> QED BY <3>2, <2>2
  <2>4. Timed(new, g) /\ (new.active = Unmeasured <=> new.start = 0)
    BY <1>6, <2>1, <2>3 DEF Timed, Shown
  <2>5. (\E s \in {p} : s.start = 0) => new.start = 0
    BY <2>1
  <2>6. Measure((d \ {p}) \cup {new}, g)
    BY <1>4, <2>2, <2>4, <2>5, ReplacedMeasures
  <2> QED BY <1>9, <2>6 DEF Replaced, new
<1>10. ASSUME NEW n \in d, Replaced(d, at, pct, {n}, Diary!ExtendedBack(n, at, pct)), at < n.start
       PROVE  Measure(after, g)
  <2> DEFINE new == Diary!ExtendedBack(n, at, pct)
  <2>1. at <= n.start /\ n.start # 0
    BY <1>2, <1>10
  <2>2. new.start = at /\ new.end = n.end
    BY <1>2, <2>1, ExtendedBackType
  <2>3. Walked(new) /\ new.active = Diary!Plus(n.active, Diary!Counted(n.start - at))
    BY <1>2, <1>6, <2>1, WalkedExtendedBack
  <2> HIDE DEF new
  <2>4. /\ new.active = Unmeasured <=> n.active = Unmeasured
        /\ Shown(new.active, at, n.end, g)
    <3>1. /\ n.start \in Diary!Time /\ n.end \in Diary!Time /\ n.start <= n.end
          /\ n.active \in Nat \cup {Unmeasured}
          /\ Shown(n.active, n.start, n.end, g)
      BY <1>2, <1>6 DEF Timed
    <3>2. /\ Diary!Plus(n.active, Diary!Counted(n.start - at)) = Unmeasured <=> n.active = Unmeasured
          /\ Shown(Diary!Plus(n.active, Diary!Counted(n.start - at)), at, n.end, g)
      <4> HIDE DEF Diary!Time
      <4> QED BY <1>1, <2>1, <3>1, TimedEarlier
    <3> QED BY <3>2, <2>3
  <2>5. at # 0
    <3>1. first \in d \ {n}
      BY <1>5, <2>1
    <3>2. first.end + Gap < new.start \/ new.end + Gap < first.start
      BY <1>10, <3>1 DEF Replaced, Clear, new
    <3> QED BY <1>2, <1>5, <2>2, <3>2
  <2>6. Timed(new, g) /\ new.active # Unmeasured
    BY <1>6, <2>1, <2>2, <2>4 DEF Timed, Shown
  <2>7. (\E s \in {n} : s.start = 0) => new.start = 0
    BY <2>1
  <2>8. Measure((d \ {n}) \cup {new}, g)
    BY <1>4, <2>2, <2>3, <2>5, <2>6, <2>7, ReplacedMeasures
  <2> QED BY <1>10, <2>8 DEF Replaced, new
<1>11. ASSUME Replaced(d, at, pct, {}, Diary!Fresh(at, pct))
       PROVE  Measure(after, g)
  <2> DEFINE new == Diary!Fresh(at, pct)
  <2>1. /\ new.start = at /\ new.end = at /\ new.active = 0 /\ new.events = 1
        /\ new.advanced = 0 /\ new.rereads = 0 /\ new.back = 0
    BY DEF Diary!Fresh
  <2> HIDE DEF new
  <2>2. at # 0
    <3>1. first.end + Gap < new.start \/ new.end + Gap < first.start
      BY <1>11 DEF Replaced, Clear, new
    <3> QED BY <1>2, <1>5, <2>1, <3>1
  <2>3. at - at = 0 /\ 1 - 1 = 0 /\ 0 \in Nat /\ 0 # Unmeasured
    OBVIOUS
  <2>4. Timed(new, g)
    <3>1. Diary!Counted(0) = 0
      BY <2>3, CountedAdds
    <3>2. Known(at, at, g) \in Nat
      BY KnownType
    <3>3. Diary!Counted(new.end - new.start) = 0
      BY <2>1, <2>3, <3>1
    <3> QED BY <2>1, <3>2, <3>3 DEF Timed, Shown
  <2>5. Walked(new)
    <3>1. Stretch(0, 0, 0, 0, 0)
      BY GroundOfNothing, BackAdds DEF Stretch, Covers
    <3> QED BY <2>1, <2>3, <3>1 DEF Walked
  <2>6. Measure((d \ {}) \cup {new}, g)
    BY <1>4, <2>1, <2>2, <2>3, <2>4, <2>5, ReplacedMeasures
  <2> QED BY <1>11, <2>6 DEF Replaced, new
<1> HIDE DEF after
<1>12. Measure(after, g)
  BY <1>7, <1>8, <1>9, <1>10, <1>11, FoldForms
<1> QED BY <1>12 DEF after

-----------------------------------------------------------------------------
(* The reading of a diary.                                                 *)

\* It is late enough for a migration to leave the sitting of long ago, and both
\* diaries are measured.
Measured ==
    /\ Today <= now
    /\ Measure(sittings, read)
    /\ phase = "deriving" => Measure(draft, Tally)

MeasuredInv == DiaryInv /\ Measured

LEMMA InitMeasured == Diary!Init => Measured
<1> SUFFICES ASSUME Diary!Init
             PROVE  Measured
  OBVIOUS
<1>1. now = Today /\ sittings = {Diary!Legacy} /\ phase = "serving" /\ Today \in Nat
  BY DEF Diary!Init
<1> DEFINE s == Diary!Legacy
<1>2. /\ s.start = 0 /\ s.end = 0 /\ s.active = Unmeasured /\ s.events = 1
      /\ s.advanced = 0 /\ s.rereads = 0 /\ s.back = 0
  BY DEF Diary!Legacy
<1> HIDE DEF s
<1>3. Stretch(0, 0, 0, 0, 0)
  BY GroundOfNothing, BackAdds DEF Stretch, Covers
<1>4. Walked(s)
  <2>1. 1 - 1 = 0 /\ 0 - 0 = 0 /\ 1 <= 1
    OBVIOUS
  <2> QED BY <1>2, <1>3, <2>1 DEF Walked
<1>5. Timed(s, read)
  BY <1>2 DEF Timed, Shown
<1>6. sittings = {s}
  BY <1>1 DEF s
<1>7. Measure(sittings, read)
  BY <1>2, <1>4, <1>5, <1>6 DEF Measure, Begun
<1> QED BY <1>1, <1>7 DEF Measured

LEMMA CheckpointMeasured ==
    ASSUME MeasuredInv, NEW at \in Diary!Time, NEW pct \in Positions, Diary!Checkpoint(at, pct)
    PROVE  Measured'
<1>1. /\ Today <= now /\ Measure(sittings, read) /\ Book(sittings) /\ read \in Counts
      /\ \A s \in sittings : Held(s, read)
  BY TypesOfDiary DEF MeasuredInv, Measured, DiaryInv, History, Holding
<1>2. /\ phase' = "serving" /\ now' = now
      /\ sittings' = Diary!Folded(sittings, at, pct)
      /\ read' = [read EXCEPT ![at] = @ + 1]
  BY DEF Diary!Checkpoint
<1>3. (\A t \in Diary!Time : read[t] > 0 => read'[t] > 0) /\ read'[at] > 0
  <2>1. \A t \in Diary!Time : read[t] \in Nat
    BY TypesOfDiary DEF MeasuredInv, DiaryInv
  <2>2. \A t \in Diary!Time : read'[t] = IF t = at THEN read[t] + 1 ELSE read[t]
    BY <1>1, <1>2 DEF Counts
  <2> QED BY <2>1, <2>2
<1>4. Measure(Diary!Folded(sittings, at, pct), read')
  BY <1>1, <1>3, FoldMeasures
<1> QED BY <1>1, <1>2, <1>4 DEF Measured

\* Where the diary, what was read and the backfill stay as they are.
LEMMA RestMeasured ==
    ASSUME MeasuredInv, UNCHANGED <<sittings, read>>, now <= now', now' \in Nat,
           phase' = "deriving" => phase = "deriving" /\ UNCHANGED <<draft, rows, todo>>
    PROVE  Measured'
<1>1. Today <= now' /\ Measure(sittings', read')
  <2>1. Today \in Nat /\ now \in Nat
    BY TypesOfDiary DEF MeasuredInv, DiaryInv
  <2> QED BY <2>1 DEF MeasuredInv, Measured
<1>2. ASSUME phase' = "deriving"
      PROVE  Measure(draft', Tally')
  <2>1. Tally' = Tally
    BY <1>2 DEF Tally
  <2> QED BY <1>2, <2>1 DEF MeasuredInv, Measured
<1> QED BY <1>1, <1>2 DEF Measured

\* A migration leaves the sitting of long ago.
LEMMA ClearMeasured ==
    ASSUME MeasuredInv, Diary!ClearRecent
    PROVE  Measured'
<1>1. Today <= now /\ Measure(sittings, read) /\ now \in Nat
  BY TypesOfDiary DEF MeasuredInv, Measured, DiaryInv
<1>2. /\ phase' # "deriving" /\ now' = now /\ read' = read
      /\ sittings' = {s \in sittings : s.start < now - Recent}
  BY DEF Diary!ClearRecent
<1>3. 0 < now - Recent
  BY <1>1, LegacyAssumption DEF LegacyParameters
<1>4. Begun(sittings) /\ \A s \in sittings : Walked(s) /\ Timed(s, read)
  BY <1>1 DEF Measure
<1>5. Begun(sittings')
  <2>1. PICK s \in sittings : s.start = 0
    BY <1>4 DEF Begun
  <2>2. s \in sittings'
    BY <1>2, <1>3, <2>1
  <2> QED BY <1>2, <1>4, <2>1, <2>2 DEF Begun
<1>6. Measure(sittings', read')
  BY <1>2, <1>4, <1>5 DEF Measure
<1> QED BY <1>1, <1>2, <1>6 DEF Measured

LEMMA DeriveMeasured ==
    ASSUME MeasuredInv, Diary!Derive
    PROVE  Measured'
<1>1. /\ Today <= now /\ Measure(sittings, read)
      /\ \A s \in sittings : s \in Diary!Sitting
  BY TypesOfDiary DEF MeasuredInv, Measured, DiaryInv
<1>2. UNCHANGED <<now, rows, sittings, read>> /\ draft' = sittings
  BY DEF Diary!Derive
<1>3. ASSUME NEW s \in sittings
      PROVE  Timed(s, Tally')
  <2>1. \A t \in Diary!Time : t <= s.end => Tally'[t] = read[t]
    BY <1>2 DEF Tally
  <2>2. Timed(s, read)
    BY <1>1 DEF Measure
  <2> QED BY <1>1, <2>1, <2>2, TimedMore
<1>4. Measure(draft', Tally')
  BY <1>1, <1>2, <1>3 DEF Measure
<1> QED BY <1>1, <1>2, <1>4 DEF Measured

LEMMA EndsMeasured ==
    ASSUME MeasuredInv, Diary!DeriveEnds
    PROVE  Measured'
<1>1. /\ Today <= now /\ Measure(draft, Tally)
      /\ \A s \in draft : s \in Diary!Sitting
  BY TypesOfDiary DEF MeasuredInv, Measured, DiaryInv, Diary!DeriveEnds
<1>2. /\ UNCHANGED <<now, read>> /\ phase' = "serving" /\ sittings' = draft
  BY DEF Diary!DeriveEnds
<1>3. \A t \in Diary!Time : Tally[t] > 0 => read[t] > 0
  <2>1. \A t \in Diary!Time : Tally[t] <= read[t] /\ Tally[t] \in Nat /\ read[t] \in Nat
    BY TallyCounts, TypesOfDiary DEF MeasuredInv, DiaryInv, Counts
  <2> QED BY <2>1
<1>4. \A s \in draft : Timed(s, read)
  BY <1>1, <1>3, TimedMore DEF Measure
<1>5. Measure(sittings', read')
  BY <1>1, <1>2, <1>4 DEF Measure
<1> QED BY <1>1, <1>2, <1>5 DEF Measured

LEMMA NextMeasured ==
    ASSUME MeasuredInv, Diary!DeriveNext
    PROVE  Measured'
<1>1. /\ Today <= now /\ Measure(sittings, read) /\ Measure(draft, Tally)
      /\ Book(draft) /\ \A s \in draft : Held(s, Tally)
      /\ Tally \in Counts
  <2>1. phase = "deriving"
    BY DEF Diary!DeriveNext
  <2>2. DiaryInv /\ Measured /\ IInv /\ Rederived
    BY DEF MeasuredInv, DiaryInv, History
  <2>3. Tally \in Counts /\ Book(draft)
    BY <2>2, TallyCounts, TypesOfDiary
  <2> QED BY <2>1, <2>2, <2>3 DEF Measured, Rederived
<1>2. UNCHANGED <<now, sittings, read>>
  BY DEF Diary!DeriveNext
<1>3. PICK r \in todo : /\ r.at \in Diary!Time /\ r.pct \in Positions
                        /\ draft' = Diary!Folded(draft, r.at, r.pct)
                        /\ Tally' = [Tally EXCEPT ![r.at] = @ + 1]
  BY NextTally DEF MeasuredInv
<1>4. (\A t \in Diary!Time : Tally[t] > 0 => Tally'[t] > 0) /\ Tally'[r.at] > 0
  <2>1. \A t \in Diary!Time : Tally[t] \in Nat
    BY <1>1 DEF Counts
  <2>2. \A t \in Diary!Time : Tally'[t] = IF t = r.at THEN Tally[t] + 1 ELSE Tally[t]
    BY <1>1, <1>3 DEF Counts
  <2> QED BY <1>3, <2>1, <2>2
<1>5. Measure(Diary!Folded(draft, r.at, r.pct), Tally')
  BY <1>1, <1>3, <1>4, FoldMeasures
<1> QED BY <1>1, <1>2, <1>3, <1>5 DEF Measured

LEMMA MeasuredStep == MeasuredInv /\ [Diary!Next]_(Diary!vars) => Measured'
<1> SUFFICES ASSUME MeasuredInv, [Diary!Next]_(Diary!vars)
             PROVE  Measured'
  OBVIOUS
<1>1. now \in Nat
  BY TypesOfDiary DEF MeasuredInv, DiaryInv
<1>2. ASSUME NEW at \in Diary!Time, NEW pct \in Positions, Diary!Checkpoint(at, pct)
      PROVE  Measured'
  BY <1>2, CheckpointMeasured
<1>3. CASE Diary!Reset \/ Diary!Compact
  <2>1. UNCHANGED <<sittings, read, now>> /\ phase' # "deriving"
    BY <1>3 DEF Diary!Reset, Diary!Compact
  <2> QED BY <1>1, <2>1, RestMeasured
<1>4. CASE Diary!Tick
  <2>1. UNCHANGED <<sittings, read, phase, draft, rows, todo>> /\ now' = now + 1
    BY <1>4 DEF Diary!Tick
  <2> QED BY <1>1, <2>1, RestMeasured
<1>5. CASE Diary!Stop \/ Diary!DeriveFails
  <2>1. UNCHANGED <<sittings, read, now>> /\ phase' # "deriving"
    BY <1>5 DEF Diary!Stop, Diary!DeriveFails
  <2> QED BY <1>1, <2>1, RestMeasured
<1>6. CASE Diary!ClearRecent
  BY <1>6, ClearMeasured
<1>7. CASE Diary!Derive
  BY <1>7, DeriveMeasured
<1>8. CASE Diary!DeriveNext
  BY <1>8, NextMeasured
<1>9. CASE Diary!DeriveEnds
  BY <1>9, EndsMeasured
<1>10. CASE UNCHANGED Diary!vars
  <2>1. UNCHANGED <<sittings, read, phase, draft, rows, todo, now>>
    BY <1>10 DEF Diary!vars
  <2> QED BY <1>1, <2>1, RestMeasured
<1> QED BY <1>2, <1>3, <1>4, <1>5, <1>6, <1>7, <1>8, <1>9, <1>10 DEF Diary!Next

LEMMA AlwaysMeasured == Diary!Spec => []MeasuredInv
<1>1. Diary!Init => Measured
  BY InitMeasured
<1>2. MeasuredInv /\ [Diary!Next]_(Diary!vars) => Measured'
  BY MeasuredStep
<1> QED BY <1>1, <1>2, AlwaysDiaryInv, PTL DEF Diary!Spec, MeasuredInv

-----------------------------------------------------------------------------
(* What is known of a sitting, its steps show.                             *)

\* The times that so many units from each of the times of T on cover.
Reached(f, T) == {u \in Diary!Time : \E t \in T : t <= u /\ u < t + f[t]}

LEMMA OwnAtMost ==
    ASSUME NEW x \in Nat, NEW k \in Nat
    PROVE  Cardinality({u \in Diary!Time : x <= u /\ u < x + k}) <= k
<1> DEFINE own == {u \in Diary!Time : x <= u /\ u < x + k}
           last == x + k - 1
<1>1. last \in Int /\ x \in Int /\ last - x + 1 = k /\ (x > last <=> k = 0)
  OBVIOUS
<1>2. own \in SUBSET (x..last)
  OBVIOUS
<1> HIDE DEF last, own
<1>3. /\ IsFiniteSet(x..last)
      /\ Cardinality(x..last) = IF x > last THEN 0 ELSE last - x + 1
  BY <1>1, FS_Interval
<1>4. Cardinality(x..last) = k
  BY <1>1, <1>3
<1>5. Cardinality(own) <= k
  BY <1>2, <1>3, <1>4, FS_Subset
<1> QED BY <1>5 DEF own

LEMMA ReachedAtMost ==
    ASSUME NEW f \in [Diary!Time -> Nat]
    PROVE  \A S \in SUBSET Diary!Time : Cardinality(Reached(f, S)) <= Sum(f, S)
<1> DEFINE Good == {S \in SUBSET Diary!Time : Cardinality(Reached(f, S)) <= Sum(f, S)}
<1>1. ASSUME NEW S \in SUBSET Diary!Time, \A x \in S : S \ {x} \in Good
      PROVE  Cardinality(Reached(f, S)) <= Sum(f, S)
  <2>1. CASE S = {}
    <3>1. Reached(f, S) = {}
      BY <2>1 DEF Reached
    <3>2. Sum(f, S) = 0
      BY <2>1, SumMore
    <3> QED BY <3>1, <3>2, FS_EmptySet
  <2>2. CASE S # {}
    <3>1. PICK x \in S : TRUE
      BY <2>2
    <3> DEFINE T == S \ {x}
               own == {u \in Diary!Time : x <= u /\ u < x + f[x]}
    <3>2. /\ T \in SUBSET Diary!Time /\ x \in Diary!Time \ T /\ S = T \cup {x}
          /\ Cardinality(Reached(f, T)) <= Sum(f, T)
      BY <1>1
    <3>3. Reached(f, S) = Reached(f, T) \cup own
      BY <3>1 DEF Reached
    <3>4. PICK k \in Nat : k = f[x] /\ x \in Nat
      <4>1. x \in Diary!Time
        BY <3>2
      <4> QED BY <4>1
    <3>5. Cardinality(own) <= f[x]
      BY <3>4, OwnAtMost
    <3>6. /\ Reached(f, T) \in SUBSET Diary!Time /\ own \in SUBSET Diary!Time
          /\ Reached(f, T) \cap own \in SUBSET Diary!Time
      BY DEF Reached
    <3>7. Sum(f, S) = f[x] + Sum(f, T) /\ Sum(f, T) \in Nat
      BY <3>2, SumMore
    <3> HIDE DEF own, T
    <3>8. /\ IsFiniteSet(Reached(f, T)) /\ IsFiniteSet(own)
          /\ Cardinality(Reached(f, T)) \in Nat /\ Cardinality(own) \in Nat
          /\ Cardinality(Reached(f, T) \cap own) \in Nat
      BY <3>6, TimesAreFinite
    <3>9. Cardinality(Reached(f, T) \cup own)
            = Cardinality(Reached(f, T)) + Cardinality(own) - Cardinality(Reached(f, T) \cap own)
      BY <3>8, FS_Union
    <3>10. PICK a \in Nat, b \in Nat, c \in Nat, v \in Nat, w \in Nat :
              /\ a = Cardinality(Reached(f, T)) /\ b = Cardinality(own)
              /\ c = Cardinality(Reached(f, T) \cap own)
              /\ v = f[x] /\ w = Sum(f, T)
      BY <3>4, <3>7, <3>8
    <3>11. a <= w /\ b <= v
      BY <3>2, <3>5, <3>10
    <3>12. a + b - c <= v + w
      BY <3>11
    <3>13. Cardinality(Reached(f, S)) = a + b - c /\ Sum(f, S) = v + w
      BY <3>3, <3>7, <3>9, <3>10
    <3> QED BY <3>12, <3>13
  <2> QED BY <2>1, <2>2
<1>2. \A S \in SUBSET Diary!Time : (\A x \in S : S \ {x} \in Good) => S \in Good
  BY <1>1
<1> HIDE DEF Good
<1>3. \A S \in SUBSET Diary!Time : S \in Good
  BY <1>2, TimeInduction
<1> QED BY <1>3 DEF Good

\* The step that s shows from t on.
StepFrom(s, t) ==
    LET later == {r \in Diary!ReadIn(s) : r > t}
    IN  IF later = {} THEN 0 ELSE Diary!Counted(Diary!Min(later) - t)

Stepping(s, S, g) ==
    g = [p \in SUBSET S |-> IF p = {} THEN 0
                            ELSE LET x == CHOOSE y \in p : TRUE
                                 IN StepFrom(s, x) + g[p \ {x}]]

LEMMA StepsAre ==
    \A s : Diary!StepsIn(s)
             = (CHOOSE g : Stepping(s, Diary!ReadIn(s), g))[Diary!ReadIn(s)]
BY DEF Diary!StepsIn, Diary!MapThenSumSet, Diary!MapThenFoldSet, Stepping, StepFrom

LEMMA StepsAreSummed ==
    ASSUME NEW s, NEW f, f = [t \in Diary!Time |-> StepFrom(s, t)]
    PROVE  Diary!StepsIn(s) = Sum(f, Diary!ReadIn(s))
<1> DEFINE S == Diary!ReadIn(s)
<1>1. S \in SUBSET Diary!Time
  BY DEF Diary!ReadIn
<1>2. Diary!StepsIn(s) = (CHOOSE g : Stepping(s, S, g))[S]
  BY StepsAre
<1>3. Sum(f, S) = (CHOOSE g : Summing(f, S, g))[S]
  BY SumIs
<1> HIDE DEF S
<1>4. ASSUME NEW g
      PROVE  Stepping(s, S, g) <=> Summing(f, S, g)
  <2>1. ASSUME NEW p \in SUBSET S
        PROVE  (IF p = {} THEN 0
                ELSE LET x == CHOOSE y \in p : TRUE IN StepFrom(s, x) + g[p \ {x}])
                 = (IF p = {} THEN 0
                    ELSE LET x == CHOOSE y \in p : TRUE IN f[x] + g[p \ {x}])
    <3>1. CASE p = {}
      BY <3>1
    <3>2. CASE p # {}
      <4> DEFINE x == CHOOSE y \in p : TRUE
      <4>1. x \in Diary!Time
        BY <1>1, <3>2
      <4> HIDE DEF x
      <4>2. f[x] = StepFrom(s, x)
        BY <4>1
      <4> QED BY <3>2, <4>2 DEF x
    <3> QED BY <3>1, <3>2
  <2> QED BY <2>1 DEF Stepping, Summing
<1>5. (CHOOSE g : Stepping(s, S, g)) = (CHOOSE g : Summing(f, S, g))
  BY <1>4
<1> QED BY <1>2, <1>3, <1>5 DEF S

\* The last of some times that is not after a time that one of them is not after.
LEMMA LastUpTo ==
    ASSUME NEW S \in SUBSET Diary!Time, NEW u \in Diary!Time, NEW t \in S, t <= u
    PROVE  \E x \in S : t <= x /\ x <= u /\ \A r \in S : r <= u => r <= x
<1> DEFINE back == {k \in Nat : \E r \in S : r <= u /\ k = u - r}
<1>1. u - t \in back
  OBVIOUS
<1>2. PICK k \in back : \A j \in back : k <= j
  BY <1>1, LeastOf
<1>3. PICK x \in S : x <= u /\ k = u - x
  BY <1>2
<1>4. \A r \in S : r <= u => r <= x
  <2> SUFFICES ASSUME NEW r \in S, r <= u
               PROVE  r <= x
    OBVIOUS
  <2>1. u - r \in back
    OBVIOUS
  <2>2. u - x <= u - r
    BY <1>2, <1>3, <2>1
  <2> QED BY <2>2
<1> QED BY <1>3, <1>4

LEMMA LeastTime ==
    ASSUME NEW S \in SUBSET Diary!Time, S # {}
    PROVE  Diary!Min(S) \in S /\ \A r \in S : Diary!Min(S) <= r
<1>1. \E x \in S : \A r \in S : x <= r
  <2>1. S \in SUBSET Nat
    OBVIOUS
  <2> QED BY <2>1, LeastOf
<1> QED BY <1>1 DEF Diary!Min

LEMMA KnownIsInSteps ==
    ASSUME NEW s \in Diary!Sitting, s.start <= s.end, read \in Counts, Held(s, read)
    PROVE  Diary!StepsIn(s) \in Nat /\ Known(s.start, s.end, read) <= Diary!StepsIn(s)
<1> DEFINE f == [t \in Diary!Time |-> StepFrom(s, t)]
           S == Diary!ReadIn(s)
           later(t) == {r \in S : r > t}
<1>1. /\ S \in SUBSET Diary!Time /\ s.start \in Diary!Time /\ s.end \in Diary!Time
      /\ \A t : t \in S <=> t \in Diary!Time /\ s.start <= t /\ t <= s.end /\ read[t] > 0
      /\ s.end \in S
  BY DEF Diary!ReadIn, Diary!Within, Diary!Sitting, Held
<1>2. ASSUME NEW t \in Diary!Time
      PROVE  /\ f[t] \in Nat
             /\ later(t) # {} => f[t] = Diary!Counted(Diary!Min(later(t)) - t)
  <2>1. f[t] = IF later(t) = {} THEN 0 ELSE Diary!Counted(Diary!Min(later(t)) - t)
    BY DEF StepFrom
  <2>2. CASE later(t) = {}
    BY <2>1, <2>2
  <2>3. CASE later(t) # {}
    <3>1. later(t) \in SUBSET Diary!Time
      BY <1>1
    <3>2. Diary!Min(later(t)) \in later(t)
      <4> HIDE DEF later
      <4> QED BY <2>3, <3>1, LeastTime
    <3>3. Diary!Min(later(t)) \in Diary!Time /\ Diary!Min(later(t)) > t
      BY <1>1, <3>2
    <3>4. Diary!Min(later(t)) - t \in Nat
      <4> HIDE DEF later
      <4> QED BY <3>3
    <3>5. Diary!Counted(Diary!Min(later(t)) - t) \in Nat
      <4> HIDE DEF later
      <4> QED BY <3>4, CountedType
    <3> QED BY <2>1, <2>3, <3>5
  <2> QED BY <2>2, <2>3
<1>3. f \in [Diary!Time -> Nat]
  BY <1>2
<1>4. Diary!StepsIn(s) = Sum(f, S)
  BY StepsAreSummed
<1> HIDE DEF f, S
<1>5. ASSUME NEW u \in Units(s.start, s.end, read)
      PROVE  u \in Reached(f, S)
  <2>1. /\ u \in Diary!Time /\ s.start <= u /\ u < s.end
        /\ \E t \in Diary!Time : read[t] > 0 /\ s.start <= t /\ t <= u /\ u - t < StepCap
    BY DEF Units
  <2>2. PICK t \in Diary!Time : read[t] > 0 /\ s.start <= t /\ t <= u /\ u - t < StepCap
    BY <2>1
  <2>3. t \in S
    BY <1>1, <2>1, <2>2
  <2>4. PICK x \in S : t <= x /\ x <= u /\ \A r \in S : r <= u => r <= x
    BY <1>1, <2>1, <2>2, <2>3, LastUpTo
  <2>5. later(x) # {} /\ later(x) \in SUBSET Diary!Time /\ x \in Diary!Time
    BY <1>1, <2>1, <2>4
  <2>6. Diary!Min(later(x)) \in later(x)
    <3> HIDE DEF later
    <3> QED BY <2>5, LeastTime
  <2>7. PICK m \in Diary!Time : m = Diary!Min(later(x)) /\ m > u
    <3>1. Diary!Min(later(x)) \in S /\ Diary!Min(later(x)) > x
      BY <2>6
    <3> HIDE DEF later
    <3>2. PICK m \in Diary!Time : m = Diary!Min(later(x)) /\ m \in S /\ m > x
      BY <1>1, <3>1
    <3>3. ~(m <= u)
      BY <2>4, <2>5, <3>2
    <3>4. m > u
      BY <2>1, <3>3
    <3> QED BY <3>2, <3>4
  <2>8. f[x] = Diary!Counted(m - x)
    BY <1>2, <2>5, <2>7
  <2>9. u < x + f[x]
    <3>1. Diary!Counted(m - x) = IF m - x <= StepCap THEN m - x ELSE StepCap
      BY DEF Diary!Counted
    <3>2. u - x < StepCap /\ u - x < m - x
      BY <2>1, <2>2, <2>4, <2>5, <2>7
    <3>3. u - x < f[x]
      BY <2>8, <3>1, <3>2
    <3>4. f[x] \in Nat /\ x \in Int /\ u \in Int
      <4>1. x \in Diary!Time /\ u \in Diary!Time
        BY <2>1, <2>5
      <4>2. f[x] \in Nat
        BY <1>3, <4>1
      <4> QED BY <4>1, <4>2
    <3> QED BY <3>3, <3>4
  <2> QED BY <2>1, <2>4, <2>9 DEF Reached
<1>6. Known(s.start, s.end, read) <= Cardinality(Reached(f, S))
  <2>1. Units(s.start, s.end, read) \in SUBSET Reached(f, S)
    BY <1>5
  <2>2. Reached(f, S) \in SUBSET Diary!Time
    BY DEF Reached
  <2> QED BY <2>1, <2>2, TimesAreFinite, FS_Subset DEF Known
<1>7. Cardinality(Reached(f, S)) <= Sum(f, S)
  BY <1>1, <1>3, ReachedAtMost
<1>8. /\ Known(s.start, s.end, read) \in Nat /\ Sum(f, S) \in Nat
      /\ Cardinality(Reached(f, S)) \in Nat
  <2>1. Reached(f, S) \in SUBSET Diary!Time
    BY DEF Reached
  <2> QED BY <1>1, <1>3, <2>1, KnownType, TimesAreFinite, SumMore
<1> QED BY <1>4, <1>6, <1>7, <1>8

LEMMA MeasuredSuffices == MeasuredInv => ReadingIsMeasured
<1> SUFFICES ASSUME MeasuredInv, NEW s \in sittings
             PROVE  /\ s.active = Unmeasured <=> s.start = 0
                    /\ s.active # Unmeasured =>
                          /\ s.active <= Diary!StepsIn(s)
                          /\ s.active >= Diary!Counted(s.end - s.start)
                    /\ s.advanced <= Floor * (s.events - 1) + Pace * (s.end - s.start)
                    /\ s.rereads < s.events
                    /\ s.back <= MaxBack * s.rereads /\ s.back >= (Jitter + 1) * s.rereads
  BY DEF ReadingIsMeasured, Diary!ReadingIsMeasured
<1>1. /\ s.active = Unmeasured <=> s.start = 0
      /\ Walked(s) /\ Timed(s, read) /\ Held(s, read)
  BY DEF MeasuredInv, Measured, Measure, Begun, DiaryInv, History, Holding
<1>2. s \in Diary!Sitting /\ s.start <= s.end /\ read \in Counts
  BY TypesOfDiary DEF MeasuredInv, DiaryInv
<1>3. /\ s.events \in Nat /\ s.rereads \in Nat /\ s.back \in Nat
      /\ s.active # Unmeasured => s.active \in Nat
  BY <1>2 DEF Diary!Sitting
<1>4. ASSUME s.active # Unmeasured
      PROVE  s.active <= Diary!StepsIn(s) /\ s.active >= Diary!Counted(s.end - s.start)
  <2>1. Diary!StepsIn(s) \in Nat /\ Known(s.start, s.end, read) <= Diary!StepsIn(s)
    BY <1>1, <1>2, KnownIsInSteps
  <2>2. Diary!Counted(s.end - s.start) <= s.active /\ s.active <= Known(s.start, s.end, read)
    BY <1>1, <1>4 DEF Timed, Shown
  <2>3. Known(s.start, s.end, read) \in Nat /\ Diary!Counted(s.end - s.start) \in Nat
    <3>1. s.end - s.start \in Nat
      BY <1>2 DEF Diary!Sitting
    <3> QED BY <3>1, KnownType, CountedType
  <2> QED BY <1>3, <1>4, <2>1, <2>2, <2>3
<1>5. s.advanced <= Floor * (s.events - 1) + Pace * (s.end - s.start)
  BY <1>1 DEF Walked, Stretch, Covers, Ground
<1>6. s.rereads < s.events
  <2>1. s.rereads <= s.events - 1
    BY <1>1 DEF Walked, Stretch
  <2> QED BY <1>3, <2>1
<1>7. s.back <= MaxBack * s.rereads
  BY <1>1 DEF Walked, Stretch, Farthest
<1>8. s.back >= (Jitter + 1) * s.rereads
  <2>1. (Jitter + 1) * s.rereads <= s.back
    BY <1>1 DEF Walked, Stretch, Nearest
  <2>2. (Jitter + 1) * s.rereads \in Nat
    BY <1>3, Products
  <2> QED BY <1>3, <2>1, <2>2
<1> QED BY <1>1, <1>4, <1>5, <1>6, <1>7, <1>8

-----------------------------------------------------------------------------
(* The theorems.                                                           *)

\* The variables keep their types: what a sitting counts is natural, or was
\* never measured, whatever is folded into it.
THEOREM SittingsTypeCorrect == Diary!Spec => []Diary!TypeOK
<1>1. IInv => Diary!TypeOK
  BY DEF IInv
<1> QED BY <1>1, AlwaysIInv, PTL

\* No two sittings of a key overlap or lie within the gap of each other, in
\* whatever order checkpoints arrive and however often a backfill starts over:
\* the statistics, which add sittings up, count no time twice.
THEOREM SittingsStayApart == Diary!Spec => []Diary!Apart(sittings)
<1>1. IInv => Diary!Apart(sittings)
  BY DEF IInv
<1> QED BY <1>1, AlwaysIInv, PTL

\* Whatever the order in which checkpoints arrive, and through restarts,
\* migrations and compactions, the diary is what the times read fall into when
\* they are split at every silence longer than the gap (applyProgressEvents,
\* the fold of prepareSessionFolder, backfillReadingSessions).
THEOREM DiaryIsKept == Diary!Spec => []DiaryIsTheHistory
BY AlwaysDiaryInv, DiaryInvSuffices, PTL

\* Whatever the order in which checkpoints arrive, a sitting is credited with
\* no more reading than its checkpoints, taken in order, would show, and with
\* no less than its ends alone would (counted, forward, reread and the fold).
THEOREM ReadingIsKept == Diary!Spec => []ReadingIsMeasured
BY AlwaysMeasured, MeasuredSuffices, PTL
=============================================================================
