------------------------------- MODULE Places -------------------------------
(***************************************************************************)
(* Where a reader reads a book (`reading_places`): the accepted            *)
(* checkpoints of an ebook, folded into threads.  A step that stays near   *)
(* where the current thread got to continues it, and anything else is a    *)
(* jump, to another thread or to a new one.  A thread read for long enough *)
(* is a place, and the one read most is the reader's own.                  *)
(*                                                                         *)
(* Positions count pages, times one unit; a locator is its position.       *)
(***************************************************************************)
EXTENDS Integers, SequencesExt

CONSTANTS Pages,       \* the positions of the book
          Ahead, Back, Rejoin,  \* PLACE_AHEAD_, PLACE_BACK_ and PLACE_REJOIN_CHARS
          SettledAfter,  \* PLACE_SETTLED_MS
          StepCap,       \* PLACE_STEP_CAP_MS, less than
          LeftAfter,     \* PLACE_LEFT_MS
          StaleAfter,    \* PLACE_STALE_MS
          MaxThreads,    \* PLACE_MAX, at least 2
          MaxClock, MaxSteps, MaxForgets

VARIABLES threads, current,  \* the stored document; current is 0 for none
          clock, spent

vars == <<threads, current, clock, spent>>

Clock == 0..MaxClock

\* At most one thread more than is kept is there at a time.
Ids == 1..(MaxThreads + 1)

Thread == [id : Ids, from : Pages, to : Pages, read : Nat, left : Nat,
           started : Clock, last : Clock]

TypeOK ==
    /\ threads \in Seq(Thread) /\ Len(threads) <= MaxThreads
    /\ \A i, k \in DOMAIN threads : threads[i].id = threads[k].id => i = k
    /\ current \in Ids \cup {0}
    /\ current # 0 => \E i \in DOMAIN threads : threads[i].id = current
    /\ clock \in Clock /\ spent \in [steps : 0..MaxSteps, forgets : 0..MaxForgets]

Init ==
    /\ threads = <<>> /\ current = 0
    /\ clock = 0 /\ spent = [steps |-> 0, forgets |-> 0]

-----------------------------------------------------------------------------
(* Threads.  A document is [threads, current], as it is stored.            *)

Lower(a, b) == IF a <= b THEN a ELSE b
Higher(a, b) == IF a >= b THEN a ELSE b
Distance(a, b) == IF a >= b THEN a - b ELSE b - a

Of(ts, id) == {t \in ToSet(ts) : t.id = id}
Without(ts, id) == SelectSeq(ts, LAMBDA t : t.id # id)
Rewritten(ts, new) == [i \in DOMAIN ts |-> IF ts[i].id = new.id THEN new ELSE ts[i]]

IsSettled(t) == t.read >= SettledAfter

\* mainThread: of those read long enough the one read most, then the one begun
\* first, then the first of the document.
ReadMore(ts, i, k) ==
    \/ ts[i].read > ts[k].read
    \/ ts[i].read = ts[k].read /\ ts[i].started < ts[k].started
    \/ ts[i].read = ts[k].read /\ ts[i].started = ts[k].started /\ i <= k
Main(ts) ==
    LET settled == {i \in DOMAIN ts : IsSettled(ts[i])}
    IN {ts[i] : i \in {i \in settled : \A k \in settled : ReadMore(ts, i, k)}}
IsMain(ts, id) == \E m \in Main(ts) : m.id = id

MovedTo(t, pos, at) == [t EXCEPT !.to = pos, !.last = Higher(@, at)]

\* Reading on, or back a little: the same thread.
Continues(t, pos) == pos >= t.to - Back /\ pos <= t.to + Ahead

ReadOn(t, pos, at) ==
    LET step == Lower(StepCap, Higher(0, at - t.last))
        further == Rewritten(threads, MovedTo([t EXCEPT !.read = @ + step], pos, at))
    IN [threads |-> IF IsMain(further, t.id)
                    THEN [i \in DOMAIN further |->
                            IF further[i].id = t.id THEN further[i]
                            ELSE [further[i] EXCEPT !.left = @ + step]]
                    ELSE further,
        current |-> t.id]

\* A jump drops the thread it leaves if that was only looked at, and picks up
\* the nearest thread that stopped by where it lands, or starts one.
Jumped(pos, at) ==
    LET rest == SelectSeq(threads, LAMBDA t : t.id # current \/ IsSettled(t))
        near == {i \in DOMAIN rest : Distance(pos, rest[i].to) <= Rejoin}
        nearest == {i \in near : \A k \in near :
                        \/ Distance(pos, rest[i].to) < Distance(pos, rest[k].to)
                        \/ Distance(pos, rest[i].to) = Distance(pos, rest[k].to) /\ i <= k}
        new == CHOOSE id \in Ids : Of(rest, id) = {}
    IN IF near = {}
       THEN [threads |-> Append(rest, [id |-> new, from |-> pos, to |-> pos, read |-> 0,
                                       left |-> 0, started |-> at, last |-> at]),
             current |-> new]
       ELSE LET again == rest[CHOOSE i \in nearest : TRUE]
            IN [threads |-> Rewritten(rest, MovedTo([again EXCEPT !.left = 0], pos, at)),
                current |-> again.id]

\* Reading on through where another thread stopped: the two are one, under the
\* name of the one read more.
Together(live, other) ==
    [id |-> IF other.read > live.read THEN other.id ELSE live.id,
     from |-> Lower(live.from, other.from), to |-> live.to,
     read |-> live.read + other.read, left |-> 0,
     started |-> Lower(live.started, other.started),
     last |-> Higher(live.last, other.last)]

JoinedWith(doc, id) ==
    LET live == CHOOSE t \in ToSet(doc.threads) : t.id = doc.current
        met == {o \in Of(doc.threads, id) \ {live} : live.from <= o.to /\ o.to <= live.to}
    IN IF met = {} THEN doc
       ELSE LET one == Together(live, CHOOSE o \in met : TRUE)
                gone == IF one.id = id THEN live.id ELSE id
            IN [threads |-> Rewritten(Without(doc.threads, gone), one), current |-> one.id]

Joined(doc) ==
    FoldLeft(JoinedWith, doc, [i \in DOMAIN doc.threads |-> doc.threads[i].id])

\* Seeded fault: the reader's own place is let go like any other.
LastingWhileRead(doc, at) ==
    SelectSeq(doc.threads,
              LAMBDA t : t.id = doc.current \/ (t.left < LeftAfter /\ at - t.last < StaleAfter))

\* Letting go of the places left for the reader's own and of those not read for long,
Lasting(doc, at) ==
    SelectSeq(doc.threads,
              LAMBDA t : \/ t.id = doc.current \/ IsMain(doc.threads, t.id)
                         \/ t.left < LeftAfter /\ at - t.last < StaleAfter)

\* and, past the most that are kept, of the least recently read.
Kept(ts, main, cur) ==
    LET Needed(t) == t.id = cur \/ t \in main
        spare == {i \in DOMAIN ts : ~Needed(ts[i])}
        room == MaxThreads - (Len(ts) - Cardinality(spare))
        Sooner(i) == {k \in spare : \/ ts[k].last > ts[i].last
                                    \/ ts[k].last = ts[i].last /\ k < i}
        keeps == {ts[i].id : i \in {i \in spare : Cardinality(Sooner(i)) < room}}
    IN IF Len(ts) <= MaxThreads THEN ts
       ELSE SelectSeq(ts, LAMBDA t : Needed(t) \/ t.id \in keeps)

\* foldReadingPlace.
Folded(pos, at) ==
    LET on == {t \in Of(threads, current) : Continues(t, pos)}
        doc == Joined(IF on # {} THEN ReadOn(CHOOSE t \in on : TRUE, pos, at)
                      ELSE Jumped(pos, at))
    IN [threads |-> Kept(Lasting(doc, at), Main(doc.threads), doc.current),
        current |-> doc.current]

-----------------------------------------------------------------------------

\* An accepted checkpoint, which may be older than others were.
Checkpoint(pos, at) ==
    /\ spent.steps < MaxSteps /\ at <= clock
    /\ LET doc == Folded(pos, at)
       IN threads' = doc.threads /\ current' = doc.current
    /\ spent' = [spent EXCEPT !.steps = @ + 1]
    /\ UNCHANGED clock

\* DELETE /api/books/:id/places/:placeId.
Forget(t) ==
    /\ spent.forgets < MaxForgets
    /\ threads' = Without(threads, t.id)
    /\ current' = IF current = t.id THEN 0 ELSE current
    /\ spent' = [spent EXCEPT !.forgets = @ + 1]
    /\ UNCHANGED clock

\* resetProgress: the reader starts the book over.
StartOver ==
    /\ spent.forgets < MaxForgets
    /\ threads' = <<>> /\ current' = 0
    /\ spent' = [spent EXCEPT !.forgets = @ + 1]
    /\ UNCHANGED clock

Tick == clock < MaxClock /\ clock' = clock + 1 /\ UNCHANGED <<threads, current, spent>>

Next ==
    \/ \E pos \in Pages, at \in Clock : Checkpoint(pos, at)
    \/ \E t \in ToSet(threads) : Forget(t)
    \/ StartOver \/ Tick

Spec == Init /\ [][Next]_vars

-----------------------------------------------------------------------------
(* What should hold.                                                       *)

\* The thread that was the reader's own is where it was, or the reader went on
\* from there: they read on or came back to it, or read through where it stopped.
StillThere(own) ==
    \E t \in ToSet(threads') :
        \/ t.id = own.id /\ t.to = own.to /\ t.read = own.read
        \/ /\ t.id = current' /\ t.read >= own.read /\ t.from <= own.from
           /\ \/ t.from <= own.to /\ own.to <= t.to
              \/ own.id = current /\ Continues(own, t.to)
              \/ Distance(own.to, t.to) <= Rejoin

\* Or they have read more elsewhere, and are there.
Overtaken(own) == \E m \in Main(threads') : m.id = current' /\ m.read >= own.read

\* A glance takes no place and leaves none.  Whatever is looked at, in whatever
\* order the checkpoints come, the reader's own place stays where they stopped
\* until they read on from it or have read more somewhere else; and what they
\* only looked at is not kept once they are away from it.
GlancesTakeNoPlace ==
    [][spent'.forgets = spent.forgets =>
           /\ \A own \in Main(threads) : StillThere(own) \/ Overtaken(own)
           /\ \A t \in ToSet(threads') : IsSettled(t) \/ t.id = current']_vars
=============================================================================
