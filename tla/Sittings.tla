------------------------------ MODULE Sittings ------------------------------
(***************************************************************************)
(* The diary behind the statistics: the sittings (`reading_sessions`) that *)
(* the accepted checkpoints of one reader, book, medium and device fold    *)
(* to.  Keys share nothing, so one of them is the whole model.             *)
(*                                                                         *)
(* A checkpoint is folded in the transaction that accepts it, in whatever  *)
(* order it arrives; `progress_events` keeps it as well, until a reset of  *)
(* the book or, for a heartbeat, the daily compaction takes it away.  A    *)
(* migration may clear the recent sittings, for the start that follows to  *)
(* derive them again from the rows that are left.                          *)
(*                                                                         *)
(* Times count one unit; a position is a number on a scale of its own.     *)
(***************************************************************************)
EXTENDS Integers, FiniteSets, FiniteSetsExt

CONSTANTS Gap,         \* SESSION_GAP_MS
          StepCap,     \* ACTIVE_STEP_CAP_MS of the medium
          Pace, Floor, \* PLAUSIBLE_PCT_PER_SECOND, PLAUSIBLE_STEP_FLOOR
          Jitter, MaxBack,  \* REREAD_JITTER_PCT, REREAD_MAX_PCT of the medium
          Lead,        \* MAX_FUTURE_SKEW_MS: how far a checkpoint may lie ahead of the clock
          Keep,        \* the age at which heartbeats are compacted
          Recent,      \* the age up to which a migration clears sittings
          Positions,   \* where the reader may be,
          Start,       \* and was at the checkpoint of long ago
          Unmeasured,  \* the active time of a sitting from before it was kept
          Today, MaxTime,   \* the clock at first and at last
          MaxEvents, MaxResets, MaxStarts, MaxClears

VARIABLES now,
          rows,      \* progress_events, the applied ones
          sittings,  \* reading_sessions
          phase,     \* of the web process
          draft,     \* the sittings as the backfill's open transaction has them
          todo,      \* the rows its cursor has not come to
          spent,     \* how many events, resets, starts and clears there were
          \* What happened, for the properties only:
          read,      \* how many checkpoints of each time were accepted
          erased,    \* the times whose rows a reset took away
          behind,    \* sittings were cleared and are not derived again yet
          missed     \* the server served on, and folded or compacted, while it was

vars == <<now, rows, sittings, phase, draft, todo, spent, read, erased, behind, missed>>

Time == 0..(MaxTime + Lead)

Sitting == [start : Time, end : Time, first : Positions, last : Positions,
            advanced : Nat, events : Nat, active : Nat \cup {Unmeasured},
            rereads : Nat, back : Nat]

Row == [id : 1..MaxEvents, at : Time, received : 0..MaxTime, pct : Positions]

TypeOK ==
    /\ now \in 0..MaxTime
    /\ rows \subseteq Row
    /\ \A s \in sittings \cup draft : s \in Sitting
    /\ phase \in {"serving", "starting", "deriving"}
    /\ todo \subseteq Row
    /\ spent \in [events : 0..MaxEvents, resets : 0..MaxResets,
                  starts : 0..MaxStarts, clears : 0..MaxClears]
    /\ read \in [Time -> Nat] /\ erased \subseteq Time
    /\ behind \in BOOLEAN /\ missed \in BOOLEAN

\* One checkpoint of long ago, from before active time was kept; its row is
\* compacted away.
Legacy == [start |-> 0, end |-> 0, first |-> Start, last |-> Start, advanced |-> 0,
           events |-> 1, active |-> Unmeasured, rereads |-> 0, back |-> 0]

Init ==
    /\ now = Today
    /\ rows = {} /\ sittings = {Legacy}
    /\ phase = "serving" /\ draft = {} /\ todo = {}
    /\ spent = [events |-> 0, resets |-> 0, starts |-> 0, clears |-> 0]
    /\ read = [t \in Time |-> IF t = 0 THEN 1 ELSE 0]
    /\ erased = {} /\ behind = FALSE /\ missed = FALSE

-----------------------------------------------------------------------------
(* The fold.  d is the diary before the checkpoint.                        *)

\* How much of a step was reading.
Counted(took) == IF took <= StepCap THEN took ELSE StepCap

\* The ground a step covers: forward only, and only at a pace people read at.
Plausible(took) == IF took * Pace <= Floor THEN Floor ELSE took * Pace

\* Seeded fault: a jump ahead is ground covered.
ForwardOfJumps(from, to, took) == IF to > from THEN to - from ELSE 0

Forward(from, to, took) ==
    IF to > from /\ to - from <= Plausible(took) THEN to - from ELSE 0

\* A step back of more than jitter and of no more than a page or two.
Reread(from, to) ==
    IF from - to > Jitter /\ from - to <= MaxBack THEN from - to ELSE 0
Rereads(from, to) == IF Reread(from, to) > 0 THEN 1 ELSE 0

\* A sitting measured by the clock goes on being measured by it.
Plus(active, more) ==
    IF active = Unmeasured \/ more = Unmeasured THEN Unmeasured ELSE active + more

\* s with one more event and the step that it makes to or from its neighbour.
WithStep(s, from, to, took) ==
    [s EXCEPT !.events = @ + 1,
              !.advanced = @ + Forward(from, to, took),
              !.active = Plus(@, Counted(took)),
              !.rereads = @ + Rereads(from, to),
              !.back = @ + Reread(from, to)]

Fresh(at, pct) ==
    [start |-> at, end |-> at, first |-> pct, last |-> pct, advanced |-> 0,
     events |-> 1, active |-> 0, rereads |-> 0, back |-> 0]

Touched(s) == [s EXCEPT !.events = @ + 1]

Extended(p, at, pct) ==
    [WithStep(p, p.last, pct, at - p.end) EXCEPT !.end = at, !.last = pct]

ExtendedBack(n, at, pct) ==
    [WithStep(n, pct, n.first, n.start - at) EXCEPT !.start = at, !.first = pct]

\* The checkpoint bridges two sittings: a step to each, and both bring their counts.
Merged(p, n, at, pct) ==
    LET toEvent == Extended(p, at, pct)
        fromEvent == ExtendedBack(n, at, pct)
    IN [start |-> p.start, end |-> n.end, first |-> p.first, last |-> n.last,
        events |-> p.events + n.events + 1,
        advanced |-> toEvent.advanced + fromEvent.advanced,
        active |-> Plus(toEvent.active, fromEvent.active),
        rereads |-> toEvent.rereads + fromEvent.rereads,
        back |-> toEvent.back + fromEvent.back]

\* The last sitting that began by then, and the first that began after.
Previous(d, at) ==
    {s \in d : s.start <= at /\ \A r \in d : r.start <= at => r.start <= s.start}
Following(d, at) ==
    {s \in d : s.start > at /\ \A r \in d : r.start > at => r.start >= s.start}

Covering(d, at) == {p \in Previous(d, at) : at < p.end}
Joining(d, at) == {p \in Previous(d, at) : at - p.end <= Gap}
JoinedBy(d, at) == {n \in Following(d, at) : n.start - at <= Gap}

\* Seeded fault: a checkpoint that bridges two sittings joins the first only.
FoldedUnmerged(d, at, pct) ==
    IF Joining(d, at) = {} THEN d \cup {Fresh(at, pct)}
    ELSE LET p == CHOOSE s \in Previous(d, at) : TRUE
         IN (d \ {p}) \cup {IF at < p.end THEN Touched(p) ELSE Extended(p, at, pct)}

Folded(d, at, pct) ==
    LET p == CHOOSE s \in Previous(d, at) : TRUE
        n == CHOOSE s \in Following(d, at) : TRUE
    IN CASE Covering(d, at) # {} -> (d \ {p}) \cup {Touched(p)}
         [] Covering(d, at) = {} /\ Joining(d, at) # {} /\ JoinedBy(d, at) # {} ->
                (d \ {p, n}) \cup {Merged(p, n, at, pct)}
         [] Covering(d, at) = {} /\ Joining(d, at) # {} /\ JoinedBy(d, at) = {} ->
                (d \ {p}) \cup {Extended(p, at, pct)}
         [] Joining(d, at) = {} /\ JoinedBy(d, at) # {} ->
                (d \ {n}) \cup {ExtendedBack(n, at, pct)}
         [] OTHER -> d \cup {Fresh(at, pct)}

-----------------------------------------------------------------------------
(* While the server runs.                                                  *)

Spend(what) == spent' = [spent EXCEPT ![what] = @ + 1]

\* applyProgressEvents, for a checkpoint it accepts.
Checkpoint(at, pct) ==
    /\ phase = "serving" /\ spent.events < MaxEvents
    /\ at <= now + Lead
    /\ rows' = rows \cup {[id |-> spent.events + 1, at |-> at, received |-> now,
                           pct |-> pct]}
    /\ sittings' = Folded(sittings, at, pct)
    /\ read' = [read EXCEPT ![at] = @ + 1]
    /\ missed' = (missed \/ behind)
    /\ Spend("events")
    /\ UNCHANGED <<now, phase, draft, todo, erased, behind>>

\* resetProgress: the history of the book goes, the diary stays.
Reset ==
    /\ phase = "serving" /\ spent.resets < MaxResets
    /\ rows # {}
    /\ rows' = {}
    /\ erased' = erased \cup {r.at : r \in rows}
    /\ Spend("resets")
    /\ UNCHANGED <<now, sittings, phase, draft, todo, read, behind, missed>>

Compactable(r) == r.received < now - Keep

\* compactProgressHistory, a batch of one row: any old one may be a heartbeat.
Compact ==
    /\ phase = "serving"
    /\ \E r \in rows : Compactable(r) /\ rows' = rows \ {r}
    /\ missed' = (missed \/ behind)
    /\ UNCHANGED <<now, sittings, phase, draft, todo, spent, read, erased, behind>>

Tick ==
    /\ now < MaxTime /\ now' = now + 1
    /\ UNCHANGED <<rows, sittings, phase, draft, todo, spent, read, erased, behind, missed>>

-----------------------------------------------------------------------------
(* Stops, upgrades and starts.                                             *)

\* The web process ends, in the middle of a backfill too.
Stop ==
    /\ phase # "starting" /\ spent.starts < MaxStarts
    /\ phase' = "starting" /\ draft' = {} /\ todo' = {}
    /\ Spend("starts")
    /\ UNCHANGED <<now, rows, sittings, read, erased, behind, missed>>

\* A migration that clears the recent sittings, run by the start itself or by
\* a worker process that is upgraded while the web process still serves.
ClearRecent ==
    /\ phase \in {"starting", "serving"} /\ spent.clears < MaxClears
    /\ sittings' = {s \in sittings : s.start < now - Recent}
    /\ behind' = TRUE
    /\ Spend("clears")
    /\ UNCHANGED <<now, rows, phase, draft, todo, read, erased, missed>>

\* backfillReadingSessions: its transaction opens on the rows newer than the
\* newest sitting,
Uncovered(r) == \A s \in sittings : r.at > s.end

Derive ==
    /\ phase = "starting"
    /\ phase' = "deriving"
    /\ draft' = sittings /\ todo' = {r \in rows : Uncovered(r)}
    /\ UNCHANGED <<now, rows, sittings, spent, read, erased, behind, missed>>

\* folds one after another, in the order of their times,
Earliest(rs) ==
    {r \in rs : \A q \in rs : r.at < q.at \/ (r.at = q.at /\ r.id <= q.id)}

DeriveNext ==
    /\ phase = "deriving"
    /\ \E r \in Earliest(todo) :
          /\ draft' = Folded(draft, r.at, r.pct)
          /\ todo' = todo \ {r}
    /\ UNCHANGED <<now, rows, sittings, phase, spent, read, erased, behind, missed>>

\* and commits, whereupon the server starts to listen.
DeriveEnds ==
    /\ phase = "deriving" /\ todo = {}
    /\ sittings' = draft /\ draft' = {}
    /\ phase' = "serving" /\ behind' = FALSE
    /\ UNCHANGED <<now, rows, todo, spent, read, erased, missed>>

\* It fails: the transaction is rolled back, the failure logged, and the server listens.
DeriveFails ==
    /\ phase = "deriving"
    /\ phase' = "serving" /\ draft' = {} /\ todo' = {}
    /\ UNCHANGED <<now, rows, sittings, spent, read, erased, behind, missed>>

Next ==
    \/ \E at \in Time, pct \in Positions : Checkpoint(at, pct)
    \/ Reset \/ Compact \/ Tick
    \/ Stop \/ ClearRecent \/ Derive \/ DeriveNext \/ DeriveEnds \/ DeriveFails

Spec == Init /\ [][Next]_vars

-----------------------------------------------------------------------------
(* What should hold.                                                       *)

Within(s, t) == s.start <= t /\ t <= s.end
ReadIn(s) == {t \in Time : Within(s, t) /\ read[t] > 0}
CheckpointsIn(s) == MapThenSumSet(LAMBDA t : read[t], ReadIn(s))

\* No two sittings of a key overlap, or are close enough to be one.
Apart(d) ==
    \A s, r \in d : s.start <= s.end
                 /\ (s = r \/ s.end + Gap < r.start \/ r.end + Gap < s.start)

\* Whatever the order in which checkpoints arrive, and through restarts,
\* upgrades and compactions, the sittings are what the times read fall into
\* when they are split at every silence longer than the gap: each begins and
\* ends with a checkpoint, has no such silence inside, and counts every
\* checkpoint once.  Only what a reset erased may be absent from a diary that
\* was cleared, and only when the server served on while it was behind is more.
DiaryIsTheHistory ==
    phase = "serving" =>
        /\ Apart(sittings)
        /\ \A s \in sittings :
              /\ {s.start, s.end} \subseteq ReadIn(s)
              /\ \A t \in ReadIn(s) :
                    t = s.end \/ \E r \in ReadIn(s) : t < r /\ r - t <= Gap
              /\ s.events <= CheckpointsIn(s)
              /\ ~missed /\ ReadIn(s) \cap erased = {} => s.events = CheckpointsIn(s)
        /\ ~behind /\ ~missed =>
              \A t \in Time \ erased : read[t] > 0 => \E s \in sittings : Within(s, t)

\* The steps of s if its checkpoints had come one after another.
StepsIn(s) ==
    MapThenSumSet(LAMBDA t : LET later == {r \in ReadIn(s) : r > t}
                             IN IF later = {} THEN 0 ELSE Counted(Min(later) - t),
                  ReadIn(s))

\* A sitting is never credited with more reading than its checkpoints, taken
\* in order, would show, nor with less than its ends alone would; a sitting
\* measured by the clock is measured by nothing else; a jump is no ground
\* covered, and a step back is counted once, at what it went back over.
ReadingIsMeasured ==
    \A s \in sittings :
        /\ s.active = Unmeasured <=> s.start = 0
        /\ s.active # Unmeasured => /\ s.active <= StepsIn(s)
                                    /\ s.active >= Counted(s.end - s.start)
        /\ s.advanced <= Floor * (s.events - 1) + Pace * (s.end - s.start)
        /\ s.rereads < s.events
        /\ s.back <= MaxBack * s.rereads /\ s.back >= (Jitter + 1) * s.rereads
=============================================================================
