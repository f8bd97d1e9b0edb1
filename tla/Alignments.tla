----------------------------- MODULE Alignments -----------------------------
(***************************************************************************)
(* The sync of one pair of an ebook and an audiobook: hours of listening   *)
(* by an align job, while curators decide on the pair, files are replaced, *)
(* processes die or stall past their lease, and readers already follow the *)
(* opening the sync has settled.                                           *)
(*                                                                         *)
(* The narration is heard in Stages windows, from the first on.  What is   *)
(* heard is kept in the probe cache, a file of the pair; what is settled   *)
(* is published as the partial alignment, and in the end as the ready one. *)
(* Texts and recordings are numbered by the replacement that brought them. *)
(***************************************************************************)
EXTENDS Integers, FiniteSets, Functions

CONSTANTS Processes,    \* worker processes, with a slot for aligning each
          Stages,       \* windows of the narration
          MaxAttempts,  \* MAX_ATTEMPTS of the job queue
          MaxReplacements, MaxDecisions, MaxRefusals,
          MaxMishaps,   \* failed and dead attempts
          MaxStalls,
          MaxEvents,    \* all of these together
          NoOne, NoSync, NoCache

\* There is something to hear and at least one attempt at it; the bounds are counts.
ASSUME CountsAreNatural ==
    /\ {Stages, MaxAttempts} \subseteq Nat \ {0}
    /\ {MaxReplacements, MaxDecisions, MaxRefusals, MaxMishaps, MaxStalls, MaxEvents} \subseteq Nat

\* Nobody is no process, and no file is no file.
ASSUME NothingIsSomething ==
    /\ NoOne \notin Processes
    /\ NoSync \notin [text : Nat, sound : Nat]
    /\ NoSync \notin [text : Nat, sound : Nat, through : Nat]
    /\ NoCache \notin [sig : Int, lines : [1..Stages -> Int], torn : BOOLEAN]

VARIABLES text,      \* the ebook's text in service
          indexing,  \* the ebook was replaced and its new text is not in service yet
          sound,     \* the recording the audiobook's tracks are of
          status,    \* pairs.status of the pair, "none" without a row
          ready,     \* the finished alignment of the highest version
          partial,   \* the partial alignment
          job,       \* the align job of the pair, one by its dedupe key
          try,       \* the attempt each process is making at it
          cache,     \* the probe cache of the pair
          written,   \* windows appended to the cache since it was last dropped
          budget,    \* what is left of each bound
          past       \* what has happened, as far as the properties ask

vars == <<text, indexing, sound, status, ready, partial, job, try, cache, written, budget, past>>

Windows == 1..Stages
Versions == 0..MaxReplacements
NoSound == -1
Unheard == [k \in Windows |-> NoSound]
Heard == [Windows -> Versions \cup {NoSound}]

Bounds == [replacements |-> MaxReplacements, decisions |-> MaxDecisions,
           refusals |-> MaxRefusals, mishaps |-> MaxMishaps,
           stalls |-> MaxStalls, all |-> MaxEvents]
Happened == {"overtaken", "crossed", "torn", "heardAgain"}

Idle == [pc |-> "idle", text |-> 0, sound |-> 0, candidate |-> FALSE, finished |-> FALSE,
         owns |-> FALSE, through |-> 0, kept |-> Unheard, lost |-> FALSE]

TypeOK ==
    /\ text \in Versions /\ indexing \in BOOLEAN /\ sound \in Versions
    /\ status \in {"none", "candidate", "auto", "confirmed", "rejected"}
    /\ ready \in [text : Versions, sound : Versions] \cup {NoSync}
    /\ partial \in [text : Versions, sound : Versions, through : Windows] \cup {NoSync}
    /\ job \in [state : {"none", "queued", "running", "done", "failed"},
                owner : Processes \cup {NoOne}, force : BOOLEAN, tries : 0..MaxAttempts]
    /\ try \in [Processes -> [pc : {"idle", "listening"}, text : Versions, sound : Versions,
                              candidate : BOOLEAN, finished : BOOLEAN, owns : BOOLEAN,
                              through : 0..Stages, kept : Heard, lost : BOOLEAN]]
    /\ cache \in [sig : Versions \cup {NoSound}, lines : Heard, torn : BOOLEAN] \cup {NoCache}
    /\ written \in Heard
    /\ budget \in [{"replacements", "decisions", "refusals", "mishaps", "stalls", "all"} -> Nat]
    /\ past \subseteq Happened

Init ==
    /\ text = 0 /\ indexing = FALSE /\ sound = 0
    /\ status = "none" /\ ready = NoSync /\ partial = NoSync
    /\ job = [state |-> "none", owner |-> NoOne, force |-> FALSE, tries |-> 0]
    /\ try = [w \in Processes |-> Idle]
    /\ cache = NoCache /\ written = Unheard
    /\ budget = Bounds /\ past = {}

books == <<text, indexing, sound>>
syncs == <<ready, partial>>
work == <<job, try, cache, written>>

Spend(what) ==
    /\ budget[what] > 0 /\ budget.all > 0
    /\ budget' = [budget EXCEPT ![what] = @ - 1, !.all = @ - 1]

Listening(w) == try[w].pc = "listening"
Superseded(w) == job.state # "running" \/ job.owner # w
Note(what, condition) == past' = IF condition THEN past \cup {what} ELSE past

-----------------------------------------------------------------------------
(* Books, pairs and decisions.                                             *)

Pending == job.state \in {"queued", "running"}

\* Seeded fault: a pair is only ever aligned once.
EnqueuedOnce(force) ==
    IF job.state # "none" THEN job
    ELSE [state |-> "queued", owner |-> NoOne, force |-> force, tries |-> 0]

\* enqueueJob under the pair's dedupe key
Enqueued(force) ==
    IF Pending THEN job
    ELSE [state |-> "queued", owner |-> NoOne, force |-> force, tries |-> 0]

\* Seeded fault: the opening settled so far outlives the pair.
DiscardKeepsOpening ==
    /\ status' = "none" /\ ready' = NoSync /\ UNCHANGED partial
    /\ Spend("replacements")
    /\ Note("overtaken", \E w \in Processes : Listening(w))
    /\ UNCHANGED work

\* A file was replaced, and the scan has seen it: discardPairing, whose alignments go with it.
Discard ==
    /\ status' = "none" /\ ready' = NoSync /\ partial' = NoSync
    /\ Spend("replacements")
    /\ Note("overtaken", \E w \in Processes : Listening(w))
    /\ UNCHANGED work

ReplaceEbook == indexing' = TRUE /\ Discard /\ UNCHANGED <<text, sound>>
ReplaceAudio == sound' = sound + 1 /\ Discard /\ UNCHANGED <<text, indexing>>

\* The index job puts the new text in service.
Reindex ==
    /\ indexing
    /\ indexing' = FALSE /\ text' = text + 1
    /\ UNCHANGED <<sound, status, syncs, work, budget, past>>

\* The pair scan suggests the pair, and may have it aligned at once ...
Suggest ==
    /\ status = "none" /\ ~indexing
    /\ status' = "candidate"
    /\ job' \in {job, Enqueued(FALSE)}
    /\ UNCHANGED <<books, syncs, try, cache, written, budget, past>>

\* ... or drops a suggestion that nothing has been computed for, nor is being.
Retire ==
    /\ status = "candidate" /\ ready = NoSync /\ partial = NoSync /\ ~Pending
    /\ status' = "none"
    /\ UNCHANGED <<books, syncs, work, budget, past>>

\* Confirm (of a pair there is), and link by hand (of any two books).
Confirm ==
    /\ Spend("decisions")
    /\ status' = "confirmed" /\ job' = Enqueued(FALSE)
    /\ UNCHANGED <<books, syncs, try, cache, written, past>>

\* Reject and unlink.
Reject ==
    /\ status # "none"
    /\ Spend("decisions")
    /\ status' = "rejected"
    /\ UNCHANGED <<books, syncs, work, past>>

\* POST /api/pairs/:id/align
AlignNow ==
    /\ status # "none" /\ ~Pending
    /\ Spend("decisions")
    /\ job' = Enqueued(TRUE)
    /\ UNCHANGED <<books, status, syncs, try, cache, written, past>>

-----------------------------------------------------------------------------
(* The probe cache.                                                        *)

NewCache(sig) == [sig |-> sig, lines |-> Unheard, torn |-> FALSE]

\* Seeded fault: whatever the cache keeps is served.
ReadableOfAnything(sig) == IF cache # NoCache THEN cache.lines ELSE Unheard

\* readProbeCache: what was written for this recording, up to a line cut short.
Readable(sig) == IF cache # NoCache /\ cache.sig = sig THEN cache.lines ELSE Unheard

\* withProbeCache: a file that keeps nothing for this recording is started afresh.
Opened(sig) == IF Readable(sig) = Unheard THEN NewCache(sig) ELSE cache

\* A line appended: to a file without a header where there is none, and unread
\* behind a line that was cut short.
Appended(k, s) ==
    LET file == IF cache = NoCache THEN NewCache(NoSound) ELSE cache
    IN IF file.torn THEN file ELSE [file EXCEPT !.lines[k] = s]

-----------------------------------------------------------------------------
(* The job.                                                                *)

Ended(state) == [job EXCEPT !.state = state, !.owner = NoOne]
Leave(w, state) ==
    /\ job' = IF try[w].lost \/ Superseded(w) THEN job ELSE Ended(state)
    /\ try' = [try EXCEPT ![w] = Idle]

Start(w) ==
    LET claimed == [job EXCEPT !.state = "running", !.owner = w, !.tries = @ + 1]
        ends(state) == job' = [claimed EXCEPT !.state = state, !.owner = NoOne]
                       /\ UNCHANGED <<try, cache, written, past>>
    IN
    /\ job.state = "queued" /\ ~Listening(w)
    /\ \/ status \in {"none", "rejected"} /\ ends("failed")
       \/ status \notin {"none", "rejected"} /\ ~job.force /\ ready # NoSync /\ ends("done")
       \/ /\ status \notin {"none", "rejected"} /\ (job.force \/ ready = NoSync)
          /\ job' = claimed
          /\ try' = [try EXCEPT ![w] =
                [Idle EXCEPT !.pc = "listening", !.text = text, !.sound = sound,
                             !.candidate = (status = "candidate"), !.finished = (ready # NoSync),
                             !.kept = Readable(sound)]]
          /\ cache' = Opened(sound)
          /\ written' = [k \in Windows |-> IF written[k] = sound THEN sound ELSE NoSound]
          /\ Note("overtaken", indexing)
    /\ UNCHANGED <<books, status, syncs, budget>>

Through(p) == IF p = NoSync THEN 0 ELSE p.through
\* Seeded fault: a sync that starts over publishes from its first window on.
PublishesFromTheStart(t, k) == ~t.finished

\* onPartial: the opening settled so far, unless a longer one is already followed.
Publishes(t, k) == ~t.finished /\ (t.owns \/ Through(partial) <= k)

\* The next window is heard, from the cache or by the model, and its stage settled.
Hear(w) ==
    LET t == try[w]
        k == t.through + 1
        cached == t.kept[k] # NoSound
    IN
    /\ Listening(w) /\ ~t.lost /\ t.through < Stages
    /\ cache' = IF cached THEN cache ELSE Appended(k, t.sound)
    /\ written' = IF cached THEN written ELSE [written EXCEPT ![k] = t.sound]
    /\ past' = past \cup (IF ~cached /\ Superseded(w) THEN {"crossed"} ELSE {})
                    \cup (IF ~cached /\ written[k] = t.sound THEN {"heardAgain"} ELSE {})
    /\ IF Publishes(t, k) /\ Superseded(w)
       THEN try' = [try EXCEPT ![w] = Idle] /\ UNCHANGED partial
       ELSE /\ try' = [try EXCEPT ![w].through = k, ![w].owns = @ \/ Publishes(t, k)]
            /\ partial' = IF Publishes(t, k) /\ status # "none"
                          THEN [text |-> t.text, sound |-> t.sound, through |-> k]
                          ELSE partial
    /\ UNCHANGED <<books, status, ready, job, budget>>

\* The heartbeat has told the attempt that the job is somebody else's: it stops.
Heartbeat(w) ==
    /\ Listening(w) /\ Superseded(w)
    /\ try' = [try EXCEPT ![w] = IF @.lost THEN Idle ELSE [@ EXCEPT !.lost = TRUE]]
    /\ UNCHANGED <<books, status, syncs, job, cache, written, budget, past>>

\* Not the same work: what was heard and what was settled go.
Refuse(w) ==
    /\ Listening(w) /\ try[w].through > 0
    /\ Spend("refusals")
    /\ cache' = NoCache /\ written' = Unheard
    /\ partial' = IF try[w].lost THEN partial ELSE NoSync
    /\ Note("crossed", Superseded(w))
    /\ Leave(w, "done")
    /\ UNCHANGED <<books, status, ready>>

\* Seeded fault: the decision is the one read when the sync began.
LinkedByItsStart(t) == IF t.candidate THEN "auto" ELSE status

\* What ends a sync that matched, in this order, the process alive or not: the
\* pair becomes a pair, the alignment is stored, the partial one and the cache go.
LinkedBy(t) == IF t.candidate /\ status = "candidate" THEN "auto" ELSE status
Finish(w) ==
    LET t == try[w] IN
    /\ Listening(w) /\ t.through = Stages
    /\ IF Superseded(w)
       THEN Leave(w, "done") /\ UNCHANGED <<status, syncs, cache, written>>
       ELSE IF status = "none"
       THEN Leave(w, "failed") /\ UNCHANGED <<status, syncs, cache, written>>
       ELSE /\ status' = LinkedBy(t)
            /\ ready' = [text |-> t.text, sound |-> t.sound]
            /\ partial' = NoSync /\ cache' = NoCache /\ written' = Unheard
            /\ Leave(w, "done")
    /\ UNCHANGED <<books, budget, past>>

FinishCut(w) ==
    LET t == try[w] IN
    /\ Listening(w) /\ t.through = Stages /\ ~Superseded(w) /\ status # "none"
    /\ Spend("mishaps")
    /\ status' = LinkedBy(t)
    /\ \/ UNCHANGED syncs
       \/ ready' = [text |-> t.text, sound |-> t.sound] /\ partial' \in {partial, NoSync}
    /\ try' = [try EXCEPT ![w] = Idle]
    /\ UNCHANGED <<books, job, cache, written, past>>

\* Anything else that goes wrong in an attempt.
Fails(w) ==
    /\ Listening(w)
    /\ Spend("mishaps")
    /\ Leave(w, "failed")
    /\ UNCHANGED <<books, status, syncs, cache, written, past>>

\* A process dies, perhaps while it writes what it has just heard.
Crash(w) ==
    LET t == try[w] IN
    /\ Listening(w)
    /\ Spend("mishaps")
    /\ try' = [try EXCEPT ![w] = Idle]
    /\ \/ UNCHANGED <<cache, past>>
       \/ /\ t.through < Stages /\ t.kept[t.through + 1] = NoSound /\ cache # NoCache
          /\ cache' = [cache EXCEPT !.torn = TRUE]
          /\ past' = past \cup {"torn"}
    /\ UNCHANGED <<books, status, syncs, job, written>>

\* The sweep takes a job whose lease ran out: its process died, or was slow.
Reclaimed == IF job.tries < MaxAttempts THEN Ended("queued") ELSE Ended("failed")
SweepDead ==
    /\ job.state = "running" /\ ~Listening(job.owner)
    /\ job' = Reclaimed
    /\ UNCHANGED <<books, status, syncs, try, cache, written, budget, past>>
SweepSlow ==
    /\ job.state = "running" /\ Listening(job.owner)
    /\ Spend("stalls")
    /\ job' = Reclaimed
    /\ UNCHANGED <<books, status, syncs, try, cache, written, past>>

Next ==
    \/ ReplaceEbook \/ ReplaceAudio \/ Reindex \/ Suggest \/ Retire
    \/ Confirm \/ Reject \/ AlignNow
    \/ \E w \in Processes :
          \/ Start(w) \/ Hear(w) \/ Finish(w) \/ Heartbeat(w)
          \/ Refuse(w) \/ Fails(w) \/ Crash(w) \/ FinishCut(w)
    \/ SweepDead \/ SweepSlow

\* Workers claim what they can and listen on, heartbeats fire, and a job nobody works on is swept.
Fairness ==
    /\ \A w \in Processes : WF_vars(Start(w)) /\ WF_vars(Hear(w) \/ Finish(w)) /\ WF_vars(Heartbeat(w))
    /\ WF_vars(SweepDead)

Spec == Init /\ [][Next]_vars
FairSpec == Spec /\ Fairness

-----------------------------------------------------------------------------
(* Properties.                                                             *)

OfTheseBooks(s) == s = NoSync \/ (s.text = text /\ s.sound = sound)

\* What read along follows was timed for the text and the recording that are
\* there: replacing a file discards the pair with its alignments (scan.ts, discardPairing).
SyncIsOfTheseBooks == ~indexing => OfTheseBooks(ready) /\ OfTheseBooks(partial)

\* It is, unless a file was replaced under a sync, or a sync began before the new text was there.
SyncIsOfQuietBooks == SyncIsOfTheseBooks \/ "overtaken" \in past

\* What a person decided stands until a person decides otherwise or a file is
\* replaced: a sync of hours that began on a suggestion does not link a pair that was
\* rejected, nor turn a confirmed pair into an automatic one.
Spent(what) == budget'[what] < budget[what]
Decided == status \in {"confirmed", "rejected"}
DecisionsStand ==
    [][Decided => (status' = status \/ Spent("decisions") \/ Spent("replacements"))]_vars

\* How far a reader can follow.
Followed == IF ready # NoSync THEN Stages ELSE Through(partial)

\* It never gets shorter while the files stay: not by a sync that starts over, is
\* forced, fails, dies or is superseded, but only when the books are refused.
ReadersAreNotSetBack ==
    [][Followed' >= Followed \/ Spent("replacements") \/ Spent("refusals")]_vars

\* A window served from the cache was heard from this recording, unless an attempt
\* that had lost the job wrote to the cache of its successor; and no window is
\* listened to twice for one sync, unless that happened or a line was cut short.
CacheIsTrue ==
    /\ \A w \in Processes : Listening(w) =>
          (\A k \in Windows : try[w].kept[k] \in {NoSound, try[w].sound}) \/ "crossed" \in past
    /\ "heardAgain" \in past => {"torn", "crossed"} \cap past # {}

\* Whom a person has told that two books belong together gets their sync, whatever
\* was running at the time: unless the books are refused, the pair is let go or replaced,
\* or attempts fail or die too often.
ConfirmedIsSynced ==
    status = "confirmed" ~>
        \/ status # "confirmed" \/ ready # NoSync
        \/ budget.refusals < MaxRefusals \/ job.state = "failed"
=============================================================================
