---------------------------- MODULE Server_proofs ----------------------------
(***************************************************************************)
(* Proofs about the three parts of the server that MCServer composes.      *)
(*                                                                         *)
(* Alignments, for every number of processes, of windows and of everything *)
(* that may go wrong.  Each property has an invariant of its own beside    *)
(* the types:                                                              *)
(*   Undisturbed   whoever listens, listens to the books that are there;   *)
(*   CacheInv      what was written to the probe cache, what is in it and  *)
(*                 what the attempt that has the job read from it agree;   *)
(*   OwnerLeads    that attempt is past the opening it has published.      *)
(*                                                                         *)
(* ModelDownload, for every number of processes and pieces.  Fetched says  *)
(* that the attempt that has the job has written exactly as much of the    *)
(* part file as it has got to, until two attempts meet in it.              *)
(*                                                                         *)
(* TranslationGroups, for all books and pairs.  A title is the least set   *)
(* that holds a book and that no settled pair leads out of; books in two   *)
(* groups are separated by a set that no pair of a person leads out of     *)
(* (Separated), so a title in two groups was joined by an alignment.       *)
(***************************************************************************)
EXTENDS MCServer, FiniteSetTheorems, WellFoundedInduction, TLAPS

\* No more texts and recordings than files that were replaced.
Counted == text + sound + (IF indexing THEN 1 ELSE 0) + budget.replacements <= MaxReplacements

JobInOrder ==
    /\ job.state = "queued" => job.tries < MaxAttempts
    /\ job.state = "running" => job.owner \in Processes

Typed == TypeOK /\ Counted /\ JobInOrder

Syncs == [text : Versions, sound : Versions]
Openings == [text : Versions, sound : Versions, through : Windows]
Jobs == [state : {"none", "queued", "running", "done", "failed"},
         owner : Processes \cup {NoOne}, force : BOOLEAN, tries : 0..MaxAttempts]
Attempts == [pc : {"idle", "listening"}, text : Versions, sound : Versions,
             candidate : BOOLEAN, finished : BOOLEAN, owns : BOOLEAN,
             through : 0..Stages, kept : Heard, lost : BOOLEAN]
Budgets == [{"replacements", "decisions", "refusals", "mishaps", "stalls", "all"} -> Nat]
Caches == [sig : Versions \cup {NoSound}, lines : Heard, torn : BOOLEAN]

-----------------------------------------------------------------------------
(* Types.                                                                  *)

\* What an attempt starts from, with nothing heard, is typed.
LEMMA UnheardIsTyped == Unheard \in Heard /\ Idle \in Attempts
  BY CountsAreNatural DEF Unheard, Heard, Idle, Attempts, Versions, Windows, NoSound

\* What the helpers return is typed.
LEMMA HelpersAreTyped ==
    ASSUME Typed
    PROVE  /\ \A force \in BOOLEAN : Enqueued(force) \in Jobs
           /\ \A state \in {"done", "failed"} : Ended(state) \in Jobs
           /\ Reclaimed \in Jobs
           /\ \A s \in Versions : /\ Readable(s) \in Heard
                                  /\ NewCache(s) \in Caches
                                  /\ Opened(s) \in Caches
           /\ \A k \in Windows, s \in Versions : Appended(k, s) \in Caches
           /\ \A w \in Processes, state \in {"done", "failed"} :
                 Leave(w, state) => job' \in Jobs /\ try' \in [Processes -> Attempts]
<1> USE CountsAreNatural
<1>1. /\ \A force \in BOOLEAN : Enqueued(force) \in Jobs
      /\ \A state \in {"done", "failed"} : Ended(state) \in Jobs
      /\ Reclaimed \in Jobs
  <2>1. job \in Jobs
    BY DEF Typed, TypeOK, Jobs
  <2>2. ASSUME NEW force \in BOOLEAN PROVE Enqueued(force) \in Jobs
    BY <2>1 DEF Enqueued, Jobs
  <2>3. \A state \in {"queued", "done", "failed"} : Ended(state) \in Jobs
    BY <2>1 DEF Ended, Jobs
  <2>4. Reclaimed \in Jobs
    BY <2>3 DEF Reclaimed
  <2> QED BY <2>2, <2>3, <2>4
<1>2. \A s \in Versions \cup {NoSound} : NewCache(s) \in Caches
  BY UnheardIsTyped DEF NewCache, Caches
<1>3. \A s \in Versions : Readable(s) \in Heard
  BY UnheardIsTyped DEF Typed, TypeOK, Readable
<1>4. \A s \in Versions : Opened(s) \in Caches
  <2> SUFFICES ASSUME NEW s \in Versions, Readable(s) # Unheard PROVE cache \in Caches
    BY <1>2 DEF Opened
  <2> QED BY DEF Readable, Typed, TypeOK, Caches
<1>5. \A k \in Windows, s \in Versions : Appended(k, s) \in Caches
  <2> TAKE k \in Windows, s \in Versions
  <2> DEFINE file == IF cache = NoCache THEN NewCache(NoSound) ELSE cache
  <2>1. file \in Caches
    BY <1>2 DEF Typed, TypeOK, Caches
  <2>2. [file EXCEPT !.lines[k] = s] \in Caches
    BY <2>1 DEF Caches, Heard
  <2> QED BY <2>1, <2>2 DEF Appended
<1>6. ASSUME NEW w \in Processes, NEW state \in {"done", "failed"}, Leave(w, state)
      PROVE  job' \in Jobs /\ try' \in [Processes -> Attempts]
  <2>1. job' \in Jobs
    BY <1>1, <1>6 DEF Leave, Typed, TypeOK, Jobs
  <2>2. try' \in [Processes -> Attempts]
    BY <1>6, UnheardIsTyped DEF Leave, Typed, TypeOK, Attempts
  <2> QED BY <2>1, <2>2
<1> QED BY <1>1, <1>2, <1>3, <1>4, <1>5, <1>6

\* Before anything happened everything is typed, and no file was replaced.
THEOREM InitTyped == Init => Typed
<1> SUFFICES ASSUME Init PROVE Typed
  OBVIOUS
<1> USE CountsAreNatural
<1>1. text \in Versions /\ sound \in Versions
  BY DEF Init, Versions
<1>7. /\ indexing \in BOOLEAN /\ past \subseteq Happened
      /\ status \in {"none", "candidate", "auto", "confirmed", "rejected"}
  BY DEF Init
<1>2. try \in [Processes -> Attempts] /\ written \in Heard
  BY UnheardIsTyped DEF Init
<1>3. job \in Jobs /\ JobInOrder
  BY DEF Init, Jobs, JobInOrder
<1>4. budget \in Budgets
  BY DEF Init, Bounds, Budgets
<1>5. Counted
  BY DEF Init, Counted, Bounds
<1>6. ready = NoSync /\ partial = NoSync /\ cache = NoCache
  BY DEF Init
<1> QED BY <1>1, <1>2, <1>3, <1>4, <1>5, <1>6, <1>7 DEF Typed, TypeOK, Jobs, Attempts, Budgets

\* Spending keeps the bounds and takes one from what is left.
LEMMA SpendingIsTyped ==
    ASSUME Typed,
           NEW what \in {"replacements", "decisions", "refusals", "mishaps", "stalls"}, Spend(what)
    PROVE  /\ budget' \in Budgets
           /\ Spent(what)
           /\ budget'.replacements <= budget.replacements
           /\ what = "replacements" => budget'.replacements = budget.replacements - 1
<1> USE CountsAreNatural
<1>1. budget \in Budgets /\ budget[what] > 0 /\ budget["all"] > 0
  BY DEF Spend, Typed, TypeOK, Budgets
<1>2. budget' = [budget EXCEPT ![what] = budget[what] - 1, !["all"] = budget["all"] - 1]
  BY DEF Spend
<1> QED BY <1>1, <1>2 DEF Spent, Budgets

\* A step that leaves the books alone, and takes a job only where it may.
LEMMA BooksAside ==
    ASSUME Typed, UNCHANGED books,
           budget' = budget
             \/ \E what \in {"decisions", "refusals", "mishaps", "stalls"} : Spend(what)
    PROVE  Counted' /\ budget' \in Budgets
<1>0. budget \in Budgets
  BY DEF Typed, TypeOK, Budgets
<1>1. budget'.replacements <= budget.replacements
  <2>1. CASE budget' = budget
    BY <1>0, <2>1 DEF Budgets
  <2>2. CASE \E what \in {"decisions", "refusals", "mishaps", "stalls"} : Spend(what)
    BY <2>2, SpendingIsTyped
  <2> QED BY <2>1, <2>2
<1>2. budget' \in Budgets
  BY <1>0, SpendingIsTyped
<1>3. budget.replacements \in Nat /\ text \in Int /\ sound \in Int /\ MaxReplacements \in Int
  BY CountsAreNatural DEF Typed, TypeOK, Versions
<1>4. text' = text /\ sound' = sound /\ indexing' = indexing
  BY DEF books
<1>5. (IF indexing' THEN 1 ELSE 0) = (IF indexing THEN 1 ELSE 0) /\ (IF indexing THEN 1 ELSE 0) \in Int
  BY <1>4
<1>6. Counted'
  BY <1>1, <1>2, <1>3, <1>4, <1>5 DEF Typed, Counted, Budgets
<1> QED BY <1>2, <1>6

\* Enqueueing, ending and sweeping leave a job that may be tried again, or nobody's.
LEMMA JobsStayInOrder ==
    ASSUME Typed
    PROVE  /\ job' = job => JobInOrder'
           /\ \A force \in BOOLEAN : job' = Enqueued(force) => JobInOrder'
           /\ job' = Reclaimed => JobInOrder'
           /\ \A w \in Processes, state \in {"done", "failed"} : Leave(w, state) => JobInOrder'
<1> USE CountsAreNatural
<1>1. job' = job => JobInOrder'
  BY DEF Typed, JobInOrder
<1>2. ASSUME NEW state \in {"queued", "done", "failed"}, job' = Ended(state),
             state = "queued" => job.tries < MaxAttempts
      PROVE  JobInOrder'
  BY <1>2 DEF Typed, TypeOK, JobInOrder, Ended
<1>3. \A force \in BOOLEAN : job' = Enqueued(force) => JobInOrder'
  BY DEF Typed, JobInOrder, Enqueued
<1>4. job' = Reclaimed => JobInOrder'
  BY <1>2 DEF Reclaimed
<1>5. \A w \in Processes, state \in {"done", "failed"} : Leave(w, state) => JobInOrder'
  BY <1>1, <1>2 DEF Leave
<1> QED BY <1>1, <1>3, <1>4, <1>5

\* The types of a state, one by one, as the steps below give them.
LEMMA TypedAfter ==
    ASSUME text' \in Versions, indexing' \in BOOLEAN, sound' \in Versions,
           status' \in {"none", "candidate", "auto", "confirmed", "rejected"},
           ready' \in Syncs \cup {NoSync}, partial' \in Openings \cup {NoSync},
           job' \in Jobs, try' \in [Processes -> Attempts], cache' \in Caches \cup {NoCache},
           written' \in Heard, budget' \in Budgets, past' \subseteq Happened,
           Counted', JobInOrder'
    PROVE  Typed'
  BY DEF Typed, TypeOK, Syncs, Openings, Jobs, Attempts, Caches, Budgets

\* ... and before.
LEMMA TypedBefore ==
    ASSUME Typed
    PROVE  /\ text \in Versions /\ indexing \in BOOLEAN /\ sound \in Versions
           /\ status \in {"none", "candidate", "auto", "confirmed", "rejected"}
           /\ ready \in Syncs \cup {NoSync} /\ partial \in Openings \cup {NoSync}
           /\ job \in Jobs /\ try \in [Processes -> Attempts] /\ cache \in Caches \cup {NoCache}
           /\ written \in Heard /\ budget \in Budgets /\ past \subseteq Happened
           /\ Counted /\ JobInOrder
  BY DEF Typed, TypeOK, Syncs, Openings, Jobs, Attempts, Caches, Budgets

\* What has happened is among what the properties ask about.
LEMMA NotesAreTyped ==
    ASSUME Typed, NEW what \in Happened, NEW condition, Note(what, condition)
    PROVE  past' \subseteq Happened
  BY TypedBefore DEF Note

\* A file that is replaced is counted.
LEMMA ReplacementIsCounted ==
    ASSUME Typed, Spend("replacements")
    PROVE  /\ sound' = sound + 1 /\ UNCHANGED <<text, indexing>> => Counted' /\ sound' \in Versions
           /\ indexing' = TRUE /\ UNCHANGED <<text, sound>> => Counted'
<1>1. /\ budget.replacements \in Nat /\ budget'.replacements \in Nat
      /\ budget'.replacements = budget.replacements - 1
      /\ text \in Nat /\ sound \in Nat /\ MaxReplacements \in Nat
  BY TypedBefore, SpendingIsTyped, CountsAreNatural DEF Budgets, Versions
<1>2. ASSUME sound' = sound + 1, UNCHANGED <<text, indexing>> PROVE Counted' /\ sound' \in Versions
  <2> DEFINE pending == IF indexing THEN 1 ELSE 0
  <2>1. pending \in {0, 1} /\ (IF indexing' THEN 1 ELSE 0) = pending
    BY <1>2
  <2>2. text + sound + pending + budget.replacements <= MaxReplacements
    BY TypedBefore DEF Counted
  <2> HIDE DEF pending
  <2>3. text' + sound' + pending + budget'.replacements <= MaxReplacements
    BY <1>1, <1>2, <2>1, <2>2
  <2>4. sound' \in Versions
    BY <1>1, <1>2, <2>1, <2>3 DEF Versions
  <2> QED BY <2>1, <2>3, <2>4 DEF Counted
<1>3. ASSUME indexing' = TRUE, UNCHANGED <<text, sound>> PROVE Counted'
  <2> DEFINE pending == IF indexing THEN 1 ELSE 0
  <2>1. pending \in {0, 1}
    OBVIOUS
  <2>2. text + sound + pending + budget.replacements <= MaxReplacements
    BY TypedBefore DEF Counted
  <2> HIDE DEF pending
  <2>3. text' + sound' + 1 + budget'.replacements <= MaxReplacements
    BY <1>1, <1>3, <2>1, <2>2
  <2> QED BY <1>3, <2>3 DEF Counted
<1> QED BY <1>2, <1>3

\* Every step of curators, scans, attempts and sweeps keeps the types and the count of
\* the files that were replaced, and takes no job more often than MAX_ATTEMPTS.
THEOREM StepTyped == Typed /\ [Next]_vars => Typed'
<1> SUFFICES ASSUME Typed, [Next]_vars PROVE Typed'
  OBVIOUS
<1> USE CountsAreNatural, TypedBefore
<1>0. CASE UNCHANGED vars
  BY <1>0 DEF vars, Typed, TypeOK, Counted, JobInOrder
<1>1. CASE ReplaceEbook \/ ReplaceAudio
  <2>1. Spend("replacements") /\ budget' \in Budgets
    BY <1>1, SpendingIsTyped DEF ReplaceEbook, ReplaceAudio, Discard
  <2>2. /\ Counted' /\ sound' \in Versions
    BY <1>1, <2>1, ReplacementIsCounted DEF ReplaceEbook, ReplaceAudio
  <2>3. past' \subseteq Happened
    BY <1>1, NotesAreTyped DEF ReplaceEbook, ReplaceAudio, Discard, Happened
  <2>4. UNCHANGED work /\ JobInOrder'
    BY <1>1, JobsStayInOrder DEF ReplaceEbook, ReplaceAudio, Discard, work
  <2> QED BY <1>1, <2>1, <2>2, <2>3, <2>4, TypedAfter DEF ReplaceEbook, ReplaceAudio, Discard, work
<1>2. CASE Reindex
  <2>1. Counted' /\ text' \in Versions
    BY <1>2 DEF Reindex, Counted, Versions, Budgets
  <2>2. JobInOrder'
    BY <1>2, JobsStayInOrder DEF Reindex, work
  <2> QED BY <1>2, <2>1, <2>2, TypedAfter DEF Reindex, syncs, work
<1>3. CASE Suggest
  <2>1. Counted' /\ budget' \in Budgets
    BY <1>3, BooksAside DEF Suggest
  <2>2. JobInOrder' /\ job' \in Jobs
    BY <1>3, JobsStayInOrder, HelpersAreTyped DEF Suggest
  <2> QED BY <1>3, <2>1, <2>2, TypedAfter DEF Suggest, syncs, books
<1>4. CASE Retire
  <2>1. Counted' /\ budget' \in Budgets
    BY <1>4, BooksAside DEF Retire
  <2>2. JobInOrder'
    BY <1>4, JobsStayInOrder DEF Retire, work
  <2> QED BY <1>4, <2>1, <2>2, TypedAfter DEF Retire, syncs, work, books
<1>5. CASE Confirm \/ Reject \/ AlignNow
  <2>1. Counted' /\ budget' \in Budgets
    BY <1>5, BooksAside DEF Confirm, Reject, AlignNow
  <2>2. JobInOrder' /\ job' \in Jobs
    BY <1>5, JobsStayInOrder, HelpersAreTyped DEF Confirm, Reject, AlignNow, work
  <2> QED BY <1>5, <2>1, <2>2, TypedAfter DEF Confirm, Reject, AlignNow, syncs, work, books
<1>6. ASSUME NEW w \in Processes, Start(w) PROVE Typed'
  <2>1. Counted' /\ budget' \in Budgets
    BY <1>6, BooksAside DEF Start
  <2>2. /\ job' \in Jobs /\ JobInOrder'
    <3> DEFINE claimed == [job EXCEPT !.state = "running", !.owner = w, !.tries = job.tries + 1]
    <3>1. job.tries + 1 \in 0..MaxAttempts /\ job \in Jobs
      BY <1>6 DEF Start, JobInOrder, Jobs
    <3>2. claimed \in Jobs /\ claimed.state = "running" /\ claimed.owner = w
      BY <3>1 DEF Jobs
    <3>3. \/ job' = claimed
          \/ \E state \in {"done", "failed"} : job' = [claimed EXCEPT !.state = state, !.owner = NoOne]
      BY <1>6 DEF Start
    <3> HIDE DEF claimed
    <3> QED BY <3>2, <3>3 DEF Jobs, JobInOrder
  <2>3. CASE UNCHANGED <<try, cache, written, past>>
    BY <1>6, <2>1, <2>2, <2>3, TypedAfter DEF Start, syncs, books
  <2>4. CASE ~UNCHANGED <<try, cache, written, past>>
    <3>1. /\ cache' = Opened(sound)
          /\ written' = [k \in Windows |-> IF written[k] = sound THEN sound ELSE NoSound]
          /\ Note("overtaken", indexing)
          /\ try' = [try EXCEPT ![w] =
                [Idle EXCEPT !.pc = "listening", !.text = text, !.sound = sound,
                             !.candidate = (status = "candidate"), !.finished = (ready # NoSync),
                             !.kept = Readable(sound)]]
      BY <1>6, <2>4 DEF Start
    <3>2. cache' \in Caches /\ written' \in Heard /\ Readable(sound) \in Heard
      BY <3>1, HelpersAreTyped DEF Heard
    <3>3. past' \subseteq Happened
      BY <3>1, NotesAreTyped DEF Happened
    <3>4. try' \in [Processes -> Attempts]
      BY <3>1, <3>2, UnheardIsTyped DEF Attempts
    <3> QED BY <1>6, <2>1, <2>2, <3>2, <3>3, <3>4, TypedAfter DEF Start, syncs, books
  <2> QED BY <2>3, <2>4
<1>7. ASSUME NEW w \in Processes, Hear(w) PROVE Typed'
  <2> DEFINE t == try[w]
             k == t.through + 1
  <2>1. t \in Attempts /\ k \in Windows
    BY <1>7 DEF Hear, Attempts, Windows
  <2>2. Counted' /\ budget' \in Budgets /\ JobInOrder'
    BY <1>7, BooksAside, JobsStayInOrder DEF Hear
  <2>3. cache' \in Caches \cup {NoCache} /\ written' \in Heard
    BY <1>7, <2>1, HelpersAreTyped DEF Hear, Attempts, Heard
  <2>4. past' \subseteq Happened
    BY <1>7 DEF Hear, Happened
  <2>5. try' \in [Processes -> Attempts]
    BY <1>7, <2>1, UnheardIsTyped DEF Hear, Attempts, Windows
  <2>6. partial' \in Openings \cup {NoSync}
    BY <1>7, <2>1 DEF Hear, Attempts, Openings
  <2> QED BY <1>7, <2>2, <2>3, <2>4, <2>5, <2>6, TypedAfter DEF Hear, books
<1>8. ASSUME NEW w \in Processes, Heartbeat(w) PROVE Typed'
  <2>1. Counted' /\ budget' \in Budgets /\ JobInOrder'
    BY <1>8, BooksAside, JobsStayInOrder DEF Heartbeat
  <2>2. try' \in [Processes -> Attempts]
    BY <1>8, UnheardIsTyped DEF Heartbeat, Attempts
  <2> QED BY <1>8, <2>1, <2>2, TypedAfter DEF Heartbeat, books, syncs
<1>9. ASSUME NEW w \in Processes, Refuse(w) PROVE Typed'
  <2>1. Counted' /\ budget' \in Budgets /\ JobInOrder'
    BY <1>9, BooksAside, JobsStayInOrder DEF Refuse
  <2>2. job' \in Jobs /\ try' \in [Processes -> Attempts]
    BY <1>9, HelpersAreTyped DEF Refuse
  <2>3. past' \subseteq Happened
    BY <1>9, NotesAreTyped DEF Refuse, Happened
  <2> QED BY <1>9, <2>1, <2>2, <2>3, TypedAfter, UnheardIsTyped DEF Refuse, books
<1>10. ASSUME NEW w \in Processes, Finish(w) PROVE Typed'
  <2>1. Counted' /\ budget' \in Budgets /\ JobInOrder'
    BY <1>10, BooksAside, JobsStayInOrder DEF Finish
  <2>2. job' \in Jobs /\ try' \in [Processes -> Attempts]
    BY <1>10, HelpersAreTyped DEF Finish
  <2>3. /\ status' \in {"none", "candidate", "auto", "confirmed", "rejected"}
        /\ ready' \in Syncs \cup {NoSync} /\ partial' \in Openings \cup {NoSync}
        /\ cache' \in Caches \cup {NoCache} /\ written' \in Heard
    BY <1>10, UnheardIsTyped DEF Finish, LinkedBy, syncs, Syncs, Attempts
  <2> QED BY <1>10, <2>1, <2>2, <2>3, TypedAfter DEF Finish, books
<1>11. ASSUME NEW w \in Processes, FinishCut(w) PROVE Typed'
  <2>1. Counted' /\ budget' \in Budgets /\ JobInOrder'
    BY <1>11, BooksAside, JobsStayInOrder DEF FinishCut
  <2>2. /\ status' \in {"none", "candidate", "auto", "confirmed", "rejected"}
        /\ ready' \in Syncs \cup {NoSync} /\ partial' \in Openings \cup {NoSync}
        /\ try' \in [Processes -> Attempts]
    BY <1>11, UnheardIsTyped DEF FinishCut, LinkedBy, syncs, Syncs, Attempts
  <2> QED BY <1>11, <2>1, <2>2, TypedAfter DEF FinishCut, books
<1>12. ASSUME NEW w \in Processes, Fails(w) PROVE Typed'
  <2>1. Counted' /\ budget' \in Budgets /\ JobInOrder'
    BY <1>12, BooksAside, JobsStayInOrder DEF Fails
  <2>2. job' \in Jobs /\ try' \in [Processes -> Attempts]
    BY <1>12, HelpersAreTyped DEF Fails
  <2> QED BY <1>12, <2>1, <2>2, TypedAfter DEF Fails, books, syncs
<1>13. ASSUME NEW w \in Processes, Crash(w) PROVE Typed'
  <2>1. Counted' /\ budget' \in Budgets /\ JobInOrder'
    BY <1>13, BooksAside, JobsStayInOrder DEF Crash
  <2>2. try' \in [Processes -> Attempts]
    BY <1>13, UnheardIsTyped DEF Crash
  <2>3. cache' \in Caches \cup {NoCache} /\ past' \subseteq Happened
    BY <1>13 DEF Crash, Caches, Happened
  <2> QED BY <1>13, <2>1, <2>2, <2>3, TypedAfter DEF Crash, books, syncs
<1>14. CASE SweepDead \/ SweepSlow
  <2>1. Counted' /\ budget' \in Budgets
    BY <1>14, BooksAside DEF SweepDead, SweepSlow
  <2>2. JobInOrder' /\ job' \in Jobs
    BY <1>14, JobsStayInOrder, HelpersAreTyped DEF SweepDead, SweepSlow
  <2> QED BY <1>14, <2>1, <2>2, TypedAfter DEF SweepDead, SweepSlow, books, syncs
<1> QED BY <1>0, <1>1, <1>2, <1>3, <1>4, <1>5, <1>6, <1>7, <1>8, <1>9, <1>10, <1>11, <1>12,
           <1>13, <1>14 DEF Next

\* The model is typed, whatever happens.
THEOREM TypeCorrect == Spec => []TypeOK
<1>1. Typed => TypeOK
  BY DEF Typed
<1> QED BY InitTyped, StepTyped, <1>1, PTL DEF Spec

-----------------------------------------------------------------------------
(* Decisions.                                                              *)

\* A step that takes a person's decision back is a person's, or a replaced file.
LEMMA StepKeepsDecisions ==
    ASSUME Typed, Next, Decided
    PROVE  status' = status \/ Spent("decisions") \/ Spent("replacements")
<1>1. CASE ReplaceEbook \/ ReplaceAudio
  BY <1>1, SpendingIsTyped DEF ReplaceEbook, ReplaceAudio, Discard
<1>2. CASE Reindex \/ Suggest \/ Retire
  BY <1>2 DEF Reindex, Suggest, Retire, Decided
<1>3. CASE Confirm \/ Reject \/ AlignNow
  BY <1>3, SpendingIsTyped DEF Confirm, Reject, AlignNow
<1>4. ASSUME NEW w \in Processes,
             Start(w) \/ Hear(w) \/ Heartbeat(w) \/ Refuse(w) \/ Fails(w) \/ Crash(w)
      PROVE  status' = status
  BY <1>4 DEF Start, Hear, Heartbeat, Refuse, Fails, Crash
<1>5. ASSUME NEW w \in Processes, Finish(w) \/ FinishCut(w) PROVE status' = status
  BY <1>5 DEF Finish, FinishCut, LinkedBy, Decided
<1>6. CASE SweepDead \/ SweepSlow
  BY <1>6 DEF SweepDead, SweepSlow
<1> QED BY <1>1, <1>2, <1>3, <1>4, <1>5, <1>6 DEF Next

\* A confirmed or rejected pair stays so whatever a running sync does (runAlign links a
\* pair only while it is still the suggestion it began with).
THEOREM DecisionsAreSafe == Spec => DecisionsStand
<1>1. Typed /\ [Next]_vars => [Decided => (status' = status \/ Spent("decisions") \/ Spent("replacements"))]_vars
  BY StepKeepsDecisions
<1> QED BY InitTyped, StepTyped, <1>1, PTL DEF Spec, DecisionsStand

-----------------------------------------------------------------------------
(* Whose words and whose voice.                                            *)

\* As long as no file was replaced under a sync, whoever listens listens to the
\* books that are there.
Undisturbed ==
    "overtaken" \notin past =>
        /\ OfTheseBooks(ready) /\ OfTheseBooks(partial)
        /\ indexing => ready = NoSync /\ partial = NoSync
        /\ \A w \in Processes : Listening(w) => ~indexing /\ try[w].text = text /\ try[w].sound = sound

\* A step at which nobody starts, no book changes and no timings are stored.
LEMMA QuietIsUndisturbed ==
    ASSUME Undisturbed, UNCHANGED books, past \subseteq past',
           ready' \in {ready, NoSync}, partial' \in {partial, NoSync},
           \A w \in Processes : Listening(w)' =>
               Listening(w) /\ try'[w].text = try[w].text /\ try'[w].sound = try[w].sound
    PROVE  Undisturbed'
  BY DEF Undisturbed, OfTheseBooks, books

\* An attempt that leaves touches no other attempt.
LEMMA LeavingIsQuiet ==
    ASSUME Typed, NEW w \in Processes, NEW state, Leave(w, state)
    PROVE  \A v \in Processes : Listening(v)' =>
               Listening(v) /\ try'[v] = try[v] /\ v # w
  BY TypedBefore DEF Leave, Listening, Idle

\* Every step keeps it so.
LEMMA StepUndisturbed == Typed /\ Undisturbed /\ [Next]_vars => Undisturbed'
<1> SUFFICES ASSUME Typed, Undisturbed, [Next]_vars PROVE Undisturbed'
  OBVIOUS
<1> USE TypedBefore
<1>0. CASE UNCHANGED vars
  BY <1>0 DEF vars, Undisturbed, Listening, OfTheseBooks
<1>1. CASE ReplaceEbook \/ ReplaceAudio
  BY <1>1 DEF ReplaceEbook, ReplaceAudio, Discard, Note, Undisturbed, OfTheseBooks, Listening, work
<1>2. CASE Reindex
  BY <1>2 DEF Reindex, Undisturbed, OfTheseBooks, Listening, work, syncs
<1>3. CASE Suggest \/ Retire \/ Confirm \/ Reject \/ AlignNow \/ SweepDead \/ SweepSlow
  BY <1>3, QuietIsUndisturbed
  DEF Suggest, Retire, Confirm, Reject, AlignNow, SweepDead, SweepSlow, Listening, syncs, work
<1>4. ASSUME NEW w \in Processes, Start(w) PROVE Undisturbed'
  <2>1. CASE UNCHANGED <<try, cache, written, past>>
    BY <1>4, <2>1, QuietIsUndisturbed DEF Start, Listening, syncs
  <2>2. CASE ~UNCHANGED <<try, cache, written, past>>
    <3>1. /\ Note("overtaken", indexing)
          /\ try' = [try EXCEPT ![w] =
                [Idle EXCEPT !.pc = "listening", !.text = text, !.sound = sound,
                             !.candidate = (status = "candidate"), !.finished = (ready # NoSync),
                             !.kept = Readable(sound)]]
      BY <1>4, <2>2 DEF Start
    <3>2. try'[w].text = text /\ try'[w].sound = sound
      BY <3>1 DEF Idle
    <3>3. \A v \in Processes : v # w => try'[v] = try[v]
      BY <3>1
    <3> QED BY <1>4, <3>1, <3>2, <3>3 DEF Start, Note, Undisturbed, OfTheseBooks, Listening,
                                          books, syncs
  <2> QED BY <2>1, <2>2
<1>5. ASSUME NEW w \in Processes, Hear(w) PROVE Undisturbed'
  <2>1. \A v \in Processes : Listening(v)' =>
             Listening(v) /\ try'[v].text = try[v].text /\ try'[v].sound = try[v].sound
    BY <1>5 DEF Hear, Listening, Idle, Attempts
  <2>2. \/ partial' = partial
        \/ partial' = [text |-> try[w].text, sound |-> try[w].sound, through |-> try[w].through + 1]
    BY <1>5 DEF Hear
  <2>3. past \subseteq past' /\ UNCHANGED books /\ ready' = ready /\ Listening(w)
    BY <1>5 DEF Hear
  <2>4. CASE partial' = partial
    BY <2>1, <2>3, <2>4, QuietIsUndisturbed
  <2>5. CASE partial' = [text |-> try[w].text, sound |-> try[w].sound, through |-> try[w].through + 1]
    BY <2>1, <2>3, <2>5 DEF Undisturbed, OfTheseBooks, books
  <2> QED BY <2>2, <2>4, <2>5
<1>6. ASSUME NEW w \in Processes, Heartbeat(w) PROVE Undisturbed'
  <2>1. \A v \in Processes : Listening(v)' =>
             Listening(v) /\ try'[v].text = try[v].text /\ try'[v].sound = try[v].sound
    BY <1>6 DEF Heartbeat, Listening, Idle, Attempts
  <2> QED BY <1>6, <2>1, QuietIsUndisturbed DEF Heartbeat, syncs
<1>7. ASSUME NEW w \in Processes, Refuse(w) \/ Fails(w) PROVE Undisturbed'
  <2>1. Leave(w, "done") \/ Leave(w, "failed")
    BY <1>7 DEF Refuse, Fails
  <2> QED BY <1>7, <2>1, LeavingIsQuiet, QuietIsUndisturbed DEF Refuse, Fails, syncs, books, Note
<1>8. ASSUME NEW w \in Processes, Finish(w) \/ FinishCut(w) PROVE Undisturbed'
  <2>1. \A v \in Processes : Listening(v)' => Listening(v) /\ try'[v] = try[v]
    BY <1>8, LeavingIsQuiet DEF Finish, FinishCut, Listening, Idle
  <2>2. /\ ready' = ready \/ ready' = [text |-> try[w].text, sound |-> try[w].sound]
        /\ partial' \in {partial, NoSync} /\ past' = past /\ UNCHANGED books /\ Listening(w)
    BY <1>8 DEF Finish, FinishCut, syncs
  <2>3. CASE ready' = ready
    BY <2>1, <2>2, <2>3, QuietIsUndisturbed
  <2>4. CASE ready' = [text |-> try[w].text, sound |-> try[w].sound]
    BY <2>1, <2>2, <2>4 DEF Undisturbed, OfTheseBooks, books
  <2> QED BY <2>2, <2>3, <2>4
<1>9. ASSUME NEW w \in Processes, Crash(w) PROVE Undisturbed'
  <2>1. \A v \in Processes : Listening(v)' => Listening(v) /\ try'[v] = try[v]
    BY <1>9 DEF Crash, Listening, Idle
  <2> QED BY <1>9, <2>1, QuietIsUndisturbed DEF Crash, syncs
<1> QED BY <1>0, <1>1, <1>2, <1>3, <1>4, <1>5, <1>6, <1>7, <1>8, <1>9 DEF Next

\* What a reader follows is of the books that are there, as long as no file was
\* replaced under a sync and no sync began between two texts.
THEOREM QuietSyncsAreOfTheseBooks == Spec => []SyncIsOfQuietBooks
<1>1. Init => Undisturbed
  BY DEF Init, Undisturbed, OfTheseBooks, Listening, Idle
<1>2. Undisturbed => SyncIsOfQuietBooks
  BY DEF Undisturbed, SyncIsOfQuietBooks, SyncIsOfTheseBooks
<1> QED BY InitTyped, StepTyped, StepUndisturbed, <1>1, <1>2, PTL DEF Spec

-----------------------------------------------------------------------------
(* What was heard.                                                         *)

\* As long as no superseded attempt touched the cache of its successor: the cache is of
\* one recording, that of the attempt whose job it is, and so is what was read from it.
CacheInOrder ==
    "crossed" \notin past =>
        /\ cache # NoCache => \A k \in Windows : cache.lines[k] \in {NoSound, cache.sig}
        /\ \A w \in Processes : Listening(w) =>
              /\ ~Superseded(w) => cache # NoCache /\ cache.sig = try[w].sound
              /\ \A k \in Windows : try[w].kept[k] \in {NoSound, try[w].sound}

\* As long as, besides, no line was cut short: what was written is there to be read, the
\* attempt whose job it is has read what lies before it, and so nothing is heard again.
HeardOnce ==
    {"crossed", "torn"} \cap past = {} =>
        /\ cache # NoCache => ~cache.torn
        /\ \A k \in Windows : written[k] # NoSound =>
              cache # NoCache /\ cache.sig = written[k] /\ cache.lines[k] = written[k]
        /\ \A w \in Processes : Listening(w) /\ ~Superseded(w) =>
              \A k \in Windows : k > try[w].through /\ written[k] = try[w].sound =>
                  try[w].kept[k] = try[w].sound
        /\ "heardAgain" \notin past

CacheInv == CacheInOrder /\ HeardOnce

\* A file is no missing file.
LEMMA CachesAreSomething == \A c \in Caches : c # NoCache
<1> SUFFICES ASSUME NEW c \in Caches
             PROVE  c \in [sig : Int, lines : [1..Stages -> Int], torn : BOOLEAN]
  BY NothingIsSomething
<1>1. Versions \cup {NoSound} \subseteq Int
  BY CountsAreNatural DEF Versions, NoSound
<1>2. Heard \subseteq [1..Stages -> Int]
  BY <1>1 DEF Heard, Windows
<1> QED BY <1>1, <1>2 DEF Caches

\* A job that is swept, ended or left gets no new owner.
LEMMA NobodyTakesOver ==
    ASSUME Typed,
           job' = Reclaimed \/ \E w \in Processes, state \in {"done", "failed"} : Leave(w, state)
    PROVE  \A v \in Processes : Superseded(v) => Superseded(v)'
<1> USE TypedBefore
<1>1. ASSUME NEW state \in {"queued", "done", "failed"}, job' = Ended(state)
      PROVE  \A v \in Processes : Superseded(v)'
  BY <1>1 DEF Ended, Jobs, Superseded
<1>2. job' = job \/ \E state \in {"queued", "done", "failed"} : job' = Ended(state)
  BY DEF Reclaimed, Leave
<1> QED BY <1>1, <1>2 DEF Superseded

\* A step that keeps the cache, and gives the job to no attempt that did not hold it,
\* keeps the cache in order: what books, pairs, decisions, heartbeats and sweeps do.
LEMMA CacheAside ==
    ASSUME Typed, CacheInv, UNCHANGED <<cache, written>>, past' \in {past, past \cup {"overtaken"}},
           \A w \in Processes : Listening(w)' =>
               /\ Listening(w) /\ (Superseded(w) => Superseded(w)')
               /\ try'[w].sound = try[w].sound /\ try'[w].kept = try[w].kept
               /\ try'[w].through = try[w].through
    PROVE  CacheInv'
<1>1. /\ "crossed" \in past' <=> "crossed" \in past
      /\ "torn" \in past' <=> "torn" \in past
      /\ "heardAgain" \in past' <=> "heardAgain" \in past
  OBVIOUS
<1>2. CacheInOrder'
  BY <1>1 DEF CacheInv, CacheInOrder
<1>3. ASSUME {"crossed", "torn"} \cap past' = {}, NEW w \in Processes, Listening(w)', ~Superseded(w)',
             NEW k \in Windows, k > try'[w].through, written'[k] = try'[w].sound
      PROVE  try'[w].kept[k] = try'[w].sound
  <2>1. k > try[w].through
    BY <1>3
  <2> QED BY <1>1, <1>3, <2>1 DEF CacheInv, HeardOnce
<1>4. HeardOnce'
  BY <1>1, <1>3 DEF CacheInv, HeardOnce
<1> QED BY <1>2, <1>4 DEF CacheInv

\* Every step keeps what is in the cache, and what was read from it, true.
LEMMA StepKeepsCache == Typed /\ CacheInv /\ [Next]_vars => CacheInv'
<1> SUFFICES ASSUME Typed, CacheInv, [Next]_vars PROVE CacheInv'
  OBVIOUS
<1> USE TypedBefore
<1>0. CASE UNCHANGED vars
  BY <1>0, CacheAside DEF vars, Listening, Superseded
<1>1. CASE ReplaceEbook \/ ReplaceAudio
  BY <1>1, CacheAside DEF ReplaceEbook, ReplaceAudio, Discard, Note, work, Listening, Superseded
<1>2. CASE Reindex \/ Retire \/ Reject
  BY <1>2, CacheAside DEF Reindex, Retire, Reject, work, Listening, Superseded
<1>3. CASE Suggest \/ Confirm \/ AlignNow
  BY <1>3, CacheAside DEF Suggest, Confirm, AlignNow, Enqueued, Listening, Superseded
<1>4. CASE SweepDead \/ SweepSlow
  BY <1>4, NobodyTakesOver, CacheAside DEF SweepDead, SweepSlow, Listening
<1>5. ASSUME NEW w \in Processes, Heartbeat(w) PROVE CacheInv'
  <2>1. \A v \in Processes : Listening(v)' =>
           /\ Listening(v) /\ try'[v].sound = try[v].sound
           /\ try'[v].kept = try[v].kept /\ try'[v].through = try[v].through
    BY <1>5 DEF Heartbeat, Listening, Idle, Attempts
  <2> QED BY <1>5, <2>1, CacheAside DEF Heartbeat, Superseded
<1>6. ASSUME NEW w \in Processes, Fails(w) PROVE CacheInv'
  <2>1. \A v \in Processes : Superseded(v) => Superseded(v)'
    BY <1>6, NobodyTakesOver DEF Fails
  <2> QED BY <1>6, <2>1, LeavingIsQuiet, CacheAside DEF Fails
<1>7. ASSUME NEW w \in Processes, FinishCut(w) PROVE CacheInv'
  <2>1. \A v \in Processes : Listening(v)' => Listening(v) /\ try'[v] = try[v]
    BY <1>7 DEF FinishCut, Listening, Idle
  <2> QED BY <1>7, <2>1, CacheAside DEF FinishCut, Superseded
<1>8. ASSUME NEW w \in Processes, Finish(w) PROVE CacheInv'
  <2>1. \A v \in Processes : Listening(v)' => Listening(v) /\ try'[v] = try[v] /\ v # w
    BY <1>8, LeavingIsQuiet DEF Finish
  <2>2. \A v \in Processes : Superseded(v) => Superseded(v)'
    BY <1>8, NobodyTakesOver DEF Finish
  <2>3. CASE UNCHANGED <<cache, written>>
    BY <1>8, <2>1, <2>2, <2>3, CacheAside DEF Finish
  <2>4. CASE ~UNCHANGED <<cache, written>>
    <3>1. cache' = NoCache /\ written' = Unheard /\ past' = past /\ ~Superseded(w)
      BY <1>8, <2>4 DEF Finish
    <3>2. \A v \in Processes : v # w => Superseded(v)
      BY <3>1 DEF Superseded
    <3> QED BY <2>1, <2>2, <3>1, <3>2 DEF CacheInv, CacheInOrder, HeardOnce, Unheard
  <2> QED BY <2>3, <2>4
<1>9. ASSUME NEW w \in Processes, Refuse(w) PROVE CacheInv'
  <2>1. \A v \in Processes : Listening(v)' => Listening(v) /\ try'[v] = try[v] /\ v # w
    BY <1>9, LeavingIsQuiet DEF Refuse
  <2>2. \A v \in Processes : Superseded(v) => Superseded(v)'
    BY <1>9, NobodyTakesOver DEF Refuse
  <2>3. cache' = NoCache /\ written' = Unheard /\ Note("crossed", Superseded(w))
    BY <1>9 DEF Refuse
  <2>4. \A v \in Processes : ~Superseded(w) /\ v # w => Superseded(v)
    BY DEF Superseded
  <2> QED BY <2>1, <2>2, <2>3, <2>4 DEF CacheInv, CacheInOrder, HeardOnce, Unheard, Note
<1>10. ASSUME NEW w \in Processes, Crash(w) PROVE CacheInv'
  <2>1. \A v \in Processes : Listening(v)' => Listening(v) /\ try'[v] = try[v]
    BY <1>10 DEF Crash, Listening, Idle
  <2>2. \A v \in Processes : Superseded(v)' <=> Superseded(v)
    BY <1>10 DEF Crash, Superseded
  <2>3. CASE UNCHANGED <<cache, past>>
    BY <1>10, <2>1, <2>2, <2>3, CacheAside DEF Crash
  <2>4. CASE cache # NoCache /\ cache' = [cache EXCEPT !.torn = TRUE] /\ past' = past \cup {"torn"}
    <3>1. cache'.lines = cache.lines /\ cache'.sig = cache.sig /\ cache' # NoCache
      BY <2>4, CachesAreSomething DEF Caches
    <3>2. CacheInOrder'
      BY <2>1, <2>2, <2>4, <3>1 DEF CacheInv, CacheInOrder
    <3>3. HeardOnce'
      BY <2>4 DEF HeardOnce
    <3> QED BY <3>2, <3>3 DEF CacheInv
  <2> QED BY <1>10, <2>3, <2>4 DEF Crash
<1>11. ASSUME NEW w \in Processes, Start(w) PROVE CacheInv'
  <2>0. job'.state # "running" \/ job'.owner = w
    BY <1>11 DEF Start, Jobs
  <2>1. \A v \in Processes : v # w => Superseded(v)'
    BY <2>0 DEF Superseded
  <2>2. CASE UNCHANGED <<try, cache, written, past>>
    <3>1. ~Listening(w)'
      BY <1>11, <2>2 DEF Start, Listening
    <3> QED BY <2>1, <2>2, <3>1, CacheAside DEF Listening
  <2>3. CASE ~UNCHANGED <<try, cache, written, past>>
    <3>1. /\ cache' = Opened(sound)
          /\ written' = [k \in Windows |-> IF written[k] = sound THEN sound ELSE NoSound]
          /\ Note("overtaken", indexing)
          /\ try' = [try EXCEPT ![w] =
                [Idle EXCEPT !.pc = "listening", !.text = text, !.sound = sound,
                             !.candidate = (status = "candidate"), !.finished = (ready # NoSync),
                             !.kept = Readable(sound)]]
      BY <1>11, <2>3 DEF Start
    <3>2. try'[w].kept = Readable(sound) /\ try'[w].sound = sound
      BY <3>1 DEF Idle
    <3>3. \A v \in Processes : v # w => try'[v] = try[v]
      BY <3>1
    <3>4. past' \in {past, past \cup {"overtaken"}}
      BY <3>1 DEF Note
    <3>5. cache' # NoCache /\ cache'.sig = sound
      <4>1. NewCache(sound) # NoCache /\ NewCache(sound).sig = sound
        BY CachesAreSomething, HelpersAreTyped DEF NewCache
      <4> QED BY <3>1, <4>1 DEF Opened, Readable
    <3>6. ASSUME "crossed" \notin past
          PROVE  \A k \in Windows : Readable(sound)[k] \in {NoSound, sound}
      BY <3>6 DEF Readable, Unheard, CacheInv, CacheInOrder
    <3>7. CacheInOrder'
      <4>1. ASSUME "crossed" \notin past
            PROVE  \A k \in Windows : cache'.lines[k] \in {NoSound, sound}
        BY <3>1, <4>1 DEF Opened, NewCache, Readable, Unheard, CacheInv, CacheInOrder
      <4> QED BY <2>1, <3>2, <3>3, <3>4, <3>5, <3>6, <4>1 DEF CacheInv, CacheInOrder, Listening
    <3>8. HeardOnce'
      <4> SUFFICES ASSUME {"crossed", "torn"} \cap past = {} PROVE HeardOnce'
        BY <3>4 DEF HeardOnce
      <4>1. ASSUME NEW k \in Windows, written'[k] # NoSound
            PROVE  /\ written'[k] = sound /\ Readable(sound)[k] = sound
                   /\ cache' = cache /\ cache.lines[k] = sound
        <5>1. written[k] = sound /\ written'[k] = sound /\ sound # NoSound
          BY <3>1, <4>1 DEF Versions, NoSound
        <5>2. cache # NoCache /\ cache.sig = sound /\ cache.lines[k] = sound
          BY <5>1 DEF CacheInv, HeardOnce
        <5>3. Readable(sound)[k] = sound /\ Readable(sound) # Unheard
          BY <5>1, <5>2 DEF Readable, Unheard
        <5> QED BY <3>1, <5>1, <5>2, <5>3 DEF Opened
      <4>2. cache' = cache \/ ~cache'.torn
        BY <3>1 DEF Opened, NewCache
      <4>3. \A k \in Windows : written'[k] = sound => Readable(sound)[k] = sound
        BY <4>1 DEF Versions, NoSound
      <4> QED BY <2>1, <3>2, <3>3, <3>4, <3>5, <4>1, <4>2, <4>3 DEF CacheInv, HeardOnce, Listening
    <3> QED BY <3>7, <3>8 DEF CacheInv
  <2> QED BY <2>2, <2>3
<1>12. ASSUME NEW w \in Processes, Hear(w) PROVE CacheInv'
  <2> DEFINE t == try[w]
             k == t.through + 1
  <2>0. t \in Attempts /\ k \in Windows /\ t.sound # NoSound
    BY <1>12, CountsAreNatural DEF Hear, Attempts, Windows, Versions, NoSound
  <2>1. /\ \A v \in Processes : Superseded(v)' <=> Superseded(v)
        /\ \A v \in Processes : v # w => try'[v] = try[v]
        /\ Listening(w)
        /\ Listening(w)' => /\ try'[w].sound = t.sound /\ try'[w].kept = t.kept
                            /\ try'[w].through = k
    BY <1>12 DEF Hear, Superseded, Listening, Idle, Attempts
  <2>2. CASE t.kept[k] # NoSound
    <3>1. UNCHANGED <<cache, written>> /\ past' = past
      BY <1>12, <2>2 DEF Hear
    <3>2. CacheInOrder'
      BY <2>1, <3>1 DEF CacheInv, CacheInOrder, Listening
    <3>3. \A j \in Windows : j > k => j > t.through
      BY <2>0 DEF Attempts, Windows
    <3>4. HeardOnce'
      BY <2>1, <3>1, <3>3 DEF CacheInv, HeardOnce, Listening
    <3> QED BY <3>2, <3>4 DEF CacheInv
  <2>3. CASE t.kept[k] = NoSound /\ Superseded(w)
    <3>1. "crossed" \in past'
      BY <1>12, <2>3 DEF Hear
    <3> QED BY <3>1 DEF CacheInv, CacheInOrder, HeardOnce
  <2>4. CASE t.kept[k] = NoSound /\ ~Superseded(w)
    <3>1. /\ cache' = Appended(k, t.sound) /\ written' = [written EXCEPT ![k] = t.sound]
          /\ past' = past \cup (IF written[k] = t.sound THEN {"heardAgain"} ELSE {})
      BY <1>12, <2>4 DEF Hear
    <3>2. SUFFICES ASSUME "crossed" \notin past PROVE CacheInOrder' /\ HeardOnce'
      BY <3>1 DEF CacheInv, CacheInOrder, HeardOnce
    <3>3. cache \in Caches /\ cache # NoCache /\ cache.sig = t.sound
      BY <2>1, <2>4, <3>2 DEF CacheInv, CacheInOrder
    <3>4. \A j \in Windows : cache.lines[j] \in {NoSound, t.sound}
      BY <3>2, <3>3 DEF CacheInv, CacheInOrder
    <3>5. cache' = IF cache.torn THEN cache ELSE [cache EXCEPT !.lines[k] = t.sound]
      BY <3>1, <3>3 DEF Appended
    <3>6. /\ cache' \in Caches /\ cache' # NoCache
          /\ cache'.sig = t.sound /\ cache'.torn = cache.torn
          /\ \A j \in Windows : cache'.lines[j] \in {NoSound, t.sound}
          /\ ~cache.torn => cache'.lines = [cache.lines EXCEPT ![k] = t.sound]
      <4>1. cache' \in Caches
        BY <2>0, <3>1, HelpersAreTyped DEF Attempts
      <4>2. cache' # NoCache
        BY <4>1, CachesAreSomething
      <4> QED BY <2>0, <3>3, <3>4, <3>5, <4>1, <4>2 DEF Caches, Heard
    <3>7. CacheInOrder'
      BY <2>1, <2>4, <3>1, <3>2, <3>3, <3>6 DEF CacheInv, CacheInOrder, Listening, Superseded
    <3>8. ASSUME {"crossed", "torn"} \cap past = {} PROVE HeardOnce'
      <4>1. written[k] # t.sound
        BY <2>0, <2>1, <2>4, <3>8 DEF CacheInv, HeardOnce, Attempts, Windows
      <4>2. past' = past /\ ~cache.torn
        BY <3>1, <3>3, <3>8, <4>1 DEF CacheInv, HeardOnce
      <4>3. ASSUME NEW j \in Windows, written'[j] # NoSound
            PROVE  cache'.sig = written'[j] /\ cache'.lines[j] = written'[j]
        BY <2>0, <3>1, <3>3, <3>6, <3>8, <4>2, <4>3 DEF CacheInv, HeardOnce, Heard, Caches
      <4>4. ASSUME NEW v \in Processes, Listening(v)', ~Superseded(v)',
                   NEW j \in Windows, j > try'[v].through, written'[j] = try'[v].sound
            PROVE  try'[v].kept[j] = try'[v].sound
        <5>1. v = w
          BY <2>1, <2>4, <4>4 DEF Superseded
        <5>2. j # k /\ j > t.through
          BY <2>0, <2>1, <4>4, <5>1 DEF Attempts, Windows
        <5>3. written[j] = t.sound
          BY <2>0, <2>1, <3>1, <4>4, <5>1, <5>2 DEF Heard
        <5> QED BY <2>1, <2>4, <3>8, <4>4, <5>1, <5>2, <5>3 DEF CacheInv, HeardOnce
      <4> QED BY <3>6, <3>8, <4>2, <4>3, <4>4 DEF CacheInv, HeardOnce
    <3>9. {"crossed", "torn"} \cap past # {} => HeardOnce'
      BY <3>1 DEF HeardOnce
    <3> QED BY <3>7, <3>8, <3>9
  <2> QED BY <2>2, <2>3, <2>4
<1> QED BY <1>0, <1>1, <1>2, <1>3, <1>4, <1>5, <1>6, <1>7, <1>8, <1>9, <1>10, <1>11, <1>12 DEF Next

\* What an attempt takes from the probe cache was heard from the recording it is
\* listening to, and no window is listened to twice for one sync (withProbeCache).
THEOREM CacheIsAlwaysTrue == Spec => []CacheIsTrue
<1>1. Init => CacheInv
  BY UnheardIsTyped DEF Init, CacheInv, CacheInOrder, HeardOnce, Listening, Idle, Unheard
<1>2. CacheInv => CacheIsTrue
  BY DEF CacheInv, CacheInOrder, HeardOnce, CacheIsTrue
<1> QED BY InitTyped, StepTyped, StepKeepsCache, <1>1, <1>2, PTL DEF Spec

-----------------------------------------------------------------------------
(* What readers follow.                                                    *)

\* The attempt whose job it is, once it publishes, is past what it has published.
OwnerLeads ==
    \A w \in Processes : Listening(w) /\ ~Superseded(w) /\ try[w].owns => Through(partial) <= try[w].through

\* An opening covers some of the windows.
LEMMA ThroughIsTyped ==
    ASSUME Typed PROVE Through(partial) \in 0..Stages /\ (partial = NoSync => Through(partial) = 0)
  BY TypedBefore, CountsAreNatural DEF Through, Openings, Windows

\* A window that is settled moves the opening that is followed on, never back (onPartial).
LEMMA OpeningsGrow ==
    ASSUME Typed, OwnerLeads, NEW w \in Processes, Hear(w)
    PROVE  /\ Through(partial)' >= Through(partial)
           /\ partial' # partial => Through(partial)' = try[w].through + 1 /\ ~Superseded(w)
<1> DEFINE t == try[w]
           k == t.through + 1
<1>1. t \in Attempts /\ k \in Windows /\ Listening(w)
  BY TypedBefore, CountsAreNatural DEF Hear, Attempts, Windows
<1>2. CASE partial' = partial
  BY <1>2, ThroughIsTyped DEF Through
<1>3. CASE partial' # partial
  <2>1. /\ Publishes(t, k) /\ ~Superseded(w)
        /\ partial' = [text |-> t.text, sound |-> t.sound, through |-> k]
    BY <1>3 DEF Hear
  <2>2. partial' \in [text : Nat, sound : Nat, through : Nat]
    BY <1>1, <2>1, CountsAreNatural DEF Attempts, Versions, Windows
  <2>3. Through(partial)' = k
    BY <2>1, <2>2, NothingIsSomething DEF Through
  <2>4. Through(partial) <= k
    BY <1>1, <2>1, ThroughIsTyped DEF Publishes, OwnerLeads, Attempts
  <2> QED BY <1>1, <2>1, <2>3, <2>4
<1> QED BY <1>2, <1>3

\* A step that publishes nothing.
LEMMA LeadingAside ==
    ASSUME Typed, OwnerLeads, partial' \in {partial, NoSync},
           \A w \in Processes : Listening(w)' =>
               /\ Listening(w) /\ (Superseded(w) => Superseded(w)')
               /\ try'[w].owns = try[w].owns /\ try'[w].through = try[w].through
    PROVE  OwnerLeads'
<1>1. Through(partial)' = Through(partial) \/ Through(partial)' = 0
  BY DEF Through
<1>2. \A w \in Processes : try[w].through \in Nat
  BY TypedBefore DEF Attempts
<1> QED BY <1>1, <1>2 DEF OwnerLeads

\* The attempt that publishes stays ahead of what is published.
LEMMA StepLeads == Typed /\ OwnerLeads /\ [Next]_vars => OwnerLeads'
<1> SUFFICES ASSUME Typed, OwnerLeads, [Next]_vars PROVE OwnerLeads'
  OBVIOUS
<1> USE TypedBefore
<1>0. CASE UNCHANGED vars
  BY <1>0, LeadingAside DEF vars, Listening, Superseded
<1>1. CASE ReplaceEbook \/ ReplaceAudio
  BY <1>1, LeadingAside DEF ReplaceEbook, ReplaceAudio, Discard, work, Listening, Superseded
<1>2. CASE Reindex \/ Retire \/ Reject
  BY <1>2, LeadingAside DEF Reindex, Retire, Reject, work, syncs, Listening, Superseded
<1>3. CASE Suggest \/ Confirm \/ AlignNow
  BY <1>3, LeadingAside DEF Suggest, Confirm, AlignNow, Enqueued, syncs, Listening, Superseded
<1>4. CASE SweepDead \/ SweepSlow
  BY <1>4, NobodyTakesOver, LeadingAside DEF SweepDead, SweepSlow, syncs, Listening
<1>5. ASSUME NEW w \in Processes, Heartbeat(w) PROVE OwnerLeads'
  <2>1. \A v \in Processes : Listening(v)' =>
           Listening(v) /\ try'[v].owns = try[v].owns /\ try'[v].through = try[v].through
    BY <1>5 DEF Heartbeat, Listening, Idle, Attempts
  <2> QED BY <1>5, <2>1, LeadingAside DEF Heartbeat, syncs, Superseded
<1>6. ASSUME NEW w \in Processes, Fails(w) \/ Refuse(w) \/ Finish(w) PROVE OwnerLeads'
  <2>1. Leave(w, "done") \/ Leave(w, "failed")
    BY <1>6 DEF Fails, Refuse, Finish
  <2>2. partial' \in {partial, NoSync}
    BY <1>6 DEF Fails, Refuse, Finish, syncs
  <2> QED BY <2>1, <2>2, LeavingIsQuiet, NobodyTakesOver, LeadingAside
<1>7. ASSUME NEW w \in Processes, FinishCut(w) \/ Crash(w) PROVE OwnerLeads'
  <2>1. \A v \in Processes : Listening(v)' => Listening(v) /\ try'[v] = try[v]
    BY <1>7 DEF FinishCut, Crash, Listening, Idle
  <2>2. partial' \in {partial, NoSync} /\ job' = job
    BY <1>7 DEF FinishCut, Crash, syncs
  <2> QED BY <2>1, <2>2, LeadingAside DEF Superseded
<1>8. ASSUME NEW w \in Processes, Start(w) PROVE OwnerLeads'
  <2>0. job'.state # "running" \/ job'.owner = w
    BY <1>8 DEF Start, Jobs
  <2>1. \A v \in Processes : v # w => Superseded(v)'
    BY <2>0 DEF Superseded
  <2>2. Listening(w)' => ~try'[w].owns
    <3>1. CASE UNCHANGED try
      BY <1>8, <3>1 DEF Start, Listening
    <3>2. CASE ~UNCHANGED try
      <4>1. try'[w] = [Idle EXCEPT !.pc = "listening", !.text = text, !.sound = sound,
                           !.candidate = (status = "candidate"), !.finished = (ready # NoSync),
                           !.kept = Readable(sound)]
        BY <1>8, <3>2 DEF Start
      <4> QED BY <4>1 DEF Idle
    <3> QED BY <3>1, <3>2
  <2> QED BY <2>1, <2>2 DEF OwnerLeads
<1>9. ASSUME NEW w \in Processes, Hear(w) PROVE OwnerLeads'
  <2>1. /\ \A v \in Processes : Superseded(v)' <=> Superseded(v)
        /\ \A v \in Processes : v # w => try'[v] = try[v]
        /\ Listening(w)
        /\ Listening(w)' => try'[w].through = try[w].through + 1
    BY <1>9 DEF Hear, Superseded, Listening, Idle, Attempts
  <2>2. ASSUME NEW v \in Processes, Listening(v)', ~Superseded(v)', try'[v].owns
        PROVE  Through(partial)' <= try'[v].through
    <3>1. CASE v # w
      <4>1. partial' = partial
        BY <1>9, <2>1, <2>2, <3>1, OpeningsGrow DEF Superseded
      <4> QED BY <2>1, <2>2, <3>1, <4>1 DEF OwnerLeads, Listening, Through
    <3>2. CASE v = w
      <4>1. try'[w].through = try[w].through + 1 /\ try[w] \in Attempts
        BY <2>1, <2>2, <3>2
      <4>2. CASE partial' # partial
        BY <1>9, <3>2, <4>1, <4>2, OpeningsGrow DEF Attempts
      <4>3. CASE partial' = partial
        <5>1. try[w].owns \/ Through(partial) <= try[w].through + 1
          BY <1>9, <2>1, <2>2, <3>2 DEF Hear, Publishes, Listening, Idle, Attempts
        <5>2. Through(partial) <= try[w].through + 1
          BY <2>1, <2>2, <3>2, <5>1, ThroughIsTyped DEF OwnerLeads, Attempts
        <5> QED BY <3>2, <4>1, <4>3, <5>2 DEF Through
      <4> QED BY <4>2, <4>3
    <3> QED BY <3>1, <3>2
  <2> QED BY <2>2 DEF OwnerLeads
<1> QED BY <1>0, <1>1, <1>2, <1>3, <1>4, <1>5, <1>6, <1>7, <1>8, <1>9 DEF Next

\* A finished sync counts for all the windows, so no step but a refusal or a
\* replaced file leaves less to follow.
LEMMA StepSetsNobodyBack ==
    ASSUME Typed, OwnerLeads, Next
    PROVE  Followed' >= Followed \/ Spent("replacements") \/ Spent("refusals")
<1> USE TypedBefore
<1>1. Stages \in Nat /\ Followed \in 0..Stages
  BY ThroughIsTyped, CountsAreNatural DEF Followed
<1>2. UNCHANGED syncs => Followed' >= Followed
  BY <1>1 DEF Followed, Through, syncs
<1>3. CASE ReplaceEbook \/ ReplaceAudio
  BY <1>3, SpendingIsTyped DEF ReplaceEbook, ReplaceAudio, Discard
<1>4. CASE Reindex \/ Suggest \/ Retire \/ Confirm \/ Reject \/ AlignNow \/ SweepDead \/ SweepSlow
  BY <1>2, <1>4 DEF Reindex, Suggest, Retire, Confirm, Reject, AlignNow, SweepDead, SweepSlow, syncs
<1>5. ASSUME NEW w \in Processes, Start(w) \/ Heartbeat(w) \/ Fails(w) \/ Crash(w)
      PROVE  Followed' >= Followed
  BY <1>2, <1>5 DEF Start, Heartbeat, Fails, Crash
<1>6. ASSUME NEW w \in Processes, Refuse(w) PROVE Spent("refusals")
  BY <1>6, SpendingIsTyped DEF Refuse
<1>7. ASSUME NEW w \in Processes, Hear(w) PROVE Followed' >= Followed
  <2>1. ready' = ready /\ Through(partial)' >= Through(partial)
    BY <1>7, OpeningsGrow DEF Hear
  <2> QED BY <2>1, <1>1 DEF Followed
<1>8. ASSUME NEW w \in Processes, Finish(w) \/ FinishCut(w) PROVE Followed' >= Followed
  <2>1. CASE UNCHANGED syncs
    BY <1>2, <2>1
  <2>2. CASE ready' = [text |-> try[w].text, sound |-> try[w].sound]
    <3>1. ready' \in [text : Nat, sound : Nat]
      BY <2>2, CountsAreNatural DEF Attempts, Versions
    <3> QED BY <1>1, <3>1, NothingIsSomething DEF Followed
  <2> QED BY <1>8, <2>1, <2>2 DEF Finish, FinishCut, syncs
<1> QED BY <1>3, <1>4, <1>5, <1>6, <1>7, <1>8 DEF Next

\* Read along never gets shorter while the files stay, whatever becomes of the
\* attempts at the job: only when the books are refused (onPartial, runAlign).
THEOREM ReadersAreNeverSetBack == Spec => ReadersAreNotSetBack
<1>1. Init => OwnerLeads
  BY DEF Init, OwnerLeads, Listening, Idle
<1>2. Typed /\ OwnerLeads /\ [Next]_vars =>
          [Followed' >= Followed \/ Spent("replacements") \/ Spent("refusals")]_vars
  BY StepSetsNobodyBack
<1> QED BY InitTyped, StepTyped, StepLeads, <1>1, <1>2, PTL DEF Spec, ReadersAreNotSetBack

-----------------------------------------------------------------------------
(* Model downloads.                                                        *)

Downloads == [state : {"none", "queued", "running", "failed", "done"},
              owner : Processes \cup {NoOne}, tries : 0..MaxTries]
Fetches == [pc : {"idle", "extra", "asked", "reading"}, have : Nat, at : 0..Size,
            mode : {"a", "w"}, fd : {"none", "part", "dest", "orphan"}, lost : BOOLEAN]
Waits == {"queued", "failed", "started"} \cup Processes
Limits == {"requests", "removals", "failures", "crashes", "stalls"}

\* A download that waits has been tried less often than it may be.
TriesLeft == download.state = "queued" => download.tries < MaxTries

\* Who has a file open by its name has one that is there.
OpenedByName ==
    \A w \in Processes : /\ fetch[w].fd = "part" => part # NoFile
                         /\ fetch[w].fd = "dest" => dest # NoFile

\* The attempt that has the job knows how much of the part file there is, until it
\* reads: then it has written as much as it has got to, or to a file no longer there.
KnowsItsPart(w) ==
    /\ fetch[w].pc = "asked" => fetch[w].have = Models!Length(part)
    /\ fetch[w].pc = "reading" =>
          \/ fetch[w].fd = "part" /\ part.len = fetch[w].at
          \/ fetch[w].fd = "orphan" /\ part = NoFile

InOrder ==
    /\ dest # NoFile => dest.good /\ dest.len = Size
    /\ part # NoFile => part.good
    /\ \A w \in Processes : ~Models!Superseded(w) => KnowsItsPart(w)

Fetched == Models!TypeOK /\ TriesLeft /\ OpenedByName /\ (crossed \/ cut \/ InOrder)

-----------------------------------------------------------------------------
(* What the helpers return.                                                *)

LEMMA DownloadsByName ==
    Models!TypeOK <=> /\ download \in Downloads /\ fetch \in [Processes -> Fetches]
               /\ part \in Models!Files \cup {NoFile} /\ dest \in Models!Files \cup {NoFile}
               /\ extra \in BOOLEAN /\ crossed \in BOOLEAN /\ cut \in BOOLEAN
               /\ align \in [Waiting -> Waits] /\ left \in [Limits -> Nat]
BY DEF Models!TypeOK, Downloads, Fetches, Waits, Limits

LEMMA DownloadsByNameNext ==
    Models!TypeOK' <=> /\ download' \in Downloads /\ fetch' \in [Processes -> Fetches]
                /\ part' \in Models!Files \cup {NoFile} /\ dest' \in Models!Files \cup {NoFile}
                /\ extra' \in BOOLEAN /\ crossed' \in BOOLEAN /\ cut' \in BOOLEAN
                /\ align' \in [Waiting -> Waits] /\ left' \in [Limits -> Nat]
BY DEF Models!TypeOK, Downloads, Fetches, Waits, Limits

LEMMA IdleIsTyped ==
    /\ Models!Idle \in Fetches /\ [Models!Idle EXCEPT !.pc = "extra"] \in Fetches
    /\ [Models!Idle EXCEPT !.pc = "asked"] \in Fetches
    /\ \A w \in Processes : Models!TypeOK => Models!Measured(w) \in Fetches
<1>1. Size \in Nat /\ NoFile \notin Models!Files
  BY ModelAssumption DEF ModelParameters
<1>2. \A pc \in {"idle", "extra", "asked"}, n \in Nat :
         [pc |-> pc, have |-> n, at |-> 0, mode |-> "w", fd |-> "none", lost |-> FALSE] \in Fetches
  BY <1>1 DEF Fetches
<1>4. Models!Idle \in Fetches
  BY <1>2 DEF Models!Idle
<1>5. /\ [Models!Idle EXCEPT !.pc = "extra"] \in Fetches
      /\ [Models!Idle EXCEPT !.pc = "asked"] \in Fetches
  BY <1>4 DEF Fetches
<1>6. \A n \in Nat : [Models!Idle EXCEPT !.pc = "asked", !.have = n] \in Fetches
  BY <1>4 DEF Fetches
<1>3. Models!TypeOK => Models!Length(part) \in Nat
  BY <1>1, DownloadsByName DEF Models!Length, Models!Files
<1>7. \A w \in Processes : Models!TypeOK => Models!Measured(w) \in Fetches
  BY <1>3, <1>6 DEF Models!Measured
<1> QED BY <1>4, <1>5, <1>7

LEMMA WrittenIsTyped ==
    ASSUME NEW f \in Models!Files, NEW t \in Fetches
    PROVE  Models!Written(f, t) \in Models!Files
BY ModelAssumption DEF ModelParameters, Models!Written, Models!Files, Fetches

LEMMA UnlinkedFields ==
    ASSUME NEW t \in [Processes -> Fetches], NEW from,
           NEW to \in {"none", "part", "dest", "orphan"}
    PROVE  /\ Models!Unlinked(t, from, to) \in [Processes -> Fetches]
           /\ \A w \in Processes :
                 /\ Models!Unlinked(t, from, to)[w].pc = t[w].pc
                 /\ Models!Unlinked(t, from, to)[w].have = t[w].have
                 /\ Models!Unlinked(t, from, to)[w].at = t[w].at
                 /\ Models!Unlinked(t, from, to)[w].mode = t[w].mode
                 /\ Models!Unlinked(t, from, to)[w].lost = t[w].lost
                 /\ Models!Unlinked(t, from, to)[w].fd = IF t[w].fd = from THEN to ELSE t[w].fd
BY DEF Models!Unlinked, Fetches

LEMMA SpendIsTyped ==
    ASSUME left \in [Limits -> Nat], NEW what \in Limits, Models!Spend(what)
    PROVE  left' \in [Limits -> Nat]
BY DEF Models!Spend, Limits

LEMMA EndedFields ==
    ASSUME download \in Downloads, NEW state \in {"queued", "done", "failed"}
    PROVE  /\ Models!Ended(state) \in Downloads /\ Models!Ended(state).state = state
           /\ Models!Ended(state).tries = download.tries
BY DEF Models!Ended, Downloads

LEMMA WakeIsTyped ==
    ASSUME align \in [Waiting -> Waits]
    PROVE  Models!WakeWaiting \in [Waiting -> Waits]
BY DEF Models!WakeWaiting, Waits

\* An attempt that has lost the job does not get it back from an attempt that ends.
LEMMA FailFields ==
    ASSUME Models!TypeOK, TriesLeft, NEW w \in Processes, Models!Fail(w)
    PROVE  /\ download' \in Downloads /\ TriesLeft'
           /\ fetch' = [fetch EXCEPT ![w] = Models!Idle] /\ fetch' \in [Processes -> Fetches]
           /\ \A v \in Processes : Models!Superseded(v) => Models!Superseded(v)'
<1> USE DownloadsByName, IdleIsTyped, EndedFields
<1>1. /\ download' \in Downloads
      /\ fetch' = [fetch EXCEPT ![w] = Models!Idle] /\ fetch' \in [Processes -> Fetches]
  BY DEF Models!Fail
<1>2. TriesLeft' /\ \A v \in Processes : Models!Superseded(v) => Models!Superseded(v)'
  BY DEF Models!Fail, TriesLeft, Models!Superseded
<1> QED BY <1>1, <1>2

-----------------------------------------------------------------------------
(* The steps that touch neither file.                                      *)

\* Where the files stay and one attempt is set, it has to be in order itself.
LEMMA OneAttempt ==
    ASSUME Fetched, NEW w \in Processes, NEW t \in Fetches,
           fetch' = [fetch EXCEPT ![w] = t], UNCHANGED <<part, dest, crossed, cut>>,
           t.fd = "none" \/ t.fd = fetch[w].fd,
           \A v \in Processes \ {w} : Models!Superseded(v) => Models!Superseded(v)',
           ~Models!Superseded(w)' => KnowsItsPart(w)'
    PROVE  OpenedByName' /\ (crossed' \/ cut' \/ InOrder')
<1> USE DownloadsByName, DownloadsByNameNext
<1>1. \A v \in Processes : fetch'[v] = IF v = w THEN t ELSE fetch[v]
  BY DEF Fetched
<1>2. OpenedByName'
  BY <1>1 DEF Fetched, OpenedByName
<1>3. ASSUME InOrder PROVE InOrder'
  BY <1>1, <1>3 DEF InOrder, KnowsItsPart, Models!Length
<1> QED BY <1>2, <1>3 DEF Fetched

LEMMA NobodyMoves ==
    ASSUME Fetched, UNCHANGED <<fetch, part, dest, crossed, cut>>,
           \A v \in Processes : Models!Superseded(v) => Models!Superseded(v)'
    PROVE  OpenedByName' /\ (crossed' \/ cut' \/ InOrder')
BY DEF Fetched, OpenedByName, InOrder, KnowsItsPart, Models!Length

LEMMA RequestKeeps == Fetched /\ Models!Request => Fetched'
<1> SUFFICES ASSUME Fetched, Models!Request PROVE Fetched' OBVIOUS
<1> USE DownloadsByName, DownloadsByNameNext
<1>1. Models!TypeOK' /\ TriesLeft'
  BY ModelAssumption, SpendIsTyped DEF ModelParameters, Models!Request, Fetched, TriesLeft,
                                       Downloads, Limits
<1>2. \A v \in Processes : Models!Superseded(v) => Models!Superseded(v)'
  BY DEF Models!Request, Models!Superseded
<1> QED BY <1>1, <1>2, NobodyMoves DEF Fetched, Models!Request

LEMMA SweepKeeps == Fetched /\ (Models!SweepDead \/ Models!SweepSlow) => Fetched'
<1> SUFFICES ASSUME Fetched, Models!SweepDead \/ Models!SweepSlow PROVE Fetched' OBVIOUS
<1> USE DownloadsByName, DownloadsByNameNext
<1>1. left' \in [Limits -> Nat]
  BY SpendIsTyped DEF Models!SweepDead, Models!SweepSlow, Fetched, Limits
<1>2. /\ download' \in Downloads /\ TriesLeft'
      /\ \A v \in Processes : Models!Superseded(v) => Models!Superseded(v)'
  BY EndedFields DEF Models!SweepDead, Models!SweepSlow, Models!Reclaimed, Fetched, TriesLeft,
                     Models!Superseded
<1>3. Models!TypeOK'
  BY <1>1, <1>2 DEF Models!SweepDead, Models!SweepSlow, Fetched
<1> QED BY <1>2, <1>3, NobodyMoves DEF Fetched, Models!SweepDead, Models!SweepSlow

LEMMA AlignKeeps ==
    Fetched /\ (\/ Models!LookAtModels
                \/ \E j \in Waiting : Models!RefuseAlign(j) \/ \E w \in Processes : Models!StartAlign(j, w))
        => Fetched'
<1> SUFFICES ASSUME Fetched,
                    \/ Models!LookAtModels
                    \/ \E j \in Waiting : Models!RefuseAlign(j) \/ \E w \in Processes : Models!StartAlign(j, w)
             PROVE  Fetched'
  OBVIOUS
<1>1. UNCHANGED <<download, fetch, part, dest, extra, crossed, cut, left>>
  BY DEF Models!LookAtModels, Models!RefuseAlign, Models!StartAlign
<1>2. align' \in [Waiting -> Waits]
  BY WakeIsTyped, DownloadsByName DEF Models!LookAtModels, Models!RefuseAlign, Models!StartAlign,
                                      Fetched, Waits
<1>3. Models!TypeOK' /\ TriesLeft' /\ \A v \in Processes : Models!Superseded(v) => Models!Superseded(v)'
  BY <1>1, <1>2, DownloadsByName, DownloadsByNameNext DEF Fetched, TriesLeft, Models!Superseded
<1> QED BY <1>1, <1>3, NobodyMoves DEF Fetched

LEMMA StartKeeps == \A w \in Processes : Fetched /\ Models!Start(w) => Fetched'
<1> SUFFICES ASSUME NEW w \in Processes, Fetched, Models!Start(w) PROVE Fetched' OBVIOUS
<1> USE DownloadsByName, DownloadsByNameNext
<1>1. /\ download' \in Downloads /\ TriesLeft'
      /\ \A v \in Processes \ {w} : Models!Superseded(v) => Models!Superseded(v)'
  <2> DEFINE claimed == [state |-> "running", owner |-> w, tries |-> download.tries + 1]
  <2>1. download.tries + 1 \in 0..MaxTries
    BY ModelAssumption DEF ModelParameters, Models!Start, Fetched, TriesLeft, Downloads
  <2>2. claimed \in Downloads /\ [claimed EXCEPT !.state = "done", !.owner = NoOne] \in Downloads
    BY <2>1 DEF Downloads
  <2>3. download' = claimed \/ download' = [claimed EXCEPT !.state = "done", !.owner = NoOne]
    BY DEF Models!Start
  <2>4. download.state = "queued"
    BY DEF Models!Start
  <2>5. /\ claimed.state # "queued"
        /\ [claimed EXCEPT !.state = "done", !.owner = NoOne].state # "queued"
        /\ claimed.owner = w
        /\ [claimed EXCEPT !.state = "done", !.owner = NoOne].state # "running"
    OBVIOUS
  <2> HIDE DEF claimed
  <2>6. TriesLeft'
    BY <2>3, <2>5 DEF TriesLeft
  <2>7. ASSUME NEW v \in Processes \ {w} PROVE Models!Superseded(v)'
    BY <2>3, <2>5 DEF Models!Superseded
  <2> QED BY <2>2, <2>3, <2>6, <2>7
<1>2. align' \in [Waiting -> Waits]
  BY WakeIsTyped DEF Models!Start, Fetched
<1>3. CASE UNCHANGED fetch
  <2>1. Models!TypeOK'
    BY <1>1, <1>2, <1>3 DEF Models!Start, Fetched
  <2>2. fetch[w].pc = "idle"
    BY DEF Models!Start
  <2>3. OpenedByName' /\ (crossed' \/ cut' \/ InOrder')
    BY <1>1, <1>3, <2>2 DEF Models!Start, Fetched, OpenedByName, InOrder, KnowsItsPart,
                            Models!Length
  <2> QED BY <1>1, <2>1, <2>3 DEF Fetched
<1>4. CASE \E t \in {Models!Measured(w), [Models!Idle EXCEPT !.pc = "extra"]} : fetch' = [fetch EXCEPT ![w] = t]
  <2> PICK t \in {Models!Measured(w), [Models!Idle EXCEPT !.pc = "extra"]} : fetch' = [fetch EXCEPT ![w] = t]
    BY <1>4
  <2>1. t \in Fetches /\ t.fd = "none" /\ (t.pc = "asked" => t.have = Models!Length(part)) /\ t.pc # "reading"
    BY IdleIsTyped DEF Fetched, Models!Measured, Models!Idle
  <2>2. Models!TypeOK'
    BY <1>1, <1>2, <2>1 DEF Models!Start, Fetched
  <2>3. KnowsItsPart(w)'
    BY <2>1 DEF KnowsItsPart, Models!Start, Fetched, Models!Length
  <2>4. OpenedByName' /\ (crossed' \/ cut' \/ InOrder')
    BY <1>1, <2>1, <2>3, OneAttempt DEF Models!Start
  <2> QED BY <1>1, <2>2, <2>4 DEF Fetched
<1> QED BY <1>3, <1>4 DEF Models!Start

LEMMA ExtraKeeps == \A w \in Processes : Fetched /\ Models!ExtraArrives(w) => Fetched'
<1> SUFFICES ASSUME NEW w \in Processes, Fetched, Models!ExtraArrives(w) PROVE Fetched' OBVIOUS
<1> USE DownloadsByName, DownloadsByNameNext
<1> DEFINE t == IF Models!Superseded(w) THEN Models!Idle ELSE Models!Measured(w)
<1>1. /\ t \in Fetches /\ t.fd = "none" /\ (t.pc = "asked" => t.have = Models!Length(part))
      /\ t.pc # "reading"
  BY IdleIsTyped DEF Fetched, Models!Measured, Models!Idle
<1>2. fetch' = [fetch EXCEPT ![w] = t]
  BY DEF Models!ExtraArrives
<1> HIDE DEF t
<1>3. Models!TypeOK' /\ TriesLeft'
  BY <1>1, <1>2 DEF Models!ExtraArrives, Fetched, TriesLeft
<1>4. KnowsItsPart(w)' /\ \A v \in Processes : Models!Superseded(v) => Models!Superseded(v)'
  BY <1>1, <1>2 DEF KnowsItsPart, Models!ExtraArrives, Fetched, Models!Length, Models!Superseded
<1> QED BY <1>1, <1>2, <1>3, <1>4, OneAttempt DEF Fetched, Models!ExtraArrives

LEMMA HeartbeatKeeps == \A w \in Processes : Fetched /\ Models!Heartbeat(w) => Fetched'
<1> SUFFICES ASSUME NEW w \in Processes, Fetched, Models!Heartbeat(w) PROVE Fetched' OBVIOUS
<1> USE DownloadsByName, DownloadsByNameNext
<1> DEFINE t == IF fetch[w].pc = "reading" /\ fetch[w].at < Size THEN Models!Idle
                ELSE [fetch[w] EXCEPT !.lost = TRUE]
<1>1. t \in Fetches /\ (t.fd = "none" \/ t.fd = fetch[w].fd)
  <2>1. [fetch[w] EXCEPT !.lost = TRUE] \in Fetches /\ [fetch[w] EXCEPT !.lost = TRUE].fd = fetch[w].fd
    BY DEF Fetched, Fetches
  <2> QED BY <2>1, IdleIsTyped DEF Models!Idle
<1>2. fetch' = [fetch EXCEPT ![w] = t]
  BY DEF Models!Heartbeat
<1> HIDE DEF t
<1>3. Models!TypeOK' /\ TriesLeft' /\ Models!Superseded(w)' /\ \A v \in Processes : Models!Superseded(v) => Models!Superseded(v)'
  BY <1>1, <1>2 DEF Models!Heartbeat, Fetched, TriesLeft, Models!Superseded
<1> QED BY <1>1, <1>2, <1>3, OneAttempt DEF Fetched, Models!Heartbeat

LEMMA BreaksKeeps == \A w \in Processes : Fetched /\ (Models!Breaks(w) \/ Models!Crash(w)) => Fetched'
<1> SUFFICES ASSUME NEW w \in Processes, Fetched, Models!Breaks(w) \/ Models!Crash(w)
             PROVE  Fetched'
  OBVIOUS
<1> USE DownloadsByName, DownloadsByNameNext
<1>1. /\ download' \in Downloads /\ TriesLeft' /\ fetch' = [fetch EXCEPT ![w] = Models!Idle]
      /\ \A v \in Processes : Models!Superseded(v) => Models!Superseded(v)'
  BY FailFields DEF Models!Breaks, Models!Crash, Fetched, TriesLeft, Models!Superseded
<1>2. left' \in [Limits -> Nat]
  BY SpendIsTyped DEF Models!Breaks, Models!Crash, Fetched, Limits
<1>3. Models!TypeOK'
  BY <1>1, <1>2, IdleIsTyped DEF Models!Breaks, Models!Crash, Fetched
<1>4. KnowsItsPart(w)'
  BY <1>1 DEF KnowsItsPart, Models!Idle, Fetched
<1>5. Models!Idle \in Fetches /\ Models!Idle.fd = "none"
  BY IdleIsTyped DEF Models!Idle
<1> QED BY <1>1, <1>3, <1>4, <1>5, OneAttempt DEF Fetched, Models!Breaks, Models!Crash

-----------------------------------------------------------------------------
(* The steps that touch a file.                                            *)

\* One attempt at most has the job.
LEMMA OneOwner ==
    \A v, w \in Processes : ~Models!Superseded(w) /\ v # w => Models!Superseded(v)
BY DEF Models!Superseded

\* What an attempt that has the job does, alone decides whether the files are in order.
LEMMA OwnerDecides ==
    ASSUME Fetched, NEW w \in Processes, crossed' = (crossed \/ Models!Superseded(w)), cut' = cut,
           \A v \in Processes \ {w} : Models!Superseded(v) => Models!Superseded(v)',
           InOrder /\ ~Models!Superseded(w) =>
               /\ dest' # NoFile => dest'.good /\ dest'.len = Size
               /\ part' # NoFile => part'.good
               /\ ~Models!Superseded(w)' => KnowsItsPart(w)'
    PROVE  crossed' \/ cut' \/ InOrder'
BY OneOwner DEF Fetched, InOrder

LEMMA RemoveKeeps == Fetched /\ Models!Remove => Fetched'
<1> SUFFICES ASSUME Fetched, Models!Remove PROVE Fetched' OBVIOUS
<1> USE DownloadsByName, DownloadsByNameNext
<1> DEFINE t == Models!Unlinked(fetch, "part", "orphan")
<1>1. /\ t \in [Processes -> Fetches] /\ fetch' \in [Processes -> Fetches]
      /\ fetch' = Models!Unlinked(t, "dest", "orphan")
  BY UnlinkedFields DEF Fetched, Models!Remove
<1>2. \A v \in Processes :
         /\ fetch'[v].pc = fetch[v].pc /\ fetch'[v].have = fetch[v].have
         /\ fetch'[v].fd = IF fetch[v].fd \in {"part", "dest"} THEN "orphan" ELSE fetch[v].fd
  BY <1>1, UnlinkedFields DEF Fetched
<1>3. left' \in [Limits -> Nat]
  BY SpendIsTyped DEF Models!Remove, Fetched, Limits
<1>4. Models!TypeOK' /\ TriesLeft' /\ OpenedByName'
  BY <1>1, <1>2, <1>3 DEF Models!Remove, Fetched, TriesLeft, OpenedByName
<1>5. ASSUME InOrder, ~cut' PROVE InOrder'
  <2>1. part' = NoFile /\ dest' = NoFile /\ \A v \in Processes : Models!Superseded(v) => Models!Superseded(v)'
    BY DEF Models!Remove, Models!Superseded
  <2>2. ASSUME NEW v \in Processes, KnowsItsPart(v) PROVE KnowsItsPart(v)'
    <3>1. fetch[v] \in Fetches
      BY DEF Fetched
    <3>2. fetch[v].have \in Nat
      BY <3>1 DEF Fetches
    <3>4. ~(fetch[v].pc = "asked" /\ fetch[v].have > 0)
      BY <1>5 DEF Models!Remove
    <3>3. fetch[v].pc = "asked" => fetch[v].have = 0
      BY <3>2, <3>4
    <3> QED BY <1>2, <2>1, <2>2, <3>3 DEF KnowsItsPart, Models!Length
  <2> QED BY <1>5, <2>1, <2>2 DEF InOrder
<1> QED BY <1>4, <1>5 DEF Fetched, Models!Remove

LEMMA ResponseKeeps == \A w \in Processes : Fetched /\ Models!Response(w) => Fetched'
<1> SUFFICES ASSUME NEW w \in Processes, Fetched, Models!Response(w) PROVE Fetched' OBVIOUS
<1> USE DownloadsByName, DownloadsByNameNext
<1>0. Size \in Nat \ {0} /\ NoFile \notin Models!Files
  BY ModelAssumption DEF ModelParameters
<1> DEFINE none == [len |-> 0, good |-> TRUE]
           more == [fetch[w] EXCEPT !.pc = "reading", !.at = fetch[w].have, !.mode = "a", !.fd = "part"]
           whole == [fetch[w] EXCEPT !.pc = "reading", !.at = 0, !.have = 0, !.mode = "w", !.fd = "part"]
<1>1. none \in Models!Files /\ none # NoFile
  <2>1. none \in Models!Files
    BY DEF Models!Files
  <2> QED BY <1>0, <2>1
<1>6. fetch[w] \in Fetches
  BY DEF Fetched
<1>2. whole \in Fetches /\ whole.pc = "reading" /\ whole.at = 0 /\ whole.fd = "part"
  <2>1. whole \in Fetches
    <3>1. 0 \in 0..Size /\ 0 \in Nat
      BY <1>0
    <3> QED BY <1>6, <3>1 DEF Fetches
  <2>2. whole.pc = "reading" /\ whole.at = 0 /\ whole.fd = "part"
    BY <1>6 DEF Fetches
  <2> QED BY <2>1, <2>2
<1>3. \A v \in Processes : Models!Superseded(v) => Models!Superseded(v)'
  BY DEF Models!Response, Models!Superseded
<1>4. CASE /\ fetch[w].have > 0 /\ fetch[w].have < Size /\ fetch' = [fetch EXCEPT ![w] = more]
           /\ part' = IF part = NoFile THEN none ELSE part
  <2>1. more \in Fetches /\ more.pc = "reading" /\ more.at = fetch[w].have /\ more.fd = "part"
    <3>1. fetch[w].have \in 0..Size
      BY <1>0, <1>4, <1>6 DEF Fetches
    <3>2. more \in Fetches
      BY <1>6, <3>1 DEF Fetches
    <3>3. more.pc = "reading" /\ more.at = fetch[w].have /\ more.fd = "part"
      BY <1>6 DEF Fetches
    <3> QED BY <3>2, <3>3
  <2> HIDE DEF none, more
  <2>2. part' \in Models!Files /\ part' # NoFile
    BY <1>1, <1>4 DEF Fetched
  <2>3. Models!TypeOK' /\ TriesLeft' /\ OpenedByName'
    BY <1>4, <2>1, <2>2 DEF Models!Response, Fetched, TriesLeft, OpenedByName
  <2>4. ASSUME InOrder, ~Models!Superseded(w)
        PROVE  part' = part /\ part.good /\ KnowsItsPart(w)'
    <3>1. Models!Length(part) = fetch[w].have /\ part # NoFile
      BY <1>4, <2>4 DEF InOrder, KnowsItsPart, Models!Response, Models!Length
    <3> QED BY <1>4, <2>1, <2>4, <3>1 DEF InOrder, KnowsItsPart, Models!Length, Fetched
  <2>5. crossed' \/ cut' \/ InOrder'
    BY <1>3, <2>4, OwnerDecides DEF Models!Response, InOrder
  <2> QED BY <2>3, <2>5 DEF Fetched
<1>5. CASE fetch' = [fetch EXCEPT ![w] = whole] /\ part' = none
  <2>1. none.good /\ none.len = 0
    OBVIOUS
  <2> HIDE DEF none, whole
  <2>2. Models!TypeOK' /\ TriesLeft' /\ OpenedByName'
    BY <1>1, <1>2, <1>5 DEF Models!Response, Fetched, TriesLeft, OpenedByName
  <2>3. KnowsItsPart(w)'
    BY <1>2, <1>5, <2>1 DEF KnowsItsPart, Fetched
  <2>4. crossed' \/ cut' \/ InOrder'
    BY <1>3, <1>5, <2>1, <2>3, OwnerDecides DEF Models!Response, InOrder
  <2> QED BY <2>2, <2>4 DEF Fetched
<1> QED BY <1>4, <1>5 DEF Models!Response

LEMMA NothingKeeps == \A w \in Processes : Fetched /\ Models!NothingToResume(w) => Fetched'
<1> SUFFICES ASSUME NEW w \in Processes, Fetched, Models!NothingToResume(w) PROVE Fetched' OBVIOUS
<1> USE DownloadsByName, DownloadsByNameNext
<1> DEFINE kept == Models!Unlinked(fetch, "part", "orphan")
<1>1. /\ kept \in [Processes -> Fetches]
      /\ \A v \in Processes : kept[v].fd = IF fetch[v].fd = "part" THEN "orphan" ELSE fetch[v].fd
  BY UnlinkedFields DEF Fetched
<1> HIDE DEF kept
<1>2. PICK t \in {Models!Idle, [Models!Idle EXCEPT !.pc = "asked"], [Models!Idle EXCEPT !.pc = "extra"]} :
         fetch' = [kept EXCEPT ![w] = t]
  BY DEF Models!NothingToResume, kept
<1>3. t \in Fetches /\ t.have = 0 /\ t.fd = "none" /\ t.pc # "reading"
  <2>1. t \in Fetches
    BY IdleIsTyped
  <2> QED BY <2>1 DEF Models!Idle
<1>4. /\ download' \in Downloads /\ TriesLeft' /\ align' \in [Waiting -> Waits]
      /\ \A v \in Processes : Models!Superseded(v) => Models!Superseded(v)'
  BY EndedFields, WakeIsTyped DEF Models!NothingToResume, Fetched, TriesLeft, Models!Superseded
<1>5. Models!TypeOK'
  BY <1>1, <1>2, <1>3, <1>4 DEF Models!NothingToResume, Fetched
<1>6. OpenedByName'
  BY <1>1, <1>2, <1>3 DEF Models!NothingToResume, Fetched, OpenedByName
<1>7. part' = NoFile /\ KnowsItsPart(w)'
  BY <1>1, <1>2, <1>3 DEF Models!NothingToResume, KnowsItsPart, Models!Length
<1>8. crossed' \/ cut' \/ InOrder'
  BY <1>4, <1>7, OwnerDecides DEF Models!NothingToResume, InOrder
<1> QED BY <1>4, <1>5, <1>6, <1>8 DEF Fetched

LEMMA ChunkKeeps == \A w \in Processes : Fetched /\ Models!Chunk(w) => Fetched'
<1> SUFFICES ASSUME NEW w \in Processes, Fetched, Models!Chunk(w) PROVE Fetched' OBVIOUS
<1> USE DownloadsByName, DownloadsByNameNext
<1> DEFINE t == fetch[w]
           next == [fetch[w] EXCEPT !.at = @ + 1]
<1>0. t \in Fetches /\ t.at < Size /\ Size \in Nat /\ t.pc = "reading"
  BY ModelAssumption DEF ModelParameters, Models!Chunk, Fetched
<1>1. next \in Fetches /\ next.at = t.at + 1 /\ next.pc = t.pc /\ next.fd = t.fd
  <2>1. t.at + 1 \in 0..Size
    BY <1>0 DEF Fetches
  <2>2. next \in Fetches
    BY <1>0, <2>1 DEF Fetches
  <2>3. next.at = t.at + 1 /\ next.pc = t.pc /\ next.fd = t.fd
    BY <1>0 DEF Fetches
  <2> QED BY <2>2, <2>3
<1>2. \E s \in {Models!Idle, next} : fetch' = [fetch EXCEPT ![w] = s]
  <2>1. CASE fetch' = [fetch EXCEPT ![w].at = @ + 1]
    BY <2>1
  <2>2. CASE fetch' = [fetch EXCEPT ![w] = IF Models!Superseded(w) THEN Models!Idle ELSE next]
    BY <2>2
  <2>3. CASE Models!Fail(w)
    BY <2>3 DEF Models!Fail
  <2> QED BY <2>1, <2>2, <2>3 DEF Models!Chunk
<1>9. Models!Idle.fd = "none" /\ Models!Idle.pc = "idle" /\ Models!Idle \in Fetches
  BY IdleIsTyped DEF Models!Idle
<1> HIDE DEF next
<1>10. PICK s \in {Models!Idle, next} : fetch' = [fetch EXCEPT ![w] = s]
  BY <1>2
<1>3. s \in Fetches /\ s.fd \in {t.fd, "none"} /\ s.pc # "asked"
  BY <1>0, <1>1, <1>9
<1>4. /\ download' \in Downloads /\ TriesLeft'
      /\ \A v \in Processes : Models!Superseded(v) => Models!Superseded(v)'
  <2>1. CASE Models!Fail(w)
    BY <2>1, FailFields DEF Fetched
  <2>2. CASE UNCHANGED download
    BY <2>2 DEF Fetched, TriesLeft, Models!Superseded
  <2> QED BY <2>1, <2>2 DEF Models!Chunk
<1>5. /\ t.fd = "part" => part \in Models!Files /\ part' = Models!Written(part, t) /\ part' \in Models!Files
      /\ t.fd # "part" => part' = part
      /\ t.fd = "dest" => dest \in Models!Files /\ dest' = Models!Written(dest, t) /\ dest' \in Models!Files
      /\ t.fd # "dest" => dest' = dest
      /\ t \in Fetches
  BY WrittenIsTyped DEF Models!Chunk, Fetched, OpenedByName
<1>6. Models!TypeOK' /\ OpenedByName'
  <2>1. part' \in Models!Files \cup {NoFile} /\ dest' \in Models!Files \cup {NoFile}
    BY <1>5 DEF Fetched
  <2>2. (part' = NoFile => part = NoFile) /\ (dest' = NoFile => dest = NoFile)
    BY <1>5, ModelAssumption DEF ModelParameters
  <2>3. Models!TypeOK'
    BY <1>10, <1>3, <1>4, <2>1 DEF Models!Chunk, Fetched
  <2> QED BY <1>10, <1>3, <2>2, <2>3 DEF Fetched, OpenedByName
<1>7. ASSUME InOrder, ~Models!Superseded(w)
      PROVE  /\ dest' = dest
             /\ part' # NoFile => part'.good
             /\ KnowsItsPart(w)'
  <2>1. KnowsItsPart(w) /\ t.pc = "reading"
    BY <1>7 DEF InOrder, Models!Chunk
  <2>2. CASE t.fd = "part" /\ part.len = t.at
    <3>1. /\ Models!Written(part, t).len = t.at + 1
          /\ part.good => Models!Written(part, t).good
      BY <1>5, <2>2 DEF Models!Written, Models!Files, Fetches
    <3>2. part' # NoFile /\ part.good /\ part'.good /\ part'.len = t.at + 1 /\ dest' = dest
      BY <1>5, <1>7, <2>2, <3>1, ModelAssumption DEF InOrder, ModelParameters
    <3>4. fetch'[w] = s
      BY <1>10 DEF Fetched
    <3>3. KnowsItsPart(w)'
      BY <1>0, <1>1, <1>10, <1>9, <2>2, <3>2, <3>4 DEF KnowsItsPart
    <3> QED BY <3>2, <3>3
  <2>3. CASE t.fd = "orphan" /\ part = NoFile
    <3>1. part' = NoFile /\ dest' = dest
      BY <1>5, <2>3 DEF Fetches
    <3>2. fetch'[w] = s
      BY <1>10 DEF Fetched
    <3> QED BY <1>0, <1>1, <1>10, <1>9, <2>3, <3>1, <3>2 DEF KnowsItsPart
  <2> QED BY <2>1, <2>2, <2>3 DEF KnowsItsPart
<1>8. crossed' \/ cut' \/ InOrder'
  BY <1>4, <1>7, OwnerDecides DEF Models!Chunk, InOrder
<1> QED BY <1>4, <1>6, <1>8 DEF Fetched

LEMMA EndKeeps == \A w \in Processes : Fetched /\ Models!End(w) => Fetched'
<1> SUFFICES ASSUME NEW w \in Processes, Fetched, Models!End(w) PROVE Fetched' OBVIOUS
<1> USE DownloadsByName, DownloadsByNameNext
<1>0. Models!Idle \in Fetches /\ Models!Idle.fd = "none" /\ Models!Idle.pc = "idle"
  BY IdleIsTyped DEF Models!Idle
<1>1. CASE UNCHANGED <<part, dest, align>> /\ (Models!Fail(w) \/ (UNCHANGED download /\ fetch' = [fetch EXCEPT ![w] = Models!Idle]))
  <2>1. /\ download' \in Downloads /\ TriesLeft' /\ fetch' = [fetch EXCEPT ![w] = Models!Idle]
        /\ \A v \in Processes : Models!Superseded(v) => Models!Superseded(v)'
    BY <1>1, FailFields DEF Fetched, TriesLeft, Models!Superseded
  <2>2. Models!TypeOK' /\ KnowsItsPart(w)'
    BY <1>0, <1>1, <2>1 DEF Models!End, Fetched, KnowsItsPart
  <2> QED BY <1>0, <1>1, <2>1, <2>2, OneAttempt DEF Fetched, Models!End
<1>2. CASE /\ Models!Length(part) >= Enough /\ ~Models!Superseded(w)
           /\ dest' = part /\ part' = NoFile
           /\ fetch' = [Models!Unlinked(Models!Unlinked(fetch, "dest", "orphan"), "part", "dest") EXCEPT ![w] = Models!Idle]
           /\ download' = Models!Ended("done") /\ align' = Models!WakeWaiting
  <2> DEFINE once == Models!Unlinked(fetch, "dest", "orphan")
             twice == Models!Unlinked(once, "part", "dest")
  <2>1. once \in [Processes -> Fetches] /\ twice \in [Processes -> Fetches]
    BY UnlinkedFields DEF Fetched
  <2>2. \A v \in Processes :
           /\ once[v].fd = IF fetch[v].fd = "dest" THEN "orphan" ELSE fetch[v].fd
           /\ twice[v].fd = IF once[v].fd = "part" THEN "dest" ELSE once[v].fd
    BY <2>1, UnlinkedFields DEF Fetched
  <2>3. fetch' = [twice EXCEPT ![w] = Models!Idle]
    BY <1>2
  <2> HIDE DEF once, twice
  <2>4. download' \in Downloads /\ download'.state = "done" /\ align' \in [Waiting -> Waits]
    BY <1>2, EndedFields, WakeIsTyped DEF Fetched
  <2>5. part # NoFile
    BY <1>2, ModelAssumption DEF ModelParameters, Models!Length
  <2>6. Models!TypeOK' /\ TriesLeft'
    BY <1>0, <1>2, <2>1, <2>3, <2>4 DEF Models!End, Fetched, TriesLeft
  <2>7. \A v \in Processes : fetch'[v].fd # "part" /\ Models!Superseded(v)'
    BY <1>0, <2>1, <2>2, <2>3, <2>4 DEF Models!Superseded
  <2>8. OpenedByName'
    BY <1>2, <2>5, <2>7 DEF OpenedByName
  <2>9. InOrder => InOrder'
    BY <1>2, <2>5, <2>7 DEF InOrder, KnowsItsPart, Models!End
  <2> QED BY <2>6, <2>8, <2>9 DEF Fetched, Models!End
<1>3. Models!Length(part) < Enough \/ Models!Length(part) >= Enough
  BY ModelAssumption DEF ModelParameters, Models!Length, Models!Files, Fetched
<1> QED BY <1>1, <1>2, <1>3 DEF Models!End

-----------------------------------------------------------------------------
(* The theorems.                                                           *)

LEMMA FetchedHolds == Models!Spec => []Fetched
<1>1. Models!Init => Fetched
  <2> SUFFICES ASSUME Models!Init PROVE Fetched OBVIOUS
  <2>1. left \in [Limits -> Nat]
    BY ModelAssumption DEF ModelParameters, Models!Init, Limits
  <2>2. fetch \in [Processes -> Fetches] /\ \A w \in Processes : fetch[w] = Models!Idle
    BY IdleIsTyped DEF Models!Init
  <2>3. download \in Downloads /\ download.state = "none" /\ align \in [Waiting -> Waits]
    BY ModelAssumption DEF ModelParameters, Models!Init, Downloads, Waits
  <2>4. Models!TypeOK /\ TriesLeft
    BY <2>1, <2>2, <2>3, DownloadsByName DEF Models!Init, TriesLeft
  <2>5. OpenedByName /\ InOrder
    BY <2>2 DEF Models!Init, OpenedByName, InOrder, KnowsItsPart, Models!Idle
  <2> QED BY <2>4, <2>5 DEF Fetched
<1>2. Fetched /\ [Models!Next]_(Models!vars) => Fetched'
  <2> SUFFICES ASSUME Fetched, [Models!Next]_(Models!vars) PROVE Fetched' OBVIOUS
  <2>1. CASE UNCHANGED Models!vars
    BY <2>1 DEF Models!vars, Fetched, Models!TypeOK, TriesLeft, OpenedByName, InOrder,
                KnowsItsPart, Models!Superseded, Models!Length
  <2>2. ASSUME NEW w \in Processes, Models!Work(w) PROVE Fetched'
    BY <2>2, StartKeeps, ExtraKeeps, ResponseKeeps, NothingKeeps, ChunkKeeps, EndKeeps
       DEF Models!Work
  <2>3. CASE Models!Next
    BY <2>2, <2>3, RequestKeeps, RemoveKeeps, SweepKeeps, AlignKeeps, HeartbeatKeeps, BreaksKeeps
       DEF Models!Next
  <2> QED BY <2>1, <2>3
<1> QED BY <1>1, <1>2, PTL DEF Models!Spec

\* A file, a job and an attempt are always where the code can have them.
THEOREM DownloadsTypeCorrect == Models!Spec => []Models!TypeOK
<1>1. Fetched => Models!TypeOK
  BY DEF Fetched
<1> QED BY <1>1, FetchedHolds, PTL

\* What counts as installed is the whole model, although only its size is checked: unless
\* the part file was removed while a request to resume it was under way, or two attempts
\* met in it (runModelDownload, isInstalled).
THEOREM OnlyWholeModels == Models!Spec => []HalfIsNoModel
<1>1. Fetched => HalfIsNoModel
  <2> SUFFICES ASSUME Fetched, Models!Installed, ~crossed, ~cut PROVE dest.good /\ dest.len = Size
    BY DEF HalfIsNoModel, Models!HalfIsNoModel
  <2>1. dest # NoFile
    BY ModelAssumption DEF ModelParameters, Models!Installed, Models!Length
  <2> QED BY <2>1 DEF Fetched, InOrder
<1> QED BY <1>1, FetchedHolds, PTL

-----------------------------------------------------------------------------
(* Translations.                                                           *)

\* The cardinality in the instance is that of the library.
LEMMA SameCardinality == \A bs : Groups!Cardinality(bs) = Cardinality(bs)
BY Zenon DEF Groups!Cardinality, Cardinality

\* Naturals have a least one.
LEMMA LeastOf ==
    ASSUME NEW S, S # {}, S \subseteq Nat
    PROVE  \E t \in S : \A q \in S : t <= q
<1>1. PICK t \in S : \A q \in S : ~ <<q, t>> \in OpToRel(<, Nat)
  BY NatLessThanWellFounded, WFMin, Zenon
<1>2. ASSUME NEW q \in S
      PROVE  ~ q < t
  <2>1. q < t => <<q, t>> \in OpToRel(<, Nat)
    BY DEF OpToRel
  <2> QED BY <1>1, <2>1, Zenon
<1> QED BY <1>2

\* A set of naturals that has 0 and with each number below L the next has all up to L.
LEMMA UpTo ==
    ASSUME NEW L \in Nat, NEW S, 0 \in S,
           \A n \in 1..L : n - 1 \in S => n \in S
    PROVE  \A n \in 0..L : n \in S
<1> DEFINE out == {n \in 0..L : n \notin S}
<1>1. CASE out = {}
  BY <1>1
<1>2. CASE out # {}
  <2>0. out \subseteq Nat
    OBVIOUS
  <2>1. PICK t \in out : \A q \in out : t <= q
    <3> HIDE DEF out
    <3> QED BY <1>2, <2>0, LeastOf
  <2>2. t # 0 /\ t \in 1..L /\ t - 1 \in 0..L
    BY <2>1
  <2>3. t - 1 \notin out
    BY <2>1, <2>2
  <2> QED BY <2>1, <2>2, <2>3
<1> QED BY <1>1, <1>2

-----------------------------------------------------------------------------
(* A title.                                                                *)

\* The books reached from b in n steps and fewer.
Grown(st, bs) == bs \cup Groups!Partners(st, bs)
Reaches(st, b, n, g) == g = [k \in 0..n |-> IF k = 0 THEN {b} ELSE Grown(st, g[k - 1])]

LEMMA ReachExists ==
    ASSUME NEW st, NEW b, NEW L \in Nat
    PROVE  \E g : Reaches(st, b, L, g)
<1> DEFINE S == {n \in Nat : \E g : Reaches(st, b, n, g)}
<1>1. 0 \in S
  <2> DEFINE h == [k \in 0..0 |-> {b}]
  <2>1. h = [k \in 0..0 |-> IF k = 0 THEN {b} ELSE Grown(st, h[k - 1])]
    <3>1. \A k \in 0..0 : k = 0
      OBVIOUS
    <3> QED BY <3>1
  <2>2. Reaches(st, b, 0, h)
    BY <2>1 DEF Reaches
  <2> QED BY <2>2
<1>2. ASSUME NEW n \in 1..L, n - 1 \in S
      PROVE  n \in S
  <2>1. PICK g : Reaches(st, b, n - 1, g)
    BY <1>2
  <2> DEFINE last == Grown(st, g[n - 1])
             h == [k \in 0..n |-> IF k = n THEN last ELSE g[k]]
  <2>2. n \in Nat /\ n - 1 \in Nat /\ 0..n = (0..(n - 1)) \cup {n}
    OBVIOUS
  <2> HIDE DEF last
  <2>3. ASSUME NEW k \in 0..n
        PROVE  h[k] = IF k = 0 THEN {b} ELSE Grown(st, h[k - 1])
    <3>1. CASE k = n
      <4>1. h[k] = last /\ k # 0 /\ k - 1 \in 0..n /\ k - 1 # n /\ h[k - 1] = g[n - 1]
        BY <2>2, <3>1
      <4> QED BY <4>1, <3>1 DEF last
    <3>2. CASE k # n /\ k = 0
      <4>1. h[k] = g[0]
        BY <2>2, <3>2
      <4>2. g[0] = {b}
        BY <2>1, <2>2 DEF Reaches
      <4> QED BY <3>2, <4>1, <4>2
    <3>3. CASE k # n /\ k # 0
      <4>1. h[k] = g[k] /\ k - 1 \in 0..n /\ k - 1 # n /\ h[k - 1] = g[k - 1] /\ k \in 0..(n - 1)
        BY <2>2, <3>3
      <4>2. g[k] = Grown(st, g[k - 1])
        BY <2>1, <3>3, <4>1 DEF Reaches
      <4> QED BY <3>3, <4>1, <4>2
    <3> QED BY <3>1, <3>2, <3>3
  <2>4. Reaches(st, b, n, h)
    <3>1. h = [k \in 0..n |-> h[k]]
      OBVIOUS
    <3> HIDE DEF h
    <3> QED BY <2>3, <3>1 DEF Reaches
  <2> QED BY <2>2, <2>4
<1> HIDE DEF S
<1>3. \A n \in 0..L : n \in S
  BY <1>1, <1>2, UpTo
<1>4. L \in S
  BY <1>3
<1> QED BY <1>4 DEF S

\* What a title is made of: what is reached in as many steps as there are settled pairs.
LEMMA TitleIsReached ==
    ASSUME NEW st, NEW b, Cardinality(Groups!Settled(st)) \in Nat
    PROVE  \E g : /\ Reaches(st, b, Cardinality(Groups!Settled(st)), g)
                  /\ Groups!TitleIn(st, b) = g[Cardinality(Groups!Settled(st))]
<1> DEFINE N == Cardinality(Groups!Settled(st))
           reach == CHOOSE g : Reaches(st, b, N, g)
<1>1. Reaches(st, b, N, reach)
  <2>1. \E g : Reaches(st, b, N, g)
    BY ReachExists
  <2> HIDE DEF N
  <2> QED BY <2>1
<1>2. Groups!TitleIn(st, b) = reach[N]
  <2> DEFINE M == Groups!Cardinality(Groups!Settled(st))
  <2>1. Groups!TitleIn(st, b) = (CHOOSE g : Reaches(st, b, M, g))[M]
    BY DEF Groups!TitleIn, Reaches, Grown
  <2>2. M = N
    BY SameCardinality
  <2> HIDE DEF M, N
  <2> QED BY <2>1, <2>2
<1> QED BY <1>1, <1>2

\* What the settled pairs do not lead out of.
Closed(st, bs) == \A p \in Groups!Settled(st) : p[1] \in bs <=> p[2] \in bs

LEMMA PairsAreOfBooks ==
    /\ IsFiniteSet(Possible)
    /\ \A p \in Possible : p = <<p[1], p[2]>> /\ p[1] \in Groups!Books /\ p[2] \in Groups!Books
<1>1. Possible \subseteq Groups!Books \X Groups!Books
  BY GroupAssumption DEF GroupParameters, Groups!Books
<1>2. IsFiniteSet(Groups!Books \X Groups!Books)
  BY GroupAssumption, FS_Product DEF GroupParameters
<1> QED BY <1>1, <1>2, FS_Subset

LEMMA SettledIsFinite ==
    ASSUME NEW st
    PROVE  Groups!Settled(st) \subseteq Possible /\ IsFiniteSet(Groups!Settled(st)) /\ Cardinality(Groups!Settled(st)) \in Nat
<1>1. Groups!Settled(st) \subseteq Possible
  BY DEF Groups!Settled
<1> QED BY <1>1, PairsAreOfBooks, FS_Subset, FS_CardinalityType

\* A title holds the book, no settled pair leads out of it, and it is the least such set.
LEMMA TitleIsClosure ==
    ASSUME NEW st, NEW b \in Groups!Books
    PROVE  /\ Groups!TitleIn(st, b) \subseteq Groups!Books /\ b \in Groups!TitleIn(st, b)
           /\ Closed(st, Groups!TitleIn(st, b))
           /\ \A bs : b \in bs /\ Closed(st, bs) => Groups!TitleIn(st, b) \subseteq bs
<1> DEFINE N == Cardinality(Groups!Settled(st))
<1>1. N \in Nat /\ IsFiniteSet(Groups!Settled(st)) /\ Groups!Settled(st) \subseteq Possible
  BY SettledIsFinite
<1>2. PICK g : Reaches(st, b, N, g) /\ Groups!TitleIn(st, b) = g[N]
  BY <1>1, TitleIsReached
<1> HIDE DEF N
<1>3. /\ g[0] = {b}
      /\ \A n \in 1..N : g[n] = g[n - 1] \cup Groups!Partners(st, g[n - 1])
  <2>1. \A k \in 0..N : g[k] = IF k = 0 THEN {b} ELSE Grown(st, g[k - 1])
    BY <1>2 DEF Reaches
  <2>2. 0 \in 0..N /\ \A n \in 1..N : n \in 0..N /\ n # 0
    BY <1>1
  <2> QED BY <2>1, <2>2 DEF Grown
<1>4. \A n \in 0..N : n \in {m \in Nat : g[m] \subseteq Groups!Books /\ b \in g[m]}
  <2> DEFINE S == {m \in Nat : g[m] \subseteq Groups!Books /\ b \in g[m]}
  <2>1. 0 \in S
    BY <1>3
  <2>2. \A n \in 1..N : n - 1 \in S => n \in S
    BY <1>3 DEF Groups!Partners
  <2> HIDE DEF S
  <2>3. \A n \in 0..N : n \in S
    BY <1>1, <2>1, <2>2, UpTo
  <2> QED BY <2>3 DEF S
<1>5. ASSUME NEW bs, b \in bs, Closed(st, bs) PROVE g[N] \subseteq bs
  <2> DEFINE S == {m \in Nat : g[m] \subseteq bs}
  <2>1. 0 \in S
    BY <1>3, <1>5
  <2>2. ASSUME NEW n \in 1..N, n - 1 \in S PROVE n \in S
    <3>1. Groups!Partners(st, g[n - 1]) \subseteq bs
      BY <1>5, <2>2 DEF Groups!Partners, Closed
    <3> QED BY <1>3, <2>2, <3>1
  <2> HIDE DEF S
  <2>3. \A n \in 0..N : n \in S
    BY <1>1, <2>1, <2>2, UpTo
  <2> QED BY <1>1, <2>3 DEF S
<1>6. Closed(st, g[N])
  <2> DEFINE Inside(bs) == {p \in Groups!Settled(st) : p[1] \in bs /\ p[2] \in bs}
             S == {m \in Nat : Closed(st, g[m]) \/ Cardinality(Inside(g[m])) >= m}
  <2>1. \A bs : /\ IsFiniteSet(Inside(bs)) /\ Cardinality(Inside(bs)) \in Nat
                /\ Cardinality(Inside(bs)) <= N
                /\ Cardinality(Inside(bs)) = N => Inside(bs) = Groups!Settled(st)
    <3> SUFFICES ASSUME NEW bs
                 PROVE /\ IsFiniteSet(Inside(bs)) /\ Cardinality(Inside(bs)) \in Nat
                       /\ Cardinality(Inside(bs)) <= N
                       /\ Cardinality(Inside(bs)) = N => Inside(bs) = Groups!Settled(st)
      OBVIOUS
    <3>1. Inside(bs) \in SUBSET Groups!Settled(st)
      OBVIOUS
    <3> HIDE DEF Inside
    <3> QED BY <1>1, <3>1, FS_Subset, FS_CardinalityType DEF N
  <2>2. 0 \in S
    <3> HIDE DEF Inside
    <3>1. Cardinality(Inside(g[0])) >= 0
      BY <2>1
    <3> QED BY <3>1
  <2>3. ASSUME NEW n \in 1..N, n - 1 \in S PROVE n \in S
    <3>1. n \in Nat /\ n - 1 \in Nat /\ n - 1 \in 0..N
      BY <1>1
    <3>2. CASE Closed(st, g[n - 1])
      <4>1. Groups!Partners(st, g[n - 1]) \subseteq g[n - 1]
        BY <3>2 DEF Groups!Partners, Closed
      <4>2. g[n] = g[n - 1]
        BY <1>3, <4>1
      <4> QED BY <3>1, <3>2, <4>2
    <3>3. CASE ~Closed(st, g[n - 1]) /\ Cardinality(Inside(g[n - 1])) >= n - 1
      <4>1. PICK p \in Groups!Settled(st) : ~(p[1] \in g[n - 1] <=> p[2] \in g[n - 1])
        BY <3>3 DEF Closed
      <4>2. p[1] \in Groups!Books /\ p[2] \in Groups!Books
        BY <1>1, PairsAreOfBooks
      <4>3. p[1] \in g[n] /\ p[2] \in g[n] /\ g[n - 1] \subseteq g[n]
        BY <1>3, <4>1, <4>2 DEF Groups!Partners
      <4>4. p \notin Inside(g[n - 1]) /\ Inside(g[n - 1]) \cup {p} \in SUBSET Inside(g[n])
        BY <4>1, <4>3
      <4> HIDE DEF Inside
      <4>5. Cardinality(Inside(g[n - 1]) \cup {p}) = Cardinality(Inside(g[n - 1])) + 1
        BY <2>1, <4>4, FS_AddElement
      <4>6. Cardinality(Inside(g[n - 1]) \cup {p}) <= Cardinality(Inside(g[n]))
        BY <2>1, <4>4, FS_Subset
      <4>7. Cardinality(Inside(g[n])) >= n
        BY <2>1, <3>1, <3>3, <4>5, <4>6
      <4> QED BY <3>1, <4>7
    <3> QED BY <2>3, <3>2, <3>3
  <2> HIDE DEF S
  <2>4. N \in S
    <3>1. \A n \in 0..N : n \in S
      BY <1>1, <2>2, <2>3, UpTo
    <3> QED BY <1>1, <3>1
  <2>5. CASE Cardinality(Inside(g[N])) >= N
    <3>1. Inside(g[N]) = Groups!Settled(st)
      <4> HIDE DEF Inside
      <4> QED BY <1>1, <2>1, <2>5
    <3> QED BY <3>1 DEF Closed
  <2> QED BY <2>4, <2>5 DEF S
<1>7. g[N] \subseteq Groups!Books /\ b \in g[N]
  BY <1>1, <1>4
<1> QED BY <1>2, <1>5, <1>6, <1>7

-----------------------------------------------------------------------------
(* Rows.                                                                   *)

Row == [book : Groups!Books, group : 1..MaxLinks, at : 1..MaxLinks]
OneRowEach(rs) == \A r, s \in rs : r.book = s.book => r = s

\* The pairs that people have made.
Sworn(st) == {p \in Possible : st[p] = "confirmed"}

\* Two books that no pairs made by people join.
Apart(st, x, y) ==
    \E bs \in SUBSET Groups!Books : /\ \A p \in Sworn(st) : p[1] \in bs <=> p[2] \in bs
                             /\ x \in bs /\ y \notin bs

\* Rows in two groups are of books that people have not joined.
Separated == \A r, s \in rows : r.group # s.group => Apart(pairs, r.book, s.book)

\* Whatever is in two groups now, was before.
Coarser(new, old) ==
    \A r, s \in new : \E x, y \in old : /\ x.book = r.book /\ y.book = s.book
                                        /\ r.group # s.group => x.group # y.group

LEMMA RowsByName ==
    Groups!TypeOK <=> /\ pairs \in [Possible -> Groups!Statuses]
               /\ rows \subseteq Row /\ OneRowEach(rows)
               /\ links \in 0..MaxLinks /\ decisions \in 0..MaxChoices
BY DEF Groups!TypeOK, Row, OneRowEach

LEMMA RowsByNameNext ==
    Groups!TypeOK' <=> /\ pairs' \in [Possible -> Groups!Statuses]
                /\ rows' \subseteq Row /\ OneRowEach(rows')
                /\ links' \in 0..MaxLinks /\ decisions' \in 0..MaxChoices
BY DEF Groups!TypeOK, Row, OneRowEach

\* What a move of groups does to the rows.
LEMMA MovedRows ==
    ASSUME NEW rs, rs \subseteq Row, NEW from, NEW to \in 1..MaxLinks
    PROVE  /\ Groups!Moved(rs, from, to) \subseteq Row
           /\ OneRowEach(rs) => OneRowEach(Groups!Moved(rs, from, to))
           /\ \A r \in Groups!Moved(rs, from, to) : \E x \in rs :
                 /\ x.book = r.book /\ x.at = r.at
                 /\ r.group = IF x.group \in from THEN to ELSE x.group
           /\ Coarser(Groups!Moved(rs, from, to), rs)
<1> DEFINE new(x) == IF x.group \in from THEN to ELSE x.group
<1>1. \A r \in Groups!Moved(rs, from, to) : \E x \in rs : r = [x EXCEPT !.group = new(x)]
  BY DEF Groups!Moved
<1>2. \A x \in rs : /\ [x EXCEPT !.group = new(x)] \in Row
                    /\ [x EXCEPT !.group = new(x)].book = x.book
                    /\ [x EXCEPT !.group = new(x)].at = x.at
                    /\ [x EXCEPT !.group = new(x)].group = new(x)
  BY DEF Row
<1>3. \A r \in Groups!Moved(rs, from, to) : \E x \in rs :
         r = [x EXCEPT !.group = new(x)] /\ x.book = r.book /\ x.at = r.at /\ r.group = new(x)
  <2> HIDE DEF new
  <2> QED BY <1>1, <1>2
<1>4. Groups!Moved(rs, from, to) \subseteq Row
  <2> HIDE DEF new
  <2> QED BY <1>1, <1>2
<1>5. OneRowEach(rs) => OneRowEach(Groups!Moved(rs, from, to))
  BY <1>3 DEF OneRowEach
<1>6. Coarser(Groups!Moved(rs, from, to), rs)
  <2> SUFFICES ASSUME NEW r \in Groups!Moved(rs, from, to), NEW s \in Groups!Moved(rs, from, to)
               PROVE  \E x, y \in rs : /\ x.book = r.book /\ y.book = s.book
                                       /\ r.group # s.group => x.group # y.group
    BY DEF Coarser
  <2>1. PICK x \in rs : x.book = r.book /\ r.group = new(x)
    BY <1>3
  <2>2. PICK y \in rs : y.book = s.book /\ s.group = new(y)
    BY <1>3
  <2> QED BY <2>1, <2>2
<1> QED BY <1>3, <1>4, <1>5, <1>6

\* A title merged into a group is in that group.
LEMMA MergedRows ==
    ASSUME NEW rs, rs \subseteq Row, NEW bs, NEW g \in 1..MaxLinks
    PROVE  /\ Groups!Merged(rs, bs, g) \subseteq Row
           /\ OneRowEach(rs) => OneRowEach(Groups!Merged(rs, bs, g))
           /\ Coarser(Groups!Merged(rs, bs, g), rs)
           /\ \A r \in Groups!Merged(rs, bs, g) : r.book \in bs => r.group = g
<1> DEFINE from == {r.group : r \in {s \in rs : s.book \in bs}}
<1>1. Groups!Merged(rs, bs, g) = Groups!Moved(rs, from, g)
  BY DEF Groups!Merged
<1>2. \A x \in rs : x.book \in bs => x.group \in from
  OBVIOUS
<1> HIDE DEF from
<1>3. \A r \in Groups!Moved(rs, from, g) : \E x \in rs :
         x.book = r.book /\ r.group = IF x.group \in from THEN g ELSE x.group
  BY MovedRows
<1>4. ASSUME NEW r \in Groups!Merged(rs, bs, g), r.book \in bs PROVE r.group = g
  BY <1>1, <1>2, <1>3, <1>4
<1> QED BY <1>1, <1>4, MovedRows

LEMMA CoarserIsTransitive ==
    ASSUME NEW a, NEW b, NEW c, Coarser(a, b), Coarser(b, c)
    PROVE  Coarser(a, c)
<1> SUFFICES ASSUME NEW r \in a, NEW s \in a
             PROVE  \E x, y \in c : /\ x.book = r.book /\ y.book = s.book
                                    /\ r.group # s.group => x.group # y.group
  BY DEF Coarser
<1>1. PICK u, v \in b : /\ u.book = r.book /\ v.book = s.book
                        /\ r.group # s.group => u.group # v.group
  BY DEF Coarser
<1>2. PICK x, y \in c : /\ x.book = u.book /\ y.book = v.book
                        /\ u.group # v.group => x.group # y.group
  BY DEF Coarser
<1> QED BY <1>1, <1>2

\* The row linked first is one of them.
LEMMA FirstRowIsOne ==
    ASSUME NEW rs, rs \subseteq Row, rs # {}
    PROVE  Groups!FirstRow(rs) \in rs
<1> DEFINE ats == {r.at : r \in rs}
<1>1. ats # {} /\ ats \subseteq Nat
  BY GroupAssumption DEF Row, GroupParameters
<1> HIDE DEF ats
<1>2. PICK t \in ats : \A q \in ats : t <= q
  BY <1>1, LeastOf
<1> DEFINE first == {r \in rs : r.at = t}
           bs == {r.book : r \in first}
<1>3. bs # {} /\ bs \subseteq Nat
  BY GroupAssumption DEF ats, Row, GroupParameters
<1> HIDE DEF bs
<1>4. PICK b \in bs : \A q \in bs : b <= q
  BY <1>3, LeastOf
<1>5. PICK r \in rs : r.at = t /\ r.book = b
  BY <1>4 DEF bs
<1>6. ASSUME NEW s \in rs PROVE r.at < s.at \/ (r.at = s.at /\ r.book <= s.book)
  <2>1. r.at \in Nat /\ s.at \in Nat /\ s.at \in ats
    BY GroupAssumption DEF ats, Row, GroupParameters
  <2>2. s.at = t => s.book \in bs
    BY DEF bs
  <2> QED BY <1>2, <1>4, <1>5, <2>1, <2>2
<1>7. \E x \in rs : \A s \in rs : x.at < s.at \/ (x.at = s.at /\ x.book <= s.book)
  BY <1>6
<1> QED BY <1>7 DEF Groups!FirstRow

LEMMA GroupIsOne ==
    ASSUME Groups!TypeOK, NEW b, Groups!InGroup(b)
    PROVE  Groups!GroupOf(b) \in 1..MaxLinks
<1>1. Groups!RowsOf(Groups!Title(b)) \subseteq Row /\ Groups!RowsOf(Groups!Title(b)) # {}
  BY RowsByName DEF Groups!RowsOf, Groups!InGroup
<1>2. Groups!FirstRow(Groups!RowsOf(Groups!Title(b))) \in Row
  BY <1>1, FirstRowIsOne
<1> QED BY <1>2 DEF Groups!GroupOf, Row

LEMMA GroupsAreFinite ==
    ASSUME Groups!TypeOK, NEW bs
    PROVE  /\ IsFiniteSet(Groups!Groups(bs)) /\ Cardinality(Groups!Groups(bs)) \in Nat
           /\ Cardinality(Groups!Groups(bs)) < 2 =>
                 \A r, s \in rows : r.book \in bs /\ s.book \in bs => r.group = s.group
           /\ (\A r, s \in rows : r.book \in bs /\ s.book \in bs => r.group = s.group) =>
                 Cardinality(Groups!Groups(bs)) < 2
<1>1. \A r \in rows : r.group \in 1..MaxLinks
  BY RowsByName DEF Row
<1>2. Groups!Groups(bs) \in SUBSET (1..MaxLinks)
  BY <1>1 DEF Groups!Groups, Groups!RowsOf
<1>3. IsFiniteSet(1..MaxLinks)
  BY GroupAssumption, FS_Interval DEF GroupParameters
<1>4. IsFiniteSet(Groups!Groups(bs)) /\ Cardinality(Groups!Groups(bs)) \in Nat
  BY <1>2, <1>3, FS_Subset, FS_CardinalityType
<1>5. ASSUME Cardinality(Groups!Groups(bs)) < 2, NEW r \in rows, NEW s \in rows,
             r.book \in bs, s.book \in bs
      PROVE  r.group = s.group
  <2>1. r.group \in Groups!Groups(bs) /\ s.group \in Groups!Groups(bs)
    BY <1>5 DEF Groups!Groups, Groups!RowsOf
  <2>2. Cardinality(Groups!Groups(bs)) # 0
    BY <1>4, <2>1, FS_EmptySet
  <2>3. Cardinality(Groups!Groups(bs)) = 1
    BY <1>4, <1>5, <2>2
  <2> QED BY <1>4, <2>1, <2>3, FS_Singleton
<1>6. ASSUME \A r, s \in rows : r.book \in bs /\ s.book \in bs => r.group = s.group
      PROVE  Cardinality(Groups!Groups(bs)) < 2
  <2>1. CASE Groups!Groups(bs) = {}
    BY <2>1, FS_EmptySet
  <2>2. CASE Groups!Groups(bs) # {}
    <3>1. PICK g : g \in Groups!Groups(bs)
      BY <2>2
    <3>2. Groups!Groups(bs) = {g}
      BY <1>6, <3>1 DEF Groups!Groups, Groups!RowsOf
    <3> QED BY <3>2, FS_Singleton
  <2> QED BY <2>1, <2>2
<1> QED BY <1>4, <1>5, <1>6

-----------------------------------------------------------------------------
(* What is kept.                                                           *)

LEMMA ApartIsSymmetric ==
    ASSUME NEW st, NEW x \in Groups!Books, NEW y \in Groups!Books, Apart(st, x, y)
    PROVE  Apart(st, y, x)
<1>1. PICK bs \in SUBSET Groups!Books : /\ \A p \in Sworn(st) : p[1] \in bs <=> p[2] \in bs
                                 /\ x \in bs /\ y \notin bs
  BY DEF Apart
<1>2. \A p \in Sworn(st) : p[1] \in Groups!Books \ bs <=> p[2] \in Groups!Books \ bs
  BY <1>1, PairsAreOfBooks DEF Sworn
<1> QED BY <1>1, <1>2 DEF Apart

\* With no more pairs of people, and rows that are in two groups only where they were.
LEMMA FewerJoins ==
    ASSUME Separated, Sworn(pairs') \subseteq Sworn(pairs), Coarser(rows', rows)
    PROVE  Separated'
<1> SUFFICES ASSUME NEW r \in rows', NEW s \in rows', r.group # s.group
             PROVE  Apart(pairs', r.book, s.book)
  BY DEF Separated
<1>1. PICK x, y \in rows : /\ x.book = r.book /\ y.book = s.book
                           /\ r.group # s.group => x.group # y.group
  BY DEF Coarser
<1>2. Apart(pairs, r.book, s.book)
  BY <1>1 DEF Separated
<1> QED BY <1>2 DEF Apart

LEMMA SettledIsClosed ==
    ASSUME NEW st, NEW b \in Groups!Books
    PROVE  \A p \in Sworn(st) : p[1] \in Groups!TitleIn(st, b) <=> p[2] \in Groups!TitleIn(st, b)
BY TitleIsClosure DEF Closed, Groups!Settled, Sworn

Grouped == Groups!TypeOK /\ Separated

LEMMA LinkKeeps == \A a, b \in Groups!Books : Grouped /\ Groups!LinkTranslations(a, b) => Grouped'
<1> SUFFICES ASSUME NEW a \in Groups!Books, NEW b \in Groups!Books, Grouped, Groups!LinkTranslations(a, b)
             PROVE  Grouped'
  OBVIOUS
<1> DEFINE new == links + 1
           group == IF Groups!InGroup(a) THEN Groups!GroupOf(a)
                    ELSE IF Groups!InGroup(b) THEN Groups!GroupOf(b) ELSE new
           met == IF Groups!InGroup(a) /\ Groups!InGroup(b) THEN Groups!Moved(rows, {Groups!GroupOf(b)}, group) ELSE rows
           added == {[book |-> x, group |-> group, at |-> new] : x \in {y \in {a, b} : ~Groups!InGroup(y)}}
<1>1. /\ links < MaxLinks
      /\ rows' = Groups!Merged(Groups!Merged(met \cup added, Groups!Title(a), group), Groups!Title(b), group)
      /\ links' = new /\ UNCHANGED <<pairs, decisions>>
  BY DEF Groups!LinkTranslations
<1>2. rows \subseteq Row /\ OneRowEach(rows) /\ links \in 0..MaxLinks /\ MaxLinks \in Nat
  BY RowsByName, GroupAssumption DEF Grouped, GroupParameters
<1>3. new \in 1..MaxLinks
  BY <1>1, <1>2
<1>4. group \in 1..MaxLinks
  BY <1>3, GroupIsOne DEF Grouped
<1> HIDE DEF new, group
<1>5. /\ met \subseteq Row /\ OneRowEach(met) /\ Coarser(met, rows)
  <2>1. Coarser(rows, rows)
    BY DEF Coarser
  <2> QED BY <1>2, <1>4, <2>1, MovedRows
<1>6. \A r \in met : \E x \in rows : x.book = r.book
  BY <1>5 DEF Coarser
<1> HIDE DEF met
<1>7. \A r \in added : /\ r \in Row /\ r.group = group /\ r.at = new
                       /\ ~Groups!InGroup(r.book) /\ r.book \in {a, b}
  BY <1>3, <1>4 DEF Row
<1>8. \A r \in added : \A x \in rows : x.book \notin Groups!Title(r.book)
  BY <1>7 DEF Groups!InGroup, Groups!RowsOf
<1>9. \A r \in added : r.book \in Groups!Title(r.book)
  BY <1>7, TitleIsClosure DEF Groups!Title
<1>10. \A r \in added, s \in added : r.book = s.book => r = s
  OBVIOUS
<1> HIDE DEF added
<1>11. met \cup added \subseteq Row /\ OneRowEach(met \cup added)
  <2>1. \A r \in added, s \in met : r.book # s.book
    BY <1>6, <1>8, <1>9
  <2> QED BY <1>5, <1>7, <1>10, <2>1 DEF OneRowEach
<1> DEFINE first == Groups!Merged(met \cup added, Groups!Title(a), group)
<1>12. first \subseteq Row /\ OneRowEach(first) /\ Coarser(first, met \cup added)
  BY <1>4, <1>11, MergedRows
<1> HIDE DEF first
<1>13. rows' \subseteq Row /\ OneRowEach(rows') /\ Coarser(rows', first)
  BY <1>1, <1>4, <1>12, MergedRows DEF first
<1>14. Coarser(rows', met \cup added)
  BY <1>12, <1>13, CoarserIsTransitive
<1>15. Groups!TypeOK'
  BY <1>1, <1>3, <1>13, RowsByName, RowsByNameNext DEF Grouped
<1>16. ASSUME NEW r \in added, NEW s \in rows PROVE Apart(pairs, r.book, s.book)
  <2>1. Groups!Title(r.book) \in SUBSET Groups!Books /\ r.book \in Groups!Title(r.book) /\ r.book \in Groups!Books
    BY <1>7, TitleIsClosure DEF Groups!Title
  <2>2. \A p \in Sworn(pairs) : p[1] \in Groups!Title(r.book) <=> p[2] \in Groups!Title(r.book)
    BY <2>1, SettledIsClosed DEF Groups!Title
  <2> QED BY <1>8, <2>1, <2>2 DEF Apart
<1>17. ASSUME NEW r \in met \cup added, NEW s \in met \cup added, r.group # s.group
       PROVE  Apart(pairs, r.book, s.book)
  <2>1. CASE r \in met /\ s \in met
    <3>1. PICK x, y \in rows : /\ x.book = r.book /\ y.book = s.book
                               /\ r.group # s.group => x.group # y.group
      BY <1>5, <2>1 DEF Coarser
    <3> QED BY <1>17, <3>1 DEF Grouped, Separated
  <2>2. CASE r \in added /\ s \in met
    BY <1>6, <1>16, <2>2
  <2>3. CASE r \in met /\ s \in added
    <3>1. Apart(pairs, s.book, r.book)
      BY <1>6, <1>16, <2>3
    <3>2. r.book \in Groups!Books /\ s.book \in Groups!Books
      BY <1>11 DEF Row
    <3> QED BY <3>1, <3>2, ApartIsSymmetric
  <2>4. CASE r \in added /\ s \in added
    BY <1>7, <1>17, <2>4
  <2> QED BY <2>1, <2>2, <2>3, <2>4
<1>18. Separated'
  <2> SUFFICES ASSUME NEW r \in rows', NEW s \in rows', r.group # s.group
               PROVE  Apart(pairs', r.book, s.book)
    BY DEF Separated
  <2>1. PICK x, y \in met \cup added : /\ x.book = r.book /\ y.book = s.book
                                       /\ r.group # s.group => x.group # y.group
    BY <1>14 DEF Coarser
  <2> QED BY <1>1, <1>17, <2>1
<1> QED BY <1>15, <1>18 DEF Grouped

LEMMA UnlinkKeeps == \A a, b \in Groups!Books : Grouped /\ Groups!UnlinkTranslation(a, b) => Grouped'
<1> SUFFICES ASSUME NEW a \in Groups!Books, NEW b \in Groups!Books, Grouped, Groups!UnlinkTranslation(a, b)
             PROVE  Grouped'
  OBVIOUS
<1>1. rows' \subseteq rows /\ UNCHANGED <<pairs, links>>
  BY DEF Groups!UnlinkTranslation
<1>2. decisions' \in 0..MaxChoices
  BY RowsByName, GroupAssumption DEF Grouped, GroupParameters, Groups!UnlinkTranslation
<1>3. Groups!TypeOK'
  BY <1>1, <1>2, RowsByName, RowsByNameNext DEF Grouped, OneRowEach
<1>4. Separated'
  BY <1>1 DEF Grouped, Separated
<1> QED BY <1>3, <1>4 DEF Grouped

\* After a person's decision, the title of the pair that is confirmed is in one group.
LEMMA DecidedKeeps ==
    ASSUME Grouped, NEW changed \in [Possible -> Groups!Statuses], NEW joined,
           Groups!Decided(changed, joined),
           \/ joined = {} /\ Sworn(changed) \subseteq Sworn(pairs)
           \/ \E p \in Possible : /\ joined = {p[1]} /\ p \in Groups!Settled(changed)
                                  /\ Sworn(changed) \subseteq Sworn(pairs) \cup {p}
    PROVE  Grouped'
<1>1. pairs' = changed /\ links' = links /\ decisions' \in 0..MaxChoices
  BY RowsByName, GroupAssumption DEF Grouped, GroupParameters, Groups!Decided
<1>2. rows \subseteq Row /\ OneRowEach(rows) /\ links \in 0..MaxLinks
  BY RowsByName DEF Grouped
<1>3. CASE joined = {} /\ Sworn(changed) \subseteq Sworn(pairs)
  <2>1. rows' = rows
    BY <1>3 DEF Groups!Decided
  <2>2. Groups!TypeOK'
    BY <1>1, <1>2, <2>1, RowsByNameNext
  <2>3. Separated'
    BY <1>1, <1>3, <2>1, FewerJoins DEF Grouped, Coarser
  <2> QED BY <2>2, <2>3 DEF Grouped
<1>4. ASSUME NEW p \in Possible, joined = {p[1]}, p \in Groups!Settled(changed),
             Sworn(changed) \subseteq Sworn(pairs) \cup {p}
      PROVE  Grouped'
  <2> DEFINE bs == Groups!TitleIn(changed, p[1])
  <2>1. p[1] \in Groups!Books
    BY PairsAreOfBooks
  <2>2. /\ bs \subseteq Groups!Books /\ p[1] \in bs /\ Closed(changed, bs)
        /\ \A q \in Sworn(changed) : q[1] \in bs <=> q[2] \in bs
    BY <2>1, TitleIsClosure, SettledIsClosed
  <2>3. p[2] \in bs
    BY <1>4, <2>2 DEF Closed
  <2>4. rows' = IF Cardinality(Groups!Groups(bs)) < 2 THEN rows
                ELSE Groups!Merged(rows, bs, Groups!FirstRow(Groups!RowsOf(bs)).group)
    <3>1. joined # {} /\ (CHOOSE b \in joined : TRUE) = p[1]
      BY <1>4
    <3>2. rows' = Groups!Healed(changed, CHOOSE b \in joined : TRUE)
      BY <3>1 DEF Groups!Decided
    <3> QED BY <3>1, <3>2, SameCardinality DEF Groups!Healed
  <2> HIDE DEF bs
  <2>5. /\ rows' \subseteq Row /\ OneRowEach(rows') /\ Coarser(rows', rows)
        /\ \A r, s \in rows' : r.book \in bs /\ s.book \in bs => r.group = s.group
    <3>1. CASE Cardinality(Groups!Groups(bs)) < 2
      <4>1. rows' = rows
        BY <2>4, <3>1
      <4>2. Coarser(rows, rows)
        BY DEF Coarser
      <4> QED BY <1>2, <3>1, <4>1, <4>2, GroupsAreFinite DEF Grouped
    <3>2. CASE ~(Cardinality(Groups!Groups(bs)) < 2)
      <4>1. Groups!RowsOf(bs) # {}
        <5>1. Groups!RowsOf(bs) = {} => Groups!Groups(bs) = {}
          BY DEF Groups!Groups
        <5> QED BY <3>2, <5>1, FS_EmptySet
      <4>2. Groups!FirstRow(Groups!RowsOf(bs)) \in Row
        BY <1>2, <4>1, FirstRowIsOne DEF Groups!RowsOf
      <4>3. Groups!FirstRow(Groups!RowsOf(bs)).group \in 1..MaxLinks
        BY <4>2 DEF Row
      <4> QED BY <1>2, <2>4, <3>2, <4>3, MergedRows
    <3> QED BY <3>1, <3>2
  <2>6. Groups!TypeOK'
    BY <1>1, <1>2, <2>5, RowsByNameNext
  <2>7. ASSUME NEW r \in rows', NEW s \in rows', r.group # s.group
        PROVE  Apart(changed, r.book, s.book)
    <3>1. r.book \in Groups!Books /\ s.book \in Groups!Books
      BY <2>5 DEF Row
    <3>2. PICK x, y \in rows : /\ x.book = r.book /\ y.book = s.book
                               /\ r.group # s.group => x.group # y.group
      BY <2>5 DEF Coarser
    <3>3. Apart(pairs, r.book, s.book)
      BY <2>7, <3>2 DEF Grouped, Separated
    <3>4. CASE r.book \in bs
      BY <2>2, <2>5, <2>7, <3>4 DEF Apart
    <3>5. CASE s.book \in bs
      <4>1. Apart(changed, s.book, r.book)
        BY <2>2, <2>5, <2>7, <3>5 DEF Apart
      <4> QED BY <3>1, <4>1, ApartIsSymmetric
    <3>6. CASE r.book \notin bs /\ s.book \notin bs
      <4>1. PICK old \in SUBSET Groups!Books : /\ \A q \in Sworn(pairs) : q[1] \in old <=> q[2] \in old
                                        /\ r.book \in old /\ s.book \notin old
        BY <3>3 DEF Apart
      <4>2. ASSUME NEW q \in Sworn(changed) PROVE q[1] \in old \ bs <=> q[2] \in old \ bs
        <5>1. q[1] \in bs <=> q[2] \in bs
          BY <2>2
        <5>2. q = p \/ q \in Sworn(pairs)
          BY <1>4
        <5> QED BY <2>2, <2>3, <4>1, <5>1, <5>2
      <4>3. old \ bs \in SUBSET Groups!Books /\ r.book \in old \ bs /\ s.book \notin old \ bs
        BY <3>6, <4>1
      <4> QED BY <4>2, <4>3 DEF Apart
    <3> QED BY <3>4, <3>5, <3>6
  <2>8. Separated'
    BY <1>1, <2>7 DEF Separated
  <2> QED BY <2>6, <2>8 DEF Grouped
<1> QED BY <1>3, <1>4

LEMMA PairsKeep ==
    \A p \in Possible :
        Grouped /\ (\/ Groups!ConfirmPair(p) \/ Groups!RejectPair(p) \/ Groups!Suggest(p) \/ Groups!Retire(p) \/ Groups!AutoPair(p)
                    \/ \E replace \in BOOLEAN : Groups!LinkPair(p, replace))
            => Grouped'
<1> SUFFICES ASSUME NEW p \in Possible, Grouped,
                    \/ Groups!ConfirmPair(p) \/ Groups!RejectPair(p) \/ Groups!Suggest(p) \/ Groups!Retire(p) \/ Groups!AutoPair(p)
                    \/ \E replace \in BOOLEAN : Groups!LinkPair(p, replace)
             PROVE  Grouped'
  OBVIOUS
<1>1. pairs \in [Possible -> Groups!Statuses]
  BY RowsByName DEF Grouped
<1>2. CASE Groups!ConfirmPair(p)
  <2> DEFINE changed == [pairs EXCEPT ![p] = "confirmed"]
  <2>1. changed \in [Possible -> Groups!Statuses] /\ p \in Groups!Settled(changed)
        /\ Sworn(changed) \subseteq Sworn(pairs) \cup {p}
    BY <1>1 DEF Groups!Settled, Sworn, Groups!Statuses
  <2>2. Groups!Decided(changed, {p[1]})
    BY <1>2 DEF Groups!ConfirmPair
  <2> HIDE DEF changed
  <2> QED BY <2>1, <2>2, DecidedKeeps
<1>3. CASE Groups!RejectPair(p)
  <2> DEFINE changed == [pairs EXCEPT ![p] = "rejected"]
  <2>1. changed \in [Possible -> Groups!Statuses] /\ Sworn(changed) \subseteq Sworn(pairs)
    BY <1>1 DEF Sworn, Groups!Statuses
  <2>2. Groups!Decided(changed, {})
    BY <1>3 DEF Groups!RejectPair
  <2> HIDE DEF changed
  <2> QED BY <2>1, <2>2, DecidedKeeps
<1>4. CASE Groups!Suggest(p) \/ Groups!Retire(p) \/ Groups!AutoPair(p)
  <2>1. /\ pairs' \in [Possible -> Groups!Statuses] /\ UNCHANGED <<rows, links, decisions>>
        /\ Sworn(pairs') \subseteq Sworn(pairs)
    BY <1>1, <1>4 DEF Groups!Suggest, Groups!Retire, Groups!AutoPair, Sworn, Groups!Statuses
  <2>2. Groups!TypeOK'
    BY <2>1, RowsByName, RowsByNameNext DEF Grouped
  <2>3. Separated'
    BY <2>1, FewerJoins DEF Grouped, Coarser
  <2> QED BY <2>2, <2>3 DEF Grouped
<1>5. ASSUME NEW replace \in BOOLEAN, Groups!LinkPair(p, replace) PROVE Grouped'
  <2> DEFINE released == {q \in Possible \ {p} : replace /\ Groups!Open(q) /\ (q[1] = p[1] \/ q[2] = p[2])}
             changed == [q \in Possible |-> IF q = p THEN "confirmed"
                                            ELSE IF q \in released THEN "rejected" ELSE pairs[q]]
  <2>1. Groups!Decided(changed, {p[1]})
    BY <1>5 DEF Groups!LinkPair
  <2> HIDE DEF released
  <2>2. changed \in [Possible -> Groups!Statuses] /\ p \in Groups!Settled(changed)
        /\ Sworn(changed) \subseteq Sworn(pairs) \cup {p}
    BY <1>1 DEF Groups!Settled, Sworn, Groups!Statuses
  <2> HIDE DEF changed
  <2> QED BY <2>1, <2>2, DecidedKeeps
<1> QED BY <1>2, <1>3, <1>4, <1>5

LEMMA GroupedHolds == Groups!Spec => []Grouped
<1>1. Groups!Init => Grouped
  <2> SUFFICES ASSUME Groups!Init PROVE Grouped OBVIOUS
  <2>1. Groups!TypeOK
    BY GroupAssumption, RowsByName DEF Groups!Init, Groups!Statuses, OneRowEach, GroupParameters
  <2> QED BY <2>1 DEF Groups!Init, Separated, Grouped
<1>2. Grouped /\ [Groups!Next]_(Groups!vars) => Grouped'
  <2> SUFFICES ASSUME Grouped, [Groups!Next]_(Groups!vars) PROVE Grouped' OBVIOUS
  <2>1. CASE UNCHANGED Groups!vars
    BY <2>1 DEF Groups!vars, Grouped, Groups!TypeOK, Separated
  <2>2. CASE Groups!Next
    BY <2>2, LinkKeeps, UnlinkKeeps, PairsKeep DEF Groups!Next
  <2> QED BY <2>1, <2>2
<1> QED BY <1>1, <1>2, PTL DEF Groups!Spec

-----------------------------------------------------------------------------
(* One work.                                                               *)

\* Titles are the same or have no book in common.
LEMMA TitlesAreApart ==
    ASSUME NEW st, NEW a \in Groups!Books, NEW b \in Groups!TitleIn(st, a)
    PROVE  Groups!TitleIn(st, b) = Groups!TitleIn(st, a)
<1>1. b \in Groups!Books /\ Groups!TitleIn(st, a) \subseteq Groups!Books /\ Groups!TitleIn(st, b) \subseteq Groups!Books
  BY TitleIsClosure
<1>2. Groups!TitleIn(st, b) \subseteq Groups!TitleIn(st, a)
  BY <1>1, TitleIsClosure
<1>3. a \in Groups!TitleIn(st, b)
  <2> SUFFICES ASSUME a \notin Groups!TitleIn(st, b) PROVE FALSE
    OBVIOUS
  <2>1. Closed(st, Groups!TitleIn(st, a) \ Groups!TitleIn(st, b))
    <3>1. Closed(st, Groups!TitleIn(st, a)) /\ Closed(st, Groups!TitleIn(st, b))
      BY <1>1, TitleIsClosure
    <3> QED BY <3>1 DEF Closed
  <2>2. a \in Groups!TitleIn(st, a) \ Groups!TitleIn(st, b) /\ b \in Groups!TitleIn(st, b)
    BY <1>1, TitleIsClosure
  <2> QED BY <2>1, <2>2, TitleIsClosure
<1>4. Groups!TitleIn(st, a) \subseteq Groups!TitleIn(st, b)
  BY <1>1, <1>3, TitleIsClosure
<1> QED BY <1>2, <1>4

\* More settled pairs make larger titles.
LEMMA TitlesGrow ==
    ASSUME NEW st, NEW more, Groups!Settled(st) \subseteq Groups!Settled(more), NEW b \in Groups!Books
    PROVE  Groups!TitleIn(st, b) \subseteq Groups!TitleIn(more, b)
<1>1. Closed(more, Groups!TitleIn(more, b)) /\ b \in Groups!TitleIn(more, b)
  BY TitleIsClosure
<1>2. Closed(st, Groups!TitleIn(more, b))
  BY <1>1 DEF Closed
<1> QED BY <1>1, <1>2, TitleIsClosure

\* The definitions of the model, of any pairs and rows.
RowsIn(rs, bs) == {r \in rs : r.book \in bs}
WorkIn(st, rs, a, b) ==
    \/ Groups!TitleIn(st, a) = Groups!TitleIn(st, b)
    \/ /\ RowsIn(rs, Groups!TitleIn(st, a)) # {}
       /\ b \in UNION {t \in {Groups!TitleIn(st, r.book) :
                                r \in {s \in rs : s.group = Groups!FirstRow(RowsIn(rs, Groups!TitleIn(st, a))).group}} :
                         t \cap Groups!TitleIn(st, a) = {}}
WholeIn(st, rs) ==
    \A b \in Groups!Books : Cardinality({r.group : r \in RowsIn(rs, Groups!TitleIn(st, b))}) <= 1

\* Two titles meet in a group.
Meet(st, rs, a, b) ==
    \E r, s \in rs : /\ r.book \in Groups!TitleIn(st, a) /\ s.book \in Groups!TitleIn(st, b)
                     /\ r.group = s.group

LEMMA WholeTitles ==
    ASSUME NEW st, NEW rs, rs \subseteq Row, WholeIn(st, rs), NEW b \in Groups!Books,
           NEW r \in RowsIn(rs, Groups!TitleIn(st, b)), NEW s \in RowsIn(rs, Groups!TitleIn(st, b))
    PROVE  r.group = s.group
<1> DEFINE gs == {x.group : x \in RowsIn(rs, Groups!TitleIn(st, b))}
<1>1. r.group \in gs /\ s.group \in gs
  OBVIOUS
<1>2. gs \in SUBSET (1..MaxLinks)
  BY DEF RowsIn, Row
<1>3. IsFiniteSet(1..MaxLinks)
  BY GroupAssumption, FS_Interval DEF GroupParameters
<1>4. Cardinality(gs) <= 1
  BY DEF WholeIn
<1> HIDE DEF gs
<1>5. IsFiniteSet(gs) /\ Cardinality(gs) \in Nat
  BY <1>2, <1>3, FS_Subset, FS_CardinalityType
<1>6. Cardinality(gs) = 1
  BY <1>1, <1>4, <1>5, FS_EmptySet
<1> QED BY <1>1, <1>5, <1>6, FS_Singleton

\* Where titles are whole, books of two titles are one work when these meet in a group.
LEMMA WorksMeet ==
    ASSUME NEW st, NEW rs, rs \subseteq Row, WholeIn(st, rs), NEW a \in Groups!Books, NEW b \in Groups!Books
    PROVE  WorkIn(st, rs, a, b) <=> Groups!TitleIn(st, a) = Groups!TitleIn(st, b) \/ Meet(st, rs, a, b)
<1>0. a \in Groups!TitleIn(st, a) /\ b \in Groups!TitleIn(st, b)
  BY TitleIsClosure
<1> DEFINE mine == RowsIn(rs, Groups!TitleIn(st, a))
           first == Groups!FirstRow(mine)
<1>1. mine # {} => first \in mine
  <2>1. mine \subseteq Row
    BY DEF RowsIn
  <2> HIDE DEF mine
  <2> QED BY <2>1, FirstRowIsOne
<1>2. ASSUME WorkIn(st, rs, a, b), Groups!TitleIn(st, a) # Groups!TitleIn(st, b)
      PROVE  Meet(st, rs, a, b)
  <2>1. mine # {}
    BY <1>2 DEF WorkIn
  <2>2. PICK r \in rs : r.group = first.group /\ b \in Groups!TitleIn(st, r.book)
    BY <1>2 DEF WorkIn
  <2>3. r.book \in Groups!Books
    BY DEF Row
  <2>4. r.book \in Groups!TitleIn(st, b)
    BY <2>2, <2>3, TitlesAreApart, TitleIsClosure
  <2> QED BY <1>1, <2>1, <2>2, <2>4 DEF Meet, RowsIn
<1>3. ASSUME Meet(st, rs, a, b), Groups!TitleIn(st, a) # Groups!TitleIn(st, b)
      PROVE  WorkIn(st, rs, a, b)
  <2>1. PICK r, s \in rs : /\ r.book \in Groups!TitleIn(st, a) /\ s.book \in Groups!TitleIn(st, b)
                           /\ r.group = s.group
    BY <1>3 DEF Meet
  <2>2. r \in mine
    BY <2>1 DEF RowsIn
  <2>3. first.group = r.group
    BY <1>1, <2>2, WholeTitles
  <2>4. Groups!TitleIn(st, s.book) = Groups!TitleIn(st, b)
    BY <2>1, TitlesAreApart
  <2>5. Groups!TitleIn(st, b) \cap Groups!TitleIn(st, a) = {}
    BY <1>3, TitlesAreApart
  <2> QED BY <1>0, <2>1, <2>2, <2>3, <2>4, <2>5 DEF WorkIn
<1>4. Groups!TitleIn(st, a) = Groups!TitleIn(st, b) => WorkIn(st, rs, a, b)
  BY DEF WorkIn
<1> QED BY <1>2, <1>3, <1>4

\* Rows that were in one group are still there, in one group.
Finer(old, new) ==
    \A r, s \in old : \E x, y \in new : /\ x.book = r.book /\ y.book = s.book
                                        /\ r.group = s.group => x.group = y.group

LEMMA FinerIsTransitive ==
    ASSUME NEW a, NEW b, NEW c, Finer(a, b), Finer(b, c)
    PROVE  Finer(a, c)
<1> SUFFICES ASSUME NEW r \in a, NEW s \in a
             PROVE  \E x, y \in c : /\ x.book = r.book /\ y.book = s.book
                                    /\ r.group = s.group => x.group = y.group
  BY DEF Finer
<1>1. PICK u, v \in b : /\ u.book = r.book /\ v.book = s.book
                        /\ r.group = s.group => u.group = v.group
  BY DEF Finer
<1>2. PICK x, y \in c : /\ x.book = u.book /\ y.book = v.book
                        /\ u.group = v.group => x.group = y.group
  BY DEF Finer
<1> QED BY <1>1, <1>2

LEMMA MovesKeepTogether ==
    ASSUME NEW rs, rs \subseteq Row, NEW from, NEW to
    PROVE  Finer(rs, Groups!Moved(rs, from, to))
<1> DEFINE new(x) == IF x.group \in from THEN to ELSE x.group
           row(x) == [x EXCEPT !.group = new(x)]
<1>1. \A x \in rs : row(x) \in Groups!Moved(rs, from, to)
  BY DEF Groups!Moved
<1>2. \A x \in rs : row(x).book = x.book /\ row(x).group = new(x)
  BY DEF Row
<1> HIDE DEF row
<1> QED BY <1>1, <1>2 DEF Finer

\* With the pairs settled that were and the rows together that were, a work stays one.
LEMMA TogetherStays ==
    ASSUME NEW st, NEW more, Groups!Settled(st) \subseteq Groups!Settled(more),
           NEW old, old \subseteq Row, WholeIn(st, old),
           NEW new, new \subseteq Row, WholeIn(more, new), Finer(old, new),
           NEW a \in Groups!Books, NEW b \in Groups!Books, WorkIn(st, old, a, b)
    PROVE  WorkIn(more, new, a, b)
<1>1. Groups!TitleIn(st, a) \subseteq Groups!TitleIn(more, a) /\ Groups!TitleIn(st, b) \subseteq Groups!TitleIn(more, b)
  BY TitlesGrow
<1>2. CASE Groups!TitleIn(st, a) = Groups!TitleIn(st, b)
  <2>1. b \in Groups!TitleIn(more, a)
    BY <1>1, <1>2, TitleIsClosure
  <2>2. Groups!TitleIn(more, b) = Groups!TitleIn(more, a)
    BY <2>1, TitlesAreApart
  <2> QED BY <2>2 DEF WorkIn
<1>3. CASE Meet(st, old, a, b)
  <2>1. PICK r, s \in old : /\ r.book \in Groups!TitleIn(st, a) /\ s.book \in Groups!TitleIn(st, b)
                            /\ r.group = s.group
    BY <1>3 DEF Meet
  <2>2. PICK x, y \in new : x.book = r.book /\ y.book = s.book /\ x.group = y.group
    BY <2>1 DEF Finer
  <2>3. Meet(more, new, a, b)
    BY <1>1, <2>1, <2>2 DEF Meet
  <2> QED BY <2>3, WorksMeet
<1> QED BY <1>2, <1>3, WorksMeet

\* What a step may do to two books that are one work.
Together ==
    \E gone \in Groups!Books : \A a, b \in Groups!Books :
        WorkIn(pairs, rows, a, b) =>
            \/ WorkIn(pairs', rows', a, b)
            \/ /\ RowsIn(rows', Groups!TitleIn(pairs', gone)) = {}
               /\ {a, b} \cap Groups!TitleIn(pairs, gone) # {}

\* Linking and pairing only bring rows together.
LEMMA BringsTogether ==
    ASSUME Grouped,
           \/ \E a, b \in Groups!Books : Groups!LinkTranslations(a, b)
           \/ \E p \in Possible :
                 \/ Groups!ConfirmPair(p) \/ Groups!RejectPair(p) \/ Groups!Suggest(p) \/ Groups!Retire(p) \/ Groups!AutoPair(p)
                 \/ \E replace \in BOOLEAN : Groups!LinkPair(p, replace)
    PROVE  Finer(rows, rows') /\ Groups!Books # {}
<1>0. rows \subseteq Row /\ Finer(rows, rows)
  BY RowsByName DEF Grouped, Finer
<1>1. ASSUME NEW a \in Groups!Books, NEW b \in Groups!Books, Groups!LinkTranslations(a, b)
      PROVE  Finer(rows, rows')
  <2> DEFINE new == links + 1
             group == IF Groups!InGroup(a) THEN Groups!GroupOf(a)
                      ELSE IF Groups!InGroup(b) THEN Groups!GroupOf(b) ELSE new
             met == IF Groups!InGroup(a) /\ Groups!InGroup(b) THEN Groups!Moved(rows, {Groups!GroupOf(b)}, group) ELSE rows
             added == {[book |-> x, group |-> group, at |-> new] : x \in {y \in {a, b} : ~Groups!InGroup(y)}}
             first == Groups!Merged(met \cup added, Groups!Title(a), group)
  <2>1. links < MaxLinks /\ rows' = Groups!Merged(first, Groups!Title(b), group)
    BY <1>1 DEF Groups!LinkTranslations
  <2>2. links \in 0..MaxLinks /\ MaxLinks \in Nat
    BY RowsByName, GroupAssumption DEF Grouped, GroupParameters
  <2>3. new \in 1..MaxLinks
    BY <2>1, <2>2
  <2>4. group \in 1..MaxLinks
    BY <2>3, GroupIsOne DEF Grouped
  <2> HIDE DEF new, group
  <2>5. met \subseteq Row /\ Finer(rows, met)
    BY <1>0, <2>4, MovedRows, MovesKeepTogether
  <2> HIDE DEF met
  <2>6. added \subseteq Row
    BY <2>3, <2>4 DEF Row
  <2> HIDE DEF added
  <2>7. met \cup added \subseteq Row /\ Finer(rows, met \cup added)
    BY <2>5, <2>6 DEF Finer
  <2>8. first \subseteq Row /\ Finer(met \cup added, first)
    BY <2>4, <2>7, MergedRows, MovesKeepTogether DEF Groups!Merged
  <2> HIDE DEF first
  <2>9. Finer(first, rows')
    BY <2>1, <2>8, MovesKeepTogether DEF Groups!Merged
  <2> QED BY <2>7, <2>8, <2>9, FinerIsTransitive
<1>2. ASSUME NEW changed, NEW joined, Groups!Decided(changed, joined)
      PROVE  Finer(rows, rows')
  <2>1. CASE rows' = rows
    BY <1>0, <2>1
  <2>2. ASSUME NEW b, rows' = Groups!Healed(changed, b)
        PROVE  Finer(rows, rows')
    <3> DEFINE bs == Groups!TitleIn(changed, b)
    <3>1. rows' = rows \/ rows' = Groups!Merged(rows, bs, Groups!FirstRow(Groups!RowsOf(bs)).group)
      BY <2>2 DEF Groups!Healed
    <3> HIDE DEF bs
    <3> QED BY <1>0, <3>1, MovesKeepTogether DEF Groups!Merged
  <2> QED BY <1>2, <2>1, <2>2 DEF Groups!Decided
<1>3. ASSUME NEW p \in Possible,
             \/ Groups!ConfirmPair(p) \/ Groups!RejectPair(p) \/ Groups!Suggest(p) \/ Groups!Retire(p) \/ Groups!AutoPair(p)
             \/ \E replace \in BOOLEAN : Groups!LinkPair(p, replace)
      PROVE  Finer(rows, rows')
  <2>1. CASE Groups!Suggest(p) \/ Groups!Retire(p) \/ Groups!AutoPair(p)
    BY <1>0, <2>1 DEF Groups!Suggest, Groups!Retire, Groups!AutoPair
  <2>2. CASE Groups!ConfirmPair(p) \/ Groups!RejectPair(p) \/ \E replace \in BOOLEAN : Groups!LinkPair(p, replace)
    BY <1>2, <2>2 DEF Groups!ConfirmPair, Groups!RejectPair, Groups!LinkPair
  <2> QED BY <1>3, <2>1, <2>2
<1>4. Groups!Books # {}
  BY PairsAreOfBooks
<1> QED BY <1>1, <1>3, <1>4

LEMMA TwoAreTwo == ASSUME NEW x, NEW y, x # y PROVE Cardinality({x, y}) = 2
<1>1. IsFiniteSet({x}) /\ Cardinality({x}) = 1 /\ y \notin {x}
  BY FS_Singleton
<1>2. Cardinality({x} \cup {y}) = Cardinality({x}) + 1
  BY <1>1, FS_AddElement
<1>3. {x, y} = {x} \cup {y}
  OBVIOUS
<1> QED BY <1>1, <1>2, <1>3

\* A title that leaves its group takes no other along, for two that stay are a group.
LEMMA OneLeaves ==
    ASSUME Grouped, WholeIn(pairs, rows), WholeIn(pairs', rows'), rows' \subseteq Row,
           NEW c \in Groups!Books, NEW d \in Groups!Books, Groups!UnlinkTranslation(c, d)
    PROVE  Together
<1> DEFINE group == Groups!GroupOf(c)
           stays == rows \ Groups!RowsOf(Groups!Title(d))
           titles == {Groups!Title(r.book) : r \in {s \in stays : s.group = group}}
<1>1. /\ rows' = IF Cardinality(titles) < 2 THEN {r \in stays : r.group # group} ELSE stays
      /\ pairs' = pairs
  BY SameCardinality DEF Groups!UnlinkTranslation
<1>2. rows \subseteq Row
  BY RowsByName DEF Grouped
<1>3. RowsIn(rows', Groups!TitleIn(pairs', d)) = {}
  BY <1>1 DEF RowsIn, Groups!RowsOf, Groups!Title
<1>4. IsFiniteSet(titles)
  <2>1. titles \in SUBSET (SUBSET Groups!Books)
    BY <1>2, TitleIsClosure DEF Groups!Title, Row
  <2>2. IsFiniteSet(SUBSET Groups!Books)
    BY GroupAssumption, FS_SUBSET DEF GroupParameters
  <2> HIDE DEF titles
  <2> QED BY <2>1, <2>2, FS_Subset
<1>5. ASSUME NEW a \in Groups!Books, NEW b \in Groups!Books, WorkIn(pairs, rows, a, b),
             a \notin Groups!TitleIn(pairs, d), b \notin Groups!TitleIn(pairs, d),
             Groups!TitleIn(pairs, a) # Groups!TitleIn(pairs, b)
      PROVE  Meet(pairs', rows', a, b)
  <2>1. Meet(pairs, rows, a, b)
    BY <1>2, <1>5, WorksMeet
  <2>2. PICK r, s \in rows : /\ r.book \in Groups!TitleIn(pairs, a) /\ s.book \in Groups!TitleIn(pairs, b)
                             /\ r.group = s.group
    BY <2>1 DEF Meet
  <2>3. Groups!TitleIn(pairs, r.book) = Groups!TitleIn(pairs, a) /\ Groups!TitleIn(pairs, s.book) = Groups!TitleIn(pairs, b)
    BY <2>2, TitlesAreApart
  <2>4. r.book \notin Groups!TitleIn(pairs, d) /\ s.book \notin Groups!TitleIn(pairs, d)
    BY <1>5, <2>3, TitlesAreApart, TitleIsClosure
  <2>5. r \in stays /\ s \in stays
    BY <2>2, <2>4 DEF Groups!RowsOf, Groups!Title
  <2>6. CASE r.group = group
    <3>1. Groups!TitleIn(pairs, a) \in titles /\ Groups!TitleIn(pairs, b) \in titles
      BY <2>2, <2>3, <2>5, <2>6 DEF Groups!Title
    <3> HIDE DEF titles
    <3>2. ~(Cardinality(titles) < 2)
      <4>1. {Groups!TitleIn(pairs, a), Groups!TitleIn(pairs, b)} \in SUBSET titles
        BY <3>1
      <4>2. Cardinality({Groups!TitleIn(pairs, a), Groups!TitleIn(pairs, b)}) = 2
        BY <1>5, TwoAreTwo
      <4>3. Cardinality({Groups!TitleIn(pairs, a), Groups!TitleIn(pairs, b)}) <= Cardinality(titles)
        BY <1>4, <4>1, FS_Subset
      <4>4. Cardinality(titles) \in Nat
        BY <1>4, FS_CardinalityType
      <4> QED BY <4>2, <4>3, <4>4
    <3>3. rows' = stays
      BY <1>1, <3>2
    <3> QED BY <1>1, <2>2, <2>5, <3>3 DEF Meet
  <2>7. CASE r.group # group
    <3>1. r \in rows' /\ s \in rows'
      <4> HIDE DEF stays, group
      <4> QED BY <1>1, <2>2, <2>5, <2>7
    <3> QED BY <1>1, <2>2, <3>1 DEF Meet
  <2> QED BY <2>6, <2>7
<1> HIDE DEF titles, stays, group
<1>6. ASSUME NEW a \in Groups!Books, NEW b \in Groups!Books, WorkIn(pairs, rows, a, b)
      PROVE  WorkIn(pairs', rows', a, b) \/ {a, b} \cap Groups!TitleIn(pairs, d) # {}
  <2>1. CASE Groups!TitleIn(pairs, a) = Groups!TitleIn(pairs, b)
    BY <1>1, <2>1 DEF WorkIn
  <2>2. CASE Meet(pairs', rows', a, b)
    BY <2>2, WorksMeet
  <2> QED BY <1>5, <1>6, <2>1, <2>2
<1> QED BY <1>3, <1>6 DEF Together

-----------------------------------------------------------------------------
(* The theorems.                                                           *)

\* A title with two groups is joined by a pair nobody made.
LEMMA TornByAlignment == Grouped => OneGroupPerTitle
<1> SUFFICES ASSUME Grouped, NEW b \in Groups!Books, Groups!Torn(b),
                    \A p \in Possible : pairs[p] = "auto" => p[1] \notin Groups!Title(b)
             PROVE  FALSE
  BY DEF OneGroupPerTitle, Groups!OneGroupPerTitle
<1> DEFINE title == Groups!Title(b)
<1>1. /\ title \subseteq Groups!Books /\ b \in title /\ Closed(pairs, title)
      /\ \A bs : b \in bs /\ Closed(pairs, bs) => title \subseteq bs
  BY TitleIsClosure DEF Groups!Title
<1>2. \A p \in Groups!Settled(pairs) : p[1] \in title => p \in Sworn(pairs)
  BY DEF Groups!Settled, Sworn
<1>3. PICK r, s \in rows : r.book \in title /\ s.book \in title /\ r.group # s.group
  <2>1. ~(Cardinality(Groups!Groups(title)) < 2)
    BY GroupsAreFinite, SameCardinality DEF Groups!Torn, Grouped
  <2> HIDE DEF title
  <2> QED BY <2>1, GroupsAreFinite DEF Grouped
<1>4. PICK bs \in SUBSET Groups!Books : /\ \A p \in Sworn(pairs) : p[1] \in bs <=> p[2] \in bs
                                 /\ r.book \in bs /\ s.book \notin bs
  BY <1>3 DEF Grouped, Separated, Apart
<1> HIDE DEF title
<1>5. Closed(pairs, title \cap bs) /\ Closed(pairs, title \ bs)
  BY <1>1, <1>2, <1>4 DEF Closed
<1> QED BY <1>1, <1>3, <1>4, <1>5

\* One row a book, and rows, pairs and counters as the tables can hold them.
THEOREM GroupsTypeCorrect == Groups!Spec => []Groups!TypeOK
<1>1. Grouped => Groups!TypeOK
  BY DEF Grouped
<1> QED BY <1>1, GroupedHolds, PTL

\* A title is in one group unless one of its pairs was made by an alignment: what people
\* pair is healed when they pair it (joinedTitle, healTitleGroups).
THEOREM TitlesAreWhole == Groups!Spec => []OneGroupPerTitle
BY TornByAlignment, GroupedHolds, PTL

\* A step that keeps the settled pairs and tears no title keeps works together,
\* but for the one title that is taken out.
LEMMA StepKeepsTogether ==
    ASSUME Grouped, Grouped', Groups!Next, Groups!Settled(pairs) \subseteq Groups!Settled(pairs'),
           \A b \in Groups!Books : ~Groups!Torn(b) /\ ~Groups!Torn(b)'
    PROVE  Together
<1>1. rows \subseteq Row /\ rows' \subseteq Row
  BY RowsByName, RowsByNameNext DEF Grouped
<1>2. \A b \in Groups!Books :
         /\ Groups!Torn(b) <=> Cardinality({r.group : r \in RowsIn(rows, Groups!TitleIn(pairs, b))}) > 1
         /\ Groups!Torn(b)' <=> Cardinality({r.group : r \in RowsIn(rows', Groups!TitleIn(pairs', b))}) > 1
  BY SameCardinality DEF Groups!Torn, Groups!Groups, Groups!RowsOf, RowsIn, Groups!Title
<1>3. \A rs \in {rows, rows'} : \A bs : Cardinality({r.group : r \in RowsIn(rs, bs)}) \in Nat
  <2> SUFFICES ASSUME NEW rs \in {rows, rows'}, NEW bs
               PROVE  Cardinality({r.group : r \in RowsIn(rs, bs)}) \in Nat
    OBVIOUS
  <2>1. {r.group : r \in RowsIn(rs, bs)} \in SUBSET (1..MaxLinks)
    BY <1>1 DEF RowsIn, Row
  <2>2. IsFiniteSet(1..MaxLinks)
    BY GroupAssumption, FS_Interval DEF GroupParameters
  <2> QED BY <2>1, <2>2, FS_Subset, FS_CardinalityType
<1>4. WholeIn(pairs, rows) /\ WholeIn(pairs', rows')
  <2>1. ASSUME NEW b \in Groups!Books
        PROVE  /\ Cardinality({r.group : r \in RowsIn(rows, Groups!TitleIn(pairs, b))}) <= 1
               /\ Cardinality({r.group : r \in RowsIn(rows', Groups!TitleIn(pairs', b))}) <= 1
    <3>1. /\ ~(Cardinality({r.group : r \in RowsIn(rows, Groups!TitleIn(pairs, b))}) > 1)
          /\ ~(Cardinality({r.group : r \in RowsIn(rows', Groups!TitleIn(pairs', b))}) > 1)
      BY <1>2
    <3>2. \A n \in Nat : ~(n > 1) => n <= 1
      OBVIOUS
    <3> QED BY <1>3, <3>1, <3>2
  <2> QED BY <2>1 DEF WholeIn
<1>5. CASE Finer(rows, rows') /\ Groups!Books # {}
  <2>1. \A a, b \in Groups!Books : WorkIn(pairs, rows, a, b) => WorkIn(pairs', rows', a, b)
    BY <1>1, <1>4, <1>5, TogetherStays
  <2> QED BY <1>5, <2>1 DEF Together
<1> QED BY <1>1, <1>4, <1>5, BringsTogether, OneLeaves DEF Groups!Next

\* Two books that are one work stay one, but for the pairs that are let go and the one
\* title that is taken out.
THEOREM WorksAreKept == Groups!Spec => WorksStayTogether
<1>1. Grouped /\ Grouped' /\ [Groups!Next]_(Groups!vars) => [Groups!KeepsTogether]_(Groups!vars)
  <2> SUFFICES ASSUME Grouped, Grouped', Groups!Next, Groups!Settled(pairs) \subseteq Groups!Settled(pairs'),
                      \A b \in Groups!Books : ~Groups!Torn(b) /\ ~Groups!Torn(b)'
               PROVE  \E gone \in Groups!Books : \A a, b \in Groups!Books : Groups!SameWork(a, b) =>
                          Groups!SameWork(a, b)' \/ (~Groups!InGroup(gone)' /\ {a, b} \cap Groups!Title(gone) # {})
    BY DEF Groups!KeepsTogether
  <2>1. Together
    BY StepKeepsTogether
  <2>2. PICK gone \in Groups!Books : \A a, b \in Groups!Books :
           WorkIn(pairs, rows, a, b) =>
               \/ WorkIn(pairs', rows', a, b)
               \/ /\ RowsIn(rows', Groups!TitleIn(pairs', gone)) = {}
                  /\ {a, b} \cap Groups!TitleIn(pairs, gone) # {}
    BY <2>1 DEF Together
  <2>3. Groups!Title(gone) = Groups!TitleIn(pairs, gone)
    BY DEF Groups!Title
  <2>4. Groups!InGroup(gone)' <=> RowsIn(rows', Groups!TitleIn(pairs', gone)) # {}
    BY Zenon DEF Groups!InGroup, Groups!RowsOf, Groups!Title, RowsIn
  <2>5. ASSUME NEW a \in Groups!Books, NEW b \in Groups!Books, Groups!SameWork(a, b)
        PROVE  Groups!SameWork(a, b)' \/ (~Groups!InGroup(gone)' /\ {a, b} \cap Groups!Title(gone) # {})
    <3>1. WorkIn(pairs, rows, a, b)
      BY <2>5 DEF Groups!SameWork, Groups!OtherTitles, Groups!TitlesIn, Groups!GroupOf,
                  Groups!InGroup, Groups!RowsOf, Groups!Title, WorkIn, RowsIn
    <3>2. WorkIn(pairs', rows', a, b) <=> Groups!SameWork(a, b)'
      BY DEF Groups!SameWork, Groups!OtherTitles, Groups!TitlesIn, Groups!GroupOf, Groups!InGroup,
             Groups!RowsOf, Groups!Title, WorkIn, RowsIn
    <3> QED BY <2>2, <2>3, <2>4, <3>1, <3>2
  <2> QED BY <2>5
<1> QED BY <1>1, GroupedHolds, PTL DEF Groups!Spec, WorksStayTogether, Groups!WorksStayTogether
=============================================================================
