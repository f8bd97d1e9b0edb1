--------------------------- MODULE MCServerSafety ---------------------------
(***************************************************************************)
(* The queue and the library, which share no state, checked in one run: a  *)
(* behaviour is one of JobQueue or of Library, and the other one rests.    *)
(***************************************************************************)
EXTENDS JobQueue, TLC

CONSTANTS j1, j2, w1, w2, k1,
          e1, e2, a1, NoFile, NoRow, Ebooks, Audios, MaxContents, MaxMoves, MaxOutages,
          MaxInterruptions, MaxRequests, MaxDecisions, Slots

VARIABLES subject, files, mounted, rows, pairs, job, scan, reading, spent

\* Two jobs of one lane that exclude each other by their dedupe key.
SharedKey == (j1 :> k1) @@ (j2 :> k1)
HeavyPair == (j1 :> "heavy") @@ (j2 :> "heavy")
UrgentSecond == (j1 :> 0) @@ (j2 :> 1)
OneSlot == [l \in Lanes |-> 1]

WorkerSymmetry == Permutations({w1, w2})

\* Every ebook and audiobook tell the same work.
Books == INSTANCE Library WITH
    WalkOrder <- <<e1, e2, a1>>, Similar <- (1..MaxContents) \X (1..MaxContents)

bookVars == <<files, mounted, rows, pairs, job, scan, reading, spent>>

MCInit == subject \in {"queue", "library"} /\ Init /\ Books!Init

MCNext ==
    /\ UNCHANGED subject
    /\ \/ subject = "queue" /\ Next /\ UNCHANGED bookVars
       \/ subject = "library" /\ Books!Next /\ UNCHANGED vars

MCSpec == MCInit /\ [][MCNext]_<<vars, bookVars, subject>>

\* Library: decisions about two books outlive what happens to their files.
DecisionsSurvive == Books!DecisionsSurvive
=============================================================================
