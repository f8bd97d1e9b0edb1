------------------------------ MODULE MCCopies ------------------------------
(***************************************************************************)
(* The copies that are made of a book: the derived texts on the server and *)
(* the downloads in a browser.  They share no state and are checked in one *)
(* run: a behaviour is one of DerivedStore or of OfflineDownloads, fair to *)
(* that part, and the other one rests.                                     *)
(***************************************************************************)
EXTENDS DerivedStore

CONSTANTS k1, t1, t2, ada, grace,
          Tabs, Users, Chunks, First, Nobody, NoRecord,
          MaxEditions, MaxStarts, MaxAccounts, MaxMishaps, MaxActs, MaxChecks, MaxEvents

VARIABLES subject,
          cookie, edition, cache, record, page, dl, look, gate, harm, emptied, budget

Downloads == INSTANCE OfflineDownloads

\* What the proofs need to know of the parameters of the downloads.
CopyParameters ==
    /\ Tabs # {} /\ Chunks \in Nat \ {0} /\ MaxEditions \in Nat \ {0}
    /\ First \in Users /\ NoRecord \notin Downloads!Records
    /\ {MaxStarts, MaxAccounts, MaxMishaps, MaxActs, MaxChecks, MaxEvents} \subseteq Nat

ASSUME CopyAssumption == CopyParameters

downloadVars ==
    <<cookie, edition, cache, record, page, dl, look, gate, harm, emptied, budget>>
all == <<vars, downloadVars, subject>>

MCInit == subject \in {"texts", "downloads"} /\ Init /\ Downloads!Init

\* Downloads may rest, so that a deadlock found is one of the texts.
MCNext ==
    \/ /\ UNCHANGED subject
       /\ \/ subject = "texts" /\ Next /\ UNCHANGED downloadVars
          \/ subject = "downloads" /\ Downloads!Next /\ UNCHANGED vars
    \/ subject = "downloads" /\ UNCHANGED all

\* The Fairness of each part, asked of its own behaviours.
OfTexts(A) == subject = "texts" /\ A
OfDownloads(A) == subject = "downloads" /\ A

MCFairness ==
    /\ \A r \in Revs : WF_vars(OfTexts(AttemptStep(r))) /\ WF_vars(OfTexts(TimedSweep(r)))
    /\ \A k \in Readers : WF_vars(OfTexts(Answer(k)))
    /\ WF_vars(OfTexts(Tick))
    /\ \A t \in Tabs : WF_downloadVars(OfDownloads(Downloads!Work(t)))

MCSpec == MCInit /\ [][MCNext]_all /\ MCFairness

\* OfflineDownloads: a book that claims to be downloaded is.
ClaimsAreTrue == Downloads!ClaimsAreTrue

\* OfflineDownloads: what is stored is on the book's list.
StoredIsListed == Downloads!StoredIsListed

\* OfflineDownloads: nothing of an account outlives its sign-out.
NothingOutlivesSignOut == Downloads!NothingOutlivesSignOut

\* OfflineDownloads: a purge ends.
PurgeEnds == Downloads!PurgeEnds
=============================================================================
