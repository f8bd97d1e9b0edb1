------------------------------ MODULE MCServer ------------------------------
(***************************************************************************)
(* Three parts of the server that share no state, checked in one run: a    *)
(* behaviour is one of Alignments, of ModelDownload or of                  *)
(* TranslationGroups, and the other two rest.                              *)
(***************************************************************************)
EXTENDS Alignments

CONSTANTS w1, w2, j1,
          Waiting, Size, Enough, NoFile, MaxTries,
          MaxRequests, MaxRemovals, MaxFailures, MaxCrashes,
          Ebooks, Audios, Unknown, MaxLinks, MaxChoices

VARIABLES subject,
          download, fetch, part, dest, extra, align, crossed, cut, left,
          pairs, rows, links, decisions

\* Two narrations of one ebook, or two ebooks of one narration, in three languages.
Possible == {<<1, 2>>, <<3, 2>>}
Language == [b \in Ebooks \cup Audios |->
                CASE b = 1 -> "en" [] b = 3 -> "ru" [] b = 4 -> "de" [] OTHER -> Unknown]

Models == INSTANCE ModelDownload WITH
    Alignments <- Waiting, MaxAttempts <- MaxTries,
    job <- download, try <- fetch, budget <- left
Groups == INSTANCE TranslationGroups WITH
    status <- pairs, MaxDecisions <- MaxChoices

\* What the proofs need to know of the parameters of the other two.
ModelParameters ==
    /\ {Size, Enough, MaxTries} \subseteq Nat \ {0}
    /\ NoFile \notin Models!Files
    /\ {MaxRequests, MaxRemovals, MaxFailures, MaxCrashes, MaxStalls} \subseteq Nat

GroupParameters ==
    /\ Possible \subseteq Ebooks \X Audios
    /\ Groups!Books \subseteq Nat /\ IsFiniteSet(Groups!Books)
    /\ MaxLinks \in Nat /\ MaxChoices \in Nat

ASSUME ModelAssumption == ModelParameters
ASSUME GroupAssumption == GroupParameters

modelVars == <<download, fetch, part, dest, extra, align, crossed, cut, left>>
groupVars == <<pairs, rows, links, decisions>>
all == <<vars, modelVars, groupVars, subject>>

MCInit ==
    /\ subject \in {"alignments", "models", "groups"}
    /\ Init /\ Models!Init /\ Groups!Init

MCNext ==
    /\ UNCHANGED subject
    /\ \/ subject = "alignments" /\ Next /\ UNCHANGED <<modelVars, groupVars>>
       \/ subject = "models" /\ Models!Next /\ UNCHANGED <<vars, groupVars>>
       \/ subject = "groups" /\ Groups!Next /\ UNCHANGED <<vars, modelVars>>

MCSpec == MCInit /\ [][MCNext]_all /\ Fairness /\ Models!Fairness

\* ModelDownload: what counts as installed is the whole model.
HalfIsNoModel == Models!HalfIsNoModel

\* ModelDownload: who waits for the model goes again.
WaitersGoAgain == Models!WaitersGoAgain

\* TranslationGroups: a title is in one group.
OneGroupPerTitle == Groups!OneGroupPerTitle

\* TranslationGroups: what is one work stays one work.
WorksStayTogether == Groups!WorksStayTogether
=============================================================================
