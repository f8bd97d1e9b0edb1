------------------------------ MODULE MCPeople ------------------------------
(***************************************************************************)
(* What the server keeps of people: their checkpoints and what these are   *)
(* folded to, their accounts, and whom they let in.  The five parts share  *)
(* no state and are checked in one run: a behaviour is one of Progress,    *)
(* Sittings, Places, Accounts or Connections, and the others rest.         *)
(***************************************************************************)
EXTENDS Progress, TLC

CONSTANTS
    u1, u2, b1, p1, p2,
    \* Sittings
    Gap, StepCap, Pace, Floor, Jitter, MaxBack, Lead, Keep, Recent, Positions, Start,
    Unmeasured, Today, MaxTime, MaxEvents, MaxDiaryResets, MaxStarts, MaxClears,
    \* Places
    Spots, Ahead, Back, Rejoin, SettledAfter, LongestStep, LeftAfter, StaleAfter, MaxThreads,
    MaxSpotClock, MaxSteps, MaxForgets,
    \* Accounts
    Names, Residents, Proxied, ProxyAdmins, Emails, Links, NoAccount, NoLink,
    MaxInvites, MaxAsks, MaxHashing, MaxActs,
    \* Connections
    People, Nobody, Ttl, Grace, MaxCodes, MaxKeys, MaxCodeTime, MaxAnswers, MaxBans

VARIABLES subject,
          now, rows, sittings, phase, draft, todo, spent, read, erased, behind, missed,
          threads, current, clockOfPlaces, spentOnPlaces,
          member, desk, hashing, invite, ask, share, opened, outrun, acts,
          standing, time, code, key, minted, friends, said, spentOnTrust

Diary == INSTANCE Sittings WITH MaxResets <- MaxDiaryResets

Shelf == INSTANCE Places WITH
    Pages <- Spots, StepCap <- LongestStep, MaxClock <- MaxSpotClock,
    clock <- clockOfPlaces, spent <- spentOnPlaces

Door == INSTANCE Accounts WITH account <- member

Trust == INSTANCE Connections WITH MaxTime <- MaxCodeTime, spent <- spentOnTrust

\* What the proofs need to know of the parameters.
DiaryParameters ==
    /\ {Gap, StepCap, Lead, Keep, Recent, Pace, Floor, Jitter, MaxBack} \subseteq Nat
    /\ Positions \subseteq Nat /\ Start \in Positions /\ Unmeasured \notin Nat
    /\ Recent + Lead <= Keep
    /\ Today \in Nat /\ MaxTime \in Nat /\ Today <= MaxTime
    /\ {MaxEvents, MaxDiaryResets, MaxStarts, MaxClears} \subseteq Nat
\* The checkpoint of long ago, whose row is compacted away, is as old as that.
LegacyParameters == Keep < Today
DoorParameters ==
    /\ IsFiniteSet(Names) /\ NoAccount \notin Door!Accounts /\ NoLink \notin Links
    /\ {MaxInvites, MaxAsks, MaxHashing, MaxActs} \subseteq Nat
TrustParameters ==
    {Ttl, Grace, MaxCodes, MaxKeys, MaxCodeTime, MaxAnswers, MaxBans} \subseteq Nat

ASSUME DiaryAssumption == DiaryParameters
ASSUME LegacyAssumption == LegacyParameters
ASSUME DoorAssumption == DoorParameters
ASSUME TrustAssumption == TrustParameters

\* Two tabs of one browser that two people use, and one checkpoint in each.
OneBrowser == [p \in Pages |-> b1]
ClocksRight == [b \in Browsers |-> 0]
OneEach == [p \in Pages |-> 1]

diaryVars == <<now, rows, sittings, phase, draft, todo, spent, read, erased, behind, missed>>
placeVars == <<threads, current, clockOfPlaces, spentOnPlaces>>
doorVars == <<member, desk, hashing, invite, ask, share, opened, outrun, acts>>
trustVars == <<standing, time, code, key, minted, friends, said, spentOnTrust>>

Alike == Permutations(Pages) \cup Permutations(Users)

\* Time passes in the behaviours in which nothing is lost and no page dies.
Bounded == clock = 0 \/ used.losses + used.deaths = 0

MCInit ==
    /\ subject \in {"progress", "sittings", "places", "accounts", "connections"}
    /\ Init /\ Diary!Init /\ Shelf!Init /\ Door!Init /\ Trust!Init
    /\ subject # "accounts" => Door!Known = {}

MCNext ==
    /\ UNCHANGED subject
    /\ \/ /\ subject = "progress" /\ Next /\ Bounded'
          /\ UNCHANGED <<diaryVars, placeVars, doorVars, trustVars>>
       \/ /\ subject = "sittings" /\ Diary!Next
          /\ UNCHANGED <<vars, placeVars, doorVars, trustVars>>
       \/ /\ subject = "places" /\ Shelf!Next
          /\ UNCHANGED <<vars, diaryVars, doorVars, trustVars>>
       \/ /\ subject = "accounts" /\ Door!Next
          /\ UNCHANGED <<vars, diaryVars, placeVars, trustVars>>
       \/ /\ subject = "connections" /\ Trust!Next
          /\ UNCHANGED <<vars, diaryVars, placeVars, doorVars>>

MCSpec == MCInit /\ [][MCNext]_<<vars, diaryVars, placeVars, doorVars, trustVars, subject>>

\* Sittings: the diary is what the times read fall into.
DiaryIsTheHistory == Diary!DiaryIsTheHistory

\* Sittings: a sitting is credited with no more reading than was done in it.
ReadingIsMeasured == Diary!ReadingIsMeasured

\* Places: a glance takes no place and leaves none.
GlancesTakeNoPlace == Shelf!GlancesTakeNoPlace

\* Accounts: an admin is left.
LastAdminIsKept == Door!LastAdminIsKept

\* Accounts: no way to an account is open twice.
DoorsOpenOnce == Door!DoorsOpenOnce

\* Connections: a code is traded once.
CodesEnd == Trust!CodesEnd

\* Connections: friends are friends because both said so.
FriendsAgreed == Trust!FriendsAgreed
=============================================================================
