------------------------- MODULE TranslationGroups -------------------------
(***************************************************************************)
(* Which books are one work in several languages.  Two facts are stored:   *)
(* the pairs, which make an ebook and its audiobooks one title, and the    *)
(* rows of `translations`, which put single books into groups.  A title is *)
(* in a group through any of its books; nothing tells the rows when a pair *)
(* is made or let go, except the repair that a person's pairing runs.      *)
(*                                                                         *)
(* Books are numbers (the order of their ids); a row remembers when it was *)
(* linked, for the earliest row decides which group a title shows.         *)
(***************************************************************************)
EXTENDS Integers, FiniteSets, FiniteSetsExt

CONSTANTS Ebooks, Audios,
          Possible,    \* the pairs the pair scan or a person may come to
          Language,    \* the language of a book, or Unknown
          Unknown,
          MaxLinks,    \* how many links are made
          MaxDecisions \* how many decisions on pairs

Books == Ebooks \cup Audios

VARIABLES status,     \* pairs.status; "none" where there is no row
          rows,       \* translations: [book, group, at]
          links, decisions

vars == <<status, rows, links, decisions>>

Statuses == {"none", "candidate", "auto", "confirmed", "rejected"}

TypeOK ==
    /\ status \in [Possible -> Statuses]
    /\ rows \subseteq [book : Books, group : 1..MaxLinks, at : 1..MaxLinks]
    /\ \A r, s \in rows : r.book = s.book => r = s
    /\ links \in 0..MaxLinks /\ decisions \in 0..MaxDecisions

Init ==
    /\ status = [p \in Possible |-> "none"]
    /\ rows = {}
    /\ links = 0 /\ decisions = 0

-----------------------------------------------------------------------------

Settled(st) == {p \in Possible : st[p] \in {"auto", "confirmed"}}

Partners(st, bs) == {b \in Books : \E p \in Settled(st) :
                        (p[1] = b /\ p[2] \in bs) \/ (p[2] = b /\ p[1] \in bs)}

\* titleBooks: what the settled pairs join, followed to the end.
TitleIn(st, b) ==
    LET reach[n \in 0..Cardinality(Settled(st))] ==
            IF n = 0 THEN {b} ELSE LET bs == reach[n - 1] IN bs \cup Partners(st, bs)
    IN reach[Cardinality(Settled(st))]
Title(b) == TitleIn(status, b)

RowsOf(bs) == {r \in rows : r.book \in bs}
Groups(bs) == {r.group : r \in RowsOf(bs)}

\* groupOf: the group of the row linked first, of the lower id among those linked at once.
FirstRow(rs) == CHOOSE r \in rs :
    \A s \in rs : r.at < s.at \/ (r.at = s.at /\ r.book <= s.book)
GroupOf(b) == FirstRow(RowsOf(Title(b))).group
InGroup(b) == RowsOf(Title(b)) # {}

TitlesIn(g) == {Title(r.book) : r \in {s \in rows : s.group = g}}

\* otherTitles: what a reader of the book is offered in other languages.
OtherTitles(b) ==
    IF ~InGroup(b) THEN {}
    ELSE {t \in TitlesIn(GroupOf(b)) : t \cap Title(b) = {}}
SameWork(a, b) == Title(a) = Title(b) \/ b \in UNION OtherTitles(a)

Moved(rs, from, to) == {[r EXCEPT !.group = IF @ \in from THEN to ELSE @] : r \in rs}

\* mergeTitle: whatever other group the title's books are in becomes this one.
Merged(rs, bs, g) == Moved(rs, {r.group : r \in {s \in rs : s.book \in bs}}, g)

TitleLanguage(t) ==
    LET known(bs) == {b \in bs : Language[b] # Unknown} IN
    IF known(t \cap Ebooks) # {} THEN {Language[Min(known(t \cap Ebooks))]}
    ELSE {Language[b] : b \in known(t)}

-----------------------------------------------------------------------------
(* Links.                                                                  *)

LinkTranslations(a, b) ==
    LET mine == Title(a)
        theirs == Title(b)
        new == links + 1
        group == IF InGroup(a) THEN GroupOf(a) ELSE IF InGroup(b) THEN GroupOf(b) ELSE new
        met == IF InGroup(a) /\ InGroup(b) THEN Moved(rows, {GroupOf(b)}, group) ELSE rows
        added == {[book |-> x, group |-> group, at |-> new] :
                    x \in {y \in {a, b} : ~InGroup(y)}}
    IN
    /\ links < MaxLinks
    /\ mine \cap theirs = {}
    /\ TitleLanguage(mine) \cap TitleLanguage(theirs) = {}
    /\ ~(InGroup(a) /\ InGroup(b) /\ GroupOf(a) = GroupOf(b))
    /\ rows' = Merged(Merged(met \cup added, mine, group), theirs, group)
    /\ links' = new
    /\ UNCHANGED <<status, decisions>>

\* Seeded fault: the group goes with the title that leaves it.
UnlinkTranslationGroup(a, b) ==
    /\ decisions < MaxDecisions
    /\ InGroup(a) /\ InGroup(b) /\ GroupOf(b) = GroupOf(a)
    /\ Title(a) \cap Title(b) = {}
    /\ rows' = {r \in rows : r.group # GroupOf(a)}
    /\ decisions' = decisions + 1
    /\ UNCHANGED <<status, links>>

\* The title of b leaves; a group of one title goes.
UnlinkTranslation(a, b) ==
    LET group == GroupOf(a)
        stays == rows \ RowsOf(Title(b))
        titles == {Title(r.book) : r \in {s \in stays : s.group = group}}
    IN
    /\ decisions < MaxDecisions
    /\ InGroup(a) /\ InGroup(b) /\ GroupOf(b) = group
    /\ Title(a) \cap Title(b) = {}
    /\ rows' = IF Cardinality(titles) < 2 THEN {r \in stays : r.group # group} ELSE stays
    /\ decisions' = decisions + 1
    /\ UNCHANGED <<status, links>>

-----------------------------------------------------------------------------
(* Pairs.                                                                  *)

\* Seeded fault: a title is repaired as it was before the pairing.
HealedTooEarly(st, b) ==
    LET bs == Title(b)
    IN IF Cardinality(Groups(bs)) < 2 THEN rows ELSE Merged(rows, bs, FirstRow(RowsOf(bs)).group)

\* healTitleGroups, after a person's pairing: one title, one group.
Healed(st, b) ==
    LET bs == TitleIn(st, b)
    IN IF Cardinality(Groups(bs)) < 2 THEN rows ELSE Merged(rows, bs, FirstRow(RowsOf(bs)).group)

\* A person's decision: `changed` is the pairs after it, `joined` the ebooks of those confirmed.
Decided(changed, joined) ==
    /\ decisions < MaxDecisions /\ decisions' = decisions + 1
    /\ status' = changed
    /\ rows' = IF joined = {} THEN rows ELSE Healed(changed, CHOOSE b \in joined : TRUE)
    /\ UNCHANGED links

ConfirmPair(p) ==
    /\ status[p] # "none"
    /\ Decided([status EXCEPT ![p] = "confirmed"], {p[1]})

\* Reject and unlink.
RejectPair(p) ==
    /\ status[p] # "none"
    /\ Decided([status EXCEPT ![p] = "rejected"], {})

Open(q) == status[q] \in {"auto", "confirmed", "candidate"}

\* Link by hand, with or without letting go whatever either book was paired with.
LinkPair(p, replace) ==
    LET released == {q \in Possible \ {p} : replace /\ Open(q) /\ (q[1] = p[1] \/ q[2] = p[2])}
    IN Decided([q \in Possible |-> IF q = p THEN "confirmed"
                                   ELSE IF q \in released THEN "rejected" ELSE status[q]],
               {p[1]})

\* The pair scan suggests a pair of two books that are not settled, or drops one.
Suggest(p) ==
    /\ status[p] = "none"
    /\ \A q \in Settled(status) : q[1] # p[1] /\ q[2] # p[2]
    /\ status' = [status EXCEPT ![p] = "candidate"]
    /\ UNCHANGED <<rows, links, decisions>>

Retire(p) ==
    /\ status[p] = "candidate"
    /\ status' = [status EXCEPT ![p] = "none"]
    /\ UNCHANGED <<rows, links, decisions>>

\* A finished or an imported alignment makes a pair of a suggestion.  Nothing
\* repairs the groups then.
AutoPair(p) ==
    /\ status[p] = "candidate"
    /\ status' = [status EXCEPT ![p] = "auto"]
    /\ UNCHANGED <<rows, links, decisions>>

Next ==
    \/ \E a, b \in Books :
          LinkTranslations(a, b) \/ UnlinkTranslation(a, b)
    \/ \E p \in Possible :
          \/ ConfirmPair(p) \/ RejectPair(p) \/ Suggest(p) \/ Retire(p) \/ AutoPair(p)
          \/ \E replace \in BOOLEAN : LinkPair(p, replace)

Spec == Init /\ [][Next]_vars

-----------------------------------------------------------------------------
(* Properties.                                                             *)

Torn(b) == Cardinality(Groups(Title(b))) > 1

\* A title is in one group, whatever was linked, unlinked, paired and unpaired in
\* whatever order: unless one of its pairs was made by an alignment and not
\* by a person (nothing heals the groups then).
OneGroupPerTitle ==
    \A b \in Books : Torn(b) => \E p \in Possible : status[p] = "auto" /\ p[1] \in Title(b)

\* Two books that are one work stay one work through every link, pairing and
\* unlinking of others: it ends only with a pair that is let go, or for the one
\* title that is taken out of its group.
KeepsTogether ==
    Settled(status) \subseteq Settled(status') /\ (\A b \in Books : ~Torn(b) /\ ~Torn(b)')
        => \E gone \in Books : \A a, b \in Books : SameWork(a, b) =>
              SameWork(a, b)' \/ (~InGroup(gone)' /\ {a, b} \cap Title(gone) # {})

WorksStayTogether == [][KeepsTogether]_vars
=============================================================================
