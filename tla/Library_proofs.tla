-------------------------- MODULE Library_proofs --------------------------
(***************************************************************************)
(* What the library promises of any number of places, files and jobs: its  *)
(* types, that a curator's decisions survive, and, where no file is moved, *)
(* that a scan finds every book again and no unfinished book is forgotten. *)
(*                                                                         *)
(* The argument is about one scan.  Its report is applied entry by entry,  *)
(* and two things are carried along: what it did to the decisions so far   *)
(* (Faithful), and, where books stay in their places, which of them it     *)
(* has come to (Swept).                                                    *)
(***************************************************************************)
EXTENDS Library, WellFoundedInduction, TLAPS

-----------------------------------------------------------------------------
(* The invariants.                                                         *)

\* What is to be done is to be done to some book.
BooksOfJobs ==
    /\ \A i \in Places : job[i] # "none" => rows[i] # NoRow
    /\ \A i \in Places : job[i] = "running" => reading[i].place \in Places
    /\ \A i \in scan.todo : rows[i] # NoRow

BooksOfPairs == \A p \in pairs : rows[p.e] # NoRow /\ rows[p.a] # NoRow

Counting == spent \in [writes : 0..MaxContents, moves : Nat, outages : Nat,
                      interruptions : Nat, requests : Nat, decisions : Nat]

Typed == TypeOK /\ BooksOfJobs /\ BooksOfPairs /\ Counting

\* A file of content c lies at p, or the running scan or the table has it there.
At(p, c) == \/ files[p] = c
            \/ scan.found[p] = c
            \/ rows[p] # NoRow /\ rows[p].hash = c

\* Where no file is moved every content has one place, and every book stays in
\* the place its id comes from.
OneHome == /\ \A p, q \in Places, c \in Contents : At(p, c) /\ At(q, c) => p = q
           /\ \A p \in Places, c \in Contents : At(p, c) => c <= spent.writes
InOwnPlace == \A i \in Places : rows[i] # NoRow => rows[i].place = i

\* A scan is under way from its claim to its end.
ScanRuns == job["scan"] = "running" <=> scan.phase # "idle"

\* An unfinished book has its job, or the scan has not come to it yet.
Scheduled ==
    \A i \in Places : rows[i] # NoRow =>
        /\ rows[i].state = "indexing" => job[i] # "none"
        /\ rows[i].state = "discovered" =>
              \/ job[i] # "none"
              \/ job["scan"] = "queued"
              \/ scan.phase = "walking"
              \/ scan.phase = "enqueueing" /\ i \in scan.todo

Settling == Typed /\ OneHome /\ InOwnPlace /\ ScanRuns /\ Scheduled

-----------------------------------------------------------------------------
(* A report is applied entry by entry.                                      *)

\* Naturals have a least one.
LEMMA LeastOf ==
    ASSUME NEW S, S # {}, S \subseteq Nat
    PROVE  \E t \in S : \A q \in S : t <= q
<1>1. PICK t \in S : \A q \in S : ~ <<q, t>> \in OpToRel(<, Nat)
  BY NatLessThanWellFounded, WFMin, Zenon
<1>2. ASSUME NEW q \in S
      PROVE  ~ q < t
  <2>1. q < t => <<q, t>> \in OpToRel(<, Nat)
    BY DEF OpToRel
  <2> QED BY <1>1, <2>1, Zenon
<1> QED BY <1>2

\* A set of naturals that has 0 and with each number below L the next has all
\* up to L.
LEMMA UpTo ==
    ASSUME NEW L \in Nat, NEW S, 0 \in S,
           \A n \in 1..L : n - 1 \in S => n \in S
    PROVE  \A n \in 0..L : n \in S
<1> DEFINE out == {n \in 0..L : n \notin S}
<1>1. CASE out = {}
  BY <1>1
<1>2. CASE out # {}
  <2>0. out \subseteq Nat
    OBVIOUS
  <2>1. PICK t \in out : \A q \in out : t <= q
    <3> HIDE DEF out
    <3> QED BY <1>2, <2>0, LeastOf
  <2>2. t # 0 /\ t \in 1..L /\ t - 1 \in 0..L
    BY <2>1
  <2>3. t - 1 \notin out
    BY <2>1, <2>2
  <2> QED BY <2>1, <2>2, <2>3
<1> QED BY <1>1, <1>2

\* The table up to an entry.
Steps(n, g) == g = [k \in 0..n |->
    IF k = 0 THEN Applying ELSE ScanEntry(g[k - 1], WalkOrder[k])]

LEMMA StepsExist == \A n \in 0..Len(WalkOrder) : \E g : Steps(n, g)
<1> DEFINE S == {n \in Nat : \E g : Steps(n, g)}
<1>1. Len(WalkOrder) \in Nat
  BY WalkReportsEveryPlace
<1>2. 0 \in S
  <2> DEFINE h == [k \in 0..0 |-> Applying]
  <2>1. h = [k \in 0..0 |->
               IF k = 0 THEN Applying ELSE ScanEntry(h[k - 1], WalkOrder[k])]
    <3>1. \A k \in 0..0 : k = 0
      OBVIOUS
    <3> QED BY <3>1
  <2>2. Steps(0, h)
    BY <2>1 DEF Steps
  <2> QED BY <2>2
<1>3. ASSUME NEW n \in 1..Len(WalkOrder), n - 1 \in S
      PROVE  n \in S
  <2>1. PICK g : Steps(n - 1, g)
    BY <1>3
  <2> DEFINE last == ScanEntry(g[n - 1], WalkOrder[n])
             h == [k \in 0..n |-> IF k = n THEN last ELSE g[k]]
  <2>2. n \in Nat /\ n - 1 \in Nat /\ 0..n = (0..(n - 1)) \cup {n}
    BY <1>1
  <2> HIDE DEF last
  <2>3. ASSUME NEW k \in 0..n
        PROVE  h[k] = IF k = 0 THEN Applying ELSE ScanEntry(h[k - 1], WalkOrder[k])
    <3>1. CASE k = n
      <4>1. h[k] = last /\ k # 0 /\ k - 1 \in 0..n /\ k - 1 # n /\ h[k - 1] = g[n - 1]
        BY <2>2, <3>1
      <4> QED BY <4>1, <3>1 DEF last
    <3>2. CASE k # n /\ k = 0
      <4>1. h[k] = g[0]
        BY <2>2, <3>2
      <4>2. g[0] = Applying
        BY <2>1, <2>2 DEF Steps
      <4> QED BY <3>2, <4>1, <4>2
    <3>3. CASE k # n /\ k # 0
      <4>1. h[k] = g[k] /\ k - 1 \in 0..n /\ k - 1 # n /\ h[k - 1] = g[k - 1] /\ k \in 0..(n - 1)
        BY <2>2, <3>3
      <4>2. g[k] = ScanEntry(g[k - 1], WalkOrder[k])
        BY <2>1, <3>3, <4>1 DEF Steps
      <4> QED BY <3>3, <4>1, <4>2
    <3> QED BY <3>1, <3>2, <3>3
  <2>4. Steps(n, h)
    <3>1. h = [k \in 0..n |-> h[k]]
      OBVIOUS
    <3> HIDE DEF h
    <3> QED BY <2>3, <3>1 DEF Steps
  <2> QED BY <2>2, <2>4
<1> HIDE DEF S
<1>4. \A n \in 0..Len(WalkOrder) : n \in S
  BY <1>1, <1>2, <1>3, UpTo
<1> QED BY <1>4 DEF S

LEMMA AppliedSteps ==
    /\ Len(WalkOrder) \in Nat
    /\ AppliedUpTo[0] = Applying
    /\ \A n \in 1..Len(WalkOrder) :
          /\ WalkOrder[n] \in Places
          /\ AppliedUpTo[n] = ScanEntry(AppliedUpTo[n - 1], WalkOrder[n])
<1>1. Len(WalkOrder) \in Nat /\ Len(WalkOrder) \in 0..Len(WalkOrder)
  BY WalkReportsEveryPlace
<1>2. \E g : Steps(Len(WalkOrder), g)
  BY <1>1, StepsExist
<1>3. AppliedUpTo = CHOOSE g : Steps(Len(WalkOrder), g)
  BY DEF AppliedUpTo, Steps
<1>4. Steps(Len(WalkOrder), AppliedUpTo)
  BY <1>2, <1>3
<1>5. \A n \in 1..Len(WalkOrder) : WalkOrder[n] \in Places
  BY WalkReportsEveryPlace DEF Places
<1>6. \A n \in 0..Len(WalkOrder) :
         AppliedUpTo[n] = IF n = 0 THEN Applying
                          ELSE ScanEntry(AppliedUpTo[n - 1], WalkOrder[n])
  BY <1>4 DEF Steps
<1>7. 0 \in 0..Len(WalkOrder) /\ \A n \in 1..Len(WalkOrder) : n \in 0..Len(WalkOrder) /\ n # 0
  BY <1>1
<1> QED BY <1>1, <1>5, <1>6, <1>7

-----------------------------------------------------------------------------
(* What one entry of the report does.                                       *)

Table == [Places -> Row \cup {NoRow}]
Report == [rows : Table, pairs : SUBSET Pair, seen : SUBSET Places,
           todo : SUBSET Places, failed : BOOLEAN]

Known(st, i, p) == st.rows[i] # NoRow /\ st.rows[i].place = p
Unknown(st, p) == \A i \in Places : ~ Known(st, i, p)

\* The entry of an empty place, or after the scan has failed.
Skips(st, z, p) == (st.failed \/ scan.found[p] = NoFile) /\ z = st

\* What all other entries have in common.
Takes(st, z, p) == /\ ~ st.failed /\ scan.found[p] \in Contents /\ p \in z.seen
                   /\ st.seen \subseteq z.seen /\ st.todo \subseteq z.todo
                   /\ z \in Report

\* Book i is as it was.
Leaves(st, z, i, p) ==
    /\ Known(st, i, p) /\ st.rows[i].hash = scan.found[p]
    /\ st.rows[i].state \notin {"error", "missing", "discovered"}
    /\ z.rows = st.rows /\ z.pairs = st.pairs /\ z.todo = st.todo /\ ~ z.failed
    /\ z.seen = st.seen \cup {p}

\* Book i has other bytes, or is to be indexed again.
Renews(st, z, i, p) ==
    /\ Known(st, i, p) /\ ~ z.failed
    /\ \E r \in Row :
          /\ z.rows = [st.rows EXCEPT ![i] = r]
          /\ r.place = p /\ r.hash = scan.found[p]
          /\ r.state \in {"discovered", "indexing", "error"}
          /\ r.state = "indexing" => st.rows[i].state = "indexing"
    /\ z.pairs = IF st.rows[i].hash # scan.found[p] THEN WithoutPairsOf(st.pairs, i)
                 ELSE st.pairs
    /\ z.seen = st.seen \cup {p} /\ z.todo = st.todo \cup {i}

\* Book i has moved here.
Moves(st, z, i, p) ==
    /\ Unknown(st, p) /\ i \in Movable(st, p, scan.found[p]) /\ ~ z.failed
    /\ \E r \in Row :
          /\ z.rows = [st.rows EXCEPT ![i] = r]
          /\ r.place = p /\ r.hash = scan.found[p] /\ r.state = "discovered"
    /\ z.pairs = st.pairs /\ i \in z.todo
    /\ z.todo \subseteq st.todo \cup {i}

\* The id of the place is taken.
Breaks(st, z, p) ==
    /\ Unknown(st, p) /\ Movable(st, p, scan.found[p]) = {} /\ st.rows[p] # NoRow
    /\ z.rows = st.rows /\ z.pairs = st.pairs /\ z.todo = st.todo /\ z.failed

\* A new book.
Adds(st, z, p) ==
    /\ Unknown(st, p) /\ st.rows[p] = NoRow /\ ~ z.failed
    /\ \E r \in Row :
          /\ z.rows = [st.rows EXCEPT ![p] = r]
          /\ r.place = p /\ r.hash = scan.found[p] /\ r.state = "discovered"
    /\ z.pairs = st.pairs
    /\ z.seen = st.seen \cup {p} /\ z.todo = st.todo \cup {p}

Enters(st, z, p) ==
    \/ Skips(st, z, p)
    \/ Takes(st, z, p) /\ \E i \in Places : Leaves(st, z, i, p)
    \/ Takes(st, z, p) /\ \E i \in Places : Renews(st, z, i, p)
    \/ Takes(st, z, p) /\ \E i \in Places : Moves(st, z, i, p)
    \/ Takes(st, z, p) /\ Breaks(st, z, p)
    \/ Takes(st, z, p) /\ Adds(st, z, p)

LEMMA RowSet == 
    /\ \A t \in Table, i \in Places : t[i] # NoRow => t[i] \in Row
    /\ \A t \in Table, i \in Places, r \in Row : [t EXCEPT ![i] = r] \in Table
    /\ \A i : \A ps \in SUBSET Pair : WithoutPairsOf(ps, i) \in SUBSET Pair
BY DEF Table, WithoutPairsOf

LEMMA RescannedEntry ==
    ASSUME NEW st \in Report, NEW p \in Places, NEW i \in Places, ~ st.failed,
           scan.found[p] \in Contents, Known(st, i, p)
    PROVE  LET z == Rescanned([st EXCEPT !.seen = @ \cup {p}], i, scan.found[p])
           IN  Takes(st, z, p) /\ (Leaves(st, z, i, p) \/ Renews(st, z, i, p))
<1> DEFINE hash == scan.found[p]
           s1 == [st EXCEPT !.seen = @ \cup {p}]
           row == st.rows[i]
           other == row.hash # hash
           next == IF i \in Audios \/ row.state \in {"missing", "ready"}
                   THEN "discovered" ELSE row.state
           r == [row EXCEPT !.hash = hash, !.state = next]
           stale == {"error", "missing", "discovered"}
           z == Rescanned(s1, i, hash)
<1>1. /\ s1 \in Report /\ s1.rows = st.rows /\ s1.pairs = st.pairs /\ s1.todo = st.todo
      /\ s1.seen = st.seen \cup {p} /\ s1.failed = st.failed
  BY DEF Report
<1>2. row \in Row /\ row.place = p
  BY RowSet DEF Report, Known
<1>3. r \in Row /\ r.place = p /\ r.hash = hash /\ r.state = next
  BY <1>2 DEF Row
<1>4. /\ next \in {"discovered", "indexing", "error"}
      /\ next = "indexing" => row.state = "indexing"
  BY <1>2 DEF Row
<1> HIDE DEF s1
<1>5. CASE other \/ row.state \in stale
  <2> DEFINE ps == IF other THEN WithoutPairsOf(s1.pairs, i) ELSE s1.pairs
             rs == [s1.rows EXCEPT ![i] = r]
             ts == s1.todo \cup {i}
  <2>1. z = [s1 EXCEPT !.rows = rs, !.pairs = ps, !.todo = ts]
    BY <1>1, <1>5 DEF Rescanned, RescannedWith, Report
  <2>2. rs \in Table /\ ps \in SUBSET Pair /\ ts \in SUBSET Places
    BY <1>1, <1>3, RowSet DEF Report
  <2>3. rs = [st.rows EXCEPT ![i] = r]
    BY <1>1
  <2>4. ps = IF other THEN WithoutPairsOf(st.pairs, i) ELSE st.pairs
    BY <1>1
  <2> HIDE DEF ps, rs, ts, z, r, other, row, next, hash
  <2>5. /\ z \in Report /\ z.rows = rs /\ z.pairs = ps /\ z.todo = ts
        /\ z.seen = s1.seen /\ z.failed = s1.failed
    BY <1>1, <2>1, <2>2 DEF Report
  <2>6. Takes(st, z, p)
    BY <1>1, <2>5 DEF Takes, ts
  <2>7. Renews(st, z, i, p)
    <3>1. z.pairs = IF st.rows[i].hash # scan.found[p] THEN WithoutPairsOf(st.pairs, i)
                 ELSE st.pairs
      BY <2>4, <2>5 DEF other, row, hash
    <3>2. /\ z.rows = [st.rows EXCEPT ![i] = r] /\ r \in Row
          /\ r.place = p /\ r.hash = scan.found[p]
          /\ r.state \in {"discovered", "indexing", "error"}
          /\ r.state = "indexing" => st.rows[i].state = "indexing"
      BY <1>3, <1>4, <2>3, <2>5 DEF hash, row
    <3>3. z.seen = st.seen \cup {p} /\ z.todo = st.todo \cup {i} /\ ~ z.failed
      BY <1>1, <2>5 DEF ts
    <3> QED BY <3>1, <3>2, <3>3 DEF Renews
  <2> QED BY <2>6, <2>7 DEF z, s1, hash
<1>6. CASE ~ (other \/ row.state \in stale)
  <2>1. z = s1
    BY <1>1, <1>6 DEF Rescanned, RescannedWith
  <2> HIDE DEF z
  <2>2. Takes(st, z, p) /\ Leaves(st, z, i, p)
    BY <1>1, <1>6, <2>1 DEF Takes, Leaves
  <2> QED BY <2>2 DEF z, s1
<1> QED BY <1>5, <1>6

LEMMA RelinkedEntry ==
    ASSUME NEW st \in Report, NEW p \in Places, ~ st.failed,
           scan.found[p] \in Contents, Unknown(st, p),
           NEW i \in Movable(st, p, scan.found[p])
    PROVE  LET z == Relinked([st EXCEPT !.seen = @ \cup {p}], i, p)
           IN  i \in Places /\ Takes(st, z, p) /\ Moves(st, z, i, p)
<1> DEFINE s1 == [st EXCEPT !.seen = @ \cup {p}]
           row == st.rows[i]
           r == [row EXCEPT !.place = p, !.state = "discovered"]
           rs == [st.rows EXCEPT ![i] = r]
           ss == st.seen \cup {p} \cup {i}
           ts == st.todo \cup {i}
           z == Relinked(s1, i, p)
<1>1. /\ s1 \in Report /\ s1.rows = st.rows /\ s1.pairs = st.pairs /\ s1.todo = st.todo
      /\ s1.seen = st.seen \cup {p} /\ s1.failed = st.failed
  BY DEF Report
<1>2. i \in Places /\ row # NoRow /\ row.hash = scan.found[p]
  BY DEF Movable
<1>3. row \in Row
  BY <1>2, RowSet DEF Report
<1>4. r \in Row /\ r.place = p /\ r.hash = row.hash /\ r.state = "discovered"
  BY <1>3 DEF Row
<1>5. rs \in Table /\ ss \in SUBSET Places /\ ts \in SUBSET Places
  BY <1>1, <1>2, <1>4, RowSet DEF Report
<1>6. z = [s1 EXCEPT !.rows = rs, !.seen = ss, !.todo = ts]
  BY <1>1, <1>2, <1>3 DEF Relinked, Report, Table, Row
<1> HIDE DEF s1, rs, ss, ts, z, r, row
<1>7. /\ z \in Report /\ z.rows = rs /\ z.seen = ss /\ z.todo = ts
      /\ z.pairs = s1.pairs /\ z.failed = s1.failed
  BY <1>1, <1>5, <1>6 DEF Report
<1>8. Takes(st, z, p)
  BY <1>1, <1>7 DEF Takes, ss, ts
<1>9. Moves(st, z, i, p)
  BY <1>1, <1>2, <1>4, <1>7 DEF Moves, rs, ts
<1> QED BY <1>2, <1>8, <1>9 DEF z, s1

LEMMA InsertedEntry ==
    ASSUME NEW st \in Report, NEW p \in Places, ~ st.failed,
           scan.found[p] \in Contents, Unknown(st, p), st.rows[p] = NoRow
    PROVE  LET z == Inserted([st EXCEPT !.seen = @ \cup {p}], p, scan.found[p])
           IN  Takes(st, z, p) /\ Adds(st, z, p)
<1> DEFINE s1 == [st EXCEPT !.seen = @ \cup {p}]
           r == [place |-> p, hash |-> scan.found[p], text |-> NoFile,
                 state |-> "discovered"]
           rs == [st.rows EXCEPT ![p] = r]
           ts == st.todo \cup {p}
           z == Inserted(s1, p, scan.found[p])
<1>1. /\ s1 \in Report /\ s1.rows = st.rows /\ s1.pairs = st.pairs /\ s1.todo = st.todo
      /\ s1.seen = st.seen \cup {p} /\ s1.failed = st.failed
  BY DEF Report
<1>2. r \in Row /\ r.place = p /\ r.hash = scan.found[p] /\ r.state = "discovered"
  BY DEF Row, File
<1>3. rs \in Table /\ ts \in SUBSET Places
  BY <1>2, RowSet DEF Report
<1>4. z = [s1 EXCEPT !.rows = rs, !.todo = ts]
  BY <1>1 DEF Inserted, Report
<1> HIDE DEF s1, rs, ts, z, r
<1>5. /\ z \in Report /\ z.rows = rs /\ z.seen = s1.seen /\ z.todo = ts
      /\ z.pairs = s1.pairs /\ z.failed = s1.failed
  BY <1>1, <1>3, <1>4 DEF Report
<1>6. Takes(st, z, p)
  BY <1>1, <1>5 DEF Takes, ts
<1>7. Adds(st, z, p)
  BY <1>1, <1>2, <1>5 DEF Adds, rs, ts
<1> QED BY <1>6, <1>7 DEF z, s1

\* Every entry is one of these.
LEMMA EntryCases ==
    ASSUME NEW st \in Report, NEW p \in Places, scan.found[p] \in File
    PROVE  Enters(st, ScanEntry(st, p), p)
<1> DEFINE hash == scan.found[p]
           s1 == [st EXCEPT !.seen = @ \cup {p}]
           known == {i \in Places : s1.rows[i] # NoRow /\ s1.rows[i].place = p}
           movable == Movable(s1, p, hash)
           z == ScanEntry(st, p)
<1>1. /\ s1 \in Report /\ s1.rows = st.rows /\ s1.pairs = st.pairs /\ s1.todo = st.todo
      /\ s1.seen = st.seen \cup {p} /\ s1.failed = st.failed
  BY DEF Report
<1>2. movable = Movable(st, p, hash)
  BY <1>1 DEF Movable
<1>3. CASE st.failed \/ hash = NoFile
  <2>1. z = st
    BY <1>3 DEF ScanEntry
  <2> QED BY <1>3, <2>1 DEF Enters, Skips
<1>4. CASE ~ st.failed /\ hash # NoFile
  <2>1. hash \in Contents
    BY <1>4 DEF File
  <2>2. \A i \in Places : i \in known <=> Known(st, i, p)
    BY <1>1 DEF Known
  <2>3. z = Entered(s1, p)
    BY <1>4 DEF ScanEntry
  <2> HIDE DEF s1
  <2>4. z = IF known # {} THEN Rescanned(s1, CHOOSE i \in known : TRUE, hash)
            ELSE IF movable # {} THEN Relinked(s1, CHOOSE i \in movable : TRUE, p)
            ELSE IF s1.rows[p] # NoRow THEN [s1 EXCEPT !.failed = TRUE]
            ELSE Inserted(s1, p, hash)
    BY <2>3 DEF Entered
  <2> HIDE DEF known, movable, z
  <2>5. CASE known # {}
    <3>1. PICK i : i = CHOOSE k \in known : TRUE
      OBVIOUS
    <3>2. i \in known /\ i \in Places
      BY <2>5, <3>1 DEF known
    <3>3. Known(st, i, p)
      BY <2>2, <3>2
    <3>4. z = Rescanned(s1, i, hash)
      BY <2>4, <2>5, <3>1
    <3>5. Takes(st, z, p) /\ (Leaves(st, z, i, p) \/ Renews(st, z, i, p))
      BY <1>4, <2>1, <3>2, <3>3, <3>4, RescannedEntry DEF s1
    <3> QED BY <3>2, <3>5 DEF Enters, z
  <2>6. CASE known = {} /\ movable # {}
    <3>1. PICK i : i = CHOOSE k \in movable : TRUE
      OBVIOUS
    <3>2. i \in movable /\ Unknown(st, p)
      BY <2>2, <2>6, <3>1 DEF Unknown
    <3>3. z = Relinked(s1, i, p)
      BY <2>4, <2>6, <3>1
    <3>4. i \in Places /\ Takes(st, z, p) /\ Moves(st, z, i, p)
      BY <1>2, <1>4, <2>1, <3>2, <3>3, RelinkedEntry DEF s1
    <3> QED BY <3>4 DEF Enters, z
  <2>7. CASE known = {} /\ movable = {} /\ st.rows[p] # NoRow
    <3>1. z = [s1 EXCEPT !.failed = TRUE]
      BY <1>1, <2>4, <2>7
    <3>2. Unknown(st, p) /\ Movable(st, p, scan.found[p]) = {}
      BY <1>2, <2>2, <2>7 DEF Unknown
    <3>3. /\ z \in Report /\ z.rows = s1.rows /\ z.seen = s1.seen /\ z.todo = s1.todo
          /\ z.pairs = s1.pairs /\ z.failed
      BY <1>1, <3>1 DEF Report
    <3>4. Takes(st, z, p) /\ Breaks(st, z, p)
      BY <1>1, <1>4, <2>1, <2>7, <3>2, <3>3 DEF Takes, Breaks
    <3> QED BY <3>4 DEF Enters, z
  <2>8. CASE known = {} /\ movable = {} /\ st.rows[p] = NoRow
    <3>1. z = Inserted(s1, p, hash)
      BY <1>1, <2>4, <2>8
    <3>2. Unknown(st, p)
      BY <2>2, <2>8 DEF Unknown
    <3>3. Takes(st, z, p) /\ Adds(st, z, p)
      BY <1>4, <2>1, <2>8, <3>1, <3>2, InsertedEntry DEF s1
    <3> QED BY <3>3 DEF Enters, z
  <2> QED BY <2>5, <2>6, <2>7, <2>8
<1> QED BY <1>3, <1>4

-----------------------------------------------------------------------------
(* What a scan does to the decisions.                                       *)

\* A book in service has a text, and no two books claim one place.
Shelved(t) ==
    \A i, k \in Places :
        /\ t[i] # NoRow /\ t[i].state = "ready" => t[i].text # NoFile
        /\ i # k /\ t[i] # NoRow /\ t[k] # NoRow => t[i].place # t[k].place

\* Books stay, pairs go with the bytes of one side, and bytes that have been
\* replaced are not replaced again by the same scan.
Kept(t) == \A i \in Places : rows[i] # NoRow => t[i] # NoRow
Undone(p, t) == \E i \in {p.e, p.a} : t[i].hash # rows[i].hash
ReplacedOnce(t) ==
    \A i \in Places : rows[i] # NoRow /\ t[i].hash # rows[i].hash =>
        scan.found[t[i].place] = t[i].hash /\ t[i].state # "missing"
Faithful(st) ==
    /\ st \in Report /\ Shelved(st.rows) /\ Kept(st.rows) /\ ReplacedOnce(st.rows)
    /\ \A i \in st.todo : st.rows[i] # NoRow
    /\ st.pairs \subseteq pairs
    /\ \A p \in pairs \ st.pairs : Undone(p, st.rows)

LEMMA PairSides ==
    ASSUME Typed, NEW p \in pairs
    PROVE  /\ p.e \in Places /\ p.a \in Places
           /\ rows[p.e] # NoRow /\ rows[p.a] # NoRow
BY DEF Typed, TypeOK, Pair, Places, BooksOfPairs

\* A book is put in the place of this entry, where no other book is.
LEMMA PutInPlace ==
    ASSUME Typed, NEW st, Faithful(st), NEW p \in Places, NEW i \in Places, NEW r \in Row,
           r.place = p, r.hash = scan.found[p], r.state \notin {"ready", "missing"},
           \A k \in Places \ {i} : ~ Known(st, k, p),
           NEW t, t = [st.rows EXCEPT ![i] = r],
           st.rows[i] # NoRow /\ st.rows[i].hash # rows[i].hash /\ rows[i] # NoRow
               => st.rows[i].hash = r.hash
    PROVE  /\ Shelved(t) /\ Kept(t) /\ ReplacedOnce(t)
           /\ \A q \in pairs \ st.pairs : Undone(q, t)
           /\ \A k \in Places : st.rows[k] # NoRow => t[k] # NoRow
<1>1. st.rows \in Table /\ t[i] = r /\ \A k \in Places \ {i} : t[k] = st.rows[k]
  BY DEF Faithful, Report, Table
<1>2. r # NoRow
  BY NoRowAssumption
<1>3. Shelved(t)
  BY <1>1, <1>2 DEF Faithful, Shelved, Known
<1>4. Kept(t) /\ \A k \in Places : st.rows[k] # NoRow => t[k] # NoRow
  BY <1>1, <1>2 DEF Faithful, Kept
<1>5. ReplacedOnce(t)
  BY <1>1 DEF Faithful, ReplacedOnce
<1>6. ASSUME NEW q \in pairs \ st.pairs
      PROVE  Undone(q, t)
  <2>1. PICK k \in {q.e, q.a} : st.rows[k].hash # rows[k].hash
    BY DEF Faithful, Undone
  <2>2. k \in Places /\ rows[k] # NoRow /\ st.rows[k] # NoRow
    BY PairSides DEF Faithful, Kept
  <2>3. t[k].hash = st.rows[k].hash
    BY <1>1, <2>1, <2>2
  <2> QED BY <2>1, <2>3 DEF Undone
<1> QED BY <1>3, <1>4, <1>5, <1>6

LEMMA EntryIsFaithful ==
    ASSUME Typed, NEW st, Faithful(st), NEW p \in Places, NEW z, Enters(st, z, p)
    PROVE  Faithful(z)
<1>1. CASE Skips(st, z, p)
  BY <1>1 DEF Skips
<1>2. CASE Takes(st, z, p) /\ \E i \in Places : Leaves(st, z, i, p)
  BY <1>2 DEF Takes, Leaves, Faithful
<1>3. CASE Takes(st, z, p) /\ Breaks(st, z, p)
  BY <1>3 DEF Takes, Breaks, Faithful
<1>4. CASE Takes(st, z, p) /\ \E i \in Places : Renews(st, z, i, p)
  <2>1. PICK i \in Places : Renews(st, z, i, p)
    BY <1>4
  <2>2. PICK r \in Row :
          /\ z.rows = [st.rows EXCEPT ![i] = r]
          /\ r.place = p /\ r.hash = scan.found[p]
          /\ r.state \in {"discovered", "indexing", "error"}
    BY <2>1 DEF Renews
  <2>3. Known(st, i, p) /\ \A k \in Places \ {i} : ~ Known(st, k, p)
    BY <2>1 DEF Renews, Faithful, Shelved, Known
  <2>4. st.rows[i].hash # rows[i].hash /\ rows[i] # NoRow => st.rows[i].hash = r.hash
    BY <2>2, <2>3 DEF Faithful, ReplacedOnce, Known
  <2>5. /\ Shelved(z.rows) /\ Kept(z.rows) /\ ReplacedOnce(z.rows)
        /\ \A q \in pairs \ st.pairs : Undone(q, z.rows)
        /\ \A k \in Places : st.rows[k] # NoRow => z.rows[k] # NoRow
    BY <2>2, <2>3, <2>4, PutInPlace
  <2>6. z \in Report /\ z.todo = st.todo \cup {i}
    BY <1>4, <2>1 DEF Takes, Renews
  <2>7. \A k \in z.todo : z.rows[k] # NoRow
    BY <2>3, <2>5, <2>6 DEF Faithful, Report, Known
  <2>8. z.pairs \subseteq st.pairs
    BY <2>1 DEF Renews, WithoutPairsOf
  <2>9. ASSUME NEW q \in pairs \ z.pairs
        PROVE  Undone(q, z.rows)
    <3>1. CASE q \notin st.pairs
      BY <2>5, <3>1
    <3>2. CASE q \in st.pairs
      <4>1. st.rows[i].hash # scan.found[p] /\ (q.e = i \/ q.a = i)
        BY <2>1, <3>2 DEF Renews, WithoutPairsOf
      <4>2. rows[i] # NoRow
        BY <4>1, PairSides
      <4>3. st.rows[i].hash = rows[i].hash
        BY <2>2, <2>4, <4>1, <4>2
      <4>4. z.rows[i] = r
        BY <2>2 DEF Faithful, Report, Table
      <4> QED BY <2>2, <4>1, <4>3, <4>4 DEF Undone
    <3> QED BY <3>1, <3>2
  <2> QED BY <2>5, <2>6, <2>7, <2>8, <2>9 DEF Faithful
<1>5. CASE Takes(st, z, p) /\ \E i \in Places : Moves(st, z, i, p)
  <2>1. PICK i \in Places : Moves(st, z, i, p)
    BY <1>5
  <2>2. PICK r \in Row :
          /\ z.rows = [st.rows EXCEPT ![i] = r]
          /\ r.place = p /\ r.hash = scan.found[p] /\ r.state = "discovered"
    BY <2>1 DEF Moves
  <2>3. st.rows[i] # NoRow /\ st.rows[i].hash = r.hash
    BY <2>1, <2>2 DEF Moves, Movable
  <2>4. /\ Shelved(z.rows) /\ Kept(z.rows) /\ ReplacedOnce(z.rows)
        /\ \A q \in pairs \ st.pairs : Undone(q, z.rows)
        /\ \A k \in Places : st.rows[k] # NoRow => z.rows[k] # NoRow
    <3>1. \A k \in Places \ {i} : ~ Known(st, k, p)
      BY <2>1 DEF Moves, Unknown
    <3> QED BY <2>2, <2>3, <3>1, PutInPlace
  <2>5. z \in Report /\ z.todo \subseteq st.todo \cup {i} /\ z.pairs = st.pairs
    BY <1>5, <2>1 DEF Takes, Moves
  <2>6. \A k \in z.todo : z.rows[k] # NoRow
    BY <2>3, <2>4, <2>5 DEF Faithful, Report
  <2> QED BY <2>4, <2>5, <2>6 DEF Faithful
<1>6. CASE Takes(st, z, p) /\ Adds(st, z, p)
  <2>1. PICK r \in Row :
          /\ z.rows = [st.rows EXCEPT ![p] = r]
          /\ r.place = p /\ r.hash = scan.found[p] /\ r.state = "discovered"
    BY <1>6 DEF Adds
  <2>2. st.rows[p] = NoRow /\ \A k \in Places \ {p} : ~ Known(st, k, p)
    BY <1>6 DEF Adds, Unknown
  <2>3. /\ Shelved(z.rows) /\ Kept(z.rows) /\ ReplacedOnce(z.rows)
        /\ \A q \in pairs \ st.pairs : Undone(q, z.rows)
        /\ \A k \in Places : st.rows[k] # NoRow => z.rows[k] # NoRow
    BY <2>1, <2>2, PutInPlace
  <2>4. z \in Report /\ z.todo = st.todo \cup {p} /\ z.pairs = st.pairs
    BY <1>6 DEF Takes, Adds
  <2>5. z.rows[p] # NoRow
    BY <2>1, NoRowAssumption DEF Faithful, Report, Table
  <2>6. \A k \in z.todo : z.rows[k] # NoRow
    BY <2>3, <2>4, <2>5 DEF Faithful, Report
  <2> QED BY <2>3, <2>4, <2>6 DEF Faithful
<1> QED BY <1>1, <1>2, <1>3, <1>4, <1>5, <1>6 DEF Enters

\* The whole report.
LEMMA AppliedIsFaithful ==
    ASSUME Typed
    PROVE  Faithful(Applied)
<1> DEFINE S == {n \in Nat : Faithful(AppliedUpTo[n])}
           L == Len(WalkOrder)
<1>1. Faithful(Applying)
  <2>1. Applying \in Report /\ Applying.rows = rows /\ Applying.pairs = pairs
        /\ Applying.todo = {}
    BY DEF Applying, Report, Table, Typed, TypeOK
  <2>2. Shelved(rows) /\ Kept(rows) /\ ReplacedOnce(rows)
    BY DEF Typed, TypeOK, Shelved, Kept, ReplacedOnce
  <2> QED BY <2>1, <2>2 DEF Faithful
<1>2. L \in Nat /\ 0 \in S
  BY <1>1, AppliedSteps
<1>3. ASSUME NEW n \in 1..L, n - 1 \in S
      PROVE  n \in S
  <2>1. n \in Nat /\ WalkOrder[n] \in Places /\ Faithful(AppliedUpTo[n - 1])
        /\ AppliedUpTo[n] = ScanEntry(AppliedUpTo[n - 1], WalkOrder[n])
    BY <1>2, <1>3, AppliedSteps
  <2>2. PICK st : st = AppliedUpTo[n - 1]
    OBVIOUS
  <2>3. PICK p : p = WalkOrder[n]
    OBVIOUS
  <2>4. st \in Report /\ p \in Places /\ Faithful(st) /\ scan.found[p] \in File
    BY <2>1, <2>2, <2>3 DEF Faithful, Typed, TypeOK
  <2>5. Faithful(ScanEntry(st, p))
    BY <2>4, EntryCases, EntryIsFaithful
  <2> QED BY <2>1, <2>2, <2>3, <2>5
<1> HIDE DEF S, L
<1>4. L \in S
  <2>1. \A n \in 0..L : n \in S
    BY <1>2, <1>3, UpTo
  <2> QED BY <1>2, <2>1
<1> QED BY <1>4 DEF S, L, Applied

-----------------------------------------------------------------------------
(* Types.                                                                   *)

LEMMA TypeFacts ==
    ASSUME Typed
    PROVE  /\ rows \in Table /\ Shelved(rows) /\ pairs \subseteq Pair
           /\ \A i \in Places : rows[i] # NoRow => rows[i] \in Row
           /\ \A p \in Places : Seen(p) \in File
BY DEF Typed, TypeOK, Table, Shelved, Seen, File

LEMMA InitTyped == Init => Typed
<1> SUFFICES ASSUME Init PROVE Typed
  OBVIOUS
<1>1. files \in [Places -> File] /\ mounted \in BOOLEAN
  BY DEF Init, File
<1>2. rows \in [Places -> Row \cup {NoRow}] /\ pairs \subseteq Pair
      /\ \A i \in Places : rows[i] = NoRow
  BY DEF Init
<1>3. job \in [JobKeys -> {"none", "queued", "running"}]
  BY DEF Init
<1>4. reading \in [Places -> [place : Places \cup {NoFile}, text : File]]
  BY DEF Init, NotReading, File
<1>5. scan \in [phase : {"idle", "walking", "enqueueing"}, todo : SUBSET Places,
                at : 1..(Len(WalkOrder) + 1), found : [Places -> File]]
  <2>1. Len(WalkOrder) \in Nat
    BY WalkReportsEveryPlace
  <2> QED BY <2>1 DEF Init, NoScan, File
<1>6. BooksOfJobs
  BY DEF Init, BooksOfJobs, JobKeys, NoScan
<1>7. BooksOfPairs /\ Counting
  BY BoundsAssumption DEF Init, BooksOfPairs, Counting
<1> QED BY <1>1, <1>2, <1>3, <1>4, <1>5, <1>6, <1>7 DEF Typed, TypeOK

\* What the tables and the local states are made of.
Scan == [phase : {"idle", "walking", "enqueueing"}, todo : SUBSET Places,
         at : 1..(Len(WalkOrder) + 1), found : [Places -> File]]
Jobs == [JobKeys -> {"none", "queued", "running"}]
Readings == [Places -> [place : Places \cup {NoFile}, text : File]]

\* A step that leaves the folders alone.
LEMMA TablesTyped ==
    ASSUME Typed, files' = files, mounted' = mounted, Counting',
           rows' \in Table, Shelved(rows'), pairs' \subseteq Pair, job' \in Jobs,
           scan' \in Scan, reading' \in Readings,
           BooksOfJobs', BooksOfPairs'
    PROVE  Typed'
<1>1. TypeOK'
  BY DEF Typed, TypeOK, Table, Jobs, Scan, Readings, Shelved
<1> QED BY <1>1 DEF Typed

LEMMA JobsTyped ==
    ASSUME Typed
    PROVE  /\ job \in Jobs /\ scan \in Scan /\ reading \in Readings /\ NoScan \in Scan
           /\ \A J : Queued(job, J) \in Jobs
           /\ \A j \in JobKeys : Finished(job, j) \in Jobs /\ Claimed(j) \in Jobs
           /\ \A js \in Jobs, j \in JobKeys : Finished(js, j) \in Jobs
<1>1. job \in Jobs /\ scan \in Scan /\ reading \in Readings
  BY DEF Typed, TypeOK, Jobs, Scan, Readings
<1>2. NoScan \in Scan
  <2>1. Len(WalkOrder) \in Nat
    BY WalkReportsEveryPlace
  <2> QED BY <2>1 DEF NoScan, Scan, File
<1>3. \A J : Queued(job, J) \in Jobs
  BY <1>1 DEF Queued, Jobs
<1>4. \A j \in JobKeys : Finished(job, j) \in Jobs /\ Claimed(j) \in Jobs
  BY <1>1 DEF Finished, Claimed, Jobs
<1>5. \A js \in Jobs, j \in JobKeys : Finished(js, j) \in Jobs
  BY DEF Finished, Jobs
<1> QED BY <1>1, <1>2, <1>3, <1>4, <1>5

LEMMA Keys == /\ Places \subseteq JobKeys /\ PairJobs \subseteq JobKeys /\ "scan" \in JobKeys
              /\ \A i \in Places : i # "scan" /\ i \notin PairJobs
              /\ "scan" \notin PairJobs
BY KeysApart DEF JobKeys, PairJobs

LEMMA FolderTyped ==
    ASSUME Typed, FolderStep \/ Remount
    PROVE  Typed'
<1> USE DEF tables
<1>1. ASSUME NEW p \in Places, WriteFile(p) PROVE Typed'
  <2>1. spent.writes + 1 \in Contents /\ spent'.writes = spent.writes + 1
        /\ Counting'
    BY <1>1, BoundsAssumption DEF WriteFile, Typed, Counting, Contents
  <2>2. files' \in [Places -> File]
    BY <1>1, <2>1 DEF WriteFile, Typed, TypeOK, File
  <2>3. TypeOK' /\ BooksOfJobs' /\ BooksOfPairs'
    BY <1>1, <2>2 DEF WriteFile, Typed, TypeOK, BooksOfJobs, BooksOfPairs
  <2> QED BY <2>1, <2>3 DEF Typed
<1>2. ASSUME NEW p \in Places, RemoveFile(p) PROVE Typed'
  <2>1. files' \in [Places -> File]
    BY <1>2 DEF RemoveFile, Typed, TypeOK, File
  <2>2. TypeOK' /\ BooksOfJobs' /\ BooksOfPairs' /\ Counting'
    BY <1>2, <2>1 DEF RemoveFile, Typed, TypeOK, BooksOfJobs, BooksOfPairs, Counting
  <2> QED BY <2>2 DEF Typed
<1>3. ASSUME NEW p \in Places, NEW q \in Places, MoveFile(p, q) PROVE Typed'
  <2>1. files' \in [Places -> File]
    BY <1>3 DEF MoveFile, Typed, TypeOK, File
  <2>2. TypeOK' /\ BooksOfJobs' /\ BooksOfPairs'
    BY <1>3, <2>1 DEF MoveFile, Typed, TypeOK, BooksOfJobs, BooksOfPairs
  <2>3. Counting'
    BY <1>3 DEF MoveFile, Typed, Counting
  <2> QED BY <2>2, <2>3 DEF Typed
<1>4. ASSUME Unmount \/ Remount PROVE Typed'
  <2>1. TypeOK' /\ BooksOfJobs' /\ BooksOfPairs'
    BY <1>4 DEF Unmount, Remount, Typed, TypeOK, BooksOfJobs, BooksOfPairs
  <2>2. Counting'
    BY <1>4 DEF Unmount, Remount, Typed, Counting
  <2> QED BY <2>1, <2>2 DEF Typed
<1> QED BY <1>1, <1>2, <1>3, <1>4 DEF FolderStep

\* A step that only starts or ends jobs, queues them, or reads on.
LEMMA QueueTyped ==
    ASSUME Typed, files' = files, mounted' = mounted, Counting', rows' = rows,
           pairs' = pairs, job' \in Jobs, scan' \in Scan, reading' \in Readings,
           \A i \in scan'.todo : i \in scan.todo,
           \A i \in Places : job'[i] # "none" => job[i] # "none" \/ i \in scan.todo,
           \A i \in Places : job'[i] = "running" =>
              job[i] = "running" /\ reading'[i].place = reading[i].place
    PROVE  Typed'
<1>1. rows' \in Table /\ Shelved(rows') /\ pairs' \subseteq Pair
  BY TypeFacts
<1>2. BooksOfJobs'
  <2>1. \A i \in Places : job'[i] # "none" => rows'[i] # NoRow
    BY DEF Typed, BooksOfJobs
  <2>2. \A i \in Places : job'[i] = "running" => reading'[i].place \in Places
    BY DEF Typed, BooksOfJobs
  <2>3. \A i \in scan'.todo : rows'[i] # NoRow
    BY DEF Typed, BooksOfJobs
  <2> QED BY <2>1, <2>2, <2>3 DEF BooksOfJobs
<1>3. BooksOfPairs'
  BY DEF Typed, BooksOfPairs
<1> QED BY <1>1, <1>2, <1>3, TablesTyped

LEMMA CountingSame == Typed /\ spent' = spent => Counting'
BY DEF Typed, Counting

LEMMA RequestTyped ==
    ASSUME Typed, RequestScan \/ TimedScan
    PROVE  Typed'
<1>1. /\ files' = files /\ mounted' = mounted /\ rows' = rows /\ pairs' = pairs
      /\ scan' = scan /\ reading' = reading /\ job' = Queued(job, {"scan"})
  BY DEF RequestScan, TimedScan
<1>2. Counting'
  BY DEF RequestScan, TimedScan, Typed, Counting
<1>3. job' \in Jobs /\ scan' \in Scan /\ reading' \in Readings
  BY <1>1, JobsTyped
<1>4. \A i \in Places : job'[i] = job[i]
  BY <1>1, Keys DEF Queued
<1> QED BY <1>1, <1>2, <1>3, <1>4, QueueTyped

LEMMA InterruptTyped ==
    ASSUME Typed, NEW j \in JobKeys, Interrupt(j)
    PROVE  Typed'
<1>1. /\ files' = files /\ mounted' = mounted /\ rows' = rows /\ pairs' = pairs
      /\ job[j] = "running" /\ job' = [job EXCEPT ![j] = "queued"]
      /\ scan' = IF j = "scan" THEN NoScan ELSE scan
      /\ reading' = [i \in Places |-> IF i = j THEN NotReading ELSE reading[i]]
  BY DEF Interrupt
<1>2. Counting'
  BY DEF Interrupt, Typed, Counting
<1>3. job' \in Jobs /\ scan' \in Scan /\ reading' \in Readings
  <2>1. job \in Jobs /\ reading \in Readings /\ NotReading \in [place : Places \cup {NoFile}, text : File]
    BY JobsTyped DEF NotReading, File
  <2>2. job' \in Jobs /\ reading' \in Readings
    BY <1>1, <2>1 DEF Jobs, Readings
  <2> QED BY <1>1, <2>2, JobsTyped
<1>4. \A i \in scan'.todo : i \in scan.todo
  BY <1>1 DEF NoScan
<1>5. \A i \in Places : job'[i] # "none" => job[i] # "none"
  BY <1>1, Keys, JobsTyped DEF Jobs
<1>6. \A i \in Places : job'[i] = "running" => 
         job[i] = "running" /\ reading'[i].place = reading[i].place
  <2> SUFFICES ASSUME NEW i \in Places, job'[i] = "running"
               PROVE  job[i] = "running" /\ reading'[i].place = reading[i].place
    OBVIOUS
  <2>1. i # j /\ job'[i] = job[i]
    BY <1>1, Keys, JobsTyped DEF Jobs
  <2>2. reading'[i] = reading[i]
    BY <1>1, <2>1
  <2> QED BY <2>1, <2>2
<1> QED BY <1>1, <1>2, <1>3, <1>4, <1>5, <1>6, QueueTyped

LEMMA WalkTyped ==
    ASSUME Typed, StartScan \/ WalkOn \/ FinishScan \/ (\E i \in Places : EnqueueIndex(i))
    PROVE  Typed'
<1>1. /\ files' = files /\ mounted' = mounted /\ rows' = rows /\ pairs' = pairs
      /\ reading' = reading /\ spent' = spent /\ Counting'
  BY CountingSame DEF StartScan, WalkOn, FinishScan, EnqueueIndex
<1>2. CASE StartScan
  <2>1. job' \in Jobs /\ reading' \in Readings
    BY <1>1, <1>2, JobsTyped, Keys DEF StartScan
  <2>2. scan' \in Scan /\ scan'.todo = {}
    <3>1. Len(WalkOrder) \in Nat
      BY WalkReportsEveryPlace
    <3> QED BY <1>2, <3>1 DEF StartScan, NoScan, Scan, File
  <2>3. \A i \in Places : job'[i] = job[i]
    BY <1>2, Keys, JobsTyped DEF StartScan, Claimed, Jobs
  <2> QED BY <1>1, <2>1, <2>2, <2>3, QueueTyped
<1>3. CASE WalkOn
  <2>1. job' = job /\ job' \in Jobs /\ reading' \in Readings
    BY <1>1, <1>3, JobsTyped DEF WalkOn
  <2>2. scan' \in Scan /\ scan'.todo = scan.todo
    <3>1. Len(WalkOrder) \in Nat /\ scan \in Scan /\ scan.at <= Len(WalkOrder)
      BY <1>3, WalkReportsEveryPlace, JobsTyped DEF WalkOn
    <3>2. PICK p : p = WalkOrder[scan.at]
      OBVIOUS
    <3>3. PICK f : f = Seen(p)
      OBVIOUS
    <3>4. p \in Places /\ f \in File
      <4>1. scan.at \in 1..Len(WalkOrder)
        BY <3>1 DEF Scan
      <4> QED BY <3>2, <3>3, <4>1, AppliedSteps, TypeFacts
    <3>5. scan' = [scan EXCEPT !.at = @ + 1, !.found[p] = f]
      BY <1>3, <3>2, <3>3 DEF WalkOn
    <3> DEFINE fs == [scan.found EXCEPT ![p] = f]
    <3>6. fs \in [Places -> File] /\ scan.at + 1 \in 1..(Len(WalkOrder) + 1)
      BY <3>1, <3>4 DEF Scan
    <3>7. scan' = [scan EXCEPT !.at = scan.at + 1, !.found = fs]
      BY <3>1, <3>5 DEF Scan
    <3> HIDE DEF fs
    <3> QED BY <3>1, <3>6, <3>7 DEF Scan
  <2> QED BY <1>1, <2>1, <2>2, QueueTyped
<1>4. CASE FinishScan
  <2>1. PICK js : js = Queued(job, {"pair-scan"})
    OBVIOUS
  <2>2. js \in Jobs /\ \A i \in Places : js[i] = job[i]
    BY <2>1, Keys, JobsTyped DEF Queued, PairJobs
  <2>3. job' = Finished(js, "scan")
    BY <1>4, <2>1 DEF FinishScan
  <2>4. job' \in Jobs /\ scan' \in Scan /\ reading' \in Readings /\ scan'.todo = {}
    BY <1>1, <1>4, <2>2, <2>3, JobsTyped, Keys DEF FinishScan, NoScan
  <2>5. \A i \in Places : job'[i] = job[i]
    BY <2>2, <2>3, Keys DEF Finished, Jobs
  <2> QED BY <1>1, <2>4, <2>5, QueueTyped
<1>5. ASSUME NEW i \in Places, EnqueueIndex(i)
      PROVE  Typed'
  <2>1. job' \in Jobs /\ reading' \in Readings /\ i \in scan.todo
    BY <1>1, <1>5, JobsTyped DEF EnqueueIndex
  <2>2. scan' \in Scan /\ scan'.todo \subseteq scan.todo
    BY <1>5, JobsTyped DEF EnqueueIndex, Scan
  <2>3. \A k \in Places : job'[k] # "none" => job[k] # "none" \/ k \in scan.todo
    BY <1>5, Keys DEF EnqueueIndex, Queued
  <2>4. \A k \in Places : job'[k] = "running" => job[k] = "running"
    BY <1>5, Keys DEF EnqueueIndex, Queued
  <2> QED BY <1>1, <2>1, <2>2, <2>3, <2>4, QueueTyped
<1> QED BY <1>2, <1>3, <1>4, <1>5

LEMMA ApplyTyped ==
    ASSUME Typed, ApplyScan \/ ScanFails
    PROVE  Typed'
<1>1. /\ files' = files /\ mounted' = mounted /\ reading' = reading /\ Counting'
      /\ pairs' = Applied.pairs
      /\ rows' = WithMissing(Applied) \/ rows' = Applied.rows
  BY CountingSame DEF ApplyScan, ScanFails
<1>2. PICK st : st = Applied
  OBVIOUS
<1>3. Faithful(st)
  BY <1>2, AppliedIsFaithful
<1>4. st.rows \in Table /\ \A i \in Places : st.rows[i] # NoRow => st.rows[i] \in Row
  BY <1>3, RowSet DEF Faithful, Report
<1>5. \A i \in Places :
         \/ rows'[i] = st.rows[i]
         \/ st.rows[i] # NoRow /\ rows'[i] = [st.rows[i] EXCEPT !.state = "missing"]
  BY <1>1, <1>2 DEF WithMissing
<1>6. \A r \in Row : LET m == [r EXCEPT !.state = "missing"]
                     IN  m \in Row /\ m.place = r.place /\ m.state = "missing" /\ m # NoRow
  BY NoRowAssumption DEF Row
<1>7. rows' = [i \in Places |-> rows'[i]]
  BY <1>1, <1>2, <1>4 DEF WithMissing, Table
<1>8. \A i \in Places : /\ rows'[i] \in Row \cup {NoRow}
                        /\ rows'[i] # NoRow <=> st.rows[i] # NoRow
                        /\ rows'[i] # NoRow => rows'[i].place = st.rows[i].place
                        /\ rows'[i] # NoRow /\ rows'[i].state = "ready"
                              => rows'[i] = st.rows[i]
  BY <1>4, <1>5, <1>6
<1>9. rows' \in Table /\ Shelved(rows')
  <2>1. rows' \in Table
    BY <1>7, <1>8 DEF Table
  <2>2. Shelved(rows')
    BY <1>3, <1>8 DEF Faithful, Shelved
  <2> QED BY <2>1, <2>2
<1>10. pairs' \subseteq pairs /\ pairs' \subseteq Pair
  BY <1>1, <1>2, <1>3, TypeFacts DEF Faithful
<1>11. /\ job' \in Jobs /\ scan' \in Scan /\ reading' \in Readings
       /\ \A i \in scan'.todo : i \in st.todo
       /\ \A i \in Places : job'[i] = job[i]
  <2>1. CASE ApplyScan
    <3>1. st.todo \in SUBSET Places /\ Len(WalkOrder) \in Nat
      BY <1>3, WalkReportsEveryPlace DEF Faithful, Report
    <3>2. job' = job /\ scan' = [NoScan EXCEPT !.phase = "enqueueing", !.todo = st.todo]
      BY <1>2, <2>1 DEF ApplyScan
    <3> QED BY <1>1, <3>1, <3>2, JobsTyped DEF Scan
  <2>2. CASE ScanFails
    <3>1. job' = Finished(job, "scan") /\ scan' = NoScan
      BY <2>2 DEF ScanFails
    <3> QED BY <1>1, <3>1, Keys, JobsTyped DEF Finished, Jobs, NoScan
  <2> QED BY <2>1, <2>2
<1>12. BooksOfJobs'
  <2>1. \A i \in Places : rows[i] # NoRow => rows'[i] # NoRow
    BY <1>3, <1>8 DEF Faithful, Kept
  <2>2. \A i \in scan'.todo : rows'[i] # NoRow
    BY <1>3, <1>8, <1>11 DEF Faithful, Report
  <2> QED BY <1>1, <1>11, <2>1, <2>2 DEF Typed, BooksOfJobs
<1>13. BooksOfPairs'
  <2> SUFFICES ASSUME NEW p \in pairs' PROVE rows'[p.e] # NoRow /\ rows'[p.a] # NoRow
    BY DEF BooksOfPairs
  <2>1. p.e \in Places /\ p.a \in Places /\ rows[p.e] # NoRow /\ rows[p.a] # NoRow
    BY <1>10, PairSides
  <2> QED BY <1>3, <1>8, <2>1 DEF Faithful, Kept
<1> QED BY <1>1, <1>9, <1>10, <1>11, <1>12, <1>13, TablesTyped

\* An index job writes its book's row, and nothing but its state and text.
LEMMA RowWritten ==
    ASSUME Typed, NEW i \in Places, rows[i] # NoRow, NEW r \in Row,
           r.place = rows[i].place, r.state = "ready" => r.text # NoFile,
           rows' = [rows EXCEPT ![i] = r]
    PROVE  /\ rows' \in Table /\ Shelved(rows')
           /\ \A k \in Places : rows'[k] # NoRow <=> rows[k] # NoRow
<1>1. rows' \in Table /\ rows'[i] = r /\ \A k \in Places \ {i} : rows'[k] = rows[k]
  BY TypeFacts DEF Table
<1>2. Shelved(rows)
  BY TypeFacts
<1> QED BY <1>1, <1>2, NoRowAssumption DEF Shelved

\* The row an index job writes.
IndexRow(i, r) ==
    /\ rows' = [rows EXCEPT ![i] = r]
    /\ r.place = rows[i].place /\ r.hash = rows[i].hash
    /\ r.state \in {"indexing", "error", "ready"}

LEMMA StartWrites ==
    ASSUME Typed, NEW i \in Places, StartIndex(i)
    PROVE  \E r \in Row : IndexRow(i, r) /\ r.state = "indexing" /\ rows[i] # NoRow
<1> DEFINE r == [rows[i] EXCEPT !.state = "indexing"]
<1>1. rows[i] # NoRow /\ rows[i] \in Row
  BY TypeFacts DEF StartIndex, Claimable, Typed, BooksOfJobs
<1>2. rows' = [rows EXCEPT ![i] = r]
  BY DEF StartIndex
<1>3. r \in Row /\ r.place = rows[i].place /\ r.hash = rows[i].hash /\ r.state = "indexing"
  BY <1>1 DEF Row
<1> HIDE DEF r
<1> QED BY <1>1, <1>2, <1>3 DEF IndexRow

LEMMA FailWrites ==
    ASSUME Typed, NEW i \in Places, IndexFails(i)
    PROVE  \E r \in Row : IndexRow(i, r) /\ r.state = "error" /\ rows[i] # NoRow
<1> DEFINE r == [rows[i] EXCEPT !.state = "error"]
<1>1. rows[i] # NoRow /\ rows[i] \in Row
  BY TypeFacts DEF IndexFails, Typed, BooksOfJobs
<1>2. rows' = [rows EXCEPT ![i] = r]
  BY DEF IndexFails
<1>3. r \in Row /\ r.place = rows[i].place /\ r.hash = rows[i].hash /\ r.state = "error"
  BY <1>1 DEF Row
<1> HIDE DEF r
<1> QED BY <1>1, <1>2, <1>3 DEF IndexRow

LEMMA PublishWrites ==
    ASSUME Typed, NEW i \in Places, PublishIndex(i)
    PROVE  \E r \in Row : /\ IndexRow(i, r) /\ r.state = "ready" /\ r.text # NoFile
                          /\ rows[i] # NoRow
<1> DEFINE text == reading[i].text
           r == [rows[i] EXCEPT !.state = "ready", !.text = text]
<1>1. rows[i] # NoRow /\ rows[i] \in Row
  BY TypeFacts DEF PublishIndex, Typed, BooksOfJobs
<1>2. text # NoFile /\ text \in File
  BY JobsTyped DEF PublishIndex, Readings
<1>3. rows' = [rows EXCEPT ![i] = r]
  BY <1>1, TypeFacts DEF PublishIndex, Table, Row
<1> HIDE DEF text
<1>4. /\ r \in Row /\ r.place = rows[i].place /\ r.hash = rows[i].hash
      /\ r.state = "ready" /\ r.text = text
  BY <1>1, <1>2 DEF Row
<1> HIDE DEF r
<1> QED BY <1>1, <1>2, <1>3, <1>4 DEF IndexRow

LEMMA IndexTyped ==
    ASSUME Typed, NEW i \in Places,
           StartIndex(i) \/ ReadFile(i) \/ IndexFails(i) \/ PublishIndex(i)
    PROVE  Typed'
<1>1. /\ files' = files /\ mounted' = mounted /\ pairs' = pairs /\ scan' = scan
      /\ spent' = spent /\ Counting'
  BY CountingSame DEF StartIndex, ReadFile, IndexFails, PublishIndex
<1>2. scan' \in Scan /\ pairs' \subseteq Pair /\ job \in Jobs /\ reading \in Readings
      /\ i \in JobKeys
  BY <1>1, JobsTyped, TypeFacts, Keys
<1>3. CASE ReadFile(i)
  <2>1. PICK f : f = Seen(reading[i].place)
    OBVIOUS
  <2>2. reading[i].place \in Places /\ f \in File
    BY <1>3, <2>1, TypeFacts DEF ReadFile, Typed, BooksOfJobs
  <2> DEFINE r == [reading[i] EXCEPT !.text = f]
  <2>3. reading' = [reading EXCEPT ![i] = r]
    BY <1>3, <2>1 DEF ReadFile
  <2>4. r \in [place : Places \cup {NoFile}, text : File] /\ r.place = reading[i].place
    BY <1>2, <2>2 DEF Readings
  <2> HIDE DEF r
  <2>5. reading' \in Readings /\ \A k \in Places : reading'[k].place = reading[k].place
    BY <1>2, <2>3, <2>4 DEF Readings
  <2>6. rows' = rows /\ job' = job
    BY <1>3 DEF ReadFile
  <2> QED BY <1>1, <1>2, <2>5, <2>6, QueueTyped
<1>4. CASE ~ ReadFile(i)
  <2>1. PICK r \in Row : IndexRow(i, r) /\ rows[i] # NoRow
                         /\ (r.state = "ready" => r.text # NoFile)
    BY <1>4, StartWrites, FailWrites, PublishWrites
  <2>2. /\ rows' \in Table /\ Shelved(rows')
        /\ \A k \in Places : rows'[k] # NoRow <=> rows[k] # NoRow
    BY <2>1, RowWritten DEF IndexRow
  <2>3. BooksOfPairs'
    <3> SUFFICES ASSUME NEW p \in pairs' PROVE rows'[p.e] # NoRow /\ rows'[p.a] # NoRow
      BY DEF BooksOfPairs
    <3> QED BY <1>1, <2>2, PairSides
  <2>4. job' \in Jobs /\ \A k \in Places : job'[k] # "none" => job[k] # "none"
    <3>1. \/ job' = [job EXCEPT ![i] = "running"] /\ job[i] = "queued"
          \/ job' = [job EXCEPT ![i] = "none"]
      BY <1>4 DEF StartIndex, IndexFails, PublishIndex, Claimable, Claimed, Finished
    <3> QED BY <1>2, <3>1, Keys DEF Jobs
  <2>5. /\ reading' \in Readings
        /\ \A k \in Places : job'[k] = "running" => reading'[k].place \in Places
    <3>1. CASE StartIndex(i)
      <4> DEFINE r0 == [place |-> rows[i].place, text |-> NoFile]
      <4>1. rows[i].place \in Places
        BY <2>1, TypeFacts DEF Row
      <4>2. r0 \in [place : Places \cup {NoFile}, text : File] /\ r0.place \in Places
        BY <4>1 DEF File
      <4>3. reading' = [reading EXCEPT ![i] = r0] /\ job' = [job EXCEPT ![i] = "running"]
        BY <3>1 DEF StartIndex, Claimed
      <4> HIDE DEF r0
      <4>4. reading' \in Readings
        BY <1>2, <4>2, <4>3 DEF Readings
      <4>5. \A k \in Places : job'[k] = "running" => reading'[k].place \in Places
        BY <1>2, <4>2, <4>3 DEF Typed, BooksOfJobs, Jobs, Readings
      <4> QED BY <4>4, <4>5
    <3>2. CASE ~ StartIndex(i)
      <4>1. reading' = [reading EXCEPT ![i] = NotReading] /\ job' = [job EXCEPT ![i] = "none"]
        BY <1>4, <3>2 DEF IndexFails, PublishIndex, Finished
      <4>2. NotReading \in [place : Places \cup {NoFile}, text : File]
        BY DEF NotReading, File
      <4>3. reading' \in Readings
        BY <1>2, <4>1, <4>2 DEF Readings
      <4>4. \A k \in Places : job'[k] = "running" => reading'[k].place \in Places
        BY <1>2, <4>1 DEF Typed, BooksOfJobs, Jobs, Readings
      <4> QED BY <4>3, <4>4
    <3> QED BY <3>1, <3>2
  <2>6. BooksOfJobs'
    BY <1>1, <1>2, <2>2, <2>4, <2>5 DEF Typed, BooksOfJobs, Scan
  <2> QED BY <1>1, <1>2, <2>2, <2>3, <2>4, <2>5, <2>6, TablesTyped
<1> QED BY <1>3, <1>4

\* A step that changes the pairs, and perhaps pairing scans.
LEMMA PairsTyped ==
    ASSUME Typed, files' = files, mounted' = mounted, rows' = rows, scan' = scan,
           reading' = reading, Counting', pairs' \subseteq Pair, job' \in Jobs,
           \A p \in pairs' : rows[p.e] # NoRow /\ rows[p.a] # NoRow,
           \A i \in Places : job'[i] = job[i]
    PROVE  Typed'
<1>1. rows' \in Table /\ Shelved(rows') /\ scan' \in Scan /\ reading' \in Readings
  BY TypeFacts, JobsTyped
<1>2. BooksOfJobs' /\ BooksOfPairs'
  BY DEF Typed, BooksOfJobs, BooksOfPairs
<1> QED BY <1>1, <1>2, TablesTyped

LEMMA PairStepTyped ==
    ASSUME Typed, NEW j \in PairJobs,
           ComparePairs(j) \/ PutOffPairScan(j) \/ ComeBackLater(j)
    PROVE  Typed'
<1>1. /\ files' = files /\ mounted' = mounted /\ rows' = rows /\ scan' = scan
      /\ reading' = reading /\ spent' = spent /\ Counting'
  BY CountingSame DEF ComparePairs, PutOffPairScan, ComeBackLater
<1>2. j \in JobKeys /\ job \in Jobs /\ pairs \subseteq Pair
  BY Keys, JobsTyped, TypeFacts
<1>3. job' \in Jobs /\ \A i \in Places : job'[i] = job[i]
  <2>1. CASE ComparePairs(j) \/ PutOffPairScan(j)
    BY <1>2, <2>1, Keys, JobsTyped DEF ComparePairs, PutOffPairScan, Finished, Claimed, Jobs
  <2>2. CASE ComeBackLater(j)
    <3>1. PICK js : js = Queued(job, {"pair-scan-retry"})
      OBVIOUS
    <3>2. js \in Jobs /\ \A i \in Places : js[i] = job[i]
      BY <3>1, Keys, JobsTyped DEF Queued, PairJobs
    <3>3. job' = Finished(js, j)
      BY <2>2, <3>1 DEF ComeBackLater
    <3> QED BY <1>2, <3>2, <3>3, Keys DEF Finished, Jobs
  <2> QED BY <2>1, <2>2
<1>4. pairs' \subseteq Pair /\ \A p \in pairs' : rows[p.e] # NoRow /\ rows[p.a] # NoRow
  <2>1. \A p \in pairs : rows[p.e] # NoRow /\ rows[p.a] # NoRow
    BY PairSides
  <2>2. CASE ComparePairs(j)
    BY <1>2, <2>1, <2>2 DEF ComparePairs, Decided, Offered, InService
  <2>3. CASE ~ ComparePairs(j)
    BY <1>2, <2>1, <2>3 DEF PutOffPairScan, ComeBackLater
  <2> QED BY <2>2, <2>3
<1> QED BY <1>1, <1>3, <1>4, PairsTyped

LEMMA CuratorTyped ==
    ASSUME Typed, CuratorStep
    PROVE  Typed'
<1>1. /\ files' = files /\ mounted' = mounted /\ rows' = rows /\ scan' = scan
      /\ reading' = reading /\ job' = job
  BY DEF CuratorStep, Decide, LinkByHand
<1>2. Counting'
  BY DEF CuratorStep, Typed, Counting
<1>3. job' \in Jobs /\ pairs \subseteq Pair
  BY <1>1, JobsTyped, TypeFacts
<1>4. \A p \in pairs : rows[p.e] # NoRow /\ rows[p.a] # NoRow
  BY PairSides
<1>5. \A p \in Pair, v \in {"confirmed", "rejected"} :
         LET d == [p EXCEPT !.status = v] IN d \in Pair /\ d.e = p.e /\ d.a = p.a
  BY DEF Pair
<1>6. pairs' \subseteq Pair /\ \A p \in pairs' : rows[p.e] # NoRow /\ rows[p.a] # NoRow
  <2>1. ASSUME NEW p \in pairs, NEW v \in {"confirmed", "rejected"}, Decide(p, v)
        PROVE  pairs' \subseteq Pair /\ \A q \in pairs' : rows[q.e] # NoRow /\ rows[q.a] # NoRow
    <3>1. PICK d : d = [p EXCEPT !.status = v]
      OBVIOUS
    <3>2. d \in Pair /\ d.e = p.e /\ d.a = p.a
      BY <1>3, <1>5, <3>1
    <3>3. pairs' = (pairs \ {p}) \cup {d}
      BY <2>1, <3>1 DEF Decide
    <3> QED BY <1>3, <1>4, <3>2, <3>3
  <2>2. ASSUME NEW e \in Ebooks, NEW a \in Audios, NEW replace \in BOOLEAN,
               LinkByHand(e, a, replace)
        PROVE  pairs' \subseteq Pair /\ \A q \in pairs' : rows[q.e] # NoRow /\ rows[q.a] # NoRow
    <3> DEFINE new == [e |-> e, a |-> a, status |-> "confirmed"]
    <3>1. \A q \in pairs' : \/ q \in pairs
                            \/ q = new
                            \/ \E p \in pairs, v \in {"confirmed", "rejected"} :
                                  q = [p EXCEPT !.status = v]
      BY <2>2 DEF LinkByHand
    <3>2. new \in Pair /\ new.e = e /\ new.a = a
      BY DEF Pair
    <3>3. rows[e] # NoRow /\ rows[a] # NoRow
      BY <2>2 DEF LinkByHand
    <3> HIDE DEF new
    <3>4. ASSUME NEW q \in pairs'
          PROVE  q \in Pair /\ rows[q.e] # NoRow /\ rows[q.a] # NoRow
      <4>1. CASE q \in pairs \/ q = new
        BY <1>3, <1>4, <3>2, <3>3, <4>1
      <4>2. CASE \E p \in pairs, v \in {"confirmed", "rejected"} :
                    q = [p EXCEPT !.status = v]
        <5>1. PICK p \in pairs, v \in {"confirmed", "rejected"} :
                    q = [p EXCEPT !.status = v]
          BY <4>2
        <5>2. q \in Pair /\ q.e = p.e /\ q.a = p.a
          BY <1>3, <1>5, <5>1
        <5> QED BY <1>4, <5>2
      <4> QED BY <3>1, <4>1, <4>2
    <3> QED BY <3>4
  <2> QED BY <2>1, <2>2 DEF CuratorStep
<1> QED BY <1>1, <1>2, <1>3, <1>6, PairsTyped

LEMMA StepTyped == Typed /\ [Next]_vars => Typed'
<1> SUFFICES ASSUME Typed, [Next]_vars PROVE Typed'
  OBVIOUS
<1>1. CASE FolderStep \/ Remount
  BY <1>1, FolderTyped
<1>2. CASE RequestScan \/ TimedScan
  BY <1>2, RequestTyped
<1>3. CASE ScanStep
  BY <1>3, WalkTyped, ApplyTyped DEF ScanStep
<1>4. CASE IndexStep
  BY <1>4, IndexTyped DEF IndexStep
<1>5. CASE PairStep
  BY <1>5, PairStepTyped DEF PairStep
<1>6. CASE \E j \in JobKeys : Interrupt(j)
  BY <1>6, InterruptTyped
<1>7. CASE CuratorStep
  BY <1>7, CuratorTyped
<1>8. CASE UNCHANGED vars
  BY <1>8 DEF vars, Typed, TypeOK, BooksOfJobs, BooksOfPairs, Counting
<1> QED BY <1>1, <1>2, <1>3, <1>4, <1>5, <1>6, <1>7, <1>8 DEF Next, JobStep

\* Every table and every local state has its type: a book in service has a
\* text to serve, and no two books claim one place, wherever files move and
\* whatever is cut off.
THEOREM TypeCorrect == Spec => []TypeOK
<1>1. Typed => TypeOK
  BY DEF Typed
<1> QED BY <1>1, InitTyped, StepTyped, PTL DEF Spec

LEMMA AlwaysTyped == Spec => []Typed
BY InitTyped, StepTyped, PTL DEF Spec

-----------------------------------------------------------------------------
(* Decisions.                                                               *)

\* What a curator decided outlives every outage, move, scan and index job:
\* only other bytes of one of the two books undo it (scan.ts, applyScan;
\* pairing.ts).
THEOREM DecisionsLast == Spec => DecisionsSurvive
<1> DEFINE Stand == \A p \in Decided(pairs) : p \in pairs' \/ CuratorStep \/
                      \E i \in {p.e, p.a} : rows'[i].hash # rows[i].hash
<1>1. ASSUME Typed, [Next]_vars
      PROVE  Stand
  <2> SUFFICES ASSUME NEW p \in pairs, p.status # "candidate", p \notin pairs',
                      ~ CuratorStep
               PROVE  \E i \in {p.e, p.a} : rows'[i].hash # rows[i].hash
    BY DEF Decided
  <2>1. ApplyScan \/ ScanFails
    <3>1. pairs' # pairs
      OBVIOUS
    <3>2. ~ \E j \in PairJobs : ComparePairs(j)
      BY DEF ComparePairs, Decided
    <3> QED BY <1>1, <3>1, <3>2 DEF Next, vars, FolderStep, WriteFile, RemoveFile,
            MoveFile, Unmount, Remount, tables, RequestScan, TimedScan, JobStep,
            ScanStep, StartScan, WalkOn, FinishScan, EnqueueIndex, IndexStep,
            StartIndex, ReadFile, IndexFails, PublishIndex, PairStep,
            PutOffPairScan, ComeBackLater, Interrupt
  <2>2. PICK st : st = Applied
    OBVIOUS
  <2>3. Faithful(st) /\ pairs' = st.pairs
    BY <1>1, <2>1, <2>2, AppliedIsFaithful DEF ApplyScan, ScanFails
  <2>4. PICK i \in {p.e, p.a} : st.rows[i].hash # rows[i].hash
    BY <2>3 DEF Faithful, Undone
  <2>5. i \in Places /\ rows[i] # NoRow /\ st.rows[i] # NoRow /\ st.rows[i] \in Row
    BY <1>1, <2>3, <2>4, PairSides, RowSet DEF Faithful, Kept, Report
  <2>6. rows'[i].hash = st.rows[i].hash
    <3>1. \/ rows'[i] = st.rows[i]
          \/ rows'[i] = [st.rows[i] EXCEPT !.state = "missing"]
      BY <2>1, <2>2, <2>5 DEF ApplyScan, ScanFails, WithMissing
    <3> QED BY <2>5, <3>1 DEF Row
  <2> QED BY <2>4, <2>6
<1>2. Typed /\ [Next]_vars => [Stand]_vars
  BY <1>1
<1> QED BY <1>2, AlwaysTyped, PTL DEF Spec, DecisionsSurvive

-----------------------------------------------------------------------------
(* Where no file is moved.                                                  *)

\* Books are in their places, and the scan has come to those in `done`.
Swept(st, done) ==
    /\ st \in Report /\ ~ st.failed
    /\ \A i \in Places : st.rows[i] # NoRow =>
          /\ st.rows[i].place = i /\ At(i, st.rows[i].hash)
          /\ st.rows[i].state = "indexing" => rows[i] # NoRow /\ rows[i].state = "indexing"
    /\ \A i \in done : scan.found[i] # NoFile =>
          /\ i \in st.seen /\ st.rows[i] # NoRow /\ st.rows[i].state # "missing"
          /\ st.rows[i].state = "discovered" => i \in st.todo
    /\ \A i \in st.seen : i \in done /\ scan.found[i] # NoFile

LEMMA EntrySweeps ==
    ASSUME OneHome, NEW st, NEW done, Swept(st, done),
           NEW p \in Places, NEW z, Enters(st, z, p)
    PROVE  Swept(z, done \cup {p})
<1>1. CASE Skips(st, z, p)
  BY <1>1 DEF Skips, Swept
<1>2. \A i \in Places : Known(st, i, p) => i = p
  BY DEF Known, Swept
<1>3. st.rows[p] # NoRow => Known(st, p, p)
  BY DEF Known, Swept
<1>4. ASSUME Takes(st, z, p)
      PROVE  /\ z \in Report /\ scan.found[p] \in Contents /\ scan.found[p] # NoFile
             /\ At(p, scan.found[p]) /\ st.rows \in Table
  BY <1>4, NoFileAssumption DEF Takes, Contents, At, Swept, Report
<1>5. CASE Takes(st, z, p) /\ \E i \in Places : Leaves(st, z, i, p)
  <2>1. Leaves(st, z, p, p)
    BY <1>2, <1>5 DEF Leaves
  <2> QED BY <1>4, <1>5, <2>1 DEF Leaves, Known, Swept
<1>6. CASE Takes(st, z, p) /\ \E i \in Places : Renews(st, z, i, p)
  <2>1. Renews(st, z, p, p)
    BY <1>2, <1>6 DEF Renews
  <2>2. PICK r \in Row :
          /\ z.rows = [st.rows EXCEPT ![p] = r]
          /\ r.place = p /\ r.hash = scan.found[p]
          /\ r.state \in {"discovered", "indexing", "error"}
          /\ r.state = "indexing" => st.rows[p].state = "indexing"
    BY <2>1 DEF Renews
  <2>3. /\ z.seen = st.seen \cup {p} /\ z.todo = st.todo \cup {p} /\ ~ z.failed
        /\ st.rows[p] # NoRow /\ r # NoRow
    BY <2>1, NoRowAssumption DEF Renews, Known
  <2>4. z.rows[p] = r /\ \A k \in Places \ {p} : z.rows[k] = st.rows[k]
    BY <1>4, <1>6, <2>2 DEF Table
  <2> QED BY <1>4, <1>6, <2>2, <2>3, <2>4 DEF Swept
<1>7. CASE Takes(st, z, p) /\ \E i \in Places : Moves(st, z, i, p)
  <2>1. PICK i \in Places : Moves(st, z, i, p)
    BY <1>7
  <2>2. st.rows[i] # NoRow /\ st.rows[i].hash = scan.found[p]
    BY <2>1 DEF Moves, Movable
  <2>3. i = p
    BY <1>4, <1>7, <2>2 DEF Swept, OneHome
  <2> QED BY <1>3, <2>1, <2>2, <2>3 DEF Moves, Unknown
<1>8. CASE Takes(st, z, p) /\ Breaks(st, z, p)
  BY <1>3, <1>8 DEF Breaks, Unknown
<1>9. CASE Takes(st, z, p) /\ Adds(st, z, p)
  <2>1. PICK r \in Row :
          /\ z.rows = [st.rows EXCEPT ![p] = r]
          /\ r.place = p /\ r.hash = scan.found[p] /\ r.state = "discovered"
    BY <1>9 DEF Adds
  <2>2. /\ z.seen = st.seen \cup {p} /\ z.todo = st.todo \cup {p} /\ ~ z.failed
        /\ r # NoRow
    BY <1>9, NoRowAssumption DEF Adds
  <2>3. z.rows[p] = r /\ \A k \in Places \ {p} : z.rows[k] = st.rows[k]
    BY <1>4, <1>9, <2>1 DEF Table
  <2> QED BY <1>4, <1>9, <2>1, <2>2, <2>3 DEF Swept
<1> QED BY <1>1, <1>5, <1>6, <1>7, <1>8, <1>9 DEF Enters

\* The whole report: the scan does not fail, and comes to every place.
LEMMA AppliedSweeps ==
    ASSUME Typed, OneHome, InOwnPlace
    PROVE  Swept(Applied, Places)
<1> DEFINE Done(n) == {WalkOrder[k] : k \in 1..n}
           S == {n \in Nat : Swept(AppliedUpTo[n], Done(n))}
           L == Len(WalkOrder)
<1>1. Swept(Applying, Done(0))
  <2>1. /\ Applying \in Report /\ Applying.rows = rows /\ Applying.seen = {}
        /\ ~ Applying.failed
    BY DEF Applying, Report, Table, Typed, TypeOK
  <2>2. Done(0) = {}
    OBVIOUS
  <2>3. \A i \in Places : rows[i] # NoRow => rows[i].place = i /\ At(i, rows[i].hash)
    BY DEF InOwnPlace, At
  <2> HIDE DEF Done
  <2> QED BY <2>1, <2>2, <2>3 DEF Swept
<1>2. L \in Nat /\ 0 \in S
  BY <1>1, AppliedSteps
<1>3. ASSUME NEW n \in 1..L, n - 1 \in S
      PROVE  n \in S
  <2>1. n \in Nat /\ WalkOrder[n] \in Places /\ Swept(AppliedUpTo[n - 1], Done(n - 1))
        /\ AppliedUpTo[n] = ScanEntry(AppliedUpTo[n - 1], WalkOrder[n])
    BY <1>2, <1>3, AppliedSteps
  <2>2. Done(n) = Done(n - 1) \cup {WalkOrder[n]}
    <3>1. 1..n = (1..(n - 1)) \cup {n}
      BY <2>1
    <3> QED BY <3>1
  <2>3. PICK st : st = AppliedUpTo[n - 1]
    OBVIOUS
  <2>4. PICK p : p = WalkOrder[n]
    OBVIOUS
  <2>5. PICK done : done = Done(n - 1)
    OBVIOUS
  <2>6. st \in Report /\ p \in Places /\ Swept(st, done) /\ scan.found[p] \in File
    BY <2>1, <2>3, <2>4, <2>5 DEF Swept, Typed, TypeOK
  <2>7. Swept(ScanEntry(st, p), done \cup {p})
    BY <2>6, EntryCases, EntrySweeps
  <2> QED BY <2>1, <2>2, <2>3, <2>4, <2>5, <2>7
<1>4. Places = Done(L)
  BY <1>2, WalkReportsEveryPlace DEF Range, Places
<1> HIDE DEF S, L, Done
<1>5. L \in S
  <2>1. \A n \in 0..L : n \in S
    BY <1>2, <1>3, UpTo
  <2> QED BY <1>2, <2>1
<1>6. Swept(AppliedUpTo[L], Done(L))
  BY <1>5 DEF S
<1> QED BY <1>4, <1>6 DEF L, Applied

\* What a scan leaves in the table.
LEMMA AppliedTable ==
    ASSUME Typed, OneHome, InOwnPlace, ApplyScan
    PROVE  \A i \in Places :
              /\ scan.found[i] # NoFile => rows'[i] # NoRow /\ rows'[i].state # "missing"
              /\ rows'[i] # NoRow =>
                    /\ rows'[i].place = i /\ At(i, rows'[i].hash)
                    /\ rows'[i].state = "indexing" =>
                          rows[i] # NoRow /\ rows[i].state = "indexing"
                    /\ rows'[i].state = "discovered" => i \in scan'.todo
<1>1. PICK st : st = Applied
  OBVIOUS
<1>2. Swept(st, Places) /\ rows' = WithMissing(st) /\ scan'.todo = st.todo
  BY <1>1, AppliedSweeps DEF ApplyScan, NoScan
<1> SUFFICES ASSUME NEW i \in Places
    PROVE  /\ scan.found[i] # NoFile => rows'[i] # NoRow /\ rows'[i].state # "missing"
           /\ rows'[i] # NoRow =>
                 /\ rows'[i].place = i /\ At(i, rows'[i].hash)
                 /\ rows'[i].state = "indexing" =>
                       rows[i] # NoRow /\ rows[i].state = "indexing"
                 /\ rows'[i].state = "discovered" => i \in scan'.todo
  OBVIOUS
<1>3. st.rows \in Table /\ (st.rows[i] # NoRow => st.rows[i] \in Row)
  BY <1>2, RowSet DEF Swept, Report
<1>4. CASE i \in st.seen \/ st.rows[i] = NoRow
  <2>1. rows'[i] = st.rows[i]
    BY <1>2, <1>4 DEF WithMissing
  <2> QED BY <1>2, <1>4, <2>1 DEF Swept
<1>5. CASE i \notin st.seen /\ st.rows[i] # NoRow
  <2>1. rows'[i] = [st.rows[i] EXCEPT !.state = "missing"]
    BY <1>2, <1>5 DEF WithMissing
  <2>2. /\ rows'[i].place = st.rows[i].place /\ rows'[i].hash = st.rows[i].hash
        /\ rows'[i].state = "missing" /\ scan.found[i] = NoFile
    BY <1>2, <1>3, <1>5, <2>1 DEF Row, Swept
  <2> QED BY <1>2, <1>5, <2>2 DEF Swept
<1> QED BY <1>4, <1>5

\* A step that brings no content to a new place.
LEMMA HomesKept ==
    ASSUME OneHome, \A p \in Places, c \in Contents : At(p, c)' => At(p, c),
           spent'.writes = spent.writes
    PROVE  OneHome'
BY DEF OneHome

LEMMA InitSettling ==
    ASSUME Init
    PROVE  Settling
<1>1. Typed
  BY InitTyped
<1>2. \A p \in Places, c \in Contents : ~ At(p, c)
  BY NoFileAssumption DEF Init, NoScan, At, Contents
<1>3. OneHome /\ InOwnPlace
  BY <1>2 DEF OneHome, InOwnPlace, Init
<1>4. ScanRuns /\ Scheduled
  BY Keys DEF Init, NoScan, ScanRuns, Scheduled
<1> QED BY <1>1, <1>3, <1>4 DEF Settling

LEMMA FolderSettling ==
    ASSUME Settling, MaxMoves = 0, FolderStep \/ Remount
    PROVE  OneHome' /\ InOwnPlace' /\ ScanRuns' /\ Scheduled'
<1> USE DEF tables
<1>1. rows' = rows /\ scan' = scan /\ job' = job
  BY DEF FolderStep, WriteFile, RemoveFile, MoveFile, Unmount, Remount
<1>2. InOwnPlace' /\ ScanRuns' /\ Scheduled'
  BY <1>1 DEF Settling, InOwnPlace, ScanRuns, Scheduled
<1>3. files \in [Places -> File] /\ Counting
  BY DEF Settling, Typed, TypeOK
<1>4. ASSUME NEW p \in Places, WriteFile(p) PROVE OneHome'
  <2>1. /\ files' = [files EXCEPT ![p] = spent.writes + 1]
        /\ spent'.writes = spent.writes + 1 /\ spent.writes \in Nat
    BY <1>3, <1>4 DEF WriteFile, Counting
  <2>2. \A q \in Places, c \in Contents :
           At(q, c)' => At(q, c) \/ (q = p /\ c = spent.writes + 1)
    <3>1. \A q \in Places : files'[q] = IF q = p THEN spent.writes + 1 ELSE files[q]
      BY <1>3, <2>1
    <3> QED BY <1>1, <3>1 DEF At
  <2>3. \A q \in Places, c \in Contents : At(q, c) => c <= spent.writes
    BY DEF Settling, OneHome
  <2>4. \A c \in Contents : c \in Nat
    BY BoundsAssumption DEF Contents
  <2>5. ASSUME NEW q \in Places, NEW k \in Places, NEW c \in Contents, At(q, c)', At(k, c)'
        PROVE  q = k
    <3>1. CASE c = spent.writes + 1
      BY <2>1, <2>2, <2>3, <2>5, <3>1
    <3>2. CASE c # spent.writes + 1
      <4>1. At(q, c) /\ At(k, c)
        BY <2>2, <2>5, <3>2
      <4> QED BY <4>1 DEF Settling, OneHome
    <3> QED BY <3>1, <3>2
  <2>6. ASSUME NEW q \in Places, NEW c \in Contents, At(q, c)'
        PROVE  c <= spent'.writes
    BY <2>1, <2>2, <2>3, <2>4, <2>6
  <2> QED BY <2>5, <2>6 DEF OneHome
<1>5. ASSUME NEW p \in Places, RemoveFile(p) PROVE OneHome'
  <2>1. \A q \in Places, c \in Contents : At(q, c)' => At(q, c)
    BY <1>1, <1>3, <1>5, NoFileAssumption DEF RemoveFile, At, Contents
  <2>2. spent'.writes = spent.writes
    BY <1>5 DEF RemoveFile
  <2> QED BY <2>1, <2>2, HomesKept DEF Settling
<1>6. ASSUME NEW p \in Places, NEW q \in Places, MoveFile(p, q) PROVE FALSE
  BY <1>3, <1>6 DEF MoveFile, Counting
<1>7. CASE Unmount \/ Remount
  <2>1. \A q \in Places, c \in Contents : At(q, c)' => At(q, c)
    BY <1>1, <1>7 DEF Unmount, Remount, At
  <2>2. spent'.writes = spent.writes
    BY <1>3, <1>7 DEF Unmount, Remount, Counting
  <2> QED BY <1>2, <2>1, <2>2, HomesKept DEF Settling
<1> QED BY <1>2, <1>4, <1>5, <1>6, <1>7 DEF FolderStep

\* A step that leaves the folders and the table alone.
LEMMA RowsStay ==
    ASSUME Settling, files' = files, rows' = rows, spent'.writes = spent.writes,
           \A p \in Places, c \in Contents :
              scan'.found[p] = c => scan.found[p] = c \/ files[p] = c
    PROVE  OneHome' /\ InOwnPlace'
<1>1. \A p \in Places, c \in Contents : At(p, c)' => At(p, c)
  BY DEF At
<1> QED BY <1>1, HomesKept DEF Settling, InOwnPlace

LEMMA QueueSettling ==
    ASSUME Settling,
           \/ RequestScan \/ TimedScan \/ CuratorStep \/ PairStep
           \/ \E j \in JobKeys : Interrupt(j)
    PROVE  OneHome' /\ InOwnPlace' /\ ScanRuns' /\ Scheduled'
<1>1. /\ files' = files /\ rows' = rows
  BY DEF RequestScan, TimedScan, CuratorStep, Decide, LinkByHand, PairStep, ComparePairs,
         PutOffPairScan, ComeBackLater, Interrupt
<1>2. Counting /\ job \in Jobs /\ scan \in Scan
  BY JobsTyped DEF Settling, Typed
<1>3. spent'.writes = spent.writes
  BY <1>2 DEF RequestScan, TimedScan, CuratorStep, PairStep, ComparePairs,
         PutOffPairScan, ComeBackLater, Interrupt, Counting
<1>4. scan' = scan \/ scan' = NoScan
  BY DEF RequestScan, TimedScan, CuratorStep, Decide, LinkByHand, PairStep, ComparePairs,
         PutOffPairScan, ComeBackLater, Interrupt
<1>5. OneHome' /\ InOwnPlace'
  <2>1. \A p \in Places, c \in Contents : scan'.found[p] = c => scan.found[p] = c
    BY <1>4, NoFileAssumption DEF NoScan, Contents
  <2> QED BY <1>1, <1>3, <2>1, RowsStay
<1>6. CASE RequestScan \/ TimedScan
  <2>1. /\ scan' = scan /\ \A i \in Places : job'[i] = job[i]
        /\ job'["scan"] = IF job["scan"] = "none" THEN "queued" ELSE job["scan"]
    BY <1>6, Keys DEF RequestScan, TimedScan, Queued
  <2> QED BY <1>1, <1>5, <2>1 DEF Settling, ScanRuns, Scheduled
<1>7. CASE CuratorStep
  <2>1. scan' = scan /\ job' = job
    BY <1>7 DEF CuratorStep, Decide, LinkByHand
  <2> QED BY <1>1, <1>5, <2>1 DEF Settling, ScanRuns, Scheduled
<1>8. ASSUME NEW j \in PairJobs, ComparePairs(j) \/ PutOffPairScan(j) \/ ComeBackLater(j)
      PROVE  ScanRuns' /\ Scheduled'
  <2>1. PICK js : js = Queued(job, {"pair-scan-retry"})
    OBVIOUS
  <2>2. js \in Jobs /\ \A i \in Places \cup {"scan"} : js[i] = job[i]
    <3>1. js \in Jobs
      BY <1>1, <2>1, JobsTyped DEF Settling
    <3>2. \A i \in Places \cup {"scan"} : i \in JobKeys /\ i # "pair-scan-retry"
      BY Keys DEF PairJobs
    <3> QED BY <2>1, <3>1, <3>2 DEF Queued
  <2>3. scan' = scan /\ job' \in {Finished(job, j), Claimed(j), Finished(js, j)}
    BY <1>8, <2>1 DEF ComparePairs, PutOffPairScan, ComeBackLater
  <2>4. \A i \in Places \cup {"scan"} : job'[i] = job[i]
    BY <1>2, <2>2, <2>3, Keys DEF Finished, Claimed, Jobs
  <2> QED BY <1>1, <2>3, <2>4 DEF Settling, ScanRuns, Scheduled
<1>9. ASSUME NEW j \in JobKeys, Interrupt(j)
      PROVE  ScanRuns' /\ Scheduled'
  <2>1. /\ job[j] = "running" /\ job' = [job EXCEPT ![j] = "queued"]
        /\ scan' = IF j = "scan" THEN NoScan ELSE scan
    BY <1>9 DEF Interrupt
  <2>2. \A i \in Places : job'[i] = IF i = j THEN "queued" ELSE job[i]
    BY <1>2, <2>1, Keys DEF Jobs
  <2>3. job'["scan"] = IF j = "scan" THEN "queued" ELSE job["scan"]
    BY <1>2, <2>1, Keys DEF Jobs
  <2>4. NoScan.phase = "idle"
    BY DEF NoScan
  <2>5. ScanRuns'
    BY <2>1, <2>3, <2>4 DEF Settling, ScanRuns
  <2>6. Scheduled'
    BY <1>1, <2>1, <2>2, <2>3 DEF Settling, Scheduled
  <2> QED BY <2>5, <2>6
<1> QED BY <1>5, <1>6, <1>7, <1>8, <1>9 DEF PairStep

LEMMA ScanSettling ==
    ASSUME Settling, ScanStep
    PROVE  OneHome' /\ InOwnPlace' /\ ScanRuns' /\ Scheduled'
<1>1. /\ files' = files /\ spent' = spent /\ Counting /\ job \in Jobs /\ scan \in Scan
      /\ Typed /\ OneHome /\ InOwnPlace
  BY JobsTyped DEF Settling, Typed, ScanStep, StartScan, WalkOn, ApplyScan, ScanFails,
         FinishScan, EnqueueIndex
<1>2. CASE StartScan
  <2>1. /\ rows' = rows /\ job["scan"] = "queued" /\ scan'.phase = "walking"
        /\ scan'.found = NoScan.found /\ job' = [job EXCEPT !["scan"] = "running"]
    BY <1>2 DEF StartScan, Claimable, Claimed, NoScan
  <2>2. /\ \A i \in Places : job'[i] = job[i]
        /\ job'["scan"] = "running"
    BY <1>1, <2>1, Keys DEF Jobs
  <2>3. ScanRuns' /\ Scheduled'
    BY <2>1, <2>2 DEF Settling, ScanRuns, Scheduled
  <2>4. OneHome' /\ InOwnPlace'
    BY <1>1, <2>1, RowsStay, NoFileAssumption DEF NoScan, Contents
  <2> QED BY <2>3, <2>4
<1>3. CASE WalkOn
  <2>1. PICK p : p = WalkOrder[scan.at]
    OBVIOUS
  <2>2. PICK f : f = Seen(p)
    OBVIOUS
  <2>3. /\ rows' = rows /\ job' = job /\ scan.phase = "walking"
        /\ scan' = [scan EXCEPT !.at = @ + 1, !.found[p] = f]
    BY <1>3, <2>1, <2>2 DEF WalkOn
  <2>4. /\ scan'.phase = scan.phase
        /\ \A q \in Places : scan'.found[q] = IF q = p THEN f ELSE scan.found[q]
    BY <1>1, <2>3 DEF Scan
  <2>5. f = files[p] \/ f = NoFile
    BY <2>2 DEF Seen
  <2>6. ScanRuns' /\ Scheduled'
    BY <2>3, <2>4 DEF Settling, ScanRuns, Scheduled
  <2>7. OneHome' /\ InOwnPlace'
    <3>1. \A q \in Places, c \in Contents :
             scan'.found[q] = c => scan.found[q] = c \/ files[q] = c
      BY <2>4, <2>5, NoFileAssumption DEF Contents
    <3> QED BY <1>1, <2>3, <3>1, RowsStay
  <2> QED BY <2>6, <2>7
<1>4. CASE ApplyScan
  <2>1. \A i \in Places :
              /\ scan.found[i] # NoFile => rows'[i] # NoRow /\ rows'[i].state # "missing"
              /\ rows'[i] # NoRow =>
                    /\ rows'[i].place = i /\ At(i, rows'[i].hash)
                    /\ rows'[i].state = "indexing" =>
                          rows[i] # NoRow /\ rows[i].state = "indexing"
                    /\ rows'[i].state = "discovered" => i \in scan'.todo
    BY <1>1, <1>4, AppliedTable
  <2>2. /\ job' = job /\ scan.phase = "walking" /\ scan'.phase = "enqueueing"
        /\ scan'.found = NoScan.found
    BY <1>4 DEF ApplyScan, ScanDone, NoScan
  <2>3. InOwnPlace' /\ ScanRuns' /\ Scheduled'
    BY <2>1, <2>2 DEF Settling, InOwnPlace, ScanRuns, Scheduled
  <2>4. \A p \in Places, c \in Contents : At(p, c)' => At(p, c)
    BY <1>1, <2>1, <2>2, NoFileAssumption DEF At, NoScan, Contents
  <2> QED BY <1>1, <2>3, <2>4, HomesKept
<1>5. CASE ScanFails
  BY <1>1, <1>5, AppliedSweeps DEF ScanFails, Swept
<1>6. CASE FinishScan
  <2>1. PICK js : js = Queued(job, {"pair-scan"})
    OBVIOUS
  <2>2. js \in Jobs /\ \A i \in Places : js[i] = job[i]
    BY <1>1, <2>1, Keys, JobsTyped DEF Queued, PairJobs
  <2>3. /\ rows' = rows /\ scan' = NoScan /\ job' = Finished(js, "scan")
        /\ scan.phase = "enqueueing" /\ scan.todo = {}
    BY <1>6, <2>1 DEF FinishScan
  <2>4. job'["scan"] = "none" /\ \A i \in Places : job'[i] = job[i]
    BY <2>2, <2>3, Keys DEF Finished, Jobs
  <2>5. scan'.phase = "idle" /\ job["scan"] = "running"
    BY <2>3 DEF Settling, ScanRuns, NoScan
  <2>6. ScanRuns' /\ Scheduled'
    BY <2>3, <2>4, <2>5 DEF Settling, ScanRuns, Scheduled
  <2>7. OneHome' /\ InOwnPlace'
    BY <1>1, <2>3, RowsStay, NoFileAssumption DEF NoScan, Contents
  <2> QED BY <2>6, <2>7
<1>7. ASSUME NEW i \in Places, EnqueueIndex(i)
      PROVE  OneHome' /\ InOwnPlace' /\ ScanRuns' /\ Scheduled'
  <2>1. /\ rows' = rows /\ job' = Queued(job, {i})
        /\ scan' = [scan EXCEPT !.todo = @ \ {i}] /\ scan.phase = "enqueueing"
    BY <1>7 DEF EnqueueIndex
  <2>2. /\ scan'.phase = scan.phase /\ scan'.found = scan.found
        /\ scan'.todo = scan.todo \ {i}
    BY <1>1, <2>1 DEF Scan
  <2>3. /\ job'["scan"] = job["scan"] /\ job'[i] # "none"
        /\ \A k \in Places \ {i} : job'[k] = job[k]
    BY <2>1, Keys DEF Queued
  <2>4. ScanRuns' /\ Scheduled'
    BY <2>1, <2>2, <2>3 DEF Settling, ScanRuns, Scheduled
  <2>5. OneHome' /\ InOwnPlace'
    BY <1>1, <2>1, <2>2, RowsStay
  <2> QED BY <2>4, <2>5
<1> QED BY <1>2, <1>3, <1>4, <1>5, <1>6, <1>7 DEF ScanStep

LEMMA IndexSettling ==
    ASSUME Settling, NEW i \in Places,
           StartIndex(i) \/ ReadFile(i) \/ IndexFails(i) \/ PublishIndex(i)
    PROVE  OneHome' /\ InOwnPlace' /\ ScanRuns' /\ Scheduled'
<1>1. /\ files' = files /\ scan' = scan /\ spent' = spent /\ Typed /\ job \in Jobs
      /\ rows \in Table
  BY JobsTyped, TypeFacts DEF Settling, StartIndex, ReadFile, IndexFails, PublishIndex
<1>2. CASE ReadFile(i)
  <2>1. rows' = rows /\ job' = job
    BY <1>2 DEF ReadFile
  <2> QED BY <1>1, <2>1, RowsStay DEF Settling, ScanRuns, Scheduled
<1>3. CASE ~ ReadFile(i)
  <2>1. PICK r \in Row : /\ IndexRow(i, r) /\ rows[i] # NoRow
                         /\ r.state = "indexing" => StartIndex(i)
    <3>1. CASE StartIndex(i)
      BY <1>1, <3>1, StartWrites
    <3>2. CASE IndexFails(i) \/ PublishIndex(i)
      BY <1>1, <3>2, FailWrites, PublishWrites
    <3> QED BY <1>3, <3>1, <3>2
  <2>2. /\ rows'[i] = r /\ r.place = rows[i].place /\ r.hash = rows[i].hash
        /\ r.state \in {"indexing", "error", "ready"}
        /\ \A k \in Places \ {i} : rows'[k] = rows[k]
    BY <1>1, <2>1 DEF IndexRow, Table
  <2>3. \/ job' = [job EXCEPT ![i] = "running"]
        \/ job' = [job EXCEPT ![i] = "none"] /\ ~ StartIndex(i)
    BY <1>3 DEF StartIndex, IndexFails, PublishIndex, Claimed, Finished, Claimable
  <2>4. /\ \A k \in (Places \ {i}) \cup {"scan"} : job'[k] = job[k]
        /\ r.state = "indexing" => job'[i] # "none"
    BY <1>1, <2>1, <2>3, Keys DEF Jobs
  <2>5. InOwnPlace'
    BY <2>1, <2>2 DEF Settling, InOwnPlace
  <2>6. ScanRuns' /\ Scheduled'
    BY <1>1, <2>2, <2>4 DEF Settling, ScanRuns, Scheduled
  <2>7. \A p \in Places, c \in Contents : At(p, c)' => At(p, c)
    BY <1>1, <2>1, <2>2 DEF At
  <2>8. OneHome'
    BY <1>1, <2>7, HomesKept DEF Settling
  <2> QED BY <2>5, <2>6, <2>8
<1> QED BY <1>2, <1>3

LEMMA StepSettling ==
    ASSUME MaxMoves = 0
    PROVE  Settling /\ [Next]_vars => Settling'
<1> SUFFICES ASSUME Settling, [Next]_vars PROVE Settling'
  OBVIOUS
<1>1. Typed'
  BY StepTyped DEF Settling
<1>2. CASE FolderStep \/ Remount
  BY <1>1, <1>2, FolderSettling DEF Settling
<1>3. CASE RequestScan \/ TimedScan \/ CuratorStep \/ PairStep \/ \E j \in JobKeys : Interrupt(j)
  BY <1>1, <1>3, QueueSettling DEF Settling
<1>4. CASE ScanStep
  BY <1>1, <1>4, ScanSettling DEF Settling
<1>5. CASE IndexStep
  BY <1>1, <1>5, IndexSettling DEF Settling, IndexStep
<1>6. CASE UNCHANGED vars
  BY <1>1, <1>6 DEF vars, Settling, OneHome, At, InOwnPlace, ScanRuns, Scheduled
<1> QED BY <1>2, <1>3, <1>4, <1>5, <1>6 DEF Next, JobStep

LEMMA AlwaysSettling == ASSUME MaxMoves = 0 PROVE Spec => []Settling
BY InitSettling, StepSettling, PTL DEF Spec

\* Where no file is moved, a book that is still to be indexed is always some
\* job's business, whichever jobs are cut off and wherever files are replaced,
\* go or come back (scan.ts, applyScan; handlers.ts, the scan and index jobs).
THEOREM NoBookIsForgotten ==
    ASSUME MaxMoves = 0
    PROVE  Spec => []UnfinishedBooksAreScheduled
<1>1. Settling => UnfinishedBooksAreScheduled
  BY DEF Settling, Scheduled, ScanRuns, UnfinishedBooksAreScheduled
<1> QED BY <1>1, AlwaysSettling, PTL

\* Where no file is moved, a scan that was applied has every book it found in
\* the catalogue, and none of them missing.
THEOREM ScansFindBooks ==
    ASSUME MaxMoves = 0
    PROVE  Spec => AppliedScanFindsBooks
<1> DEFINE Finds == ApplyScan =>
                        \A p \in Places : scan.found[p] # NoFile =>
                           \E i \in Places : InPlace(i, p)' /\ rows'[i].state # "missing"
<1>1. ASSUME Settling
      PROVE  Finds
  <2> SUFFICES ASSUME ApplyScan, NEW p \in Places, scan.found[p] # NoFile
               PROVE  InPlace(p, p)' /\ rows'[p].state # "missing"
    OBVIOUS
  <2>1. Typed /\ OneHome /\ InOwnPlace
    BY <1>1 DEF Settling
  <2> QED BY <2>1, AppliedTable DEF InPlace
<1>2. Settling /\ [Next]_vars => [Finds]_vars
  BY <1>1
<1> QED BY <1>2, AlwaysSettling, PTL DEF Spec, AppliedScanFindsBooks
=============================================================================
