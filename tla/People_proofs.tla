---------------------------- MODULE People_proofs ----------------------------
(***************************************************************************)
(* Proofs about Accounts and Connections, of which MCPeople holds an       *)
(* instance each, with parameters that are constants.                      *)
(***************************************************************************)
EXTENDS MCPeople, FiniteSetTheorems, TLAPS

\* What a handler that waits was asked for.
Remembered ==
    \A h \in hashing :
        /\ h.op \in {"create", "accept"} => h.what \in Door!Roles
        /\ h.op = "update" => h.what \in Door!Changes
        /\ h.op = "accept" => h.door \in Door!Invites

DoorTyped == Door!TypeOK /\ Remembered

\* Before the first account there is nobody to do more than set up.
Empty ==
    /\ desk = {} /\ \A h \in hashing : h.op = "setup"
    /\ \A i \in Door!Invites : invite[i].state = "unwritten"
    /\ opened[Door!Setup] = 0

\* Until an admin's rights were taken behind the others' backs.
Founded ==
    ~outrun => /\ opened[Door!Setup] <= 1
               /\ \/ Door!Known = {} /\ Empty
                  \/ Door!Admins # {}

\* An invitation that has opened an account is not open.
Spent ==
    \A i \in Door!Invites :
        /\ opened[i] <= 1
        /\ invite[i].state \in {"unwritten", "open"} => opened[i] = 0

\* Requests are left in order, and an approved one has an invitation.
AskFiled ==
    \A k \in Door!Asks :
        /\ ask[k].state # "unmade" => \A m \in Door!Asks : m < k => ask[m].state # "unmade"
        /\ ask[k].state = "approved" => /\ ask[k].invite \in Door!Invites
                                        /\ invite[ask[k].invite].state # "unwritten"

\* Of the requests of an address through a link only the newest can be open.
NewestOnly ==
    \A j, k \in Door!Asks :
        /\ j < k /\ ask[k].state # "unmade" /\ ask[j].link # NoLink
        /\ ask[j].email = ask[k].email /\ ask[j].link = ask[k].link
        => ~Door!StillOpen(j)

DoorInv == Founded /\ Spent /\ AskFiled /\ NewestOnly

-----------------------------------------------------------------------------
USE DEF Door!Setup, Door!NoInvite

LEMMA WaitsTyped ==
    ASSUME DoorTyped, NEW op \in {"setup", "create", "accept", "update"}, NEW n \in Names,
           NEW what \in Door!Roles \cup Door!Changes, NEW door \in {Door!Setup} \cup Door!Invites,
           op \in {"create", "accept"} => what \in Door!Roles,
           op = "update" => what \in Door!Changes,
           op = "accept" => door \in Door!Invites,
           Door!Waits(op, n, what, door)
    PROVE  hashing' \subseteq Door!Waiting /\ Remembered'
BY DEF DoorTyped, Door!TypeOK, Remembered, Door!Waits, Door!Waiting

LEMMA HashedTyped ==
    ASSUME DoorTyped, NEW h \in hashing, hashing' = hashing \ {h}
    PROVE  hashing' \subseteq Door!Waiting /\ Remembered'
BY DEF DoorTyped, Door!TypeOK, Remembered

LEMMA EntersTyped ==
    ASSUME DoorTyped, NEW n \in Names, NEW role \in Door!Roles, Door!Enters(n, role)
    PROVE  member' \in [Names -> Door!Accounts \cup {NoAccount}]
<1>1. [role |-> role, active |-> TRUE] \in Door!Accounts
  BY DEF Door!Accounts
<1> QED BY <1>1 DEF Door!Enters, DoorTyped, Door!TypeOK

LEMMA ChangedTyped ==
    ASSUME NEW a \in Door!Accounts, NEW c \in Door!Changes
    PROVE  Door!Changed(a, c) \in Door!Accounts
BY DEF Door!Accounts, Door!Changed, Door!Changes, Door!Roles

LEMMA DoorsInitTyped == ASSUME DoorParameters, Door!Init PROVE DoorTyped
<1> USE DEF DoorParameters
<1>1. member \in [Names -> Door!Accounts \cup {NoAccount}]
  BY DEF Door!Init, Door!Admin, Door!Accounts, Door!Roles
<1>2. /\ invite \in [Door!Invites -> [state : {"unwritten", "open", "used", "gone"}, role : Door!Roles]]
      /\ share \in [Links -> [state : {"unmade", "live", "dead"}, owner : Names \cup {NoOne}]]
      /\ opened \in [{Door!Setup} \cup Door!Invites -> Nat]
  BY DEF Door!Init, Door!Roles
<1>3. ask \in [Door!Asks -> Door!Ask]
  <2>1. [state |-> "unmade", email |-> NoOne, link |-> NoLink, invite |-> Door!NoInvite] \in Door!Ask
    BY DEF Door!Ask
  <2> QED BY <2>1 DEF Door!Init
<1>4. desk \subseteq Names /\ hashing \subseteq Door!Waiting /\ outrun \in BOOLEAN /\ acts \in 0..MaxActs
  <2>1. acts \in 0..MaxActs
    <3>1. acts = 0 /\ MaxActs \in Nat
      BY DEF Door!Init
    <3> QED BY <3>1
  <2>2. desk \subseteq Names /\ hashing \subseteq Door!Waiting /\ outrun \in BOOLEAN
    BY DEF Door!Init
  <2> QED BY <2>1, <2>2
<1>5. Remembered
  BY DEF Door!Init, Remembered
<1> QED BY <1>1, <1>2, <1>3, <1>4, <1>5 DEF DoorTyped, Door!TypeOK

LEMMA ActTyped == ASSUME DoorParameters, DoorTyped, Door!Act PROVE acts' \in 0..MaxActs
BY DEF DoorParameters, DoorTyped, Door!TypeOK, Door!Act

LEMMA EntersByTyped ==
    ASSUME DoorTyped, NEW n \in Names, NEW role \in Door!Roles, NEW door \in {Door!Setup} \cup Door!Invites,
           Door!EntersBy(door, n, role)
    PROVE  /\ member' \in [Names -> Door!Accounts \cup {NoAccount}]
           /\ opened' \in [{Door!Setup} \cup Door!Invites -> Nat]
<1>1. opened' \in [{Door!Setup} \cup Door!Invites -> Nat]
  BY DEF Door!EntersBy, DoorTyped, Door!TypeOK
<1> QED BY <1>1, EntersTyped DEF Door!EntersBy

LEMMA MintTyped ==
    ASSUME DoorTyped, NEW i \in Door!Invites, NEW role \in Door!Roles, Door!Mint(i, role)
    PROVE  invite' \in [Door!Invites -> [state : {"unwritten", "open", "used", "gone"}, role : Door!Roles]]
BY DEF DoorTyped, Door!TypeOK, Door!Mint

LEMMA ChangeTyped ==
    ASSUME DoorTyped, NEW n \in Door!Known, NEW c \in Door!Changes,
           member' = [member EXCEPT ![n] = Door!Changed(@, c)]
    PROVE  member' \in [Names -> Door!Accounts \cup {NoAccount}]
<1>1. member[n] \in Door!Accounts
  BY DEF Door!Known, DoorTyped, Door!TypeOK
<1>2. Door!Changed(member[n], c) \in Door!Accounts
  BY <1>1, ChangedTyped
<1> QED BY <1>2 DEF DoorTyped, Door!TypeOK, Door!Known

LEMMA HashedStepTyped ==
    ASSUME DoorParameters, DoorTyped, NEW h \in hashing, Door!Hashed(h)
    PROVE  DoorTyped'
<1> USE DEF DoorTyped
<1>1. /\ h.op \in {"setup", "create", "accept", "update"} /\ h.name \in Names
      /\ h.what \in Door!Roles \cup Door!Changes /\ h.door \in {Door!Setup} \cup Door!Invites
  BY DEF Door!TypeOK, Door!Waiting
<1>2. /\ h.op \in {"create", "accept"} => h.what \in Door!Roles
      /\ h.op = "update" => h.what \in Door!Changes
      /\ h.op = "accept" => h.door \in Door!Invites
  BY DEF Remembered
<1>3. hashing' = hashing \ {h}
  BY DEF Door!Hashed, Door!SetupEnds, Door!CreateEnds, Door!UpdateEnds, Door!AcceptEnds
<1>4. hashing' \subseteq Door!Waiting /\ Remembered'
  BY <1>3, HashedTyped
<1>5. CASE Door!SetupEnds(h)
  <2>1. Door!Setup \in {Door!Setup} \cup Door!Invites /\ "admin" \in Door!Roles
    BY DEF Door!Roles
  <2>2. /\ member' \in [Names -> Door!Accounts \cup {NoAccount}]
        /\ opened' \in [{Door!Setup} \cup Door!Invites -> Nat]
    BY <1>1, <1>5, <2>1, EntersByTyped DEF Door!SetupEnds, Door!TypeOK
  <2> QED BY <1>4, <1>5, <2>2 DEF Door!SetupEnds, Door!TypeOK
<1>6. CASE Door!CreateEnds(h)
  <2>1. h.what \in Door!Roles
    BY <1>2, <1>6 DEF Door!CreateEnds
  <2>2. member' \in [Names -> Door!Accounts \cup {NoAccount}]
    BY <1>1, <1>6, <2>1, EntersTyped DEF Door!CreateEnds, Door!TypeOK
  <2> QED BY <1>4, <1>6, <2>2 DEF Door!CreateEnds, Door!TypeOK
<1>7. CASE Door!UpdateEnds(h)
  <2>1. h.what \in Door!Changes
    BY <1>2, <1>7 DEF Door!UpdateEnds
  <2>2. member' \in [Names -> Door!Accounts \cup {NoAccount}]
    BY <1>7, <2>1, ChangeTyped DEF Door!UpdateEnds, Door!TypeOK
  <2>3. outrun' \in BOOLEAN
    BY <1>7 DEF Door!UpdateEnds, Door!TypeOK
  <2> QED BY <1>4, <1>7, <2>2, <2>3 DEF Door!UpdateEnds, Door!TypeOK
<1>8. CASE Door!AcceptEnds(h)
  <2>1. h.what \in Door!Roles /\ h.door \in Door!Invites
    BY <1>2, <1>8 DEF Door!AcceptEnds
  <2>2. /\ member' \in [Names -> Door!Accounts \cup {NoAccount}]
        /\ opened' \in [{Door!Setup} \cup Door!Invites -> Nat]
    BY <1>1, <1>8, <2>1, EntersByTyped DEF Door!AcceptEnds, Door!TypeOK
  <2>3. invite' \in [Door!Invites -> [state : {"unwritten", "open", "used", "gone"}, role : Door!Roles]]
    BY <1>8, <2>1 DEF Door!AcceptEnds, Door!TypeOK
  <2> QED BY <1>4, <1>8, <2>2, <2>3 DEF Door!AcceptEnds, Door!TypeOK
<1> QED BY <1>5, <1>6, <1>7, <1>8 DEF Door!Hashed

LEMMA AdminStepTyped ==
    ASSUME DoorParameters, DoorTyped, NEW me \in Names, Door!AdminStep(me)
    PROVE  DoorTyped'
<1> USE DEF DoorTyped
<1>1. CASE Door!Arrive(me) \/ Door!TurnedAway(me)
  BY <1>1, ActTyped DEF Door!Arrive, Door!TurnedAway, Door!TypeOK, Remembered
<1>2. ASSUME NEW n \in Names, Door!Delete(me, n) PROVE DoorTyped'
  <2>1. member' \in [Names -> Door!Accounts \cup {NoAccount}]
    BY <1>2 DEF Door!Delete, Door!TypeOK
  <2>2. share' \in [Links -> [state : {"unmade", "live", "dead"}, owner : Names \cup {NoOne}]]
    BY <1>2 DEF Door!Delete, Door!TypeOK
  <2>3. ask' \in [Door!Asks -> Door!Ask]
    <3>1. \A k \in Door!Asks : ask[k] \in Door!Ask /\ [ask[k] EXCEPT !.link = NoLink] \in Door!Ask
      BY DEF Door!TypeOK, Door!Ask
    <3> QED BY <1>2, <3>1 DEF Door!Delete
  <2>4. desk' \subseteq Names /\ Remembered'
    BY <1>2 DEF Door!Delete, Door!TypeOK, Remembered
  <2> QED BY <1>2, <2>1, <2>2, <2>3, <2>4 DEF Door!Delete, Door!TypeOK
<1>3. ASSUME NEW n \in Names, NEW r \in Door!Roles, Door!CreateBegins(me, n, r) PROVE DoorTyped'
  <2>1. hashing' \subseteq Door!Waiting /\ Remembered'
    BY <1>3, WaitsTyped DEF Door!CreateBegins
  <2> QED BY <1>3, <2>1 DEF Door!CreateBegins, Door!TypeOK
<1>4. ASSUME NEW n \in Names, NEW c \in Door!Changes, Door!Update(me, n, c) PROVE DoorTyped'
  <2>1. member' \in [Names -> Door!Accounts \cup {NoAccount}]
    BY <1>4, ChangeTyped DEF Door!Update, Door!MayChange
  <2> QED BY <1>4, <2>1 DEF Door!Update, Door!TypeOK, Remembered
<1>5. ASSUME NEW n \in Names, NEW c \in Door!Changes, Door!UpdateBegins(me, n, c) PROVE DoorTyped'
  <2>1. hashing' \subseteq Door!Waiting /\ Remembered'
    BY <1>5, WaitsTyped DEF Door!UpdateBegins
  <2> QED BY <1>5, <2>1 DEF Door!UpdateBegins, Door!TypeOK
<1>6. ASSUME NEW i \in Door!Invites, Door!Withdraw(me, i) PROVE DoorTyped'
  BY <1>6 DEF Door!Withdraw, Door!TypeOK, Remembered
<1>7. ASSUME NEW i \in Door!Invites, NEW r \in Door!Roles, Door!Invite(me, i, r) PROVE DoorTyped'
  BY <1>7, MintTyped DEF Door!Invite, Door!TypeOK, Remembered
<1>8. ASSUME NEW i \in Door!Invites, NEW k \in Door!Asks, Door!Approve(me, k, i) PROVE DoorTyped'
  <2>1. invite' \in [Door!Invites -> [state : {"unwritten", "open", "used", "gone"}, role : Door!Roles]]
    BY <1>8, MintTyped DEF Door!Approve, Door!Roles
  <2>2. ask' \in [Door!Asks -> Door!Ask]
    <3>1. ask[k] \in Door!Ask /\ i \in {Door!NoInvite} \cup Door!Invites
      BY DEF Door!TypeOK
    <3>2. PICK a \in Door!Ask : a = ask[k]
      BY <3>1
    <3>3. [a EXCEPT !.state = "approved", !.invite = i] \in Door!Ask
      BY <3>1 DEF Door!Ask
    <3>4. ask' = [ask EXCEPT ![k] = [a EXCEPT !.state = "approved", !.invite = i]]
      BY <1>8, <3>2 DEF Door!Approve
    <3> QED BY <3>3, <3>4 DEF Door!TypeOK
  <2> QED BY <1>8, <2>1, <2>2 DEF Door!Approve, Door!TypeOK, Remembered
<1>9. ASSUME NEW k \in Door!Asks, Door!Decline(me, k) PROVE DoorTyped'
  <2>1. ask' \in [Door!Asks -> Door!Ask]
    <3>1. ask[k] \in Door!Ask
      BY DEF Door!TypeOK
    <3>2. [ask[k] EXCEPT !.state = "declined"] \in Door!Ask
      BY <3>1 DEF Door!Ask
    <3> QED BY <1>9, <3>2 DEF Door!Decline, Door!TypeOK
  <2> QED BY <1>9, <2>1 DEF Door!Decline, Door!TypeOK, Remembered
<1> QED
  BY <1>1, <1>2, <1>3, <1>4, <1>5, <1>6, <1>7, <1>8, <1>9 DEF Door!AdminStep

LEMMA PublicStepTyped ==
    ASSUME DoorParameters, DoorTyped, Door!PublicStep
    PROVE  DoorTyped'
<1> USE DEF DoorTyped
<1>1. ASSUME NEW n \in Names, Door!SetupBegins(n) PROVE DoorTyped'
  <2>1. hashing' \subseteq Door!Waiting /\ Remembered'
    BY <1>1, WaitsTyped DEF Door!SetupBegins, Door!Roles
  <2> QED BY <1>1, <2>1, ActTyped DEF Door!SetupBegins, Door!TypeOK
<1>2. ASSUME NEW n \in Names, Door!Provision(n) PROVE DoorTyped'
  <2>1. "admin" \in Door!Roles /\ (IF n \in ProxyAdmins THEN "admin" ELSE "reader") \in Door!Roles
    BY DEF Door!Roles
  <2>2. /\ member' \in [Names -> Door!Accounts \cup {NoAccount}]
        /\ opened' \in [{Door!Setup} \cup Door!Invites -> Nat]
    BY <1>2, <2>1, EntersTyped, EntersByTyped DEF Door!Provision, Door!TypeOK
  <2> QED BY <1>2, <2>2, ActTyped DEF Door!Provision, Door!TypeOK, Remembered
<1>3. ASSUME NEW n \in Names, NEW i \in Door!Invites, Door!AcceptBegins(i, n) PROVE DoorTyped'
  <2>1. invite[i].role \in Door!Roles
    BY DEF Door!TypeOK
  <2>2. hashing' \subseteq Door!Waiting /\ Remembered'
    BY <1>3, <2>1, WaitsTyped DEF Door!AcceptBegins
  <2> QED BY <1>3, <2>2, ActTyped DEF Door!AcceptBegins, Door!TypeOK
<1>4. ASSUME NEW n \in Names, NEW l \in Links, Door!Share(n, l) PROVE DoorTyped'
  <2>1. share' \in [Links -> [state : {"unmade", "live", "dead"}, owner : Names \cup {NoOne}]]
    BY <1>4 DEF Door!Share, Door!TypeOK
  <2> QED BY <1>4, <2>1, ActTyped DEF Door!Share, Door!TypeOK, Remembered
<1>5. ASSUME NEW n \in Names, NEW l \in Links, Door!Revoke(n, l) PROVE DoorTyped'
  <2>1. share' \in [Links -> [state : {"unmade", "live", "dead"}, owner : Names \cup {NoOne}]]
    BY <1>5 DEF Door!Revoke, Door!TypeOK
  <2> QED BY <1>5, <2>1, ActTyped DEF Door!Revoke, Door!TypeOK, Remembered
<1>6. ASSUME NEW i \in Door!Invites, Door!Lapse(i) PROVE DoorTyped'
  BY <1>6, ActTyped DEF Door!Lapse, Door!TypeOK, Remembered
<1>7. ASSUME NEW e \in Emails, NEW l \in Links, NEW k \in Door!Asks, Door!AskToJoin(e, l, k) PROVE DoorTyped'
  <2>1. [state |-> "pending", email |-> e, link |-> l, invite |-> Door!NoInvite] \in Door!Ask
    BY DEF Door!Ask
  <2>2. ask' \in [Door!Asks -> Door!Ask]
    BY <1>7, <2>1 DEF Door!AskToJoin, Door!TypeOK
  <2> QED BY <1>7, <2>2, ActTyped DEF Door!AskToJoin, Door!TypeOK, Remembered
<1> QED
  BY <1>1, <1>2, <1>3, <1>4, <1>5, <1>6, <1>7 DEF Door!PublicStep

LEMMA DoorsNextTyped == ASSUME DoorParameters, DoorTyped, [Door!Next]_(Door!vars) PROVE DoorTyped'
<1>1. CASE UNCHANGED Door!vars
  BY <1>1 DEF Door!vars, DoorTyped, Door!TypeOK, Remembered
<1> QED
  BY <1>1, HashedStepTyped, AdminStepTyped, PublicStepTyped DEF Door!Next

-----------------------------------------------------------------------------
(* An admin is left.                                                        *)

LEMMA AdminFields == Door!Admin.role = "admin" /\ Door!Admin.active = TRUE /\ Door!Admin \in Door!Accounts
BY DEF Door!Admin, Door!Accounts, Door!Roles

LEMMA AdminsAreKnown == ASSUME DoorParameters PROVE Door!Admins \subseteq Door!Known
BY AdminFields DEF DoorParameters, Door!Admins, Door!Known

\* The instance counts as everybody does.
LEMMA DoorCardinality == \A S : Door!Cardinality(S) = Cardinality(S)
BY DEF Door!Cardinality, Cardinality

\* Whoever is not the last admin leaves one behind.
LEMMA OthersRemain ==
    ASSUME DoorParameters, NEW n, Door!Admins # {}, ~(n \in Door!Admins /\ Door!LastAdmin)
    PROVE  \E a \in Door!Admins : a # n
<1>1. CASE n \notin Door!Admins
  BY <1>1
<1>2. CASE ~Door!LastAdmin
  <2>1. ASSUME Door!Admins \subseteq {n} PROVE FALSE
    <3>1. Door!Admins = {} \/ Door!Admins = {n}
      BY <2>1
    <3>2. Cardinality(Door!Admins) = 0 \/ Cardinality(Door!Admins) = 1
      BY <3>1, FS_EmptySet, FS_Singleton
    <3> QED BY <1>2, <3>2, DoorCardinality DEF Door!LastAdmin
  <2> QED BY <2>1
<1> QED BY <1>1, <1>2

LEMMA AdminStays ==
    ASSUME DoorTyped, NEW n \in Names, NEW a \in Door!Admins, NEW c \in Door!Changes,
           member' = [member EXCEPT ![n] = Door!Changed(@, c)],
           a # n \/ ~Door!Costs(n, c)
    PROVE  a \in Door!Admins'
<1>1. a \in Names /\ member[a] = Door!Admin
  BY DEF Door!Admins
<1>2. CASE a # n
  BY <1>1, <1>2 DEF Door!Admins, DoorTyped, Door!TypeOK, Door!Admin
<1>3. CASE a = n /\ ~Door!Costs(n, c)
  <2>1. c \in {"promote", "enable"}
    BY <1>3 DEF Door!Costs, Door!Changes
  <2>2. Door!Changed(Door!Admin, c) = Door!Admin
    BY <2>1 DEF Door!Changed, Door!Admin
  <2>3. member'[a] = Door!Changed(member[a], c)
    BY <1>1, <1>3 DEF DoorTyped, Door!TypeOK
  <2> QED BY <1>1, <2>2, <2>3 DEF Door!Admins, Door!Admin
<1> QED BY <1>2, <1>3

LEMMA EntersKeepsAdmins ==
    ASSUME DoorParameters, DoorTyped, NEW n \in Names \ Door!Known, NEW role, Door!Enters(n, role)
    PROVE  Door!Admins \subseteq Door!Admins'
<1>1. n \notin Door!Admins
  BY AdminsAreKnown
<1> QED BY <1>1 DEF Door!Enters, Door!Admins, DoorTyped, Door!TypeOK, Door!Admin

LEMMA EntersAdmin ==
    ASSUME DoorTyped, NEW n \in Names, Door!Enters(n, "admin")
    PROVE  Door!Admins' # {}
BY DEF Door!Enters, Door!Admins, DoorTyped, Door!TypeOK, Door!Admin

LEMMA InitFounded == ASSUME DoorParameters, Door!Init PROVE Founded
<1>1. desk = {} /\ hashing = {} /\ outrun = FALSE /\ opened[Door!Setup] = 0
  BY DEF Door!Init
<1>2. \A i \in Door!Invites : invite[i].state = "unwritten"
  BY DEF Door!Init
<1>3. Empty
  BY <1>1, <1>2 DEF Empty
<1>4. Door!Known = {} \/ Door!Admins # {}
  <2>1. PICK rs \in {{}, Residents} :
            member = [n \in Names |-> IF n \in rs THEN Door!Admin ELSE NoAccount]
    BY DEF Door!Init
  <2> QED BY <2>1 DEF Door!Known, Door!Admins
<1> QED BY <1>1, <1>3, <1>4 DEF Founded

LEMMA HashedStepFounded ==
    ASSUME DoorParameters, DoorTyped, Founded, NEW h \in hashing, Door!Hashed(h)
    PROVE  Founded'
<1>1. h.name \in Names /\ h.door \in {Door!Setup} \cup Door!Invites
  BY DEF DoorTyped, Door!TypeOK, Door!Waiting
<1>2. SUFFICES ASSUME ~outrun' PROVE opened'[Door!Setup] <= 1 /\ Door!Admins' # {}
  BY DEF Founded
<1>3. ~outrun
  <2>1. outrun' = outrun \/ outrun' = (outrun \/ Door!Costs(h.name, h.what))
    BY DEF Door!Hashed, Door!SetupEnds, Door!CreateEnds, Door!UpdateEnds, Door!AcceptEnds
  <2> QED BY <1>2, <2>1 DEF DoorTyped, Door!TypeOK
<1>4. opened[Door!Setup] <= 1 /\ ((Door!Known = {} /\ Empty) \/ Door!Admins # {})
  BY <1>3 DEF Founded
<1>5. CASE Door!SetupEnds(h)
  <2>1. CASE Door!Known = {} /\ Door!EntersBy(Door!Setup, h.name, "admin")
    <3>1. opened[Door!Setup] = 0
      BY <1>4, <2>1, AdminsAreKnown DEF Empty
    <3>2. opened'[Door!Setup] = 1
      BY <2>1, <3>1 DEF Door!EntersBy, DoorTyped, Door!TypeOK
    <3>3. Door!Admins' # {}
      BY <1>1, <2>1, EntersAdmin DEF Door!EntersBy
    <3> QED BY <3>2, <3>3
  <2>2. CASE Door!Known # {} /\ UNCHANGED <<member, opened>>
    BY <1>4, <2>2 DEF Door!Admins, Door!Admin
  <2> QED BY <1>5, <2>1, <2>2 DEF Door!SetupEnds
<1>6. CASE Door!CreateEnds(h)
  <2>1. Door!Admins # {} /\ opened' = opened
    BY <1>4, <1>6 DEF Door!CreateEnds, Empty
  <2>2. Door!Admins \subseteq Door!Admins'
    <3>1. CASE h.name \in Door!Known
      BY <1>6, <3>1 DEF Door!CreateEnds, Door!Admins, Door!Admin
    <3>2. CASE h.name \notin Door!Known
      BY <1>1, <1>6, <3>2, EntersKeepsAdmins DEF Door!CreateEnds
    <3> QED BY <3>1, <3>2
  <2> QED BY <1>4, <2>1, <2>2
<1>7. CASE Door!UpdateEnds(h)
  <2>1. Door!Admins # {} /\ opened' = opened
    BY <1>4, <1>7 DEF Door!UpdateEnds, Empty
  <2>2. PICK a \in Door!Admins : TRUE
    BY <2>1
  <2>3. a \in Door!Admins'
    <3>1. CASE h.name \in Door!Known
      <4>1. ~Door!Costs(h.name, h.what)
        BY <1>2, <1>7, <3>1 DEF Door!UpdateEnds
      <4>2. h.what \in Door!Changes
        BY <1>7 DEF Door!UpdateEnds, DoorTyped, Remembered
      <4> QED BY <1>1, <1>7, <3>1, <4>1, <4>2, AdminStays DEF Door!UpdateEnds
    <3>2. CASE h.name \notin Door!Known
      BY <1>7, <3>2 DEF Door!UpdateEnds, Door!Admins, Door!Admin
    <3> QED BY <3>1, <3>2
  <2> QED BY <1>4, <2>1, <2>3
<1>8. CASE Door!AcceptEnds(h)
  <2>1. Door!Admins # {}
    BY <1>4, <1>8 DEF Door!AcceptEnds, Empty
  <2>2. h.door \in Door!Invites
    BY <1>8 DEF Door!AcceptEnds, DoorTyped, Remembered
  <2>3. opened'[Door!Setup] = opened[Door!Setup]
    <3>1. h.door # Door!Setup
      BY <2>2 DEF Door!Invites
    <3> QED BY <1>8, <3>1 DEF Door!AcceptEnds, Door!EntersBy, DoorTyped, Door!TypeOK
  <2>4. Door!Admins \subseteq Door!Admins'
    <3>1. CASE UNCHANGED member
      BY <3>1 DEF Door!Admins, Door!Admin
    <3>2. CASE h.name \notin Door!Known /\ Door!Enters(h.name, h.what)
      BY <1>1, <3>2, EntersKeepsAdmins
    <3> QED BY <1>8, <3>1, <3>2 DEF Door!AcceptEnds, Door!EntersBy
  <2> QED BY <1>4, <2>1, <2>3, <2>4
<1> QED BY <1>5, <1>6, <1>7, <1>8 DEF Door!Hashed

LEMMA AdminStepFounded ==
    ASSUME DoorParameters, DoorTyped, Founded, NEW me \in Names, Door!AdminStep(me)
    PROVE  Founded'
<1>1. outrun' = outrun /\ opened' = opened
  BY DEF Door!AdminStep, Door!Arrive, Door!TurnedAway, Door!Delete, Door!CreateBegins, Door!Update, Door!UpdateBegins, Door!Withdraw,
         Door!Invite, Door!Approve, Door!Decline
<1>2. SUFFICES ASSUME ~outrun PROVE Door!Admins' # {}
  BY <1>1 DEF Founded
<1>3. me \in desk \/ me \in Door!Admins
  BY DEF Door!AdminStep, Door!Arrive, Door!TurnedAway, Door!Delete, Door!CreateBegins, Door!Update, Door!UpdateBegins, Door!Withdraw,
         Door!Invite, Door!Approve, Door!Decline
<1>4. Door!Admins # {}
  BY <1>2, <1>3 DEF Founded, Empty
<1>5. ASSUME NEW n \in Names, Door!Delete(me, n) PROVE Door!Admins' # {}
  <2>1. PICK a \in Door!Admins : a # n
    BY <1>4, <1>5, OthersRemain DEF Door!Delete
  <2>2. a \in Door!Admins'
    BY <1>5, <2>1 DEF Door!Delete, Door!Admins, DoorTyped, Door!TypeOK, Door!Admin
  <2> QED BY <2>2
<1>6. ASSUME NEW n \in Names, NEW c \in Door!Changes, Door!Update(me, n, c) PROVE Door!Admins' # {}
  <2>1. \E a \in Door!Admins : a # n \/ ~Door!Costs(n, c)
    <3>1. CASE Door!Costs(n, c)
      BY <1>4, <1>6, <3>1, OthersRemain DEF Door!Update, Door!MayChange
    <3>2. CASE ~Door!Costs(n, c)
      BY <1>4, <3>2
    <3> QED BY <3>1, <3>2
  <2>2. PICK a \in Door!Admins : a # n \/ ~Door!Costs(n, c)
    BY <2>1
  <2>3. a \in Door!Admins'
    BY <1>6, <2>2, AdminStays DEF Door!Update
  <2> QED BY <2>3
<1>7. CASE UNCHANGED member
  BY <1>4, <1>7 DEF Door!Admins, Door!Admin
<1>8. \/ UNCHANGED member
      \/ \E n \in Names : Door!Delete(me, n) \/ \E c \in Door!Changes : Door!Update(me, n, c)
  BY DEF Door!AdminStep, Door!Arrive, Door!TurnedAway, Door!CreateBegins, Door!UpdateBegins, Door!Withdraw,
         Door!Invite, Door!Approve, Door!Decline
<1> QED BY <1>5, <1>6, <1>7, <1>8

LEMMA PublicStepFounded ==
    ASSUME DoorParameters, DoorTyped, Founded, Door!PublicStep
    PROVE  Founded'
<1>1. outrun' = outrun
  BY DEF Door!PublicStep, Door!SetupBegins, Door!Provision, Door!AcceptBegins, Door!Share, Door!Revoke, Door!Lapse, Door!AskToJoin
<1>2. SUFFICES ASSUME ~outrun
               PROVE  opened'[Door!Setup] <= 1 /\ ((Door!Known = {} /\ Empty)' \/ Door!Admins' # {})
  BY <1>1 DEF Founded
<1>3. opened[Door!Setup] <= 1 /\ ((Door!Known = {} /\ Empty) \/ Door!Admins # {})
  BY <1>2 DEF Founded
<1>4. ASSUME NEW n \in Names, Door!SetupBegins(n)
      PROVE  opened'[Door!Setup] <= 1 /\ (Door!Known = {} /\ Empty)'
  <2>1. Door!Known = {} /\ Empty
    BY <1>3, <1>4, AdminsAreKnown DEF Door!SetupBegins
  <2>2. hashing' = hashing \cup {[op |-> "setup", name |-> n, what |-> "admin", door |-> Door!Setup]}
    BY <1>4 DEF Door!SetupBegins, Door!Waits
  <2> QED BY <1>3, <1>4, <2>1, <2>2 DEF Door!SetupBegins, Empty, Door!Known
<1>5. ASSUME NEW n \in Names, Door!Provision(n) PROVE opened'[Door!Setup] <= 1 /\ Door!Admins' # {}
  <2>1. CASE Door!Known = {} /\ Door!EntersBy(Door!Setup, n, "admin")
    <3>1. opened[Door!Setup] = 0
      BY <1>3, <2>1, AdminsAreKnown DEF Empty
    <3>2. opened'[Door!Setup] = 1
      BY <2>1, <3>1 DEF Door!EntersBy, DoorTyped, Door!TypeOK
    <3> QED BY <2>1, <3>2, EntersAdmin DEF Door!EntersBy
  <2>2. CASE Door!Known # {} /\ UNCHANGED opened /\ \E role \in Door!Roles : Door!Enters(n, role)
    <3>1. Door!Admins \subseteq Door!Admins'
      BY <1>5, <2>2, EntersKeepsAdmins DEF Door!Provision
    <3> QED BY <1>3, <2>2, <3>1
  <2> QED BY <1>5, <2>1, <2>2 DEF Door!Provision, Door!Roles
<1>6. ASSUME NEW i \in Door!Invites, Door!Open(i), UNCHANGED <<member, opened>>
      PROVE  opened'[Door!Setup] <= 1 /\ Door!Admins' # {}
  BY <1>3, <1>6 DEF Door!Open, Empty, Door!Admins, Door!Admin
<1>7. ASSUME UNCHANGED <<member, opened, desk, hashing, invite>>
      PROVE  opened'[Door!Setup] <= 1 /\ ((Door!Known = {} /\ Empty)' \/ Door!Admins' # {})
  BY <1>3, <1>7 DEF Empty, Door!Admins, Door!Known, Door!Admin
<1>8. \/ \E n \in Names : Door!SetupBegins(n) \/ Door!Provision(n)
      \/ \E i \in Door!Invites : Door!Open(i) /\ UNCHANGED <<member, opened>>
      \/ UNCHANGED <<member, opened, desk, hashing, invite>>
  BY DEF Door!PublicStep, Door!AcceptBegins, Door!Share, Door!Revoke, Door!Lapse, Door!AskToJoin
<1> QED BY <1>4, <1>5, <1>6, <1>7, <1>8

-----------------------------------------------------------------------------
(* No door opens twice.                                                     *)

LEMMA InitOnce == ASSUME DoorParameters, Door!Init PROVE Spent /\ AskFiled /\ NewestOnly
<1>1. /\ \A i \in Door!Invites : invite[i].state = "unwritten" /\ opened[i] = 0
      /\ \A k \in Door!Asks : ask[k].state = "unmade"
  BY DEF Door!Init
<1> QED BY <1>1 DEF Spent, AskFiled, NewestOnly

\* What happens to an invitation that opens no account.
InviteMoves(i) ==
    /\ invite'[i].state = "unwritten" => invite[i].state = "unwritten"
    /\ invite'[i].state = "open" => invite[i].state \in {"unwritten", "open"}

LEMMA SpentStays ==
    ASSUME DoorTyped, Spent, \A i \in Door!Invites : InviteMoves(i) /\ opened'[i] = opened[i]
    PROVE  Spent'
BY DEF Spent, InviteMoves

LEMMA MintMoves ==
    ASSUME DoorTyped, NEW i \in Door!Invites, NEW role, Door!Mint(i, role)
    PROVE  /\ \A m \in Door!Invites : InviteMoves(m)
           /\ \A m \in Door!Invites : m # i => invite'[m] = invite[m]
           /\ invite[i].state = "unwritten" /\ invite'[i].state = "open"
BY DEF Door!Mint, InviteMoves, DoorTyped, Door!TypeOK

LEMMA ClosingMoves ==
    ASSUME DoorTyped, NEW i \in Door!Invites, NEW s \in {"used", "gone"},
           invite' = [invite EXCEPT ![i].state = s]
    PROVE  /\ \A m \in Door!Invites : InviteMoves(m)
           /\ \A m \in Door!Invites : m # i => invite'[m] = invite[m]
           /\ invite'[i].state = s
<1>1. invite'[i].state = s /\ \A m \in Door!Invites : m # i => invite'[m] = invite[m]
  BY DEF DoorTyped, Door!TypeOK
<1> QED BY <1>1 DEF InviteMoves

LEMMA SameMoves == ASSUME invite' = invite PROVE \A m \in Door!Invites : InviteMoves(m)
BY DEF InviteMoves

\* A door is opened by its handler alone.
LEMMA EntersByOthers ==
    ASSUME DoorTyped, NEW door \in {Door!Setup} \cup Door!Invites, NEW n, NEW role,
           Door!EntersBy(door, n, role)
    PROVE  /\ opened'[door] = opened[door] + 1
           /\ \A d \in Door!Invites : d # door => opened'[d] = opened[d]
BY DEF Door!EntersBy, DoorTyped, Door!TypeOK

LEMMA NextSpent == ASSUME DoorTyped, Spent, [Door!Next]_(Door!vars) PROVE Spent'
<1>1. ASSUME NEW h \in hashing, Door!AcceptEnds(h) PROVE Spent'
  <2>1. h.door \in Door!Invites
    BY <1>1 DEF Door!AcceptEnds, DoorTyped, Remembered
  <2>2. CASE UNCHANGED <<opened, invite>>
    BY <2>2 DEF Spent
  <2>3. CASE /\ Door!Open(h.door) /\ Door!EntersBy(h.door, h.name, h.what)
             /\ invite' = [invite EXCEPT ![h.door].state = "used"]
    <3>1. /\ \A m \in Door!Invites : m # h.door => invite'[m] = invite[m]
          /\ invite'[h.door].state = "used"
      BY <2>1, <2>3, ClosingMoves
    <3>2. opened[h.door] = 0
      BY <2>1, <2>3 DEF Spent, Door!Open
    <3>3. /\ opened'[h.door] = 1
          /\ \A d \in Door!Invites : d # h.door => opened'[d] = opened[d]
      BY <2>1, <2>3, <3>2, EntersByOthers
    <3> QED BY <3>1, <3>3 DEF Spent
  <2> QED BY <1>1, <2>2, <2>3 DEF Door!AcceptEnds
<1>2. ASSUME NEW n, NEW role, Door!EntersBy(Door!Setup, n, role), invite' = invite PROVE Spent'
  <2>1. Door!Setup \in {Door!Setup} \cup Door!Invites /\ \A d \in Door!Invites : d # Door!Setup
    BY DEF Door!Invites
  <2>2. \A d \in Door!Invites : opened'[d] = opened[d]
    BY <1>2, <2>1, EntersByOthers
  <2> QED BY <1>2, <2>2, SameMoves, SpentStays
<1>3. ASSUME opened' = opened, \A i \in Door!Invites : InviteMoves(i) PROVE Spent'
  BY <1>3, SpentStays
<1>4. CASE UNCHANGED Door!vars
  BY <1>3, <1>4, SameMoves DEF Door!vars
<1>5. ASSUME NEW h \in hashing, Door!Hashed(h) PROVE Spent'
  <2>1. CASE Door!SetupEnds(h)
    BY <1>2, <1>3, <2>1, SameMoves DEF Door!SetupEnds
  <2>2. CASE Door!CreateEnds(h) \/ Door!UpdateEnds(h)
    BY <1>3, <2>2, SameMoves DEF Door!CreateEnds, Door!UpdateEnds
  <2> QED BY <1>1, <1>5, <2>1, <2>2 DEF Door!Hashed
<1>6. ASSUME NEW me \in Names, Door!AdminStep(me) PROVE Spent'
  <2>1. opened' = opened
    BY <1>6 DEF Door!AdminStep, Door!Arrive, Door!TurnedAway, Door!Delete, Door!CreateBegins, Door!Update, Door!UpdateBegins,
                Door!Withdraw, Door!Invite, Door!Approve, Door!Decline
  <2>2. \/ invite' = invite
        \/ \E i \in Door!Invites : \/ invite' = [invite EXCEPT ![i].state = "gone"]
                              \/ \E r : Door!Mint(i, r)
    BY <1>6 DEF Door!AdminStep, Door!Arrive, Door!TurnedAway, Door!Delete, Door!CreateBegins, Door!Update, Door!UpdateBegins,
                Door!Withdraw, Door!Invite, Door!Approve, Door!Decline
  <2>3. \A i \in Door!Invites : InviteMoves(i)
    BY <2>2, SameMoves, ClosingMoves, MintMoves
  <2> QED BY <1>3, <2>1, <2>3
<1>7. CASE Door!PublicStep
  <2>1. CASE \E n \in Names : Door!Provision(n)
    BY <1>2, <1>3, <2>1, SameMoves DEF Door!Provision
  <2>2. \/ \E n \in Names : Door!Provision(n)
        \/ /\ opened' = opened
           /\ \/ invite' = invite
              \/ \E i \in Door!Invites : invite' = [invite EXCEPT ![i].state = "gone"]
    BY <1>7 DEF Door!PublicStep, Door!SetupBegins, Door!AcceptBegins, Door!Share, Door!Revoke, Door!Lapse, Door!AskToJoin
  <2>3. CASE /\ opened' = opened
             /\ \/ invite' = invite
                \/ \E i \in Door!Invites : invite' = [invite EXCEPT ![i].state = "gone"]
    BY <1>3, <2>3, SameMoves, ClosingMoves
  <2> QED BY <2>1, <2>2, <2>3
<1> QED BY <1>4, <1>5, <1>6, <1>7 DEF Door!Next

-----------------------------------------------------------------------------
(* One open request for each address and link.                              *)

\* No step writes a request, or opens what was closed.
Settles(k) ==
    /\ ask'[k].email = ask[k].email
    /\ ask'[k].link = ask[k].link \/ ask'[k].link = NoLink
    /\ ask'[k].state = "unmade" <=> ask[k].state = "unmade"
    /\ ask'[k].state = "approved" =>
          /\ ask'[k].invite \in Door!Invites /\ invite'[ask'[k].invite].state # "unwritten"
    /\ Door!StillOpen(k)' => Door!StillOpen(k)

LEMMA SettledOnce ==
    ASSUME DoorTyped, AskFiled, NewestOnly, \A k \in Door!Asks : Settles(k)
    PROVE  AskFiled' /\ NewestOnly'
<1>1. AskFiled'
  BY DEF AskFiled, Settles
<1>2. ASSUME NEW j \in Door!Asks, NEW k \in Door!Asks, j < k, ask'[k].state # "unmade",
             ask'[j].link # NoLink, ask'[j].email = ask'[k].email, ask'[j].link = ask'[k].link
      PROVE  ~Door!StillOpen(j)'
  BY <1>2 DEF NewestOnly, Settles
<1> QED BY <1>1, <1>2 DEF NewestOnly, Door!StillOpen

LEMMA InvitesSettle ==
    ASSUME DoorTyped, AskFiled, ask' = ask, \A i \in Door!Invites : InviteMoves(i)
    PROVE  \A k \in Door!Asks : Settles(k)
<1> TAKE k \in Door!Asks
<1>1. ask[k].state = "approved" =>
          /\ ask[k].invite \in Door!Invites /\ invite[ask[k].invite].state # "unwritten"
  BY DEF AskFiled
<1> QED BY <1>1 DEF Settles, Door!StillOpen, Door!Open, InviteMoves

LEMMA DeleteSettles ==
    ASSUME DoorTyped, AskFiled, NEW me, NEW n, Door!Delete(me, n)
    PROVE  \A k \in Door!Asks : Settles(k)
<1> TAKE k \in Door!Asks
<1>1. PICK a \in Door!Ask : a = ask[k]
  BY DEF DoorTyped, Door!TypeOK
<1>2. ask'[k] = a \/ ask'[k] = [a EXCEPT !.link = NoLink]
  BY <1>1 DEF Door!Delete
<1>3. /\ ask'[k].email = a.email /\ ask'[k].state = a.state /\ ask'[k].invite = a.invite
      /\ ask'[k].link = a.link \/ ask'[k].link = NoLink
  BY <1>2 DEF Door!Ask
<1>4. invite' = invite
  BY DEF Door!Delete
<1>5. a.state = "approved" => a.invite \in Door!Invites /\ invite[a.invite].state # "unwritten"
  BY <1>1 DEF AskFiled
<1> QED BY <1>1, <1>3, <1>4, <1>5 DEF Settles, Door!StillOpen, Door!Open

LEMMA ApproveSettles ==
    ASSUME DoorTyped, AskFiled, NEW me, NEW k \in Door!Asks, NEW i \in Door!Invites, Door!Approve(me, k, i)
    PROVE  \A m \in Door!Asks : Settles(m)
<1>1. /\ \A j \in Door!Invites : InviteMoves(j)
      /\ invite'[i].state = "open"
  BY MintMoves DEF Door!Approve
<1>2. PICK a \in Door!Ask : a = ask[k]
  BY DEF DoorTyped, Door!TypeOK
<1>3. ask' = [ask EXCEPT ![k] = [a EXCEPT !.state = "approved", !.invite = i]]
  BY <1>2 DEF Door!Approve
<1>4. /\ ask'[k].state = "approved" /\ ask'[k].invite = i
      /\ ask'[k].email = a.email /\ ask'[k].link = a.link /\ a.state = "pending"
  BY <1>2, <1>3 DEF Door!Ask, Door!Approve, DoorTyped, Door!TypeOK
<1>5. Settles(k)
  BY <1>1, <1>2, <1>4 DEF Settles, Door!StillOpen
<1>6. ASSUME NEW m \in Door!Asks, m # k PROVE Settles(m)
  <2>1. ask'[m] = ask[m]
    BY <1>3, <1>6 DEF DoorTyped, Door!TypeOK
  <2>2. ask[m].state = "approved" =>
            ask[m].invite \in Door!Invites /\ invite[ask[m].invite].state # "unwritten"
    BY DEF AskFiled
  <2> QED BY <1>1, <2>1, <2>2 DEF Settles, Door!StillOpen, Door!Open, InviteMoves
<1> QED BY <1>5, <1>6

LEMMA DeclineSettles ==
    ASSUME DoorTyped, AskFiled, NEW me, NEW k \in Door!Asks, Door!Decline(me, k)
    PROVE  \A m \in Door!Asks : Settles(m)
<1>1. PICK a \in Door!Ask : a = ask[k]
  BY DEF DoorTyped, Door!TypeOK
<1>2. ask' = [ask EXCEPT ![k] = [a EXCEPT !.state = "declined"]] /\ invite' = invite
  BY <1>1 DEF Door!Decline
<1>3. /\ ask'[k].state = "declined" /\ ask'[k].email = a.email /\ ask'[k].link = a.link
      /\ a.state = "pending"
  BY <1>1, <1>2 DEF Door!Ask, Door!Decline, DoorTyped, Door!TypeOK
<1>4. Settles(k)
  BY <1>1, <1>3 DEF Settles, Door!StillOpen
<1>5. ASSUME NEW m \in Door!Asks, m # k PROVE Settles(m)
  <2>1. ask'[m] = ask[m]
    BY <1>2, <1>5 DEF DoorTyped, Door!TypeOK
  <2>2. ask[m].state = "approved" =>
            ask[m].invite \in Door!Invites /\ invite[ask[m].invite].state # "unwritten"
    BY DEF AskFiled
  <2> QED BY <1>2, <2>1, <2>2 DEF Settles, Door!StillOpen, Door!Open
<1> QED BY <1>4, <1>5

\* A request is left where none of its address and link is open.
LEMMA AskIsNewest ==
    ASSUME DoorParameters, DoorTyped, AskFiled, NewestOnly,
           NEW e \in Emails, NEW l \in Links, NEW k \in Door!Asks, Door!AskToJoin(e, l, k)
    PROVE  AskFiled' /\ NewestOnly'
<1>1. /\ ask'[k] = [state |-> "pending", email |-> e, link |-> l, invite |-> Door!NoInvite]
      /\ \A m \in Door!Asks : m # k => ask'[m] = ask[m]
      /\ invite' = invite
  BY DEF Door!AskToJoin, DoorTyped, Door!TypeOK
<1>2. Door!Asks \subseteq Int
  BY DEF Door!Asks
<1>3. /\ ask[k].state = "unmade"
      /\ \A m \in Door!Asks : m < k => ask[m].state # "unmade"
      /\ \A m \in Door!Asks : k < m => ask[m].state = "unmade"
  BY DEF Door!AskToJoin, AskFiled
<1>4. AskFiled'
  <2> SUFFICES ASSUME NEW j \in Door!Asks
               PROVE  /\ ask'[j].state # "unmade" =>
                            \A m \in Door!Asks : m < j => ask'[m].state # "unmade"
                      /\ ask'[j].state = "approved" =>
                            /\ ask'[j].invite \in Door!Invites
                            /\ invite'[ask'[j].invite].state # "unwritten"
    BY DEF AskFiled
  <2>1. CASE j = k
    BY <1>1, <1>2, <1>3, <2>1
  <2>2. CASE j # k
    BY <1>1, <1>2, <1>3, <2>2 DEF AskFiled
  <2> QED BY <2>1, <2>2
<1>5. ASSUME NEW j \in Door!Asks, j < k, ask[j].email = e, ask[j].link = l, Door!StillOpen(j)
      PROVE  FALSE
  <2>1. j \in Door!Through(e, l)
    BY <1>3, <1>5 DEF Door!Through
  <2>2. ASSUME NEW m \in Door!Through(e, l) PROVE m <= j
    <3>1. m \in Door!Asks /\ ask[m].state # "unmade" /\ ask[m].email = e /\ ask[m].link = l
      BY <2>2 DEF Door!Through
    <3>2. ask[j].link # NoLink
      BY <1>5 DEF DoorParameters
    <3> QED BY <1>2, <1>5, <3>1, <3>2 DEF NewestOnly
  <2> QED BY <1>5, <2>1, <2>2 DEF Door!AskToJoin, Door!MayAsk
<1>6. \A j \in Door!Asks : j # k => (Door!StillOpen(j)' <=> Door!StillOpen(j))
  BY <1>1 DEF Door!StillOpen, Door!Open
<1>7. ASSUME NEW i \in Door!Asks, NEW j \in Door!Asks, i < j, ask'[j].state # "unmade",
             ask'[i].link # NoLink, ask'[i].email = ask'[j].email, ask'[i].link = ask'[j].link
      PROVE  ~Door!StillOpen(i)'
  <2>1. CASE j = k
    <3>1. i # k /\ ask[i].email = e /\ ask[i].link = l
      BY <1>1, <1>2, <1>7, <2>1
    <3> QED BY <1>5, <1>6, <1>7, <2>1, <3>1
  <2>2. CASE i = k /\ j # k
    BY <1>1, <1>3, <1>7, <2>2
  <2>3. CASE i # k /\ j # k
    BY <1>1, <1>6, <1>7, <2>3 DEF NewestOnly
  <2> QED BY <2>1, <2>2, <2>3
<1>8. NewestOnly'
  BY <1>7 DEF NewestOnly, Door!StillOpen
<1> QED BY <1>4, <1>8

LEMMA NextNewest ==
    ASSUME DoorParameters, DoorTyped, AskFiled, NewestOnly, [Door!Next]_(Door!vars)
    PROVE  AskFiled' /\ NewestOnly'
<1>1. CASE \E e \in Emails, l \in Links, k \in Door!Asks : Door!AskToJoin(e, l, k)
  BY <1>1, AskIsNewest
<1>2. CASE \E me \in Names, k \in Door!Asks, i \in Door!Invites : Door!Approve(me, k, i)
  BY <1>2, ApproveSettles, SettledOnce
<1>3. CASE \E me \in Names, k \in Door!Asks : Door!Decline(me, k)
  BY <1>3, DeclineSettles, SettledOnce
<1>4. CASE \E me \in Names, n \in Names : Door!Delete(me, n)
  BY <1>4, DeleteSettles, SettledOnce
<1>5. CASE ask' = ask /\ \A i \in Door!Invites : InviteMoves(i)
  BY <1>5, InvitesSettle, SettledOnce
<1>6. ASSUME ask' = ask, invite' = invite
      PROVE  AskFiled' /\ NewestOnly'
  BY <1>5, <1>6, SameMoves
<1>7. ASSUME ask' = ask, NEW i \in Door!Invites, NEW s \in {"used", "gone"},
             invite' = [invite EXCEPT ![i].state = s]
      PROVE  AskFiled' /\ NewestOnly'
  BY <1>5, <1>7, ClosingMoves
<1>8. ASSUME ask' = ask, NEW i \in Door!Invites, NEW r, Door!Mint(i, r)
      PROVE  AskFiled' /\ NewestOnly'
  BY <1>5, <1>8, MintMoves
<1>9. CASE UNCHANGED Door!vars
  BY <1>6, <1>9 DEF Door!vars
<1>10. ASSUME NEW h \in hashing, Door!Hashed(h) PROVE AskFiled' /\ NewestOnly'
  <2>1. CASE Door!AcceptEnds(h)
    <3>1. h.door \in Door!Invites /\ ask' = ask
      BY <2>1 DEF Door!AcceptEnds, DoorTyped, Remembered
    <3> QED BY <1>6, <1>7, <2>1, <3>1 DEF Door!AcceptEnds
  <2>2. CASE Door!SetupEnds(h) \/ Door!CreateEnds(h) \/ Door!UpdateEnds(h)
    BY <1>6, <2>2 DEF Door!SetupEnds, Door!CreateEnds, Door!UpdateEnds
  <2> QED BY <1>10, <2>1, <2>2 DEF Door!Hashed
<1>11. ASSUME NEW me \in Names, Door!AdminStep(me) PROVE AskFiled' /\ NewestOnly'
  <2>1. \/ ask' = ask /\ invite' = invite
        \/ \E n \in Names : Door!Delete(me, n)
        \/ \E i \in Door!Invites : Door!Withdraw(me, i) \/ \E r \in Door!Roles : Door!Invite(me, i, r)
        \/ \E k \in Door!Asks, i \in Door!Invites : Door!Approve(me, k, i)
        \/ \E k \in Door!Asks : Door!Decline(me, k)
    BY <1>11 DEF Door!AdminStep, Door!Arrive, Door!TurnedAway, Door!CreateBegins, Door!Update, Door!UpdateBegins
  <2> QED BY <1>2, <1>3, <1>4, <1>6, <1>7, <1>8, <2>1 DEF Door!Withdraw, Door!Invite
<1>12. CASE Door!PublicStep
  <2>1. \/ ask' = ask /\ invite' = invite
        \/ \E i \in Door!Invites : ask' = ask /\ invite' = [invite EXCEPT ![i].state = "gone"]
        \/ \E e \in Emails, l \in Links, k \in Door!Asks : Door!AskToJoin(e, l, k)
    BY <1>12 DEF Door!PublicStep, Door!SetupBegins, Door!Provision, Door!AcceptBegins, Door!Share, Door!Revoke, Door!Lapse
  <2> QED BY <1>1, <1>6, <1>7, <2>1
<1> QED BY <1>9, <1>10, <1>11, <1>12 DEF Door!Next

-----------------------------------------------------------------------------
(* Theorems.                                                                *)

\* What the server keeps of accounts, invitations and requests has its type.
THEOREM DoorsTypeCorrect == Door!Spec => []Door!TypeOK
<1>1. Door!Init => DoorTyped
  BY DoorAssumption, DoorsInitTyped
<1>2. DoorTyped /\ [Door!Next]_(Door!vars) => DoorTyped'
  BY DoorAssumption, DoorsNextTyped
<1>3. DoorTyped => Door!TypeOK
  BY DEF DoorTyped
<1> QED BY <1>1, <1>2, <1>3, PTL DEF Door!Spec

LEMMA DoorInvStep == ASSUME DoorParameters, DoorTyped, DoorInv, [Door!Next]_(Door!vars) PROVE DoorInv'
<1> USE DEF DoorInv
<1>1. Founded'
  <2>1. CASE UNCHANGED Door!vars
    BY <2>1 DEF Door!vars, Founded, Empty, Door!Known, Door!Admins, Door!Admin
  <2> QED BY <2>1, HashedStepFounded, AdminStepFounded, PublicStepFounded DEF Door!Next
<1> QED BY <1>1, NextSpent, NextNewest

LEMMA DoorsAreSafe == ASSUME DoorParameters PROVE Door!Spec => [](DoorTyped /\ DoorInv)
<1>1. Door!Init => DoorTyped /\ DoorInv
  BY DoorsInitTyped, InitFounded, InitOnce DEF DoorInv
<1>2. DoorTyped /\ DoorInv /\ [Door!Next]_(Door!vars) => (DoorTyped /\ DoorInv)'
  BY DoorsNextTyped, DoorInvStep
<1> QED BY <1>1, <1>2, PTL DEF Door!Spec

\* Whatever admins do to each other, and however many of their requests overlap while
\* passwords are hashed, an active admin is left, until a request that had waited took
\* an admin's rights behind the other's back (the users routes, isLastAdmin).
THEOREM AnAdminIsLeft == Door!Spec => []LastAdminIsKept
<1>1. DoorTyped /\ DoorInv => Door!LastAdminIsKept
  BY DEF DoorInv, Founded, Door!LastAdminIsKept, Door!AdminsRemain
<1> QED BY <1>1, DoorAssumption, DoorsAreSafe, PTL DEF LastAdminIsKept

\* Setup and every invitation open at most one account, however many forms were on
\* their way, and an address has at most one open request or invitation per link.
THEOREM NoDoorOpensTwice == Door!Spec => []DoorsOpenOnce
<1>1. ASSUME DoorTyped, DoorInv PROVE Door!HandedOverOnce
  BY <1>1 DEF DoorInv, Founded, Spent, Door!HandedOverOnce
<1>2. ASSUME DoorTyped, DoorInv PROVE Door!AskedOnce
  <2> SUFFICES ASSUME NEW j \in Door!Asks, NEW k \in Door!Asks,
                      ask[j].email = ask[k].email, ask[j].link = ask[k].link,
                      ask[j].link # NoLink, Door!StillOpen(j), Door!StillOpen(k), j # k
               PROVE  FALSE
    BY DEF Door!AskedOnce
  <2>1. ask[j].state # "unmade" /\ ask[k].state # "unmade"
    BY DEF Door!StillOpen
  <2>2. j < k \/ k < j
    BY DEF Door!Asks
  <2> QED BY <1>2, <2>1, <2>2 DEF DoorInv, NewestOnly
<1>3. DoorTyped /\ DoorInv => Door!DoorsOpenOnce
  BY <1>1, <1>2 DEF Door!DoorsOpenOnce
<1> QED BY <1>3, DoorAssumption, DoorsAreSafe, PTL DEF DoorsOpenOnce

-----------------------------------------------------------------------------
\* TypeOK without what the bounds have been spent on.
TrustTyped ==
    /\ standing \in [People -> {"active", "disabled", "gone"}]
    /\ time \in 0..MaxCodeTime
    /\ code \in [Trust!Codes -> [state : {"unmade", "issued", "cancelled", "gone"},
                           owner : People \cup {Nobody},
                           issued : Nat, redeemed : Nat \cup {Trust!Never}, key : {Trust!NoKey} \cup Trust!Keys]]
    /\ key \in [Trust!Keys -> [state : {"unmade", "live", "revoked"}, owner : People \cup {Nobody}]]
    /\ minted \in [Trust!Codes -> SUBSET Nat]
    /\ friends \subseteq [from : People, to : People, accepted : BOOLEAN]
    /\ said \subseteq People \X People

\* A code that was not traded has handed out nothing.
Untraded ==
    \A c \in Trust!Codes :
        /\ code[c].state = "unmade" => code[c].redeemed = Trust!Never /\ code[c].key = Trust!NoKey
        /\ code[c].redeemed = Trust!Never => minted[c] = {}

\* What a traded code handed out, it handed out within the grace period of its
\* first use, and while it was valid.
InTime ==
    \A c \in Trust!Codes :
        /\ code[c].redeemed <= time
        /\ \A t \in minted[c] :
              /\ code[c].redeemed <= t /\ t <= time
              /\ t - code[c].redeemed <= Grace
              /\ t < code[c].issued + Ttl

\* A key that works is the last one some code handed out.
Accounted == \A k \in Trust!Keys : key[k].state = "live" => \E d \in Trust!Codes : code[d].key = k

CodesInv == Untraded /\ InTime /\ Accounted

-----------------------------------------------------------------------------
(* Types.                                                                   *)

LEMMA TrustInitTyped == ASSUME TrustParameters, Trust!Init PROVE TrustTyped
BY SMT DEF TrustParameters, Trust!Init, TrustTyped, Trust!Codes, Trust!Keys, Trust!NoKey, Trust!Never

Rows == [from : People, to : People, accepted : BOOLEAN]

LEMMA AcceptedIsRow ==
    ASSUME TrustTyped, NEW r \in friends
    PROVE  [r EXCEPT !.accepted = TRUE] \in Rows
<1>1. r \in Rows
  BY DEF TrustTyped, Rows
<1> QED BY <1>1 DEF Rows

LEMMA TrustNextTyped == ASSUME TrustParameters, TrustTyped, [Trust!Next]_(Trust!vars) PROVE TrustTyped'
<1> USE DEF TrustTyped
<1>1. CASE UNCHANGED Trust!vars
  BY <1>1 DEF Trust!vars
<1>2. CASE Trust!Tick
  BY <1>2 DEF Trust!Tick, TrustParameters
<1>3. ASSUME NEW p \in People, NEW c \in Trust!Codes, Trust!Issue(p, c) PROVE TrustTyped'
  <2>1. code' \in [Trust!Codes -> [state : {"unmade", "issued", "cancelled", "gone"},
                           owner : People \cup {Nobody},
                           issued : Nat, redeemed : Nat \cup {Trust!Never}, key : {Trust!NoKey} \cup Trust!Keys]]
    BY <1>3 DEF Trust!Issue, TrustParameters, Trust!Never, Trust!NoKey
  <2> QED BY <1>3, <2>1 DEF Trust!Issue
<1>4. ASSUME NEW p \in People, NEW c \in Trust!Codes, Trust!Cancel(p, c) PROVE TrustTyped'
  BY <1>4 DEF Trust!Cancel
<1>5. ASSUME NEW p \in People, NEW k \in Trust!Keys, Trust!RevokeKey(p, k) PROVE TrustTyped'
  BY <1>5 DEF Trust!RevokeKey
<1>6. ASSUME NEW p \in People, NEW q \in People, Trust!Request(p, q) PROVE TrustTyped'
  <2>1. \A r \in friends : [r EXCEPT !.accepted = TRUE] \in Rows
    BY AcceptedIsRow
  <2>2. [from |-> p, to |-> q, accepted |-> FALSE] \in Rows
    BY DEF Rows
  <2>3. friends' \subseteq Rows
    <3>1. friends \subseteq Rows
      BY DEF Rows
    <3>2. CASE friends' = friends \cup {[from |-> p, to |-> q, accepted |-> FALSE]}
      BY <2>2, <3>1, <3>2
    <3>3. ASSUME NEW r \in friends, friends' = (friends \ {r}) \cup {[r EXCEPT !.accepted = TRUE]}
          PROVE  friends' \subseteq Rows
      BY <2>1, <3>1, <3>3
    <3> QED BY <1>6, <3>2, <3>3 DEF Trust!Request, Trust!Between
  <2> QED BY <1>6, <2>3 DEF Trust!Request, Rows
<1>7. ASSUME NEW p \in People, NEW r \in friends, Trust!Accept(p, r) PROVE TrustTyped'
  <2>1. [r EXCEPT !.accepted = TRUE] \in Rows
    BY AcceptedIsRow
  <2>2. friends' \subseteq Rows
    BY <1>7, <2>1 DEF Trust!Accept, Rows
  <2>3. Trust!Other(p, r) \in People
    BY DEF Trust!Other
  <2> QED BY <1>7, <2>2, <2>3 DEF Trust!Accept, Rows
<1>8. ASSUME NEW p \in People, NEW r \in friends, Trust!Part(p, r) PROVE TrustTyped'
  BY <1>8 DEF Trust!Part
<1>9. ASSUME NEW p \in People, Trust!Disable(p) \/ Trust!Enable(p) PROVE TrustTyped'
  BY <1>9 DEF Trust!Disable, Trust!Enable
<1>10. ASSUME NEW p \in People, Trust!Delete(p) PROVE TrustTyped'
  BY <1>10 DEF Trust!Delete
<1>11. ASSUME NEW c \in Trust!Codes, NEW k \in Trust!Keys, Trust!Redeem(c, k) PROVE TrustTyped'
  <2>1. Trust!FirstUse(c) \in Nat \cup {Trust!Never} /\ time \in Nat
    BY DEF Trust!FirstUse, TrustParameters
  <2>2. code[c].owner \in People \cup {Nobody}
    OBVIOUS
  <2>3. key' \in [Trust!Keys -> [state : {"unmade", "live", "revoked"}, owner : People \cup {Nobody}]]
    BY <1>11, <2>2 DEF Trust!Redeem
  <2>4. /\ code' \in [Trust!Codes -> [state : {"unmade", "issued", "cancelled", "gone"},
                           owner : People \cup {Nobody},
                           issued : Nat, redeemed : Nat \cup {Trust!Never}, key : {Trust!NoKey} \cup Trust!Keys]]
        /\ minted' \in [Trust!Codes -> SUBSET Nat]
    <3>1. [code[c] EXCEPT !.redeemed = Trust!FirstUse(c), !.key = k] \in
              [state : {"unmade", "issued", "cancelled", "gone"},
               owner : People \cup {Nobody},
               issued : Nat, redeemed : Nat \cup {Trust!Never}, key : {Trust!NoKey} \cup Trust!Keys]
      <4> DEFINE row == code[c]
      <4>1. row \in [state : {"unmade", "issued", "cancelled", "gone"},
                     owner : People \cup {Nobody},
                     issued : Nat, redeemed : Nat \cup {Trust!Never}, key : {Trust!NoKey} \cup Trust!Keys]
        OBVIOUS
      <4> HIDE DEF row
      <4>2. [row EXCEPT !.redeemed = Trust!FirstUse(c), !.key = k] \in
                [state : {"unmade", "issued", "cancelled", "gone"},
                 owner : People \cup {Nobody},
                 issued : Nat, redeemed : Nat \cup {Trust!Never}, key : {Trust!NoKey} \cup Trust!Keys]
        BY <2>1, <4>1
      <4> QED BY <4>2 DEF row
    <3>2. code' = [code EXCEPT ![c] = [code[c] EXCEPT !.redeemed = Trust!FirstUse(c), !.key = k]]
      BY <1>11 DEF Trust!Redeem
    <3>3. minted' \in [Trust!Codes -> SUBSET Nat]
      BY <1>11, <2>1 DEF Trust!Redeem
    <3> QED BY <3>1, <3>2, <3>3
  <2> QED BY <1>11, <2>3, <2>4 DEF Trust!Redeem
<1> QED
  BY <1>1, <1>2, <1>3, <1>4, <1>5, <1>6, <1>7, <1>8, <1>9, <1>10, <1>11 DEF Trust!Next

-----------------------------------------------------------------------------
(* Codes and keys.                                                          *)

LEMMA InitCodes == ASSUME TrustParameters, Trust!Init PROVE CodesInv
BY SMT DEF TrustParameters, Trust!Init, CodesInv, Untraded, InTime, Accounted, Trust!Codes, Trust!Keys, Trust!NoKey, Trust!Never

LEMMA RedeemKeepsCodes ==
    ASSUME TrustParameters, TrustTyped, CodesInv, NEW c \in Trust!Codes, NEW k \in Trust!Keys, Trust!Redeem(c, k)
    PROVE  CodesInv'
<1> USE DEF TrustTyped, CodesInv
<1>1. /\ code' = [code EXCEPT ![c].redeemed = Trust!FirstUse(c), ![c].key = k]
      /\ minted' = [minted EXCEPT ![c] = @ \cup {time}]
      /\ time' = time /\ time \in Nat /\ Grace \in Nat /\ Ttl \in Nat
      /\ Trust!Redeemable(c)
  BY DEF Trust!Redeem, TrustParameters
<1>2. /\ code[c].redeemed \in Nat \cup {Trust!Never} /\ code[c].issued \in Nat
      /\ minted[c] \subseteq Nat
  OBVIOUS
<1>3. /\ code'[c].state = code[c].state /\ code'[c].issued = code[c].issued
      /\ code'[c].redeemed = Trust!FirstUse(c) /\ code'[c].key = k
      /\ minted'[c] = minted[c] \cup {time}
  BY <1>1
<1>4. \A d \in Trust!Codes \ {c} : code'[d] = code[d] /\ minted'[d] = minted[d]
  BY <1>1
<1>5. code[c].state = "issued"
  BY <1>1 DEF Trust!Redeemable
<1>6. Trust!FirstUse(c) \in Nat /\ Trust!FirstUse(c) <= time /\ time - Trust!FirstUse(c) <= Grace
  BY <1>1, <1>2 DEF Trust!FirstUse, Trust!Redeemable, InTime, Trust!Never
<1>7. Untraded'
  BY <1>3, <1>4, <1>5, <1>6 DEF Untraded, Trust!Never
<1>8. ASSUME NEW t \in minted'[c]
      PROVE  /\ Trust!FirstUse(c) <= t /\ t <= time /\ t - Trust!FirstUse(c) <= Grace
             /\ t < code[c].issued + Ttl
  <2>1. CASE t = time
    BY <1>1, <1>2, <1>6, <2>1 DEF Trust!Redeemable
  <2>2. CASE t \in minted[c]
    <3>1. code[c].redeemed # Trust!Never
      BY <2>2 DEF Untraded
    <3>2. Trust!FirstUse(c) = code[c].redeemed
      BY <3>1 DEF Trust!FirstUse
    <3> QED BY <2>2, <3>2 DEF InTime
  <2> QED BY <1>3, <1>8, <2>1, <2>2
<1>9. InTime'
  BY <1>1, <1>3, <1>4, <1>6, <1>8 DEF InTime
<1>10. ASSUME NEW m \in Trust!Keys, key'[m].state = "live" PROVE \E d \in Trust!Codes : code'[d].key = m
  <2>1. CASE m = k
    BY <1>3, <2>1
  <2>2. CASE m # k
    <3>1. m # code[c].key /\ key[m].state = "live"
      BY <1>10, <2>2 DEF Trust!Redeem
    <3>2. PICK d \in Trust!Codes : code[d].key = m
      BY <3>1 DEF Accounted
    <3> QED BY <1>4, <3>1, <3>2
  <2> QED BY <2>1, <2>2
<1> QED BY <1>7, <1>9, <1>10 DEF Accounted

LEMMA NextCodes == ASSUME TrustParameters, TrustTyped, CodesInv, [Trust!Next]_(Trust!vars) PROVE CodesInv'
<1> USE DEF CodesInv, Untraded, InTime, Accounted
<1>1. ASSUME UNCHANGED <<time, code, key, minted>> PROVE CodesInv'
  BY <1>1
<1>2. CASE Trust!Tick
  <2>1. time \in Nat /\ time' = time + 1 /\ UNCHANGED <<code, key, minted>>
    BY <1>2 DEF Trust!Tick, TrustTyped, TrustParameters
  <2>2. \A c \in Trust!Codes : code[c].redeemed \in Int /\ minted[c] \subseteq Int
    BY DEF TrustTyped, Trust!Never
  <2> QED BY <2>1, <2>2
<1>3. ASSUME NEW p \in People, NEW c \in Trust!Codes, Trust!Issue(p, c) PROVE CodesInv'
  <2>1. /\ code' = [code EXCEPT ![c] = [state |-> "issued", owner |-> p, issued |-> time,
                                        redeemed |-> Trust!Never, key |-> Trust!NoKey]]
        /\ UNCHANGED <<time, key, minted>> /\ code[c].state = "unmade" /\ time \in Nat
    BY <1>3 DEF Trust!Issue, TrustTyped, TrustParameters
  <2>2. /\ code'[c].redeemed = Trust!Never /\ code'[c].key = Trust!NoKey
        /\ \A d \in Trust!Codes \ {c} : code'[d] = code[d]
        /\ code[c].key = Trust!NoKey /\ minted[c] = {}
    BY <2>1 DEF TrustTyped
  <2>3. \A k \in Trust!Keys : k # Trust!NoKey
    BY DEF Trust!Keys, Trust!NoKey
  <2>4. Untraded' /\ InTime'
    BY <2>1, <2>2 DEF Trust!Never
  <2>5. Accounted'
    BY <2>1, <2>2, <2>3
  <2> QED BY <2>4, <2>5
<1>4. ASSUME NEW p \in People, NEW c \in Trust!Codes, Trust!Cancel(p, c) PROVE CodesInv'
  <2>1. \A d \in Trust!Codes : /\ code'[d].redeemed = code[d].redeemed
                         /\ code'[d].key = code[d].key /\ code'[d].issued = code[d].issued
                         /\ code'[d].state = "unmade" => code[d].state = "unmade"
    BY <1>4 DEF Trust!Cancel, TrustTyped
  <2> QED BY <1>4, <2>1 DEF Trust!Cancel
<1>5. ASSUME NEW p \in People, NEW k \in Trust!Keys, Trust!RevokeKey(p, k) PROVE CodesInv'
  <2>1. \A m \in Trust!Keys : key'[m].state = "live" => key[m].state = "live"
    BY <1>5 DEF Trust!RevokeKey, TrustTyped
  <2> QED BY <1>5, <2>1 DEF Trust!RevokeKey
<1>6. ASSUME NEW p \in People, Trust!Delete(p) PROVE CodesInv'
  <2>1. \A d \in Trust!Codes : /\ code'[d].redeemed = code[d].redeemed
                         /\ code'[d].key = code[d].key /\ code'[d].issued = code[d].issued
                         /\ code'[d].state = "unmade" => code[d].state = "unmade"
    BY <1>6 DEF Trust!Delete, TrustTyped
  <2>2. \A m \in Trust!Keys : key'[m].state = "live" => key[m].state = "live"
    BY <1>6 DEF Trust!Delete, TrustTyped
  <2> QED BY <1>6, <2>1, <2>2 DEF Trust!Delete
<1>7. ASSUME NEW c \in Trust!Codes, NEW k \in Trust!Keys, Trust!Redeem(c, k) PROVE CodesInv'
  BY <1>7, RedeemKeepsCodes
<1> QED
  BY <1>1, <1>2, <1>3, <1>4, <1>5, <1>6, <1>7
  DEF Trust!Next, Trust!vars, Trust!Request, Trust!Accept, Trust!Part, Trust!Disable, Trust!Enable

LEMMA CodesInvEnds == ASSUME TrustParameters, TrustTyped, CodesInv PROVE Trust!CodesEnd
<1>1. ASSUME NEW c \in Trust!Codes, NEW s \in minted[c], NEW t \in minted[c] PROVE t - s <= Grace
  <2>1. {s, t, code[c].redeemed, Grace} \subseteq Int
    BY DEF TrustTyped, Trust!Never, TrustParameters
  <2>2. code[c].redeemed <= s /\ t - code[c].redeemed <= Grace
    BY DEF CodesInv, InTime
  <2> QED BY <2>1, <2>2
<1> QED BY <1>1 DEF Trust!CodesEnd, CodesInv, InTime, Accounted

-----------------------------------------------------------------------------
(* Friendships.                                                             *)

LEMMA InitFriends == ASSUME Trust!Init PROVE Trust!FriendsAgreed
BY DEF Trust!Init, Trust!FriendsAgreed

LEMMA NextFriends == ASSUME TrustTyped, Trust!FriendsAgreed, [Trust!Next]_(Trust!vars) PROVE Trust!FriendsAgreed'
<1> USE DEF TrustTyped, Trust!FriendsAgreed
<1>1. ASSUME UNCHANGED <<friends, said>> PROVE Trust!FriendsAgreed'
  BY <1>1
<1>2. ASSUME NEW r \in friends, friends' = (friends \ {r}) \cup {[r EXCEPT !.accepted = TRUE]},
             said' = said \cup {<<r.to, r.from>>}
      PROVE  Trust!FriendsAgreed'
  <2> DEFINE new == [r EXCEPT !.accepted = TRUE]
  <2>1. new.from = r.from /\ new.to = r.to /\ new.accepted
    OBVIOUS
  <2>2. friends' = (friends \ {r}) \cup {new}
    BY <1>2
  <2> HIDE DEF new
  <2>3. ASSUME NEW s \in friends'
        PROVE  <<s.from, s.to>> \in said' /\ (s.accepted => <<s.to, s.from>> \in said')
    BY <1>2, <2>1, <2>2
  <2>4. \A s \in friends' : \E z \in friends :
            /\ s.from = z.from /\ s.to = z.to
            /\ z = r => s = new
            /\ z # r => s = z
    BY <2>1, <2>2
  <2>5. ASSUME NEW s \in friends', NEW t \in friends', {s.from, s.to} = {t.from, t.to}
        PROVE  s = t
    <3>1. PICK y \in friends : s.from = y.from /\ s.to = y.to /\ (y = r => s = new) /\ (y # r => s = y)
      BY <2>4
    <3>2. PICK z \in friends : t.from = z.from /\ t.to = z.to /\ (z = r => t = new) /\ (z # r => t = z)
      BY <2>4
    <3>3. y = z
      BY <2>5, <3>1, <3>2
    <3> QED BY <3>1, <3>2, <3>3
  <2> QED BY <2>3, <2>5
<1>3. ASSUME NEW p \in People, NEW q \in People, Trust!Request(p, q) PROVE Trust!FriendsAgreed'
  <2>1. CASE /\ Trust!Between(p, q) = {}
             /\ friends' = friends \cup {[from |-> p, to |-> q, accepted |-> FALSE]}
    <3> DEFINE new == [from |-> p, to |-> q, accepted |-> FALSE]
    <3>1. new.from = p /\ new.to = q /\ ~new.accepted
      OBVIOUS
    <3>2. \A r \in friends : {r.from, r.to} # {p, q}
      BY <2>1 DEF Trust!Between
    <3>3. friends' = friends \cup {new} /\ said' = said \cup {<<p, q>>}
      BY <1>3, <2>1 DEF Trust!Request
    <3> HIDE DEF new
    <3> QED BY <3>1, <3>2, <3>3
  <2>2. ASSUME NEW r \in Trust!Between(p, q), r.from = q,
               friends' = (friends \ {r}) \cup {[r EXCEPT !.accepted = TRUE]}
        PROVE  Trust!FriendsAgreed'
    <3>1. r \in friends /\ r.to = p
      BY <1>3, <2>2 DEF Trust!Between, Trust!Request
    <3> QED BY <1>2, <1>3, <2>2, <3>1 DEF Trust!Request
  <2> QED BY <1>3, <2>1, <2>2 DEF Trust!Request
<1>4. ASSUME NEW p \in People, NEW r \in friends, Trust!Accept(p, r) PROVE Trust!FriendsAgreed'
  BY <1>2, <1>4 DEF Trust!Accept, Trust!Answers, Trust!Other
<1>5. ASSUME NEW p \in People, NEW r \in friends, Trust!Part(p, r) PROVE Trust!FriendsAgreed'
  <2>1. \A s \in friends \ {r} : {s.from, s.to} # {r.from, r.to}
    OBVIOUS
  <2>2. friends' = friends \ {r} /\ said' = said \ {<<r.from, r.to>>, <<r.to, r.from>>}
    BY <1>5 DEF Trust!Part
  <2>3. ASSUME NEW s \in friends'
        PROVE  /\ <<s.from, s.to>> \notin {<<r.from, r.to>>, <<r.to, r.from>>}
               /\ <<s.to, s.from>> \notin {<<r.from, r.to>>, <<r.to, r.from>>}
    BY <2>1, <2>2
  <2> QED BY <2>2, <2>3
<1>6. ASSUME NEW p \in People, Trust!Delete(p) PROVE Trust!FriendsAgreed'
  BY <1>6 DEF Trust!Delete
<1> QED
  BY <1>1, <1>3, <1>4, <1>5, <1>6
  DEF Trust!Next, Trust!vars, Trust!Tick, Trust!Issue, Trust!Cancel, Trust!RevokeKey, Trust!Disable, Trust!Enable, Trust!Redeem

-----------------------------------------------------------------------------

\* A connect code is traded once: whatever retries, cancellations, revocations and bans
\* come between, what it hands out replaces what it handed out before, and
\* stays within the grace period and its validity.
THEOREM CodesAreTradedOnce == Trust!Spec => []CodesEnd
<1>1. Trust!Init => TrustTyped /\ CodesInv
  BY TrustAssumption, TrustInitTyped, InitCodes
<1>2. TrustTyped /\ CodesInv /\ [Trust!Next]_(Trust!vars) => TrustTyped' /\ CodesInv'
  BY TrustAssumption, TrustNextTyped, NextCodes
<1>3. TrustTyped /\ CodesInv => Trust!CodesEnd
  BY TrustAssumption, CodesInvEnds
<1> QED BY <1>1, <1>2, <1>3, PTL DEF Trust!Spec, CodesEnd

\* Friends are those who both said so, in whatever order they asked, answered, parted
\* and lost their accounts, and two people have one row.
THEOREM FriendsAlwaysAgreed == Trust!Spec => []FriendsAgreed
<1>1. Trust!Init => TrustTyped /\ Trust!FriendsAgreed
  BY TrustAssumption, TrustInitTyped, InitFriends
<1>2. TrustTyped /\ Trust!FriendsAgreed /\ [Trust!Next]_(Trust!vars) => TrustTyped' /\ Trust!FriendsAgreed'
  BY TrustAssumption, TrustNextTyped, NextFriends
<1> QED BY <1>1, <1>2, PTL DEF Trust!Spec, FriendsAgreed
=============================================================================
