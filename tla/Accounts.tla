------------------------------ MODULE Accounts ------------------------------
(***************************************************************************)
(* How people come to have an account: first-run setup, the reverse proxy, *)
(* an admin, an invitation, and a request left through a share link that   *)
(* an admin approves (server/src/api/routes/auth.ts and users.ts,          *)
(* server/src/share/service.ts).  Handlers run to their end in one turn of *)
(* the event loop, except at two places: the rights of an admin are read   *)
(* as the request arrives, before its body, and a password is hashed in    *)
(* another thread between the first checks and the write.                  *)
(*                                                                         *)
(* A name stands for its account, and a curator counts as a reader.        *)
(***************************************************************************)
EXTENDS Integers, FiniteSets

CONSTANTS
    Names,          \* user names, however they are spelt
    Residents,      \* the admins of an instance that is already in use
    Proxied,        \* the names the reverse proxy may bring
    ProxyAdmins,    \* RP_PROXY_AUTH_ADMINS
    Emails, Links,
    NoAccount, NoOne, NoLink,
    MaxInvites, MaxAsks,
    MaxHashing,     \* how many passwords are hashed at a time
    MaxActs         \* how many requests people make

VARIABLES
    account,    \* users: NoAccount, or [role, active]
    desk,       \* who has a request under way that was admitted as an admin's
    hashing,    \* the handlers that wait for a password to be hashed
    invite,     \* invites: [state, role]
    ask,        \* join_requests, in the order they were left
    share,      \* book_shares: [state, owner]
    opened,     \* how many accounts setup and each invitation have opened
    outrun,     \* an admin's rights were taken by a request that had waited
    acts

vars == <<account, desk, hashing, invite, ask, share, opened, outrun, acts>>

Roles == {"admin", "reader"}
Accounts == [role : Roles, active : BOOLEAN]
Invites == 1..MaxInvites
Asks == 1..MaxAsks
NoInvite == 0
Setup == 0
Changes == {"promote", "demote", "enable", "disable"}

\* What a handler remembers while it waits.
Waiting == [op : {"setup", "create", "accept", "update"}, name : Names,
            what : Roles \cup Changes, door : {Setup} \cup Invites]
Ask == [state : {"unmade", "pending", "approved", "declined"}, email : Emails \cup {NoOne},
        link : Links \cup {NoLink}, invite : {NoInvite} \cup Invites]

TypeOK ==
    /\ account \in [Names -> Accounts \cup {NoAccount}]
    /\ desk \subseteq Names /\ hashing \subseteq Waiting
    /\ invite \in [Invites -> [state : {"unwritten", "open", "used", "gone"}, role : Roles]]
    /\ ask \in [Asks -> Ask]
    /\ share \in [Links -> [state : {"unmade", "live", "dead"}, owner : Names \cup {NoOne}]]
    /\ opened \in [{Setup} \cup Invites -> Nat]
    /\ outrun \in BOOLEAN /\ acts \in 0..MaxActs

Admin == [role |-> "admin", active |-> TRUE]

Init ==
    /\ \E rs \in {{}, Residents} :
          account = [n \in Names |-> IF n \in rs THEN Admin ELSE NoAccount]
    /\ desk = {} /\ hashing = {}
    /\ invite = [i \in Invites |-> [state |-> "unwritten", role |-> "reader"]]
    /\ ask = [k \in Asks |-> [state |-> "unmade", email |-> NoOne, link |-> NoLink,
                              invite |-> NoInvite]]
    /\ share = [l \in Links |-> [state |-> "unmade", owner |-> NoOne]]
    /\ opened = [d \in {Setup} \cup Invites |-> 0]
    /\ outrun = FALSE /\ acts = 0

-----------------------------------------------------------------------------

Known == {n \in Names : account[n] # NoAccount}
Admins == {n \in Names : account[n] = Admin}
Active == {n \in Known : account[n].active}
Open(i) == i # NoInvite /\ invite[i].state = "open"

Act == acts < MaxActs /\ acts' = acts + 1

Waits(op, n, what, door) ==
    /\ Cardinality(hashing) < MaxHashing
    /\ hashing' = hashing \cup {[op |-> op, name |-> n, what |-> what, door |-> door]}

\* A new row of users.
Enters(n, role) == account' = [account EXCEPT ![n] = [role |-> role, active |-> TRUE]]
EntersBy(door, n, role) ==
    Enters(n, role) /\ opened' = [opened EXCEPT ![door] = @ + 1]

-----------------------------------------------------------------------------
(* First-run setup and the reverse proxy.                                   *)

\* POST /api/setup, up to its await.
SetupBegins(n) ==
    /\ Act /\ Known = {}
    /\ Waits("setup", n, "admin", Setup)
    /\ UNCHANGED <<account, desk, invite, ask, share, opened, outrun>>

\* And its transaction, which counts again.
SetupEnds(h) ==
    /\ h.op = "setup"
    /\ hashing' = hashing \ {h}
    /\ \/ Known = {} /\ EntersBy(Setup, h.name, "admin")
       \/ Known # {} /\ UNCHANGED <<account, opened>>
    /\ UNCHANGED <<desk, invite, ask, share, outrun, acts>>

\* proxyAuthUser for a name it has not seen: the first one of all is an admin.
Provision(n) ==
    /\ Act /\ n \in Proxied \ Known
    /\ \/ Known = {} /\ EntersBy(Setup, n, "admin")
       \/ /\ Known # {} /\ UNCHANGED opened
          /\ Enters(n, IF n \in ProxyAdmins THEN "admin" ELSE "reader")
    /\ UNCHANGED <<desk, hashing, invite, ask, share, outrun>>

-----------------------------------------------------------------------------
(* What an admin does.                                                      *)

\* attachUser in onRequest: whoever is an admin now is one to the handler.
Arrive(me) ==
    /\ Act /\ me \in Admins \ desk
    /\ desk' = desk \cup {me}
    /\ UNCHANGED <<account, hashing, invite, ask, share, opened, outrun>>

\* A handler refuses what it was asked, or the body never comes.
TurnedAway(me) ==
    /\ me \in desk /\ desk' = desk \ {me}
    /\ UNCHANGED <<account, hashing, invite, ask, share, opened, outrun, acts>>

\* POST /api/users, and what follows its await: names are compared without case
\* before it, and only by the unique column, which has case, after it.  Two Names
\* stand for accounts whose names differ by more than case.
CreateBegins(me, n, role) ==
    /\ me \in desk /\ desk' = desk \ {me}
    /\ n \notin Known
    /\ Waits("create", n, role, Setup)
    /\ UNCHANGED <<account, invite, ask, share, opened, outrun, acts>>

CreateEnds(h) ==
    /\ h.op = "create"
    /\ hashing' = hashing \ {h}
    /\ IF h.name \in Known THEN UNCHANGED account ELSE Enters(h.name, h.what)
    /\ UNCHANGED <<desk, invite, ask, share, opened, outrun, acts>>

Changed(a, c) ==
    CASE c = "promote" -> [a EXCEPT !.role = "admin"]
      [] c = "demote" -> [a EXCEPT !.role = "reader"]
      [] c = "enable" -> [a EXCEPT !.active = TRUE]
      [] c = "disable" -> [a EXCEPT !.active = FALSE]

\* The change would take an active admin's rights away.
Costs(n, c) == n \in Admins /\ c \in {"demote", "disable"}
LastAdmin == Cardinality(Admins) <= 1

\* Seeded fault: nobody can take their own rights away, and so somebody is left.
MayChangeOthers(me, n, c) == n \in Known /\ ~(n = me /\ c \in {"demote", "disable"})

\* The checks of PATCH /api/users/:id.
MayChange(me, n, c) ==
    /\ n \in Known
    /\ ~(Costs(n, c) /\ LastAdmin)
    /\ ~(n = me /\ c \in {"demote", "disable"})

Update(me, n, c) ==
    /\ me \in desk /\ desk' = desk \ {me}
    /\ MayChange(me, n, c)
    /\ account' = [account EXCEPT ![n] = Changed(@, c)]
    /\ UNCHANGED <<hashing, invite, ask, share, opened, outrun, acts>>

\* With a new password in the same request.
UpdateBegins(me, n, c) ==
    /\ me \in desk /\ desk' = desk \ {me}
    /\ MayChange(me, n, c)
    /\ Waits("update", n, c, Setup)
    /\ UNCHANGED <<account, invite, ask, share, opened, outrun, acts>>

UpdateEnds(h) ==
    /\ h.op = "update"
    /\ hashing' = hashing \ {h}
    /\ IF h.name \in Known
       THEN /\ account' = [account EXCEPT ![h.name] = Changed(@, h.what)]
            /\ outrun' = (outrun \/ Costs(h.name, h.what))
       ELSE UNCHANGED <<account, outrun>>
    /\ UNCHANGED <<desk, invite, ask, share, opened, acts>>

\* DELETE /api/users/:id; the rows of the shares go with it, and the requests that
\* came through them lose their link.
Delete(me, n) ==
    /\ me \in desk /\ desk' = desk \ {me}
    /\ n \in Known /\ n # me
    /\ ~(n \in Admins /\ LastAdmin)
    /\ account' = [account EXCEPT ![n] = NoAccount]
    /\ share' = [l \in Links |->
          IF share[l].owner = n THEN [state |-> "dead", owner |-> NoOne] ELSE share[l]]
    /\ ask' = [k \in Asks |->
          IF ask[k].link \in {l \in Links : share[l].owner = n}
          THEN [ask[k] EXCEPT !.link = NoLink] ELSE ask[k]]
    /\ UNCHANGED <<hashing, invite, opened, outrun, acts>>

-----------------------------------------------------------------------------
(* Invitations.                                                             *)

Mint(i, role) ==
    /\ invite[i].state = "unwritten" /\ \A m \in Invites : m < i => invite[m].state # "unwritten"
    /\ invite' = [invite EXCEPT ![i] = [state |-> "open", role |-> role]]

\* POST /api/invites
Invite(me, i, role) ==
    /\ me \in desk /\ desk' = desk \ {me}
    /\ Mint(i, role)
    /\ UNCHANGED <<account, hashing, ask, share, opened, outrun, acts>>

\* DELETE /api/invites/:id
Withdraw(me, i) ==
    /\ me \in desk /\ desk' = desk \ {me}
    /\ invite[i].state \in {"open", "used"}
    /\ invite' = [invite EXCEPT ![i].state = "gone"]
    /\ UNCHANGED <<account, hashing, ask, share, opened, outrun, acts>>

\* expires_at passes.
Lapse(i) ==
    /\ Act /\ Open(i)
    /\ invite' = [invite EXCEPT ![i].state = "gone"]
    /\ UNCHANGED <<account, desk, hashing, ask, share, opened, outrun>>

\* POST /api/invites/:token/accept, up to its await.
AcceptBegins(i, n) ==
    /\ Act /\ Open(i)
    /\ Waits("accept", n, invite[i].role, i)
    /\ UNCHANGED <<account, desk, invite, ask, share, opened, outrun>>

\* Seeded fault: the invitation is not looked up again in the transaction.
AcceptEndsUnasked(h) ==
    /\ h.op = "accept"
    /\ hashing' = hashing \ {h}
    /\ \/ /\ h.name \notin Known
          /\ EntersBy(h.door, h.name, h.what)
          /\ invite' = [invite EXCEPT ![h.door].state = "used"]
       \/ /\ h.name \in Known
          /\ UNCHANGED <<account, opened, invite>>
    /\ UNCHANGED <<desk, ask, share, outrun, acts>>

\* And its transaction, which looks the invitation and the name up again.
AcceptEnds(h) ==
    /\ h.op = "accept"
    /\ hashing' = hashing \ {h}
    /\ \/ /\ Open(h.door) /\ h.name \notin Known
          /\ EntersBy(h.door, h.name, h.what)
          /\ invite' = [invite EXCEPT ![h.door].state = "used"]
       \/ /\ ~(Open(h.door) /\ h.name \notin Known)
          /\ UNCHANGED <<account, opened, invite>>
    /\ UNCHANGED <<desk, ask, share, outrun, acts>>

-----------------------------------------------------------------------------
(* Share links and the requests that come through them.                     *)

\* getOrCreateShare
Share(n, l) ==
    /\ Act /\ n \in Active /\ share[l].state = "unmade"
    /\ share' = [share EXCEPT ![l] = [state |-> "live", owner |-> n]]
    /\ UNCHANGED <<account, desk, hashing, invite, ask, opened, outrun>>

\* revokeShare: by its maker, or by an admin.
Revoke(n, l) ==
    /\ Act /\ n \in Active /\ share[l].state = "live"
    /\ share[l].owner = n \/ n \in Admins
    /\ share' = [share EXCEPT ![l].state = "dead"]
    /\ UNCHANGED <<account, desk, hashing, invite, ask, opened, outrun>>

\* activeShare
Leads(l) == share[l].state = "live" /\ share[l].owner \in Active

\* The requests of an address through a link.
Through(e, l) == {k \in Asks : ask[k].state # "unmade" /\ ask[k].email = e /\ ask[k].link = l}
StillOpen(k) ==
    \/ ask[k].state = "pending"
    \/ ask[k].state = "approved" /\ Open(ask[k].invite)

\* createJoinRequest leaves a row: the newest request through this link is closed, and
\* none of the address waits (the unique index).
MayAsk(e, l) ==
    /\ \A k \in Through(e, l) : (\A m \in Through(e, l) : m <= k) => ~StillOpen(k)
    /\ \A k \in Asks : ask[k].email = e => ask[k].state # "pending"

\* POST /api/share/:token/join
AskToJoin(e, l, k) ==
    /\ Act /\ Leads(l) /\ MayAsk(e, l)
    /\ ask[k].state = "unmade" /\ \A m \in Asks : m < k => ask[m].state # "unmade"
    /\ ask' = [ask EXCEPT ![k] = [state |-> "pending", email |-> e, link |-> l,
                                  invite |-> NoInvite]]
    /\ UNCHANGED <<account, desk, hashing, invite, share, opened, outrun>>

\* POST /api/join-requests/:id/approve; the row names who decided.
Approve(me, k, i) ==
    /\ me \in desk \cap Known /\ desk' = desk \ {me}
    /\ ask[k].state = "pending"
    /\ Mint(i, "reader")
    /\ ask' = [ask EXCEPT ![k].state = "approved", ![k].invite = i]
    /\ UNCHANGED <<account, hashing, share, opened, outrun, acts>>

\* POST /api/join-requests/:id/decline
Decline(me, k) ==
    /\ me \in desk \cap Known /\ desk' = desk \ {me}
    /\ ask[k].state = "pending"
    /\ ask' = [ask EXCEPT ![k].state = "declined"]
    /\ UNCHANGED <<account, hashing, invite, share, opened, outrun, acts>>

-----------------------------------------------------------------------------

Hashed(h) == SetupEnds(h) \/ CreateEnds(h) \/ UpdateEnds(h) \/ AcceptEnds(h)

AdminStep(me) ==
    \/ Arrive(me) \/ TurnedAway(me)
    \/ \E n \in Names :
         \/ Delete(me, n)
         \/ \E r \in Roles : CreateBegins(me, n, r)
         \/ \E c \in Changes : Update(me, n, c) \/ UpdateBegins(me, n, c)
    \/ \E i \in Invites :
         \/ Withdraw(me, i)
         \/ \E r \in Roles : Invite(me, i, r)
         \/ \E k \in Asks : Approve(me, k, i)
    \/ \E k \in Asks : Decline(me, k)

PublicStep ==
    \/ \E n \in Names :
         \/ SetupBegins(n) \/ Provision(n)
         \/ \E i \in Invites : AcceptBegins(i, n)
         \/ \E l \in Links : Share(n, l) \/ Revoke(n, l)
    \/ \E i \in Invites : Lapse(i)
    \/ \E e \in Emails, l \in Links, k \in Asks : AskToJoin(e, l, k)

Next ==
    \/ \E h \in hashing : Hashed(h)
    \/ \E me \in Names : AdminStep(me)
    \/ PublicStep

Spec == Init /\ [][Next]_vars

-----------------------------------------------------------------------------
(* Properties.                                                              *)

\* Somebody can still look after the server: where there are accounts, one of
\* them is an active admin ("Never lock yourself (or the whole server) out").
AdminsRemain == Known # {} => Admins # {}

\* That much holds until a request that also sets a password, and so waited
\* between the check and the write, has taken an admin's rights.
LastAdminIsKept == ~outrun => AdminsRemain

\* Setup opens one account, an invitation opens one account, however many forms
\* were on their way ("two racing setup calls cannot both succeed").
HandedOverOnce ==
    /\ \A i \in Invites : opened[i] <= 1
    /\ ~outrun => opened[Setup] <= 1

\* An address that asked through a link has one open door there at most: a request
\* that waits, or an invitation it can still use.
AskedOnce ==
    \A j, k \in Asks :
        /\ ask[j].email = ask[k].email /\ ask[j].link = ask[k].link
        /\ ask[j].link # NoLink /\ StillOpen(j) /\ StillOpen(k)
        => j = k

\* No way to an account is open twice: not setup, not an invitation, not a share
\* link to one address.
DoorsOpenOnce == HandedOverOnce /\ AskedOnce
=============================================================================
