----------------------------- MODULE Connections -----------------------------
(***************************************************************************)
(* What a person lets others in to see.  An agent trades a one-time        *)
(* connect code for a key of its own (server/src/auth/connect.ts and       *)
(* api/routes/agent-connect.ts, keys.ts); a friend asks and is answered    *)
(* (api/routes/friends.ts).  Both end with the account, and rest while it  *)
(* is disabled (api/routes/users.ts).                                      *)
(*                                                                         *)
(* Every handler is one turn of the event loop.  Codes and keys are        *)
(* numbered in the order they are made.                                    *)
(***************************************************************************)
EXTENDS Integers, FiniteSets

CONSTANTS
    People,
    Nobody,     \* whose a code or a key is before it is made
    Ttl,        \* CONNECT_TTL_MS
    Grace,      \* CONNECT_RETRY_GRACE_MS
    MaxCodes, MaxKeys, MaxTime,
    MaxAnswers, \* how often people ask, answer and part
    MaxBans     \* how often an admin disables, enables or deletes an account

VARIABLES
    standing,   \* users.status, or "gone"
    time,
    code,       \* agent_connect_codes: [state, owner, issued, redeemed, key]
    key,        \* api_keys: [state, owner]
    minted,     \* when keys were handed out for each code
    friends,    \* friendships: [from, to, accepted]
    said,       \* who has said yes to whom, and nobody has taken it back
    spent       \* what the bounds have been spent on

vars == <<standing, time, code, key, minted, friends, said, spent>>

Codes == 1..MaxCodes
Keys == 1..MaxKeys
NoKey == 0
Never == -1

TypeOK ==
    /\ standing \in [People -> {"active", "disabled", "gone"}]
    /\ time \in 0..MaxTime
    /\ code \in [Codes -> [state : {"unmade", "issued", "cancelled", "gone"},
                           owner : People \cup {Nobody},
                           issued : Nat, redeemed : Nat \cup {Never}, key : {NoKey} \cup Keys]]
    /\ key \in [Keys -> [state : {"unmade", "live", "revoked"}, owner : People \cup {Nobody}]]
    /\ minted \in [Codes -> SUBSET Nat]
    /\ friends \subseteq [from : People, to : People, accepted : BOOLEAN]
    /\ said \subseteq People \X People
    /\ spent \in [answers : 0..MaxAnswers, bans : 0..MaxBans]

Init ==
    /\ standing = [p \in People |-> "active"]
    /\ time = 0
    /\ code = [c \in Codes |-> [state |-> "unmade", owner |-> Nobody, issued |-> 0,
                                redeemed |-> Never, key |-> NoKey]]
    /\ key = [k \in Keys |-> [state |-> "unmade", owner |-> Nobody]]
    /\ minted = [c \in Codes |-> {}]
    /\ friends = {} /\ said = {}
    /\ spent = [answers |-> 0, bans |-> 0]

Active(p) == standing[p] = "active"
Spend(what, bound) == spent[what] < bound /\ spent' = [spent EXCEPT ![what] = @ + 1]
First(i, made) == \A j \in DOMAIN made : j < i => made[j].state # "unmade"

-----------------------------------------------------------------------------
(* Connect codes and the keys they are traded for.                          *)

\* issueConnectCode
Issue(p, c) ==
    /\ Active(p) /\ code[c].state = "unmade" /\ First(c, code)
    /\ code' = [code EXCEPT ![c] = [state |-> "issued", owner |-> p, issued |-> time,
                                    redeemed |-> Never, key |-> NoKey]]
    /\ UNCHANGED <<standing, time, key, minted, friends, said, spent>>

\* DELETE /api/keys/connect/:id, until the code was used.
Cancel(p, c) ==
    /\ Active(p) /\ code[c].owner = p
    /\ code[c].state = "issued" /\ code[c].redeemed = Never
    /\ code' = [code EXCEPT ![c].state = "cancelled"]
    /\ UNCHANGED <<standing, time, key, minted, friends, said, spent>>

\* The code still works: it was not used long ago, and has not expired.
Redeemable(c) ==
    /\ code[c].state = "issued" /\ Active(code[c].owner)
    /\ code[c].redeemed # Never => time - code[c].redeemed <= Grace
    /\ time < code[c].issued + Ttl

\* Seeded fault: each retry starts the grace period again.
FirstUseMoved(c) == time

\* When the code was used first.
FirstUse(c) == IF code[c].redeemed = Never THEN time ELSE code[c].redeemed

\* redeemConnectCode: the key of an earlier attempt goes, a new one is handed out.
Redeem(c, k) ==
    /\ Redeemable(c) /\ key[k].state = "unmade" /\ First(k, key)
    /\ key' = [m \in Keys |->
          IF m = k THEN [state |-> "live", owner |-> code[c].owner]
          ELSE IF m = code[c].key THEN [key[m] EXCEPT !.state = "revoked"]
          ELSE key[m]]
    /\ code' = [code EXCEPT ![c].redeemed = FirstUse(c), ![c].key = k]
    /\ minted' = [minted EXCEPT ![c] = @ \cup {time}]
    /\ UNCHANGED <<standing, time, friends, said, spent>>

\* DELETE /api/keys/:id
RevokeKey(p, k) ==
    /\ Active(p) /\ key[k].owner = p /\ key[k].state = "live"
    /\ key' = [key EXCEPT ![k].state = "revoked"]
    /\ UNCHANGED <<standing, time, code, minted, friends, said, spent>>

Tick ==
    /\ time < MaxTime /\ time' = time + 1
    /\ UNCHANGED <<standing, code, key, minted, friends, said, spent>>

-----------------------------------------------------------------------------
(* Friendships.                                                             *)

Between(p, q) == {r \in friends : {r.from, r.to} = {p, q}}

\* POST /api/friends/requests: two requests that cross are a yes from both.
Request(p, q) ==
    /\ Spend("answers", MaxAnswers)
    /\ Active(p) /\ Active(q) /\ p # q
    /\ \/ /\ Between(p, q) = {}
          /\ friends' = friends \cup {[from |-> p, to |-> q, accepted |-> FALSE]}
       \/ \E r \in Between(p, q) :
             /\ ~r.accepted /\ r.from = q
             /\ friends' = (friends \ {r}) \cup {[r EXCEPT !.accepted = TRUE]}
    /\ said' = said \cup {<<p, q>>}
    /\ UNCHANGED <<standing, time, code, key, minted>>

\* Seeded fault: either side of a request can say yes to it.
AnswersEither(p, r) == p \in {r.from, r.to}

\* Only the person asked can say yes.
Answers(p, r) == r.to = p

Other(p, r) == IF p = r.to THEN r.from ELSE r.to

\* POST /api/friends/requests/:id/accept
Accept(p, r) ==
    /\ Spend("answers", MaxAnswers)
    /\ Active(p) /\ Answers(p, r) /\ ~r.accepted
    /\ friends' = (friends \ {r}) \cup {[r EXCEPT !.accepted = TRUE]}
    /\ said' = said \cup {<<p, Other(p, r)>>}
    /\ UNCHANGED <<standing, time, code, key, minted>>

\* Declining and withdrawing a request, and ending a friendship, are one deletion.
Part(p, r) ==
    /\ Spend("answers", MaxAnswers)
    /\ Active(p) /\ p \in {r.from, r.to}
    /\ friends' = friends \ {r}
    /\ said' = said \ {<<r.from, r.to>>, <<r.to, r.from>>}
    /\ UNCHANGED <<standing, time, code, key, minted>>

-----------------------------------------------------------------------------
(* What an admin does to an account.                                        *)

Disable(p) ==
    /\ Spend("bans", MaxBans) /\ standing[p] = "active"
    /\ standing' = [standing EXCEPT ![p] = "disabled"]
    /\ UNCHANGED <<time, code, key, minted, friends, said>>

Enable(p) ==
    /\ Spend("bans", MaxBans) /\ standing[p] = "disabled"
    /\ standing' = [standing EXCEPT ![p] = "active"]
    /\ UNCHANGED <<time, code, key, minted, friends, said>>

\* The rows that hang on the account go with it.
Delete(p) ==
    /\ Spend("bans", MaxBans) /\ standing[p] # "gone"
    /\ standing' = [standing EXCEPT ![p] = "gone"]
    /\ code' = [c \in Codes |->
          IF code[c].owner = p
          THEN [code[c] EXCEPT !.state = "gone"] ELSE code[c]]
    /\ key' = [k \in Keys |->
          IF key[k].owner = p
          THEN [key[k] EXCEPT !.state = "revoked"] ELSE key[k]]
    /\ friends' = {r \in friends : p \notin {r.from, r.to}}
    /\ said' = {s \in said : p \notin {s[1], s[2]}}
    /\ UNCHANGED <<time, minted>>

-----------------------------------------------------------------------------

Next ==
    \/ Tick
    \/ \E p \in People :
         \/ \E c \in Codes : Issue(p, c) \/ Cancel(p, c)
         \/ \E k \in Keys : RevokeKey(p, k)
         \/ \E q \in People : Request(p, q)
         \/ \E r \in friends : Accept(p, r) \/ Part(p, r)
         \/ Disable(p) \/ Enable(p) \/ Delete(p)
    \/ \E c \in Codes, k \in Keys : Redeem(c, k)

Spec == Init /\ [][Next]_vars

-----------------------------------------------------------------------------
(* Properties.                                                              *)

\* A code is traded once: what it hands out later only replaces what it handed out
\* before, and all of it within the grace period of the first time and before the
\* code expires ("only the last key handed out works"; "a code seen later in a chat
\* log is spent").
CodesEnd ==
    \A c \in Codes :
        /\ \A s, t \in minted[c] : t - s <= Grace
        /\ \A t \in minted[c] : t < code[c].issued + Ttl
        /\ \A k \in Keys : key[k].state = "live" =>
              \E d \in Codes : code[d].key = k

\* Two people are friends when both have said so, one by asking and the other by
\* answering or asking too, and neither has taken it back; and there is one row
\* between them, whoever asked.
FriendsAgreed ==
    /\ \A r \in friends :
          /\ <<r.from, r.to>> \in said
          /\ r.accepted => <<r.to, r.from>> \in said
    /\ \A r, s \in friends : {r.from, r.to} = {s.from, s.to} => r = s
=============================================================================
