---------------------------- MODULE AuthSessions ----------------------------
(***************************************************************************)
(* auth_service: pairs of tokens that share a session id, and the two      *)
(* Redis keys per session that decide whether the tokens still count.      *)
(* Login, Refresh and Logout are sequences of Redis calls; those of        *)
(* several requests interleave, each may fail, and the process can die.    *)
(*                                                                         *)
(* Session ids are UUIDs, so each is minted once; Sids bounds how many     *)
(* are.  Calls bounds how many requests overlap.  A request that changes   *)
(* nothing (wrong password, invalid token, Validate) is left out.          *)
(*                                                                         *)
(* Both tokens of a pair carry the same claims and the same session id     *)
(* under the same key; only their lifetimes differ.  So wherever the code  *)
(* parses a token either of the two will do, and what decides is which of  *)
(* the session's two Redis keys it then looks for.                         *)
(***************************************************************************)
EXTENDS Naturals

CONSTANTS Sids,       \* session ids
          Calls,      \* Login, Refresh and Logout requests in progress
          Logouts,    \* what clients put into the two fields of a Logout
          Faults,     \* which of "redis", "process" may fail
          NoSid

Tokens == {"access", "refresh"}

(* The body of a Logout: which token of the session is in the field for the *)
(* access token, and which in the field for the refresh token, if any.      *)
Bodies == [Tokens -> Tokens \cup {"none"}]

EmptyBody == [field \in Tokens |-> "none"]

WholePair == [field \in Tokens |-> field]

ASSUME AuthAssumption ==
    /\ NoSid \notin Sids
    /\ Logouts \subseteq Bodies

VARIABLES access,    \* session ids with an access key in Redis
          refresh,   \* session ids with a refresh key in Redis
          minted,    \* session ids for which tokens have been signed
          age,       \* age[s]: how many of its two tokens have expired
          parent,    \* parent[s]: the session one of whose tokens paid for s
          held,      \* sessions whose tokens have been returned to a client
          left,      \* sessions both tokens of which a Logout has answered 204
          at,        \* at[c]: where the request stands
          kind,      \* kind[c]: which request it is
          sid,       \* sid[c]: the session of the tokens it brought
          brought,   \* brought[c]: the body a Logout came with
          new        \* new[c]: the session it is saving

keys   == <<access, refresh>>
tokens == <<minted, age, parent>>
call   == <<at, kind, sid, brought, new>>
vars   == <<access, refresh, minted, age, parent, held, left, at, kind, sid, brought, new>>

Places == {"idle", "dropAccess", "dropRefresh", "saveAccess", "saveRefresh"}

Kinds == {"none", "login", "refresh", "logout"}

TypeOK ==
    /\ access \subseteq Sids
    /\ refresh \subseteq Sids
    /\ minted \subseteq Sids
    /\ age \in [Sids -> 0..2]
    /\ parent \in [Sids -> Sids \cup {NoSid}]
    /\ held \subseteq Sids
    /\ left \subseteq Sids
    /\ at \in [Calls -> Places]
    /\ kind \in [Calls -> Kinds]
    /\ sid \in [Calls -> Sids \cup {NoSid}]
    /\ brought \in [Calls -> Bodies]
    /\ new \in [Calls -> Sids \cup {NoSid}]

Init ==
    /\ access = {}
    /\ refresh = {}
    /\ minted = {}
    /\ age = [s \in Sids |-> 0]
    /\ parent = [s \in Sids |-> NoSid]
    /\ held = {}
    /\ left = {}
    /\ at = [c \in Calls |-> "idle"]
    /\ kind = [c \in Calls |-> "none"]
    /\ sid = [c \in Calls |-> NoSid]
    /\ brought = [c \in Calls |-> EmptyBody]
    /\ new = [c \in Calls |-> NoSid]

(* "refused" was not carried out; "lost" was, and its answer never came. *)
Ends == IF "redis" \in Faults THEN {"ok", "refused", "lost"} ELSE {"ok"}

(* jwt.ParseWithClaims accepts the token: it has not expired. *)
Parses(s, token) == age[s] < (IF token = "access" THEN 1 ELSE 2)

(* What Validate and Refresh ask of a token, whichever of the pair it is. *)
Accepted(s, token)  == Parses(s, token) /\ s \in access
Renewable(s, token) == Parses(s, token) /\ s \in refresh

-----------------------------------------------------------------------------
Begin(c, what, s, body, place) ==
    /\ at[c] = "idle"
    /\ at' = [at EXCEPT ![c] = place]
    /\ kind' = [kind EXCEPT ![c] = what]
    /\ sid' = [sid EXCEPT ![c] = s]
    /\ brought' = [brought EXCEPT ![c] = body]
    /\ UNCHANGED <<keys, tokens, held, left, new>>

(* VerifyCredentials has said yes; issueTokenPair follows. *)
Login(c) == Begin(c, "login", NoSid, EmptyBody, "saveAccess")

(* The token parses and its key exists; both keys are about to be deleted. *)
Refresh(c) ==
    \E s \in held, token \in Tokens :
        Renewable(s, token) /\ Begin(c, "refresh", s, EmptyBody, "dropAccess")

Logout(c) ==
    \E s \in held, body \in Logouts : Begin(c, "logout", s, body, "dropAccess")

Move(c, place) ==
    /\ at' = [at EXCEPT ![c] = place]
    /\ UNCHANGED <<kind, sid, brought, new>>

Leave(c) ==
    /\ at' = [at EXCEPT ![c] = "idle"]
    /\ kind' = [kind EXCEPT ![c] = "none"]
    /\ sid' = [sid EXCEPT ![c] = NoSid]
    /\ brought' = [brought EXCEPT ![c] = EmptyBody]
    /\ new' = [new EXCEPT ![c] = NoSid]

(* Refresh deletes both keys, Logout the key of each field whose token      *)
(* parses.                                                                  *)
Drops(c, field) ==
    \/ kind[c] = "refresh"
    \/ brought[c][field] # "none" /\ Parses(sid[c], brought[c][field])

DropAccess(c) ==
    /\ at[c] = "dropAccess"
    /\ IF Drops(c, "access")
       THEN \E end \in Ends :
               /\ access' = IF end = "refused" THEN access ELSE access \ {sid[c]}
               /\ IF end = "ok" THEN Move(c, "dropRefresh") ELSE Leave(c)
       ELSE Move(c, "dropRefresh") /\ UNCHANGED access
    /\ UNCHANGED <<refresh, tokens, held, left>>

(* Refresh goes on to issueTokenPair; Logout answers 204. *)
Dropped(c) ==
    IF kind[c] = "refresh"
    THEN Move(c, "saveAccess") /\ UNCHANGED left
    ELSE /\ left' = IF brought[c] = WholePair THEN left \cup {sid[c]} ELSE left
         /\ Leave(c)

(* Mutant: an error of this DEL is logged instead of returned. *)
DropRefreshBestEffort(c) ==
    /\ at[c] = "dropRefresh"
    /\ \E end \in Ends :
          refresh' = IF end = "refused" \/ ~Drops(c, "refresh") THEN refresh
                     ELSE refresh \ {sid[c]}
    /\ Dropped(c)
    /\ UNCHANGED <<access, tokens, held>>

DropRefresh(c) ==
    /\ at[c] = "dropRefresh"
    /\ IF Drops(c, "refresh")
       THEN \E end \in Ends :
               /\ refresh' = IF end = "refused" THEN refresh ELSE refresh \ {sid[c]}
               /\ IF end = "ok" THEN Dropped(c) ELSE (Leave(c) /\ UNCHANGED left)
       ELSE Dropped(c) /\ UNCHANGED refresh
    /\ UNCHANGED <<access, tokens, held>>

(* Mutant: Refresh keeps the session id of the token it was given. *)
FreshSidKept(c, s) == IF sid[c] = NoSid THEN s \notin minted ELSE s = sid[c]

(* uuid.NewString. *)
FreshSid(c, s) == s \notin minted

(* issueTokenPair: a new session id, both tokens signed, the access key SET. *)
SaveAccess(c) ==
    /\ at[c] = "saveAccess"
    /\ \E s \in Sids, end \in Ends :
          /\ FreshSid(c, s)
          /\ minted' = minted \cup {s}
          /\ parent' = [parent EXCEPT ![s] = sid[c]]
          /\ access' = IF end = "refused" THEN access ELSE access \cup {s}
          /\ IF end = "ok"
             THEN /\ at' = [at EXCEPT ![c] = "saveRefresh"]
                  /\ new' = [new EXCEPT ![c] = s]
                  /\ UNCHANGED <<kind, sid, brought>>
             ELSE Leave(c)
    /\ UNCHANGED <<refresh, age, held, left>>

(* Mutant: the pair is returned even when its refresh key was not saved. *)
SaveRefreshBestEffort(c) ==
    /\ at[c] = "saveRefresh"
    /\ \E end \in Ends :
          refresh' = IF end = "refused" THEN refresh ELSE refresh \cup {new[c]}
    /\ held' = held \cup {new[c]}
    /\ Leave(c)
    /\ UNCHANGED <<access, tokens, left>>

(* The refresh key is SET and the pair returned to the client. *)
SaveRefresh(c) ==
    /\ at[c] = "saveRefresh"
    /\ \E end \in Ends :
          /\ refresh' = IF end = "refused" THEN refresh ELSE refresh \cup {new[c]}
          /\ held' = IF end = "ok" THEN held \cup {new[c]} ELSE held
    /\ Leave(c)
    /\ UNCHANGED <<access, tokens, left>>

-----------------------------------------------------------------------------
(* Time: the access token of a pair expires first, then its refresh token. *)
Age(s) ==
    /\ s \in minted /\ age[s] < 2
    /\ age' = [age EXCEPT ![s] = @ + 1]
    /\ UNCHANGED <<keys, minted, parent, held, left, call>>

(* A key is SET with the lifetime of its token, after the token was signed. *)
Expire(s) ==
    /\ \/ ~Parses(s, "access") /\ s \in access /\ access' = access \ {s} /\ UNCHANGED refresh
       \/ ~Parses(s, "refresh") /\ s \in refresh /\ refresh' = refresh \ {s} /\ UNCHANGED access
    /\ UNCHANGED <<tokens, held, left, call>>

(* The process dies with every request in it. *)
Crash ==
    /\ "process" \in Faults
    /\ at' = [c \in Calls |-> "idle"]
    /\ kind' = [c \in Calls |-> "none"]
    /\ sid' = [c \in Calls |-> NoSid]
    /\ brought' = [c \in Calls |-> EmptyBody]
    /\ new' = [c \in Calls |-> NoSid]
    /\ UNCHANGED <<keys, tokens, held, left>>

Next ==
    \/ \E c \in Calls :
          \/ Login(c) \/ Refresh(c) \/ Logout(c)
          \/ DropAccess(c) \/ DropRefresh(c) \/ SaveAccess(c) \/ SaveRefresh(c)
    \/ \E s \in Sids : Age(s) \/ Expire(s)
    \/ Crash

Spec == Init /\ [][Next]_vars

-----------------------------------------------------------------------------
(* Properties *)

(* When a Refresh signs a new pair, neither token of the old pair counts    *)
(* any more, and they never count again: whatever fails or overlaps, a      *)
(* session and the one that replaces it are not both alive.                 *)
RetiredBeforeReplaced ==
    \A s \in minted : parent[s] # NoSid => parent[s] \notin access \cup refresh

(* Once a Logout with both tokens has been answered 204, neither of them    *)
(* renews the session and the access token is not accepted, and no Refresh  *)
(* that was under way brings them back.  One thing is left: a Logout skips  *)
(* an access token that has expired, so the refresh token is still accepted *)
(* for as long as the access key outlives the access token.                 *)
LoggedOutIsOut ==
    \A s \in left, token \in Tokens :
        /\ ~Renewable(s, token)
        /\ Accepted(s, token) => ~Parses(s, "access")

(* A client whose access token is accepted can still renew it: no failure   *)
(* half way through a Login, a Refresh or a Logout takes the refresh key    *)
(* and leaves the access key.  Clients fill the access field of a Logout    *)
(* whenever they fill the other.                                            *)
AcceptedIsRenewable ==
    \A s \in held : Accepted(s, "access") => Renewable(s, "refresh")

(* "a refresh token is single-use": no two pairs returned to clients were   *)
(* paid for with the same one.  Two overlapping Refresh requests break it   *)
(* without any fault; README.md tells how, and no run checks it.            *)
RefreshTokenIsSingleUse ==
    \A s, t \in held : s # t /\ parent[s] # NoSid => parent[s] # parent[t]

(* "Both tokens become immediately invalid": a Logout with both tokens      *)
(* leaves neither accepted.  The exception of LoggedOutIsOut breaks it      *)
(* without any fault; README.md tells how, and no run checks it.            *)
LoggedOutAtOnce ==
    \A s \in left, token \in Tokens : ~Accepted(s, token) /\ ~Renewable(s, token)

-----------------------------------------------------------------------------
(* The inductive invariant behind RetiredBeforeReplaced and LoggedOutIsOut *)

(* Sessions clients know have been minted, and nobody is saving them.       *)
HeldOK ==
    /\ held \subseteq minted
    /\ left \subseteq held
    /\ access \subseteq minted
    /\ refresh \subseteq minted

(* A parent was in a client's hands. *)
ParentOK == \A s \in minted : parent[s] # NoSid => parent[s] \in held

SavingOK ==
    \A c \in Calls :
        at[c] = "saveRefresh" =>
            /\ new[c] \in minted \ held
            /\ \A d \in Calls : d # c /\ at[d] = "saveRefresh" => new[d] # new[c]

(* How far a Refresh or a Logout has got in deleting the keys. *)
DroppingOK ==
    \A c \in Calls :
        /\ sid[c] # NoSid => sid[c] \in held
        /\ at[c] \in {"dropAccess", "dropRefresh"} => sid[c] # NoSid /\ kind[c] \in {"refresh", "logout"}
        /\ at[c] = "dropRefresh" /\ kind[c] = "refresh" => sid[c] \notin access
        /\ at[c] = "dropRefresh" /\ brought[c]["access"] # "none" => ~Accepted(sid[c], "access")
        /\ kind[c] = "logout" => brought[c] \in Logouts
        /\ at[c] = "saveAccess" /\ sid[c] # NoSid => sid[c] \notin access \cup refresh

IInv ==
    /\ TypeOK /\ HeldOK /\ ParentOK /\ SavingOK /\ DroppingOK
    /\ RetiredBeforeReplaced /\ LoggedOutIsOut
=============================================================================
