------------------------------- MODULE Accounts -------------------------------
(***************************************************************************)
(* Accounts: the users collection of user_service and the tokens           *)
(* auth_service issues from it.  Every write is one MongoDB update of one  *)
(* document; UpdatePassword reads the document first, and Login gets the   *)
(* user and their roles in one call and signs the tokens later.  Requests  *)
(* overlap, database calls fail and processes die.                         *)
(*                                                                         *)
(* A password stands for itself and for its bcrypt hash.  Names are left   *)
(* out.  An answer that is lost counts as given.  Tokens never expire here *)
(* and Refresh, which copies the claims of the token it gets, adds none:   *)
(* AuthSessions says when a token counts.                                  *)
(***************************************************************************)
EXTENDS Naturals, FiniteSets

CONSTANTS Ids,         \* ids users may get
          Admins,      \* those whose documents were put in by hand
          Emails, Phones, Passwords,
          Seed,        \* Seed[a]: the document of an admin
          Calls,       \* UpdatePassword and Login requests in progress
          Faults,      \* which of "mongo" and "process" may fail
          NoDoc, NoUser, NoPassword

Roles == {"user", "driver", "admin", "analyst"}

Doc == [email : Emails, phone : Phones, password : Passwords,
        roles : SUBSET Roles, deleted : BOOLEAN]

(* An email has an @ in it and a phone is a + and digits. *)
ASSUME AccountsAssumption ==
    /\ Admins \subseteq Ids
    /\ Emails \cap Phones = {}
    /\ Seed \in [Admins -> Doc]
    /\ \A a \in Admins : Seed[a].roles = {"admin"} /\ ~Seed[a].deleted
    /\ \A a, b \in Admins :
          a # b => Seed[a].email # Seed[b].email /\ Seed[a].phone # Seed[b].phone
    /\ NoDoc \notin Doc /\ NoUser \notin Ids /\ NoPassword \notin Passwords

VARIABLES docs,      \* docs[u]: the document of the user
          signed,    \* history, signed[u]: the role u signed up with
          confirmed, \* history, confirmed[u]: the password last answered for
          told,      \* history: deletions and roles answered for
          tokens,    \* the claims of the tokens issued
          at,        \* at[c]: where the request stands
          user,      \* user[c]: whom it is about
          claims,    \* claims[c]: the roles a Login is about to sign
          next       \* next[c]: the password an UpdatePassword is to store

call == <<at, user, claims, next>>
vars == <<docs, signed, confirmed, told, tokens, at, user, claims, next>>

Claims == [user : Ids, roles : SUBSET Roles]

Answers == [what : {"deleted", "analyst"}, user : Ids]

Places == {"idle", "setPassword", "issue"}

TypeOK ==
    /\ docs \in [Ids -> Doc \cup {NoDoc}]
    /\ signed \in [Ids -> Roles \cup {"none"}]
    /\ confirmed \in [Ids -> Passwords \cup {NoPassword}]
    /\ told \subseteq Answers
    /\ tokens \subseteq Claims
    /\ at \in [Calls -> Places]
    /\ user \in [Calls -> Ids \cup {NoUser}]
    /\ claims \in [Calls -> SUBSET Roles]
    /\ next \in [Calls -> Passwords \cup {NoPassword}]

Init ==
    /\ docs = [u \in Ids |-> IF u \in Admins THEN Seed[u] ELSE NoDoc]
    /\ signed = [u \in Ids |-> IF u \in Admins THEN "admin" ELSE "none"]
    /\ confirmed = [u \in Ids |-> NoPassword]
    /\ told = {}
    /\ tokens = {}
    /\ at = [c \in Calls |-> "idle"]
    /\ user = [c \in Calls |-> NoUser]
    /\ claims = [c \in Calls |-> {}]
    /\ next = [c \in Calls |-> NoPassword]

Stored == {u \in Ids : docs[u] # NoDoc}

(* Mutant: the filter names the id alone. *)
LiveOrDeleted == Stored

(* The filter {_id, deleted_at: nil} of FindByID and of every update. *)
Live == {u \in Stored : ~docs[u].deleted}

(* Mutant: the index on phones is not unique. *)
TakenEmail(u, email, phone) == \E v \in Stored \ {u} : docs[v].email = email

(* uniq_email or uniq_phone refuses the write; deleted documents count. *)
Taken(u, email, phone) ==
    \E v \in Stored \ {u} : docs[v].email = email \/ docs[v].phone = phone

(* Mutant: MatchedCount is not looked at. *)
UpdateUnmatched(u, doc) ==
    docs' = IF u \in Live THEN [docs EXCEPT ![u] = doc] ELSE docs

(* An update that matches no document is ErrUserNotFound. *)
Update(u, doc) ==
    /\ u \in Live
    /\ docs' = [docs EXCEPT ![u] = doc]

-----------------------------------------------------------------------------
OpenRoles == {"user", "driver"}

(* POST /register, by anyone; signed is the role in user_registered. *)
Register(u, role) ==
    /\ docs[u] = NoDoc
    /\ role \in OpenRoles
    /\ \E email \in Emails, phone \in Phones, password \in Passwords :
          /\ ~Taken(u, email, phone)
          /\ docs' = [docs EXCEPT ![u] = [email |-> email, phone |-> phone,
                        password |-> password, roles |-> {role}, deleted |-> FALSE]]
          /\ confirmed' = [confirmed EXCEPT ![u] = password]
    /\ signed' = [signed EXCEPT ![u] = role]
    /\ UNCHANGED <<told, tokens, call>>

(* Requests on a profile carry a token, and are about its subject. *)
HasToken(u) == \E t \in tokens : t.user = u

UpdateProfile(u) ==
    /\ HasToken(u)
    /\ \E email \in Emails, phone \in Phones :
          /\ ~Taken(u, email, phone)
          /\ Update(u, [docs[u] EXCEPT !.email = email, !.phone = phone])
    /\ UNCHANGED <<signed, confirmed, told, tokens, call>>

DeleteProfile(u) ==
    /\ HasToken(u)
    /\ Update(u, [docs[u] EXCEPT !.deleted = TRUE])
    /\ told' = told \cup {[what |-> "deleted", user |-> u]}
    /\ UNCHANGED <<signed, confirmed, tokens, call>>

(* Mutant: $set instead of $addToSet. *)
Replaced(roles) == {"analyst"}

Added(roles) == roles \cup {"analyst"}

(* POST /admin/users/:id/analyst-role, for tokens with the admin role. *)
AssignRole(u) ==
    /\ \E t \in tokens : "admin" \in t.roles
    /\ Update(u, [docs[u] EXCEPT !.roles = Added(@)])
    /\ told' = told \cup {[what |-> "analyst", user |-> u]}
    /\ UNCHANGED <<signed, confirmed, tokens, call>>

-----------------------------------------------------------------------------
Begin(c, place, u, roles, password) ==
    /\ at[c] = "idle"
    /\ at' = [at EXCEPT ![c] = place]
    /\ user' = [user EXCEPT ![c] = u]
    /\ claims' = [claims EXCEPT ![c] = roles]
    /\ next' = [next EXCEPT ![c] = password]
    /\ UNCHANGED <<docs, signed, confirmed, told, tokens>>

Leave(c) ==
    /\ at' = [at EXCEPT ![c] = "idle"]
    /\ user' = [user EXCEPT ![c] = NoUser]
    /\ claims' = [claims EXCEPT ![c] = {}]
    /\ next' = [next EXCEPT ![c] = NoPassword]

(* FindByID, and the current password the client sent is right. *)
UpdatePassword(c, u) ==
    /\ HasToken(u) /\ u \in Live
    /\ \E current, password \in Passwords :
          /\ docs[u].password = current
          /\ Begin(c, "setPassword", u, {}, password)

SetPassword(c) ==
    /\ at[c] = "setPassword"
    /\ Update(user[c], [docs[user[c]] EXCEPT !.password = next[c]])
    /\ confirmed' = [confirmed EXCEPT ![user[c]] = next[c]]
    /\ Leave(c)
    /\ UNCHANGED <<signed, told, tokens>>

(* The documents either half of {$or: [{email}, {phone}]} matches; FindOne *)
(* returns one of them, deleted or not.                                    *)
FindByLogin(login) == {u \in Stored : login \in {docs[u].email, docs[u].phone}}

(* Mutant: everybody is a rider, too. *)
SignedRolesAndUser(u) == docs[u].roles \cup {"user"}

SignedRoles(u) == docs[u].roles

(* VerifyCredentials, which auth_service calls. *)
Login(c) ==
    \E login \in Emails \cup Phones, password \in Passwords :
        \E u \in FindByLogin(login) :
            /\ docs[u].password = password
            /\ Begin(c, "issue", u, SignedRoles(u), NoPassword)

(* issueTokenPair signs what VerifyCredentials returned. *)
IssueTokenPair(c) ==
    /\ at[c] = "issue"
    /\ tokens' = tokens \cup {[user |-> user[c], roles |-> claims[c]]}
    /\ Leave(c)
    /\ UNCHANGED <<docs, signed, confirmed, told>>

(* The document has been deleted since; or the request is given up. *)
Fail(c) ==
    /\ at[c] # "idle"
    /\ \/ at[c] = "setPassword" /\ user[c] \notin Live
       \/ at[c] = "setPassword" /\ "mongo" \in Faults
       \/ "process" \in Faults
    /\ Leave(c)
    /\ UNCHANGED <<docs, signed, confirmed, told, tokens>>

Next ==
    \/ \E u \in Ids, role \in Roles : Register(u, role)
    \/ \E u \in Ids : UpdateProfile(u)
    \/ \E u \in Ids : DeleteProfile(u)
    \/ \E u \in Ids : AssignRole(u)
    \/ \E c \in Calls, u \in Ids : UpdatePassword(c, u)
    \/ \E c \in Calls : SetPassword(c)
    \/ \E c \in Calls : Login(c)
    \/ \E c \in Calls : IssueTokenPair(c)
    \/ \E c \in Calls : Fail(c)

Spec == Init /\ [][Next]_vars

-----------------------------------------------------------------------------
(* VerifyCredentials takes the one document FindOne gives it, and          *)
(* auth_service signs its id: whatever registrations and profile updates   *)
(* did to emails and phones, also those of deleted users, no login may     *)
(* match two documents.                                                    *)
LoginNamesOneUser ==
    \A login \in Emails \cup Phones, u, v \in Ids :
        u \in FindByLogin(login) /\ v \in FindByLogin(login) => u = v

(* Clients are told the truth.  A deletion or a role answered for is not   *)
(* undone by any later request, and the password is the last one answered  *)
(* for, also when the profile is deleted, or the password changed by       *)
(* another request, between the read and the write of an UpdatePassword.   *)
AnswersAreTrue ==
    /\ \A t \in told :
          /\ docs[t.user] # NoDoc
          /\ t.what = "deleted" => docs[t.user].deleted
          /\ t.what = "analyst" => "analyst" \in docs[t.user].roles
    /\ \A u \in Ids :
          confirmed[u] # NoPassword => /\ docs[u] # NoDoc
                                       /\ docs[u].password = confirmed[u]

(* driver_service makes a profile for those user_registered calls drivers, *)
(* once.  So nobody may be made a driver later, or stop being one: beyond  *)
(* the role they signed up with, users are at most analysts.               *)
RolesFollowSignUp ==
    \A u \in Stored : docs[u].roles \in {{signed[u]}, {signed[u], "analyst"}}

(* A token is signed with the roles that were read for it, and services    *)
(* trust it without asking: there is no token, nor will there be one from  *)
(* a Login under way, with a role its user does not have.                  *)
ClaimsAreCovered ==
    /\ \A t \in tokens : docs[t.user] # NoDoc /\ t.roles \subseteq docs[t.user].roles
    /\ \A c \in Calls :
          at[c] = "issue" => /\ docs[user[c]] # NoDoc
                             /\ claims[c] \subseteq docs[user[c]].roles

(* A deleted profile stays as it was, for its owner's tokens still count,  *)
(* an UpdatePassword may have read it before, and an admin may name it.    *)
DeletedAreFrozen ==
    [][\A u \in Stored : docs[u].deleted => docs'[u] = docs[u]]_vars

(* What keeps LoginNamesOneUser true: both fields are unique.              *)
FieldsAreUnique ==
    \A u, v \in Ids :
        u # v /\ docs[u] # NoDoc /\ docs[v] # NoDoc =>
            docs[u].email # docs[v].email /\ docs[u].phone # docs[v].phone

(* Requests under way are about somebody. *)
CallsOK ==
    \A c \in Calls : at[c] # "idle" => user[c] \in Ids

PasswordsOK ==
    \A c \in Calls : at[c] = "setPassword" => next[c] \in Passwords

IInv == TypeOK /\ FieldsAreUnique /\ CallsOK /\ PasswordsOK /\ AnswersAreTrue
        /\ RolesFollowSignUp /\ ClaimsAreCovered
=============================================================================
