------------------------- MODULE UserServiceProofs -------------------------
(* Theorems about the two components user_service is at the middle of:     *)
(* Accounts, its collection and the tokens issued from it, for any users,  *)
(* values, requests and faults; and Registration, its event and what is    *)
(* made of it, for any users, consumer groups and faults.                  *)
EXTENDS Accounts, Registration, SequenceTheorems, TLAPS

USE AccountsAssumption

(* Accounts *)

LEMMA InitIInv == Init => IInv
<1> SUFFICES ASSUME Init PROVE IInv
  OBVIOUS
<1>1. \A u \in Ids : docs[u] # NoDoc => u \in Admins /\ docs[u] = Seed[u] /\ signed[u] = "admin"
  BY DEF Init
<1>2. TypeOK
  BY DEF Init, TypeOK, Roles, Places
<1>3. FieldsAreUnique
  BY <1>1 DEF FieldsAreUnique
<1>4. RolesFollowSignUp
  BY <1>1 DEF RolesFollowSignUp, Stored
<1>5. CallsOK /\ PasswordsOK /\ AnswersAreTrue /\ ClaimsAreCovered
  BY DEF Init, CallsOK, PasswordsOK, AnswersAreTrue, ClaimsAreCovered
<1> QED BY <1>2, <1>3, <1>4, <1>5 DEF IInv

LEMMA RegisterIInv ==
    ASSUME IInv, NEW u \in Ids, NEW role \in Roles, Register(u, role) PROVE IInv'
<1>1. PICK email \in Emails, phone \in Phones, password \in Passwords :
         /\ ~Taken(u, email, phone)
         /\ docs' = [docs EXCEPT ![u] = [email |-> email, phone |-> phone,
                       password |-> password, roles |-> {role}, deleted |-> FALSE]]
         /\ confirmed' = [confirmed EXCEPT ![u] = password]
  BY DEF Register
<1> DEFINE d == [email |-> email, phone |-> phone, password |-> password,
                 roles |-> {role}, deleted |-> FALSE]
<1>2. /\ docs[u] = NoDoc /\ docs' = [docs EXCEPT ![u] = d]
      /\ signed' = [signed EXCEPT ![u] = role]
      /\ UNCHANGED <<told, tokens, at, user, claims, next>>
  BY <1>1 DEF Register, call
<1>3. d \in Doc /\ d # NoDoc
  <2>1. d \in Doc
    BY DEF Doc
  <2> QED BY <2>1
<1>4. d.email = email /\ d.phone = phone /\ d.password = password /\ d.roles = {role}
  OBVIOUS
<1>5. /\ docs \in [Ids -> Doc \cup {NoDoc}] /\ signed \in [Ids -> Roles \cup {"none"}]
      /\ confirmed \in [Ids -> Passwords \cup {NoPassword}]
      /\ told \subseteq Answers /\ tokens \subseteq Claims
  BY DEF IInv, TypeOK
<1> HIDE DEF d
<1>6. \A v \in Ids : docs'[v] = IF v = u THEN d ELSE docs[v]
  BY <1>2, <1>5
<1>7. TypeOK'
  <2>1. docs' \in [Ids -> Doc \cup {NoDoc}] /\ signed' \in [Ids -> Roles \cup {"none"}]
    BY <1>2, <1>3, <1>5
  <2>2. confirmed' \in [Ids -> Passwords \cup {NoPassword}]
    BY <1>1, <1>5
  <2> QED BY <1>2, <2>1, <2>2 DEF IInv, TypeOK
<1>8. FieldsAreUnique'
  <2>1. \A v \in Ids \ {u} : docs[v] # NoDoc => docs[v].email # email /\ docs[v].phone # phone
    BY <1>1 DEF Taken, Stored
  <2> QED BY <2>1, <1>4, <1>6 DEF IInv, FieldsAreUnique
<1>9. (CallsOK /\ PasswordsOK)'
  BY <1>2 DEF IInv, CallsOK, PasswordsOK
<1>10. AnswersAreTrue'
  <2>1. \A t \in told : t.user \in Ids /\ t.user # u
    BY <1>2, <1>5 DEF IInv, AnswersAreTrue, Answers
  <2>2. \A v \in Ids : confirmed'[v] = IF v = u THEN password ELSE confirmed[v]
    BY <1>1, <1>5
  <2> QED BY <2>1, <2>2, <1>2, <1>3, <1>4, <1>6 DEF IInv, AnswersAreTrue
<1>11. RolesFollowSignUp'
  <2>1. \A v \in Ids : signed'[v] = IF v = u THEN role ELSE signed[v]
    BY <1>2, <1>5
  <2> QED BY <2>1, <1>4, <1>6 DEF IInv, RolesFollowSignUp, Stored
<1>12. ClaimsAreCovered'
  <2>1. \A t \in tokens : t.user \in Ids /\ t.user # u
    BY <1>2, <1>5 DEF IInv, ClaimsAreCovered, Claims
  <2>2. \A c \in Calls : at[c] = "issue" => user[c] \in Ids /\ user[c] # u
    BY <1>2 DEF IInv, ClaimsAreCovered, CallsOK
  <2> QED BY <2>1, <2>2, <1>2, <1>6 DEF IInv, ClaimsAreCovered
<1> QED BY <1>7, <1>8, <1>9, <1>10, <1>11, <1>12 DEF IInv

(* An update that keeps the roles it finds, but for new ones.               *)
LEMMA UpdateKeeps ==
    ASSUME IInv, NEW u \in Ids, NEW d, Update(u, d), d \in Doc,
           docs[u].roles \subseteq d.roles,
           d.roles \in {{signed[u]}, {signed[u], "analyst"}},
           \A v \in Ids \ {u} :
              docs[v] # NoDoc => docs[v].email # d.email /\ docs[v].phone # d.phone,
           confirmed' = [confirmed EXCEPT ![u] = d.password] \/
             (confirmed' = confirmed /\ d.password = docs[u].password),
           told \subseteq told', told' \subseteq Answers,
           \A t \in told' \ told :
              t.user = u /\ (t.what = "deleted" => d.deleted)
                         /\ (t.what = "analyst" => "analyst" \in d.roles),
           docs[u].deleted => d.deleted,
           UNCHANGED <<signed, tokens>>,
           /\ UNCHANGED at \/ \E c \in Calls : at' = [at EXCEPT ![c] = "idle"]
           /\ \A c \in Calls : at'[c] # "idle" =>
                /\ user'[c] = user[c] /\ claims'[c] = claims[c] /\ next'[c] = next[c],
           user' \in [Calls -> Ids \cup {NoUser}],
           claims' \in [Calls -> SUBSET Roles],
           next' \in [Calls -> Passwords \cup {NoPassword}]
    PROVE  IInv'
<1>1. /\ docs \in [Ids -> Doc \cup {NoDoc}] /\ signed \in [Ids -> Roles \cup {"none"}]
      /\ confirmed \in [Ids -> Passwords \cup {NoPassword}]
      /\ told \subseteq Answers /\ tokens \subseteq Claims /\ at \in [Calls -> Places]
  BY DEF IInv, TypeOK
<1>2. /\ docs[u] # NoDoc /\ d # NoDoc /\ ~docs[u].deleted
      /\ \A v \in Ids : docs'[v] = IF v = u THEN d ELSE docs[v]
  BY <1>1 DEF Update, Live, Stored
<1>3. \A c \in Calls : at'[c] # "idle" => at'[c] = at[c]
  BY <1>1
<1>4. at' \in [Calls -> Places]
  BY <1>1 DEF Places
<1>5. d.password \in Passwords /\ d.roles \subseteq Roles
  BY DEF Doc
<1>6. TypeOK'
  BY <1>1, <1>4, <1>5 DEF IInv, TypeOK, Update
<1>7. FieldsAreUnique'
  BY <1>2 DEF IInv, FieldsAreUnique
<1>8. (CallsOK /\ PasswordsOK)'
  <2>1. ASSUME NEW c \in Calls, at'[c] # "idle"
        PROVE  user'[c] \in Ids /\ (at'[c] = "setPassword" => next'[c] \in Passwords)
    BY <2>1, <1>3 DEF IInv, CallsOK, PasswordsOK
  <2> QED BY <2>1 DEF CallsOK, PasswordsOK
<1>9. AnswersAreTrue'
  <2>1. ASSUME NEW t \in told'
        PROVE  /\ docs'[t.user] # NoDoc
               /\ t.what = "deleted" => docs'[t.user].deleted
               /\ t.what = "analyst" => "analyst" \in docs'[t.user].roles
    <3>1. t.user \in Ids
      BY DEF Answers
    <3>2. CASE t \in told
      BY <3>1, <3>2, <1>2 DEF IInv, AnswersAreTrue
    <3>3. CASE t \notin told
      BY <3>1, <3>3, <1>2
    <3> QED BY <3>2, <3>3
  <2>2. ASSUME NEW v \in Ids, confirmed'[v] # NoPassword
        PROVE  docs'[v] # NoDoc /\ docs'[v].password = confirmed'[v]
    BY <2>2, <1>1, <1>2 DEF IInv, AnswersAreTrue
  <2> QED BY <2>1, <2>2 DEF AnswersAreTrue
<1>10. RolesFollowSignUp'
  BY <1>2 DEF IInv, RolesFollowSignUp, Stored
<1>11. ClaimsAreCovered'
  <2>1. ASSUME NEW t \in tokens
        PROVE  docs'[t.user] # NoDoc /\ t.roles \subseteq docs'[t.user].roles
    <3>1. t.user \in Ids
      BY <1>1 DEF Claims
    <3> QED BY <3>1, <1>2 DEF IInv, ClaimsAreCovered
  <2>2. ASSUME NEW c \in Calls, at'[c] = "issue"
        PROVE  docs'[user'[c]] # NoDoc /\ claims'[c] \subseteq docs'[user'[c]].roles
    <3>1. at[c] = "issue" /\ user'[c] = user[c] /\ claims'[c] = claims[c]
      BY <2>2, <1>3
    <3>2. user[c] \in Ids /\ docs[user[c]] # NoDoc /\ claims[c] \subseteq docs[user[c]].roles
      BY <3>1 DEF IInv, ClaimsAreCovered, CallsOK
    <3> QED BY <3>1, <3>2, <1>2
  <2> QED BY <2>1, <2>2 DEF ClaimsAreCovered
<1> QED BY <1>6, <1>7, <1>8, <1>9, <1>10, <1>11 DEF IInv

LEMMA UpdateProfileIInv == ASSUME IInv, NEW u \in Ids, UpdateProfile(u) PROVE IInv'
<1>1. PICK email \in Emails, phone \in Phones :
         ~Taken(u, email, phone) /\ Update(u, [docs[u] EXCEPT !.email = email, !.phone = phone])
  BY DEF UpdateProfile
<1> DEFINE d == [docs[u] EXCEPT !.email = email, !.phone = phone]
<1>2. docs[u] \in Doc /\ docs[u] # NoDoc
  BY <1>1 DEF Update, Live, Stored, IInv, TypeOK
<1>3. /\ d \in Doc /\ d.roles = docs[u].roles /\ d.email = email /\ d.phone = phone
      /\ d.password = docs[u].password /\ d.deleted = docs[u].deleted
  BY <1>2 DEF Doc
<1>4. UNCHANGED <<signed, confirmed, told, tokens, at, user, claims, next>>
  BY DEF UpdateProfile, call
<1>5. d.roles \in {{signed[u]}, {signed[u], "analyst"}}
  BY <1>2, <1>3 DEF IInv, RolesFollowSignUp, Stored
<1>6. \A v \in Ids \ {u} : docs[v] # NoDoc => docs[v].email # d.email /\ docs[v].phone # d.phone
  BY <1>1, <1>3 DEF Taken, Stored
<1>7. Update(u, d)
  BY <1>1
<1> HIDE DEF d
<1> QED BY <1>3, <1>4, <1>5, <1>6, <1>7, UpdateKeeps DEF IInv, TypeOK

(* The fields an update leaves alone stay unique.                           *)
LEMMA SameFields ==
    ASSUME IInv, NEW u \in Live, NEW d, d.email = docs[u].email, d.phone = docs[u].phone
    PROVE  \A v \in Ids \ {u} :
              docs[v] # NoDoc => docs[v].email # d.email /\ docs[v].phone # d.phone
  BY DEF IInv, FieldsAreUnique, Live, Stored

LEMMA DeleteProfileIInv == ASSUME IInv, NEW u \in Ids, DeleteProfile(u) PROVE IInv'
<1> DEFINE d == [docs[u] EXCEPT !.deleted = TRUE]
<1>1. Update(u, d) /\ u \in Live
  BY DEF DeleteProfile, Update
<1>2. docs[u] \in Doc /\ docs[u] # NoDoc
  BY <1>1 DEF Live, Stored, IInv, TypeOK
<1>3. /\ d \in Doc /\ d.roles = docs[u].roles /\ d.email = docs[u].email
      /\ d.phone = docs[u].phone /\ d.password = docs[u].password /\ d.deleted
  BY <1>2 DEF Doc
<1>4. /\ told' = told \cup {[what |-> "deleted", user |-> u]}
      /\ UNCHANGED <<signed, confirmed, tokens, at, user, claims, next>>
  BY DEF DeleteProfile, call
<1>5. d.roles \in {{signed[u]}, {signed[u], "analyst"}}
  BY <1>2, <1>3 DEF IInv, RolesFollowSignUp, Stored
<1>6. told \subseteq told' /\ told' \subseteq Answers
  BY <1>4 DEF IInv, TypeOK, Answers
<1> HIDE DEF d
<1>7. \A t \in told' \ told :
         t.user = u /\ (t.what = "deleted" => d.deleted) /\ (t.what = "analyst" => "analyst" \in d.roles)
  BY <1>3, <1>4
<1>8. \A v \in Ids \ {u} : docs[v] # NoDoc => docs[v].email # d.email /\ docs[v].phone # d.phone
  BY <1>1, <1>3, SameFields
<1> QED BY <1>1, <1>3, <1>4, <1>5, <1>6, <1>7, <1>8, UpdateKeeps DEF IInv, TypeOK

LEMMA AssignRoleIInv == ASSUME IInv, NEW u \in Ids, AssignRole(u) PROVE IInv'
<1> DEFINE d == [docs[u] EXCEPT !.roles = Added(@)]
<1>1. Update(u, d) /\ u \in Live
  BY DEF AssignRole, Update
<1>2. docs[u] \in Doc /\ docs[u] # NoDoc /\ ~docs[u].deleted
  BY <1>1 DEF Live, Stored, IInv, TypeOK
<1>3. /\ d \in Doc /\ d.roles = docs[u].roles \cup {"analyst"} /\ d.email = docs[u].email
      /\ d.phone = docs[u].phone /\ d.password = docs[u].password
  BY <1>2 DEF Doc, Added, Roles
<1>4. /\ told' = told \cup {[what |-> "analyst", user |-> u]}
      /\ UNCHANGED <<signed, confirmed, tokens, at, user, claims, next>>
  BY DEF AssignRole, call
<1>5. docs[u].roles \in {{signed[u]}, {signed[u], "analyst"}}
  BY <1>2 DEF IInv, RolesFollowSignUp, Stored
<1>6. told \subseteq told' /\ told' \subseteq Answers
  BY <1>4 DEF IInv, TypeOK, Answers
<1> HIDE DEF d
<1>7. d.roles = {signed[u], "analyst"}
  BY <1>3, <1>5
<1>8. \A t \in told' \ told :
         t.user = u /\ (t.what = "deleted" => d.deleted) /\ (t.what = "analyst" => "analyst" \in d.roles)
  BY <1>3, <1>4
<1>9. \A v \in Ids \ {u} : docs[v] # NoDoc => docs[v].email # d.email /\ docs[v].phone # d.phone
  BY <1>1, <1>3, SameFields
<1> QED BY <1>1, <1>2, <1>3, <1>4, <1>6, <1>7, <1>8, <1>9, UpdateKeeps DEF IInv, TypeOK

LEMMA SetPasswordIInv == ASSUME IInv, NEW c \in Calls, SetPassword(c) PROVE IInv'
<1> DEFINE u == user[c]
           d == [docs[u] EXCEPT !.password = next[c]]
<1>1. Update(u, d) /\ u \in Live /\ u \in Ids /\ next[c] \in Passwords
  BY DEF SetPassword, Update, Live, Stored, IInv, PasswordsOK
<1>2. docs[u] \in Doc /\ docs[u] # NoDoc
  BY <1>1 DEF Live, Stored, IInv, TypeOK
<1>3. /\ d \in Doc /\ d.roles = docs[u].roles /\ d.email = docs[u].email
      /\ d.phone = docs[u].phone /\ d.password = next[c] /\ d.deleted = docs[u].deleted
  BY <1>1, <1>2 DEF Doc
<1>4. /\ confirmed' = [confirmed EXCEPT ![u] = d.password]
      /\ at' = [at EXCEPT ![c] = "idle"] /\ user' = [user EXCEPT ![c] = NoUser]
      /\ claims' = [claims EXCEPT ![c] = {}] /\ next' = [next EXCEPT ![c] = NoPassword]
      /\ UNCHANGED <<signed, told, tokens>>
  BY <1>3 DEF SetPassword, Leave
<1> HIDE DEF d
<1>5. d.roles \in {{signed[u]}, {signed[u], "analyst"}}
  BY <1>1, <1>2, <1>3 DEF IInv, RolesFollowSignUp, Stored
<1>6. \A v \in Ids \ {u} : docs[v] # NoDoc => docs[v].email # d.email /\ docs[v].phone # d.phone
  BY <1>1, <1>3, SameFields
<1> HIDE DEF u
<1>7. /\ \A b \in Calls : at'[b] # "idle" =>
             user'[b] = user[b] /\ claims'[b] = claims[b] /\ next'[b] = next[b]
      /\ user' \in [Calls -> Ids \cup {NoUser}] /\ claims' \in [Calls -> SUBSET Roles]
      /\ next' \in [Calls -> Passwords \cup {NoPassword}] /\ told \subseteq Answers
  BY <1>4 DEF IInv, TypeOK
<1> QED BY <1>1, <1>3, <1>4, <1>5, <1>6, <1>7, UpdateKeeps

-----------------------------------------------------------------------------
LEMMA UpdatePasswordIInv ==
    ASSUME IInv, NEW c \in Calls, NEW u \in Ids, UpdatePassword(c, u) PROVE IInv'
<1>1. PICK password \in Passwords : Begin(c, "setPassword", u, {}, password)
  BY DEF UpdatePassword
<1>2. TypeOK'
  BY <1>1 DEF Begin, IInv, TypeOK, Places
<1>3. (CallsOK /\ PasswordsOK)'
  BY <1>1 DEF Begin, IInv, TypeOK, CallsOK, PasswordsOK
<1>4. UNCHANGED <<docs, signed, confirmed, told, tokens>>
  BY <1>1 DEF Begin
<1>5. ClaimsAreCovered'
  BY <1>1, <1>4 DEF Begin, IInv, TypeOK, ClaimsAreCovered
<1> QED BY <1>2, <1>3, <1>4, <1>5 DEF IInv, FieldsAreUnique, AnswersAreTrue, RolesFollowSignUp, Stored

LEMMA LoginIInv == ASSUME IInv, NEW c \in Calls, Login(c) PROVE IInv'
<1>1. PICK u \in Stored : Begin(c, "issue", u, docs[u].roles, NoPassword)
  BY DEF Login, FindByLogin, SignedRoles
<1>2. u \in Ids /\ docs[u] # NoDoc /\ docs[u].roles \subseteq Roles
  BY DEF Stored, IInv, TypeOK, Doc
<1>3. TypeOK'
  BY <1>1, <1>2 DEF Begin, IInv, TypeOK, Places
<1>4. (CallsOK /\ PasswordsOK)'
  BY <1>1, <1>2 DEF Begin, IInv, TypeOK, CallsOK, PasswordsOK
<1>5. UNCHANGED <<docs, signed, confirmed, told, tokens>>
  BY <1>1 DEF Begin
<1>6. ClaimsAreCovered'
  BY <1>1, <1>2, <1>5 DEF Begin, IInv, TypeOK, ClaimsAreCovered
<1> QED BY <1>3, <1>4, <1>5, <1>6 DEF IInv, FieldsAreUnique, AnswersAreTrue, RolesFollowSignUp, Stored

LEMMA LeaveIInv ==
    ASSUME IInv, NEW c \in Calls, Leave(c), UNCHANGED <<docs, signed, confirmed, told>>,
           tokens' \subseteq Claims,
           \A t \in tokens' : docs[t.user] # NoDoc /\ t.roles \subseteq docs[t.user].roles
    PROVE  IInv'
<1>1. TypeOK'
  BY DEF Leave, IInv, TypeOK, Places
<1>2. (CallsOK /\ PasswordsOK)'
  BY DEF Leave, IInv, TypeOK, CallsOK, PasswordsOK
<1>3. ClaimsAreCovered'
  BY DEF Leave, IInv, TypeOK, ClaimsAreCovered
<1> QED BY <1>1, <1>2, <1>3 DEF IInv, FieldsAreUnique, AnswersAreTrue, RolesFollowSignUp, Stored

LEMMA IssueTokenPairIInv == ASSUME IInv, NEW c \in Calls, IssueTokenPair(c) PROVE IInv'
<1>1. user[c] \in Ids /\ claims[c] \subseteq Roles
  BY DEF IssueTokenPair, IInv, TypeOK, CallsOK
<1>2. tokens' \subseteq Claims
  BY <1>1 DEF IssueTokenPair, IInv, TypeOK, Claims
<1>3. \A t \in tokens' : docs[t.user] # NoDoc /\ t.roles \subseteq docs[t.user].roles
  BY DEF IssueTokenPair, IInv, ClaimsAreCovered
<1> QED BY <1>2, <1>3, LeaveIInv DEF IssueTokenPair

LEMMA FailIInv == ASSUME IInv, NEW c \in Calls, Fail(c) PROVE IInv'
  BY LeaveIInv DEF Fail, IInv, TypeOK, ClaimsAreCovered

LEMMA NextIInv == IInv /\ [Next]_vars => IInv'
<1> SUFFICES ASSUME IInv, [Next]_vars PROVE IInv'
  OBVIOUS
<1>1. ASSUME NEW u \in Ids, NEW role \in Roles, Register(u, role) PROVE IInv'
  BY <1>1, RegisterIInv
<1>2. ASSUME NEW u \in Ids, UpdateProfile(u) \/ DeleteProfile(u) \/ AssignRole(u) PROVE IInv'
  BY <1>2, UpdateProfileIInv, DeleteProfileIInv, AssignRoleIInv
<1>3. ASSUME NEW c \in Calls, NEW u \in Ids, UpdatePassword(c, u) PROVE IInv'
  BY <1>3, UpdatePasswordIInv
<1>4. ASSUME NEW c \in Calls, SetPassword(c) \/ Login(c) \/ IssueTokenPair(c) \/ Fail(c) PROVE IInv'
  BY <1>4, SetPasswordIInv, LoginIInv, IssueTokenPairIInv, FailIInv
<1>5. CASE UNCHANGED vars
  BY <1>5 DEF vars, IInv, TypeOK, FieldsAreUnique, CallsOK, PasswordsOK, AnswersAreTrue,
              RolesFollowSignUp, Stored, ClaimsAreCovered
<1> QED BY <1>1, <1>2, <1>3, <1>4, <1>5 DEF Next

THEOREM IInvCorrect == Spec => []IInv
<1> QED BY InitIInv, NextIInv, PTL DEF Spec

(* Every variable keeps its type: a document never loses a field.           *)
THEOREM TypeCorrect == Spec => []TypeOK
<1>1. IInv => TypeOK
  BY DEF IInv
<1> QED BY <1>1, IInvCorrect, PTL

(* However users are created and their emails and phones exchanged, a login *)
(* names at most one of them.                                               *)
THEOREM LoginCorrect == Spec => []LoginNamesOneUser
<1>1. IInv => LoginNamesOneUser
  <2> SUFFICES ASSUME IInv, NEW login \in Emails \cup Phones, NEW u \in FindByLogin(login),
                      NEW v \in FindByLogin(login) PROVE u = v
    BY DEF LoginNamesOneUser
  <2>1. /\ u \in Ids /\ docs[u] # NoDoc /\ login \in {docs[u].email, docs[u].phone}
        /\ v \in Ids /\ docs[v] # NoDoc /\ login \in {docs[v].email, docs[v].phone}
    BY DEF FindByLogin, Stored
  <2>2. docs[u] \in Doc /\ docs[v] \in Doc
    BY <2>1 DEF IInv, TypeOK
  <2>3. /\ docs[u].email \in Emails /\ docs[v].email \in Emails
        /\ docs[u].phone \in Phones /\ docs[v].phone \in Phones
    BY <2>2 DEF Doc
  <2>4. docs[u].email = docs[v].email \/ docs[u].phone = docs[v].phone
    BY <2>1, <2>3
  <2> QED BY <2>1, <2>4 DEF IInv, FieldsAreUnique
<1> QED BY <1>1, IInvCorrect, PTL

(* What user_service answered has been done, and stays done, whatever       *)
(* requests overlap.                                                        *)
THEOREM AnswersCorrect == Spec => []AnswersAreTrue
<1>1. IInv => AnswersAreTrue
  BY DEF IInv
<1> QED BY <1>1, IInvCorrect, PTL

(* Users keep the role that was published when they signed up.              *)
THEOREM RolesCorrect == Spec => []RolesFollowSignUp
<1>1. IInv => RolesFollowSignUp
  BY DEF IInv
<1> QED BY <1>1, IInvCorrect, PTL

(* Tokens carry roles their users have, also when roles were read before    *)
(* and are signed after a change.                                           *)
THEOREM ClaimsCorrect == Spec => []ClaimsAreCovered
<1>1. IInv => ClaimsAreCovered
  BY DEF IInv
<1> QED BY <1>1, IInvCorrect, PTL

(* No request changes a deleted document, one that read it before included. *)
THEOREM DeletedCorrect == Spec => DeletedAreFrozen
<1>1. IInv /\ [Next]_vars => [\A u \in Stored : docs[u].deleted => docs'[u] = docs[u]]_vars
  <2> SUFFICES ASSUME IInv, Next, NEW w \in Stored, docs[w].deleted PROVE docs'[w] = docs[w]
    OBVIOUS
  <2>1. ASSUME NEW u \in Ids, NEW d, Update(u, d) PROVE docs'[w] = docs[w]
    BY <2>1 DEF Update, Live, Stored, IInv, TypeOK
  <2>2. ASSUME NEW u \in Ids, NEW role \in Roles, Register(u, role) PROVE docs'[w] = docs[w]
    BY <2>2 DEF Register, Stored, IInv, TypeOK
  <2>3. ASSUME NEW u \in Ids, UpdateProfile(u) \/ DeleteProfile(u) \/ AssignRole(u)
        PROVE  docs'[w] = docs[w]
    BY <2>1, <2>3 DEF UpdateProfile, DeleteProfile, AssignRole
  <2>4. ASSUME NEW c \in Calls, SetPassword(c) PROVE docs'[w] = docs[w]
    BY <2>1, <2>4 DEF SetPassword, IInv, CallsOK
  <2>5. ASSUME NEW c \in Calls, NEW u \in Ids, UpdatePassword(c, u) PROVE docs'[w] = docs[w]
    BY <2>5 DEF UpdatePassword, Begin
  <2>6. ASSUME NEW c \in Calls, Login(c) \/ IssueTokenPair(c) \/ Fail(c) PROVE docs'[w] = docs[w]
    BY <2>6 DEF Login, Begin, IssueTokenPair, Fail
  <2> QED BY <2>2, <2>3, <2>4, <2>5, <2>6 DEF Next
<1> QED BY <1>1, IInvCorrect, PTL DEF Spec, DeletedAreFrozen

-----------------------------------------------------------------------------
(* Registration *)

USE RegistrationAssumption

(* What publishing does to the topic.                                       *)
LEMMA LogGrows ==
    ASSUME log \in Seq(Users), log' = log \/ \E u \in Users : log' = Append(log, u)
    PROVE  /\ log' \in Seq(Users)
           /\ Len(log) \in Nat /\ Len(log') \in Nat /\ Len(log) <= Len(log')
           /\ \A i \in 1..Len(log) : log'[i] = log[i]
           /\ \A u : log' = Append(log, u) /\ u \in Users =>
                  \A i \in 1..Len(log') : log'[i] = u \/ (i \in 1..Len(log) /\ log'[i] = log[i])
<1>1. Len(log) \in Nat
  BY LenProperties
<1>2. CASE log' = log
  BY <1>1, <1>2
<1>3. ASSUME NEW u \in Users, log' = Append(log, u)
      PROVE  /\ log' \in Seq(Users) /\ Len(log') = Len(log) + 1 /\ log'[Len(log) + 1] = u
             /\ \A i \in 1..Len(log) : log'[i] = log[i]
  BY <1>3, AppendProperties
<1> QED BY <1>1, <1>2, <1>3

LEMMA InitRegistration == RegistrationInit => RegistrationInv
<1> SUFFICES ASSUME RegistrationInit PROVE RegistrationInv
  OBVIOUS
<1>1. RegistrationTypeOK
  BY DEF RegistrationInit, RegistrationTypeOK, ConsumerPlaces
<1>2. UsersOK /\ OffsetsOK /\ ProvisionedAreRegistered
  BY DEF RegistrationInit, UsersOK, OffsetsOK, ProvisionedAreRegistered
<1> QED BY <1>1, <1>2 DEF RegistrationInv

(* The topic only grows, so what was handled stays handled.                 *)
LEMMA ProducerRegistration ==
    ASSUME RegistrationInv, UNCHANGED consumer, RegistrationTypeOK', UsersOK', users \subseteq users',
           \/ log' = log
           \/ \E u \in Users : log' = Append(log, u)
    PROVE  RegistrationInv'
<1>1. Len(log) \in Nat /\ Len(log') \in Nat /\ Len(log) <= Len(log')
  BY LogGrows DEF RegistrationInv, RegistrationTypeOK
<1>2. \A i \in 1..Len(log) : log'[i] = log[i]
  BY LogGrows DEF RegistrationInv, RegistrationTypeOK
<1>3. OffsetsOK'
  <2> SUFFICES ASSUME NEW g \in Groups PROVE OffsetsOK!(g)'
    BY DEF OffsetsOK
  <2>1. OffsetsOK!(g) /\ position[g] \in Nat /\ marked[g] \in Nat
    BY DEF RegistrationInv, RegistrationTypeOK, OffsetsOK
  <2>2. \A i \in 1..Len(log) : Handled(g, i) => Handled(g, i)'
    BY <1>2 DEF Handled, Wants, consumer
  <2>3. stage[g] = "mark" => stage[g] # "poll" /\ position[g] + 1 \in 1..Len(log)
    BY <1>1, <2>1
  <2>4. marked[g] <= Len(log)
    BY <1>1, <2>1
  <2> QED BY <1>1, <2>1, <2>2, <2>3, <2>4 DEF consumer
<1>4. ProvisionedAreRegistered'
  BY DEF RegistrationInv, ProvisionedAreRegistered, consumer
<1> QED BY <1>3, <1>4 DEF RegistrationInv

LEMMA CreateUserRegistration == ASSUME RegistrationInv, NEW u \in Users, CreateUser(u) PROVE RegistrationInv'
<1>1. RegistrationTypeOK'
  BY DEF RegistrationInv, RegistrationTypeOK, CreateUser, consumer
<1>2. UsersOK' /\ users \subseteq users'
  BY DEF RegistrationInv, UsersOK, CreateUser
<1> QED BY <1>1, <1>2, ProducerRegistration DEF CreateUser

LEMMA PublishRegistration ==
    ASSUME RegistrationInv, NEW u \in Users, PublishUserRegistered(u) PROVE RegistrationInv'
<1>1. log' = log \/ log' = Append(log, u)
  BY DEF PublishUserRegistered
<1>2. UNCHANGED <<users, consumer>> /\ publishing' \subseteq publishing /\ u \in users
  BY DEF PublishUserRegistered, RegistrationInv, UsersOK
<1>3. RegistrationTypeOK'
  BY <1>1, <1>2, LogGrows DEF RegistrationInv, RegistrationTypeOK, consumer
<1>4. UsersOK'
  <2>1. \A i \in 1..Len(log') : log'[i] = u \/ (i \in 1..Len(log) /\ log'[i] = log[i])
    BY <1>1, LogGrows DEF RegistrationInv, RegistrationTypeOK
  <2> QED BY <1>2, <2>1 DEF RegistrationInv, UsersOK
<1> QED BY <1>1, <1>2, <1>3, <1>4, ProducerRegistration

LEMMA UserServiceCrashRegistration == ASSUME RegistrationInv, UserServiceCrash PROVE RegistrationInv'
<1>1. RegistrationTypeOK' /\ UsersOK'
  BY DEF RegistrationInv, RegistrationTypeOK, UsersOK, UserServiceCrash, consumer
<1> QED BY <1>1, ProducerRegistration DEF UserServiceCrash

(* The steps of a consumer that handle one message.                         *)
LEMMA ConsumeRegistration ==
    ASSUME RegistrationInv, NEW g \in Groups, Poll(g) \/ HandleMessage(g) \/ MarkMessage(g)
    PROVE  RegistrationInv'
<1>1. CASE Poll(g)
  <2>1. RegistrationTypeOK'
    BY <1>1 DEF RegistrationInv, RegistrationTypeOK, Poll, producer, offsets, ConsumerPlaces
  <2>2. UsersOK' /\ ProvisionedAreRegistered'
    BY <1>1 DEF RegistrationInv, UsersOK, ProvisionedAreRegistered, Poll, producer
  <2>3. OffsetsOK'
    BY <1>1 DEF RegistrationInv, RegistrationTypeOK, OffsetsOK, Handled, Wants, Poll, producer, offsets
  <2> QED BY <2>1, <2>2, <2>3 DEF RegistrationInv
<1>2. CASE HandleMessage(g)
  <2> DEFINE u == log[position[g] + 1]
  <2>1. position[g] \in Nat /\ position[g] + 1 \in 1..Len(log)
    <3>1. position[g] \in Nat /\ Len(log) \in Nat
      BY LenProperties DEF RegistrationInv, RegistrationTypeOK
    <3>2. position[g] < Len(log)
      BY <1>2 DEF HandleMessage, RegistrationInv, OffsetsOK
    <3> QED BY <3>1, <3>2
  <2>2. u \in users /\ u \in Users
    BY <2>1 DEF RegistrationInv, RegistrationTypeOK, UsersOK
  <2>3. /\ \A h \in Groups : done[h] \subseteq done'[h] /\ dropped[h] \subseteq dropped'[h]
        /\ \A h \in Groups : done'[h] \subseteq IF h = g /\ Wants(g, u) THEN done[h] \cup {u} ELSE done[h]
        /\ Wants(g, u) => u \in done'[g] \cup dropped'[g]
        /\ done' \in [Groups -> SUBSET Users] /\ dropped' \in [Groups -> SUBSET Users]
    <3> HIDE DEF u
    <3>1. CASE ~Wants(g, u)
      BY <1>2, <3>1 DEF HandleMessage, RegistrationInv, RegistrationTypeOK, u
    <3>2. CASE Wants(g, u)
      <4>1. PICK end :
               /\ done' = IF end = "refused" THEN done ELSE [done EXCEPT ![g] = @ \cup {u}]
               /\ dropped' = IF end = "refused" /\ u \notin done[g]
                             THEN [dropped EXCEPT ![g] = @ \cup {u}] ELSE dropped
        BY <1>2, <3>2 DEF HandleMessage, u
      <4> QED BY <2>2, <3>2, <4>1 DEF RegistrationInv, RegistrationTypeOK
    <3> QED BY <3>1, <3>2
  <2> HIDE DEF u
  <2>4. /\ stage' = [stage EXCEPT ![g] = "mark"]
        /\ UNCHANGED <<users, publishing, log, position, marked, committed, alive>>
    BY <1>2 DEF HandleMessage, producer, offsets
  <2>5. RegistrationTypeOK'
    BY <2>3, <2>4 DEF RegistrationInv, RegistrationTypeOK, ConsumerPlaces
  <2>6. UsersOK'
    BY <2>4 DEF RegistrationInv, UsersOK
  <2>7. ProvisionedAreRegistered'
    BY <2>2, <2>3, <2>4 DEF RegistrationInv, ProvisionedAreRegistered, Wants
  <2>8. \A h \in Groups : \A i \in Nat : Handled(h, i) => Handled(h, i)'
    BY <2>3, <2>4 DEF Handled, Wants
  <2>9. Handled(g, position[g] + 1)'
    BY <2>3, <2>4 DEF Handled, Wants, u
  <2>10. OffsetsOK'
    <3> SUFFICES ASSUME NEW h \in Groups PROVE OffsetsOK!(h)'
      BY DEF OffsetsOK
    <3>1. OffsetsOK!(h)
      BY DEF RegistrationInv, OffsetsOK
    <3>2. position[h] \in Nat /\ marked[h] \in Nat
      BY DEF RegistrationInv, RegistrationTypeOK
    <3>3. \A i \in 1..marked[h] : Handled(h, i)'
      BY <2>8, <3>1, <3>2
    <3>4. stage'[h] = "mark" => Handled(h, position[h] + 1)'
      BY <2>4, <2>8, <2>9, <3>1, <3>2 DEF RegistrationInv, RegistrationTypeOK
    <3>5. stage'[h] # "poll" => position[h] < Len(log)
      BY <1>2, <2>4, <3>1 DEF HandleMessage, RegistrationInv, RegistrationTypeOK
    <3> QED BY <2>4, <3>1, <3>3, <3>4, <3>5 DEF Handled
  <2> QED BY <2>5, <2>6, <2>7, <2>10 DEF RegistrationInv
<1>3. CASE MarkMessage(g)
  <2>1. RegistrationTypeOK'
    BY <1>3 DEF RegistrationInv, RegistrationTypeOK, MarkMessage, producer, ConsumerPlaces
  <2>2. UsersOK' /\ ProvisionedAreRegistered'
    BY <1>3 DEF RegistrationInv, UsersOK, ProvisionedAreRegistered, MarkMessage, producer
  <2>3. OffsetsOK'
    <3> SUFFICES ASSUME NEW h \in Groups PROVE OffsetsOK!(h)'
      BY DEF OffsetsOK
    <3>1. /\ OffsetsOK!(h) /\ Len(log) \in Nat
          /\ position[h] \in Nat /\ marked[h] \in Nat /\ committed[h] \in Nat
      BY LenProperties DEF RegistrationInv, RegistrationTypeOK, OffsetsOK
    <3>2. \A i \in Nat : Handled(h, i)' <=> Handled(h, i)
      BY <1>3 DEF MarkMessage, producer, Handled, Wants
    <3>3. CASE h # g
      BY <1>3, <3>1, <3>2, <3>3 DEF RegistrationInv, RegistrationTypeOK, MarkMessage, producer, Handled, Wants
    <3>4. CASE h = g
      <4>1. /\ stage'[g] = "poll" /\ position'[g] = position[g] + 1
            /\ marked'[g] = position[g] + 1
            /\ UNCHANGED <<committed, log>>
        BY <1>3 DEF RegistrationInv, RegistrationTypeOK, MarkMessage, producer
      <4>2. \A i \in 1..position[g] + 1 : Handled(g, i)
        BY <1>3, <3>1, <3>4 DEF MarkMessage
      <4>3. position[g] + 1 <= Len(log)
        BY <1>3, <3>1, <3>4 DEF MarkMessage
      <4>4. \A i \in 1..marked'[g] : Handled(g, i)'
        BY <3>1, <3>2, <3>4, <4>1, <4>2
      <4> QED BY <3>1, <3>4, <4>1, <4>3, <4>4
    <3> QED BY <3>3, <3>4
  <2> QED BY <2>1, <2>2, <2>3 DEF RegistrationInv
<1> QED BY <1>1, <1>2, <1>3

(* Commits, and the ends of sessions: offsets only move among handled ones. *)
LEMMA SessionRegistration ==
    ASSUME RegistrationInv, NEW g \in Groups,
           AutoCommit(g) \/ Cancel(g) \/ NextSession(g) \/ Crash(g)
    PROVE  RegistrationInv'
<1>1. CASE AutoCommit(g)
  BY <1>1 DEF RegistrationInv, RegistrationTypeOK, UsersOK, OffsetsOK, ProvisionedAreRegistered, Handled, Wants,
     AutoCommit, producer
<1>2. CASE Cancel(g)
  BY <1>2 DEF RegistrationInv, RegistrationTypeOK, UsersOK, OffsetsOK, ProvisionedAreRegistered, Handled, Wants,
     Cancel, producer, offsets
<1>3. ASSUME NEW from \in {committed[g], marked[g]}, Resume(g, from) PROVE RegistrationInv'
  <2>1. RegistrationTypeOK'
    BY <1>3 DEF RegistrationInv, RegistrationTypeOK, Resume, producer, ConsumerPlaces
  <2>2. UsersOK' /\ ProvisionedAreRegistered'
    BY <1>3 DEF RegistrationInv, UsersOK, ProvisionedAreRegistered, Resume, producer
  <2>3. OffsetsOK'
    BY <1>3 DEF RegistrationInv, RegistrationTypeOK, OffsetsOK, Handled, Wants, Resume, producer
  <2> QED BY <2>1, <2>2, <2>3 DEF RegistrationInv
<1> QED BY <1>1, <1>2, <1>3 DEF NextSession, Crash

LEMMA NextRegistration == RegistrationInv /\ [RegistrationNext]_registrationVars => RegistrationInv'
<1> SUFFICES ASSUME RegistrationInv, [RegistrationNext]_registrationVars PROVE RegistrationInv'
  OBVIOUS
<1>1. CASE UNCHANGED registrationVars
  BY <1>1 DEF registrationVars, producer, consumer, RegistrationInv, RegistrationTypeOK, UsersOK,
                OffsetsOK, Handled, Wants, ProvisionedAreRegistered
<1> QED
  BY <1>1, CreateUserRegistration, PublishRegistration, UserServiceCrashRegistration, ConsumeRegistration, SessionRegistration DEF RegistrationNext

(* The two theorems below follow from this invariant.                       *)
THEOREM RegistrationInvariant == RegistrationSpec => []RegistrationInv
<1> QED BY InitRegistration, NextRegistration, PTL DEF RegistrationSpec

(* create_user.go, the consumers: nothing is provisioned for nobody.        *)
THEOREM NothingForNobody == RegistrationSpec => []ProvisionedAreRegistered
<1>1. RegistrationInv => ProvisionedAreRegistered
  BY DEF RegistrationInv
<1> QED BY <1>1, RegistrationInvariant, PTL

(* ConsumeClaim: what a group will not see again, it has acted on or tried. *)
THEOREM CommitsFollowHandling == RegistrationSpec => []CommittedIsHandled
<1>1. RegistrationInv => CommittedIsHandled
  BY DEF RegistrationInv, RegistrationTypeOK, OffsetsOK, Handled, CommittedIsHandled
<1> QED BY <1>1, RegistrationInvariant, PTL
=============================================================================
