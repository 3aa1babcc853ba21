------------------------- MODULE AuthSessionsProofs -------------------------
(* Theorems about AuthSessions, for any number of sessions and requests. *)
EXTENDS AuthSessions, TLAPS

USE AuthAssumption DEF Tokens

LEMMA EmptyIsBody == EmptyBody \in Bodies
BY DEF EmptyBody, Bodies

LEMMA WholePairFields == WholePair["access"] = "access" /\ WholePair["refresh"] = "refresh"
BY DEF WholePair

(* The access token of a pair is the first to expire.                       *)
LEMMA ParsesAny ==
    ASSUME IInv, NEW s \in Sids, NEW token \in Tokens
    PROVE  /\ Parses(s, "access") => Parses(s, token)
           /\ Parses(s, token) => Parses(s, "refresh")
BY DEF IInv, TypeOK, Parses

(* A step that adds no key of a session logged out keeps it out.            *)
LEMMA StaysOut ==
    ASSUME IInv, left' = left, age' = age,
           \A s \in left : (s \in access' => s \in access) /\ (s \in refresh' => s \in refresh)
    PROVE  LoggedOutIsOut'
BY DEF IInv, LoggedOutIsOut, Accepted, Renewable, Parses

LEMMA InitIInv == Init => IInv
<1> SUFFICES ASSUME Init PROVE IInv
  OBVIOUS
<1>1. TypeOK
  BY EmptyIsBody DEF Init, TypeOK, Places, Kinds
<1>2. HeldOK /\ ParentOK /\ SavingOK /\ DroppingOK
  BY DEF Init, HeldOK, ParentOK, SavingOK, DroppingOK
<1>3. RetiredBeforeReplaced /\ LoggedOutIsOut
  BY DEF Init, RetiredBeforeReplaced, LoggedOutIsOut
<1> QED BY <1>1, <1>2, <1>3 DEF IInv

(* A request starts: it may bring the tokens of a session a client holds.   *)
LEMMA BeginIInv ==
    ASSUME IInv, NEW c \in Calls, NEW what \in Kinds, NEW s \in held \cup {NoSid},
           NEW body \in Bodies, NEW place \in {"dropAccess", "saveAccess"},
           place = "dropAccess" => s # NoSid /\ what \in {"refresh", "logout"},
           place = "saveAccess" => s = NoSid,
           what = "logout" => body \in Logouts,
           Begin(c, what, s, body, place)
    PROVE  IInv'
<1>1. TypeOK'
  BY DEF IInv, HeldOK, TypeOK, Begin, keys, tokens, Places
<1>2. HeldOK' /\ ParentOK' /\ RetiredBeforeReplaced'
  BY DEF IInv, HeldOK, ParentOK, RetiredBeforeReplaced, Begin, keys, tokens
<1>3. LoggedOutIsOut'
  BY StaysOut DEF Begin, keys, tokens
<1>4. SavingOK'
  BY DEF IInv, TypeOK, SavingOK, Begin, keys, tokens
<1>5. DroppingOK'
  BY DEF IInv, TypeOK, DroppingOK, Accepted, Parses, Begin, keys, tokens
<1> QED BY <1>1, <1>2, <1>3, <1>4, <1>5 DEF IInv

LEMMA DropAccessIInv == ASSUME IInv, NEW c \in Calls, DropAccess(c) PROVE IInv'
<1>1. /\ access' \subseteq access
      /\ UNCHANGED <<refresh, tokens, held, left>>
      /\ sid[c] \in held
      /\ Move(c, "dropRefresh") \/ Leave(c)
  BY DEF DropAccess, IInv, DroppingOK
<1>2. TypeOK'
  <2>1. access' \subseteq Sids
    BY <1>1 DEF IInv, TypeOK
  <2>2. CASE Move(c, "dropRefresh")
    BY <1>1, <2>1, <2>2 DEF IInv, TypeOK, Move, tokens, Places
  <2>3. CASE Leave(c)
    BY <1>1, <2>1, <2>3, EmptyIsBody DEF IInv, TypeOK, Leave, tokens, Places, Kinds
  <2> QED BY <1>1, <2>2, <2>3
<1>3. HeldOK' /\ ParentOK' /\ RetiredBeforeReplaced'
  BY <1>1 DEF IInv, HeldOK, ParentOK, RetiredBeforeReplaced, tokens
<1>4. LoggedOutIsOut'
  BY <1>1, StaysOut DEF tokens
<1>5. SavingOK'
  BY <1>1 DEF IInv, TypeOK, SavingOK, Move, Leave, tokens
<1>6. DroppingOK'
  <2> SUFFICES ASSUME NEW d \in Calls PROVE DroppingOK!(d)'
    BY DEF DroppingOK
  <2>1. CASE d # c
    BY <1>1, <2>1 DEF IInv, TypeOK, DroppingOK, Accepted, Parses, Move, Leave, tokens
  <2>2. CASE d = c /\ Leave(c)
    BY <1>1, <2>2, EmptyIsBody DEF IInv, TypeOK, Leave
  <2>3. CASE d = c /\ ~Leave(c)
    <3>1. Move(c, "dropRefresh")
      BY <1>1, <2>3
    <3>2. Drops(c, "access") => access' = access \ {sid[c]}
      BY <2>3 DEF DropAccess
    <3>3. kind[c] = "refresh" => sid[c] \notin access'
      BY <3>2 DEF Drops
    <3>4. ASSUME brought[c]["access"] # "none" PROVE ~Accepted(sid[c], "access")'
      <4>1. brought[c] \in Bodies /\ sid[c] \in Sids
        BY <1>1 DEF IInv, TypeOK, HeldOK
      <4>2. brought[c]["access"] \in Tokens
        BY <3>4, <4>1 DEF Bodies
      <4>3. Parses(sid[c], "access") => Drops(c, "access")
        BY <3>4, <4>1, <4>2, ParsesAny DEF Drops
      <4> QED BY <1>1, <3>1, <3>2, <4>3 DEF Accepted, Parses, Move, tokens
    <3> QED
      BY <1>1, <2>3, <3>1, <3>3, <3>4 DEF IInv, TypeOK, DroppingOK, DropAccess, Move
  <2> QED BY <1>1, <2>1, <2>2, <2>3
<1> QED BY <1>2, <1>3, <1>4, <1>5, <1>6 DEF IInv

LEMMA DropRefreshIInv == ASSUME IInv, NEW c \in Calls, DropRefresh(c) PROVE IInv'
<1>1. /\ refresh' \subseteq refresh
      /\ UNCHANGED <<access, tokens, held>>
      /\ sid[c] \in held
      /\ at[c] = "dropRefresh"
      /\ Dropped(c) \/ (Leave(c) /\ UNCHANGED left)
  BY DEF DropRefresh, IInv, DroppingOK
<1>2. \/ Drops(c, "refresh") => sid[c] \notin refresh'
      \/ Leave(c) /\ UNCHANGED left
  BY DEF DropRefresh
<1>3. CASE Leave(c) /\ UNCHANGED left
  <2>1. TypeOK'
    BY <1>1, <1>3, EmptyIsBody DEF IInv, TypeOK, Leave, tokens, Places, Kinds
  <2>2. HeldOK' /\ ParentOK' /\ RetiredBeforeReplaced'
    BY <1>1, <1>3 DEF IInv, HeldOK, ParentOK, RetiredBeforeReplaced, tokens
  <2>3. LoggedOutIsOut'
    BY <1>1, <1>3, StaysOut DEF tokens
  <2>4. SavingOK' /\ DroppingOK'
    BY <1>1, <1>3 DEF IInv, TypeOK, SavingOK, DroppingOK, Accepted, Parses, Leave, tokens
  <2> QED BY <2>1, <2>2, <2>3, <2>4 DEF IInv
<1>4. CASE ~(Leave(c) /\ UNCHANGED left) /\ kind[c] = "refresh"
  <2>1. Move(c, "saveAccess") /\ left' = left
    BY <1>1, <1>4 DEF Dropped
  <2>2. sid[c] \notin refresh' /\ sid[c] \notin access'
    BY <1>1, <1>2, <1>4 DEF Drops, IInv, DroppingOK
  <2>3. TypeOK'
    BY <1>1, <2>1 DEF IInv, TypeOK, Move, tokens, Places
  <2>4. HeldOK' /\ ParentOK' /\ RetiredBeforeReplaced'
    BY <1>1, <2>1 DEF IInv, HeldOK, ParentOK, RetiredBeforeReplaced, tokens
  <2>5. LoggedOutIsOut'
    BY <1>1, <2>1, StaysOut DEF tokens
  <2>6. SavingOK'
    BY <1>1, <2>1 DEF IInv, TypeOK, SavingOK, Move, tokens
  <2>7. DroppingOK'
    BY <1>1, <2>1, <2>2 DEF IInv, TypeOK, DroppingOK, Accepted, Parses, Move, tokens
  <2> QED BY <2>3, <2>4, <2>5, <2>6, <2>7 DEF IInv
<1>5. CASE ~(Leave(c) /\ UNCHANGED left) /\ kind[c] # "refresh"
  <2>1. /\ Leave(c)
        /\ left' = IF brought[c] = WholePair THEN left \cup {sid[c]} ELSE left
    BY <1>1, <1>5 DEF Dropped
  <2>2. ASSUME brought[c] = WholePair, NEW s \in {sid[c]}, NEW token \in Tokens
        PROVE  ~Renewable(s, token)' /\ (Accepted(s, token)' => ~Parses(s, "access")')
    <3>1. ~Accepted(s, "access")
      BY <1>1, <2>2, WholePairFields DEF IInv, DroppingOK
    <3>2. Parses(s, "refresh") => s \notin refresh'
      BY <1>2, <1>5, <2>2, WholePairFields DEF Drops
    <3>3. s \in Sids
      BY <1>1 DEF IInv, TypeOK
    <3>4. Parses(s, token) => Parses(s, "refresh")
      BY <3>3, ParsesAny
    <3> QED
      BY <1>1, <3>1, <3>2, <3>4 DEF Accepted, Renewable, Parses, tokens
  <2>3. TypeOK'
    BY <1>1, <2>1, EmptyIsBody DEF IInv, TypeOK, HeldOK, Leave, tokens, Places, Kinds
  <2>4. HeldOK' /\ ParentOK' /\ RetiredBeforeReplaced'
    BY <1>1, <2>1 DEF IInv, HeldOK, ParentOK, RetiredBeforeReplaced, tokens
  <2>5. LoggedOutIsOut'
    <3> SUFFICES ASSUME NEW s \in left', NEW token \in Tokens
                 PROVE  /\ ~Renewable(s, token)'
                        /\ Accepted(s, token)' => ~Parses(s, "access")'
      BY DEF LoggedOutIsOut
    <3>1. CASE s \in left
      BY <1>1, <3>1 DEF IInv, LoggedOutIsOut, Accepted, Renewable, Parses, tokens
    <3>2. CASE s \notin left
      BY <2>1, <2>2, <3>2
    <3> QED BY <3>1, <3>2
  <2>6. SavingOK' /\ DroppingOK'
    BY <1>1, <2>1 DEF IInv, TypeOK, SavingOK, DroppingOK, Accepted, Parses, Leave, tokens
  <2> QED BY <2>3, <2>4, <2>5, <2>6 DEF IInv
<1> QED BY <1>3, <1>4, <1>5

(* The only step that adds an access key adds that of a new session.        *)
LEMMA SaveAccessIInv == ASSUME IInv, NEW c \in Calls, SaveAccess(c) PROVE IInv'
<1>1. PICK s \in Sids \ minted :
         /\ minted' = minted \cup {s}
         /\ parent' = [parent EXCEPT ![s] = sid[c]]
         /\ access' \subseteq access \cup {s}
         /\ \/ /\ at' = [at EXCEPT ![c] = "saveRefresh"]
               /\ new' = [new EXCEPT ![c] = s]
               /\ UNCHANGED <<kind, sid, brought>>
            \/ Leave(c)
  BY DEF SaveAccess, FreshSid
<1>2. UNCHANGED <<refresh, age, held, left>> /\ at[c] = "saveAccess"
  BY DEF SaveAccess
<1>3. s \notin held /\ s \notin left /\ s \notin refresh
  BY <1>1 DEF IInv, HeldOK
<1>4. sid[c] \in held \cup {NoSid}
  BY DEF IInv, DroppingOK
<1>5. TypeOK'
  <2>1. CASE Leave(c)
    BY <1>1, <1>2, <2>1, EmptyIsBody DEF IInv, TypeOK, Leave, Places, Kinds
  <2>2. CASE ~Leave(c)
    BY <1>1, <1>2, <2>2 DEF IInv, TypeOK, Places
  <2> QED BY <2>1, <2>2
<1>6. HeldOK' /\ ParentOK'
  BY <1>1, <1>2, <1>3, <1>4 DEF IInv, TypeOK, HeldOK, ParentOK
<1>7. RetiredBeforeReplaced'
  <2> SUFFICES ASSUME NEW t \in minted', parent'[t] # NoSid
               PROVE  parent'[t] \notin access' \cup refresh'
    BY DEF RetiredBeforeReplaced
  <2>1. CASE t = s
    BY <1>1, <1>2, <1>3, <1>4, <2>1 DEF IInv, TypeOK, DroppingOK
  <2>2. CASE t # s
    BY <1>1, <1>2, <1>3, <2>2 DEF IInv, TypeOK, ParentOK, RetiredBeforeReplaced
  <2> QED BY <2>1, <2>2
<1>8. LoggedOutIsOut'
  BY <1>1, <1>2, <1>3, StaysOut
<1>9. SavingOK'
  <2>1. CASE Leave(c)
    BY <1>1, <1>2, <2>1 DEF IInv, TypeOK, SavingOK, Leave
  <2>2. CASE ~Leave(c)
    BY <1>1, <1>2, <1>3, <2>2 DEF IInv, TypeOK, SavingOK
  <2> QED BY <2>1, <2>2
<1>10. DroppingOK'
  <2> SUFFICES ASSUME NEW d \in Calls PROVE DroppingOK!(d)'
    BY DEF DroppingOK
  <2>1. sid[d] # NoSid => sid[d] # s
    BY <1>3 DEF IInv, DroppingOK
  <2>2. CASE d # c
    BY <1>1, <1>2, <2>1, <2>2 DEF IInv, TypeOK, DroppingOK, Accepted, Parses, Leave
  <2>3. CASE d = c /\ Leave(c)
    BY <2>3, EmptyIsBody DEF IInv, TypeOK, Leave
  <2>4. CASE d = c /\ ~Leave(c)
    BY <1>1, <1>2, <2>4 DEF IInv, TypeOK, DroppingOK
  <2> QED BY <2>2, <2>3, <2>4
<1> QED BY <1>5, <1>6, <1>7, <1>8, <1>9, <1>10 DEF IInv

LEMMA SaveRefreshIInv == ASSUME IInv, NEW c \in Calls, SaveRefresh(c) PROVE IInv'
<1> DEFINE s == new[c]
<1>1. /\ refresh' \subseteq refresh \cup {s}
      /\ held \subseteq held' /\ held' \subseteq held \cup {s}
      /\ UNCHANGED <<access, tokens, left>>
      /\ Leave(c)
      /\ at[c] = "saveRefresh"
  BY DEF SaveRefresh
<1>2. s \in minted /\ s \notin held /\ s \notin left
  BY <1>1 DEF IInv, SavingOK, HeldOK
<1>3. \A d \in Calls : d # c /\ at[d] = "saveRefresh" => new[d] # s
  BY <1>1 DEF IInv, SavingOK
<1> HIDE DEF s
<1>4. TypeOK'
  BY <1>1, <1>2, EmptyIsBody DEF IInv, TypeOK, Leave, tokens, Places, Kinds
<1>5. HeldOK' /\ ParentOK'
  BY <1>1, <1>2 DEF IInv, HeldOK, ParentOK, tokens
<1>6. RetiredBeforeReplaced'
  BY <1>1, <1>2 DEF IInv, ParentOK, RetiredBeforeReplaced, tokens
<1>7. LoggedOutIsOut'
  BY <1>1, <1>2, StaysOut DEF tokens
<1>8. SavingOK'
  BY <1>1, <1>2, <1>3 DEF IInv, TypeOK, SavingOK, Leave, tokens
<1>9. DroppingOK'
  <2> SUFFICES ASSUME NEW d \in Calls PROVE DroppingOK!(d)'
    BY DEF DroppingOK
  <2>1. sid[d] # NoSid => sid[d] # s
    BY <1>2 DEF IInv, DroppingOK
  <2>2. CASE d # c
    BY <1>1, <2>1, <2>2 DEF IInv, TypeOK, DroppingOK, Accepted, Parses, Leave, tokens
  <2>3. CASE d = c
    BY <1>1, <2>3, EmptyIsBody DEF IInv, TypeOK, Leave
  <2> QED BY <2>2, <2>3
<1> QED BY <1>4, <1>5, <1>6, <1>7, <1>8, <1>9 DEF IInv

LEMMA TimeIInv == ASSUME IInv, NEW s \in Sids, Age(s) \/ Expire(s) PROVE IInv'
<1>1. /\ access' \subseteq access /\ refresh' \subseteq refresh
      /\ age' \in [Sids -> 0..2]
      /\ \A t \in Sids : age[t] <= age'[t]
      /\ UNCHANGED <<minted, parent, held, left, call>>
  BY DEF Age, Expire, keys, tokens, IInv, TypeOK
<1>2. \A t \in Sids, token \in Tokens :
         /\ Parses(t, token)' => Parses(t, token)
         /\ Accepted(t, token)' => Accepted(t, token)
         /\ Renewable(t, token)' => Renewable(t, token)
  BY <1>1 DEF Accepted, Renewable, Parses, IInv, TypeOK
<1>3. TypeOK'
  BY <1>1 DEF IInv, TypeOK, call
<1>4. HeldOK' /\ ParentOK' /\ RetiredBeforeReplaced'
  BY <1>1 DEF IInv, HeldOK, ParentOK, RetiredBeforeReplaced
<1>5. LoggedOutIsOut'
  <2> SUFFICES ASSUME NEW t \in left', NEW token \in Tokens
               PROVE  /\ ~Renewable(t, token)'
                      /\ Accepted(t, token)' => ~Parses(t, "access")'
    BY DEF LoggedOutIsOut
  <2>1. t \in left /\ t \in Sids
    BY <1>1 DEF IInv, TypeOK
  <2>2. ~Renewable(t, token) /\ (Accepted(t, token) => ~Parses(t, "access"))
    BY <2>1 DEF IInv, LoggedOutIsOut
  <2> QED BY <1>2, <2>1, <2>2
<1>6. SavingOK'
  BY <1>1 DEF IInv, SavingOK, call
<1>7. DroppingOK'
  BY <1>1, <1>2 DEF IInv, TypeOK, DroppingOK, call
<1> QED BY <1>3, <1>4, <1>5, <1>6, <1>7 DEF IInv

LEMMA CrashIInv == ASSUME IInv, Crash PROVE IInv'
<1>1. TypeOK'
  BY EmptyIsBody DEF IInv, TypeOK, Crash, keys, tokens, Places, Kinds
<1>2. HeldOK' /\ ParentOK' /\ RetiredBeforeReplaced'
  BY DEF IInv, HeldOK, ParentOK, RetiredBeforeReplaced, Crash, keys, tokens
<1>3. LoggedOutIsOut'
  BY StaysOut DEF Crash, keys, tokens
<1>4. SavingOK' /\ DroppingOK'
  BY DEF SavingOK, DroppingOK, Crash
<1> QED BY <1>1, <1>2, <1>3, <1>4 DEF IInv

LEMMA NextIInv == IInv /\ [Next]_vars => IInv'
<1> SUFFICES ASSUME IInv, [Next]_vars PROVE IInv'
  OBVIOUS
<1>1. ASSUME NEW c \in Calls, Login(c) PROVE IInv'
  BY <1>1, EmptyIsBody, BeginIInv DEF Login, Kinds
<1>2. ASSUME NEW c \in Calls, Refresh(c) PROVE IInv'
  <2>1. PICK s \in held : Begin(c, "refresh", s, EmptyBody, "dropAccess")
    BY <1>2 DEF Refresh
  <2>2. s # NoSid
    BY DEF IInv, TypeOK
  <2> QED BY <2>1, <2>2, EmptyIsBody, BeginIInv DEF Kinds
<1>3. ASSUME NEW c \in Calls, Logout(c) PROVE IInv'
  <2>1. PICK s \in held, body \in Logouts : Begin(c, "logout", s, body, "dropAccess")
    BY <1>3 DEF Logout
  <2>2. s # NoSid /\ body \in Bodies
    BY DEF IInv, TypeOK
  <2> QED BY <2>1, <2>2, BeginIInv DEF Kinds
<1>4. ASSUME NEW c \in Calls, DropAccess(c) \/ DropRefresh(c) \/ SaveAccess(c) \/ SaveRefresh(c)
      PROVE  IInv'
  BY <1>4, DropAccessIInv, DropRefreshIInv, SaveAccessIInv, SaveRefreshIInv
<1>5. CASE UNCHANGED vars
  BY <1>5 DEF vars, IInv, TypeOK, HeldOK, ParentOK, SavingOK, DroppingOK,
     RetiredBeforeReplaced, LoggedOutIsOut, Accepted, Renewable, Parses
<1> QED BY <1>1, <1>2, <1>3, <1>4, <1>5, TimeIInv, CrashIInv DEF Next

(* Everything below follows from this invariant of auth_service.            *)
THEOREM InductiveInvariant == Spec => []IInv
<1> QED BY InitIInv, NextIInv, PTL DEF Spec

(* The state of auth_service keeps its type.                                *)
THEOREM TypeCorrect == Spec => []TypeOK
<1>1. IInv => TypeOK
  BY DEF IInv
<1> QED BY <1>1, InductiveInvariant, PTL

(* refresh.go: both keys of the old session are gone before a new pair is   *)
(* signed, whatever fails and whatever overlaps.                            *)
THEOREM OldPairIsRetired == Spec => []RetiredBeforeReplaced
<1>1. IInv => RetiredBeforeReplaced
  BY DEF IInv
<1> QED BY <1>1, InductiveInvariant, PTL

(* logout.go: after a 204 to both tokens, neither counts ever again.        *)
THEOREM LogoutIsFinal == Spec => []LoggedOutIsOut
<1>1. IInv => LoggedOutIsOut
  BY DEF IInv
<1> QED BY <1>1, InductiveInvariant, PTL

(* Clients fill the field for the access token if they fill the other.      *)
AccessFieldFilled ==
    \A body \in Logouts : body["refresh"] # "none" => body["access"] # "none"

(* A step keeps accepted tokens renewable.                                  *)
LEMMA StepRenewable ==
    ASSUME AccessFieldFilled, IInv, IInv', AcceptedIsRenewable, [Next]_vars
    PROVE  AcceptedIsRenewable'
<1> SUFFICES ASSUME NEW s \in held', Accepted(s, "access")' PROVE Renewable(s, "refresh")'
  BY DEF AcceptedIsRenewable
<1> s \in Sids
  BY DEF IInv, TypeOK, HeldOK
<1>1. ASSUME NEW c \in Calls, Login(c) \/ Refresh(c) \/ Logout(c) PROVE Renewable(s, "refresh")'
  BY <1>1 DEF Login, Refresh, Logout, Begin, keys, tokens, AcceptedIsRenewable,
     Accepted, Renewable, Parses
<1>2. ASSUME NEW c \in Calls, DropAccess(c) PROVE Renewable(s, "refresh")'
  BY <1>2 DEF DropAccess, tokens, AcceptedIsRenewable, Accepted, Renewable, Parses
<1>3. ASSUME NEW c \in Calls, DropRefresh(c) PROVE Renewable(s, "refresh")'
  <2>1. UNCHANGED <<access, age, held>> /\ refresh \ {sid[c]} \subseteq refresh'
    BY <1>3 DEF DropRefresh, tokens
  <2>2. Accepted(s, "access") /\ Renewable(s, "refresh")
    BY <2>1 DEF AcceptedIsRenewable, Accepted, Parses
  <2>3. CASE s # sid[c]
    BY <2>1, <2>2, <2>3 DEF Renewable, Parses
  <2>4. CASE s = sid[c]
    <3>1. /\ kind[c] = "logout" /\ brought[c] \in Logouts
          /\ brought[c]["access"] = "none"
      <4>1. at[c] = "dropRefresh" /\ sid[c] \in access /\ Accepted(sid[c], "access")
        BY <1>3, <2>2, <2>4 DEF DropRefresh, Accepted
      <4> QED BY <4>1 DEF IInv, DroppingOK
    <3>2. brought[c]["refresh"] = "none"
      BY <3>1 DEF AccessFieldFilled
    <3>3. refresh' = refresh
      BY <1>3, <3>1, <3>2 DEF DropRefresh, Drops
    <3> QED BY <2>1, <2>2, <3>3 DEF Renewable, Parses
  <2> QED BY <2>3, <2>4
<1>4. ASSUME NEW c \in Calls, SaveAccess(c) PROVE Renewable(s, "refresh")'
  <2>1. UNCHANGED <<refresh, age, held>> /\ \E t \in Sids \ minted : access' \subseteq access \cup {t}
    BY <1>4 DEF SaveAccess, FreshSid
  <2> QED BY <2>1 DEF IInv, HeldOK, AcceptedIsRenewable, Accepted, Renewable, Parses
<1>5. ASSUME NEW c \in Calls, SaveRefresh(c) PROVE Renewable(s, "refresh")'
  <2>1. /\ UNCHANGED <<access, age>>
        /\ refresh \subseteq refresh'
        /\ s \in held \/ s \in refresh'
    BY <1>5 DEF SaveRefresh, tokens
  <2>2. Parses(s, "refresh")'
    BY DEF Accepted, Parses, IInv, TypeOK
  <2> QED BY <2>1, <2>2 DEF AcceptedIsRenewable, Accepted, Renewable, Parses
<1>6. ASSUME NEW t \in Sids, Age(t) \/ Expire(t) PROVE Renewable(s, "refresh")'
  <2>1. Parses(s, "refresh")' /\ Parses(s, "refresh")
    BY <1>6 DEF Accepted, Parses, IInv, TypeOK, Age, Expire, tokens
  <2>2. access' \subseteq access /\ held' = held /\ (Accepted(s, "access")' => Accepted(s, "access"))
    BY <1>6 DEF Accepted, Parses, IInv, TypeOK, Age, Expire, keys, tokens
  <2>3. s \in refresh
    BY <2>2 DEF AcceptedIsRenewable, Renewable
  <2>4. s \in refresh'
    BY <1>6, <2>1, <2>3 DEF Age, Expire, keys
  <2> QED BY <2>1, <2>4 DEF Renewable
<1>7. CASE Crash \/ UNCHANGED vars
  BY <1>7 DEF Crash, vars, keys, tokens, AcceptedIsRenewable, Accepted, Renewable, Parses
<1> QED BY <1>1, <1>2, <1>3, <1>4, <1>5, <1>6, <1>7 DEF Next

(* refresh.go, logout.go, token.go: keys are saved and deleted in such an   *)
(* order that a client whose access token is accepted can renew it, if      *)
(* clients that fill the refresh field of a Logout fill the access field.   *)
THEOREM AcceptedStaysRenewable ==
    AccessFieldFilled /\ Spec => []AcceptedIsRenewable
<1> SUFFICES ASSUME AccessFieldFilled PROVE Spec => []AcceptedIsRenewable
  OBVIOUS
<1>1. Init => AcceptedIsRenewable
  BY DEF Init, AcceptedIsRenewable
<1>2. IInv /\ IInv' /\ AcceptedIsRenewable /\ [Next]_vars => AcceptedIsRenewable'
  BY StepRenewable
<1> QED BY <1>1, <1>2, InductiveInvariant, PTL DEF Spec
=============================================================================
