---------------------------- MODULE RequestProofs ----------------------------
(***************************************************************************)
(* Proofs about Gateway and about OrderReads, for every value of their     *)
(* constants: which handler answers a request, whatever its path, and what *)
(* those that read orders answer, however many there are and whatever is   *)
(* searched for.                                                           *)
(***************************************************************************)
EXTENDS Gateway, OrderReads, SumLemmas, SequenceTheorems, FunctionTheorems

-----------------------------------------------------------------------------
(* Searching tables *)

(* A finite set of integers has a least and a greatest element. *)
LEMMA FirstAndLast ==
    ASSUME NEW I, IsFiniteSet(I), I # {}
    PROVE  I \subseteq Int => /\ Min(I) \in I /\ \A j \in I : Min(I) <= j
                             /\ Max(I) \in I /\ \A j \in I : j <= Max(I)
<1> DEFINE Below(i) == {j \in I : j <= i}
           Above(i) == {j \in I : j >= i}
<1>1. \E x \in I : \A y \in I : Below(y) \subseteq Below(x) => Below(y) = Below(x)
  <2> DEFINE D == {Below(i) : i \in I}
  <2>1. D \in SUBSET (SUBSET I)
    OBVIOUS
  <2>2. D # {}
    OBVIOUS
  <2>3. \E T \in D : \A U \in D : U \subseteq T => U = T
    <3> HIDE DEF D
    <3> QED BY <2>1, <2>2, MinimalSubset
  <2>4. PICK T \in D : \A U \in D : U \subseteq T => U = T
    BY <2>3
  <2>5. PICK x \in I : T = Below(x)
    BY <2>4
  <2>6. \A y \in I : Below(y) \in D
    OBVIOUS
  <2> HIDE DEF D, Below
  <2> QED BY <2>4, <2>5, <2>6
<1>2. \E x \in I : \A y \in I : Above(y) \subseteq Above(x) => Above(y) = Above(x)
  <2> DEFINE D == {Above(i) : i \in I}
  <2>1. D \in SUBSET (SUBSET I)
    OBVIOUS
  <2>2. D # {}
    OBVIOUS
  <2>3. \E T \in D : \A U \in D : U \subseteq T => U = T
    <3> HIDE DEF D
    <3> QED BY <2>1, <2>2, MinimalSubset
  <2>4. PICK T \in D : \A U \in D : U \subseteq T => U = T
    BY <2>3
  <2>5. PICK x \in I : T = Above(x)
    BY <2>4
  <2>6. \A y \in I : Above(y) \in D
    OBVIOUS
  <2> HIDE DEF D, Above
  <2> QED BY <2>4, <2>5, <2>6
<1> SUFFICES ASSUME I \subseteq Int
             PROVE  /\ Min(I) \in I /\ \A j \in I : Min(I) <= j
                    /\ Max(I) \in I /\ \A j \in I : j <= Max(I)
  OBVIOUS
<1>3. PICK x \in I : \A y \in I : x <= y
  <2>1. PICK x \in I : \A y \in I : Below(y) \subseteq Below(x) => Below(y) = Below(x)
    BY <1>1
  <2>2. ASSUME NEW y \in I, y < x PROVE FALSE
    <3>1. x \in Below(x) /\ x \notin Below(y) /\ \A j \in Below(y) : j \in Below(x)
      BY <2>2
    <3> HIDE DEF Below
    <3> QED BY <2>1, <3>1
  <2> QED BY <2>2
<1>4. PICK z \in I : \A y \in I : y <= z
  <2>1. PICK z \in I : \A y \in I : Above(y) \subseteq Above(z) => Above(y) = Above(z)
    BY <1>2
  <2>2. ASSUME NEW y \in I, z < y PROVE FALSE
    <3>1. z \in Above(z) /\ z \notin Above(y) /\ \A j \in Above(y) : j \in Above(z)
      BY <2>2
    <3> HIDE DEF Above
    <3> QED BY <2>1, <3>1
  <2> QED BY <2>2
<1> QED BY <1>3, <1>4 DEF Min, Max

(* What nginx takes matches; where it takes a location that is not exact no *)
(* exact one does, and where a prefix, no regular expression either.        *)
LEMMA LocateMatches ==
    ASSUME NEW p
    PROVE  LET n == Locate(p)
               M(kinds) == \E k \in 1..Len(Locations) :
                               Locations[k].kind \in kinds /\ Matches(Locations[k], p)
           IN /\ n \in 0..Len(Locations)
              /\ n = 0 => ~M({"exact", "segments", "regexUnder", "prefix", "under"})
              /\ n # 0 => /\ Matches(Locations[n], p)
                          /\ Locations[n].kind # "exact" => ~M({"exact"})
                          /\ Locations[n].kind \in {"prefix", "under"} =>
                                ~M({"segments", "regexUnder"})
<1> DEFINE n == Len(Locations)
           I(kinds) == {k \in 1..n : Locations[k].kind \in kinds /\ Matches(Locations[k], p)}
           Of(kinds) == IF I(kinds) # {} THEN Min(I(kinds)) ELSE 0
<1>1. n \in Nat
  BY DEF Locations
<1>2. ASSUME NEW kinds
      PROVE  /\ Of(kinds) = 0 => I(kinds) = {}
             /\ Of(kinds) # 0 => Of(kinds) \in I(kinds)
  <2>1. I(kinds) \in SUBSET (1..n)
    OBVIOUS
  <2> HIDE DEF I, n
  <2>2. I(kinds) # {} => Min(I(kinds)) \in I(kinds) /\ Min(I(kinds)) # 0
    <3>1. I(kinds) # {} => Min(I(kinds)) \in I(kinds)
      <4>1. IsFiniteSet(1..n)
        BY <1>1, FS_Interval
      <4>2. IsFiniteSet(I(kinds))
        BY <2>1, <4>1, FS_Subset
      <4>3. I(kinds) \subseteq Int
        BY <2>1
      <4> QED BY <4>2, <4>3, FirstAndLast
    <3> QED BY <1>1, <2>1, <3>1
  <2> QED BY <2>2
<1>3. Locate(p) = IF Of({"exact"}) # 0 THEN Of({"exact"})
                  ELSE IF Of({"segments", "regexUnder"}) # 0 THEN Of({"segments", "regexUnder"})
                  ELSE Of({"prefix", "under"})
  BY DEF Locate, SelectInSeq
<1> DEFINE A == Of({"exact"})
           B == Of({"segments", "regexUnder"})
           C == Of({"prefix", "under"})
<1>4. /\ A = 0 => \A k \in 1..n : Locations[k].kind = "exact" => ~Matches(Locations[k], p)
      /\ A # 0 => A \in 1..n /\ Matches(Locations[A], p) /\ Locations[A].kind = "exact"
  <2>1. /\ A = 0 => I({"exact"}) = {}
        /\ A # 0 => A \in I({"exact"})
    BY <1>2
  <2> HIDE DEF A
  <2> QED BY <2>1
<1>5. /\ B = 0 => \A k \in 1..n : Locations[k].kind \in {"segments", "regexUnder"} =>
                        ~Matches(Locations[k], p)
      /\ B # 0 => /\ B \in 1..n /\ Matches(Locations[B], p)
                  /\ Locations[B].kind \in {"segments", "regexUnder"}
  <2>1. /\ B = 0 => I({"segments", "regexUnder"}) = {}
        /\ B # 0 => B \in I({"segments", "regexUnder"})
    BY <1>2
  <2> HIDE DEF B
  <2> QED BY <2>1
<1>6. /\ C = 0 => \A k \in 1..n : Locations[k].kind \in {"prefix", "under"} =>
                        ~Matches(Locations[k], p)
      /\ C # 0 => /\ C \in 1..n /\ Matches(Locations[C], p)
                  /\ Locations[C].kind \in {"prefix", "under"}
  <2>1. /\ C = 0 => I({"prefix", "under"}) = {}
        /\ C # 0 => C \in I({"prefix", "under"})
    BY <1>2
  <2> HIDE DEF C
  <2> QED BY <2>1
<1>7. Locate(p) = IF A # 0 THEN A ELSE IF B # 0 THEN B ELSE C
  BY <1>3
<1> HIDE DEF A, B, C, I, n
<1> QED BY <1>1, <1>4, <1>5, <1>6, <1>7 DEF n

Takes(R, k, m, t) == R[k].method = m /\ Covers(R[k].path, t)

(* The route a service selects is for the method and covers the path, and   *)
(* is the last such in order_service; when it selects none there is none.   *)
LEMMA SelectedMatches ==
    ASSUME NEW s \in Services, NEW m, NEW p
    PROVE  LET i == Selected(s, m, p)
               R == RoutesOf(s)
           IN /\ i \in 0..Len(R)
              /\ i = 0 => \A k \in 1..Len(R) : ~Takes(R, k, m, p)
              /\ i # 0 => Takes(R, i, m, p)
              /\ s = "order_service" => \A k \in 1..Len(R) : Takes(R, k, m, p) => k <= i
<1> DEFINE R == RoutesOf(s)
           n == Len(R)
           For(k) == Takes(R, k, m, p)
           I == {k \in 1..n : For(k)}
<1>1. n \in Nat
  BY DEF Services, RoutesOf, AuthRoutes, UserRoutes, DriverRoutes, WalletRoutes, OrderRoutes,
         AnalyticRoutes
<1>2. Selected(s, m, p) = IF s = "order_service" THEN IF I # {} THEN Max(I) ELSE 0
                          ELSE IF I # {} THEN Min(I) ELSE 0
  BY DEF Selected, SelectInSeq, SelectLastInSeq, Takes
<1>3. IsFiniteSet(I)
  <2>1. IsFiniteSet(1..n)
    BY <1>1, FS_Interval
  <2>2. I \subseteq 1..n
    OBVIOUS
  <2> HIDE DEF I, n
  <2> QED BY <2>1, <2>2, FS_Subset
<1>4. I \subseteq Int /\ \A k \in I : k \in 1..n
  OBVIOUS
<1>5. I # {} => /\ Min(I) \in I /\ Max(I) \in I
                /\ \A k \in I : k <= Max(I)
  <2> HIDE DEF I
  <2> QED BY <1>3, <1>4, FirstAndLast
<1>6. \A k : k \in I <=> k \in 1..n /\ For(k)
  OBVIOUS
<1> HIDE DEF I, For, n, R
<1>7. CASE I = {}
  BY <1>1, <1>2, <1>6, <1>7 DEF For, n, R
<1>8. CASE I # {}
  BY <1>1, <1>2, <1>4, <1>5, <1>6, <1>8 DEF For, n, R
<1> QED BY <1>7, <1>8

-----------------------------------------------------------------------------
(* The tables, location by location and route by route *)

LEMMA CoversOne ==
    ASSUME NEW a, NEW p
    PROVE  Covers(<<a>>, p) <=> Len(p) = 1 /\ a \in {Id, p[1]}
BY DEF Covers

LEMMA CoversTwo ==
    ASSUME NEW a, NEW b, NEW p
    PROVE  Covers(<<a, b>>, p) <=> Len(p) = 2 /\ a \in {Id, p[1]} /\ b \in {Id, p[2]}
BY DEF Covers

LEMMA CoversThree ==
    ASSUME NEW a, NEW b, NEW c, NEW p
    PROVE  Covers(<<a, b, c>>, p)
              <=> Len(p) = 3 /\ a \in {Id, p[1]} /\ b \in {Id, p[2]} /\ c \in {Id, p[3]}
BY DEF Covers

LEMMA CoversFour ==
    ASSUME NEW a, NEW b, NEW c, NEW d, NEW p
    PROVE  Covers(<<a, b, c, d>>, p)
              <=> /\ Len(p) = 4 /\ a \in {Id, p[1]} /\ b \in {Id, p[2]}
                  /\ c \in {Id, p[3]} /\ d \in {Id, p[4]}
BY DEF Covers

LEMMA CoversFive ==
    ASSUME NEW a, NEW b, NEW c, NEW d, NEW e, NEW p
    PROVE  Covers(<<a, b, c, d, e>>, p)
              <=> /\ Len(p) = 5 /\ a \in {Id, p[1]} /\ b \in {Id, p[2]}
                  /\ c \in {Id, p[3]} /\ d \in {Id, p[4]} /\ e \in {Id, p[5]}
BY DEF Covers

LEMMA PairProperties ==
    ASSUME NEW S, NEW a \in S, NEW b \in S
    PROVE  /\ <<a, b>> \in Seq(S) /\ Len(<<a, b>>) = 2
           /\ <<a, b>>[1] = a /\ <<a, b>>[2] = b
<1>1. <<a, b>> \in Seq(S)
  OBVIOUS
<1>2. Len(<<a, b>>) = 2
  OBVIOUS
<1>3. <<a, b>>[1] = a /\ <<a, b>>[2] = b
  OBVIOUS
<1> QED BY <1>1, <1>2, <1>3

LEMMA SingletonProperties ==
    ASSUME NEW S, NEW a \in S
    PROVE  <<a>> \in Seq(S) /\ Len(<<a>>) = 1 /\ <<a>>[1] = a
<1>1. <<a>> \in Seq(S)
  OBVIOUS
<1>2. Len(<<a>>) = 1
  OBVIOUS
<1>3. <<a>>[1] = a
  OBVIOUS
<1> QED BY <1>1, <1>2, <1>3

LEMMA PrefixProperties ==
    ASSUME NEW S, NEW s \in Seq(S), NEW p \in Seq(S)
    PROVE  IsPrefix(s, p) <=> Len(s) <= Len(p) /\ \A i \in 1..Len(s) : p[i] = s[i]
<1>1. Len(s) \in Nat /\ Len(p) \in Nat
  OBVIOUS
<1>2. ASSUME NEW q \in Seq(S), Len(s) <= Len(q)
      PROVE  /\ SubSeq(q, 1, Len(s)) \in Seq(S) /\ Len(SubSeq(q, 1, Len(s))) = Len(s)
             /\ \A i \in 1..Len(s) : SubSeq(q, 1, Len(s))[i] = q[i]
  <2>1. \A i \in 1..Len(s) : q[i] \in S
    BY <1>2
  <2>2. 1 \in Int /\ Len(s) \in Int
    BY <1>1
  <2> DEFINE n == Len(s)
  <2>3. n \in Nat /\ \A i \in 1..n : q[i] \in S
    BY <1>1, <2>1
  <2> HIDE DEF n
  <2>4. /\ SubSeq(q, 1, n) \in Seq(S)
        /\ Len(SubSeq(q, 1, n)) = IF 1 <= n THEN n - 1 + 1 ELSE 0
        /\ \A i \in 1..n - 1 + 1 : SubSeq(q, 1, n)[i] = q[1 + i - 1]
    BY <2>3, SubSeqProperties
  <2>5. Len(SubSeq(q, 1, n)) = n
    BY <2>3, <2>4
  <2>6. \A i \in 1..n : i \in 1..n - 1 + 1 /\ 1 + i - 1 = i
    BY <2>3
  <2>7. \A i \in 1..n : SubSeq(q, 1, n)[i] = q[i]
    BY <2>4, <2>6
  <2> QED BY <2>4, <2>5, <2>7 DEF n
<1>3. ASSUME Len(s) <= Len(p)
      PROVE  SubSeq(s, 1, Len(s)) = SubSeq(p, 1, Len(s)) <=> \A i \in 1..Len(s) : p[i] = s[i]
  <2> DEFINE u == SubSeq(s, 1, Len(s))
             v == SubSeq(p, 1, Len(s))
  <2>1. /\ u \in Seq(S) /\ Len(u) = Len(s) /\ \A i \in 1..Len(s) : u[i] = s[i]
        /\ v \in Seq(S) /\ Len(v) = Len(s) /\ \A i \in 1..Len(s) : v[i] = p[i]
    BY <1>1, <1>2, <1>3
  <2> HIDE DEF u, v
  <2>2. ASSUME \A i \in 1..Len(s) : p[i] = s[i] PROVE u = v
    <3>1. \A i \in 1..Len(u) : u[i] = v[i]
      BY <2>1, <2>2
    <3> QED BY <2>1, <3>1, SeqEqual
  <2> QED BY <2>1, <2>2 DEF u, v
<1> QED BY <1>1, <1>3 DEF IsPrefix

LEMMA PrefixTwo ==
    ASSUME NEW S, NEW a, NEW b, NEW p \in Seq(S)
    PROVE  IsPrefix(<<a, b>>, p) <=> Len(p) >= 2 /\ p[1] = a /\ p[2] = b
<1> DEFINE s == <<a, b>>
           T == S \cup {a, b}
<1>1. a \in T /\ b \in T /\ p \in Seq(T)
  BY SeqMonotonic
<1>2. s \in Seq(T) /\ Len(s) = 2 /\ s[1] = a /\ s[2] = b
  <2> HIDE DEF T
  <2> QED BY <1>1, PairProperties
<1> HIDE DEF s, T
<1>3. IsPrefix(s, p) <=> Len(s) <= Len(p) /\ \A i \in 1..Len(s) : p[i] = s[i]
  BY ZenonT(60), <1>1, <1>2, PrefixProperties
<1> QED BY <1>2, <1>3 DEF s

LEMMA PrefixOne ==
    ASSUME NEW S, NEW a, NEW p \in Seq(S)
    PROVE  IsPrefix(<<a>>, p) <=> Len(p) >= 1 /\ p[1] = a
<1> DEFINE s == <<a>>
           T == S \cup {a}
<1>1. a \in T /\ p \in Seq(T)
  BY SeqMonotonic
<1>2. s \in Seq(T) /\ Len(s) = 1 /\ s[1] = a
  <2> HIDE DEF T
  <2> QED BY <1>1, SingletonProperties
<1> HIDE DEF s, T
<1>3. IsPrefix(s, p) <=> Len(s) <= Len(p) /\ \A i \in 1..Len(s) : p[i] = s[i]
  BY ZenonT(60), <1>1, <1>2, PrefixProperties
<1> QED BY <1>2, <1>3 DEF s

LEMMA TailOf ==
    ASSUME NEW S, NEW p \in Seq(S), Len(p) >= 1
    PROVE  Len(Tail(p)) = Len(p) - 1 /\ \A i \in 1..Len(p) - 1 : Tail(p)[i] = p[i + 1]
OBVIOUS

LEMMA VersionedOf ==
    ASSUME NEW S, NEW p \in Seq(S), NEW a
    PROVE  /\ Len(<<a>> \o p) = Len(p) + 1 /\ (<<a>> \o p)[1] = a
           /\ \A i \in 1..Len(p) : (<<a>> \o p)[i + 1] = p[i]
<1> DEFINE v == <<a>>
           T == S \cup {a}
<1>1. a \in T /\ p \in Seq(T)
  BY SeqMonotonic
<1>2. v \in Seq(T) /\ Len(v) = 1 /\ v[1] = a
  <2> HIDE DEF T
  <2> QED BY <1>1, SingletonProperties
<1> HIDE DEF v, T
<1>3. /\ v \o p \in Seq(T) /\ Len(v \o p) = Len(v) + Len(p)
      /\ \A i \in 1..Len(v) + Len(p) : (v \o p)[i] = IF i <= Len(v) THEN v[i] ELSE p[i - Len(v)]
  BY <1>1, <1>2, ConcatProperties
<1>4. Len(p) \in Nat
  OBVIOUS
<1>5. \A i \in 1..Len(p) : i + 1 \in 1..1 + Len(p) /\ ~(i + 1 <= 1) /\ (i + 1) - 1 = i
  BY <1>4
<1>6. 1 \in 1..1 + Len(p)
  BY <1>4
<1> QED BY <1>2, <1>3, <1>4, <1>5, <1>6 DEF v

-----------------------------------------------------------------------------
(* The tables, written out: which paths a location matches and what it does *)
(* with them, and which requests a route is for.                            *)

One(p, a) == Len(p) = 1 /\ p[1] = a
Two(p, a, b) == Len(p) = 2 /\ p[1] = a /\ p[2] = b
UnderOne(p, a) == Len(p) > 1 /\ p[1] = a
Profile(p, a) == Len(p) >= 2 /\ p[1] = a /\ p[2] = "profile"

LEMMA LocationTable ==
    /\ Len(Locations) = 15
    /\ \A k \in {1, 2, 3, 4, 8, 13} : Locations[k].kind = "exact"
    /\ \A k \in {9, 10, 11, 12, 14} : Locations[k].kind = "segments"
    /\ \A k \in {5, 7} : Locations[k].kind = "prefix"
    /\ Locations[6].kind = "regexUnder" /\ Locations[15].kind = "under"
    /\ \A k \in 1..4 : Locations[k].gate = "none"
    /\ \A k \in {5, 7, 8, 9, 10, 11, 12, 14} : Locations[k].gate = "any"
    /\ Locations[6].gate = "admin"
    /\ \A k \in {13, 15} : Locations[k].gate = "analyst"
    /\ \A k \in 1..3 : Locations[k].service = "auth_service"
    /\ \A k \in 4..6 : Locations[k].service = "user_service"
    /\ Locations[7].service = "driver_service"
    /\ \A k \in 8..14 : Locations[k].service = "order_service"
    /\ Locations[15].service = "analytic_service"
    /\ \A k \in (1..7) \cup {15} : Locations[k].rewrite = "strip"
    /\ \A k \in 8..14 : Locations[k].rewrite = "v1"
    /\ \A k \in 5..15 : Locations[k].args
BY DEF Locations, Location

LEMMA MatchesBy ==
    ASSUME NEW l, NEW p
    PROVE  /\ l.kind \in {"exact", "segments"} => (Matches(l, p) <=> Covers(l.path, p))
           /\ l.kind = "prefix" => (Matches(l, p) <=> IsPrefix(l.path, p))
           /\ l.kind \in {"under", "regexUnder"} =>
                (Matches(l, p) <=> IsPrefix(l.path, p) /\ Len(p) > Len(l.path))
<1>1. l.kind \in {"exact", "segments"} => (Matches(l, p) <=> Covers(l.path, p))
  BY DEF Matches, Covers
<1>2. l.kind = "prefix" => (Matches(l, p) <=> IsPrefix(l.path, p))
  BY DEF Matches, IsPrefix
<1>3. l.kind \in {"under", "regexUnder"} =>
        (Matches(l, p) <=> IsPrefix(l.path, p) /\ Len(p) > Len(l.path))
  BY DEF Matches, Under, IsPrefix
<1> QED BY <1>1, <1>2, <1>3

LEMMA MatchTable ==
    ASSUME NEW p \in Seq(STRING)
    PROVE  /\ Matches(Locations[1], p) <=> Two(p, "auth", "login")
           /\ Matches(Locations[2], p) <=> Two(p, "auth", "refresh")
           /\ Matches(Locations[3], p) <=> Two(p, "auth", "logout")
           /\ Matches(Locations[4], p) <=> Two(p, "users", "register")
           /\ Matches(Locations[5], p) <=> Profile(p, "users")
           /\ Matches(Locations[6], p) <=> Len(p) > 2 /\ p[1] = "users" /\ p[2] = "admin"
           /\ Matches(Locations[7], p) <=> Profile(p, "drivers")
           /\ Matches(Locations[8], p) <=> One(p, "orders")
           /\ Matches(Locations[9], p) <=> Len(p) = 3 /\ p[1] = "orders" /\ p[3] = "cancel"
           /\ Matches(Locations[10], p) <=> Len(p) = 3 /\ p[1] = "orders" /\ p[3] = "start"
           /\ Matches(Locations[11], p) <=> Len(p) = 3 /\ p[1] = "orders" /\ p[3] = "complete"
           /\ Matches(Locations[12], p) <=> Len(p) = 3 /\ p[1] = "orders" /\ p[3] = "rate"
           /\ Matches(Locations[13], p) <=> Two(p, "orders", "search")
           /\ Matches(Locations[14], p) <=> Len(p) = 2 /\ p[1] = "orders"
           /\ Matches(Locations[15], p) <=> UnderOne(p, "analytics")
<1>1. /\ Locations[1].path = <<"auth", "login">> /\ Locations[2].path = <<"auth", "refresh">>
      /\ Locations[3].path = <<"auth", "logout">> /\ Locations[4].path = <<"users", "register">>
      /\ Locations[5].path = <<"users", "profile">> /\ Locations[6].path = <<"users", "admin">>
      /\ Locations[7].path = <<"drivers", "profile">> /\ Locations[8].path = <<"orders">>
      /\ Locations[9].path = <<"orders", Id, "cancel">>
      /\ Locations[10].path = <<"orders", Id, "start">>
      /\ Locations[11].path = <<"orders", Id, "complete">>
      /\ Locations[12].path = <<"orders", Id, "rate">>
      /\ Locations[13].path = <<"orders", "search">>
      /\ Locations[14].path = <<"orders", Id>> /\ Locations[15].path = <<"analytics">>
  BY DEF Locations, Location
<1>2. ASSUME NEW k \in {1, 2, 3, 4, 8, 9, 10, 11, 12, 13, 14}
      PROVE  Matches(Locations[k], p) <=> Covers(Locations[k].path, p)
  BY LocationTable, MatchesBy
<1>3. ASSUME NEW k \in {5, 7} PROVE Matches(Locations[k], p) <=> IsPrefix(Locations[k].path, p)
  BY LocationTable, MatchesBy
<1>4. ASSUME NEW k \in {6, 15}
      PROVE  Matches(Locations[k], p)
                <=> IsPrefix(Locations[k].path, p) /\ Len(p) > Len(Locations[k].path)
  BY SMTT(30), LocationTable, MatchesBy
<1>5. \A a, b : IsPrefix(<<a, b>>, p) <=> Len(p) >= 2 /\ p[1] = a /\ p[2] = b
  BY PrefixTwo
<1>6. \A a : IsPrefix(<<a>>, p) <=> Len(p) >= 1 /\ p[1] = a
  BY PrefixOne
<1>7. Len(Locations[6].path) = 2 /\ Len(Locations[15].path) = 1 /\ Len(p) \in Nat
  BY <1>1
<1>8. Matches(Locations[1], p) <=> Two(p, "auth", "login")
  <2>1. Covers(<<"auth", "login">>, p) <=> Two(p, "auth", "login")
    BY CoversTwo DEF Two, Id
  <2> QED BY <1>1, <1>2, <2>1
<1>9. Matches(Locations[2], p) <=> Two(p, "auth", "refresh")
  <2>1. Covers(<<"auth", "refresh">>, p) <=> Two(p, "auth", "refresh")
    BY CoversTwo DEF Two, Id
  <2> QED BY <1>1, <1>2, <2>1
<1>10. Matches(Locations[3], p) <=> Two(p, "auth", "logout")
  <2>1. Covers(<<"auth", "logout">>, p) <=> Two(p, "auth", "logout")
    BY CoversTwo DEF Two, Id
  <2> QED BY <1>1, <1>2, <2>1
<1>11. Matches(Locations[4], p) <=> Two(p, "users", "register")
  <2>1. Covers(<<"users", "register">>, p) <=> Two(p, "users", "register")
    BY CoversTwo DEF Two, Id
  <2> QED BY <1>1, <1>2, <2>1
<1>12. Matches(Locations[13], p) <=> Two(p, "orders", "search")
  <2>1. Covers(<<"orders", "search">>, p) <=> Two(p, "orders", "search")
    BY CoversTwo DEF Two, Id
  <2> QED BY <1>1, <1>2, <2>1
<1>13. Matches(Locations[8], p) <=> One(p, "orders")
  <2>1. Covers(<<"orders">>, p) <=> One(p, "orders")
    BY CoversOne DEF One, Id
  <2> QED BY <1>1, <1>2, <2>1
<1>14. Matches(Locations[14], p) <=> Len(p) = 2 /\ p[1] = "orders"
  <2>1. Covers(<<"orders", Id>>, p) <=> Len(p) = 2 /\ p[1] = "orders"
    BY CoversTwo DEF Id
  <2> QED BY <1>1, <1>2, <2>1
<1>15. Matches(Locations[9], p) <=> Len(p) = 3 /\ p[1] = "orders" /\ p[3] = "cancel"
  <2>1. Covers(<<"orders", Id, "cancel">>, p) <=> Len(p) = 3 /\ p[1] = "orders" /\ p[3] = "cancel"
    BY CoversThree DEF Id
  <2> QED BY <1>1, <1>2, <2>1
<1>16. Matches(Locations[10], p) <=> Len(p) = 3 /\ p[1] = "orders" /\ p[3] = "start"
  <2>1. Covers(<<"orders", Id, "start">>, p) <=> Len(p) = 3 /\ p[1] = "orders" /\ p[3] = "start"
    BY CoversThree DEF Id
  <2> QED BY <1>1, <1>2, <2>1
<1>17. Matches(Locations[11], p) <=> Len(p) = 3 /\ p[1] = "orders" /\ p[3] = "complete"
  <2>1. Covers(<<"orders", Id, "complete">>, p)
           <=> Len(p) = 3 /\ p[1] = "orders" /\ p[3] = "complete"
    BY CoversThree DEF Id
  <2> QED BY <1>1, <1>2, <2>1
<1>18. Matches(Locations[12], p) <=> Len(p) = 3 /\ p[1] = "orders" /\ p[3] = "rate"
  <2>1. Covers(<<"orders", Id, "rate">>, p) <=> Len(p) = 3 /\ p[1] = "orders" /\ p[3] = "rate"
    BY CoversThree DEF Id
  <2> QED BY <1>1, <1>2, <2>1
<1>19. Matches(Locations[5], p) <=> Profile(p, "users")
  <2>1. IsPrefix(<<"users", "profile">>, p) <=> Profile(p, "users")
    BY <1>5 DEF Profile
  <2> QED BY <1>1, <1>3, <2>1
<1>20. Matches(Locations[7], p) <=> Profile(p, "drivers")
  <2>1. IsPrefix(<<"drivers", "profile">>, p) <=> Profile(p, "drivers")
    BY <1>5 DEF Profile
  <2> QED BY <1>1, <1>3, <2>1
<1>21. Matches(Locations[6], p) <=> Len(p) > 2 /\ p[1] = "users" /\ p[2] = "admin"
  <2>1. IsPrefix(<<"users", "admin">>, p) <=> Len(p) >= 2 /\ p[1] = "users" /\ p[2] = "admin"
    BY <1>5
  <2>2. Matches(Locations[6], p) <=> IsPrefix(<<"users", "admin">>, p) /\ Len(p) > 2
    BY <1>1, <1>4, <1>7
  <2> QED BY <1>7, <2>1, <2>2
<1>22. Matches(Locations[15], p) <=> UnderOne(p, "analytics")
  <2>1. IsPrefix(<<"analytics">>, p) <=> Len(p) >= 1 /\ p[1] = "analytics"
    BY <1>6
  <2>2. Matches(Locations[15], p) <=> IsPrefix(<<"analytics">>, p) /\ Len(p) > 1
    BY <1>1, <1>4, <1>7
  <2> QED BY <1>7, <2>1, <2>2 DEF UnderOne
<1> QED BY <1>8, <1>9, <1>10, <1>11, <1>12, <1>13, <1>14, <1>15, <1>16, <1>17, <1>18, <1>19,
           <1>20, <1>21, <1>22
LEMMA AuthTable ==
    ASSUME NEW m, NEW t
    PROVE  LET R == AuthRoutes
           IN /\ RoutesOf("auth_service") = R /\ Len(R) = 4
              /\ R[1].handler = "Login"
              /\ Takes(R, 1, m, t) <=> m = "POST" /\ Len(t) = 1 /\ t[1] = "login"
              /\ R[2].handler = "Refresh"
              /\ Takes(R, 2, m, t) <=> m = "POST" /\ Len(t) = 1 /\ t[1] = "refresh"
              /\ R[3].handler = "Logout"
              /\ Takes(R, 3, m, t) <=> m = "POST" /\ Len(t) = 1 /\ t[1] = "logout"
              /\ R[4].handler = "Validate"
              /\ Takes(R, 4, m, t) <=> m = "GET" /\ Len(t) = 1 /\ t[1] = "validate"
<1>1. RoutesOf("auth_service") = AuthRoutes /\ Len(AuthRoutes) = 4
  BY DEF RoutesOf, AuthRoutes
<1>2. /\ AuthRoutes[1].handler = "Login"
      /\ Takes(AuthRoutes, 1, m, t) <=> m = "POST" /\ Len(t) = 1 /\ t[1] = "login"
  <2>1. /\ AuthRoutes[1].method = "POST" /\ AuthRoutes[1].path = <<"login">>
        /\ AuthRoutes[1].handler = "Login"
    BY DEF AuthRoutes, Route
  <2>2. Covers(<<"login">>, t) <=> Len(t) = 1 /\ t[1] = "login"
    BY CoversOne DEF Id
  <2> QED BY <2>1, <2>2 DEF Takes
<1>3. /\ AuthRoutes[2].handler = "Refresh"
      /\ Takes(AuthRoutes, 2, m, t) <=> m = "POST" /\ Len(t) = 1 /\ t[1] = "refresh"
  <2>1. /\ AuthRoutes[2].method = "POST" /\ AuthRoutes[2].path = <<"refresh">>
        /\ AuthRoutes[2].handler = "Refresh"
    BY DEF AuthRoutes, Route
  <2>2. Covers(<<"refresh">>, t) <=> Len(t) = 1 /\ t[1] = "refresh"
    BY CoversOne DEF Id
  <2> QED BY <2>1, <2>2 DEF Takes
<1>4. /\ AuthRoutes[3].handler = "Logout"
      /\ Takes(AuthRoutes, 3, m, t) <=> m = "POST" /\ Len(t) = 1 /\ t[1] = "logout"
  <2>1. /\ AuthRoutes[3].method = "POST" /\ AuthRoutes[3].path = <<"logout">>
        /\ AuthRoutes[3].handler = "Logout"
    BY DEF AuthRoutes, Route
  <2>2. Covers(<<"logout">>, t) <=> Len(t) = 1 /\ t[1] = "logout"
    BY CoversOne DEF Id
  <2> QED BY <2>1, <2>2 DEF Takes
<1>5. /\ AuthRoutes[4].handler = "Validate"
      /\ Takes(AuthRoutes, 4, m, t) <=> m = "GET" /\ Len(t) = 1 /\ t[1] = "validate"
  <2>1. /\ AuthRoutes[4].method = "GET" /\ AuthRoutes[4].path = <<"validate">>
        /\ AuthRoutes[4].handler = "Validate"
    BY DEF AuthRoutes, Route
  <2>2. Covers(<<"validate">>, t) <=> Len(t) = 1 /\ t[1] = "validate"
    BY CoversOne DEF Id
  <2> QED BY <2>1, <2>2 DEF Takes
<1> QED BY <1>1, <1>2, <1>3, <1>4, <1>5

LEMMA UserTable ==
    ASSUME NEW m, NEW t
    PROVE  LET R == UserRoutes
           IN /\ RoutesOf("user_service") = R /\ Len(R) = 7
              /\ R[1].handler = "Register"
              /\ Takes(R, 1, m, t) <=> m = "POST" /\ Len(t) = 1 /\ t[1] = "register"
              /\ R[2].handler = "VerifyCredentials"
              /\ Takes(R, 2, m, t) <=> m = "POST" /\ Len(t) = 2 /\ t[1] = "internal"
                                       /\ t[2] = "verify-credentials"
              /\ R[3].handler = "Profile"
              /\ Takes(R, 3, m, t) <=> m = "GET" /\ Len(t) = 1 /\ t[1] = "profile"
              /\ R[4].handler = "UpdateProfile"
              /\ Takes(R, 4, m, t) <=> m = "PATCH" /\ Len(t) = 1 /\ t[1] = "profile"
              /\ R[5].handler = "DeleteProfile"
              /\ Takes(R, 5, m, t) <=> m = "DELETE" /\ Len(t) = 1 /\ t[1] = "profile"
              /\ R[6].handler = "UpdatePassword"
              /\ Takes(R, 6, m, t) <=> m = "POST" /\ Len(t) = 2 /\ t[1] = "profile"
                                       /\ t[2] = "password"
              /\ R[7].handler = "AssignRoleAnalytic"
              /\ Takes(R, 7, m, t) <=> m = "POST" /\ Len(t) = 4 /\ t[1] = "admin"
                                       /\ t[2] = "users" /\ t[4] = "analyst-role"
<1>1. RoutesOf("user_service") = UserRoutes /\ Len(UserRoutes) = 7
  BY DEF RoutesOf, UserRoutes
<1>2. /\ UserRoutes[1].handler = "Register"
      /\ Takes(UserRoutes, 1, m, t) <=> m = "POST" /\ Len(t) = 1 /\ t[1] = "register"
  <2>1. /\ UserRoutes[1].method = "POST" /\ UserRoutes[1].path = <<"register">>
        /\ UserRoutes[1].handler = "Register"
    BY DEF UserRoutes, Route
  <2>2. Covers(<<"register">>, t) <=> Len(t) = 1 /\ t[1] = "register"
    BY CoversOne DEF Id
  <2> QED BY <2>1, <2>2 DEF Takes
<1>3. /\ UserRoutes[2].handler = "VerifyCredentials"
      /\ Takes(UserRoutes, 2, m, t) <=> m = "POST" /\ Len(t) = 2 /\ t[1] = "internal"
                                        /\ t[2] = "verify-credentials"
  <2>1. /\ UserRoutes[2].method = "POST"
        /\ UserRoutes[2].path = <<"internal", "verify-credentials">>
        /\ UserRoutes[2].handler = "VerifyCredentials"
    BY DEF UserRoutes, Route
  <2>2. Covers(<<"internal", "verify-credentials">>, t)
           <=> Len(t) = 2 /\ t[1] = "internal" /\ t[2] = "verify-credentials"
    BY CoversTwo DEF Id
  <2> QED BY <2>1, <2>2 DEF Takes
<1>4. /\ UserRoutes[3].handler = "Profile"
      /\ Takes(UserRoutes, 3, m, t) <=> m = "GET" /\ Len(t) = 1 /\ t[1] = "profile"
  <2>1. /\ UserRoutes[3].method = "GET" /\ UserRoutes[3].path = <<"profile">>
        /\ UserRoutes[3].handler = "Profile"
    BY DEF UserRoutes, Route
  <2>2. Covers(<<"profile">>, t) <=> Len(t) = 1 /\ t[1] = "profile"
    BY CoversOne DEF Id
  <2> QED BY <2>1, <2>2 DEF Takes
<1>5. /\ UserRoutes[4].handler = "UpdateProfile"
      /\ Takes(UserRoutes, 4, m, t) <=> m = "PATCH" /\ Len(t) = 1 /\ t[1] = "profile"
  <2>1. /\ UserRoutes[4].method = "PATCH" /\ UserRoutes[4].path = <<"profile">>
        /\ UserRoutes[4].handler = "UpdateProfile"
    BY DEF UserRoutes, Route
  <2>2. Covers(<<"profile">>, t) <=> Len(t) = 1 /\ t[1] = "profile"
    BY CoversOne DEF Id
  <2> QED BY <2>1, <2>2 DEF Takes
<1>6. /\ UserRoutes[5].handler = "DeleteProfile"
      /\ Takes(UserRoutes, 5, m, t) <=> m = "DELETE" /\ Len(t) = 1 /\ t[1] = "profile"
  <2>1. /\ UserRoutes[5].method = "DELETE" /\ UserRoutes[5].path = <<"profile">>
        /\ UserRoutes[5].handler = "DeleteProfile"
    BY DEF UserRoutes, Route
  <2>2. Covers(<<"profile">>, t) <=> Len(t) = 1 /\ t[1] = "profile"
    BY CoversOne DEF Id
  <2> QED BY <2>1, <2>2 DEF Takes
<1>7. /\ UserRoutes[6].handler = "UpdatePassword"
      /\ Takes(UserRoutes, 6, m, t) <=> m = "POST" /\ Len(t) = 2 /\ t[1] = "profile"
                                        /\ t[2] = "password"
  <2>1. /\ UserRoutes[6].method = "POST" /\ UserRoutes[6].path = <<"profile", "password">>
        /\ UserRoutes[6].handler = "UpdatePassword"
    BY DEF UserRoutes, Route
  <2>2. Covers(<<"profile", "password">>, t) <=> Len(t) = 2 /\ t[1] = "profile" /\ t[2] = "password"
    BY CoversTwo DEF Id
  <2> QED BY <2>1, <2>2 DEF Takes
<1>8. /\ UserRoutes[7].handler = "AssignRoleAnalytic"
      /\ Takes(UserRoutes, 7, m, t) <=> m = "POST" /\ Len(t) = 4 /\ t[1] = "admin"
                                        /\ t[2] = "users" /\ t[4] = "analyst-role"
  <2>1. /\ UserRoutes[7].method = "POST"
        /\ UserRoutes[7].path = <<"admin", "users", Id, "analyst-role">>
        /\ UserRoutes[7].handler = "AssignRoleAnalytic"
    BY DEF UserRoutes, Route
  <2>2. Covers(<<"admin", "users", Id, "analyst-role">>, t)
           <=> Len(t) = 4 /\ t[1] = "admin" /\ t[2] = "users" /\ t[4] = "analyst-role"
    BY CoversFour DEF Id
  <2> QED BY <2>1, <2>2 DEF Takes
<1> QED BY <1>1, <1>2, <1>3, <1>4, <1>5, <1>6, <1>7, <1>8

LEMMA DriverTable ==
    ASSUME NEW m, NEW t
    PROVE  LET R == DriverRoutes
           IN /\ RoutesOf("driver_service") = R /\ Len(R) = 7
              /\ R[1].handler = "RegisterDriver"
              /\ Takes(R, 1, m, t) <=> m = "POST" /\ Len(t) = 2 /\ t[1] = "internal"
                                       /\ t[2] = "drivers"
              /\ R[2].handler = "GetDrivers"
              /\ Takes(R, 2, m, t) <=> m = "GET" /\ Len(t) = 2 /\ t[1] = "internal"
                                       /\ t[2] = "drivers"
              /\ R[3].handler = "ClaimDriver"
              /\ Takes(R, 3, m, t) <=> m = "POST" /\ Len(t) = 3 /\ t[1] = "internal"
                                       /\ t[2] = "drivers" /\ t[3] = "claim"
              /\ R[4].handler = "UpdateStatusInternal"
              /\ Takes(R, 4, m, t) <=> m = "PATCH" /\ Len(t) = 4 /\ t[1] = "internal"
                                       /\ t[2] = "drivers" /\ t[4] = "status"
              /\ R[5].handler = "DriverProfile"
              /\ Takes(R, 5, m, t) <=> m = "GET" /\ Len(t) = 1 /\ t[1] = "profile"
              /\ R[6].handler = "UpdateType"
              /\ Takes(R, 6, m, t) <=> m = "PATCH" /\ Len(t) = 1 /\ t[1] = "profile"
              /\ R[7].handler = "UpdateStatus"
              /\ Takes(R, 7, m, t) <=> m = "PATCH" /\ Len(t) = 2 /\ t[1] = "profile"
                                       /\ t[2] = "status"
<1>1. RoutesOf("driver_service") = DriverRoutes /\ Len(DriverRoutes) = 7
  BY DEF RoutesOf, DriverRoutes
<1>2. /\ DriverRoutes[1].handler = "RegisterDriver"
      /\ Takes(DriverRoutes, 1, m, t) <=> m = "POST" /\ Len(t) = 2 /\ t[1] = "internal"
                                          /\ t[2] = "drivers"
  <2>1. /\ DriverRoutes[1].method = "POST" /\ DriverRoutes[1].path = <<"internal", "drivers">>
        /\ DriverRoutes[1].handler = "RegisterDriver"
    BY DEF DriverRoutes, Route
  <2>2. Covers(<<"internal", "drivers">>, t) <=> Len(t) = 2 /\ t[1] = "internal" /\ t[2] = "drivers"
    BY CoversTwo DEF Id
  <2> QED BY <2>1, <2>2 DEF Takes
<1>3. /\ DriverRoutes[2].handler = "GetDrivers"
      /\ Takes(DriverRoutes, 2, m, t) <=> m = "GET" /\ Len(t) = 2 /\ t[1] = "internal"
                                          /\ t[2] = "drivers"
  <2>1. /\ DriverRoutes[2].method = "GET" /\ DriverRoutes[2].path = <<"internal", "drivers">>
        /\ DriverRoutes[2].handler = "GetDrivers"
    BY DEF DriverRoutes, Route
  <2>2. Covers(<<"internal", "drivers">>, t) <=> Len(t) = 2 /\ t[1] = "internal" /\ t[2] = "drivers"
    BY CoversTwo DEF Id
  <2> QED BY <2>1, <2>2 DEF Takes
<1>4. /\ DriverRoutes[3].handler = "ClaimDriver"
      /\ Takes(DriverRoutes, 3, m, t) <=> m = "POST" /\ Len(t) = 3 /\ t[1] = "internal"
                                          /\ t[2] = "drivers" /\ t[3] = "claim"
  <2>1. /\ DriverRoutes[3].method = "POST"
        /\ DriverRoutes[3].path = <<"internal", "drivers", "claim">>
        /\ DriverRoutes[3].handler = "ClaimDriver"
    BY DEF DriverRoutes, Route
  <2>2. Covers(<<"internal", "drivers", "claim">>, t)
           <=> Len(t) = 3 /\ t[1] = "internal" /\ t[2] = "drivers" /\ t[3] = "claim"
    BY CoversThree DEF Id
  <2> QED BY <2>1, <2>2 DEF Takes
<1>5. /\ DriverRoutes[4].handler = "UpdateStatusInternal"
      /\ Takes(DriverRoutes, 4, m, t) <=> m = "PATCH" /\ Len(t) = 4 /\ t[1] = "internal"
                                          /\ t[2] = "drivers" /\ t[4] = "status"
  <2>1. /\ DriverRoutes[4].method = "PATCH"
        /\ DriverRoutes[4].path = <<"internal", "drivers", Id, "status">>
        /\ DriverRoutes[4].handler = "UpdateStatusInternal"
    BY DEF DriverRoutes, Route
  <2>2. Covers(<<"internal", "drivers", Id, "status">>, t)
           <=> Len(t) = 4 /\ t[1] = "internal" /\ t[2] = "drivers" /\ t[4] = "status"
    BY CoversFour DEF Id
  <2> QED BY <2>1, <2>2 DEF Takes
<1>6. /\ DriverRoutes[5].handler = "DriverProfile"
      /\ Takes(DriverRoutes, 5, m, t) <=> m = "GET" /\ Len(t) = 1 /\ t[1] = "profile"
  <2>1. /\ DriverRoutes[5].method = "GET" /\ DriverRoutes[5].path = <<"profile">>
        /\ DriverRoutes[5].handler = "DriverProfile"
    BY DEF DriverRoutes, Route
  <2>2. Covers(<<"profile">>, t) <=> Len(t) = 1 /\ t[1] = "profile"
    BY CoversOne DEF Id
  <2> QED BY <2>1, <2>2 DEF Takes
<1>7. /\ DriverRoutes[6].handler = "UpdateType"
      /\ Takes(DriverRoutes, 6, m, t) <=> m = "PATCH" /\ Len(t) = 1 /\ t[1] = "profile"
  <2>1. /\ DriverRoutes[6].method = "PATCH" /\ DriverRoutes[6].path = <<"profile">>
        /\ DriverRoutes[6].handler = "UpdateType"
    BY DEF DriverRoutes, Route
  <2>2. Covers(<<"profile">>, t) <=> Len(t) = 1 /\ t[1] = "profile"
    BY CoversOne DEF Id
  <2> QED BY <2>1, <2>2 DEF Takes
<1>8. /\ DriverRoutes[7].handler = "UpdateStatus"
      /\ Takes(DriverRoutes, 7, m, t) <=> m = "PATCH" /\ Len(t) = 2 /\ t[1] = "profile"
                                          /\ t[2] = "status"
  <2>1. /\ DriverRoutes[7].method = "PATCH" /\ DriverRoutes[7].path = <<"profile", "status">>
        /\ DriverRoutes[7].handler = "UpdateStatus"
    BY DEF DriverRoutes, Route
  <2>2. Covers(<<"profile", "status">>, t) <=> Len(t) = 2 /\ t[1] = "profile" /\ t[2] = "status"
    BY CoversTwo DEF Id
  <2> QED BY <2>1, <2>2 DEF Takes
<1> QED BY <1>1, <1>2, <1>3, <1>4, <1>5, <1>6, <1>7, <1>8

LEMMA OrderTable ==
    ASSUME NEW m, NEW t
    PROVE  LET R == OrderRoutes
           IN /\ RoutesOf("order_service") = R /\ Len(R) = 8
              /\ R[1].handler = "CreateOrder"
              /\ Takes(R, 1, m, t) <=> m = "POST" /\ Len(t) = 2 /\ t[1] = "v1" /\ t[2] = "orders"
              /\ R[2].handler = "CancelOrder"
              /\ Takes(R, 2, m, t) <=> m = "POST" /\ Len(t) = 4 /\ t[1] = "v1"
                                       /\ t[2] = "orders" /\ t[4] = "cancel"
              /\ R[3].handler = "StartTrip"
              /\ Takes(R, 3, m, t) <=> m = "POST" /\ Len(t) = 4 /\ t[1] = "v1"
                                       /\ t[2] = "orders" /\ t[4] = "start"
              /\ R[4].handler = "CompleteTrip"
              /\ Takes(R, 4, m, t) <=> m = "POST" /\ Len(t) = 4 /\ t[1] = "v1"
                                       /\ t[2] = "orders" /\ t[4] = "complete"
              /\ R[5].handler = "RateTrip"
              /\ Takes(R, 5, m, t) <=> m = "POST" /\ Len(t) = 4 /\ t[1] = "v1"
                                       /\ t[2] = "orders" /\ t[4] = "rate"
              /\ R[6].handler = "GetOrder"
              /\ Takes(R, 6, m, t) <=> m = "GET" /\ Len(t) = 3 /\ t[1] = "v1" /\ t[2] = "orders"
              /\ R[7].handler = "ListOrders"
              /\ Takes(R, 7, m, t) <=> m = "GET" /\ Len(t) = 2 /\ t[1] = "v1" /\ t[2] = "orders"
              /\ R[8].handler = "SearchOrders"
              /\ Takes(R, 8, m, t) <=> m = "GET" /\ Len(t) = 3 /\ t[1] = "v1"
                                       /\ t[2] = "orders" /\ t[3] = "search"
<1>1. RoutesOf("order_service") = OrderRoutes /\ Len(OrderRoutes) = 8
  BY DEF RoutesOf, OrderRoutes
<1>2. /\ OrderRoutes[1].handler = "CreateOrder"
      /\ Takes(OrderRoutes, 1, m, t) <=> m = "POST" /\ Len(t) = 2 /\ t[1] = "v1" /\ t[2] = "orders"
  <2>1. /\ OrderRoutes[1].method = "POST" /\ OrderRoutes[1].path = <<"v1", "orders">>
        /\ OrderRoutes[1].handler = "CreateOrder"
    BY DEF OrderRoutes, Route
  <2>2. Covers(<<"v1", "orders">>, t) <=> Len(t) = 2 /\ t[1] = "v1" /\ t[2] = "orders"
    BY CoversTwo DEF Id
  <2> QED BY <2>1, <2>2 DEF Takes
<1>3. /\ OrderRoutes[2].handler = "CancelOrder"
      /\ Takes(OrderRoutes, 2, m, t) <=> m = "POST" /\ Len(t) = 4 /\ t[1] = "v1"
                                         /\ t[2] = "orders" /\ t[4] = "cancel"
  <2>1. /\ OrderRoutes[2].method = "POST" /\ OrderRoutes[2].path = <<"v1", "orders", Id, "cancel">>
        /\ OrderRoutes[2].handler = "CancelOrder"
    BY DEF OrderRoutes, Route
  <2>2. Covers(<<"v1", "orders", Id, "cancel">>, t)
           <=> Len(t) = 4 /\ t[1] = "v1" /\ t[2] = "orders" /\ t[4] = "cancel"
    BY CoversFour DEF Id
  <2> QED BY <2>1, <2>2 DEF Takes
<1>4. /\ OrderRoutes[3].handler = "StartTrip"
      /\ Takes(OrderRoutes, 3, m, t) <=> m = "POST" /\ Len(t) = 4 /\ t[1] = "v1"
                                         /\ t[2] = "orders" /\ t[4] = "start"
  <2>1. /\ OrderRoutes[3].method = "POST" /\ OrderRoutes[3].path = <<"v1", "orders", Id, "start">>
        /\ OrderRoutes[3].handler = "StartTrip"
    BY DEF OrderRoutes, Route
  <2>2. Covers(<<"v1", "orders", Id, "start">>, t)
           <=> Len(t) = 4 /\ t[1] = "v1" /\ t[2] = "orders" /\ t[4] = "start"
    BY CoversFour DEF Id
  <2> QED BY <2>1, <2>2 DEF Takes
<1>5. /\ OrderRoutes[4].handler = "CompleteTrip"
      /\ Takes(OrderRoutes, 4, m, t) <=> m = "POST" /\ Len(t) = 4 /\ t[1] = "v1"
                                         /\ t[2] = "orders" /\ t[4] = "complete"
  <2>1. /\ OrderRoutes[4].method = "POST"
        /\ OrderRoutes[4].path = <<"v1", "orders", Id, "complete">>
        /\ OrderRoutes[4].handler = "CompleteTrip"
    BY DEF OrderRoutes, Route
  <2>2. Covers(<<"v1", "orders", Id, "complete">>, t)
           <=> Len(t) = 4 /\ t[1] = "v1" /\ t[2] = "orders" /\ t[4] = "complete"
    BY CoversFour DEF Id
  <2> QED BY <2>1, <2>2 DEF Takes
<1>6. /\ OrderRoutes[5].handler = "RateTrip"
      /\ Takes(OrderRoutes, 5, m, t) <=> m = "POST" /\ Len(t) = 4 /\ t[1] = "v1"
                                         /\ t[2] = "orders" /\ t[4] = "rate"
  <2>1. /\ OrderRoutes[5].method = "POST" /\ OrderRoutes[5].path = <<"v1", "orders", Id, "rate">>
        /\ OrderRoutes[5].handler = "RateTrip"
    BY DEF OrderRoutes, Route
  <2>2. Covers(<<"v1", "orders", Id, "rate">>, t)
           <=> Len(t) = 4 /\ t[1] = "v1" /\ t[2] = "orders" /\ t[4] = "rate"
    BY CoversFour DEF Id
  <2> QED BY <2>1, <2>2 DEF Takes
<1>7. /\ OrderRoutes[6].handler = "GetOrder"
      /\ Takes(OrderRoutes, 6, m, t) <=> m = "GET" /\ Len(t) = 3 /\ t[1] = "v1" /\ t[2] = "orders"
  <2>1. /\ OrderRoutes[6].method = "GET" /\ OrderRoutes[6].path = <<"v1", "orders", Id>>
        /\ OrderRoutes[6].handler = "GetOrder"
    BY DEF OrderRoutes, Route
  <2>2. Covers(<<"v1", "orders", Id>>, t) <=> Len(t) = 3 /\ t[1] = "v1" /\ t[2] = "orders"
    BY CoversThree DEF Id
  <2> QED BY <2>1, <2>2 DEF Takes
<1>8. /\ OrderRoutes[7].handler = "ListOrders"
      /\ Takes(OrderRoutes, 7, m, t) <=> m = "GET" /\ Len(t) = 2 /\ t[1] = "v1" /\ t[2] = "orders"
  <2>1. /\ OrderRoutes[7].method = "GET" /\ OrderRoutes[7].path = <<"v1", "orders">>
        /\ OrderRoutes[7].handler = "ListOrders"
    BY DEF OrderRoutes, Route
  <2>2. Covers(<<"v1", "orders">>, t) <=> Len(t) = 2 /\ t[1] = "v1" /\ t[2] = "orders"
    BY CoversTwo DEF Id
  <2> QED BY <2>1, <2>2 DEF Takes
<1>9. /\ OrderRoutes[8].handler = "SearchOrders"
      /\ Takes(OrderRoutes, 8, m, t) <=> m = "GET" /\ Len(t) = 3 /\ t[1] = "v1"
                                         /\ t[2] = "orders" /\ t[3] = "search"
  <2>1. /\ OrderRoutes[8].method = "GET" /\ OrderRoutes[8].path = <<"v1", "orders", "search">>
        /\ OrderRoutes[8].handler = "SearchOrders"
    BY DEF OrderRoutes, Route
  <2>2. Covers(<<"v1", "orders", "search">>, t)
           <=> Len(t) = 3 /\ t[1] = "v1" /\ t[2] = "orders" /\ t[3] = "search"
    BY CoversThree DEF Id
  <2> QED BY <2>1, <2>2 DEF Takes
<1> QED BY <1>1, <1>2, <1>3, <1>4, <1>5, <1>6, <1>7, <1>8, <1>9

LEMMA AnalyticTable ==
    ASSUME NEW m, NEW t
    PROVE  LET R == AnalyticRoutes
           IN /\ RoutesOf("analytic_service") = R /\ Len(R) = 3
              /\ R[1].handler = "GetOrderStats"
              /\ Takes(R, 1, m, t) <=> m = "GET" /\ Len(t) = 2 /\ t[1] = "orders" /\ t[2] = "stats"
              /\ R[2].handler = "GetDailyOrderCounts"
              /\ Takes(R, 2, m, t) <=> m = "GET" /\ Len(t) = 2 /\ t[1] = "orders" /\ t[2] = "daily"
              /\ R[3].handler = "GetDriverRatingStats"
              /\ Takes(R, 3, m, t) <=> m = "GET" /\ Len(t) = 3 /\ t[1] = "ratings"
                                       /\ t[2] = "drivers"
<1>1. RoutesOf("analytic_service") = AnalyticRoutes /\ Len(AnalyticRoutes) = 3
  BY DEF RoutesOf, AnalyticRoutes
<1>2. /\ AnalyticRoutes[1].handler = "GetOrderStats"
      /\ Takes(AnalyticRoutes, 1, m, t) <=> m = "GET" /\ Len(t) = 2 /\ t[1] = "orders"
                                            /\ t[2] = "stats"
  <2>1. /\ AnalyticRoutes[1].method = "GET" /\ AnalyticRoutes[1].path = <<"orders", "stats">>
        /\ AnalyticRoutes[1].handler = "GetOrderStats"
    BY DEF AnalyticRoutes, Route
  <2>2. Covers(<<"orders", "stats">>, t) <=> Len(t) = 2 /\ t[1] = "orders" /\ t[2] = "stats"
    BY CoversTwo DEF Id
  <2> QED BY <2>1, <2>2 DEF Takes
<1>3. /\ AnalyticRoutes[2].handler = "GetDailyOrderCounts"
      /\ Takes(AnalyticRoutes, 2, m, t) <=> m = "GET" /\ Len(t) = 2 /\ t[1] = "orders"
                                            /\ t[2] = "daily"
  <2>1. /\ AnalyticRoutes[2].method = "GET" /\ AnalyticRoutes[2].path = <<"orders", "daily">>
        /\ AnalyticRoutes[2].handler = "GetDailyOrderCounts"
    BY DEF AnalyticRoutes, Route
  <2>2. Covers(<<"orders", "daily">>, t) <=> Len(t) = 2 /\ t[1] = "orders" /\ t[2] = "daily"
    BY CoversTwo DEF Id
  <2> QED BY <2>1, <2>2 DEF Takes
<1>4. /\ AnalyticRoutes[3].handler = "GetDriverRatingStats"
      /\ Takes(AnalyticRoutes, 3, m, t) <=> m = "GET" /\ Len(t) = 3 /\ t[1] = "ratings"
                                            /\ t[2] = "drivers"
  <2>1. /\ AnalyticRoutes[3].method = "GET" /\ AnalyticRoutes[3].path = <<"ratings", "drivers", Id>>
        /\ AnalyticRoutes[3].handler = "GetDriverRatingStats"
    BY DEF AnalyticRoutes, Route
  <2>2. Covers(<<"ratings", "drivers", Id>>, t)
           <=> Len(t) = 3 /\ t[1] = "ratings" /\ t[2] = "drivers"
    BY CoversThree DEF Id
  <2> QED BY <2>1, <2>2 DEF Takes
<1> QED BY <1>1, <1>2, <1>3, <1>4


(* What each service answers a request with: the handler of the route it    *)
(* selects, if it selects one.                                              *)
LEMMA AuthServes ==
    ASSUME NEW m, NEW t
    PROVE  LET i == Selected("auth_service", m, t)
               h == RoutesOf("auth_service")[i].handler
           IN /\ i # 0 =>
                 \/ h = "Login" /\ m = "POST" /\ Len(t) = 1 /\ t[1] = "login"
                 \/ h = "Refresh" /\ m = "POST" /\ Len(t) = 1 /\ t[1] = "refresh"
                 \/ h = "Logout" /\ m = "POST" /\ Len(t) = 1 /\ t[1] = "logout"
                 \/ h = "Validate" /\ m = "GET" /\ Len(t) = 1 /\ t[1] = "validate"
              /\ i = 0 =>
                 /\ ~(m = "POST" /\ Len(t) = 1 /\ t[1] = "login")
                 /\ ~(m = "POST" /\ Len(t) = 1 /\ t[1] = "refresh")
                 /\ ~(m = "POST" /\ Len(t) = 1 /\ t[1] = "logout")
                 /\ ~(m = "GET" /\ Len(t) = 1 /\ t[1] = "validate")
<1> DEFINE i == Selected("auth_service", m, t)
           R == AuthRoutes
<1>1. /\ i \in 0..4 /\ RoutesOf("auth_service") = R
      /\ i = 0 => \A k \in 1..4 : ~Takes(R, k, m, t)
      /\ i # 0 => Takes(R, i, m, t)
  <2>1. "auth_service" \in Services
    BY DEF Services
  <2>2. RoutesOf("auth_service") = R /\ Len(R) = 4
    BY AuthTable
  <2> QED BY <2>1, <2>2, SelectedMatches
<1>0. CASE i = 0
  <2>1. ~Takes(R, 1, m, t)
    BY <1>0, <1>1
  <2>2. ~Takes(R, 2, m, t)
    BY <1>0, <1>1
  <2>3. ~Takes(R, 3, m, t)
    BY <1>0, <1>1
  <2>4. ~Takes(R, 4, m, t)
    BY <1>0, <1>1
  <2> QED BY <1>0, <2>1, <2>2, <2>3, <2>4, AuthTable
<1>2. CASE i = 1
  BY <1>2, <1>1, AuthTable
<1>3. CASE i = 2
  BY <1>3, <1>1, AuthTable
<1>4. CASE i = 3
  BY <1>4, <1>1, AuthTable
<1>5. CASE i = 4
  BY <1>5, <1>1, AuthTable
<1> QED BY <1>1, <1>0, <1>2, <1>3, <1>4, <1>5

LEMMA UserServes ==
    ASSUME NEW m, NEW t
    PROVE  LET i == Selected("user_service", m, t)
               h == RoutesOf("user_service")[i].handler
           IN /\ i # 0 =>
                 \/ h = "Register" /\ m = "POST" /\ Len(t) = 1 /\ t[1] = "register"
                 \/ h = "VerifyCredentials" /\ m = "POST" /\ Len(t) = 2 /\ t[1] = "internal"
                    /\ t[2] = "verify-credentials"
                 \/ h = "Profile" /\ m = "GET" /\ Len(t) = 1 /\ t[1] = "profile"
                 \/ h = "UpdateProfile" /\ m = "PATCH" /\ Len(t) = 1 /\ t[1] = "profile"
                 \/ h = "DeleteProfile" /\ m = "DELETE" /\ Len(t) = 1 /\ t[1] = "profile"
                 \/ h = "UpdatePassword" /\ m = "POST" /\ Len(t) = 2 /\ t[1] = "profile"
                    /\ t[2] = "password"
                 \/ h = "AssignRoleAnalytic" /\ m = "POST" /\ Len(t) = 4 /\ t[1] = "admin"
                    /\ t[2] = "users" /\ t[4] = "analyst-role"
              /\ i = 0 =>
                 /\ ~(m = "POST" /\ Len(t) = 1 /\ t[1] = "register")
                 /\ ~(m = "POST" /\ Len(t) = 2 /\ t[1] = "internal" /\ t[2] = "verify-credentials")
                 /\ ~(m = "GET" /\ Len(t) = 1 /\ t[1] = "profile")
                 /\ ~(m = "PATCH" /\ Len(t) = 1 /\ t[1] = "profile")
                 /\ ~(m = "DELETE" /\ Len(t) = 1 /\ t[1] = "profile")
                 /\ ~(m = "POST" /\ Len(t) = 2 /\ t[1] = "profile" /\ t[2] = "password")
                 /\ ~(m = "POST" /\ Len(t) = 4 /\ t[1] = "admin" /\ t[2] = "users"
                      /\ t[4] = "analyst-role")
<1> DEFINE i == Selected("user_service", m, t)
           R == UserRoutes
<1>1. /\ i \in 0..7 /\ RoutesOf("user_service") = R
      /\ i = 0 => \A k \in 1..7 : ~Takes(R, k, m, t)
      /\ i # 0 => Takes(R, i, m, t)
  <2>1. "user_service" \in Services
    BY DEF Services
  <2>2. RoutesOf("user_service") = R /\ Len(R) = 7
    BY UserTable
  <2> QED BY <2>1, <2>2, SelectedMatches
<1>0. CASE i = 0
  <2>1. ~Takes(R, 1, m, t)
    BY <1>0, <1>1
  <2>2. ~Takes(R, 2, m, t)
    BY <1>0, <1>1
  <2>3. ~Takes(R, 3, m, t)
    BY <1>0, <1>1
  <2>4. ~Takes(R, 4, m, t)
    BY <1>0, <1>1
  <2>5. ~Takes(R, 5, m, t)
    BY <1>0, <1>1
  <2>6. ~Takes(R, 6, m, t)
    BY <1>0, <1>1
  <2>7. ~Takes(R, 7, m, t)
    BY <1>0, <1>1
  <2> QED BY <1>0, <2>1, <2>2, <2>3, <2>4, <2>5, <2>6, <2>7, UserTable
<1>2. CASE i = 1
  BY <1>2, <1>1, UserTable
<1>3. CASE i = 2
  BY <1>3, <1>1, UserTable
<1>4. CASE i = 3
  BY <1>4, <1>1, UserTable
<1>5. CASE i = 4
  BY <1>5, <1>1, UserTable
<1>6. CASE i = 5
  BY <1>6, <1>1, UserTable
<1>7. CASE i = 6
  BY <1>7, <1>1, UserTable
<1>8. CASE i = 7
  BY <1>8, <1>1, UserTable
<1> QED BY <1>1, <1>0, <1>2, <1>3, <1>4, <1>5, <1>6, <1>7, <1>8

LEMMA DriverServes ==
    ASSUME NEW m, NEW t
    PROVE  LET i == Selected("driver_service", m, t)
               h == RoutesOf("driver_service")[i].handler
           IN /\ i # 0 =>
                 \/ h = "RegisterDriver" /\ m = "POST" /\ Len(t) = 2 /\ t[1] = "internal"
                    /\ t[2] = "drivers"
                 \/ h = "GetDrivers" /\ m = "GET" /\ Len(t) = 2 /\ t[1] = "internal"
                    /\ t[2] = "drivers"
                 \/ h = "ClaimDriver" /\ m = "POST" /\ Len(t) = 3 /\ t[1] = "internal"
                    /\ t[2] = "drivers" /\ t[3] = "claim"
                 \/ h = "UpdateStatusInternal" /\ m = "PATCH" /\ Len(t) = 4
                    /\ t[1] = "internal" /\ t[2] = "drivers" /\ t[4] = "status"
                 \/ h = "DriverProfile" /\ m = "GET" /\ Len(t) = 1 /\ t[1] = "profile"
                 \/ h = "UpdateType" /\ m = "PATCH" /\ Len(t) = 1 /\ t[1] = "profile"
                 \/ h = "UpdateStatus" /\ m = "PATCH" /\ Len(t) = 2 /\ t[1] = "profile"
                    /\ t[2] = "status"
              /\ i = 0 =>
                 /\ ~(m = "POST" /\ Len(t) = 2 /\ t[1] = "internal" /\ t[2] = "drivers")
                 /\ ~(m = "GET" /\ Len(t) = 2 /\ t[1] = "internal" /\ t[2] = "drivers")
                 /\ ~(m = "POST" /\ Len(t) = 3 /\ t[1] = "internal" /\ t[2] = "drivers"
                      /\ t[3] = "claim")
                 /\ ~(m = "PATCH" /\ Len(t) = 4 /\ t[1] = "internal" /\ t[2] = "drivers"
                      /\ t[4] = "status")
                 /\ ~(m = "GET" /\ Len(t) = 1 /\ t[1] = "profile")
                 /\ ~(m = "PATCH" /\ Len(t) = 1 /\ t[1] = "profile")
                 /\ ~(m = "PATCH" /\ Len(t) = 2 /\ t[1] = "profile" /\ t[2] = "status")
<1> DEFINE i == Selected("driver_service", m, t)
           R == DriverRoutes
<1>1. /\ i \in 0..7 /\ RoutesOf("driver_service") = R
      /\ i = 0 => \A k \in 1..7 : ~Takes(R, k, m, t)
      /\ i # 0 => Takes(R, i, m, t)
  <2>1. "driver_service" \in Services
    BY DEF Services
  <2>2. RoutesOf("driver_service") = R /\ Len(R) = 7
    BY DriverTable
  <2> QED BY <2>1, <2>2, SelectedMatches
<1>0. CASE i = 0
  <2>1. ~Takes(R, 1, m, t)
    BY <1>0, <1>1
  <2>2. ~Takes(R, 2, m, t)
    BY <1>0, <1>1
  <2>3. ~Takes(R, 3, m, t)
    BY <1>0, <1>1
  <2>4. ~Takes(R, 4, m, t)
    BY <1>0, <1>1
  <2>5. ~Takes(R, 5, m, t)
    BY <1>0, <1>1
  <2>6. ~Takes(R, 6, m, t)
    BY <1>0, <1>1
  <2>7. ~Takes(R, 7, m, t)
    BY <1>0, <1>1
  <2> QED BY <1>0, <2>1, <2>2, <2>3, <2>4, <2>5, <2>6, <2>7, DriverTable
<1>2. CASE i = 1
  BY <1>2, <1>1, DriverTable
<1>3. CASE i = 2
  BY <1>3, <1>1, DriverTable
<1>4. CASE i = 3
  BY <1>4, <1>1, DriverTable
<1>5. CASE i = 4
  BY <1>5, <1>1, DriverTable
<1>6. CASE i = 5
  BY <1>6, <1>1, DriverTable
<1>7. CASE i = 6
  BY <1>7, <1>1, DriverTable
<1>8. CASE i = 7
  BY <1>8, <1>1, DriverTable
<1> QED BY <1>1, <1>0, <1>2, <1>3, <1>4, <1>5, <1>6, <1>7, <1>8

LEMMA OrderServes ==
    ASSUME NEW m, NEW t
    PROVE  LET i == Selected("order_service", m, t)
               h == RoutesOf("order_service")[i].handler
           IN /\ i # 0 =>
                 \/ h = "CreateOrder" /\ m = "POST" /\ Len(t) = 2 /\ t[1] = "v1" /\ t[2] = "orders"
                 \/ h = "CancelOrder" /\ m = "POST" /\ Len(t) = 4 /\ t[1] = "v1"
                    /\ t[2] = "orders" /\ t[4] = "cancel"
                 \/ h = "StartTrip" /\ m = "POST" /\ Len(t) = 4 /\ t[1] = "v1"
                    /\ t[2] = "orders" /\ t[4] = "start"
                 \/ h = "CompleteTrip" /\ m = "POST" /\ Len(t) = 4 /\ t[1] = "v1"
                    /\ t[2] = "orders" /\ t[4] = "complete"
                 \/ h = "RateTrip" /\ m = "POST" /\ Len(t) = 4 /\ t[1] = "v1"
                    /\ t[2] = "orders" /\ t[4] = "rate"
                 \/ h = "GetOrder" /\ m = "GET" /\ Len(t) = 3 /\ t[1] = "v1"
                    /\ t[2] = "orders" /\ t[3] # "search"
                 \/ h = "ListOrders" /\ m = "GET" /\ Len(t) = 2 /\ t[1] = "v1" /\ t[2] = "orders"
                 \/ h = "SearchOrders" /\ m = "GET" /\ Len(t) = 3 /\ t[1] = "v1"
                    /\ t[2] = "orders" /\ t[3] = "search"
              /\ i = 0 =>
                 /\ ~(m = "POST" /\ Len(t) = 2 /\ t[1] = "v1" /\ t[2] = "orders")
                 /\ ~(m = "POST" /\ Len(t) = 4 /\ t[1] = "v1" /\ t[2] = "orders" /\ t[4] = "cancel")
                 /\ ~(m = "POST" /\ Len(t) = 4 /\ t[1] = "v1" /\ t[2] = "orders" /\ t[4] = "start")
                 /\ ~(m = "POST" /\ Len(t) = 4 /\ t[1] = "v1" /\ t[2] = "orders"
                      /\ t[4] = "complete")
                 /\ ~(m = "POST" /\ Len(t) = 4 /\ t[1] = "v1" /\ t[2] = "orders" /\ t[4] = "rate")
                 /\ ~(m = "GET" /\ Len(t) = 3 /\ t[1] = "v1" /\ t[2] = "orders")
                 /\ ~(m = "GET" /\ Len(t) = 2 /\ t[1] = "v1" /\ t[2] = "orders")
                 /\ ~(m = "GET" /\ Len(t) = 3 /\ t[1] = "v1" /\ t[2] = "orders" /\ t[3] = "search")
<1> DEFINE i == Selected("order_service", m, t)
           R == OrderRoutes
<1>1. /\ i \in 0..8 /\ RoutesOf("order_service") = R
      /\ i = 0 => \A k \in 1..8 : ~Takes(R, k, m, t)
      /\ i # 0 => Takes(R, i, m, t)
      /\ \A k \in 1..8 : Takes(R, k, m, t) => k <= i
  <2>1. "order_service" \in Services
    BY DEF Services
  <2>2. RoutesOf("order_service") = R /\ Len(R) = 8
    BY OrderTable
  <2> QED BY <2>1, <2>2, SelectedMatches
<1>0. CASE i = 0
  <2>1. ~Takes(R, 1, m, t)
    BY <1>0, <1>1
  <2>2. ~Takes(R, 2, m, t)
    BY <1>0, <1>1
  <2>3. ~Takes(R, 3, m, t)
    BY <1>0, <1>1
  <2>4. ~Takes(R, 4, m, t)
    BY <1>0, <1>1
  <2>5. ~Takes(R, 5, m, t)
    BY <1>0, <1>1
  <2>6. ~Takes(R, 6, m, t)
    BY <1>0, <1>1
  <2>7. ~Takes(R, 7, m, t)
    BY <1>0, <1>1
  <2>8. ~Takes(R, 8, m, t)
    BY <1>0, <1>1
  <2> QED BY <1>0, <2>1, <2>2, <2>3, <2>4, <2>5, <2>6, <2>7, <2>8, OrderTable
<1>2. CASE i = 1
  BY <1>2, <1>1, OrderTable
<1>3. CASE i = 2
  BY <1>3, <1>1, OrderTable
<1>4. CASE i = 3
  BY <1>4, <1>1, OrderTable
<1>5. CASE i = 4
  BY <1>5, <1>1, OrderTable
<1>6. CASE i = 5
  BY <1>6, <1>1, OrderTable
<1>7. CASE i = 6
  BY <1>7, <1>1, OrderTable
<1>8. CASE i = 7
  BY <1>8, <1>1, OrderTable
<1>9. CASE i = 8
  BY <1>9, <1>1, OrderTable
<1>10. i = 0 \/ i = 1 \/ i = 2 \/ i = 3 \/ i = 4 \/ i = 5 \/ i = 6 \/ i = 7 \/ i = 8
  BY <1>1
<1> QED BY <1>10, <1>0, <1>2, <1>3, <1>4, <1>5, <1>6, <1>7, <1>8, <1>9

LEMMA AnalyticServes ==
    ASSUME NEW m, NEW t
    PROVE  LET i == Selected("analytic_service", m, t)
               h == RoutesOf("analytic_service")[i].handler
           IN /\ i # 0 =>
                 \/ h = "GetOrderStats" /\ m = "GET" /\ Len(t) = 2 /\ t[1] = "orders"
                    /\ t[2] = "stats"
                 \/ h = "GetDailyOrderCounts" /\ m = "GET" /\ Len(t) = 2 /\ t[1] = "orders"
                    /\ t[2] = "daily"
                 \/ h = "GetDriverRatingStats" /\ m = "GET" /\ Len(t) = 3
                    /\ t[1] = "ratings" /\ t[2] = "drivers"
              /\ i = 0 =>
                 /\ ~(m = "GET" /\ Len(t) = 2 /\ t[1] = "orders" /\ t[2] = "stats")
                 /\ ~(m = "GET" /\ Len(t) = 2 /\ t[1] = "orders" /\ t[2] = "daily")
                 /\ ~(m = "GET" /\ Len(t) = 3 /\ t[1] = "ratings" /\ t[2] = "drivers")
<1> DEFINE i == Selected("analytic_service", m, t)
           R == AnalyticRoutes
<1>1. /\ i \in 0..3 /\ RoutesOf("analytic_service") = R
      /\ i = 0 => \A k \in 1..3 : ~Takes(R, k, m, t)
      /\ i # 0 => Takes(R, i, m, t)
  <2>1. "analytic_service" \in Services
    BY DEF Services
  <2>2. RoutesOf("analytic_service") = R /\ Len(R) = 3
    BY AnalyticTable
  <2> QED BY <2>1, <2>2, SelectedMatches
<1>0. CASE i = 0
  <2>1. ~Takes(R, 1, m, t)
    BY <1>0, <1>1
  <2>2. ~Takes(R, 2, m, t)
    BY <1>0, <1>1
  <2>3. ~Takes(R, 3, m, t)
    BY <1>0, <1>1
  <2> QED BY <1>0, <2>1, <2>2, <2>3, AnalyticTable
<1>2. CASE i = 1
  BY <1>2, <1>1, AnalyticTable
<1>3. CASE i = 2
  BY <1>3, <1>1, AnalyticTable
<1>4. CASE i = 3
  BY <1>4, <1>1, AnalyticTable
<1> QED BY <1>1, <1>0, <1>2, <1>3, <1>4



(* Which location nginx takes: by its order of kinds no path has two. *)
LEMMA LocateTable ==
    ASSUME NEW p \in Seq(STRING)
    PROVE  LET n == Locate(p) IN
           /\ n = 1 <=> Two(p, "auth", "login")
           /\ n = 2 <=> Two(p, "auth", "refresh")
           /\ n = 3 <=> Two(p, "auth", "logout")
           /\ n = 4 <=> Two(p, "users", "register")
           /\ n = 5 <=> Profile(p, "users")
           /\ n = 6 <=> Len(p) > 2 /\ p[1] = "users" /\ p[2] = "admin"
           /\ n = 7 <=> Profile(p, "drivers")
           /\ n = 8 <=> One(p, "orders")
           /\ n = 9 <=> Len(p) = 3 /\ p[1] = "orders" /\ p[3] = "cancel"
           /\ n = 10 <=> Len(p) = 3 /\ p[1] = "orders" /\ p[3] = "start"
           /\ n = 11 <=> Len(p) = 3 /\ p[1] = "orders" /\ p[3] = "complete"
           /\ n = 12 <=> Len(p) = 3 /\ p[1] = "orders" /\ p[3] = "rate"
           /\ n = 13 <=> Two(p, "orders", "search")
           /\ n = 14 <=> Len(p) = 2 /\ p[1] = "orders" /\ p[2] # "search"
           /\ n = 15 <=> UnderOne(p, "analytics")
           /\ n \in 0..15
<1> DEFINE n == Locate(p)
           M(k) == Matches(Locations[k], p)
<1>1. n \in 0..15 /\ Len(p) \in Nat
  BY LocateMatches, LocationTable
<1>2. n # 0 => M(n)
  BY LocateMatches
<1>3. n = 14 => ~M(13)
  BY LocateMatches, LocationTable
<1>4. ASSUME n = 0, NEW k \in 1..15 PROVE ~M(k)
  <2>1. Locations[k].kind \in {"exact", "segments", "regexUnder", "prefix", "under"}
    BY LocationTable
  <2> QED BY SMTT(30), <1>4, <2>1, LocateMatches, LocationTable
<1> HIDE DEF n
<1> USE MatchTable DEF One, Two, Profile, UnderOne
<1>5. n = 1 => Two(p, "auth", "login")
  BY <1>2
<1>6. n = 2 => Two(p, "auth", "refresh")
  BY <1>2
<1>7. n = 3 => Two(p, "auth", "logout")
  BY <1>2
<1>8. n = 4 => Two(p, "users", "register")
  BY <1>2
<1>9. n = 5 => Profile(p, "users")
  BY <1>2
<1>10. n = 6 => Len(p) > 2 /\ p[1] = "users" /\ p[2] = "admin"
  BY <1>2
<1>11. n = 7 => Profile(p, "drivers")
  BY <1>2
<1>12. n = 8 => One(p, "orders")
  BY <1>2
<1>13. n = 9 => Len(p) = 3 /\ p[1] = "orders" /\ p[3] = "cancel"
  BY <1>2
<1>14. n = 10 => Len(p) = 3 /\ p[1] = "orders" /\ p[3] = "start"
  BY <1>2
<1>15. n = 11 => Len(p) = 3 /\ p[1] = "orders" /\ p[3] = "complete"
  BY <1>2
<1>16. n = 12 => Len(p) = 3 /\ p[1] = "orders" /\ p[3] = "rate"
  BY <1>2
<1>17. n = 13 => Two(p, "orders", "search")
  BY <1>2
<1>18. n = 14 => Len(p) = 2 /\ p[1] = "orders" /\ p[2] # "search"
  BY <1>2, <1>3
<1>19. n = 15 => UnderOne(p, "analytics")
  BY <1>2
<1>20. Two(p, "auth", "login") => n # 0
  <2>1. Two(p, "auth", "login") => M(1)
    OBVIOUS
  <2>2. n = 0 => ~M(1)
    BY <1>4
  <2> HIDE DEF M
  <2> QED BY <2>1, <2>2
<1>21. Two(p, "auth", "refresh") => n # 0
  <2>1. Two(p, "auth", "refresh") => M(2)
    OBVIOUS
  <2>2. n = 0 => ~M(2)
    BY <1>4
  <2> HIDE DEF M
  <2> QED BY <2>1, <2>2
<1>22. Two(p, "auth", "logout") => n # 0
  <2>1. Two(p, "auth", "logout") => M(3)
    OBVIOUS
  <2>2. n = 0 => ~M(3)
    BY <1>4
  <2> HIDE DEF M
  <2> QED BY <2>1, <2>2
<1>23. Two(p, "users", "register") => n # 0
  <2>1. Two(p, "users", "register") => M(4)
    OBVIOUS
  <2>2. n = 0 => ~M(4)
    BY <1>4
  <2> HIDE DEF M
  <2> QED BY <2>1, <2>2
<1>24. Profile(p, "users") => n # 0
  <2>1. Profile(p, "users") => M(5)
    OBVIOUS
  <2>2. n = 0 => ~M(5)
    BY <1>4
  <2> HIDE DEF M
  <2> QED BY <2>1, <2>2
<1>25. Len(p) > 2 /\ p[1] = "users" /\ p[2] = "admin" => n # 0
  <2>1. Len(p) > 2 /\ p[1] = "users" /\ p[2] = "admin" => M(6)
    OBVIOUS
  <2>2. n = 0 => ~M(6)
    BY <1>4
  <2> HIDE DEF M
  <2> QED BY <2>1, <2>2
<1>26. Profile(p, "drivers") => n # 0
  <2>1. Profile(p, "drivers") => M(7)
    OBVIOUS
  <2>2. n = 0 => ~M(7)
    BY <1>4
  <2> HIDE DEF M
  <2> QED BY <2>1, <2>2
<1>27. One(p, "orders") => n # 0
  <2>1. One(p, "orders") => M(8)
    OBVIOUS
  <2>2. n = 0 => ~M(8)
    BY <1>4
  <2> HIDE DEF M
  <2> QED BY <2>1, <2>2
<1>28. Len(p) = 3 /\ p[1] = "orders" /\ p[3] = "cancel" => n # 0
  <2>1. Len(p) = 3 /\ p[1] = "orders" /\ p[3] = "cancel" => M(9)
    OBVIOUS
  <2>2. n = 0 => ~M(9)
    BY <1>4
  <2> HIDE DEF M
  <2> QED BY <2>1, <2>2
<1>29. Len(p) = 3 /\ p[1] = "orders" /\ p[3] = "start" => n # 0
  <2>1. Len(p) = 3 /\ p[1] = "orders" /\ p[3] = "start" => M(10)
    OBVIOUS
  <2>2. n = 0 => ~M(10)
    BY <1>4
  <2> HIDE DEF M
  <2> QED BY <2>1, <2>2
<1>30. Len(p) = 3 /\ p[1] = "orders" /\ p[3] = "complete" => n # 0
  <2>1. Len(p) = 3 /\ p[1] = "orders" /\ p[3] = "complete" => M(11)
    OBVIOUS
  <2>2. n = 0 => ~M(11)
    BY <1>4
  <2> HIDE DEF M
  <2> QED BY <2>1, <2>2
<1>31. Len(p) = 3 /\ p[1] = "orders" /\ p[3] = "rate" => n # 0
  <2>1. Len(p) = 3 /\ p[1] = "orders" /\ p[3] = "rate" => M(12)
    OBVIOUS
  <2>2. n = 0 => ~M(12)
    BY <1>4
  <2> HIDE DEF M
  <2> QED BY <2>1, <2>2
<1>32. Two(p, "orders", "search") => n # 0
  <2>1. Two(p, "orders", "search") => M(13)
    OBVIOUS
  <2>2. n = 0 => ~M(13)
    BY <1>4
  <2> HIDE DEF M
  <2> QED BY <2>1, <2>2
<1>33. Len(p) = 2 /\ p[1] = "orders" /\ p[2] # "search" => n # 0
  <2>1. Len(p) = 2 /\ p[1] = "orders" /\ p[2] # "search" => M(14)
    OBVIOUS
  <2>2. n = 0 => ~M(14)
    BY <1>4
  <2> HIDE DEF M
  <2> QED BY <2>1, <2>2
<1>34. UnderOne(p, "analytics") => n # 0
  <2>1. UnderOne(p, "analytics") => M(15)
    OBVIOUS
  <2>2. n = 0 => ~M(15)
    BY <1>4
  <2> HIDE DEF M
  <2> QED BY <2>1, <2>2
<1> HIDE MatchTable
<1>35. Two(p, "auth", "login") => n = 1
  BY <1>1, <1>20, <1>5, <1>6, <1>7, <1>8, <1>9, <1>10, <1>11, <1>12, <1>13, <1>14, <1>15, <1>16,
     <1>17, <1>18, <1>19
<1>36. Two(p, "auth", "refresh") => n = 2
  BY <1>1, <1>21, <1>5, <1>6, <1>7, <1>8, <1>9, <1>10, <1>11, <1>12, <1>13, <1>14, <1>15, <1>16,
     <1>17, <1>18, <1>19
<1>37. Two(p, "auth", "logout") => n = 3
  BY <1>1, <1>22, <1>5, <1>6, <1>7, <1>8, <1>9, <1>10, <1>11, <1>12, <1>13, <1>14, <1>15, <1>16,
     <1>17, <1>18, <1>19
<1>38. Two(p, "users", "register") => n = 4
  BY <1>1, <1>23, <1>5, <1>6, <1>7, <1>8, <1>9, <1>10, <1>11, <1>12, <1>13, <1>14, <1>15, <1>16,
     <1>17, <1>18, <1>19
<1>39. Profile(p, "users") => n = 5
  BY <1>1, <1>24, <1>5, <1>6, <1>7, <1>8, <1>9, <1>10, <1>11, <1>12, <1>13, <1>14, <1>15, <1>16,
     <1>17, <1>18, <1>19
<1>40. Len(p) > 2 /\ p[1] = "users" /\ p[2] = "admin" => n = 6
  BY <1>1, <1>25, <1>5, <1>6, <1>7, <1>8, <1>9, <1>10, <1>11, <1>12, <1>13, <1>14, <1>15, <1>16,
     <1>17, <1>18, <1>19
<1>41. Profile(p, "drivers") => n = 7
  BY <1>1, <1>26, <1>5, <1>6, <1>7, <1>8, <1>9, <1>10, <1>11, <1>12, <1>13, <1>14, <1>15, <1>16,
     <1>17, <1>18, <1>19
<1>42. One(p, "orders") => n = 8
  BY <1>1, <1>27, <1>5, <1>6, <1>7, <1>8, <1>9, <1>10, <1>11, <1>12, <1>13, <1>14, <1>15, <1>16,
     <1>17, <1>18, <1>19
<1>43. Len(p) = 3 /\ p[1] = "orders" /\ p[3] = "cancel" => n = 9
  BY <1>1, <1>28, <1>5, <1>6, <1>7, <1>8, <1>9, <1>10, <1>11, <1>12, <1>13, <1>14, <1>15, <1>16,
     <1>17, <1>18, <1>19
<1>44. Len(p) = 3 /\ p[1] = "orders" /\ p[3] = "start" => n = 10
  BY <1>1, <1>29, <1>5, <1>6, <1>7, <1>8, <1>9, <1>10, <1>11, <1>12, <1>13, <1>14, <1>15, <1>16,
     <1>17, <1>18, <1>19
<1>45. Len(p) = 3 /\ p[1] = "orders" /\ p[3] = "complete" => n = 11
  BY <1>1, <1>30, <1>5, <1>6, <1>7, <1>8, <1>9, <1>10, <1>11, <1>12, <1>13, <1>14, <1>15, <1>16,
     <1>17, <1>18, <1>19
<1>46. Len(p) = 3 /\ p[1] = "orders" /\ p[3] = "rate" => n = 12
  BY <1>1, <1>31, <1>5, <1>6, <1>7, <1>8, <1>9, <1>10, <1>11, <1>12, <1>13, <1>14, <1>15, <1>16,
     <1>17, <1>18, <1>19
<1>47. Two(p, "orders", "search") => n = 13
  BY <1>1, <1>32, <1>5, <1>6, <1>7, <1>8, <1>9, <1>10, <1>11, <1>12, <1>13, <1>14, <1>15, <1>16,
     <1>17, <1>18, <1>19
<1>48. Len(p) = 2 /\ p[1] = "orders" /\ p[2] # "search" => n = 14
  BY <1>1, <1>33, <1>5, <1>6, <1>7, <1>8, <1>9, <1>10, <1>11, <1>12, <1>13, <1>14, <1>15, <1>16,
     <1>17, <1>18, <1>19
<1>49. UnderOne(p, "analytics") => n = 15
  BY <1>1, <1>34, <1>5, <1>6, <1>7, <1>8, <1>9, <1>10, <1>11, <1>12, <1>13, <1>14, <1>15, <1>16,
     <1>17, <1>18, <1>19
<1> HIDE DEF One, Two, Profile, UnderOne
<1> QED BY SMTT(30),
           <1>1, <1>5, <1>6, <1>7, <1>8, <1>9, <1>10, <1>11, <1>12, <1>13, <1>14, <1>15, <1>16,
           <1>17, <1>18, <1>19, <1>35, <1>36, <1>37, <1>38, <1>39, <1>40, <1>41, <1>42, <1>43,
           <1>44, <1>45, <1>46, <1>47, <1>48, <1>49 DEF n


-----------------------------------------------------------------------------
(* The state of a client's request: where nginx has sent it, that it is     *)
(* past auth_request only as the location asks, and who answers.            *)

Gate == Locations[location].gate
Selection == Selected(service, method, target)

Routed ==
    /\ at = "gateway" => location = 0 /\ ~checked
    /\ at # "gateway" =>
        /\ location = Locate(path)
        /\ location # 0 => /\ service = Locations[location].service
                           /\ target = Rewritten(Locations[location], path)
    /\ at \in {"auth", "service", "rpc"} => location # 0
    /\ at = "rpc" => /\ service = "order_service" /\ Selection # 0
                     /\ rpc = RoutesOf(service)[Selection].handler

Cleared ==
    /\ checked => location # 0 /\ Gate # "none" /\ (Gate # "any" => Gate \in roles)
    /\ at = "auth" => Gate # "none"
    /\ at \in {"service", "rpc"} => Gate = "none" \/ checked

Answered ==
    /\ at # "done" => answer = "none"
    /\ at = "done" =>
        \/ answer \in {"401", "403", "500", "502"}
        \/ answer = "404" /\ (location # 0 => Selection = 0)
        \/ /\ location # 0 /\ Selection # 0 /\ (Gate = "none" \/ checked)
           /\ answer = RoutesOf(service)[Selection].handler

RequestInv ==
    from = "client" => /\ path \in Paths
                       /\ at \in {"gateway", "auth", "service", "rpc", "done"}
                       /\ Routed /\ Cleared /\ Answered

LEMMA OrderHandlers ==
    ASSUME NEW m, NEW t, Selected("order_service", m, t) # 0
    PROVE  /\ RoutesOf("order_service")[Selected("order_service", m, t)].handler \in RPCs
           /\ RoutesOf("order_service") = OrderRoutes
BY OrderServes, OrderTable DEF RPCs

LEMMA InitRequest == RequestInit => RequestInv
<1> SUFFICES ASSUME RequestInit, from = "client" PROVE RequestInv
  BY DEF RequestInv
<1>1. FromClient
  BY DEF RequestInit, FromService, Calls, Call
<1> QED BY <1>1 DEF RequestInit, FromClient, RequestInv, Routed, Cleared, Answered

LEMMA NextRequest == RequestInv /\ [RequestNext]_requestVars => RequestInv'
<1> SUFFICES ASSUME RequestInv, [RequestNext]_requestVars, from' = "client" PROVE RequestInv'
  BY DEF RequestInv
<1>0. from = "client" /\ UNCHANGED request
  BY DEF RequestNext, requestVars, request, Pass, Validate, Serve, Forward, Intercept, Fail, Elapse
<1>1. /\ path \in Paths /\ at \in {"gateway", "auth", "service", "rpc", "done"}
      /\ Routed /\ Cleared /\ Answered
  BY <1>0 DEF RequestInv
<1> USE DEF RequestInv, Routed, Cleared, Answered, Gate, Selection, Done, request
<1>2. CASE Pass
  BY <1>0, <1>1, <1>2 DEF Pass
<1>3. CASE Validate
  BY <1>0, <1>1, <1>3 DEF Validate
<1>4. CASE Serve
  BY <1>0, <1>1, <1>4 DEF Serve
<1>5. CASE Forward
  <2>1. RoutesOf("order_service") = OrderRoutes
    BY DEF RoutesOf
  <2> QED BY <1>0, <1>1, <1>5, <2>1 DEF Forward
<1>6. CASE Intercept
  <2>1. at = "rpc" => rpc \in RPCs
    BY <1>1, OrderHandlers
  <2> QED BY <1>0, <1>1, <1>6, <2>1 DEF Intercept
<1>7. CASE Fail
  BY <1>0, <1>1, <1>7 DEF Fail
<1>8. CASE Elapse
  BY <1>0, <1>1, <1>8 DEF Elapse
<1>9. CASE UNCHANGED requestVars
  BY <1>0, <1>1, <1>9 DEF requestVars
<1> QED BY <1>2, <1>3, <1>4, <1>5, <1>6, <1>7, <1>8, <1>9 DEF RequestNext

(* A client's request is where the location nginx chose, its auth_request  *)
(* and the router of the service have sent it, and only there: the handler *)
(* that answered is the one they select, behind the check they ask for.    *)
THEOREM RequestInvariant == RequestSpec => []RequestInv
BY InitRequest, NextRequest, PTL DEF RequestSpec

-----------------------------------------------------------------------------
(* What clients are answered *)

(* Where a request gets by each location, in handlers. *)
Beyond(n) ==
    CASE n \in 1..4 -> Open
      [] n = 5 -> {"Profile", "UpdateProfile", "DeleteProfile", "UpdatePassword"}
      [] n = 6 -> {"AssignRoleAnalytic"}
      [] n = 7 -> {"DriverProfile", "UpdateType", "UpdateStatus"}
      [] n = 13 -> {"SearchOrders"}
      [] n \in 8..14 \ {13} -> RPCs \ {"SearchOrders"}
      [] n = 15 -> {"GetOrderStats", "GetDailyOrderCounts", "GetDriverRatingStats"}

LEMMA TargetOf ==
    ASSUME NEW p \in Seq(STRING), NEW n, n = Locate(p), n # 0
    PROVE  LET t == Rewritten(Locations[n], p)
           IN /\ n \in (1..7) \cup {15} => /\ Len(p) \in Nat /\ Len(t) = Len(p) - 1
                                           /\ Len(p) >= 2 => t[1] = p[2]
                                           /\ Len(p) >= 3 => t[2] = p[3]
                                           /\ Len(p) >= 4 => t[3] = p[4]
                                           /\ Len(p) >= 5 => t[4] = p[5]
              /\ n \in 8..14 => /\ Len(p) \in Nat /\ Len(t) = Len(p) + 1 /\ t[1] = "v1"
                                /\ Len(p) >= 1 => t[2] = p[1]
                                /\ Len(p) >= 2 => t[3] = p[2]
                                /\ Len(p) >= 3 => t[4] = p[3]
<1>1. Len(p) \in Nat
  OBVIOUS
<1>2. n \in (1..7) \cup {15} => Len(p) >= 1
  BY <1>1, LocateTable DEF Two, Profile, UnderOne
<1>3. /\ n \in (1..7) \cup {15} => Rewritten(Locations[n], p) = Tail(p)
      /\ n \in 8..14 => Rewritten(Locations[n], p) = <<"v1">> \o p
  BY LocationTable DEF Rewritten
<1>4. ASSUME n \in (1..7) \cup {15}
      PROVE  /\ Len(Tail(p)) = Len(p) - 1
             /\ \A i \in {1, 2, 3, 4} : Len(p) >= i + 1 => Tail(p)[i] = p[i + 1]
  BY <1>1, <1>2, <1>4, TailOf
<1>5. /\ Len(<<"v1">> \o p) = Len(p) + 1 /\ (<<"v1">> \o p)[1] = "v1"
      /\ \A i \in {1, 2, 3} : Len(p) >= i => (<<"v1">> \o p)[i + 1] = p[i]
  BY <1>1, VersionedOf
<1>6. ASSUME n \in (1..7) \cup {15}
      PROVE  LET t == Rewritten(Locations[n], p)
             IN /\ Len(t) = Len(p) - 1
                /\ Len(p) >= 2 => t[1] = p[2]
                /\ Len(p) >= 3 => t[2] = p[3]
                /\ Len(p) >= 4 => t[3] = p[4]
                /\ Len(p) >= 5 => t[4] = p[5]
  <2> DEFINE t == Tail(p)
  <2>1. Rewritten(Locations[n], p) = t
    BY <1>3, <1>6
  <2>2. /\ Len(t) = Len(p) - 1
        /\ \A i \in {1, 2, 3, 4} : Len(p) >= i + 1 => t[i] = p[i + 1]
    BY <1>4, <1>6
  <2> HIDE DEF t
  <2> QED BY <2>1, <2>2
<1>7. ASSUME n \in 8..14
      PROVE  LET t == Rewritten(Locations[n], p)
             IN /\ Len(t) = Len(p) + 1 /\ t[1] = "v1"
                /\ Len(p) >= 1 => t[2] = p[1]
                /\ Len(p) >= 2 => t[3] = p[2]
                /\ Len(p) >= 3 => t[4] = p[3]
  <2> DEFINE t == <<"v1">> \o p
  <2>1. Rewritten(Locations[n], p) = t
    BY <1>3, <1>7
  <2>2. /\ Len(t) = Len(p) + 1 /\ t[1] = "v1"
        /\ \A i \in {1, 2, 3} : Len(p) >= i => t[i + 1] = p[i]
    BY <1>5
  <2> HIDE DEF t
  <2> QED BY <2>1, <2>2
<1> QED BY <1>1, <1>6, <1>7

LEMMA HandlersBeyond ==
    ASSUME NEW p \in Seq(STRING), NEW m, NEW n, n = Locate(p), n # 0,
           NEW s, s = Locations[n].service, NEW i, i = Selected(s, m, Rewritten(Locations[n], p)),
           i # 0
    PROVE  RoutesOf(s)[i].handler \in Beyond(n)
<1> DEFINE t == Rewritten(Locations[n], p)
           h == RoutesOf(s)[i].handler
<1>1. n \in 1..15
  BY LocateTable
<1>2. /\ n \in (1..7) \cup {15} => /\ Len(p) \in Nat /\ Len(t) = Len(p) - 1
                                   /\ Len(p) >= 2 => t[1] = p[2]
                                   /\ Len(p) >= 3 => t[2] = p[3]
                                   /\ Len(p) >= 4 => t[3] = p[4]
                                   /\ Len(p) >= 5 => t[4] = p[5]
      /\ n \in 8..14 => /\ Len(p) \in Nat /\ Len(t) = Len(p) + 1 /\ t[1] = "v1"
                        /\ Len(p) >= 1 => t[2] = p[1]
                        /\ Len(p) >= 2 => t[3] = p[2]
                        /\ Len(p) >= 3 => t[4] = p[3]
  BY TargetOf
<1> HIDE DEF t
<1>3. CASE n \in 1..3
  <2>1. Len(t) = 1 /\ t[1] \in {"login", "refresh", "logout"}
    <3>1. Len(p) = 2 /\ p[2] \in {"login", "refresh", "logout"}
      BY <1>3, LocateTable DEF Two
    <3> QED BY <1>2, <1>3, <3>1
  <2>2. s = "auth_service"
    BY <1>3, LocationTable
  <2>3. h \in Open
    BY <2>1, <2>2, AuthServes DEF t, Open
  <2> QED BY <1>3, <2>3 DEF Beyond
<1>4. CASE n = 4
  <2>1. Len(t) = 1 /\ t[1] = "register"
    <3>1. Len(p) = 2 /\ p[2] = "register"
      BY <1>4, LocateTable DEF Two
    <3> QED BY <1>2, <1>4, <3>1
  <2>2. s = "user_service"
    BY <1>4, LocationTable
  <2>3. h \in Open
    BY <2>1, <2>2, UserServes DEF t, Open
  <2> QED BY <1>4, <2>3 DEF Beyond
<1>5. CASE n = 5
  <2>1. t[1] = "profile"
    <3>1. Len(p) >= 2 /\ p[2] = "profile"
      BY <1>5, LocateTable DEF Profile
    <3> QED BY <1>2, <1>5, <3>1
  <2>2. s = "user_service"
    BY <1>5, LocationTable
  <2>3. h \in {"Profile", "UpdateProfile", "DeleteProfile", "UpdatePassword"}
    BY <2>1, <2>2, UserServes DEF t
  <2> QED BY <1>5, <2>3 DEF Beyond
<1>6. CASE n = 6
  <2>1. t[1] = "admin"
    <3>1. Len(p) > 2 /\ p[2] = "admin"
      BY <1>6, LocateTable
    <3> QED BY <1>2, <1>6, <3>1
  <2>2. s = "user_service"
    BY <1>6, LocationTable
  <2>3. h = "AssignRoleAnalytic"
    BY <2>1, <2>2, UserServes DEF t
  <2> QED BY <1>6, <2>3 DEF Beyond
<1>7. CASE n = 7
  <2>1. t[1] = "profile"
    <3>1. Len(p) >= 2 /\ p[2] = "profile"
      BY <1>7, LocateTable DEF Profile
    <3> QED BY <1>2, <1>7, <3>1
  <2>2. s = "driver_service"
    BY <1>7, LocationTable
  <2>3. h \in {"DriverProfile", "UpdateType", "UpdateStatus"}
    BY <2>1, <2>2, DriverServes DEF t
  <2> QED BY <1>7, <2>3 DEF Beyond
<1>8. CASE n = 13
  <2>1. Len(t) = 3 /\ t[3] = "search"
    <3>1. Len(p) = 2 /\ p[2] = "search"
      BY <1>8, LocateTable DEF Two
    <3> QED BY <1>2, <1>8, <3>1
  <2>2. s = "order_service"
    BY <1>8, LocationTable
  <2>3. h = "SearchOrders"
    BY <2>1, <2>2, OrderServes DEF t
  <2> QED BY <1>8, <2>3 DEF Beyond
<1>9. CASE n \in 8..14 \ {13}
  <2>1. ~(Len(t) = 3 /\ t[3] = "search")
    <3>1. CASE n = 8
      <4>1. Len(p) = 1
        BY <3>1, LocateTable DEF One
      <4> QED BY <1>2, <1>9, <4>1
    <3>2. CASE n = 9 \/ n = 10 \/ n = 11 \/ n = 12
      <4>1. Len(p) = 3
        BY <3>2, LocateTable
      <4> QED BY <1>2, <3>2, <4>1
    <3>3. CASE n = 14
      <4>1. Len(p) = 2 /\ p[2] # "search"
        BY ZenonT(60), <3>3, LocateTable
      <4> QED BY <1>2, <1>9, <4>1
    <3> QED BY <1>9, <3>1, <3>2, <3>3
  <2>2. s = "order_service"
    BY <1>9, LocationTable
  <2>3. h \in RPCs \ {"SearchOrders"}
    BY <2>1, <2>2, OrderServes DEF t, RPCs
  <2> QED BY <1>9, <2>3 DEF Beyond
<1>10. CASE n = 15
  <2>1. s = "analytic_service"
    BY <1>10, LocationTable
  <2>2. h \in {"GetOrderStats", "GetDailyOrderCounts", "GetDriverRatingStats"}
    BY <2>1, AnalyticServes DEF t
  <2> QED BY <1>10, <2>2 DEF Beyond
<1> QED BY <1>1, <1>3, <1>4, <1>5, <1>6, <1>7, <1>8, <1>9, <1>10

Refusals == {"none", "401", "403", "404", "500", "502"}

LEMMA RoutesAreNamed ==
    ASSUME NEW s \in Services, NEW r \in Range(RoutesOf(s))
    PROVE  /\ r.handler \notin Refusals
           /\ r.path[1] \in {"internal", "validate"}
                 => r.handler \notin UNION {Beyond(n) : n \in 1..15}
<1> DEFINE Fine(q) == /\ q.handler \notin Refusals
                      /\ q.path[1] \in {"internal", "validate"} =>
                            q.handler \notin UNION {Beyond(n) : n \in 1..15}
<1>0. ASSUME NEW n \in 1..15
      PROVE  Beyond(n) \subseteq RPCs \cup Analysts \cup Open \cup
                  {"Profile", "UpdateProfile", "DeleteProfile", "UpdatePassword",
                   "AssignRoleAnalytic", "DriverProfile", "UpdateType", "UpdateStatus"}
  BY DEF Beyond, Analysts, RPCs
<1>1. \A k \in DOMAIN AuthRoutes : Fine(AuthRoutes[k])
  BY <1>0 DEF AuthRoutes, Route, Refusals, RPCs, Analysts, Open
<1>2. \A k \in DOMAIN UserRoutes : Fine(UserRoutes[k])
  BY <1>0 DEF UserRoutes, Route, Refusals, RPCs, Analysts, Open
<1>3. \A k \in DOMAIN DriverRoutes : Fine(DriverRoutes[k])
  BY <1>0 DEF DriverRoutes, Route, Refusals, RPCs, Analysts, Open
<1>4. \A k \in DOMAIN WalletRoutes : Fine(WalletRoutes[k])
  BY <1>0 DEF WalletRoutes, Route, Refusals, RPCs, Analysts, Open
<1>5. \A k \in DOMAIN OrderRoutes : Fine(OrderRoutes[k])
  BY <1>0 DEF OrderRoutes, Route, Refusals, RPCs, Analysts, Open
<1>6. \A k \in DOMAIN AnalyticRoutes : Fine(AnalyticRoutes[k])
  BY <1>0 DEF AnalyticRoutes, Route, Refusals, RPCs, Analysts, Open
<1> HIDE DEF Fine
<1> QED BY <1>1, <1>2, <1>3, <1>4, <1>5, <1>6 DEF Fine, Services, RoutesOf, Range

LEMMA AnswersBeyond ==
    ASSUME RequestInv, GatewayAssumption, from = "client", answer \notin Refusals
    PROVE  /\ location \in 1..15 /\ answer \in Beyond(location)
           /\ Gate = "none" \/ checked
           /\ checked => Gate # "none" /\ (Gate # "any" => Gate \in roles)
<1>1. /\ path \in Seq(STRING) /\ at = "done" /\ Routed /\ Cleared
      /\ location # 0 /\ Selection # 0 /\ (Gate = "none" \/ checked)
      /\ answer = RoutesOf(service)[Selection].handler
  BY GatewayAssumption DEF RequestInv, Answered, Refusals
<1>2. /\ location = Locate(path) /\ service = Locations[location].service
      /\ target = Rewritten(Locations[location], path)
  BY <1>1 DEF Routed
<1>3. location \in 1..15
  BY <1>1, <1>2, LocateTable
<1>4. answer \in Beyond(location)
  BY <1>1, <1>2, HandlersBeyond DEF Selection
<1> QED BY <1>1, <1>3, <1>4 DEF Cleared

(* A client is answered by a handler of analytic_service or by SearchOrders *)
(* only with the role of an analyst, by AssignRoleAnalytic only with that   *)
(* of an admin, and by any handler behind a login only with a session that  *)
(* auth_service has found: whatever path the client sends, nginx.conf's     *)
(* locations and the routes of the services leave no way around the         *)
(* auth_request that asks for it.                                           *)
THEOREM AccessCorrect == RequestSpec => []AnsweredWereAllowed
<1>1. RequestInv => AnsweredWereAllowed
  <2> SUFFICES ASSUME RequestInv, from = "client", answer \in Handlers(LAMBDA r : TRUE)
               PROVE  /\ answer \in Analysts => checked /\ "analyst" \in roles
                      /\ answer = "AssignRoleAnalytic" => checked /\ "admin" \in roles
                      /\ answer \notin Open => checked
    BY DEF AnsweredWereAllowed
  <2>1. answer \notin Refusals
    BY RoutesAreNamed DEF Handlers
  <2>2. /\ location \in 1..15 /\ answer \in Beyond(location)
        /\ Gate = "none" \/ checked
        /\ checked => Gate # "none" /\ (Gate # "any" => Gate \in roles)
    BY <2>1, AnswersBeyond, GatewayAssumption
  <2>3. answer \in Analysts => location \in {13, 15}
    BY <2>2 DEF Beyond, Analysts, Open, RPCs
  <2>4. answer = "AssignRoleAnalytic" => location = 6
    BY <2>2 DEF Beyond, Open, RPCs
  <2>5. answer \notin Open => location \notin 1..4
    BY <2>2 DEF Beyond
  <2>6. Gate = "none" => location \in 1..4
    BY <2>2, LocationTable DEF Gate
  <2>7. /\ location \in {13, 15} => Gate = "analyst"
        /\ location = 6 => Gate = "admin"
    BY LocationTable DEF Gate
  <2> QED BY <2>2, <2>3, <2>4, <2>5, <2>6, <2>7
<1> QED BY <1>1, RequestInvariant, PTL

(* No handler that a service registers under /internal, and not that of     *)
(* /validate, answers a client: no location of nginx.conf takes a path, and *)
(* no rewrite makes one, that the router of a service gives to them.        *)
THEOREM InternalCorrect == RequestSpec => []InternalStaysInside
<1>1. RequestInv => InternalStaysInside
  <2> SUFFICES ASSUME RequestInv, from = "client",
                      answer \in Handlers(LAMBDA r : r.path[1] \in {"internal", "validate"})
               PROVE  FALSE
    BY DEF InternalStaysInside
  <2>1. PICK s \in Services : \E r \in Range(RoutesOf(s)) :
            answer = r.handler /\ r.path[1] \in {"internal", "validate"}
    BY DEF Handlers
  <2>0. PICK r \in Range(RoutesOf(s)) :
            answer = r.handler /\ r.path[1] \in {"internal", "validate"}
    BY <2>1
  <2>2. answer \notin Refusals /\ answer \notin UNION {Beyond(n) : n \in 1..15}
    BY <2>0, RoutesAreNamed
  <2> QED BY <2>2, AnswersBeyond, GatewayAssumption
<1> QED BY <1>1, RequestInvariant, PTL

(* A request the tables have a handler for is not lost on its way to it. *)
LEMMA ServedAt ==
    ASSUME RequestInv, from = "client", NEW n, n # 0, Locate(path) = n,
           NEW s, Locations[n].service = s,
           NEW i, i = Selected(s, method, Rewritten(Locations[n], path)), i # 0,
           NEW h, RoutesOf(s)[i].handler = h
    PROVE  answer \in {h, "none", "401", "403", "500", "502"}
BY DEF RequestInv, Routed, Answered, Selection

LEMMA PathIsPair ==
    ASSUME NEW p \in Seq(STRING), NEW a, NEW b, Len(p) = 2, p[1] = a, p[2] = b
    PROVE  p = <<a, b>>
OBVIOUS

LEMMA EndpointsServed ==
    ASSUME RequestInv, GatewayAssumption, from = "client"
    PROVE
        /\ Endpoint("POST", <<"auth", "login">>, "Login")
        /\ Endpoint("POST", <<"auth", "refresh">>, "Refresh")
        /\ Endpoint("POST", <<"auth", "logout">>, "Logout")
        /\ Endpoint("POST", <<"users", "register">>, "Register")
        /\ Endpoint("GET", <<"users", "profile">>, "Profile")
        /\ Endpoint("PATCH", <<"users", "profile">>, "UpdateProfile")
        /\ Endpoint("DELETE", <<"users", "profile">>, "DeleteProfile")
        /\ Endpoint("POST", <<"users", "profile", "password">>, "UpdatePassword")
        /\ Endpoint("POST", <<"users", "admin", "users", Id, "analyst-role">>, "AssignRoleAnalytic")
        /\ Endpoint("GET", <<"drivers", "profile">>, "DriverProfile")
        /\ Endpoint("PATCH", <<"drivers", "profile">>, "UpdateType")
        /\ Endpoint("PATCH", <<"drivers", "profile", "status">>, "UpdateStatus")
        /\ Endpoint("POST", <<"orders">>, "CreateOrder")
        /\ Endpoint("GET", <<"orders">>, "ListOrders")
        /\ path # <<"orders", "search">> => Endpoint("GET", <<"orders", Id>>, "GetOrder")
        /\ Endpoint("GET", <<"orders", "search">>, "SearchOrders")
        /\ Endpoint("POST", <<"orders", Id, "cancel">>, "CancelOrder")
        /\ Endpoint("POST", <<"orders", Id, "start">>, "StartTrip")
        /\ Endpoint("POST", <<"orders", Id, "complete">>, "CompleteTrip")
        /\ Endpoint("POST", <<"orders", Id, "rate">>, "RateTrip")
        /\ Endpoint("GET", <<"analytics", "orders", "stats">>, "GetOrderStats")
        /\ Endpoint("GET", <<"analytics", "orders", "daily">>, "GetDailyOrderCounts")
        /\ Endpoint("GET", <<"analytics", "ratings", "drivers", Id>>, "GetDriverRatingStats")
<1>1. path \in Seq(STRING)
  BY GatewayAssumption DEF RequestInv
<1> DEFINE n == Locate(path)
           t == Rewritten(Locations[n], path)
<1>2. n # 0 =>
        /\ n \in (1..7) \cup {15} => /\ Len(path) \in Nat /\ Len(t) = Len(path) - 1
                                     /\ Len(path) >= 2 => t[1] = path[2]
                                     /\ Len(path) >= 3 => t[2] = path[3]
                                     /\ Len(path) >= 4 => t[3] = path[4]
                                     /\ Len(path) >= 5 => t[4] = path[5]
        /\ n \in 8..14 => /\ Len(path) \in Nat /\ Len(t) = Len(path) + 1 /\ t[1] = "v1"
                          /\ Len(path) >= 1 => t[2] = path[1]
                          /\ Len(path) >= 2 => t[3] = path[2]
                          /\ Len(path) >= 3 => t[4] = path[3]
  BY <1>1, TargetOf
<1> HIDE DEF n, t
<1>3. Endpoint("POST", <<"auth", "login">>, "Login")
  <2> SUFFICES ASSUME method = "POST", Covers(<<"auth", "login">>, path)
               PROVE  answer \in {"Login", "none", "401", "403", "500", "502"}
    BY DEF Endpoint
  <2>1. Len(path) = 2 /\ path[1] = "auth" /\ path[2] = "login"
    BY CoversTwo DEF Id
  <2>2. n = 1
    BY <1>1, <2>1, LocateTable DEF n, Two
  <2>3. Len(t) = 1 /\ t[1] = "login"
    BY <1>2, <2>1, <2>2
  <2>4. Locations[n].service = "auth_service"
    BY <2>2, LocationTable
  <2>5. LET i == Selected("auth_service", method, t)
        IN i # 0 /\ RoutesOf("auth_service")[i].handler = "Login"
    BY <2>1, <2>3, AuthServes
  <2> QED BY <2>2, <2>4, <2>5, ServedAt DEF n, t
<1>4. Endpoint("POST", <<"auth", "refresh">>, "Refresh")
  <2> SUFFICES ASSUME method = "POST", Covers(<<"auth", "refresh">>, path)
               PROVE  answer \in {"Refresh", "none", "401", "403", "500", "502"}
    BY DEF Endpoint
  <2>1. Len(path) = 2 /\ path[1] = "auth" /\ path[2] = "refresh"
    BY CoversTwo DEF Id
  <2>2. n = 2
    BY <1>1, <2>1, LocateTable DEF n, Two
  <2>3. Len(t) = 1 /\ t[1] = "refresh"
    BY <1>2, <2>1, <2>2
  <2>4. Locations[n].service = "auth_service"
    BY <2>2, LocationTable
  <2>5. LET i == Selected("auth_service", method, t)
        IN i # 0 /\ RoutesOf("auth_service")[i].handler = "Refresh"
    BY <2>1, <2>3, AuthServes
  <2> QED BY <2>2, <2>4, <2>5, ServedAt DEF n, t
<1>5. Endpoint("POST", <<"auth", "logout">>, "Logout")
  <2> SUFFICES ASSUME method = "POST", Covers(<<"auth", "logout">>, path)
               PROVE  answer \in {"Logout", "none", "401", "403", "500", "502"}
    BY DEF Endpoint
  <2>1. Len(path) = 2 /\ path[1] = "auth" /\ path[2] = "logout"
    BY CoversTwo DEF Id
  <2>2. n = 3
    BY <1>1, <2>1, LocateTable DEF n, Two
  <2>3. Len(t) = 1 /\ t[1] = "logout"
    BY <1>2, <2>1, <2>2
  <2>4. Locations[n].service = "auth_service"
    BY <2>2, LocationTable
  <2>5. LET i == Selected("auth_service", method, t)
        IN i # 0 /\ RoutesOf("auth_service")[i].handler = "Logout"
    BY <2>1, <2>3, AuthServes
  <2> QED BY <2>2, <2>4, <2>5, ServedAt DEF n, t
<1>6. Endpoint("POST", <<"users", "register">>, "Register")
  <2> SUFFICES ASSUME method = "POST", Covers(<<"users", "register">>, path)
               PROVE  answer \in {"Register", "none", "401", "403", "500", "502"}
    BY DEF Endpoint
  <2>1. Len(path) = 2 /\ path[1] = "users" /\ path[2] = "register"
    BY CoversTwo DEF Id
  <2>2. n = 4
    BY <1>1, <2>1, LocateTable DEF n, Two
  <2>3. Len(t) = 1 /\ t[1] = "register"
    BY <1>2, <2>1, <2>2
  <2>4. Locations[n].service = "user_service"
    BY <2>2, LocationTable
  <2>5. LET i == Selected("user_service", method, t)
        IN i # 0 /\ RoutesOf("user_service")[i].handler = "Register"
    BY <2>1, <2>3, UserServes
  <2> QED BY <2>2, <2>4, <2>5, ServedAt DEF n, t
<1>7. Endpoint("GET", <<"users", "profile">>, "Profile")
  <2> SUFFICES ASSUME method = "GET", Covers(<<"users", "profile">>, path)
               PROVE  answer \in {"Profile", "none", "401", "403", "500", "502"}
    BY DEF Endpoint
  <2>1. Len(path) = 2 /\ path[1] = "users" /\ path[2] = "profile"
    BY CoversTwo DEF Id
  <2>2. n = 5
    BY SMTT(30), <1>1, <2>1, LocateTable DEF n, Profile
  <2>3. Len(t) = 1 /\ t[1] = "profile"
    BY <1>2, <2>1, <2>2
  <2>4. Locations[n].service = "user_service"
    BY <2>2, LocationTable
  <2>5. LET i == Selected("user_service", method, t)
        IN i # 0 /\ RoutesOf("user_service")[i].handler = "Profile"
    BY <2>1, <2>3, UserServes
  <2> QED BY <2>2, <2>4, <2>5, ServedAt DEF n, t
<1>8. Endpoint("PATCH", <<"users", "profile">>, "UpdateProfile")
  <2> SUFFICES ASSUME method = "PATCH", Covers(<<"users", "profile">>, path)
               PROVE  answer \in {"UpdateProfile", "none", "401", "403", "500", "502"}
    BY DEF Endpoint
  <2>1. Len(path) = 2 /\ path[1] = "users" /\ path[2] = "profile"
    BY CoversTwo DEF Id
  <2>2. n = 5
    BY SMTT(30), <1>1, <2>1, LocateTable DEF n, Profile
  <2>3. Len(t) = 1 /\ t[1] = "profile"
    BY <1>2, <2>1, <2>2
  <2>4. Locations[n].service = "user_service"
    BY <2>2, LocationTable
  <2>5. LET i == Selected("user_service", method, t)
        IN i # 0 /\ RoutesOf("user_service")[i].handler = "UpdateProfile"
    BY <2>1, <2>3, UserServes
  <2> QED BY <2>2, <2>4, <2>5, ServedAt DEF n, t
<1>9. Endpoint("DELETE", <<"users", "profile">>, "DeleteProfile")
  <2> SUFFICES ASSUME method = "DELETE", Covers(<<"users", "profile">>, path)
               PROVE  answer \in {"DeleteProfile", "none", "401", "403", "500", "502"}
    BY DEF Endpoint
  <2>1. Len(path) = 2 /\ path[1] = "users" /\ path[2] = "profile"
    BY CoversTwo DEF Id
  <2>2. n = 5
    BY SMTT(30), <1>1, <2>1, LocateTable DEF n, Profile
  <2>3. Len(t) = 1 /\ t[1] = "profile"
    BY <1>2, <2>1, <2>2
  <2>4. Locations[n].service = "user_service"
    BY <2>2, LocationTable
  <2>5. LET i == Selected("user_service", method, t)
        IN i # 0 /\ RoutesOf("user_service")[i].handler = "DeleteProfile"
    BY <2>1, <2>3, UserServes
  <2> QED BY <2>2, <2>4, <2>5, ServedAt DEF n, t
<1>10. Endpoint("POST", <<"users", "profile", "password">>, "UpdatePassword")
  <2> SUFFICES ASSUME method = "POST", Covers(<<"users", "profile", "password">>, path)
               PROVE  answer \in {"UpdatePassword", "none", "401", "403", "500", "502"}
    BY DEF Endpoint
  <2>1. Len(path) = 3 /\ path[1] = "users" /\ path[2] = "profile" /\ path[3] = "password"
    BY CoversThree DEF Id
  <2>2. n = 5
    BY <1>1, <2>1, LocateTable DEF n, Profile
  <2>3. Len(t) = 2 /\ t[1] = "profile" /\ t[2] = "password"
    BY <1>2, <2>1, <2>2
  <2>4. Locations[n].service = "user_service"
    BY <2>2, LocationTable
  <2>5. LET i == Selected("user_service", method, t)
        IN i # 0 /\ RoutesOf("user_service")[i].handler = "UpdatePassword"
    BY <2>1, <2>3, UserServes
  <2> QED BY <2>2, <2>4, <2>5, ServedAt DEF n, t
<1>11. Endpoint("POST", <<"users", "admin", "users", Id, "analyst-role">>, "AssignRoleAnalytic")
  <2> SUFFICES ASSUME method = "POST",
                      Covers(<<"users", "admin", "users", Id, "analyst-role">>, path)
               PROVE  answer \in {"AssignRoleAnalytic", "none", "401", "403", "500", "502"}
    BY DEF Endpoint
  <2>1. Len(path) = 5 /\ path[1] = "users" /\ path[2] = "admin" /\ path[3] = "users"
           /\ path[5] = "analyst-role"
    BY CoversFive DEF Id
  <2>2. n = 6
    <3>1. Len(path) > 2 /\ path[1] = "users" /\ path[2] = "admin"
      BY <2>1
    <3>2. Len(path) > 2 /\ path[1] = "users" /\ path[2] = "admin" <=> n = 6
      BY <1>1, LocateTable DEF n
    <3> QED BY <3>1, <3>2
  <2>3. Len(t) = 4 /\ t[1] = "admin" /\ t[2] = "users" /\ t[4] = "analyst-role"
    BY <1>2, <2>1, <2>2
  <2>4. Locations[n].service = "user_service"
    BY <2>2, LocationTable
  <2>5. LET i == Selected("user_service", method, t)
        IN i # 0 /\ RoutesOf("user_service")[i].handler = "AssignRoleAnalytic"
    BY <2>1, <2>3, UserServes
  <2> QED BY <2>2, <2>4, <2>5, ServedAt DEF n, t
<1>12. Endpoint("GET", <<"drivers", "profile">>, "DriverProfile")
  <2> SUFFICES ASSUME method = "GET", Covers(<<"drivers", "profile">>, path)
               PROVE  answer \in {"DriverProfile", "none", "401", "403", "500", "502"}
    BY DEF Endpoint
  <2>1. Len(path) = 2 /\ path[1] = "drivers" /\ path[2] = "profile"
    BY CoversTwo DEF Id
  <2>2. n = 7
    BY SMTT(30), <1>1, <2>1, LocateTable DEF n, Profile
  <2>3. Len(t) = 1 /\ t[1] = "profile"
    BY <1>2, <2>1, <2>2
  <2>4. Locations[n].service = "driver_service"
    BY <2>2, LocationTable
  <2>5. LET i == Selected("driver_service", method, t)
        IN i # 0 /\ RoutesOf("driver_service")[i].handler = "DriverProfile"
    BY <2>1, <2>3, DriverServes
  <2> QED BY <2>2, <2>4, <2>5, ServedAt DEF n, t
<1>13. Endpoint("PATCH", <<"drivers", "profile">>, "UpdateType")
  <2> SUFFICES ASSUME method = "PATCH", Covers(<<"drivers", "profile">>, path)
               PROVE  answer \in {"UpdateType", "none", "401", "403", "500", "502"}
    BY DEF Endpoint
  <2>1. Len(path) = 2 /\ path[1] = "drivers" /\ path[2] = "profile"
    BY CoversTwo DEF Id
  <2>2. n = 7
    BY SMTT(30), <1>1, <2>1, LocateTable DEF n, Profile
  <2>3. Len(t) = 1 /\ t[1] = "profile"
    BY <1>2, <2>1, <2>2
  <2>4. Locations[n].service = "driver_service"
    BY <2>2, LocationTable
  <2>5. LET i == Selected("driver_service", method, t)
        IN i # 0 /\ RoutesOf("driver_service")[i].handler = "UpdateType"
    BY <2>1, <2>3, DriverServes
  <2> QED BY <2>2, <2>4, <2>5, ServedAt DEF n, t
<1>14. Endpoint("PATCH", <<"drivers", "profile", "status">>, "UpdateStatus")
  <2> SUFFICES ASSUME method = "PATCH", Covers(<<"drivers", "profile", "status">>, path)
               PROVE  answer \in {"UpdateStatus", "none", "401", "403", "500", "502"}
    BY DEF Endpoint
  <2>1. Len(path) = 3 /\ path[1] = "drivers" /\ path[2] = "profile" /\ path[3] = "status"
    BY CoversThree DEF Id
  <2>2. n = 7
    BY SMTT(30), <1>1, <2>1, LocateTable DEF n, Profile
  <2>3. Len(t) = 2 /\ t[1] = "profile" /\ t[2] = "status"
    BY <1>2, <2>1, <2>2
  <2>4. Locations[n].service = "driver_service"
    BY <2>2, LocationTable
  <2>5. LET i == Selected("driver_service", method, t)
        IN i # 0 /\ RoutesOf("driver_service")[i].handler = "UpdateStatus"
    BY <2>1, <2>3, DriverServes
  <2> QED BY <2>2, <2>4, <2>5, ServedAt DEF n, t
<1>15. Endpoint("POST", <<"orders">>, "CreateOrder")
  <2> SUFFICES ASSUME method = "POST", Covers(<<"orders">>, path)
               PROVE  answer \in {"CreateOrder", "none", "401", "403", "500", "502"}
    BY DEF Endpoint
  <2>1. Len(path) = 1 /\ path[1] = "orders"
    BY CoversOne DEF Id
  <2>2. n = 8
    BY <1>1, <2>1, LocateTable DEF n, One
  <2>3. Len(t) = 2 /\ t[1] = "v1" /\ t[2] = "orders"
    BY <1>2, <2>1, <2>2
  <2>4. Locations[n].service = "order_service"
    BY <2>2, LocationTable
  <2>5. LET i == Selected("order_service", method, t)
        IN i # 0 /\ RoutesOf("order_service")[i].handler = "CreateOrder"
    BY <2>1, <2>3, OrderServes
  <2> QED BY <2>2, <2>4, <2>5, ServedAt DEF n, t
<1>16. Endpoint("GET", <<"orders">>, "ListOrders")
  <2> SUFFICES ASSUME method = "GET", Covers(<<"orders">>, path)
               PROVE  answer \in {"ListOrders", "none", "401", "403", "500", "502"}
    BY DEF Endpoint
  <2>1. Len(path) = 1 /\ path[1] = "orders"
    BY CoversOne DEF Id
  <2>2. n = 8
    BY <1>1, <2>1, LocateTable DEF n, One
  <2>3. Len(t) = 2 /\ t[1] = "v1" /\ t[2] = "orders"
    BY <1>2, <2>1, <2>2
  <2>4. Locations[n].service = "order_service"
    BY <2>2, LocationTable
  <2>5. LET i == Selected("order_service", method, t)
        IN i # 0 /\ RoutesOf("order_service")[i].handler = "ListOrders"
    BY <2>1, <2>3, OrderServes
  <2> QED BY <2>2, <2>4, <2>5, ServedAt DEF n, t
<1>17. path # <<"orders", "search">> => Endpoint("GET", <<"orders", Id>>, "GetOrder")
  <2> SUFFICES ASSUME method = "GET", Covers(<<"orders", Id>>, path), path # <<"orders", "search">>
               PROVE  answer \in {"GetOrder", "none", "401", "403", "500", "502"}
    BY DEF Endpoint
  <2>1. Len(path) = 2 /\ path[1] = "orders"
    BY CoversTwo DEF Id
  <2>2. n = 14 /\ path[2] # "search"
    <3>1. path[2] # "search"
      BY <1>1, <2>1, PathIsPair
    <3> QED BY <1>1, <2>1, <3>1, LocateTable DEF n
  <2>3. Len(t) = 3 /\ t[1] = "v1" /\ t[2] = "orders" /\ t[3] # "search"
    BY <1>2, <2>1, <2>2
  <2>4. Locations[n].service = "order_service"
    BY <2>2, LocationTable
  <2>5. LET i == Selected("order_service", method, t)
        IN i # 0 /\ RoutesOf("order_service")[i].handler = "GetOrder"
    BY <2>1, <2>3, OrderServes
  <2> QED BY <2>2, <2>4, <2>5, ServedAt DEF n, t
<1>18. Endpoint("GET", <<"orders", "search">>, "SearchOrders")
  <2> SUFFICES ASSUME method = "GET", Covers(<<"orders", "search">>, path)
               PROVE  answer \in {"SearchOrders", "none", "401", "403", "500", "502"}
    BY DEF Endpoint
  <2>1. Len(path) = 2 /\ path[1] = "orders" /\ path[2] = "search"
    BY CoversTwo DEF Id
  <2>2. n = 13
    BY <1>1, <2>1, LocateTable DEF n, Two
  <2>3. Len(t) = 3 /\ t[1] = "v1" /\ t[2] = "orders" /\ t[3] = "search"
    BY <1>2, <2>1, <2>2
  <2>4. Locations[n].service = "order_service"
    BY <2>2, LocationTable
  <2>5. LET i == Selected("order_service", method, t)
        IN i # 0 /\ RoutesOf("order_service")[i].handler = "SearchOrders"
    BY <2>1, <2>3, OrderServes
  <2> QED BY <2>2, <2>4, <2>5, ServedAt DEF n, t
<1>19. Endpoint("POST", <<"orders", Id, "cancel">>, "CancelOrder")
  <2> SUFFICES ASSUME method = "POST", Covers(<<"orders", Id, "cancel">>, path)
               PROVE  answer \in {"CancelOrder", "none", "401", "403", "500", "502"}
    BY DEF Endpoint
  <2>1. Len(path) = 3 /\ path[1] = "orders" /\ path[3] = "cancel"
    BY CoversThree DEF Id
  <2>2. n = 9
    BY <1>1, <2>1, LocateTable DEF n
  <2>3. Len(t) = 4 /\ t[1] = "v1" /\ t[2] = "orders" /\ t[4] = "cancel"
    BY <1>2, <2>1, <2>2
  <2>4. Locations[n].service = "order_service"
    BY <2>2, LocationTable
  <2>5. LET i == Selected("order_service", method, t)
        IN i # 0 /\ RoutesOf("order_service")[i].handler = "CancelOrder"
    BY <2>1, <2>3, OrderServes
  <2> QED BY <2>2, <2>4, <2>5, ServedAt DEF n, t
<1>20. Endpoint("POST", <<"orders", Id, "start">>, "StartTrip")
  <2> SUFFICES ASSUME method = "POST", Covers(<<"orders", Id, "start">>, path)
               PROVE  answer \in {"StartTrip", "none", "401", "403", "500", "502"}
    BY DEF Endpoint
  <2>1. Len(path) = 3 /\ path[1] = "orders" /\ path[3] = "start"
    BY CoversThree DEF Id
  <2>2. n = 10
    BY <1>1, <2>1, LocateTable DEF n
  <2>3. Len(t) = 4 /\ t[1] = "v1" /\ t[2] = "orders" /\ t[4] = "start"
    BY <1>2, <2>1, <2>2
  <2>4. Locations[n].service = "order_service"
    BY <2>2, LocationTable
  <2>5. LET i == Selected("order_service", method, t)
        IN i # 0 /\ RoutesOf("order_service")[i].handler = "StartTrip"
    BY <2>1, <2>3, OrderServes
  <2> QED BY <2>2, <2>4, <2>5, ServedAt DEF n, t
<1>21. Endpoint("POST", <<"orders", Id, "complete">>, "CompleteTrip")
  <2> SUFFICES ASSUME method = "POST", Covers(<<"orders", Id, "complete">>, path)
               PROVE  answer \in {"CompleteTrip", "none", "401", "403", "500", "502"}
    BY DEF Endpoint
  <2>1. Len(path) = 3 /\ path[1] = "orders" /\ path[3] = "complete"
    BY CoversThree DEF Id
  <2>2. n = 11
    BY <1>1, <2>1, LocateTable DEF n
  <2>3. Len(t) = 4 /\ t[1] = "v1" /\ t[2] = "orders" /\ t[4] = "complete"
    BY <1>2, <2>1, <2>2
  <2>4. Locations[n].service = "order_service"
    BY <2>2, LocationTable
  <2>5. LET i == Selected("order_service", method, t)
        IN i # 0 /\ RoutesOf("order_service")[i].handler = "CompleteTrip"
    BY <2>1, <2>3, OrderServes
  <2> QED BY <2>2, <2>4, <2>5, ServedAt DEF n, t
<1>22. Endpoint("POST", <<"orders", Id, "rate">>, "RateTrip")
  <2> SUFFICES ASSUME method = "POST", Covers(<<"orders", Id, "rate">>, path)
               PROVE  answer \in {"RateTrip", "none", "401", "403", "500", "502"}
    BY DEF Endpoint
  <2>1. Len(path) = 3 /\ path[1] = "orders" /\ path[3] = "rate"
    BY CoversThree DEF Id
  <2>2. n = 12
    BY <1>1, <2>1, LocateTable DEF n
  <2>3. Len(t) = 4 /\ t[1] = "v1" /\ t[2] = "orders" /\ t[4] = "rate"
    BY <1>2, <2>1, <2>2
  <2>4. Locations[n].service = "order_service"
    BY <2>2, LocationTable
  <2>5. LET i == Selected("order_service", method, t)
        IN i # 0 /\ RoutesOf("order_service")[i].handler = "RateTrip"
    BY <2>1, <2>3, OrderServes
  <2> QED BY <2>2, <2>4, <2>5, ServedAt DEF n, t
<1>23. Endpoint("GET", <<"analytics", "orders", "stats">>, "GetOrderStats")
  <2> SUFFICES ASSUME method = "GET", Covers(<<"analytics", "orders", "stats">>, path)
               PROVE  answer \in {"GetOrderStats", "none", "401", "403", "500", "502"}
    BY DEF Endpoint
  <2>1. Len(path) = 3 /\ path[1] = "analytics" /\ path[2] = "orders" /\ path[3] = "stats"
    BY CoversThree DEF Id
  <2>2. n = 15
    BY <1>1, <2>1, LocateTable DEF n, UnderOne
  <2>3. Len(t) = 2 /\ t[1] = "orders" /\ t[2] = "stats"
    BY <1>2, <2>1, <2>2
  <2>4. Locations[n].service = "analytic_service"
    BY <2>2, LocationTable
  <2>5. LET i == Selected("analytic_service", method, t)
        IN i # 0 /\ RoutesOf("analytic_service")[i].handler = "GetOrderStats"
    BY <2>1, <2>3, AnalyticServes
  <2> QED BY <2>2, <2>4, <2>5, ServedAt DEF n, t
<1>24. Endpoint("GET", <<"analytics", "orders", "daily">>, "GetDailyOrderCounts")
  <2> SUFFICES ASSUME method = "GET", Covers(<<"analytics", "orders", "daily">>, path)
               PROVE  answer \in {"GetDailyOrderCounts", "none", "401", "403", "500", "502"}
    BY DEF Endpoint
  <2>1. Len(path) = 3 /\ path[1] = "analytics" /\ path[2] = "orders" /\ path[3] = "daily"
    BY CoversThree DEF Id
  <2>2. n = 15
    BY <1>1, <2>1, LocateTable DEF n, UnderOne
  <2>3. Len(t) = 2 /\ t[1] = "orders" /\ t[2] = "daily"
    BY <1>2, <2>1, <2>2
  <2>4. Locations[n].service = "analytic_service"
    BY <2>2, LocationTable
  <2>5. LET i == Selected("analytic_service", method, t)
        IN i # 0 /\ RoutesOf("analytic_service")[i].handler = "GetDailyOrderCounts"
    BY <2>1, <2>3, AnalyticServes
  <2> QED BY <2>2, <2>4, <2>5, ServedAt DEF n, t
<1>25. Endpoint("GET", <<"analytics", "ratings", "drivers", Id>>, "GetDriverRatingStats")
  <2> SUFFICES ASSUME method = "GET", Covers(<<"analytics", "ratings", "drivers", Id>>, path)
               PROVE  answer \in {"GetDriverRatingStats", "none", "401", "403", "500", "502"}
    BY DEF Endpoint
  <2>1. Len(path) = 4 /\ path[1] = "analytics" /\ path[2] = "ratings" /\ path[3] = "drivers"
    BY CoversFour DEF Id
  <2>2. n = 15
    BY <1>1, <2>1, LocateTable DEF n, UnderOne
  <2>3. Len(t) = 3 /\ t[1] = "ratings" /\ t[2] = "drivers"
    BY <1>2, <2>1, <2>2
  <2>4. Locations[n].service = "analytic_service"
    BY <2>2, LocationTable
  <2>5. LET i == Selected("analytic_service", method, t)
        IN i # 0 /\ RoutesOf("analytic_service")[i].handler = "GetDriverRatingStats"
    BY <2>1, <2>3, AnalyticServes
  <2> QED BY <2>2, <2>4, <2>5, ServedAt DEF n, t
<1> QED BY <1>3, <1>4, <1>5, <1>6, <1>7, <1>8, <1>9, <1>10, <1>11, <1>12, <1>13, <1>14, <1>15,
           <1>16, <1>17, <1>18, <1>19, <1>20, <1>21, <1>22, <1>23, <1>24, <1>25

(* Whatever is sent to a public endpoint is answered by the handler of     *)
(* that endpoint or refused, never lost in the rewriting nor taken by the  *)
(* pattern of another; and what reads the query string is behind locations *)
(* of nginx.conf that pass it on.                                          *)
THEOREM EndpointsCorrect == RequestSpec => []EndpointsAreServed
<1>1. RequestInv => EndpointsAreServed
  <2> SUFFICES ASSUME RequestInv, from = "client" PROVE EndpointsAreServed
    BY DEF EndpointsAreServed
  <2>1. answer \in Queried => Locations[location].args
    <3> SUFFICES ASSUME answer \in Queried PROVE Locations[location].args
      OBVIOUS
    <3>1. answer \notin Refusals /\ answer \notin Open
      BY DEF Queried, Refusals, Open
    <3>2. location \in 1..15 /\ answer \in Beyond(location)
      BY <3>1, AnswersBeyond, GatewayAssumption
    <3>3. location \in 5..15
      BY <3>1, <3>2 DEF Beyond
    <3> QED BY <3>3, LocationTable
  <2>2. \A e \in {<<"cancel", "CancelOrder">>, <<"start", "StartTrip">>,
                  <<"complete", "CompleteTrip">>, <<"rate", "RateTrip">>} :
           Endpoint("POST", <<"orders", Id, e[1]>>, e[2])
    BY EndpointsServed, GatewayAssumption
  <2> QED BY <2>1, <2>2, EndpointsServed, GatewayAssumption DEF EndpointsAreServed
<1> QED BY <1>1, RequestInvariant, PTL

-----------------------------------------------------------------------------
(* What is read *)

LEMMA MineIsFinite ==
    ASSUME TypeOK, RowsAgree
    PROVE  /\ Mine \subseteq DOMAIN rows /\ DOMAIN rows \subseteq Orders
           /\ IsFiniteSet(Mine) /\ Cardinality(Mine) \in Nat
           /\ \A o \in DOMAIN rows : rows[o].created_at \in Nat
<1>1. Mine \subseteq DOMAIN rows
  BY DEF Mine
<1>2. IsFiniteSet(Mine) /\ Cardinality(Mine) \in Nat
  BY <1>1, FS_Subset, FS_CardinalityType DEF RowsAgree
<1>3. \A o \in DOMAIN rows : rows[o].created_at \in Nat
  BY OrderReadsAssumption DEF TypeOK, Row
<1> QED BY <1>1, <1>2, <1>3 DEF TypeOK

Newer(o) == {p \in Mine : rows[p].created_at > rows[o].created_at}

(* The indices of a user's orders are 0, 1, ... and no two orders share one. *)
LEMMA IndexIsPosition ==
    ASSUME TypeOK, RowsAgree
    PROVE  /\ \A o, p \in Mine : Index(o) < Index(p) => rows[o].created_at > rows[p].created_at
           /\ \A o \in Mine : Index(o) \in 0..Cardinality(Mine) - 1
           /\ \A o, p \in Mine : Index(o) = Index(p) => o = p
           /\ \A k \in 0..Cardinality(Mine) - 1 : \E o \in Mine : Index(o) = k
<1>1. /\ IsFiniteSet(Mine) /\ Cardinality(Mine) \in Nat
      /\ \A o \in Mine : rows[o].created_at \in Nat /\ o \in DOMAIN rows
  BY MineIsFinite
<1>2. ASSUME NEW o \in Mine
      PROVE  /\ Index(o) = Cardinality(Newer(o)) /\ IsFiniteSet(Newer(o)) /\ Index(o) \in Nat
             /\ Index(o) \in 0..Cardinality(Mine) - 1
  <2>1. /\ IsFiniteSet(Mine \ {o}) /\ Cardinality(Mine \ {o}) = Cardinality(Mine) - 1
    BY <1>1, FS_RemoveElement
  <2>2. Newer(o) \in SUBSET (Mine \ {o})
    BY <1>1 DEF Newer
  <2>3. IsFiniteSet(Newer(o)) /\ Cardinality(Newer(o)) <= Cardinality(Mine) - 1
    BY <2>1, <2>2, FS_Subset
  <2>4. Cardinality(Newer(o)) \in Nat
    BY <2>3, FS_CardinalityType
  <2>5. Index(o) = Cardinality(Newer(o))
    BY DEF Index, Newer
  <2> QED BY <1>1, <2>3, <2>4, <2>5
<1>3. ASSUME NEW o \in Mine, NEW p \in Mine, rows[o].created_at > rows[p].created_at
      PROVE  Index(o) < Index(p)
  <2>1. Newer(o) \in SUBSET Newer(p) /\ Newer(o) # Newer(p)
    <3>1. o \in Newer(p) /\ o \notin Newer(o)
      BY <1>1, <1>3 DEF Newer
    <3>2. \A q \in Newer(o) : q \in Newer(p)
      BY <1>1, <1>3 DEF Newer
    <3> QED BY <3>1, <3>2
  <2>2. Cardinality(Newer(o)) <= Cardinality(Newer(p))
        /\ Cardinality(Newer(o)) # Cardinality(Newer(p))
    BY <1>2, <2>1, FS_Subset
  <2> QED BY <1>2, <2>2
<1>4. ASSUME NEW o \in Mine, NEW p \in Mine, Index(o) = Index(p) PROVE o = p
  <2>1. rows[o].created_at = rows[p].created_at
    <3>1. ~(rows[o].created_at > rows[p].created_at)
      BY <1>2, <1>3, <1>4
    <3>2. ~(rows[p].created_at > rows[o].created_at)
      BY <1>2, <1>3, <1>4
    <3> QED BY <1>1, <3>1, <3>2
  <2> QED BY <1>1, <2>1 DEF RowsAgree
<1>9. ASSUME NEW o \in Mine, NEW p \in Mine, Index(o) < Index(p)
      PROVE  rows[o].created_at > rows[p].created_at
  <2>1. ~(rows[p].created_at > rows[o].created_at)
    BY <1>2, <1>3, <1>9
  <2>2. rows[o].created_at # rows[p].created_at
    BY <1>1, <1>2, <1>9 DEF RowsAgree
  <2> QED BY <1>1, <2>1, <2>2
<1> DEFINE n == Cardinality(Mine)
           place == [o \in Mine |-> Index(o)]
<1>5. place \in Injection(Mine, 0..n - 1)
  BY <1>2, <1>4, Fun_IsInj
<1>6. IsFiniteSet(0..n - 1) /\ Cardinality(0..n - 1) = n
  <2>1. 0 \in Int /\ n - 1 \in Int /\ n \in Nat
    BY <1>1
  <2>2. /\ IsFiniteSet(0..n - 1)
        /\ Cardinality(0..n - 1) = IF 0 > n - 1 THEN 0 ELSE (n - 1) - 0 + 1
    BY <2>1, FS_Interval
  <2> HIDE DEF n
  <2> QED BY <2>1, <2>2
<1>7. place \in Surjection(Mine, 0..n - 1)
  BY <1>5, <1>6, FS_Injection
<1>8. \A k \in 0..n - 1 : \E o \in Mine : place[o] = k
  BY <1>7 DEF Surjection
<1> QED BY <1>2, <1>4, <1>8, <1>9

(* How many orders there are at the places a page is asked for. *)
LEMMA RangeCardinality ==
    ASSUME TypeOK, RowsAgree, NEW size \in Nat \ {0}, NEW start \in Nat
    PROVE  LET S == {o \in Mine : start <= Index(o) /\ Index(o) < start + size}
               n == Cardinality(Mine)
               end == IF n < start + size THEN n ELSE start + size
           IN  /\ IsFiniteSet(S) /\ Cardinality(S) \in Nat
               /\ Cardinality(S) = IF start > end - 1 THEN 0 ELSE end - start
<1> DEFINE S == {o \in Mine : start <= Index(o) /\ Index(o) < start + size}
           n == Cardinality(Mine)
           end == IF n < start + size THEN n ELSE start + size
<1>1. /\ n \in Nat /\ IsFiniteSet(Mine) /\ Mine \subseteq Orders
      /\ \A o \in Mine : Index(o) \in 0..n - 1
      /\ \A o, p \in Mine : Index(o) = Index(p) => o = p
      /\ \A k \in 0..n - 1 : \E o \in Mine : Index(o) = k
  BY MineIsFinite, IndexIsPosition
<1>2. /\ IsFiniteSet(S) /\ Cardinality(S) \in Nat
      /\ Cardinality(S) = IF start > end - 1 THEN 0 ELSE end - start
  <2> DEFINE place == [o \in S |-> Index(o)]
  <2>1. IsFiniteSet(S) /\ Cardinality(S) \in Nat
    BY <1>1, FS_Subset, FS_CardinalityType
  <2>2. \A o \in S : Index(o) \in start..end - 1
    BY <1>1
  <2>3. place \in Injection(S, start..end - 1)
    BY <1>1, <2>2, Fun_IsInj
  <2>4. \A k \in start..end - 1 : \E o \in S : place[o] = k
    BY <1>1
  <2>5. place \in Surjection(S, start..end - 1)
    BY <2>3, <2>4, Fun_IsSurj DEF Injection
  <2>6. /\ IsFiniteSet(start..end - 1)
        /\ Cardinality(start..end - 1) = IF start > end - 1 THEN 0 ELSE (end - 1) - start + 1
    <3>1. end - 1 \in Int /\ start \in Int
      BY <1>1
    <3> HIDE DEF end
    <3> QED BY <3>1, FS_Interval
  <2>7. Cardinality(S) = Cardinality(start..end - 1)
    BY <2>3, <2>5, <2>6, FS_Injection
  <2>8. end \in Nat /\ (end - 1) - start + 1 = end - start
    BY <1>1
  <2> HIDE DEF S, end
  <2> QED BY <2>1, <2>6, <2>7, <2>8
<1> QED BY <1>2

(* A page holds the orders at the places it was asked for, and is empty    *)
(* only when it begins behind the last.                                    *)
LEMMA PageIsRange ==
    ASSUME TypeOK, RowsAgree, NEW size \in Nat \ {0}, NEW start \in Nat
    PROVE  /\ Page(size, start) \in Seq(Orders)
           /\ Len(Page(size, start)) <= size
           /\ {Page(size, start)[i] : i \in 1..Len(Page(size, start))} =
                  {o \in Mine : start <= Index(o) /\ Index(o) < start + size}
           /\ Page(size, start) = <<>> => \A o \in Mine : Index(o) < start
<1> DEFINE S == {o \in Mine : start <= Index(o) /\ Index(o) < start + size}
           n == Cardinality(Mine)
           end == IF n < start + size THEN n ELSE start + size
           page0 == Page(size, start)
<1>1. /\ n \in Nat /\ IsFiniteSet(Mine) /\ Mine \subseteq Orders
      /\ \A o \in Mine : Index(o) \in 0..n - 1
      /\ \A o, p \in Mine : Index(o) = Index(p) => o = p
      /\ \A k \in 0..n - 1 : \E o \in Mine : Index(o) = k
  BY MineIsFinite, IndexIsPosition
<1>2. /\ IsFiniteSet(S) /\ Cardinality(S) \in Nat
      /\ Cardinality(S) = IF start > end - 1 THEN 0 ELSE end - start
  BY RangeCardinality
<1> DEFINE m == Cardinality(S)
           nth(i) == CHOOSE o \in Mine : Index(o) = start + i - 1
<1>3. page0 = [i \in 1..m |-> nth(i)]
  BY DEF Page
<1>4. \A i \in 1..m : /\ nth(i) \in S /\ Index(nth(i)) = start + i - 1
  <2> TAKE i \in 1..m
  <2>1. start + i - 1 \in 0..n - 1 /\ i <= size
    BY <1>1, <1>2
  <2>2. \E o \in Mine : Index(o) = start + i - 1
    BY <1>1, <2>1
  <2>3. nth(i) \in Mine /\ Index(nth(i)) = start + i - 1
    BY <2>2
  <2> QED BY <1>1, <2>1, <2>3
<1>5. page0 \in Seq(Orders) /\ Len(page0) = m
  <2>1. m \in Nat /\ \A i \in 1..m : nth(i) \in Orders
    BY <1>1, <1>2, <1>4
  <2> HIDE DEF page0, m, nth
  <2>2. page0 \in Seq(Orders)
    BY <1>3, <2>1
  <2> QED BY <1>3, <2>1, <2>2
<1>6. m <= size
  BY <1>1, <1>2
<1>7. {page0[i] : i \in 1..m} = S
  <2>1. \A i \in 1..m : page0[i] \in S
    BY <1>3, <1>4
  <2>2. ASSUME NEW o \in S PROVE \E i \in 1..m : page0[i] = o
    <3> DEFINE i == Index(o) - start + 1
    <3>1. i \in 1..m /\ start + i - 1 = Index(o)
      BY <1>1, <1>2
    <3>2. nth(i) = o
      BY <1>1, <1>4, <3>1
    <3> QED BY <1>3, <3>1, <3>2
  <2> QED BY <2>1, <2>2
<1>8. page0 = <<>> => \A o \in Mine : Index(o) < start
  <2>1. page0 = <<>> => m = 0
    BY <1>5
  <2> QED BY <1>1, <1>2, <2>1
<1> QED BY <1>5, <1>6, <1>7, <1>8

LEMMA PointerTo == ASSUME NEW S, NEW v \in S PROVE <<v>> \in Pointers(S)
BY DEF Pointers

LEMMA PriceIsNat ==
    ASSUME NEW t \in TaxiTypeNames, NEW m \in Nat
    PROVE  PriceForTrip(t, m) \in Nat
<1> DEFINE a == BaseFare[t]
           b == PerKmRate[t]
<1>1. a \in Nat /\ b \in Nat
  BY DEF TaxiTypeNames, BaseFare, PerKmRate
<1>2. PriceForTrip(t, m) = a + (b * m + 500) \div 1000
  BY DEF PriceForTrip
<1> HIDE DEF a, b
<1>3. b * m \in Nat
  BY <1>1
<1> DEFINE c == b * m
<1> HIDE DEF c
<1>4. c \in Nat /\ PriceForTrip(t, m) = a + (c + 500) \div 1000
  BY <1>2, <1>3 DEF c
<1> QED BY <1>1, <1>4

(* A handler keeps the other rows, and of its own what the order was made  *)
(* with; an order the user may see stays one.                              *)
LEMMA WriteRows ==
    ASSUME TypeOK, RowsAgree, NEW o \in Orders, Write(o)
    PROVE  /\ DOMAIN rows' \subseteq Orders /\ \A p \in DOMAIN rows' : rows'[p] \in Row
           /\ RowsAgree' /\ UNCHANGED list
           /\ \A p \in DOMAIN rows : /\ p \in DOMAIN rows'
                                     /\ rows'[p].created_at = rows[p].created_at
           /\ Mine \subseteq Mine'
<1> DEFINE Fresh(p) == /\ rows'[p] \in Row
                       /\ rows'[p].user = Trip[p].rider
                       /\ rows'[p].taxi_type = Trip[p].taxi_type
                       /\ rows'[p].price = <<PriceForTrip(Trip[p].taxi_type, Trip[p].metres)>>
           Kept(p) == /\ rows'[p] \in Row
                      /\ rows'[p].user = rows[p].user
                      /\ rows'[p].taxi_type = rows[p].taxi_type
                      /\ rows'[p].price = rows[p].price
                      /\ rows'[p].created_at = rows[p].created_at
                      /\ rows[p].driver # <<>> => rows'[p].driver = rows[p].driver
<1>1. CASE CreateOrder(o)
  <2>1. PICK t \in 1..Now \ {rows[p].created_at : p \in DOMAIN rows} :
            rows' = [p \in DOMAIN rows \cup {o} |->
                        IF p = o
                        THEN [user |-> Trip[o].rider, driver |-> <<>>, status |-> "created",
                              taxi_type |-> Trip[o].taxi_type,
                              price |-> <<PriceForTrip(Trip[o].taxi_type, Trip[o].metres)>>,
                              rating |-> <<>>, comment |-> <<>>, created_at |-> t]
                        ELSE rows[p]]
    BY <1>1 DEF CreateOrder
  <2>2. Fresh(o) /\ rows'[o].created_at = t
    <3>1. /\ <<PriceForTrip(Trip[o].taxi_type, Trip[o].metres)>> \in Pointers(Nat)
          /\ Trip[o].taxi_type \in TaxiTypeNames /\ \A T : <<>> \in Pointers(T)
      BY OrderReadsAssumption, PriceIsNat, PointerTo DEF Pointers
    <3>2. rows'[o] = [user |-> Trip[o].rider, driver |-> <<>>, status |-> "created",
                      taxi_type |-> Trip[o].taxi_type,
                      price |-> <<PriceForTrip(Trip[o].taxi_type, Trip[o].metres)>>,
                      rating |-> <<>>, comment |-> <<>>, created_at |-> t]
      BY <2>1
    <3> QED BY <3>1, <3>2 DEF Row, StatusNames
  <2>3. DOMAIN rows' = DOMAIN rows \cup {o} /\ \A p \in DOMAIN rows : rows'[p] = rows[p]
    BY <1>1, <2>1 DEF CreateOrder
  <2>4. IsFiniteSet(DOMAIN rows')
    BY <2>3, FS_AddElement DEF RowsAgree
  <2>5. \A p, q \in DOMAIN rows' : rows'[p].created_at = rows'[q].created_at => p = q
    BY <2>1, <2>2, <2>3 DEF RowsAgree
  <2>6. RowsAgree'
    <3>1. \A p \in DOMAIN rows' : /\ rows'[p].user = Trip[p].rider
                                  /\ rows'[p].taxi_type = Trip[p].taxi_type
                                  /\ rows'[p].price
                                        = <<PriceForTrip(Trip[p].taxi_type, Trip[p].metres)>>
      BY <2>2, <2>3 DEF RowsAgree
    <3> QED BY <2>4, <2>5, <3>1 DEF RowsAgree
  <2>7. \A p \in DOMAIN rows' : rows'[p] \in Row
    BY <2>2, <2>3 DEF TypeOK
  <2>8. Mine \subseteq Mine'
    BY <2>3 DEF Mine
  <2> QED BY <1>1, <2>3, <2>6, <2>7, <2>8 DEF CreateOrder, TypeOK
<1>2. CASE ~CreateOrder(o)
  <2>1. /\ o \in DOMAIN rows /\ DOMAIN rows' = DOMAIN rows /\ UNCHANGED list
        /\ \A p \in DOMAIN rows : p # o => rows'[p] = rows[p]
    BY <1>2 DEF Write, AssignDriver, UpdateOrderStatus, RateOrder
  <2>2. Kept(o)
    <3>0. rows[o] \in Row
      BY <2>1 DEF TypeOK
    <3>1. CASE AssignDriver(o)
      <4>1. PICK d \in DOMAIN DriverType :
                rows' = [rows EXCEPT ![o].driver = <<d>>, ![o].status = "driver_assigned"]
        BY <3>1 DEF AssignDriver
      <4>2. rows'[o] = [rows[o] EXCEPT !.driver = <<d>>, !.status = "driver_assigned"]
        BY <2>1, <4>1
      <4>3. <<d>> \in Pointers(DOMAIN DriverType) /\ rows[o].driver = <<>>
        BY <3>1, PointerTo DEF AssignDriver
      <4> QED BY <3>0, <4>2, <4>3 DEF Row, StatusNames
    <3>2. CASE UpdateOrderStatus(o)
      <4>1. PICK status \in Moves : rows' = [rows EXCEPT ![o].status = status]
        BY <3>2 DEF UpdateOrderStatus
      <4>2. rows'[o] = [rows[o] EXCEPT !.status = status] /\ status \in StatusNames
        BY <2>1, <4>1, OrderReadsAssumption
      <4> QED BY <3>0, <4>2 DEF Row
    <3>3. CASE RateOrder(o)
      <4>1. PICK r \in Ratings, c \in Comments :
                rows' = [rows EXCEPT ![o].rating = <<r>>, ![o].comment = c]
        BY <3>3 DEF RateOrder
      <4>2. rows'[o] = [rows[o] EXCEPT !.rating = <<r>>, !.comment = c]
        BY <2>1, <4>1
      <4>3. <<r>> \in Pointers(Ratings)
        BY PointerTo
      <4> QED BY <3>0, <4>2, <4>3 DEF Row
    <3> QED BY <1>2, <3>1, <3>2, <3>3 DEF Write
  <2>3. \A p \in DOMAIN rows : Kept(p)
    BY <2>1, <2>2 DEF TypeOK
  <2>4. RowsAgree'
    BY <2>1, <2>3 DEF RowsAgree
  <2>5. Mine \subseteq Mine'
    BY <2>1, <2>3 DEF Mine
  <2> QED BY <2>1, <2>3, <2>4, <2>5 DEF TypeOK
<1> QED BY <1>1, <1>2

(* Rows that come before an order push it back and never bring it forward. *)
LEMMA IndexGrows ==
    ASSUME TypeOK, RowsAgree, NEW o \in Orders, Write(o), NEW p \in Mine
    PROVE  Index(p) \in Nat /\ Index(p)' \in Nat /\ Index(p) <= Index(p)'
<1>1. /\ DOMAIN rows' \subseteq Orders /\ RowsAgree' /\ Mine \subseteq Mine'
      /\ \A q \in DOMAIN rows : q \in DOMAIN rows' /\ rows'[q].created_at = rows[q].created_at
  BY WriteRows
<1>2. Mine \subseteq DOMAIN rows /\ Mine' \subseteq DOMAIN rows'
  BY DEF Mine
<1>3. Newer(p) \in SUBSET Newer(p)'
  BY <1>1, <1>2 DEF Newer
<1>4. IsFiniteSet(Newer(p)')
  <2>1. IsFiniteSet(DOMAIN rows') /\ Newer(p)' \in SUBSET DOMAIN rows'
    BY <1>1, <1>2 DEF Newer, RowsAgree
  <2> QED BY <2>1, FS_Subset
<1>5. /\ IsFiniteSet(Newer(p))
      /\ Cardinality(Newer(p)) <= Cardinality(Newer(p)')
      /\ Cardinality(Newer(p)) \in Nat /\ Cardinality(Newer(p)') \in Nat
  BY <1>3, <1>4, FS_Subset, FS_CardinalityType
<1>6. Index(p) = Cardinality(Newer(p)) /\ Index(p)' = Cardinality(Newer(p)')
  BY DEF Index, Newer
<1> QED BY <1>5, <1>6

LEMMA ClampedIsPositive == ASSUME NEW asked \in Int PROVE Clamped(asked) \in Nat \ {0}
BY OrderReadsAssumption DEF Clamped

LEMMA FromStartIsNat == ASSUME NEW asked \in Int PROVE FromStart(asked) \in Nat
BY DEF FromStart

(* What the lists rest on. *)
IInv == TypeOK /\ RowsAgree /\ ShownAreMine

LEMMA InitIInv == Init => IInv
<1> SUFFICES ASSUME Init PROVE IInv
  OBVIOUS
<1>1. /\ rows = <<>> /\ DOMAIN rows = {} /\ page = <<>> /\ Len(page) = 0 /\ Shown = {}
      /\ seen = {} /\ first = {} /\ phase = "idle"
  BY DEF Init, Shown
<1>2. TypeOK
  BY <1>1 DEF Init, TypeOK, Phases
<1>3. RowsAgree
  BY <1>1, FS_EmptySet DEF RowsAgree
<1>4. ShownAreMine
  BY <1>1 DEF ShownAreMine, TotalCoversPages
<1> QED BY <1>2, <1>3, <1>4 DEF IInv

LEMMA WriteIInv == ASSUME IInv, NEW o \in Orders, Write(o) PROVE IInv'
<1>1. /\ DOMAIN rows' \subseteq Orders /\ \A p \in DOMAIN rows' : rows'[p] \in Row
      /\ RowsAgree' /\ Mine \subseteq Mine' /\ UNCHANGED list
  BY WriteRows DEF IInv
<1>2. TypeOK'
  BY <1>1 DEF IInv, TypeOK, list
<1>3. Shown' = Shown
  BY <1>1 DEF Shown, list
<1>4. TotalCoversPages'
  BY <1>1 DEF IInv, ShownAreMine, TotalCoversPages, list
<1>5. ShownAreMine'
  BY <1>1, <1>3, <1>4 DEF IInv, ShownAreMine, list
<1> QED BY <1>1, <1>2, <1>5 DEF IInv

(* The four steps of a listing leave the rows alone. *)
LEMMA ListIInv ==
    ASSUME IInv, Begin \/ QueryPage \/ QueryCount \/ Continue
    PROVE  IInv'
<1>1. rows' = rows /\ RowsAgree' /\ Mine' = Mine
  BY DEF IInv, RowsAgree, Mine, Begin, QueryPage, QueryCount, Continue
<1>2. IsFiniteSet(Mine) /\ Cardinality(Mine) \in Nat /\ Mine \subseteq Orders
  BY MineIsFinite DEF IInv
<1>3. CASE Begin
  <2>1. Shown' = Shown /\ TotalCoversPages'
    BY <1>3 DEF Begin, Shown, TotalCoversPages
  <2>2. first' = Mine
    BY <1>3 DEF Begin, Mine
  <2>3. TypeOK'
    BY <1>1, <1>2, <1>3, <2>2, OrderReadsAssumption DEF IInv, TypeOK, Begin, Phases
  <2> QED BY <1>1, <1>3, <2>1, <2>2, <2>3 DEF IInv, ShownAreMine, Begin
<1>4. CASE QueryPage
  <2> DEFINE start == FromStart(offset)
             size == Clamped(limit)
  <2>1. start \in Nat /\ size \in Nat \ {0}
    BY FromStartIsNat, ClampedIsPositive DEF IInv, TypeOK
  <2>2. page' \in Seq(Orders) /\ Shown' \subseteq Mine
    <3>1. page' = Page(size, start)
      BY <1>4 DEF QueryPage
    <3> HIDE DEF start, size
    <3>2. /\ Page(size, start) \in Seq(Orders)
          /\ {Page(size, start)[i] : i \in 1..Len(Page(size, start))} \subseteq Mine
      BY <2>1, PageIsRange DEF IInv
    <3> QED BY <3>1, <3>2 DEF Shown
  <2>3. TypeOK'
    BY <1>1, <1>4, <2>2 DEF IInv, TypeOK, QueryPage, Phases
  <2>4. TotalCoversPages'
    BY <1>4 DEF QueryPage, TotalCoversPages
  <2> QED BY <1>1, <1>4, <2>2, <2>3, <2>4 DEF IInv, ShownAreMine, QueryPage
<1>5. CASE QueryCount
  <2>1. Shown' = Shown
    BY <1>5 DEF QueryCount, Shown
  <2>2. TotalCoversPages'
    <3>1. seen \cup Shown \in SUBSET Mine /\ total' = Cardinality(Mine) /\ seen' = seen
      BY <1>5 DEF IInv, ShownAreMine, QueryCount
    <3>2. Cardinality(seen \cup Shown) \in Nat /\ Cardinality(seen \cup Shown) <= Cardinality(Mine)
      BY <1>2, <3>1, FS_Subset, FS_CardinalityType
    <3> QED BY <1>2, <2>1, <3>1, <3>2 DEF TotalCoversPages, Shown
  <2>3. TypeOK'
    BY <1>1, <1>2, <1>5 DEF IInv, TypeOK, QueryCount, Phases
  <2> QED BY <1>1, <1>5, <2>1, <2>2, <2>3 DEF IInv, ShownAreMine, QueryCount
<1>6. CASE Continue
  <2>1. /\ page' = <<>> /\ Shown' = {} /\ seen' = seen \cup Shown /\ phase' \in {"asking", "done"}
        /\ first' = first
    BY <1>6 DEF Continue, Shown
  <2>2. offset' \in Int
    BY <1>6, FromStartIsNat DEF Continue, IInv, TypeOK
  <2>3. seen' \subseteq Orders /\ seen' \subseteq Mine
    BY <1>2, <2>1 DEF IInv, ShownAreMine
  <2>4. TypeOK'
    BY <1>1, <1>6, <2>1, <2>2, <2>3 DEF IInv, TypeOK, Continue, Phases
  <2>5. TotalCoversPages'
    BY <2>1 DEF TotalCoversPages
  <2> QED BY <1>1, <2>1, <2>3, <2>4, <2>5 DEF IInv, ShownAreMine
<1> QED BY <1>3, <1>4, <1>5, <1>6

LEMMA NextIInv == IInv /\ [Next]_vars => IInv'
<1> SUFFICES ASSUME IInv, [Next]_vars PROVE IInv'
  OBVIOUS
<1>1. CASE Next
  BY <1>1, WriteIInv, ListIInv DEF Next, ListOrders
<1>2. CASE UNCHANGED vars
  BY <1>2 DEF vars, list, IInv, TypeOK, RowsAgree, ShownAreMine, TotalCoversPages, Shown, Mine
<1> QED BY <1>1, <1>2

(* Orders are priced and dated as they were made, and a user has been shown *)
(* her own alone, in every reachable state.                                 *)
THEOREM InductiveInvariant == Spec => []IInv
BY InitIInv, NextIInv, PTL DEF Spec

(* The rows, the request and the answer under way have their types. *)
THEOREM TypeCorrect == Spec => []TypeOK
BY InductiveInvariant, PTL DEF IInv

(* ORDER BY, LIMIT and OFFSET: of the user's orders laid out from the newest*)
(* on, a page is the piece from the offset that the limit allows, and the   *)
(* limit is the default for none and never above the greatest.              *)
THEOREM PagesCorrect == Spec => PagesAreCut
<1> DEFINE n == Cardinality(Mine)
           start == FromStart(offset)
           size == Clamped(limit)
           end == IF start + size < n THEN start + size ELSE n
           nth(k) == CHOOSE o \in Mine : Index(o) = k
           all == [i \in 1..n |-> nth(i - 1)]
<1>1. ASSUME IInv, QueryPage PROVE IsAskedOfMine(page')
  <2>1. /\ TypeOK /\ RowsAgree /\ n \in Nat
        /\ \A o, p \in Mine : Index(o) < Index(p) => rows[o].created_at > rows[p].created_at
        /\ \A o \in Mine : Index(o) \in 0..n - 1
        /\ \A o, p \in Mine : Index(o) = Index(p) => o = p
        /\ \A k \in 0..n - 1 : \E o \in Mine : Index(o) = k
    <3>1. TypeOK /\ RowsAgree
      BY <1>1 DEF IInv
    <3> QED BY <3>1, MineIsFinite, IndexIsPosition
  <2>2. start \in Nat /\ size \in Nat \ {0}
    BY <2>1, FromStartIsNat, ClampedIsPositive DEF TypeOK
  <2>3. \A k \in 0..n - 1 : nth(k) \in Mine /\ Index(nth(k)) = k
    BY <2>1
  <2> HIDE DEF n, start, size, nth
  <2>4. \A i \in 1..n : all[i] \in Mine /\ Index(all[i]) = i - 1
    <3> TAKE i \in 1..n
    <3>1. i - 1 \in 0..n - 1
      BY <2>1
    <3> QED BY <2>3, <3>1
  <2>5. all \in [1..n -> Mine] /\ DOMAIN all = 1..n
    BY <2>4
  <2>6. NewestFirst(all)
    <3> SUFFICES ASSUME NEW i \in 1..n, NEW j \in 1..n, i < j
                 PROVE  rows[all[i]].created_at > rows[all[j]].created_at
      BY <2>5 DEF NewestFirst
    <3>1. all[i] \in Mine /\ all[j] \in Mine /\ Index(all[i]) < Index(all[j])
      BY <2>1, <2>4
    <3> QED BY <2>1, <3>1
  <2>7. Mine = {all[i] : i \in 1..n}
    <3>1. ASSUME NEW o \in Mine PROVE \E i \in 1..n : all[i] = o
      <4>1. Index(o) + 1 \in 1..n /\ Index(o) \in Nat
        BY <2>1
      <4>2. Index(all[Index(o) + 1]) = Index(o) /\ all[Index(o) + 1] \in Mine
        BY <2>4, <4>1
      <4> QED BY <2>1, <4>1, <4>2
    <3> QED BY <2>4, <3>1
  <2>8. page' = SubSeq(all, start + 1, end)
    <3> DEFINE m == Cardinality({o \in Mine : start <= Index(o) /\ Index(o) < start + size})
    <3>1. page' = [i \in 1..m |-> nth(start + i - 1)]
      BY <1>1 DEF QueryPage, Page, nth, start, size
    <3>2. end \in Int /\ m = IF start > end - 1 THEN 0 ELSE end - start
      <4>1. m = IF start > (IF n < start + size THEN n ELSE start + size) - 1 THEN 0
                ELSE (IF n < start + size THEN n ELSE start + size) - start
        BY <2>1, <2>2, RangeCardinality DEF n
      <4>2. end = IF n < start + size THEN n ELSE start + size
        BY <2>1, <2>2
      <4> HIDE DEF m
      <4> QED BY <2>1, <2>2, <4>1, <4>2
    <3>3. end <= n
      BY <2>1, <2>2
    <3> HIDE DEF m, end
    <3>4. ASSUME NEW i \in 1..m PROVE nth(start + i - 1) = all[start + i]
      <4>1. start + i \in 1..n /\ (start + i) - 1 = start + i - 1
        BY <2>1, <2>2, <3>2, <3>3
      <4>2. all[start + i] = nth((start + i) - 1)
        BY <4>1
      <4> QED BY <4>1, <4>2
    <3>5. 1..m = 1..(end - start)
      BY <2>2, <3>2
    <3> HIDE DEF all
    <3>6. page' = [i \in 1..m |-> all[start + i]]
      BY <3>1, <3>4
    <3>7. SubSeq(all, start + 1, end) = [i \in 1..(end - start) |-> all[start + i]]
      <4> DEFINE a == start + 1
                 cut == SubSeq(all, a, end)
      <4>1. a \in Int /\ end \in Int /\ \A i \in a..end : all[i] \in Mine
        BY <2>1, <2>2, <2>4, <3>2, <3>3 DEF all
      <4> HIDE DEF a
      <4>2. /\ cut \in Seq(Mine) /\ Len(cut) = IF a <= end THEN end - a + 1 ELSE 0
            /\ \A i \in 1..end - a + 1 : cut[i] = all[a + i - 1]
        BY <4>1, SubSeqProperties
      <4> HIDE DEF cut
      <4>3. /\ end - a + 1 = end - start /\ \A i \in Int : a + i - 1 = start + i
            /\ a <= end <=> end - start > 0
        BY <2>2, <3>2 DEF a
      <4>4. ASSUME NEW i \in 1..(end - start) PROVE cut[i] = all[start + i]
        <5>1. i \in 1..end - a + 1 /\ a + i - 1 = start + i
          BY <2>2, <3>2, <4>3
        <5>2. cut[i] = all[a + i - 1]
          BY <4>2, <5>1
        <5> QED BY <5>1, <5>2
      <4>5. 1..Len(cut) = 1..(end - start)
        BY <2>2, <3>2, <4>2, <4>3
      <4>6. cut = [i \in 1..Len(cut) |-> cut[i]]
        BY <4>2
      <4>7. cut = [i \in 1..(end - start) |-> cut[i]]
        BY <4>5, <4>6
      <4> QED BY <4>4, <4>7 DEF cut, a
    <3> QED BY <3>5, <3>6, <3>7
  <2> QED BY <2>5, <2>6, <2>7, <2>8 DEF IsAskedOfMine, n, start, size
<1>2. IInv /\ [Next]_vars => [QueryPage => IsAskedOfMine(page')]_vars
  BY <1>1
<1> QED BY <1>2, InductiveInvariant, PTL DEF Spec, PagesAreCut

(* An order a user is shown in a list is one GetOrder shows her, then and   *)
(* ever after; and the total, a query of its own, is not below the number   *)
(* of orders shown by then, whatever is written between the two queries.    *)
THEOREM ListsCorrect == Spec => []ListsAgree
<1>1. IInv => ListsAgree
  BY DEF IInv, ShownAreMine, ListsAgree, ListedCanBeRead, Shown, Mine, Viewable
<1> QED BY <1>1, InductiveInvariant, PTL

-----------------------------------------------------------------------------
(* Rates and base fares rise with the type of taxi, and rounding does not   *)
(* put a shorter trip above a longer one.                                   *)
LEMMA PriceIsMonotone ==
    ASSUME NEW t \in TaxiTypeNames, NEW u \in TaxiTypeNames, Rank[t] <= Rank[u],
           NEW m \in Nat, NEW n \in Nat, m <= n
    PROVE  PriceForTrip(t, m) <= PriceForTrip(u, n)
<1>1. /\ BaseFare[t] \in Nat /\ BaseFare[u] \in Nat /\ BaseFare[t] <= BaseFare[u]
      /\ PerKmRate[t] \in Nat /\ PerKmRate[u] \in Nat /\ PerKmRate[t] <= PerKmRate[u]
  BY DEF TaxiTypeNames, Rank, BaseFare, PerKmRate
<1>2. PerKmRate[t] * m \in Nat /\ PerKmRate[u] * n \in Nat /\ PerKmRate[t] * m <= PerKmRate[u] * n
  <2>1. \A x, y, z \in Nat : x <= y => x * z <= y * z /\ z * x <= z * y /\ x * z \in Nat
    BY SMTT(30)
  <2> HIDE DEF PerKmRate
  <2>2. PerKmRate[t] * m <= PerKmRate[u] * m /\ PerKmRate[t] * m \in Nat
    BY <1>1, <2>1
  <2>3. PerKmRate[u] * m <= PerKmRate[u] * n /\ PerKmRate[u] * n \in Nat /\ PerKmRate[u] * m \in Nat
    BY <1>1, <2>1
  <2> QED BY <2>2, <2>3
<1>3. \A x, y \in Nat : x <= y => /\ (x + 500) \div 1000 \in Nat /\ (y + 500) \div 1000 \in Nat
                                  /\ (x + 500) \div 1000 <= (y + 500) \div 1000
  OBVIOUS
<1> QED BY <1>1, <1>2, <1>3 DEF PriceForTrip

LEMMA PointerValue == ASSUME NEW v PROVE OrZero(<<v>>) = v /\ OrEmpty(<<v>>) = v
BY DEF OrZero, OrEmpty

(* A rider never pays more for a shorter trip in no better a taxi: this of  *)
(* every distance in metres, with the rounding to minor units.              *)
THEOREM PricesCorrect == Spec => []PricesFollowTrips
<1>1. IInv => PricesFollowTrips
  <2> SUFFICES ASSUME IInv, NEW o \in DOMAIN rows, NEW p \in DOMAIN rows,
                      Trip[o].metres <= Trip[p].metres,
                      Rank[Trip[o].taxi_type] <= Rank[Trip[p].taxi_type]
               PROVE  OrZero(rows[o].price) <= OrZero(rows[p].price)
    BY DEF PricesFollowTrips
  <2>1. o \in Orders /\ p \in Orders
    BY DEF IInv, TypeOK
  <2>2. /\ OrZero(rows[o].price) = PriceForTrip(Trip[o].taxi_type, Trip[o].metres)
        /\ OrZero(rows[p].price) = PriceForTrip(Trip[p].taxi_type, Trip[p].metres)
    BY PointerValue DEF IInv, RowsAgree
  <2> QED BY <2>1, <2>2, PriceIsMonotone, OrderReadsAssumption
<1> QED BY <1>1, InductiveInvariant, PTL

-----------------------------------------------------------------------------
(* The user begins with the newest: offsets below zero count as zero. *)
FromTheStart == \A n \in Offsets : n <= 0

(* What is shown and what is hers, in the words of a step. *)
LEMMA ListMissesNothing ==
    ASSUME FromTheStart, IInv, NothingIsPassed, Begin \/ QueryPage \/ QueryCount \/ Continue
    PROVE  NothingIsPassed'
<1>1. rows' = rows /\ Mine' = Mine /\ \A o : Index(o)' = Index(o)
  BY DEF Mine, Index, Begin, QueryPage, QueryCount, Continue
<1>2. /\ first \subseteq Mine /\ TypeOK /\ RowsAgree
      /\ \A o \in Mine : Index(o) \in Nat
  <2>1. TypeOK /\ RowsAgree /\ first \subseteq Mine
    BY DEF IInv, ShownAreMine
  <2> QED BY <2>1, IndexIsPosition, MineIsFinite
<1>3. CASE Begin
  <2>1. FromStart(offset') = 0
    BY <1>3, OrderReadsAssumption DEF Begin, FromStart, FromTheStart
  <2>2. first' = Mine /\ phase' = "asking" /\ seen' = seen
    BY <1>3 DEF Begin, Mine
  <2>3. \A o \in first' \ seen' : Index(o)' >= FromStart(offset')
    BY <1>1, <1>2, <2>1, <2>2
  <2> QED BY <2>2, <2>3 DEF NothingIsPassed, NothingIsMissed
<1>4. CASE QueryPage
  <2> DEFINE start == FromStart(offset)
             size == Clamped(limit)
  <2>1. start \in Nat /\ size \in Nat \ {0}
    BY FromStartIsNat, ClampedIsPositive DEF IInv, TypeOK
  <2>2. /\ page' = Page(size, start) /\ phase = "asking" /\ phase' = "counting"
        /\ UNCHANGED <<offset, seen, first>>
    BY <1>4 DEF QueryPage
  <2>3. \A o \in first \ seen : o \in Mine /\ Index(o) >= start
    BY <1>2, <2>2 DEF NothingIsPassed
  <2> HIDE DEF start, size
  <2>4. /\ page' \in Seq(Orders) /\ Len(page') <= size
        /\ Shown' = {o \in Mine : start <= Index(o) /\ Index(o) < start + size}
        /\ page' = <<>> => \A o \in Mine : Index(o) < start
    <3>1. /\ Page(size, start) \in Seq(Orders) /\ Len(Page(size, start)) <= size
          /\ {Page(size, start)[i] : i \in 1..Len(Page(size, start))} =
                 {o \in Mine : start <= Index(o) /\ Index(o) < start + size}
          /\ Page(size, start) = <<>> => \A o \in Mine : Index(o) < start
      BY <1>2, <2>1, PageIsRange
    <3> QED BY <2>2, <3>1 DEF Shown
  <2>5. ASSUME NEW o \in first \ (seen \cup Shown') PROVE Index(o) >= start + Len(page')
    <3>1. Index(o) \in Nat /\ Index(o) >= start /\ ~(Index(o) < start + size)
      BY <1>2, <2>3, <2>4, <2>5
    <3>2. Len(page') \in Nat /\ Len(page') <= size
      BY <2>4
    <3> QED BY <2>1, <3>1, <3>2
  <2>6. page' = <<>> => first \subseteq seen
    BY <1>2, <2>1, <2>3, <2>4
  <2>7. \A o \in first' \ (seen' \cup Shown') : Index(o)' >= FromStart(offset') + Len(page')
    BY <1>1, <2>2, <2>5 DEF start
  <2> QED BY <2>2, <2>6, <2>7 DEF NothingIsPassed, NothingIsMissed
<1>5. CASE QueryCount
  <2>1. /\ phase = "counting" /\ phase' = "answered" /\ Shown' = Shown
        /\ UNCHANGED <<offset, page, seen, first>>
    BY <1>5 DEF QueryCount, Shown
  <2> QED BY <1>1, <2>1 DEF NothingIsPassed, NothingIsMissed
<1>6. CASE Continue
  <2>1. phase = "answered" /\ seen' = seen \cup Shown /\ first' = first
    BY <1>6 DEF Continue, Shown
  <2>2. CASE page = <<>>
    <3>1. phase' = "done" /\ first' \subseteq seen'
      BY <1>6, <2>1, <2>2 DEF Continue, NothingIsPassed
    <3> QED BY <3>1 DEF NothingIsPassed, NothingIsMissed
  <2>3. CASE page # <<>>
    <3>1. phase' = "asking" /\ offset' = FromStart(offset) + Len(page)
      BY <1>6, <2>3 DEF Continue
    <3>2. FromStart(offset) \in Nat /\ Len(page) \in Nat
      BY FromStartIsNat DEF IInv, TypeOK
    <3>3. FromStart(offset') = offset'
      BY <3>1, <3>2 DEF FromStart
    <3>4. \A o \in first' \ seen' : Index(o)' >= FromStart(offset')
      BY <1>1, <2>1, <3>1, <3>3 DEF NothingIsPassed
    <3> QED BY <3>1, <3>4 DEF NothingIsPassed, NothingIsMissed
  <2> QED BY <2>2, <2>3
<1> QED BY <1>3, <1>4, <1>5, <1>6

LEMMA WriteMissesNothing ==
    ASSUME IInv, NothingIsPassed, NEW o \in Orders, Write(o)
    PROVE  NothingIsPassed'
<1>1. /\ UNCHANGED <<phase, offset, page, seen, first>> /\ Shown' = Shown
      /\ first \subseteq Mine
  BY WriteRows DEF IInv, ShownAreMine, list, Shown
<1>2. \A p \in first : Index(p) \in Nat /\ Index(p)' \in Nat /\ Index(p) <= Index(p)'
  BY <1>1, IndexGrows DEF IInv
<1>3. FromStart(offset) \in Nat /\ Len(page) \in Nat
  BY FromStartIsNat DEF IInv, TypeOK
<1>4. ASSUME NEW n \in Nat, NEW p \in first, Index(p) >= n PROVE Index(p)' >= n
  BY <1>2, <1>4
<1>5. phase = "asking" => \A p \in first \ seen : Index(p)' >= FromStart(offset)
  BY <1>3, <1>4 DEF NothingIsPassed
<1>6. phase \in {"counting", "answered"} =>
          \A p \in first \ (seen \cup Shown) : Index(p)' >= FromStart(offset) + Len(page)
  BY <1>3, <1>4 DEF NothingIsPassed
<1> QED BY <1>1, <1>5, <1>6 DEF NothingIsPassed, NothingIsMissed

LEMMA NextMissesNothing ==
    ASSUME FromTheStart
    PROVE  IInv /\ NothingIsPassed /\ [Next]_vars => NothingIsPassed'
<1> SUFFICES ASSUME IInv, NothingIsPassed, [Next]_vars PROVE NothingIsPassed'
  OBVIOUS
<1>1. CASE Next
  BY <1>1, WriteMissesNothing, ListMissesNothing DEF Next, ListOrders
<1>2. CASE UNCHANGED vars
  <2>1. UNCHANGED <<phase, offset, page, seen, first, Shown>> /\ \A o : Index(o)' = Index(o)
    BY <1>2 DEF vars, list, Shown, Mine, Index
  <2> QED BY <2>1 DEF NothingIsPassed, NothingIsMissed
<1> QED BY <1>1, <1>2

(* Paging by offset from the newest order on misses none that was there to  *)
(* see when it began: inserts and assignments between two pages push orders *)
(* back, so that one may be shown twice, and bring none forward.            *)
THEOREM PagingMissesNothing == ASSUME FromTheStart PROVE Spec => []NothingIsMissed
<1>1. Init => NothingIsPassed
  BY DEF Init, NothingIsPassed, NothingIsMissed
<1>2. NothingIsPassed => NothingIsMissed
  BY DEF NothingIsPassed
<1> QED BY <1>1, <1>2, InductiveInvariant, NextMissesNothing, PTL DEF Spec

-----------------------------------------------------------------------------
(* A pointer survives its way through the wire's zero value. *)
LEMMA ZeroAndBack ==
    ASSUME NEW p
    PROVE  /\ OrZero(Pointer(OrZero(p), 0)) = OrZero(p)
           /\ OrEmpty(Pointer(OrEmpty(p), "")) = OrEmpty(p)
<1>1. \A v : OrZero(Pointer(v, 0)) = v /\ OrEmpty(Pointer(v, "")) = v
  <2> TAKE v
  <2>1. v # 0 => OrZero(<<v>>) = v
    BY PointerValue
  <2>2. v # "" => OrEmpty(<<v>>) = v
    BY PointerValue
  <2>3. OrZero(<<>>) = 0 /\ OrEmpty(<<>>) = ""
    BY DEF OrZero, OrEmpty
  <2> QED BY <2>1, <2>2, <2>3 DEF Pointer
<1> QED BY <1>1

(* An order read back from its document is shown as its row is. *)
LEMMA DocumentShowsRow ==
    ASSUME NEW o, NEW row \in Row
    PROVE  OrderToProto(o, ToDomain(OrderDocumentFromDomain(row))) = OrderToProto(o, row)
<1> DEFINE back == ToDomain(OrderDocumentFromDomain(row))
<1>1. /\ back.user = row.user /\ back.status = row.status /\ back.taxi_type = row.taxi_type
      /\ back.created_at = row.created_at
      /\ back.driver = Pointer(OrEmpty(row.driver), "")
      /\ back.price = Pointer(OrZero(row.price), 0)
      /\ back.rating = Pointer(OrZero(row.rating), 0)
      /\ back.comment = Pointer(OrEmpty(row.comment), "")
  BY DEF ToDomain, OrderDocumentFromDomain, Row
<1> HIDE DEF back
<1>2. OrderToProto(o, back) = OrderToProto(o, row)
  BY <1>1, ZeroAndBack DEF OrderToProto
<1> QED BY <1>2 DEF back

(* taxiTypeFromProto and taxiTypeToProto are inverse, as are those of a     *)
(* status.                                                                  *)
LEMMA TaxiTypesMatch ==
    ASSUME NEW t \in TaxiTypeNames,
           NEW v \in {"TAXI_TYPE_UNSPECIFIED", "TAXI_TYPE_ECONOMY", "TAXI_TYPE_COMFORT",
                      "TAXI_TYPE_BUSINESS"}
    PROVE  (FromProto(TaxiTypes, v) # "" => t = FromProto(TaxiTypes, v))
              <=> v \in {"TAXI_TYPE_UNSPECIFIED", ToProto(TaxiTypes, t, "TAXI_TYPE_UNSPECIFIED")}
<1>1. /\ ToProto(TaxiTypes, "economy", "TAXI_TYPE_UNSPECIFIED") = "TAXI_TYPE_ECONOMY"
      /\ ToProto(TaxiTypes, "comfort", "TAXI_TYPE_UNSPECIFIED") = "TAXI_TYPE_COMFORT"
      /\ ToProto(TaxiTypes, "business", "TAXI_TYPE_UNSPECIFIED") = "TAXI_TYPE_BUSINESS"
  BY DEF ToProto, TaxiTypes
<1>2. /\ FromProto(TaxiTypes, "TAXI_TYPE_UNSPECIFIED") = ""
      /\ FromProto(TaxiTypes, "TAXI_TYPE_ECONOMY") = "economy"
      /\ FromProto(TaxiTypes, "TAXI_TYPE_COMFORT") = "comfort"
      /\ FromProto(TaxiTypes, "TAXI_TYPE_BUSINESS") = "business"
  BY DEF FromProto, TaxiTypes
<1> QED BY <1>1, <1>2 DEF TaxiTypeNames

LEMMA StatusesMatch ==
    ASSUME NEW s \in StatusNames,
           NEW v \in {"STATUS_UNSPECIFIED", "STATUS_CREATED", "STATUS_DRIVER_ASSIGNED",
                      "STATUS_IN_PROGRESS", "STATUS_COMPLETED", "STATUS_CANCELLED"}
    PROVE  (FromProto(Statuses, v) # "" => s = FromProto(Statuses, v))
              <=> v \in {"STATUS_UNSPECIFIED", ToProto(Statuses, s, "STATUS_UNSPECIFIED")}
<1>1. /\ ToProto(Statuses, "created", "STATUS_UNSPECIFIED") = "STATUS_CREATED"
      /\ ToProto(Statuses, "driver_assigned", "STATUS_UNSPECIFIED") = "STATUS_DRIVER_ASSIGNED"
      /\ ToProto(Statuses, "in_progress", "STATUS_UNSPECIFIED") = "STATUS_IN_PROGRESS"
      /\ ToProto(Statuses, "completed", "STATUS_UNSPECIFIED") = "STATUS_COMPLETED"
      /\ ToProto(Statuses, "cancelled", "STATUS_UNSPECIFIED") = "STATUS_CANCELLED"
  BY DEF ToProto, Statuses
<1>2. /\ FromProto(Statuses, "STATUS_UNSPECIFIED") = ""
      /\ FromProto(Statuses, "STATUS_CREATED") = "created"
      /\ FromProto(Statuses, "STATUS_DRIVER_ASSIGNED") = "driver_assigned"
      /\ FromProto(Statuses, "STATUS_IN_PROGRESS") = "in_progress"
      /\ FromProto(Statuses, "STATUS_COMPLETED") = "completed"
      /\ FromProto(Statuses, "STATUS_CANCELLED") = "cancelled"
  BY DEF FromProto, Statuses
<1> QED BY <1>1, <1>2 DEF StatusNames

(* What the index decides of a document is what was asked of the order. *)
LEMMA FilterIsAsked ==
    ASSUME NEW o, NEW row \in Row, row.price # <<>>, NEW req \in Requests
    PROVE  Satisfies(OrderDocumentFromDomain(row), SearchFilterFromProto(req))
              <=> Asked(req, OrderToProto(o, row))
<1> DEFINE doc == OrderDocumentFromDomain(row)
           filter == SearchFilterFromProto(req)
           order == OrderToProto(o, row)
<1>1. /\ doc.taxi_type = row.taxi_type /\ doc.status = row.status
      /\ doc.created_at = row.created_at /\ doc.price = OrZero(row.price)
  BY DEF OrderDocumentFromDomain, Row
<1>2. /\ filter.taxi_type = FromProto(TaxiTypes, req.taxi_type)
      /\ filter.status = FromProto(Statuses, req.status)
      /\ filter.created_after = OrZero(req.created_after)
      /\ filter.created_before = OrZero(req.created_before)
      /\ filter.min_price = req.min_price /\ filter.max_price = req.max_price
  BY DEF SearchFilterFromProto, Requests
<1>3. /\ order.taxi_type = ToProto(TaxiTypes, row.taxi_type, "TAXI_TYPE_UNSPECIFIED")
      /\ order.status = ToProto(Statuses, row.status, "STATUS_UNSPECIFIED")
      /\ order.price_minor_units = OrZero(row.price)
      /\ order.created_at = Second(row.created_at)
  BY DEF OrderToProto
<1>4. /\ row.created_at \in Nat \ {0} /\ OrZero(row.price) \in Nat
      /\ req.min_price \in Int /\ req.max_price \in Int
      /\ \/ req.created_after = <<>>
         \/ req.created_after = <<req.created_after[1]>> /\ req.created_after[1] \in Int
      /\ \/ req.created_before = <<>>
         \/ req.created_before = <<req.created_before[1]>> /\ req.created_before[1] \in Int
  BY OrderReadsAssumption DEF Row, Requests, Pointers, OrZero
<1> HIDE DEF doc, filter, order
<1>5. (filter.taxi_type # "" => doc.taxi_type = filter.taxi_type)
         <=> req.taxi_type \in {"TAXI_TYPE_UNSPECIFIED", order.taxi_type}
  <2>1. /\ row.taxi_type \in TaxiTypeNames
        /\ req.taxi_type \in {"TAXI_TYPE_UNSPECIFIED", "TAXI_TYPE_ECONOMY",
                             "TAXI_TYPE_COMFORT", "TAXI_TYPE_BUSINESS"}
    BY DEF Row, Requests
  <2>2. (FromProto(TaxiTypes, req.taxi_type) # "" =>
            row.taxi_type = FromProto(TaxiTypes, req.taxi_type))
           <=> req.taxi_type \in {"TAXI_TYPE_UNSPECIFIED",
                                 ToProto(TaxiTypes, row.taxi_type, "TAXI_TYPE_UNSPECIFIED")}
    BY <2>1, TaxiTypesMatch
  <2> QED BY <1>1, <1>2, <1>3, <2>2, Zenon
<1>6. (filter.status # "" => doc.status = filter.status)
         <=> req.status \in {"STATUS_UNSPECIFIED", order.status}
  <2> DEFINE s == row.status
             v == req.status
  <2>1. /\ s \in StatusNames
        /\ v \in {"STATUS_UNSPECIFIED", "STATUS_CREATED", "STATUS_DRIVER_ASSIGNED",
                 "STATUS_IN_PROGRESS", "STATUS_COMPLETED", "STATUS_CANCELLED"}
    BY DEF Row, Requests
  <2>2. (FromProto(Statuses, v) # "" => s = FromProto(Statuses, v))
           <=> v \in {"STATUS_UNSPECIFIED", ToProto(Statuses, s, "STATUS_UNSPECIFIED")}
    <3> HIDE DEF s, v
    <3> QED BY <2>1, StatusesMatch
  <2> QED BY <1>1, <1>2, <1>3, <2>2, Zenon
<1>7. \A t \in Nat, u \in Int : /\ t >= 2 * Second(u) <=> Second(u) <= Second(t)
                                /\ t <= 2 * Second(u) + 1 <=> Second(t) <= Second(u)
  BY DEF Second
<1>8. /\ (filter.created_after # 0 => doc.created_at >= 2 * Second(filter.created_after))
            <=> (req.created_after = <<>> \/ Second(req.created_after[1]) <= order.created_at)
      /\ (filter.created_before # 0 => doc.created_at <= 2 * Second(filter.created_before) + 1)
            <=> (req.created_before \in {<<>>, <<0>>}
                    \/ order.created_at <= Second(req.created_before[1]))
  <2> DEFINE t == row.created_at
             a == req.created_after[1]
             b == req.created_before[1]
  <2>1. /\ req.created_after = <<>> => filter.created_after = 0
        /\ req.created_after # <<>> => filter.created_after = a /\ a \in Int
        /\ req.created_before = <<>> => filter.created_before = 0
        /\ req.created_before # <<>> =>
              filter.created_before = b /\ b \in Int /\ (b = 0 <=> req.created_before = <<0>>)
    BY <1>2, <1>4, PointerValue DEF OrZero
  <2>2. t \in Nat \ {0} /\ Second(0) <= Second(t)
    BY <1>4 DEF Second
  <2>3. /\ doc.created_at = t /\ order.created_at = Second(t)
    BY <1>1, <1>3
  <2>4. (filter.created_after # 0 => doc.created_at >= 2 * Second(filter.created_after))
            <=> (req.created_after = <<>> \/ Second(a) <= order.created_at)
    <3> HIDE DEF t, a, b
    <3> QED BY <1>7, <2>1, <2>2, <2>3
  <2>5. (filter.created_before # 0 => doc.created_at <= 2 * Second(filter.created_before) + 1)
            <=> (req.created_before \in {<<>>, <<0>>} \/ order.created_at <= Second(b))
    <3> HIDE DEF t, a, b
    <3> QED BY <1>7, <2>1, <2>2, <2>3
  <2> QED BY <2>4, <2>5
<1>9. /\ (filter.min_price # 0 => doc.price >= filter.min_price)
            <=> req.min_price <= order.price_minor_units
      /\ (filter.max_price # 0 => doc.price <= filter.max_price)
            <=> (req.max_price = 0 \/ order.price_minor_units <= req.max_price)
  BY <1>1, <1>2, <1>3, <1>4
<1>10. Satisfies(doc, filter) <=> Asked(req, order)
  BY <1>5, <1>6, <1>8, <1>9 DEF Satisfies, Asked
<1> QED BY <1>10 DEF doc, filter, order

(* A search finds the orders that would be shown with what is asked for,    *)
(* and shows them as GetOrder does, whatever they are and whatever is       *)
(* asked for: taxi types and statuses are translated there and back, a zero *)
(* stands for what is not asked, that of a time included, and a bound is    *)
(* met by the second shown.                                                 *)
THEOREM SearchCorrect == Spec => []SearchIsExact
<1>1. IInv => SearchIsExact
  <2> SUFFICES ASSUME IInv, NEW req \in Searches
               PROVE  SearchOrders(req) =
                          {order \in {OrderToProto(o, rows[o]) : o \in DOMAIN rows} :
                              Asked(req, order)}
    BY DEF SearchIsExact
  <2>1. ASSUME NEW o \in DOMAIN rows
        PROVE  /\ OrderToProto(o, ToDomain(OrderDocumentFromDomain(rows[o])))
                      = OrderToProto(o, rows[o])
               /\ Satisfies(OrderDocumentFromDomain(rows[o]), SearchFilterFromProto(req))
                      <=> Asked(req, OrderToProto(o, rows[o]))
    <3>1. rows[o] \in Row /\ req \in Requests
      BY OrderReadsAssumption DEF IInv, TypeOK
    <3>2. rows[o].price # <<>>
      BY DEF IInv, RowsAgree
    <3> QED BY <3>1, <3>2, DocumentShowsRow, FilterIsAsked
  <2> QED BY <2>1 DEF SearchOrders
<1> QED BY <1>1, InductiveInvariant, PTL
=============================================================================
