--------------------------- MODULE AnalyticsProofs ---------------------------
(* Theorems about Analytics, for any keys, events, bounds and faults; those *)
(* about ratings and reports, for finitely many keys.                       *)
EXTENDS Analytics, SumLemmas, SequenceTheorems

USE AnalyticsAssumption

LEMMA InitIInv == Init => IInv
BY DEF Init, IInv, TypeOK, TableIsIngested, TriedOK

LEMMA PublishIInv == ASSUME IInv, NEW k \in Keys, Publish(k) PROVE IInv'
<1>1. log \in Seq(Keys) /\ log' = Append(log, k) /\ Len(log) \in Nat
  BY LenProperties DEF IInv, TypeOK, Publish
<1>2. /\ log' \in Seq(Keys) /\ Len(log') = Len(log) + 1
      /\ \A i \in 1..Len(log) : log'[i] = log[i]
  BY <1>1, AppendProperties
<1>3. TypeOK'
  BY <1>1, <1>2 DEF IInv, TypeOK, Publish
<1>4. TableIsIngested'
  BY DEF IInv, TableIsIngested, Publish
<1>5. position \in 0..Len(log)
  BY DEF IInv, TypeOK
<1>6. TriedOK'
  BY <1>1, <1>2, <1>5 DEF IInv, TriedOK, Publish
<1> QED BY <1>3, <1>4, <1>6 DEF IInv

LEMMA HandleIInv == ASSUME IInv, Handle PROVE IInv'
<1> DEFINE k == log[position + 1]
<1>1. Len(log) \in Nat /\ position \in Nat /\ position + 1 \in 1..Len(log) /\ k \in Keys
  BY LenProperties, ElementOfSeq DEF IInv, TypeOK, Handle
<1>2. position' = position + 1 /\ UNCHANGED <<event, log, committed>>
  BY DEF Handle
<1>3. CASE Insert(k)
  <2>1. TypeOK'
    BY <1>1, <1>2, <1>3 DEF IInv, TypeOK, Insert
  <2>2. TableIsIngested'
    BY <1>1, <1>3 DEF IInv, TypeOK, TableIsIngested, Insert
  <2>3. TriedOK'
    BY <1>1, <1>2, <1>3 DEF IInv, TriedOK, Insert
  <2> QED BY <2>1, <2>2, <2>3 DEF IInv
<1>4. CASE Refuse(k)
  <2>1. TypeOK'
    BY <1>1, <1>2, <1>4 DEF IInv, TypeOK, Refuse
  <2>2. TableIsIngested'
    BY <1>4 DEF IInv, TableIsIngested, Refuse
  <2>3. TriedOK'
    BY <1>1, <1>2, <1>4 DEF IInv, TriedOK, Refuse
  <2> QED BY <2>1, <2>2, <2>3 DEF IInv
<1> QED BY <1>3, <1>4 DEF Handle

LEMMA AutoCommitIInv == ASSUME IInv, AutoCommit PROVE IInv'
BY DEF IInv, TypeOK, TableIsIngested, TriedOK, AutoCommit

(* What is committed has been marked: a restart goes back, never ahead.     *)
LEMMA RestartIInv == ASSUME IInv, Restart PROVE IInv'
<1>1. Len(log) \in Nat
  BY LenProperties DEF IInv, TypeOK
<1>2. TypeOK' /\ TableIsIngested'
  BY <1>1 DEF IInv, TypeOK, TableIsIngested, Restart
<1>3. TriedOK'
  BY <1>1 DEF IInv, TypeOK, TriedOK, Restart
<1> QED BY <1>2, <1>3 DEF IInv

LEMMA MergeIInv == ASSUME IInv, NEW k \in Keys, Merge(k) PROVE IInv'
<1>1. PICK n \in 1..copies[k] - 1 : copies' = [copies EXCEPT ![k] = n]
  BY DEF Merge
<1>2. n \in Nat /\ n > 0 /\ copies[k] > 0
  BY DEF Merge, IInv, TypeOK
<1>3. TypeOK'
  BY <1>1, <1>2 DEF IInv, TypeOK, Merge
<1>4. TableIsIngested'
  BY <1>1, <1>2 DEF IInv, TypeOK, TableIsIngested, Merge
<1>5. TriedOK'
  BY DEF IInv, TriedOK, Merge
<1> QED BY <1>3, <1>4, <1>5 DEF IInv

LEMMA NextIInv == IInv /\ [Next]_vars => IInv'
<1> SUFFICES ASSUME IInv, [Next]_vars PROVE IInv'
  OBVIOUS
<1>1. CASE UNCHANGED vars
  BY <1>1 DEF IInv, TypeOK, TableIsIngested, TriedOK, vars
<1> QED BY <1>1, PublishIInv, MergeIInv, HandleIInv, AutoCommitIInv, RestartIInv DEF Next

LEMMA Invariance == Spec => []IInv
<1> QED BY InitIInv, NextIInv, PTL DEF Spec

(* The variables of Analytics keep their types: what is committed never     *)
(* exceeds what was marked, nor that the length of the topic.               *)
THEOREM TypeCorrect == Spec => []TypeOK
<1>1. IInv => TypeOK
  BY DEF IInv
<1> QED BY <1>1, Invariance, PTL

(* Redeliveries and merges never add to or take from the table what was     *)
(* ingested: GetOrderStats and GetDriverRatingStats read FINAL rows of      *)
(* exactly those events.                                                    *)
THEOREM TableCorrect == Spec => []TableIsIngested
<1>1. IInv => TableIsIngested
  BY DEF IInv
<1> QED BY <1>1, Invariance, PTL

(* Wherever the consumer is stopped, no message it has committed was        *)
(* skipped (ConsumeClaim marks after handleMessage).                        *)
THEOREM CommitsFollowInserts == Spec => []CommittedWasTried
<1>1. IInv => CommittedWasTried
  <2> SUFFICES ASSUME IInv PROVE CommittedWasTried
    OBVIOUS
  <2>1. Len(log) \in Nat
    BY LenProperties DEF IInv, TypeOK
  <2> QED BY <2>1 DEF IInv, TypeOK, TriedOK, CommittedWasTried
<1> QED BY <1>1, Invariance, PTL

-----------------------------------------------------------------------------
(* Ratings *)

(* A FINAL query reads one row of every key in the table.                   *)
LEMMA FinalRowsOfIngested ==
    ASSUME IInv
    PROVE  FinalRows = {<<k, copies[k]>> : k \in ingested}
<1>1. \A k \in Keys : copies[k] \in Nat /\ (copies[k] > 0 <=> k \in ingested)
  BY DEF IInv, TypeOK, TableIsIngested
<1>2. ingested \subseteq Keys
  BY DEF IInv, TypeOK
<1>3. Rows = {r \in Keys \X Nat : r[2] \in 1..copies[r[1]]}
  <2>1. ASSUME NEW r \in Rows PROVE r \in Keys \X Nat /\ r[2] \in 1..copies[r[1]]
    <3>1. PICK k \in Keys : r \in {k} \X (1..copies[k])
      BY DEF Rows
    <3> QED BY <3>1, <1>1
  <2>2. ASSUME NEW r \in Keys \X Nat, r[2] \in 1..copies[r[1]] PROVE r \in Rows
    <3>1. r[1] \in Keys /\ r = <<r[1], r[2]>>
      OBVIOUS
    <3>2. r \in {r[1]} \X (1..copies[r[1]])
      BY <2>2, <3>1
    <3> QED BY <3>1, <3>2 DEF Rows
  <2> QED BY <2>1, <2>2
<1>4. ASSUME NEW r \in FinalRows PROVE \E k \in ingested : r = <<k, copies[k]>>
  <2>1. r \in Keys \X Nat /\ r[2] \in 1..copies[r[1]] /\ r[2] = copies[r[1]]
    BY <1>3 DEF FinalRows
  <2>2. r[1] \in Keys /\ r = <<r[1], copies[r[1]]>> /\ copies[r[1]] > 0
    BY <2>1, <1>1
  <2> QED BY <2>2, <1>1
<1>5. ASSUME NEW k \in ingested PROVE <<k, copies[k]>> \in FinalRows
  <2>1. k \in Keys /\ copies[k] \in Nat /\ copies[k] \in 1..copies[k]
    BY <1>1, <1>2
  <2> QED BY <2>1, <1>3 DEF FinalRows
<1> QED BY <1>4, <1>5

(* Counting the rows of a set of keys is counting the keys.                 *)
LEMMA RowsOfKeys ==
    ASSUME NEW T, IsFiniteSet(T)
    PROVE  LET R == {<<k, copies[k]>> : k \in T}
           IN IsFiniteSet(R) /\ Cardinality(R) = Cardinality(T)
<1> DEFINE R == {<<k, copies[k]>> : k \in T}
           f == [k \in T |-> <<k, copies[k]>>]
<1>1. f \in Bijection(T, R)
  BY DEF Bijection, Injection, Surjection, IsInjective
<1>2. ExistsBijection(T, R)
  BY <1>1 DEF ExistsBijection
<1> QED BY <1>2, FS_Bijection

LEMMA MinOfTwo ==
    ASSUME NEW a \in Nat, NEW b \in Nat
    PROVE  /\ Min({a, b}) \in {a, b}
           /\ Min({a, b}) <= a /\ Min({a, b}) <= b
<1>1. \E x \in {a, b} : \A y \in {a, b} : x <= y
  BY SMT
<1> QED BY <1>1 DEF Min

(* Whichever of the trips rated in one second ClickHouse puts first, the    *)
(* twenty it takes are most recent ones, each once.                         *)
LEMMA RatingOK ==
    ASSUME IInv, IsFiniteSet(Keys), NEW d, NEW S \in RecentTrips(d)
    PROVE  OfLastTrips(d, S)
<1> DEFINE trips == {k \in ingested : event[k].driver = d}
           row(k) == <<k, copies[k]>>
           K == {k \in trips : row(k) \in S}
<1>1. trips \subseteq Keys /\ IsFiniteSet(trips) /\ Cardinality(trips) \in Nat
  BY FS_Subset, FS_CardinalityType DEF IInv, TypeOK
<1>2. RatedRows(d) = {row(k) : k \in trips}
  BY FinalRowsOfIngested DEF RatedRows
<1>3. S = {row(k) : k \in K} /\ S \subseteq RatedRows(d)
  <2>1. S \subseteq RatedRows(d)
    BY DEF RecentTrips
  <2>2. \A r \in S : \E k \in trips : r = row(k)
    BY <1>2, <2>1
  <2>3. \A r \in S : \E k \in K : r = row(k)
    BY <2>2
  <2>4. \A k \in K : row(k) \in S
    OBVIOUS
  <2> HIDE DEF K
  <2> QED BY <2>1, <2>3, <2>4
<1>4. IsFiniteSet(K) /\ Cardinality(K) \in Nat /\ K \subseteq trips
  BY <1>1, FS_Subset, FS_CardinalityType
<1>5. /\ Cardinality(S) = Cardinality(K)
      /\ Cardinality(RatedRows(d)) = Cardinality(trips)
  <2>1. Cardinality({row(k) : k \in K}) = Cardinality(K)
    BY <1>4, RowsOfKeys, Zenon
  <2>2. Cardinality({row(k) : k \in trips}) = Cardinality(trips)
    BY <1>1, RowsOfKeys, Zenon
  <2> QED BY <1>2, <1>3, <2>1, <2>2, Zenon
<1>6. /\ Cardinality(K) \in {LastTrips, Cardinality(trips)}
      /\ Cardinality(K) <= LastTrips
  <2>1. Cardinality(S) = Min({LastTrips, Cardinality(RatedRows(d))})
    BY DEF RecentTrips
  <2>2. Cardinality(K) = Min({LastTrips, Cardinality(trips)})
    BY <1>5, <2>1, Zenon
  <2>3. LastTrips \in Nat
    BY DEF AnalyticsAssumption
  <2> HIDE DEF trips, K
  <2> QED BY <1>1, <2>2, <2>3, MinOfTwo
<1>7. \A k \in K, j \in trips \ K : event[j].at <= event[k].at
  <2> SUFFICES ASSUME NEW k \in K, NEW j \in trips \ K PROVE event[j].at <= event[k].at
    OBVIOUS
  <2>1. row(k) \in S /\ row(j) \in RatedRows(d) \ S
    BY <1>2
  <2>2. \A r \in S, q \in RatedRows(d) \ S : At(q) <= At(r)
    BY DEF RecentTrips
  <2>3. At(row(j)) <= At(row(k))
    BY <2>1, <2>2
  <2>4. row(j)[1] = j /\ row(k)[1] = k
    OBVIOUS
  <2> QED BY <2>3, <2>4, Zenon DEF At
<1>8. \A k \in trips : event[k].at \in Nat
  BY <1>1 DEF IInv, TypeOK
<1>9. \A r \in S : r[1] \in K /\ r = row(r[1])
  <2> SUFFICES ASSUME NEW r \in S PROVE r[1] \in K /\ r = row(r[1])
    OBVIOUS
  <2>1. PICK k \in K : r = row(k)
    BY <1>3
  <2>2. r[1] = k
    BY <2>1
  <2> QED BY <2>1, <2>2, Zenon
<1>10. \A k \in trips : (\E r \in S : r[1] = k) <=> k \in K
  <2> SUFFICES ASSUME NEW k \in trips PROVE (\E r \in S : r[1] = k) <=> k \in K
    OBVIOUS
  <2>1. row(k)[1] = k
    OBVIOUS
  <2> QED BY <1>9, <2>1
<1>13. \A r, q \in S : r[1] = q[1] => r = q
  <2> SUFFICES ASSUME NEW r \in S, NEW q \in S, r[1] = q[1] PROVE r = q
    OBVIOUS
  <2>1. r = row(r[1]) /\ q = row(q[1])
    BY <1>9, Zenon
  <2> QED BY <2>1, Zenon
<1>11. ASSUME NEW k \in trips,
              Cardinality({j \in trips \ {k} : event[j].at >= event[k].at}) < LastTrips,
              k \notin K
       PROVE  FALSE
  <2> DEFINE ahead == {j \in trips \ {k} : event[j].at >= event[k].at}
  <2>1. K \subseteq ahead
    BY <1>4, <1>7, <1>8, <1>11
  <2>2. IsFiniteSet(ahead) /\ Cardinality(ahead) \in Nat
    BY <1>1, FS_Subset, FS_CardinalityType
  <2>3. Cardinality(K) <= Cardinality(ahead)
    BY <2>1, <2>2, FS_Subset
  <2>4. Cardinality(K) = Cardinality(trips)
    BY <1>4, <1>6, <1>11, <2>2, <2>3
  <2>5. K = trips
    BY <1>1, <1>4, <2>4, FS_Subset
  <2> QED BY <1>11, <2>5
<1>12. ASSUME NEW k \in K
       PROVE  Cardinality({j \in trips : event[j].at > event[k].at}) < LastTrips
  <2> DEFINE later == {j \in trips : event[j].at > event[k].at}
  <2>1. later \subseteq K \ {k}
    <3> SUFFICES ASSUME NEW j \in later PROVE j \in K \ {k}
      OBVIOUS
    <3>1. j \in trips /\ event[j].at > event[k].at /\ event[j].at \in Nat /\ event[k].at \in Nat
      BY <1>4, <1>8
    <3>2. j \in K
      BY <1>7, <3>1
    <3> QED BY <3>1, <3>2
  <2>2. IsFiniteSet(K \ {k}) /\ Cardinality(K \ {k}) = Cardinality(K) - 1
    BY <1>4, FS_RemoveElement
  <2>3. IsFiniteSet(later) /\ Cardinality(later) <= Cardinality(K) - 1
    <3> HIDE DEF later, K
    <3> QED BY <2>1, <2>2, FS_Subset
  <2>4. Cardinality(later) \in Nat
    BY <2>3, FS_CardinalityType
  <2>5. LastTrips \in Nat
    BY DEF AnalyticsAssumption
  <2> QED BY <1>4, <1>6, <2>3, <2>4, <2>5
<1> QED BY <1>13, <1>10, <1>11, <1>12 DEF OfLastTrips

(* The rating of every driver is about the last twenty trips rated, each    *)
(* counted once, whatever was redelivered (GetDriverRatingStats).           *)
THEOREM RatingCorrect == IsFiniteSet(Keys) => (Spec => []RatingIsOfLastTrips)
<1> SUFFICES ASSUME IsFiniteSet(Keys) PROVE Spec => []RatingIsOfLastTrips
  OBVIOUS
<1>1. IInv => RatingIsOfLastTrips
  <2> SUFFICES ASSUME IInv, NEW d \in {e.driver : e \in Events}, NEW S \in RecentTrips(d)
               PROVE  OfLastTrips(d, S)
    BY DEF RatingIsOfLastTrips
  <2> QED BY RatingOK
<1> QED BY <1>1, Invariance, PTL

-----------------------------------------------------------------------------
(* Reports *)

LEMMA BetweenIsFinite ==
    ASSUME IInv, IsFiniteSet(Keys), NEW range
    PROVE  IsFiniteSet(Between(range))
<1>1. IsFiniteSet(ingested)
  BY FS_Subset DEF IInv, TypeOK
<1>2. IsFiniteSet({<<k, copies[k]>> : k \in ingested})
  BY <1>1, RowsOfKeys, Zenon
<1>3. IsFiniteSet(FinalRows)
  BY <1>2, FinalRowsOfIngested, Zenon
<1> QED BY <1>3, FS_Subset DEF Between

(* A report adds up the groups it is about, and with them the rows.         *)
LEMMA GroupsAddUp ==
    ASSUME IInv, IsFiniteSet(Keys), NEW range, NEW G \in SUBSET Groups(range)
    PROVE  SumFunctionOnSet(GroupCounts(range), G)
              = Cardinality({r \in Between(range) : GroupOf(r) \in G})
<1> DEFINE B == Between(range)
           of == [r \in B |-> GroupOf(r)]
<1>1. IsFiniteSet(B)
  BY BetweenIsFinite
<1>2. IsFiniteSet(G)
  <2>1. IsFiniteSet({of[r] : r \in B})
    <3> HIDE DEF B, of
    <3> QED BY <1>1, PartsAreFinite
  <2>2. {of[r] : r \in B} = Groups(range)
    BY DEF Groups
  <2> HIDE DEF of
  <2> QED BY <2>1, <2>2, FS_Subset
<1>3. ASSUME NEW g \in G
      PROVE  GroupCounts(range)[g] = Cardinality(Within(B, of, {g}))
  <2>1. Within(B, of, {g}) = {r \in B : GroupOf(r) = g}
    BY DEF Within
  <2> QED BY <2>1 DEF GroupCounts
<1>4. Within(B, of, G) = {r \in B : GroupOf(r) \in G}
  BY DEF Within
<1> HIDE DEF of, B
<1>5. SumFunctionOnSet(GroupCounts(range), G) = Cardinality(Within(B, of, G))
  BY <1>1, <1>2, <1>3, SumOfParts
<1> QED BY <1>4, <1>5 DEF B

LEMMA TotalIsAll ==
    ASSUME IInv, IsFiniteSet(Keys), NEW range
    PROVE  TotalOrders(range) = Cardinality(Between(range))
<1>1. {r \in Between(range) : GroupOf(r) \in Groups(range)} = Between(range)
  BY DEF Groups
<1>2. Groups(range) \in SUBSET Groups(range)
  OBVIOUS
<1> QED BY <1>1, <1>2, GroupsAddUp DEF TotalOrders

(* The daily counts count every row on one day.                             *)
LEMMA DailyOK == ASSUME IInv, IsFiniteSet(Keys) PROVE DailyAgreesWithStats
<1> SUFFICES ASSUME NEW range
             PROVE  /\ SumFunctionOnSet(DailyOrderCounts(range), DOMAIN DailyOrderCounts(range))
                          = TotalOrders(range)
                    /\ \A d \in DOMAIN DailyOrderCounts(range) : DailyOrderCounts(range)[d] > 0
  BY Zenon DEF DailyAgreesWithStats
<1> DEFINE B == Between(range)
           of == [r \in B |-> Day(At(r))]
           days == {of[r] : r \in B}
           daily == DailyOrderCounts(range)
<1>1. IsFiniteSet(B)
  BY BetweenIsFinite
<1>2. IsFiniteSet(days)
  <2> HIDE DEF B, of
  <2> QED BY <1>1, PartsAreFinite
<1>3. days = {Day(At(r)) : r \in B}
  OBVIOUS
<1>4. DOMAIN daily = days
  BY <1>3 DEF DailyOrderCounts
<1>5. ASSUME NEW d \in days PROVE daily[d] = Cardinality(Within(B, of, {d}))
  <2>1. Within(B, of, {d}) = {r \in B : Day(At(r)) = d}
    BY DEF Within
  <2> QED BY <1>3, <2>1 DEF DailyOrderCounts
<1>6. Within(B, of, days) = B
  BY DEF Within
<1>7. \A d \in days : Within(B, of, {d}) # {}
  BY DEF Within
<1> HIDE DEF B, of, days, daily
<1>8. SumFunctionOnSet(daily, days) = Cardinality(Within(B, of, days))
  BY <1>1, <1>2, <1>5, SumOfParts
<1>9. ASSUME NEW d \in days PROVE daily[d] > 0
  <2> DEFINE part == Within(B, of, {d})
  <2>1. IsFiniteSet(part) /\ part # {}
    BY <1>1, <1>7, FS_Subset DEF Within
  <2> HIDE DEF part
  <2>2. Cardinality(part) \in Nat /\ Cardinality(part) # 0
    BY <2>1, FS_CardinalityType, FS_EmptySet
  <2>3. daily[d] = Cardinality(part)
    BY <1>5 DEF part
  <2> QED BY <2>2, <2>3
<1>10. TotalOrders(range) = Cardinality(B)
  BY TotalIsAll DEF B
<1>11. SumFunctionOnSet(daily, DOMAIN daily) = TotalOrders(range)
  BY <1>4, <1>6, <1>8, <1>10
<1> QED BY <1>4, <1>9, <1>11 DEF daily

(* A day begins at a multiple of its length and ends before the next.       *)
LEMMA DayBounds ==
    ASSUME NEW x \in Nat, NEW a \in Int
    PROVE  /\ a * DayLength <= x <=> a <= Day(x)
           /\ x < (a + 1) * DayLength <=> Day(x) <= a
           /\ Day(x) \in Int
<1>1. DayLength \in Nat /\ DayLength > 0
  BY DEF AnalyticsAssumption
<1> DEFINE L == DayLength
           q == x \div L
<1>2. q \in Int /\ L * q <= x /\ x < L * q + L
  BY <1>1, SMTT(30)
<1> HIDE DEF q, L
<1>3. \A u, v \in Int : u <= v => L * u <= L * v
  BY <1>1, SMTT(30) DEF L
<1>4. \A u \in Int : L * (u + 1) = L * u + L /\ L * u \in Int /\ L * u = u * L
  BY <1>1, SMTT(30) DEF L
<1>5. ASSUME NEW u \in Int PROVE u * L <= x <=> u <= q
  <2>1. CASE u <= q
    <3>1. L * u <= L * q /\ L * u \in Int /\ L * q \in Int /\ L * u = u * L
      BY <1>2, <1>3, <1>4, <2>1
    <3> QED BY <1>2, <2>1, <3>1
  <2>2. CASE q < u
    <3>1. q + 1 \in Int /\ q + 1 <= u
      BY <1>2, <2>2
    <3>2. L * (q + 1) <= L * u /\ L * (q + 1) = L * q + L
      BY <1>2, <1>3, <1>4, <3>1
    <3>3. L * u \in Int /\ L * q \in Int /\ L * u = u * L /\ L \in Int
      BY <1>1, <1>2, <1>4 DEF L
    <3> QED BY <1>2, <2>2, <3>2, <3>3
  <2> QED BY <1>2, <2>1, <2>2
<1>6. (a + 1) * L \in Int /\ a + 1 \in Int
  BY <1>4
<1>7. x < (a + 1) * L <=> q <= a
  <2>1. (a + 1) * L <= x <=> a + 1 <= q
    BY <1>5, <1>6
  <2> QED BY <1>2, <1>6, <2>1
<1> QED BY <1>2, <1>5, <1>7 DEF q, L, Day

(* The keys a request for whole days covers.                                *)
OfDays(a, b) == {k \in ingested : Day(event[k].at) \in a..b}

LEMMA BetweenDays ==
    ASSUME IInv, NEW a \in Int, NEW b \in Int
    PROVE  Between(ParseDateRange([from |-> <<a>>, to |-> <<b>>]))
              = {<<k, copies[k]>> : k \in OfDays(a, b)}
<1> DEFINE range == ParseDateRange([from |-> <<a>>, to |-> <<b>>])
           row(k) == <<k, copies[k]>>
<1>1. range.from = a * DayLength /\ range.to = (b + 1) * DayLength
  <2>1. <<a>> # <<>> /\ <<b>> # <<>> /\ <<a>>[1] = a /\ <<b>>[1] = b
    OBVIOUS
  <2> QED BY <2>1 DEF ParseDateRange
<1>2. FinalRows = {row(k) : k \in ingested}
  BY FinalRowsOfIngested, Zenon
<1>3. ASSUME NEW k \in ingested
      PROVE  range.from <= At(row(k)) /\ At(row(k)) < range.to <=> Day(event[k].at) \in a..b
  <2>1. event[k].at \in Nat /\ At(row(k)) = event[k].at
    BY <1>3 DEF IInv, TypeOK, At
  <2>2. Day(event[k].at) \in Int
    BY <2>1, DayBounds
  <2>3. /\ a * DayLength <= event[k].at <=> a <= Day(event[k].at)
        /\ event[k].at < (b + 1) * DayLength <=> Day(event[k].at) <= b
    BY <2>1, DayBounds
  <2> QED BY <1>1, <2>1, <2>2, <2>3
<1> HIDE DEF range
<1>4. Between(range) = {r \in FinalRows : range.from <= At(r) /\ At(r) < range.to}
  BY DEF Between
<1>5. Between(range) = {row(k) : k \in OfDays(a, b)}
  BY <1>2, <1>3, <1>4 DEF OfDays
<1> QED BY <1>5 DEF range

(* Rows of keys with a property are as many as the keys.                    *)
LEMMA CountRows ==
    ASSUME NEW T, IsFiniteSet(T), NEW S, NEW R,
           S = {<<k, copies[k]>> : k \in T},
           R \subseteq S, NEW U \in SUBSET T,
           \A k \in T : <<k, copies[k]>> \in R <=> k \in U
    PROVE  Cardinality(R) = Cardinality(U)
<1>1. R = {<<k, copies[k]>> : k \in U}
  OBVIOUS
<1>2. IsFiniteSet(U)
  BY FS_Subset
<1>3. Cardinality({<<k, copies[k]>> : k \in U}) = Cardinality(U)
  BY <1>2, RowsOfKeys, Zenon
<1> QED BY <1>1, <1>3

LEMMA StatsOK == ASSUME IInv, IsFiniteSet(Keys) PROVE StatsAreExact
<1>1. Days \subseteq Int
  <2>1. Now \in Nat /\ \A k \in Keys : event[k].at \in Nat
    BY DEF AnalyticsAssumption, IInv, TypeOK
  <2>2. \A x \in Nat : Day(x) \in Int
    BY DayBounds
  <2> QED BY <2>1, <2>2 DEF Days
<1> SUFFICES ASSUME NEW a \in Int, NEW b \in Int
             PROVE  LET range  == ParseDateRange([from |-> <<a>>, to |-> <<b>>])
                        orders == OfDays(a, b)
                    IN /\ TotalOrders(range) = Cardinality(orders)
                       /\ \A e \in Events :
                             /\ CountByStatus(range, e.status)
                                  = Cardinality({k \in orders : event[k].status = e.status})
                             /\ CountByTaxiType(range, e.taxi_type)
                                  = Cardinality({k \in orders : event[k].taxi_type = e.taxi_type})
  BY <1>1, Zenon DEF StatsAreExact, OfDays
<1> DEFINE range == ParseDateRange([from |-> <<a>>, to |-> <<b>>])
           orders == OfDays(a, b)
           B == Between(range)
           row(k) == <<k, copies[k]>>
<1>2. IsFiniteSet(orders)
  BY FS_Subset DEF OfDays, IInv, TypeOK
<1>3. B = {row(k) : k \in orders}
  BY BetweenDays, Zenon
<1>4. \A k \in orders : GroupOf(row(k)) = <<event[k].status, event[k].taxi_type>>
  BY DEF GroupOf
<1>5. \A r \in B : GroupOf(r) \in Groups(range)
  BY DEF Groups
<1> HIDE DEF range, orders, B
<1>6. TotalOrders(range) = Cardinality(orders)
  <2>1. TotalOrders(range) = Cardinality(B)
    BY TotalIsAll DEF B
  <2>2. Cardinality(B) = Cardinality(orders)
    BY <1>2, <1>3, RowsOfKeys, Zenon
  <2> QED BY <2>1, <2>2
<1>7. ASSUME NEW s
      PROVE  CountByStatus(range, s) = Cardinality({k \in orders : event[k].status = s})
  <2> DEFINE G == {g \in Groups(range) : g[1] = s}
             R == {r \in B : GroupOf(r) \in G}
             U == {k \in orders : event[k].status = s}
  <2>1. CountByStatus(range, s) = Cardinality(R)
    <3>1. G \in SUBSET Groups(range)
      OBVIOUS
    <3> HIDE DEF G
    <3>2. SumFunctionOnSet(GroupCounts(range), G) = Cardinality(R)
      BY <3>1, GroupsAddUp DEF B
    <3> QED BY <3>2 DEF CountByStatus, G
  <2>2. \A k \in orders : row(k) \in R <=> k \in U
    BY <1>3, <1>4, <1>5
  <2>3. R \subseteq B /\ U \in SUBSET orders
    OBVIOUS
  <2> HIDE DEF R, U
  <2>4. Cardinality(R) = Cardinality(U)
    BY <1>2, <1>3, <2>2, <2>3, CountRows
  <2> QED BY <2>1, <2>4 DEF U
<1>8. ASSUME NEW t
      PROVE  CountByTaxiType(range, t) = Cardinality({k \in orders : event[k].taxi_type = t})
  <2> DEFINE G == {g \in Groups(range) : g[2] = t}
             R == {r \in B : GroupOf(r) \in G}
             U == {k \in orders : event[k].taxi_type = t}
  <2>1. CountByTaxiType(range, t) = Cardinality(R)
    <3>1. G \in SUBSET Groups(range)
      OBVIOUS
    <3> HIDE DEF G
    <3>2. SumFunctionOnSet(GroupCounts(range), G) = Cardinality(R)
      BY <3>1, GroupsAddUp DEF B
    <3> QED BY <3>2 DEF CountByTaxiType, G
  <2>2. \A k \in orders : row(k) \in R <=> k \in U
    BY <1>3, <1>4, <1>5
  <2>3. R \subseteq B /\ U \in SUBSET orders
    OBVIOUS
  <2> HIDE DEF R, U
  <2>4. Cardinality(R) = Cardinality(U)
    BY <1>2, <1>3, <2>2, <2>3, CountRows
  <2> QED BY <2>1, <2>4 DEF U
<1> QED BY <1>6, <1>7, <1>8 DEF range, orders

(* GetOrderStats and GetDailyOrderCounts count every order ingested on a    *)
(* day that was asked for, once, under its status, its taxi type and its    *)
(* day, for any events, lengths of a day and deliveries.                    *)
THEOREM ReportsCorrect == ASSUME IsFiniteSet(Keys) PROVE Spec => []ReportsAreExact
<1>1. IInv => ReportsAreExact
  BY StatsOK, DailyOK DEF ReportsAreExact
<1> QED BY <1>1, Invariance, PTL
=============================================================================
