------------------------------ MODULE Analytics ------------------------------
(***************************************************************************)
(* Analytics: one topic, the consumer group of analytic_service that reads *)
(* it and the ClickHouse table it fills.  order_created, order_rated and   *)
(* user_registered have a group and a table each and share nothing, so a   *)
(* behaviour follows one of them; an event carries the fields of all.  The *)
(* table is a ReplacingMergeTree ordered by the key of the event: an event *)
(* inserted twice stays twice until a background merge, and a SELECT FINAL *)
(* reads it once.  The copies differ in ingested_at alone, so the table is *)
(* a count of copies.                                                      *)
(*                                                                         *)
(* Time is counted in instants, DayLength of them to a day.  An instant of *)
(* an event is an RFC 3339 second, so two events may share one.            *)
(***************************************************************************)
EXTENDS Integers, Sequences, FiniteSets, FiniteSetsExt

CONSTANTS Keys,        \* order ids or user ids: an event each
          Events,      \* contents: [at, status, taxi_type, driver, rating]
          DayLength,   \* instants of a day
          Now,         \* the instant of the requests
          Period,      \* days a request covers by default (30)
          LastTrips,   \* trips a rating is about (20)
          MaxCopies,   \* bound: copies of a row
          Faults       \* what may fail

Causes == {"clickhouse",   \* the table
           "process"}      \* the consumer dies, is stopped or is rebalanced

ASSUME AnalyticsAssumption ==
    /\ \A e \in Events : e.at \in Nat /\ e.rating \in 1..5
    /\ DayLength \in Nat \ {0} /\ Now \in Nat /\ Period \in Nat
    /\ LastTrips \in Nat \ {0} /\ MaxCopies \in Nat \ {0}
    /\ Faults \subseteq Causes

VARIABLES event,       \* event[k]: the content of the event of k
          log,         \* the topic
          position,    \* messages the consumer is past, and has marked
          committed,   \* messages it has committed
          copies,      \* copies[k]: rows of k in the table
          ingested,    \* history: keys whose insert was carried out
          dropped      \* history: the other keys whose insert was tried

vars == <<event, log, position, committed, copies, ingested, dropped>>

TypeOK ==
    /\ event \in [Keys -> Events]
    /\ log \in Seq(Keys)
    /\ position \in 0..Len(log) /\ committed \in 0..position
    /\ copies \in [Keys -> Nat]
    /\ ingested \subseteq Keys /\ dropped \subseteq Keys

Init ==
    /\ event \in [Keys -> Events]
    /\ log = <<>>
    /\ position = 0 /\ committed = 0
    /\ copies = [k \in Keys |-> 0]
    /\ ingested = {} /\ dropped = {}

Published == {log[i] : i \in 1..Len(log)}

(* An order or a user is published once. *)
Publish(k) ==
    /\ k \notin Published
    /\ log' = Append(log, k)
    /\ UNCHANGED <<event, position, committed, copies, ingested, dropped>>

Insert(k) ==
    /\ copies' = [copies EXCEPT ![k] = @ + 1]
    /\ ingested' = ingested \cup {k}
    /\ dropped' = dropped \ {k}

(* The insert fails, or the context of the session is cancelled under it. *)
Refuse(k) ==
    /\ Faults \cap {"clickhouse", "process"} # {}
    /\ dropped' = dropped \cup ({k} \ ingested)
    /\ UNCHANGED <<copies, ingested>>

(* One turn of ConsumeClaim: the message is handled and marked, whatever    *)
(* became of the insert.                                                    *)
Handle ==
    /\ position < Len(log)
    /\ Insert(log[position + 1]) \/ Refuse(log[position + 1])
    /\ position' = position + 1
    /\ UNCHANGED <<event, log, committed>>

(* Once a second what is marked is committed, if the brokers answer. *)
AutoCommit ==
    /\ committed < position
    /\ committed' = position
    /\ UNCHANGED <<event, log, position, copies, ingested, dropped>>

(* Mutant: a group starts at the end of the topic (OffsetNewest). *)
RestartNewest ==
    /\ "process" \in Faults
    /\ position' = Len(log) /\ committed' = Len(log)
    /\ UNCHANGED <<event, log, copies, ingested, dropped>>

(* The group goes on from what is committed, from the oldest message when   *)
(* nothing is.  Bound: no row is inserted more than MaxCopies times.        *)
Restart ==
    /\ "process" \in Faults
    /\ \A k \in Keys :
          copies[k] + Cardinality({i \in committed + 1..Len(log) : log[i] = k}) <= MaxCopies
    /\ position' = committed
    /\ UNCHANGED <<event, log, committed, copies, ingested, dropped>>

(* A background merge drops copies of a row, never the newest. *)
Merge(k) ==
    /\ copies[k] > 1
    /\ \E n \in 1..copies[k] - 1 : copies' = [copies EXCEPT ![k] = n]
    /\ UNCHANGED <<event, log, position, committed, ingested, dropped>>

Next ==
    \/ \E k \in Keys : Publish(k) \/ Merge(k)
    \/ Handle \/ AutoCommit \/ Restart

Spec == Init /\ [][Next]_vars

(* The consumer keeps consuming, and is now and then up for long enough to  *)
(* commit.                                                                  *)
Fairness == WF_vars(Handle) /\ SF_vars(AutoCommit)

LiveSpec == Spec /\ Fairness

-----------------------------------------------------------------------------
(* Queries *)

Rows == UNION {{k} \X (1..copies[k]) : k \in Keys}

(* Mutant: the query leaves FINAL out. *)
AllRows == Rows

(* SELECT FINAL: the last copy of every row. *)
FinalRows == {r \in Rows : r[2] = copies[r[1]]}

At(r) == event[r[1]].at

(* ?from and ?to are days, <<d>>, or left out, <<>>. *)
ParseDateRange(request) ==
    [from |-> IF request.from = <<>> THEN Now - Period * DayLength ELSE request.from[1] * DayLength,
     to   |-> IF request.to = <<>> THEN Now ELSE (request.to[1] + 1) * DayLength]

(* ErrInvalidDateRange otherwise. *)
ValidRange(range) == range.from <= range.to

Between(range) == {r \in FinalRows : range.from <= At(r) /\ At(r) < range.to}

(* GROUP BY status, taxi_type; the service adds the groups up. *)
GroupOf(r) == <<event[r[1]].status, event[r[1]].taxi_type>>

Groups(range) == {GroupOf(r) : r \in Between(range)}

GroupCounts(range) ==
    [g \in Groups(range) |-> Cardinality({r \in Between(range) : GroupOf(r) = g})]

CountByStatus(range, s) ==
    SumFunctionOnSet(GroupCounts(range), {g \in Groups(range) : g[1] = s})

CountByTaxiType(range, t) ==
    SumFunctionOnSet(GroupCounts(range), {g \in Groups(range) : g[2] = t})

TotalOrders(range) == SumFunctionOnSet(GroupCounts(range), Groups(range))

Day(instant) == instant \div DayLength

DailyOrderCounts(range) ==
    [d \in {Day(At(r)) : r \in Between(range)} |->
        Cardinality({r \in Between(range) : Day(At(r)) = d})]

RatedRows(d) == {r \in FinalRows : event[r[1]].driver = d}

(* Mutant: the oldest trips are taken. *)
OldestTrips(d) ==
    {S \in SUBSET RatedRows(d) :
        /\ Cardinality(S) = Min({LastTrips, Cardinality(RatedRows(d))})
        /\ \A r \in S, q \in RatedRows(d) \ S : At(q) >= At(r)}

(* ORDER BY rated_at DESC LIMIT 20: of trips rated in the same second any   *)
(* may come first.                                                          *)
RecentTrips(d) ==
    {S \in SUBSET RatedRows(d) :
        /\ Cardinality(S) = Min({LastTrips, Cardinality(RatedRows(d))})
        /\ \A r \in S, q \in RatedRows(d) \ S : At(q) <= At(r)}

-----------------------------------------------------------------------------
(* Properties *)

(* What the merges drop is never the last copy of a row: the table holds    *)
(* the events whose insert was carried out, however often they were         *)
(* delivered, and no other.                                                 *)
TableIsIngested == \A k \in Keys : copies[k] > 0 <=> k \in ingested

(* The group never comes back to a message it has committed, so by then the *)
(* message must have been inserted or its insert have failed.               *)
CommittedWasTried == \A i \in 1..committed : log[i] \in ingested \cup dropped

Days == {Day(event[k].at) : k \in Keys} \cup {Day(Now)}

(* "to" is inclusive of the whole day: a request for the days a to b counts *)
(* each order ingested that was created on one of them, once, whatever was  *)
(* redelivered and not yet merged, and counts it under its status and its   *)
(* taxi type.  A range that ends before it begins counts nothing.           *)
StatsAreExact ==
    \A a, b \in Days :
        LET range  == ParseDateRange([from |-> <<a>>, to |-> <<b>>])
            orders == {k \in ingested : Day(event[k].at) \in a..b}
        IN ValidRange(range) =>
              /\ TotalOrders(range) = Cardinality(orders)
              /\ \A e \in Events :
                    /\ CountByStatus(range, e.status)
                         = Cardinality({k \in orders : event[k].status = e.status})
                    /\ CountByTaxiType(range, e.taxi_type)
                         = Cardinality({k \in orders : event[k].taxi_type = e.taxi_type})

(* The two reports agree: over the same request, the last thirty days by    *)
(* default, the daily counts add up to the total of the statistics, and     *)
(* each is positive.                                                        *)
DailyAgreesWithStats ==
    \A from, to \in {<<>>} \cup {<<d>> : d \in Days} :
        LET range == ParseDateRange([from |-> from, to |-> to])
            daily == DailyOrderCounts(range)
        IN ValidRange(range) =>
              /\ SumFunctionOnSet(daily, DOMAIN daily) = TotalOrders(range)
              /\ \A d \in DOMAIN daily : daily[d] > 0

(* Both reports on orders are exact: an order counts on the day it was      *)
(* created, both ends of a request included, once however often its event   *)
(* was delivered, and the statistics and the daily counts add up.           *)
ReportsAreExact == StatsAreExact /\ DailyAgreesWithStats

OfLastTrips(d, S) ==
    LET trips == {k \in ingested : event[k].driver = d}
    IN /\ \A r, q \in S : r[1] = q[1] => r = q
       /\ \A k \in trips :
             LET rated == \E r \in S : r[1] = k
             IN /\ Cardinality({j \in trips \ {k} : event[j].at >= event[k].at}) < LastTrips
                      => rated
                /\ rated => Cardinality({j \in trips : event[j].at > event[k].at}) < LastTrips

(* "last 20 trips", not "all trips": a trip is in the rating when fewer     *)
(* than LastTrips others were rated no earlier, is not when as many were    *)
(* rated later, and no trip is in it twice.                                 *)
RatingIsOfLastTrips ==
    \A d \in {e.driver : e \in Events} : \A S \in RecentTrips(d) : OfLastTrips(d, S)

(* Every event that reached the topic is inserted, or was tried and failed, *)
(* however often the consumer is restarted.                                 *)
EveryEventIsTried == \A k \in Keys : k \in Published ~> k \in ingested \cup dropped

-----------------------------------------------------------------------------
(* The inductive invariant behind the safety properties *)

TriedOK == \A i \in 1..position : log[i] \in ingested \cup dropped

IInv == TypeOK /\ TableIsIngested /\ TriedOK
=============================================================================
