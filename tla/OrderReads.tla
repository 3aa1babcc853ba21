------------------------------ MODULE OrderReads ------------------------------
(***************************************************************************)
(* OrderReads: what order_service answers about orders.  A user, who rides *)
(* and drives, pages through ListOrders while orders are inserted and      *)
(* change; GetOrder and SearchOrders answer about the rows of any moment.  *)
(* The price of an order is here too.  Which document is in the index when *)
(* handlers race is left to OrderService: here a row's document is that of *)
(* the row.  A query that fails is answered with an error and is left out. *)
(*                                                                         *)
(* A pointer is <<>> or <<value>>.  Times are ticks, two to the second,    *)
(* from Go's zero time, the start of the year 1.                           *)
(***************************************************************************)
EXTENDS Naturals, Integers, Sequences, FiniteSets

CONSTANTS Orders,
          Me,                      \* the user who lists
          DriverType,              \* DriverType[d]: what driver d drives; Me may be one
          Trip,                    \* Trip[o]: its rider, taxi_type and metres
          Moves,                   \* statuses UpdateOrderStatus sets
          Ratings, Comments,       \* of RateTrip; comments are pointers
          Now,                     \* bound on created_at
          Limits, Offsets,         \* that the user may ask a list to begin with
          DefaultLimit, MaxLimit,  \* defaultListOrdersLimit, maxListOrdersLimit
          Searches                 \* requests for SearchOrders

VARIABLES rows,     \* the table: a partial function from Orders to rows
          phase,    \* where the user's ListOrders stands
          limit, offset,
          page,     \* the orders of the answer
          total,    \* its total
          seen,     \* orders in the answers so far
          first     \* history: the user's orders when the listing began

list == <<phase, limit, offset, page, total, seen, first>>
vars == <<rows, list>>

Phases == {"idle", "asking", "counting", "answered", "done"}

Pointers(values) == {<<>>} \cup [1..1 -> values]

StatusNames == {"created", "driver_assigned", "in_progress", "completed", "cancelled"}

TaxiTypeNames == {"economy", "comfort", "business"}

Requests ==
    [taxi_type : {"TAXI_TYPE_UNSPECIFIED", "TAXI_TYPE_ECONOMY", "TAXI_TYPE_COMFORT",
                  "TAXI_TYPE_BUSINESS"},
     status : {"STATUS_UNSPECIFIED", "STATUS_CREATED", "STATUS_DRIVER_ASSIGNED",
               "STATUS_IN_PROGRESS", "STATUS_COMPLETED", "STATUS_CANCELLED"},
     created_after : Pointers(Int), created_before : Pointers(Int),
     min_price : Int, max_price : Int]

ASSUME OrderReadsAssumption ==
    /\ \A o \in Orders : Trip[o].taxi_type \in TaxiTypeNames /\ Trip[o].metres \in Nat
    /\ Moves \subseteq StatusNames
    /\ Now \in Nat
    /\ Limits \subseteq Int /\ Offsets \subseteq Int
    /\ DefaultLimit \in Nat \ {0} /\ MaxLimit \in Nat \ {0}
    /\ \A req \in Searches : req \in Requests

Row == [user : {Trip[o].rider : o \in Orders}, driver : Pointers(DOMAIN DriverType),
        status : StatusNames, taxi_type : TaxiTypeNames, price : Pointers(Nat),
        rating : Pointers(Ratings), comment : {<<>>} \cup Comments, created_at : 1..Now]

TypeOK ==
    /\ DOMAIN rows \subseteq Orders
    /\ \A o \in DOMAIN rows : rows[o] \in Row
    /\ phase \in Phases /\ limit \in Int /\ offset \in Int
    /\ page \in Seq(Orders) /\ total \in Nat
    /\ seen \subseteq Orders /\ first \subseteq Orders

Init ==
    /\ rows = <<>>
    /\ phase = "idle"
    /\ limit = 0 /\ offset = 0
    /\ page = <<>> /\ total = 0
    /\ seen = {} /\ first = {}

-----------------------------------------------------------------------------
(* Prices, in minor units. *)
BaseFare == [economy |-> 200, comfort |-> 300, business |-> 500]

(* Mutant: two rates are swapped. *)
PerKmRateSwapped == [economy |-> 15, comfort |-> 40, business |-> 25]

PerKmRate == [economy |-> 15, comfort |-> 25, business |-> 40]

(* math.Round of the rate times the distance in km. *)
PriceForTrip(taxi_type, metres) ==
    BaseFare[taxi_type] + (PerKmRate[taxi_type] * metres + 500) \div 1000

-----------------------------------------------------------------------------
(* The writes of the other handlers, one row at a time. *)

(* created_at is the time the transaction began: rows need not become      *)
(* visible in its order.                                                   *)
CreateOrder(o) ==
    /\ o \notin DOMAIN rows
    /\ \E t \in 1..Now \ {rows[p].created_at : p \in DOMAIN rows} :
          rows' = [p \in DOMAIN rows \cup {o} |->
                      IF p = o
                      THEN [user |-> Trip[o].rider, driver |-> <<>>, status |-> "created",
                            taxi_type |-> Trip[o].taxi_type,
                            price |-> <<PriceForTrip(Trip[o].taxi_type, Trip[o].metres)>>,
                            rating |-> <<>>, comment |-> <<>>, created_at |-> t]
                      ELSE rows[p]]
    /\ UNCHANGED list

(* The UPDATE asks for the id alone; that a row is given a driver once is   *)
(* due to CreateOrder, which makes one claim for the order it has inserted. *)
AssignDriver(o) ==
    /\ o \in DOMAIN rows /\ rows[o].driver = <<>>
    /\ \E d \in {e \in DOMAIN DriverType : DriverType[e] = rows[o].taxi_type} :
          rows' = [rows EXCEPT ![o].driver = <<d>>, ![o].status = "driver_assigned"]
    /\ UNCHANGED list

(* Only CancelOrder goes without a driver. *)
UpdateOrderStatus(o) ==
    /\ o \in DOMAIN rows
    /\ \E status \in Moves :
          /\ status = "cancelled" \/ rows[o].driver # <<>>
          /\ rows' = [rows EXCEPT ![o].status = status]
    /\ UNCHANGED list

RateOrder(o) ==
    /\ o \in DOMAIN rows /\ rows[o].status = "completed" /\ rows[o].rating = <<>>
    /\ \E r \in Ratings, c \in Comments :
          rows' = [rows EXCEPT ![o].rating = <<r>>, ![o].comment = c]
    /\ UNCHANGED list

-----------------------------------------------------------------------------
(* Mutant: only the rider may look at an order. *)
ViewableByRider(row, caller) == row.user = caller

(* GetOrder *)
Viewable(row, caller) == row.user = caller \/ row.driver = <<caller>>

(* Mutant: the list is of rides taken only. *)
MineAsRider == {o \in DOMAIN rows : rows[o].user = Me}

(* WHERE user_id = @user_id OR driver_id = @user_id *)
Mine == {o \in DOMAIN rows : rows[o].user = Me \/ rows[o].driver = <<Me>>}

Clamped(asked) ==
    IF asked <= 0 THEN DefaultLimit ELSE IF asked > MaxLimit THEN MaxLimit ELSE asked

(* Mutant: an offset is taken for none whatever it is. *)
AlwaysStart(asked) == 0

FromStart(asked) == IF asked < 0 THEN 0 ELSE asked

(* ORDER BY created_at DESC: the number of newer rows is a row's index. *)
Index(o) == Cardinality({p \in Mine : rows[p].created_at > rows[o].created_at})

Page(size, from) ==
    [i \in 1..Cardinality({o \in Mine : from <= Index(o) /\ Index(o) < from + size}) |->
        CHOOSE o \in Mine : Index(o) = from + i - 1]

(* The user asks for the first page. *)
Begin ==
    /\ phase = "idle"
    /\ phase' = "asking"
    /\ limit' \in Limits /\ offset' \in Offsets
    /\ first' = {o \in DOMAIN rows : rows[o].user = Me \/ rows[o].driver = <<Me>>}
    /\ UNCHANGED <<rows, page, total, seen>>

QueryPage ==
    /\ phase = "asking"
    /\ phase' = "counting"
    /\ page' = Page(Clamped(limit), FromStart(offset))
    /\ UNCHANGED <<rows, limit, offset, total, seen, first>>

(* A query of its own, without a transaction around the two. *)
QueryCount ==
    /\ phase = "counting"
    /\ phase' = "answered"
    /\ total' = Cardinality(Mine)
    /\ UNCHANGED <<rows, limit, offset, page, seen, first>>

(* The user goes on after the rows received until a page is empty. *)
Continue ==
    /\ phase = "answered"
    /\ seen' = seen \cup {page[i] : i \in 1..Len(page)}
    /\ IF page = <<>>
       THEN phase' = "done" /\ UNCHANGED offset
       ELSE phase' = "asking" /\ offset' = FromStart(offset) + Len(page)
    /\ page' = <<>> /\ total' = 0
    /\ UNCHANGED <<rows, limit, first>>

ListOrders == QueryPage \/ QueryCount

Write(o) == CreateOrder(o) \/ AssignDriver(o) \/ UpdateOrderStatus(o) \/ RateOrder(o)

Next ==
    \/ Begin \/ Continue \/ ListOrders
    \/ \E o \in Orders : Write(o)

Spec == Init /\ [][Next]_vars

(* A user who has begun goes on, and calls are answered. *)
Fairness == WF_vars(Continue) /\ WF_vars(ListOrders)

LiveSpec == Spec /\ Fairness

-----------------------------------------------------------------------------
(* Orders on the wire and in the index. *)
OrEmpty(pointer) == IF pointer = <<>> THEN "" ELSE pointer[1]

OrZero(pointer) == IF pointer = <<>> THEN 0 ELSE pointer[1]

Pointer(value, zero) == IF value = zero THEN <<>> ELSE <<value>>

TaxiTypes == [TAXI_TYPE_ECONOMY |-> "economy", TAXI_TYPE_COMFORT |-> "comfort",
              TAXI_TYPE_BUSINESS |-> "business"]

Statuses == [STATUS_CREATED |-> "created", STATUS_DRIVER_ASSIGNED |-> "driver_assigned",
             STATUS_IN_PROGRESS |-> "in_progress", STATUS_COMPLETED |-> "completed",
             STATUS_CANCELLED |-> "cancelled"]

(* Mutant: a status was forgotten. *)
FromProtoButCompleted(enum, value) ==
    IF value \in DOMAIN enum \ {"STATUS_COMPLETED"} THEN enum[value] ELSE ""

(* taxiTypeFromProto and statusFromProto *)
FromProto(enum, value) == IF value \in DOMAIN enum THEN enum[value] ELSE ""

(* taxiTypeToProto and statusToProto *)
ToProto(enum, value, unspecified) ==
    IF \E v \in DOMAIN enum : enum[v] = value
    THEN CHOOSE v \in DOMAIN enum : enum[v] = value
    ELSE unspecified

Second(t) == t \div 2

(* orderToProto: RFC3339 has no fraction of a second. *)
OrderToProto(o, row) ==
    [id |-> o, user_id |-> row.user, driver_id |-> OrEmpty(row.driver),
     taxi_type |-> ToProto(TaxiTypes, row.taxi_type, "TAXI_TYPE_UNSPECIFIED"),
     status |-> ToProto(Statuses, row.status, "STATUS_UNSPECIFIED"),
     price_minor_units |-> OrZero(row.price), created_at |-> Second(row.created_at),
     rating |-> OrZero(row.rating), comment |-> OrEmpty(row.comment)]

OrderDocumentFromDomain(row) ==
    [row EXCEPT !.driver = OrEmpty(@), !.price = OrZero(@), !.rating = OrZero(@),
                !.comment = OrEmpty(@)]

ToDomain(doc) ==
    [doc EXCEPT !.driver = Pointer(@, ""), !.price = Pointer(@, 0), !.rating = Pointer(@, 0),
                !.comment = Pointer(@, "")]

(* searchFilterFromProto: a bound that is not given stays zero, and one    *)
(* that is given as the zero time is zero too.                             *)
SearchFilterFromProto(req) ==
    [req EXCEPT !.taxi_type = FromProto(TaxiTypes, @), !.status = FromProto(Statuses, @),
                !.created_after = OrZero(@), !.created_before = OrZero(@)]

(* The index takes a bound without a fraction as the start of the second   *)
(* for gte and as its end for lte.  Whatever is zero is not asked of it.   *)
Satisfies(doc, filter) ==
    /\ filter.taxi_type # "" => doc.taxi_type = filter.taxi_type
    /\ filter.status # "" => doc.status = filter.status
    /\ filter.created_after # 0 => doc.created_at >= 2 * Second(filter.created_after)
    /\ filter.created_before # 0 => doc.created_at <= 2 * Second(filter.created_before) + 1
    /\ filter.min_price # 0 => doc.price >= filter.min_price
    /\ filter.max_price # 0 => doc.price <= filter.max_price

(* SearchOrders, all its pages together. *)
SearchOrders(req) ==
    LET documents == [o \in DOMAIN rows |-> OrderDocumentFromDomain(rows[o])]
        hits == {o \in DOMAIN rows : Satisfies(documents[o], SearchFilterFromProto(req))}
    IN  {OrderToProto(o, ToDomain(documents[o])) : o \in hits}

-----------------------------------------------------------------------------
(* Paging misses nothing: when a user comes to an empty page, every order  *)
(* that was hers to see when she began has been in a page, whatever was    *)
(* inserted before it or assigned to her meanwhile.                        *)
NothingIsMissed == phase = "done" => first \subseteq seen

(* The list and GetOrder agree about whose an order is: each order that    *)
(* was ever in a page can be read by the one who listed it, for good.      *)
ListedCanBeRead ==
    \A o \in seen \cup {page[i] : i \in 1..Len(page)} : Viewable(rows[o], Me)

(* The total of an answer is not below the number of orders the user has   *)
(* been shown by then, although each total comes from a query of its own.  *)
TotalCoversPages ==
    phase = "answered" => total >= Cardinality(seen \cup {page[i] : i \in 1..Len(page)})

(* What a user reads is consistent: of the orders in a page, GetOrder shows *)
(* each to her, and the total, a query of its own, leaves none of them out, *)
(* while orders are inserted and assigned between the two queries.          *)
ListsAgree == ListedCanBeRead /\ TotalCoversPages

NewestFirst(orders) ==
    \A i, j \in DOMAIN orders :
        i < j => rows[orders[i]].created_at > rows[orders[j]].created_at

(* The user's orders laid out from the newest on, and of that the piece    *)
(* that begins behind the offset and is as long as the limit lets it be.   *)
IsAskedOfMine(orders) ==
    LET n == Cardinality(Mine)
        start == FromStart(offset)
        size == Clamped(limit)
    IN  \E all \in [1..n -> Mine] :
           /\ NewestFirst(all) /\ Mine = {all[i] : i \in 1..n}
           /\ orders = SubSeq(all, start + 1, IF start + size < n THEN start + size ELSE n)

(* A page is what it was asked for of the user's orders of that moment.    *)
PagesAreCut == [][QueryPage => IsAskedOfMine(page')]_vars

Rank == [economy |-> 1, comfort |-> 2, business |-> 3]

(* No trip has a lower price than one that is shorter, in a taxi of the    *)
(* same type or a cheaper one.                                             *)
PricesFollowTrips ==
    \A o, p \in DOMAIN rows :
        /\ Trip[o].metres <= Trip[p].metres
        /\ Rank[Trip[o].taxi_type] <= Rank[Trip[p].taxi_type]
        => OrZero(rows[o].price) <= OrZero(rows[p].price)

(* SearchOrders finds the orders that would be shown with what is asked    *)
(* for, all of them and no others, and shows them as GetOrder does: no     *)
(* criterion is lost on the way through the filter and the document, and a *)
(* bound in time holds for the time shown.  There is one that is lost: a   *)
(* created_before equal to Go's zero time asks for nothing, and every      *)
(* order meets it instead of none.                                         *)
Asked(req, order) ==
    /\ req.taxi_type \in {"TAXI_TYPE_UNSPECIFIED", order.taxi_type}
    /\ req.status \in {"STATUS_UNSPECIFIED", order.status}
    /\ req.min_price <= order.price_minor_units
    /\ req.max_price = 0 \/ order.price_minor_units <= req.max_price
    /\ req.created_after = <<>> \/ Second(req.created_after[1]) <= order.created_at
    /\ req.created_before \in {<<>>, <<0>>}
          \/ order.created_at <= Second(req.created_before[1])

SearchIsExact ==
    \A req \in Searches :
        SearchOrders(req) =
            {order \in {OrderToProto(o, rows[o]) : o \in DOMAIN rows} : Asked(req, order)}

(* The user comes to an end: a page is not answered over and over.         *)
PagingEnds == phase = "asking" ~> phase = "done"

-----------------------------------------------------------------------------
(* The inductive invariants behind these. *)

(* What an order was made with it keeps, and no two have one created_at. *)
RowsAgree ==
    /\ \A o \in DOMAIN rows :
          /\ rows[o].user = Trip[o].rider
          /\ rows[o].taxi_type = Trip[o].taxi_type
          /\ rows[o].price = <<PriceForTrip(Trip[o].taxi_type, Trip[o].metres)>>
    /\ \A o, p \in DOMAIN rows : rows[o].created_at = rows[p].created_at => o = p
    /\ IsFiniteSet(DOMAIN rows)

Shown == {page[i] : i \in 1..Len(page)}

(* A user is shown her own orders, which stay hers, and counted after the  *)
(* page was read they are no more than the total.                          *)
ShownAreMine ==
    /\ first \subseteq Mine
    /\ seen \cup Shown \subseteq Mine
    /\ TotalCoversPages

(* An order that has not been in a page lies behind what has been read,    *)
(* where inserts and assignments leave it or move it further on, and a     *)
(* page is empty only when nothing is behind it.                           *)
NothingIsPassed ==
    /\ phase = "asking" => \A o \in first \ seen : Index(o) >= FromStart(offset)
    /\ phase \in {"counting", "answered"} =>
          /\ \A o \in first \ (seen \cup Shown) : Index(o) >= FromStart(offset) + Len(page)
          /\ page = <<>> => first \subseteq seen
    /\ NothingIsMissed
=============================================================================
