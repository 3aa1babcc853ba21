---------------------------- MODULE OrderService ----------------------------
(***************************************************************************)
(* The order lifecycle of order_service, one action per externally visible *)
(* step of each handler.  Every handler is a goroutine that reads the row, *)
(* decides on that snapshot, then calls the wallet, the driver service,    *)
(* Postgres, Elasticsearch and Kafka one after the other; the steps of all *)
(* running handlers interleave, calls fail, and the process can die.       *)
(*                                                                         *)
(* CreateOrder runs once per order id (the id is generated by the call),   *)
(* so its control state is indexed by the order.  CancelOrder, StartTrip,  *)
(* CompleteTrip and RateTrip run in Slots; a slot is reused, so Slots      *)
(* bounds how many of these calls overlap and not how many there are.      *)
(* A call that is turned away by its first checks changes nothing, and is  *)
(* left out.                                                               *)
(***************************************************************************)
EXTENDS Ledger

CONSTANTS Drivers,         \* drivers registered with driver_service
          TaxiTypes,       \* taxi types
          OrderType,       \* OrderType[o]: the taxi type asked for
          DriverType,      \* DriverType[d]: the taxi type driven
          Ratings,         \* ratings a rider may give
          Slots,           \* the calls on existing orders that may overlap
          Faults,          \* the dependencies that may fail
          SelfSet,         \* statuses drivers set for themselves
          NoDriver, NoRating, NoOrder

Dependencies == {"wallet", "db", "driver", "search", "kafka", "process"}

PoolStatuses == {"available", "on-trip", "offline"}

ASSUME OrderServiceAssumption ==
    /\ OrderType \in [Orders -> TaxiTypes]
    /\ DriverType \in [Drivers -> TaxiTypes]
    /\ Faults \subseteq Dependencies
    /\ SelfSet \subseteq PoolStatuses
    /\ NoDriver \notin Drivers
    /\ NoRating \notin Ratings
    /\ NoOrder \notin Orders

VARIABLES row,       \* row[o]: the order's row in Postgres
          indexed,   \* indexed[o]: its document in the search index
          pool,      \* pool[d]: the driver's status in driver_service
          created,   \* created[o]: statuses carried by order_created events
          rated,     \* rated[o]: <<driver, rating>> carried by order_rated events
          step,      \* step[o]: where CreateOrder stands
          made,      \* made[o]: CreateOrder's variable "order"
          claimed,   \* claimed[o]: the driver CreateOrder has claimed
          op,        \* op[s]: the call running in a slot
          target,    \* target[s]: the order it is about
          at,        \* at[s]: where it stands
          seen,      \* seen[s]: the row it read, then the row it wrote
          stars      \* stars[s]: the rating it carries

outside  == <<indexed, pool, created, rated>>
creation == <<step, made, claimed>>
calls    == <<op, target, at, seen, stars>>
vars     == <<balance, debits, credits, row, indexed, pool, created, rated,
              step, made, claimed, op, target, at, seen, stars>>

-----------------------------------------------------------------------------
Statuses == {"created", "driver_assigned", "in_progress", "completed", "cancelled"}

Row == [status : Statuses \cup {"none"},
        driver : Drivers \cup {NoDriver},
        rating : Ratings \cup {NoRating}]

NoRow == [status |-> "none", driver |-> NoDriver, rating |-> NoRating]

Steps == {"new", "insert", "refund", "index", "claim", "assign", "release",
          "reindex", "publish", "done", "failed"}

Ops == {"none", "cancel", "start", "complete", "rate"}

Places == {"idle", "refund", "release", "write", "index", "publish"}

Exists(o) == row[o].status # "none"

TypeOK ==
    /\ LedgerTypeOK
    /\ row \in [Orders -> Row]
    /\ indexed \in [Orders -> Row]
    /\ pool \in [Drivers -> PoolStatuses]
    /\ created \in [Orders -> SUBSET Statuses]
    /\ rated \in [Orders -> SUBSET ((Drivers \cup {NoDriver})
                                       \X (Ratings \cup {NoRating}))]
    /\ step \in [Orders -> Steps]
    /\ made \in [Orders -> Row]
    /\ claimed \in [Orders -> Drivers \cup {NoDriver}]
    /\ op \in [Slots -> Ops]
    /\ target \in [Slots -> Orders \cup {NoOrder}]
    /\ at \in [Slots -> Places]
    /\ seen \in [Slots -> Row]
    /\ stars \in [Slots -> Ratings \cup {NoRating}]

Init ==
    /\ LedgerInit
    /\ row = [o \in Orders |-> NoRow]
    /\ indexed = [o \in Orders |-> NoRow]
    /\ pool \in [Drivers -> {"available", "offline"}]
    /\ created = [o \in Orders |-> {}]
    /\ rated = [o \in Orders |-> {}]
    /\ step = [o \in Orders |-> "new"]
    /\ made = [o \in Orders |-> NoRow]
    /\ claimed = [o \in Orders |-> NoDriver]
    /\ op = [s \in Slots |-> "none"]
    /\ target = [s \in Slots |-> NoOrder]
    /\ at = [s \in Slots |-> "idle"]
    /\ seen = [s \in Slots |-> NoRow]
    /\ stars = [s \in Slots |-> NoRating]

(* How a call to a dependency ends, as its caller sees it: "lost" is a call *)
(* that was carried out and whose answer never came back.                   *)
Ends(dependency) ==
    IF dependency \in Faults THEN {"ok", "refused", "lost"} ELSE {"ok"}

-----------------------------------------------------------------------------
(* CreateOrder *)

Goto(o, next) == step' = [step EXCEPT ![o] = next]

(* The handler returns: its locals are gone. *)
Return(o, how) ==
    /\ step' = [step EXCEPT ![o] = how]
    /\ made' = [made EXCEPT ![o] = NoRow]
    /\ claimed' = [claimed EXCEPT ![o] = NoDriver]

(* The charge comes first; whatever error it gives, the handler returns. *)
CreateCharge(o) ==
    /\ step[o] = "new"
    /\ \E end \in Ends("wallet") :
          \/ /\ end = "refused" \/ ~Chargeable(o)
             /\ Return(o, "failed")
             /\ UNCHANGED ledgerVars
          \/ /\ end # "refused"
             /\ Charge(o)
             /\ IF end = "ok"
                THEN Goto(o, "insert") /\ UNCHANGED <<made, claimed>>
                ELSE Return(o, "failed")
    /\ UNCHANGED <<row, outside, calls>>

InsertedRow == [NoRow EXCEPT !.status = "created"]

(* Mutant: a failed insert is returned without compensation. *)
CreateInsertNoRefund(o) ==
    /\ step[o] = "insert"
    /\ \E end \in Ends("db") :
          /\ row' = IF end = "refused" THEN row ELSE [row EXCEPT ![o] = InsertedRow]
          /\ made' = IF end = "ok" THEN [made EXCEPT ![o] = InsertedRow] ELSE made
          /\ Goto(o, IF end = "ok" THEN "index" ELSE "failed")
    /\ UNCHANGED <<ledgerVars, outside, claimed, calls>>

CreateInsert(o) ==
    /\ step[o] = "insert"
    /\ \E end \in Ends("db") :
          /\ row' = IF end = "refused" THEN row ELSE [row EXCEPT ![o] = InsertedRow]
          /\ made' = IF end = "ok" THEN [made EXCEPT ![o] = InsertedRow] ELSE made
          /\ Goto(o, IF end = "ok" THEN "index" ELSE "refund")
    /\ UNCHANGED <<ledgerVars, outside, claimed, calls>>

(* Compensation for a failed insert; its own failure is only logged. *)
CreateRefund(o) ==
    /\ step[o] = "refund"
    /\ \E end \in Ends("wallet") :
          IF end = "refused" THEN UNCHANGED ledgerVars ELSE Refund(o)
    /\ Return(o, "failed")
    /\ UNCHANGED <<row, outside, calls>>

(* IndexOrder writes the document of the row in hand, without a version. *)
IndexOrder(o, doc) ==
    \E end \in Ends("search") :
        indexed' = IF end = "refused" THEN indexed ELSE [indexed EXCEPT ![o] = doc]

CreateIndex(o) ==
    /\ \/ step[o] = "index"   /\ Goto(o, "claim")
       \/ step[o] = "reindex" /\ Goto(o, "publish")
    /\ IndexOrder(o, made[o])
    /\ UNCHANGED <<ledgerVars, row, pool, created, rated, made, claimed, calls>>

(* FindOneAndUpdate: an available driver of the type goes on-trip. *)
Claimable(o) == {d \in Drivers : pool[d] = "available" /\ DriverType[d] = OrderType[o]}

CreateClaim(o) ==
    /\ step[o] = "claim"
    /\ \E end \in Ends("driver") :
          \/ /\ end = "refused" \/ Claimable(o) = {}
             /\ Goto(o, "publish")
             /\ UNCHANGED <<pool, claimed>>
          \/ /\ end # "refused"
             /\ \E d \in Claimable(o) :
                   /\ pool' = [pool EXCEPT ![d] = "on-trip"]
                   /\ IF end = "ok"
                      THEN Goto(o, "assign") /\ claimed' = [claimed EXCEPT ![o] = d]
                      ELSE Goto(o, "publish") /\ UNCHANGED claimed
    /\ UNCHANGED <<ledgerVars, row, indexed, created, rated, made, calls>>

(* AssignDriver: UPDATE orders SET driver_id, status WHERE id. *)
Assigned(r, d) == [r EXCEPT !.status = "driver_assigned", !.driver = d]

(* Mutant: the document is built from the claim and not from the UPDATE. *)
CreateAssignAssumed(o) ==
    /\ step[o] = "assign"
    /\ \E end \in Ends("db") :
          row' = IF end = "refused" THEN row
                 ELSE [row EXCEPT ![o] = Assigned(@, claimed[o])]
    /\ made' = [made EXCEPT ![o] = Assigned(@, claimed[o])]
    /\ Goto(o, "reindex")
    /\ UNCHANGED <<ledgerVars, outside, claimed, calls>>

CreateAssign(o) ==
    /\ step[o] = "assign"
    /\ \E end \in Ends("db") :
          /\ row' = IF end = "refused" THEN row
                    ELSE [row EXCEPT ![o] = Assigned(@, claimed[o])]
          /\ made' = IF end = "ok" THEN [made EXCEPT ![o] = row'[o]] ELSE made
          /\ Goto(o, IF end = "ok" THEN "reindex" ELSE "release")
    /\ UNCHANGED <<ledgerVars, outside, claimed, calls>>

(* ReleaseDriver sets "available" whatever the driver is doing. *)
ReleaseDriver(d) ==
    \E end \in Ends("driver") :
        pool' = IF end = "refused" THEN pool ELSE [pool EXCEPT ![d] = "available"]

CreateRelease(o) ==
    /\ step[o] = "release"
    /\ ReleaseDriver(claimed[o])
    /\ Goto(o, "publish")
    /\ UNCHANGED <<ledgerVars, row, indexed, created, rated, made, claimed, calls>>

(* Mutant: the event is built from the claim and not from the order in hand. *)
CreatePublishClaim(o) ==
    /\ step[o] = "publish"
    /\ \E end \in Ends("kafka"), st \in Statuses :
          /\ st = IF claimed[o] # NoDriver THEN "driver_assigned" ELSE made[o].status
          /\ created' = IF end = "refused" THEN created
                        ELSE [created EXCEPT ![o] = @ \cup {st}]
    /\ Return(o, "done")
    /\ UNCHANGED <<ledgerVars, row, indexed, pool, rated, calls>>

CreatePublish(o) ==
    /\ step[o] = "publish"
    /\ \E end \in Ends("kafka") :
          created' = IF end = "refused" THEN created
                     ELSE [created EXCEPT ![o] = @ \cup {made[o].status}]
    /\ Return(o, "done")
    /\ UNCHANGED <<ledgerVars, row, indexed, pool, rated, calls>>

CreateOrder(o) ==
    \/ CreateCharge(o)  \/ CreateInsert(o) \/ CreateRefund(o)
    \/ CreateIndex(o)   \/ CreateClaim(o)  \/ CreateAssign(o)
    \/ CreateRelease(o) \/ CreatePublish(o)

-----------------------------------------------------------------------------
(* Calls on an existing order *)

(* The handler has returned: the slot is free and remembers nothing. *)
Leave(s) ==
    /\ at' = [at EXCEPT ![s] = "idle"]
    /\ op' = [op EXCEPT ![s] = "none"]
    /\ target' = [target EXCEPT ![s] = NoOrder]
    /\ seen' = [seen EXCEPT ![s] = NoRow]
    /\ stars' = [stars EXCEPT ![s] = NoRating]

Move(s, place) ==
    /\ at' = [at EXCEPT ![s] = place]
    /\ UNCHANGED <<op, target, seen, stars>>

(* Mutant: CancelOrder refuses only an order that is under way. *)
AllowedLateCancel(what, r) ==
    \/ what = "cancel"   /\ r.status # "in_progress"
    \/ what = "start"    /\ r.driver # NoDriver /\ r.status = "driver_assigned"
    \/ what = "complete" /\ r.driver # NoDriver /\ r.status = "in_progress"
    \/ what = "rate"     /\ r.status = "completed" /\ r.rating = NoRating

(* What the handler checks on the row it has just read.  The caller is the *)
(* order's rider (cancel, rate) or its assigned driver (start, complete).  *)
Allowed(what, r) ==
    \/ what = "cancel"   /\ r.status \in {"created", "driver_assigned"}
    \/ what = "start"    /\ r.driver # NoDriver /\ r.status = "driver_assigned"
    \/ what = "complete" /\ r.driver # NoDriver /\ r.status = "in_progress"
    \/ what = "rate"     /\ r.status = "completed" /\ r.rating = NoRating

(* Mutant: StartTrip releases the driver as CompleteTrip does. *)
FirstStartReleases(what) ==
    CASE what = "cancel" -> "refund" [] what \in {"start", "complete"} -> "release"
      [] OTHER -> "write"

First(what) ==
    CASE what = "cancel" -> "refund" [] what = "complete" -> "release" [] OTHER -> "write"

Begin(s, what, o, given) ==
    /\ at[s] = "idle"
    /\ Allowed(what, row[o])
    /\ op' = [op EXCEPT ![s] = what]
    /\ target' = [target EXCEPT ![s] = o]
    /\ at' = [at EXCEPT ![s] = First(what)]
    /\ seen' = [seen EXCEPT ![s] = row[o]]
    /\ stars' = [stars EXCEPT ![s] = given]
    /\ UNCHANGED <<ledgerVars, row, outside, creation>>

(* Mutant: the refund's error is logged instead of returned. *)
CancelRefundBestEffort(s) ==
    /\ at[s] = "refund"
    /\ \E end \in Ends("wallet") :
          /\ IF end = "refused" THEN UNCHANGED ledgerVars ELSE Refund(target[s])
          /\ Move(s, IF seen[s].driver # NoDriver THEN "release" ELSE "write")
    /\ UNCHANGED <<row, outside, creation>>

(* Mutant: CancelOrder forgets the driver. *)
CancelRefundKeepsDriver(s) ==
    /\ at[s] = "refund"
    /\ \E end \in Ends("wallet") :
          /\ IF end = "refused" THEN UNCHANGED ledgerVars ELSE Refund(target[s])
          /\ IF end = "ok" THEN Move(s, "write") ELSE Leave(s)
    /\ UNCHANGED <<row, outside, creation>>

(* CancelOrder: the refund gates the rest; the price is always positive. *)
CancelRefund(s) ==
    /\ at[s] = "refund"
    /\ \E end \in Ends("wallet") :
          /\ IF end = "refused" THEN UNCHANGED ledgerVars ELSE Refund(target[s])
          /\ IF end = "ok"
             THEN Move(s, IF seen[s].driver # NoDriver THEN "release" ELSE "write")
             ELSE Leave(s)
    /\ UNCHANGED <<row, outside, creation>>

(* CancelOrder and CompleteTrip release the driver of the row they read. *)
CallRelease(s) ==
    /\ at[s] = "release"
    /\ ReleaseDriver(seen[s].driver)
    /\ Move(s, "write")
    /\ UNCHANGED <<ledgerVars, row, indexed, created, rated, creation>>

(* Mutant: cancelling also clears driver_id. *)
WrittenClearsDriver(s, r) ==
    CASE op[s] = "cancel"   -> [r EXCEPT !.status = "cancelled", !.driver = NoDriver]
      [] op[s] = "start"    -> [r EXCEPT !.status = "in_progress"]
      [] op[s] = "complete" -> [r EXCEPT !.status = "completed"]
      [] op[s] = "rate"     -> [r EXCEPT !.rating = stars[s]]

(* The row the UPDATE leaves: the status is set whatever it was, the rating *)
(* is set only where it is null.                                            *)
Written(s, r) ==
    CASE op[s] = "cancel"   -> [r EXCEPT !.status = "cancelled"]
      [] op[s] = "start"    -> [r EXCEPT !.status = "in_progress"]
      [] op[s] = "complete" -> [r EXCEPT !.status = "completed"]
      [] op[s] = "rate"     -> [r EXCEPT !.rating = stars[s]]

(* Mutant: the UPDATE of a cancellation asks that the row be unassigned. *)
MatchesUnassigned(s, r) ==
    /\ op[s] = "rate" => r.rating = NoRating
    /\ op[s] = "cancel" => r.driver = NoDriver

(* The WHERE clause: RateOrder's also asks that the rating be null. *)
Matches(s, r) == op[s] = "rate" => r.rating = NoRating

(* Mutant: the row that was read is indexed instead of the row returned. *)
CallWriteIndexesRead(s) ==
    /\ at[s] = "write"
    /\ LET o == target[s] IN
       \E end \in Ends("db") :
          /\ row' = IF end # "refused" /\ Matches(s, row[o])
                    THEN [row EXCEPT ![o] = Written(s, @)] ELSE row
          /\ IF end = "ok" /\ Matches(s, row[o]) THEN Move(s, "index") ELSE Leave(s)
    /\ UNCHANGED <<ledgerVars, outside, creation>>

CallWrite(s) ==
    /\ at[s] = "write"
    /\ LET o == target[s] IN
       \E end \in Ends("db") :
          /\ row' = IF end # "refused" /\ Matches(s, row[o])
                    THEN [row EXCEPT ![o] = Written(s, @)] ELSE row
          /\ IF end = "ok" /\ Matches(s, row[o])
             THEN /\ at' = [at EXCEPT ![s] = "index"]
                  /\ seen' = [seen EXCEPT ![s] = row'[o]]
                  /\ UNCHANGED <<op, target, stars>>
             ELSE Leave(s)
    /\ UNCHANGED <<ledgerVars, outside, creation>>

CallIndex(s) ==
    /\ at[s] = "index"
    /\ IndexOrder(target[s], seen[s])
    /\ IF op[s] = "rate" THEN Move(s, "publish") ELSE Leave(s)
    /\ UNCHANGED <<ledgerVars, row, pool, created, rated, creation>>

RatePublish(s) ==
    /\ at[s] = "publish"
    /\ \E end \in Ends("kafka") :
          rated' = IF end = "refused" THEN rated
                   ELSE [rated EXCEPT ![target[s]] = @ \cup {<<seen[s].driver, seen[s].rating>>}]
    /\ Leave(s)
    /\ UNCHANGED <<ledgerVars, row, indexed, pool, created, creation>>

BeginCancel(s)   == \E o \in Orders : Begin(s, "cancel", o, NoRating)
BeginStart(s)    == \E o \in Orders : Begin(s, "start", o, NoRating)
BeginComplete(s) == \E o \in Orders : Begin(s, "complete", o, NoRating)
BeginRate(s)     == \E o \in Orders, n \in Ratings : Begin(s, "rate", o, n)

Continue(s) ==
    \/ CancelRefund(s) \/ CallRelease(s) \/ CallWrite(s) \/ CallIndex(s)
    \/ RatePublish(s)

-----------------------------------------------------------------------------
(* The environment *)

(* PATCH /profile/status: a driver sets any status at any time. *)
DriverSetsStatus(d) ==
    /\ \E st \in SelfSet : pool' = [pool EXCEPT ![d] = st]
    /\ UNCHANGED <<ledgerVars, row, indexed, created, rated, creation, calls>>

(* The process dies with every handler in it; nothing resumes them. *)
Crash ==
    /\ "process" \in Faults
    /\ step' = [o \in Orders |-> IF step[o] \in {"new", "done"} THEN step[o] ELSE "failed"]
    /\ made' = [o \in Orders |-> NoRow]
    /\ claimed' = [o \in Orders |-> NoDriver]
    /\ op' = [s \in Slots |-> "none"]
    /\ target' = [s \in Slots |-> NoOrder]
    /\ at' = [s \in Slots |-> "idle"]
    /\ seen' = [s \in Slots |-> NoRow]
    /\ stars' = [s \in Slots |-> NoRating]
    /\ UNCHANGED <<ledgerVars, row, outside>>

Next ==
    \/ \E o \in Orders : CreateOrder(o)
    \/ \E s \in Slots : BeginCancel(s) \/ BeginStart(s) \/ BeginComplete(s) \/ BeginRate(s)
    \/ \E s \in Slots : Continue(s)
    \/ \E d \in Drivers : DriverSetsStatus(d)
    \/ Crash

Spec == Init /\ [][Next]_vars

(* Once a handler has started, the Go runtime keeps running it. *)
Fairness == \A o \in Orders : WF_vars(step[o] # "new" /\ CreateOrder(o))

LiveSpec == Spec /\ Fairness

-----------------------------------------------------------------------------
(* Properties *)

(* An order row exists only if its rider has been charged for it: the       *)
(* charge of CreateOrder gates the insert, in every interleaving and        *)
(* whatever fails.                                                          *)
ChargedBeforeOrder == \A o \in Orders : Exists(o) => debits[o] = 1

(* An order is cancelled only once its refund is in the ledger: the refund  *)
(* of CancelOrder gates the status, also when calls overlap or are retried. *)
RefundedBeforeCancelled ==
    \A o \in Orders : row[o].status = "cancelled" => credits[o] = 1

(* However often CreateOrder's compensation and any number of CancelOrder   *)
(* calls refund an order, the ledger holds at most one debit and one credit *)
(* for it, and no credit without a debit.                                   *)
AtMostOneOfEach ==
    \A o \in Orders : credits[o] <= debits[o] /\ debits[o] <= 1

(* The money of an order follows its row: it is charged before the row      *)
(* exists, refunded before the row is cancelled, and moved once each way,   *)
(* whatever CreateOrder's compensation, repeated cancellations, lost        *)
(* answers and crashes do.                                                  *)
MoneyFollowsOrder == ChargedBeforeOrder /\ RefundedBeforeCancelled /\ AtMostOneOfEach

(* A CreateOrder that gave up has left its rider paying for no order only   *)
(* if a wallet call failed or the process died: a database failure alone    *)
(* is always compensated by the refund.                                     *)
PaidForNothingOnlyByFault ==
    \A o \in Orders :
        step[o] = "failed" /\ ~Exists(o) /\ debits[o] > credits[o]
            => Faults \cap {"wallet", "process"} # {}

(* No order is past "created" without a driver, although StartTrip,         *)
(* CompleteTrip and AssignDriver update the row without looking at it.      *)
MovingOrderHasDriver ==
    \A o \in Orders :
        row[o].status \in {"driver_assigned", "in_progress", "completed"}
            => row[o].driver # NoDriver

(* Every order_rated event of an order carries the driver and the rating    *)
(* that its row holds, now and for ever: concurrent RateTrip calls cannot   *)
(* publish two different ratings.                                           *)
RatedEventsAgree ==
    \A o \in Orders : \A e \in rated[o] :
        /\ e = <<row[o].driver, row[o].rating>>
        /\ row[o].driver # NoDriver
        /\ row[o].rating # NoRating

(* The search index may lag behind, but it never shows an order that does   *)
(* not exist, or a driver or a rating that the order does not have.         *)
SearchShowsOwnPast ==
    \A o \in Orders :
        indexed[o].status # "none" =>
            /\ Exists(o)
            /\ indexed[o].driver \in {NoDriver, row[o].driver}
            /\ indexed[o].rating \in {NoRating, row[o].rating}

(* All announcements of an order agree, and there is none without its row;  *)
(* one that says driver_assigned is of an order that has a driver, whatever *)
(* the claim, the assignment and the release made of it, whatever overlaps. *)
CreatedEventsAgree ==
    \A o \in Orders : \A st \in created[o] :
        /\ Exists(o)
        /\ \A other \in created[o] : other = st
        /\ st = "driver_assigned" => row[o].driver # NoDriver

(* What order_service tells the world of an order is true of its row and    *)
(* does not contradict itself: the announcements by CreateOrder, published  *)
(* after the row may have changed, and the ratings by overlapping RateTrip  *)
(* calls.                                                                   *)
EventsAreTrue == RatedEventsAgree /\ CreatedEventsAgree

(* What a step leaves of the driver and of the rating of an order. *)
DriverAndRatingKept ==
    \A o \in Orders :
        /\ row[o].driver # NoDriver => row'[o].driver = row[o].driver
        /\ row[o].rating # NoRating => row'[o].rating = row[o].rating

(* Neither a retry nor an overlapping call ever replaces the driver of an   *)
(* order, takes it away, or changes a rating once given.                    *)
DriverAndRatingAreFinal == [][DriverAndRatingKept]_vars

(* A rider who has been charged ends up with an order row or with the money *)
(* back, as long as the wallet answers and the process lives.               *)
ChargeIsSettled ==
    \A o \in Orders : debits[o] = 1 ~> Exists(o) \/ credits[o] = 1

-----------------------------------------------------------------------------
(* The inductive invariant behind the safety properties above *)

Inserted == {"index", "claim", "assign", "release", "reindex", "publish"}

(* CreateOrder has a row in hand once the insert has succeeded, and a driver *)
(* in hand once it has claimed one; the row has no driver before AssignDriver. *)
CreationOK ==
    \A o \in Orders :
        /\ step[o] \in Inserted => made[o].status # "none" /\ Exists(o)
        /\ step[o] \in {"assign", "release"} => claimed[o] \in Drivers
        /\ step[o] \in {"new", "insert", "index", "claim", "assign"} => row[o].driver = NoDriver

(* The ledger follows the progress of CreateOrder. *)
MoneyOK ==
    \A o \in Orders :
        /\ credits[o] \in {0, 1}
        /\ debits[o] \in {0, 1}
        /\ credits[o] = 1 => debits[o] = 1
        /\ step[o] = "new" => debits[o] = 0 /\ ~Exists(o)
        /\ step[o] \in Inserted \cup {"insert", "refund"} => debits[o] = 1
        /\ Exists(o) => debits[o] = 1

(* A running call knows an order that exists, a cancellation past its refund *)
(* has it in the ledger, and a trip is only started or completed on an order *)
(* that has a driver.                                                        *)
CallOK(s) ==
    /\ target[s] \in Orders
    /\ Exists(target[s])
    /\ op[s] # "none"
    /\ at[s] = "refund" => op[s] = "cancel"
    /\ at[s] = "publish" => op[s] = "rate"
    /\ op[s] = "cancel" /\ at[s] \in {"release", "write"} => credits[target[s]] = 1
    /\ op[s] \in {"start", "complete"} => row[target[s]].driver # NoDriver

CallsOK == \A s \in Slots : at[s] # "idle" => CallOK(s)

(* The order id of a CreateOrder that has not inserted yet has no row at all. *)
NoRowYet == \A o \in Orders : step[o] \in {"new", "insert"} => row[o] = NoRow

IInv ==
    /\ TypeOK /\ CreationOK /\ MoneyOK /\ CallsOK
    /\ RefundedBeforeCancelled /\ MovingOrderHasDriver /\ PaidForNothingOnlyByFault

(* What is announced, indexed or about to be is a past of the row: the order *)
(* in CreateOrder's hands, the row a call has written, and a rating on its   *)
(* way, all on top of IInv.                                                  *)
MadeOK ==
    \A o \in Orders : step[o] \in Inserted =>
        /\ made[o].driver \in {NoDriver, row[o].driver}
        /\ made[o].rating \in {NoRating, row[o].rating}
        /\ made[o].status = "driver_assigned" => row[o].driver # NoDriver

SeenOK ==
    \A s \in Slots : at[s] \in {"index", "publish"} =>
        /\ seen[s].driver \in {NoDriver, row[target[s]].driver}
        /\ seen[s].rating \in {NoRating, row[target[s]].rating}

RatingOK ==
    \A s \in Slots : op[s] = "rate" /\ at[s] # "idle" =>
        /\ row[target[s]].driver # NoDriver
        /\ stars[s] \in Ratings
        /\ at[s] \in {"index", "publish"} =>
              seen[s].driver # NoDriver /\ seen[s].rating # NoRating

AnnouncedOK == \A o \in Orders : created[o] # {} => step[o] = "done"

HistoryOK ==
    /\ MadeOK /\ SeenOK /\ RatingOK /\ AnnouncedOK
    /\ RatedEventsAgree /\ SearchShowsOwnPast /\ CreatedEventsAgree

-----------------------------------------------------------------------------
(* What the documents of the repository say, and what it takes for it to hold *)

(* No handler is working on order o. *)
Quiet(o) ==
    /\ step[o] \in {"new", "done", "failed"}
    /\ \A s \in Slots : target[s] # o

(* Clients that send a call on an order only when no other is running on it. *)
OneCallPerOrder ==
    \A s \in Slots : at[s] = "idle" /\ at'[s] # "idle" => Quiet(target'[s])

SerialSpec == Init /\ [][Next /\ OneCallPerOrder]_vars

Stage(status) ==
    CASE status = "none" -> 0 [] status = "created" -> 1 [] status = "driver_assigned" -> 2
      [] status = "in_progress" -> 3 [] OTHER -> 4

StatusMovesForward ==
    \A o \in Orders :
        row'[o].status # row[o].status => Stage(row'[o].status) > Stage(row[o].status)

(* The lifecycle of README.md: a status never moves back towards created,   *)
(* and completed and cancelled are final.                                   *)
LifecycleMovesForward == [][StatusMovesForward]_vars

(* Cancelling releases the claimed driver: once every call has returned, a  *)
(* driver of a cancelled order who has no other order is not still on-trip. *)
CancelReleasesDriver ==
    \A o \in Orders :
        /\ row[o].status = "cancelled"
        /\ \A p \in Orders : Quiet(p)
        /\ row[o].driver # NoDriver
        /\ pool[row[o].driver] = "on-trip"
        => \E p \in Orders : /\ row[p].driver = row[o].driver
                            /\ row[p].status \in {"driver_assigned", "in_progress"}

(* The index has no lag window: when no call on an order is running, its    *)
(* document is its row.                                                     *)
SearchIsCurrent ==
    \A o \in Orders : Exists(o) /\ Quiet(o) => indexed[o] = row[o]

(* Money and order agree: when no call on it is running, an order that is  *)
(* not cancelled is paid for, and a cancelled one has been refunded.        *)
RidesArePaid ==
    \A o \in Orders : Quiet(o) /\ Exists(o) =>
        (row[o].status = "cancelled") = (credits[o] = debits[o])

(* A driver serves at most one order.  CompleteTrip releases the driver     *)
(* before it writes the status, so an order it is about to write is over.   *)
Serving(o, d) ==
    /\ row[o].driver = d
    /\ row[o].status \in {"driver_assigned", "in_progress"}
    /\ \A s \in Slots : target[s] = o => op[s] \notin {"complete", "cancel"}

OneOrderPerDriver ==
    \A o, p \in Orders : o # p => \A d \in Drivers : ~(Serving(o, d) /\ Serving(p, d))

-----------------------------------------------------------------------------
(* The inductive invariants behind these, on top of IInv and NoRowYet       *)

(* The calls on an order come one at a time and after its CreateOrder, so   *)
(* that what a call has read is still the row.                              *)
SerialCall(s) ==
    /\ step[target[s]] \in {"done", "failed"}
    /\ seen[s] = row[target[s]]
    /\ at[s] \in {"refund", "release", "write"} => Allowed(op[s], row[target[s]])
    /\ at[s] = "release" => op[s] \in {"cancel", "complete"}
    /\ \A t \in Slots : t # s => target[t] # target[s]

SerialOK ==
    /\ \A s \in Slots : IF at[s] = "idle" THEN target[s] = NoOrder ELSE SerialCall(s)
    /\ \A o \in Orders :
          /\ step[o] \in {"index", "claim", "assign"} => row[o] = InsertedRow
          /\ row[o].status = "created" => row[o].driver = NoDriver

(* A call that cancels order o has refunded it and not yet written its row. *)
Refunded(o) ==
    \E s \in Slots : target[s] = o /\ op[s] = "cancel" /\ at[s] \in {"release", "write"}

(* Without a failed insert, the one refund of an order is its cancellation. *)
PaidOK ==
    \A o \in Orders :
        /\ step[o] # "refund"
        /\ step[o] = "insert" => credits[o] = 0
        /\ Exists(o) /\ credits[o] = 1 => row[o].status = "cancelled" \/ Refunded(o)

(* Whoever has changed the row of an order is about to index it. *)
ToBeIndexed(o) ==
    \/ step[o] \in {"index", "reindex"}
    \/ \E s \in Slots : target[s] = o /\ at[s] = "index"

IndexOK ==
    \A o \in Orders :
        /\ step[o] \notin {"refund", "release"}
        /\ step[o] \in {"index", "reindex"} => made[o] = row[o]
        /\ Exists(o) => indexed[o] = row[o] \/ ToBeIndexed(o)

(* Order o holds driver d: from the claim to the release; a call that has   *)
(* released the driver has its row still to write.                          *)
Holds(o, d) ==
    \/ step[o] \in {"assign", "release"} /\ claimed[o] = d
    \/ /\ row[o].driver = d
       /\ row[o].status \in {"driver_assigned", "in_progress"}
       /\ \A s \in Slots :
             target[s] = o /\ at[s] = "write" => op[s] \notin {"cancel", "complete"}

NoRelease == \A o \in Orders : step[o] # "release"

(* A driver is held by one order at most, and is not to be claimed then. *)
HeldOnce ==
    \A d \in Drivers : \A o \in Orders : Holds(o, d) =>
        /\ pool[d] # "available"
        /\ \A p \in Orders : Holds(p, d) => p = o

(* A driver who is on-trip is on the trip of some order. *)
OnTripIsHeld ==
    \A d \in Drivers : pool[d] = "on-trip" => \E o \in Orders : Holds(o, d)
=============================================================================
