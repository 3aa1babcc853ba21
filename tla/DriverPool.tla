------------------------------ MODULE DriverPool ------------------------------
(***************************************************************************)
(* DriverPool: the drivers collection of driver_service, and the calls by  *)
(* which order_service claims drivers from it and gives them back.  A call *)
(* is a request and an answer.  Its caller can give up in between, when    *)
(* the rider goes away and the context is cancelled: the request may be    *)
(* carried out all the same, later, or never.                              *)
(*                                                                         *)
(* An order claims once, in CreateOrder, and gives its driver back when    *)
(* assigning fails, when it is cancelled and when the trip is completed.   *)
(* The status of the order is written after the driver is released; when   *)
(* that fails the order is still under way, and it is cancelled or         *)
(* completed again.  Status writes name no expected status: they replace   *)
(* whatever is there.                                                      *)
(***************************************************************************)
EXTENDS Naturals, FiniteSets

CONSTANTS Drivers,       \* users registered as drivers
          Orders,        \* orders that look for one
          TaxiTypes,
          DefaultType,   \* the type of an auto-created profile
          OrderType,     \* OrderType[o]: the type asked for
          SelfSet,       \* statuses drivers set for themselves
          Faults,        \* what may go wrong
          NoDriver

Statuses == {"available", "on-trip", "offline"}

Causes == {"caller",    \* callers give up
           "network",   \* requests of callers that gave up are lost
           "retry"}     \* orders are cancelled or completed again

ASSUME DriverPoolAssumption ==
    /\ DefaultType \in TaxiTypes
    /\ OrderType \in [Orders -> TaxiTypes]
    /\ SelfSet \subseteq Statuses
    /\ Faults \subseteq Causes
    /\ NoDriver \notin Drivers

VARIABLES status,      \* status[d]: the status of the profile, "none" without one
          taxi_type,   \* taxi_type[d]: its taxi type
          writer,      \* history, writer[d]: who wrote the status last
          place,       \* place[o]: where the order stands with its driver
          driver,      \* driver[o]: the driver claimed for it
          pending,     \* orders with a release under way that nobody waits for
          contested    \* history: drivers made available under an order

profiles == <<status, taxi_type, writer>>
vars == <<status, taxi_type, writer, place, driver, pending, contested>>

Places == {"new",         \* before the claim
           "claiming",    \* its claim is under way
           "late",        \* so it is, and the caller has given up
           "claimed",     \* the answer is under way
           "serving",     \* the order has the driver
           "releasing",   \* its release is under way
           "abandoned",   \* a driver was claimed for it or kept, and it has none
           "over"}        \* it has no driver, or none any more

TypeOK ==
    /\ status \in [Drivers -> Statuses \cup {"none"}]
    /\ taxi_type \in [Drivers -> TaxiTypes]
    /\ writer \in [Drivers -> {"driver", "pool"}]
    /\ place \in [Orders -> Places]
    /\ driver \in [Orders -> Drivers \cup {NoDriver}]
    /\ pending \subseteq Orders
    /\ contested \subseteq Drivers

Init ==
    /\ status = [d \in Drivers |-> "none"]
    /\ taxi_type = [d \in Drivers |-> DefaultType]
    /\ writer = [d \in Drivers |-> "pool"]
    /\ place = [o \in Orders |-> "new"]
    /\ driver = [o \in Orders |-> NoDriver]
    /\ pending = {} /\ contested = {}

(* The order counts on the driver, or is being given it. *)
Holds(o, d) == driver[o] = d /\ place[o] \in {"claimed", "serving", "releasing"}

Held(d) == \E o \in Orders : Holds(o, d)

Goto(o, next) == place' = [place EXCEPT ![o] = next]

-----------------------------------------------------------------------------
(* Profiles *)

(* Mutant: the profile is replaced when there is one (an upsert). *)
UpsertDriver(d, t) ==
    /\ status' = [status EXCEPT ![d] = "offline"]
    /\ taxi_type' = [taxi_type EXCEPT ![d] = t]
    /\ writer' = [writer EXCEPT ![d] = "pool"]
    /\ UNCHANGED <<place, driver, pending, contested>>

(* The unique index on user_id turns a second insert away. *)
CreateDriver(d, t) ==
    /\ status[d] = "none"
    /\ status' = [status EXCEPT ![d] = "offline"]
    /\ taxi_type' = [taxi_type EXCEPT ![d] = t]
    /\ UNCHANGED <<writer, place, driver, pending, contested>>

(* POST /internal/drivers, with the type of the request. *)
Register(d) == \E t \in TaxiTypes : CreateDriver(d, t)

(* The user_registered event, delivered any number of times. *)
UserRegistered(d) == CreateDriver(d, DefaultType)

(* PATCH /profile, also during a trip. *)
UpdateType(d) ==
    /\ status[d] # "none"
    /\ \E t \in TaxiTypes : taxi_type' = [taxi_type EXCEPT ![d] = t]
    /\ UNCHANGED <<status, writer, place, driver, pending, contested>>

(* UpdateOne by user_id: the status is set whatever it was. *)
SetStatus(d, st, who) ==
    /\ status[d] # "none"
    /\ status' = [status EXCEPT ![d] = st]
    /\ writer' = [writer EXCEPT ![d] = who]
    /\ UNCHANGED taxi_type

(* PATCH /profile/status, also during a trip. *)
UpdateStatus(d) ==
    /\ \E st \in SelfSet : SetStatus(d, st, "driver")
    /\ contested' = IF Held(d) THEN contested \cup {d} ELSE contested
    /\ UNCHANGED <<place, driver, pending>>

-----------------------------------------------------------------------------
(* Claims *)

(* Mutant: the filter leaves only offline drivers out. *)
ClaimableUnlessOffline(o) ==
    {d \in Drivers : status[d] \notin {"none", "offline"} /\ taxi_type[d] = OrderType[o]}

Claimable(o) == {d \in Drivers : status[d] = "available" /\ taxi_type[d] = OrderType[o]}

SendClaim(o) ==
    /\ place[o] = "new"
    /\ Goto(o, "claiming")
    /\ UNCHANGED <<profiles, driver, pending, contested>>

(* FindOneAndUpdate is one step.  A driver nobody holds is no longer        *)
(* contested.                                                               *)
ClaimAvailableDriver(o) ==
    /\ place[o] \in {"claiming", "late"}
    /\ \/ /\ Claimable(o) = {}
          /\ Goto(o, "over")
          /\ UNCHANGED <<profiles, driver, contested>>
       \/ \E d \in Claimable(o) :
             /\ SetStatus(d, "on-trip", "pool")
             /\ driver' = [driver EXCEPT ![o] = d]
             /\ Goto(o, IF place[o] = "late" THEN "abandoned" ELSE "claimed")
             /\ contested' = IF Held(d) THEN contested ELSE contested \ {d}
    /\ UNCHANGED pending

(* Mutant: an answer without a user id is taken for no driver at all. *)
AnswerIgnored(o) ==
    /\ place[o] = "claimed"
    /\ Goto(o, "over")
    /\ UNCHANGED <<profiles, driver, pending, contested>>

AnswerClaim(o) ==
    /\ place[o] = "claimed"
    /\ Goto(o, "serving")
    /\ UNCHANGED <<profiles, driver, pending, contested>>

(* CreateOrder goes on without a driver, whether or not there is one. *)
GiveUpClaim(o) ==
    /\ "caller" \in Faults
    /\ \/ place[o] = "claiming" /\ Goto(o, "late")
       \/ place[o] = "claimed" /\ Goto(o, "abandoned")
    /\ UNCHANGED <<profiles, driver, pending, contested>>

LoseClaim(o) ==
    /\ "network" \in Faults
    /\ place[o] = "late"
    /\ Goto(o, "over")
    /\ UNCHANGED <<profiles, driver, pending, contested>>

-----------------------------------------------------------------------------
(* Releases *)

SendRelease(o) ==
    /\ place[o] = "serving"
    /\ Goto(o, "releasing")
    /\ UNCHANGED <<profiles, driver, pending, contested>>

(* PATCH /internal/drivers/{user_id}/status.  The order is over then, or    *)
(* goes on as if it still had the driver: its status could not be written.  *)
UpdateStatusInternal(o) ==
    /\ place[o] = "releasing"
    /\ SetStatus(driver[o], "available", "pool")
    /\ \/ Goto(o, "over") /\ UNCHANGED contested
       \/ "retry" \in Faults /\ Goto(o, "serving") /\ contested' = contested \cup {driver[o]}
    /\ UNCHANGED <<driver, pending>>

(* The release is best-effort: the order ends without it, or is cancelled   *)
(* or completed again.                                                      *)
GiveUpRelease(o) ==
    /\ "caller" \in Faults
    /\ place[o] = "releasing" /\ o \notin pending
    /\ \/ Goto(o, "over")
       \/ "retry" \in Faults /\ Goto(o, "serving")
    /\ pending' = pending \cup {o}
    /\ UNCHANGED <<profiles, driver, contested>>

LateRelease(o) ==
    /\ o \in pending
    /\ SetStatus(driver[o], "available", "pool")
    /\ pending' = pending \ {o}
    /\ contested' = IF Held(driver[o]) THEN contested \cup {driver[o]} ELSE contested
    /\ UNCHANGED <<place, driver>>

LoseRelease(o) ==
    /\ "network" \in Faults
    /\ o \in pending
    /\ pending' = pending \ {o}
    /\ place' = IF place[o] = "over" THEN [place EXCEPT ![o] = "abandoned"] ELSE place
    /\ UNCHANGED <<profiles, driver, contested>>

Next ==
    \/ \E d \in Drivers : Register(d) \/ UserRegistered(d) \/ UpdateType(d) \/ UpdateStatus(d)
    \/ \E o \in Orders :
          \/ SendClaim(o) \/ ClaimAvailableDriver(o) \/ AnswerClaim(o)
          \/ GiveUpClaim(o) \/ LoseClaim(o)
          \/ SendRelease(o) \/ UpdateStatusInternal(o) \/ GiveUpRelease(o)
          \/ LateRelease(o) \/ LoseRelease(o)

Spec == Init /\ [][Next]_vars

-----------------------------------------------------------------------------
(* Properties *)

(* Concurrent CreateOrder calls never claim the same driver twice: two      *)
(* orders count on one driver only if the driver, or a release that came    *)
(* late or again, made the driver available under the first.                *)
DriversAreNotShared ==
    \A o, p \in Orders, d \in Drivers :
        o # p /\ Holds(o, d) /\ Holds(p, d) => d \in contested

(* A driver an order counts on is on-trip, out of the reach of every other  *)
(* claim, unless that was overwritten.                                      *)
HeldIsOnTrip == \A d \in Drivers : Held(d) /\ d \notin contested => status[d] = "on-trip"

(* A driver on-trip is on the trip of an order, is about to be released, or *)
(* was claimed or kept by a call that nobody heard the end of.  There is no *)
(* other way to be on-trip without an order, except to say so oneself.      *)
OnTripIsAccountedFor ==
    \A d \in Drivers : status[d] = "on-trip" =>
        \/ Held(d)
        \/ \E o \in Orders : driver[o] = d /\ (o \in pending \/ place[o] = "abandoned")
        \/ writer[d] = "driver"

-----------------------------------------------------------------------------
(* The inductive invariant behind the properties *)

(* Whoever has a driver to think of, has one with a profile. *)
DriversKnown ==
    /\ \A o \in Orders :
          place[o] \in {"claimed", "serving", "releasing", "abandoned"} \/ o \in pending
              => driver[o] \in Drivers
    /\ \A o \in Orders : driver[o] \in Drivers => status[driver[o]] # "none"

(* A release that nobody waits for belongs to an order that had a driver. *)
PendingOK == \A o \in pending : place[o] \in {"serving", "releasing", "over"}

IInv ==
    /\ TypeOK /\ DriversKnown /\ PendingOK
    /\ DriversAreNotShared /\ HeldIsOnTrip /\ OnTripIsAccountedFor
=============================================================================
