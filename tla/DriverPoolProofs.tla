--------------------------- MODULE DriverPoolProofs ---------------------------
(* Theorems about DriverPool, for any drivers, orders, types and faults.    *)
EXTENDS DriverPool, TLAPS

USE DriverPoolAssumption

LEMMA InitIInv == Init => IInv
<1> SUFFICES ASSUME Init PROVE IInv
  OBVIOUS
<1>1. TypeOK
  BY DEF Init, TypeOK, Statuses, Places
<1>2. DriversKnown /\ DriversAreNotShared /\ HeldIsOnTrip /\ OnTripIsAccountedFor
  BY DEF Init, DriversKnown, DriversAreNotShared, HeldIsOnTrip, OnTripIsAccountedFor, Holds, Held
<1>3. PendingOK
  BY DEF Init, PendingOK
<1> QED BY <1>1, <1>2, <1>3 DEF IInv

(* Profiles are created offline, where nobody holds one.                    *)
LEMMA CreateDriverIInv ==
    ASSUME IInv, NEW d \in Drivers, NEW t \in TaxiTypes, CreateDriver(d, t) PROVE IInv'
<1>1. TypeOK'
  BY DEF IInv, TypeOK, CreateDriver, Statuses
<1>2. /\ status[d] = "none" /\ status' = [status EXCEPT ![d] = "offline"]
      /\ UNCHANGED <<writer, place, driver, pending, contested>>
  BY DEF CreateDriver
<1>3. status \in [Drivers -> Statuses \cup {"none"}]
  BY DEF IInv, TypeOK
<1>4. DriversKnown'
  BY <1>2, <1>3 DEF IInv, DriversKnown
<1>5. DriversAreNotShared'
  BY <1>2 DEF IInv, DriversAreNotShared, Holds
<1>6. HeldIsOnTrip'
  BY <1>2, <1>3 DEF IInv, HeldIsOnTrip, DriversKnown, Held, Holds
<1>7. OnTripIsAccountedFor'
  BY <1>2, <1>3 DEF IInv, OnTripIsAccountedFor, Held, Holds
<1>8. PendingOK'
  BY <1>2 DEF IInv, PendingOK
<1> QED BY <1>1, <1>4, <1>5, <1>6, <1>7, <1>8 DEF IInv

LEMMA UpdateTypeIInv == ASSUME IInv, NEW d \in Drivers, UpdateType(d) PROVE IInv'
<1>1. TypeOK'
  BY DEF IInv, TypeOK, UpdateType
<1>2. UNCHANGED <<status, writer, place, driver, pending, contested>>
  BY DEF UpdateType
<1> QED BY <1>1, <1>2 DEF IInv, DriversKnown, PendingOK, DriversAreNotShared, HeldIsOnTrip,
                          OnTripIsAccountedFor, Held, Holds

LEMMA UpdateStatusIInv == ASSUME IInv, NEW d \in Drivers, UpdateStatus(d) PROVE IInv'
<1>1. PICK st \in SelfSet : SetStatus(d, st, "driver")
  BY DEF UpdateStatus
<1>2. /\ status[d] # "none" /\ st \in Statuses
      /\ status' = [status EXCEPT ![d] = st] /\ writer' = [writer EXCEPT ![d] = "driver"]
      /\ contested' = IF Held(d) THEN contested \cup {d} ELSE contested
      /\ UNCHANGED <<taxi_type, place, driver, pending>>
  BY <1>1 DEF SetStatus, UpdateStatus
<1>3. TypeOK'
  BY <1>2 DEF IInv, TypeOK
<1>4. /\ status \in [Drivers -> Statuses \cup {"none"}]
      /\ writer \in [Drivers -> {"driver", "pool"}]
  BY DEF IInv, TypeOK
<1>5. DriversKnown'
  BY <1>2, <1>4 DEF IInv, DriversKnown, Statuses
<1>6. DriversAreNotShared'
  BY <1>2 DEF IInv, DriversAreNotShared, Holds
<1>7. HeldIsOnTrip'
  BY <1>2, <1>4 DEF IInv, HeldIsOnTrip, Held, Holds
<1>8. OnTripIsAccountedFor'
  BY <1>2, <1>4 DEF IInv, OnTripIsAccountedFor, Held, Holds
<1>9. PendingOK'
  BY <1>2 DEF IInv, PendingOK
<1> QED BY <1>3, <1>5, <1>6, <1>7, <1>8, <1>9 DEF IInv

(* Steps that move an order without touching a profile, and do not let go   *)
(* of its driver unaccounted.                                               *)
LEMMA MoveIInv ==
    ASSUME IInv, NEW o \in Orders, NEW next \in Places, Goto(o, next),
           UNCHANGED <<profiles, driver, contested>>,
           pending' \subseteq Orders,
           \A p \in Orders : p # o => (p \in pending' <=> p \in pending),
           o \in pending' => next \in {"serving", "releasing", "over"},
           next \in {"claimed", "serving", "releasing", "abandoned"} \/ o \in pending'
               => driver[o] \in Drivers,
           \A d \in Drivers : Holds(o, d)' => Holds(o, d),
           \A d \in Drivers :
               driver[o] = d /\ (o \in pending \/ place[o] = "abandoned" \/ Holds(o, d)) =>
                   Holds(o, d)' \/ o \in pending' \/ next = "abandoned"
    PROVE  IInv'
<1>1. /\ place \in [Orders -> Places]
      /\ place' = [place EXCEPT ![o] = next]
      /\ UNCHANGED <<status, taxi_type, writer, driver, contested>>
  BY DEF IInv, TypeOK, Goto, profiles
<1>2. TypeOK'
  BY <1>1 DEF IInv, TypeOK
<1>3. DriversKnown'
  BY <1>1 DEF IInv, DriversKnown
<1>4. \A p \in Orders, d \in Drivers : p # o => (Holds(p, d)' <=> Holds(p, d))
  BY <1>1 DEF Holds
<1>5. \A p \in Orders, d \in Drivers : Holds(p, d)' => Holds(p, d)
  BY <1>4
<1>6. DriversAreNotShared'
  BY <1>1, <1>5 DEF IInv, DriversAreNotShared
<1>7. HeldIsOnTrip'
  BY <1>1, <1>5 DEF IInv, HeldIsOnTrip, Held
<1>8. OnTripIsAccountedFor'
  <2> SUFFICES ASSUME NEW d \in Drivers, status'[d] = "on-trip", writer'[d] # "driver"
               PROVE  \/ Held(d)'
                      \/ \E p \in Orders : driver'[p] = d /\ (p \in pending' \/ place'[p] = "abandoned")
    BY DEF OnTripIsAccountedFor
  <2>1. \E p \in Orders : \/ Holds(p, d)
                          \/ driver[p] = d /\ (p \in pending \/ place[p] = "abandoned")
    BY <1>1 DEF IInv, OnTripIsAccountedFor, Held
  <2>2. PICK p \in Orders : \/ Holds(p, d)
                            \/ driver[p] = d /\ (p \in pending \/ place[p] = "abandoned")
    BY <2>1
  <2>3. CASE p # o
    BY <1>1, <1>4, <2>2, <2>3 DEF Held
  <2>4. CASE p = o
    BY <1>1, <2>2, <2>4 DEF Held, Holds
  <2> QED BY <2>3, <2>4
<1>9. PendingOK'
  BY <1>1, <1>2 DEF IInv, PendingOK, TypeOK
<1> QED BY <1>2, <1>3, <1>6, <1>7, <1>8, <1>9 DEF IInv

(* The moves that leave the pending releases alone. *)
LEMMA QuietMoveIInv ==
    ASSUME IInv, NEW o \in Orders, NEW next \in Places, Goto(o, next),
           UNCHANGED <<profiles, driver, pending, contested>>,
           \/ place[o] \in {"new", "claiming", "late"} /\ next \in {"claiming", "late", "over"}
           \/ place[o] = "claimed" /\ next \in {"serving", "abandoned"}
           \/ place[o] = "serving" /\ next = "releasing"
    PROVE  IInv'
<1>1. /\ place \in [Orders -> Places] /\ pending \subseteq Orders
      /\ place' = [place EXCEPT ![o] = next]
      /\ driver' = driver /\ pending' = pending
  BY DEF IInv, TypeOK, Goto
<1>2. o \in pending => next = "releasing"
  BY DEF IInv, PendingOK
<1>3. next \in {"claimed", "serving", "releasing", "abandoned"} \/ o \in pending'
          => driver[o] \in Drivers
  BY <1>1, <1>2 DEF IInv, DriversKnown
<1>4. \A d \in Drivers : Holds(o, d)' => Holds(o, d)
  BY <1>1 DEF Holds
<1>5. \A d \in Drivers :
          driver[o] = d /\ (o \in pending \/ place[o] = "abandoned" \/ Holds(o, d)) =>
              Holds(o, d)' \/ o \in pending' \/ next = "abandoned"
  BY <1>1, <1>2 DEF Holds
<1>6. UNCHANGED <<profiles, driver, contested>>
  OBVIOUS
<1>7. o \in pending' => next \in {"serving", "releasing", "over"}
  BY <1>1, <1>2
<1>8. pending' \subseteq Orders /\ \A p \in Orders : p # o => (p \in pending' <=> p \in pending)
  BY <1>1
<1> QED BY <1>3, <1>4, <1>5, <1>6, <1>7, <1>8, MoveIInv

LEMMA CallerIInv ==
    ASSUME IInv, NEW o \in Orders,
           \/ SendClaim(o) \/ AnswerClaim(o) \/ GiveUpClaim(o) \/ LoseClaim(o)
           \/ SendRelease(o) \/ GiveUpRelease(o) \/ LoseRelease(o)
    PROVE  IInv'
<1>1. CASE SendClaim(o)
  BY <1>1, QuietMoveIInv DEF SendClaim, Places
<1>2. CASE AnswerClaim(o)
  BY <1>2, QuietMoveIInv DEF AnswerClaim, Places
<1>3. CASE GiveUpClaim(o)
  <2>1. UNCHANGED <<profiles, driver, pending, contested>>
    BY <1>3 DEF GiveUpClaim
  <2>2. CASE place[o] = "claiming" /\ Goto(o, "late")
    BY <2>1, <2>2, QuietMoveIInv DEF Places
  <2>3. CASE place[o] = "claimed" /\ Goto(o, "abandoned")
    BY <2>1, <2>3, QuietMoveIInv DEF Places
  <2> QED BY <1>3, <2>2, <2>3 DEF GiveUpClaim
<1>4. CASE LoseClaim(o)
  BY <1>4, QuietMoveIInv DEF LoseClaim, Places
<1>5. CASE SendRelease(o)
  BY <1>5, QuietMoveIInv DEF SendRelease, Places
<1>6. CASE GiveUpRelease(o)
  <2>1. /\ place[o] = "releasing" /\ pending' = pending \cup {o}
        /\ UNCHANGED <<profiles, driver, contested>>
        /\ Goto(o, "over") \/ Goto(o, "serving")
    BY <1>6 DEF GiveUpRelease
  <2>2. PICK next \in {"over", "serving"} : Goto(o, next)
    BY <2>1
  <2>3. place \in [Orders -> Places] /\ pending \subseteq Orders /\ driver[o] \in Drivers
    BY <2>1 DEF IInv, TypeOK, DriversKnown
  <2>4. \A d \in Drivers : Holds(o, d)' => Holds(o, d)
    BY <2>1, <2>3 DEF Holds
  <2>5. next \in Places /\ pending' \subseteq Orders /\ o \in pending'
    BY <2>1, <2>3 DEF Places
  <2>6. \A p \in Orders : p # o => (p \in pending' <=> p \in pending)
    BY <2>1
  <2> QED BY <2>1, <2>2, <2>3, <2>4, <2>5, <2>6, MoveIInv
<1>7. CASE LoseRelease(o)
  <2> DEFINE next == IF place[o] = "over" THEN "abandoned" ELSE place[o]
  <2>0. /\ o \in pending /\ pending' = pending \ {o}
        /\ UNCHANGED <<profiles, driver, contested>>
    BY <1>7 DEF LoseRelease
  <2>2. /\ place \in [Orders -> Places] /\ pending \subseteq Orders /\ driver[o] \in Drivers
        /\ place[o] \in {"serving", "releasing", "over"}
    BY <2>0 DEF IInv, TypeOK, DriversKnown, PendingOK
  <2>1. Goto(o, next)
    BY <1>7, <2>2 DEF LoseRelease, Goto
  <2>3. next \in {"serving", "releasing", "abandoned"} /\ next \in Places
    BY <2>2 DEF Places
  <2>4. place' = [place EXCEPT ![o] = next] /\ driver' = driver
    BY <2>0, <2>1 DEF Goto
  <2>5. \A d \in Drivers : Holds(o, d)' <=> Holds(o, d)
    BY <2>2, <2>4 DEF Holds
  <2>6. \A d \in Drivers : driver[o] = d => Holds(o, d)' \/ next = "abandoned"
    BY <2>2, <2>4 DEF Holds
  <2>7. /\ o \notin pending' /\ pending' \subseteq Orders
        /\ \A p \in Orders : p # o => (p \in pending' <=> p \in pending)
    BY <2>0, <2>2
  <2> HIDE DEF next
  <2> QED BY <2>0, <2>1, <2>2, <2>3, <2>5, <2>6, <2>7, MoveIInv
<1> QED BY <1>1, <1>2, <1>3, <1>4, <1>5, <1>6, <1>7

(* The claim takes a driver that is available, so one that nobody holds, or *)
(* one that was made available under an order.                              *)
LEMMA ClaimIInv ==
    ASSUME IInv, NEW o \in Orders, ClaimAvailableDriver(o) PROVE IInv'
<1>1. CASE Goto(o, "over") /\ UNCHANGED <<profiles, driver, contested>>
  <2>1. place[o] \in {"claiming", "late"} /\ UNCHANGED pending
    BY DEF ClaimAvailableDriver
  <2> QED BY <1>1, <2>1, QuietMoveIInv DEF Places
<1>2. ASSUME NEW d \in Claimable(o),
             SetStatus(d, "on-trip", "pool"), driver' = [driver EXCEPT ![o] = d],
             Goto(o, IF place[o] = "late" THEN "abandoned" ELSE "claimed"),
             contested' = IF Held(d) THEN contested ELSE contested \ {d}
      PROVE  IInv'
  <2>1. /\ d \in Drivers /\ status[d] = "available"
        /\ status' = [status EXCEPT ![d] = "on-trip"] /\ writer' = [writer EXCEPT ![d] = "pool"]
        /\ place[o] \in {"claiming", "late"} /\ UNCHANGED <<taxi_type, pending>>
        /\ place' = [place EXCEPT ![o] = IF place[o] = "late" THEN "abandoned" ELSE "claimed"]
    BY <1>2 DEF ClaimAvailableDriver, Claimable, SetStatus, Goto
  <2>2. /\ status \in [Drivers -> Statuses \cup {"none"}]
        /\ place \in [Orders -> Places] /\ driver \in [Orders -> Drivers \cup {NoDriver}]
        /\ writer \in [Drivers -> {"driver", "pool"}]
    BY DEF IInv, TypeOK
  <2>3. TypeOK'
    BY <1>2, <2>1 DEF IInv, TypeOK, Statuses, Places
  <2>4. DriversKnown'
    BY <1>2, <2>1, <2>2 DEF IInv, DriversKnown
  <2>5. PendingOK'
    BY <2>1, <2>2 DEF IInv, PendingOK, TypeOK
  <2>6. Held(d) => d \in contested
    BY <2>1 DEF IInv, HeldIsOnTrip
  <2>7. \A p \in Orders, e \in Drivers : p # o => (Holds(p, e)' <=> Holds(p, e))
    BY <1>2, <2>1, <2>2 DEF Holds
  <2>8. \A e \in Drivers : Holds(o, e)' => e = d
    BY <1>2, <2>1, <2>2 DEF Holds
  <2>9. DriversAreNotShared'
    <3> SUFFICES ASSUME NEW p \in Orders, NEW q \in Orders, NEW e \in Drivers,
                        p # q, Holds(p, e)', Holds(q, e)'
                 PROVE  e \in contested'
      BY DEF DriversAreNotShared
    <3>1. CASE p = o \/ q = o
      BY <1>2, <2>6, <2>7, <2>8, <3>1 DEF Held
    <3>2. CASE p # o /\ q # o
      BY <1>2, <2>7, <3>2 DEF IInv, DriversAreNotShared, Held
    <3> QED BY <3>1, <3>2
  <2>10. HeldIsOnTrip'
    <3> SUFFICES ASSUME NEW e \in Drivers, Held(e)', e \notin contested'
                 PROVE  status'[e] = "on-trip"
      BY DEF HeldIsOnTrip
    <3>1. CASE e = d
      BY <2>1, <2>2, <3>1
    <3>2. CASE e # d
      BY <1>2, <2>1, <2>2, <2>7, <2>8, <3>2 DEF IInv, HeldIsOnTrip, Held
    <3> QED BY <3>1, <3>2
  <2>11. OnTripIsAccountedFor'
    <3> SUFFICES ASSUME NEW e \in Drivers, status'[e] = "on-trip", writer'[e] # "driver"
                 PROVE  \/ Held(e)'
                        \/ \E p \in Orders : driver'[p] = e /\ (p \in pending' \/ place'[p] = "abandoned")
      BY DEF OnTripIsAccountedFor
    <3>1. CASE e = d
      BY <1>2, <2>1, <2>2, <3>1 DEF Held, Holds
    <3>2. CASE e # d
      <4>1. \E p \in Orders : \/ Holds(p, e)
                              \/ driver[p] = e /\ (p \in pending \/ place[p] = "abandoned")
        BY <2>1, <2>2, <3>2 DEF IInv, OnTripIsAccountedFor, Held
      <4>2. PICK p \in Orders : \/ Holds(p, e)
                                \/ driver[p] = e /\ (p \in pending \/ place[p] = "abandoned")
        BY <4>1
      <4>3. p # o
        BY <2>1, <4>2 DEF IInv, PendingOK, Holds
      <4> QED BY <1>2, <2>1, <2>2, <2>7, <4>2, <4>3 DEF Held
    <3> QED BY <3>1, <3>2
  <2> QED BY <2>3, <2>4, <2>5, <2>9, <2>10, <2>11 DEF IInv
<1> QED BY <1>1, <1>2 DEF ClaimAvailableDriver

(* A release makes a driver available: nobody holds it then, or it is       *)
(* contested from now on.                                                   *)
LEMMA ReleaseIInv ==
    ASSUME IInv, NEW o \in Orders, SetStatus(driver[o], "available", "pool"),
           UNCHANGED driver, NEW next \in Places, Goto(o, next),
           pending' \subseteq pending, \A p \in pending : p # o => p \in pending',
           contested' \subseteq contested \cup {driver[o]}, contested \subseteq contested',
           o \in pending' => next \in {"serving", "releasing", "over"},
           place[o] \in {"claimed", "serving", "releasing", "abandoned"} \/ o \in pending,
           next \in {"claimed", "serving", "releasing"} => place[o] \in {"claimed", "serving", "releasing"},
           Held(driver[o])' => driver[o] \in contested'
    PROVE  IInv'
<1> DEFINE d == driver[o]
<1>1. /\ d \in Drivers
      /\ status' = [status EXCEPT ![d] = "available"] /\ writer' = [writer EXCEPT ![d] = "pool"]
      /\ UNCHANGED <<taxi_type, driver>> /\ place' = [place EXCEPT ![o] = next]
  BY DEF IInv, DriversKnown, SetStatus, Goto
<1>2. /\ status \in [Drivers -> Statuses \cup {"none"}]
      /\ place \in [Orders -> Places] /\ writer \in [Drivers -> {"driver", "pool"}]
      /\ pending \subseteq Orders /\ contested \subseteq Drivers
  BY DEF IInv, TypeOK
<1>3. TypeOK'
  BY <1>1, <1>2 DEF IInv, TypeOK, Statuses
<1>4. DriversKnown'
  BY <1>1, <1>2 DEF IInv, DriversKnown
<1>5. PendingOK'
  BY <1>1, <1>2 DEF IInv, PendingOK
<1>6. \A p \in Orders, e \in Drivers : Holds(p, e)' => Holds(p, e)
  BY <1>1, <1>2 DEF Holds
<1>7. \A p \in Orders, e \in Drivers : e # d => (Holds(p, e)' <=> Holds(p, e))
  BY <1>1, <1>2 DEF Holds
<1>8. DriversAreNotShared'
  BY <1>6 DEF IInv, DriversAreNotShared
<1>9. HeldIsOnTrip'
  <2> SUFFICES ASSUME NEW e \in Drivers, Held(e)', e \notin contested' PROVE status'[e] = "on-trip"
    BY DEF HeldIsOnTrip
  <2>1. e # d
    OBVIOUS
  <2> QED BY <1>1, <1>2, <1>6, <2>1 DEF IInv, HeldIsOnTrip, Held
<1>10. OnTripIsAccountedFor'
  <2> SUFFICES ASSUME NEW e \in Drivers, status'[e] = "on-trip", writer'[e] # "driver"
               PROVE  \/ Held(e)'
                      \/ \E p \in Orders : driver'[p] = e /\ (p \in pending' \/ place'[p] = "abandoned")
    BY DEF OnTripIsAccountedFor
  <2>1. e # d
    BY <1>1, <1>2
  <2>2. \E p \in Orders : \/ Holds(p, e)
                          \/ driver[p] = e /\ (p \in pending \/ place[p] = "abandoned")
    BY <1>1, <1>2, <2>1 DEF IInv, OnTripIsAccountedFor, Held
  <2>3. PICK p \in Orders : \/ Holds(p, e)
                            \/ driver[p] = e /\ (p \in pending \/ place[p] = "abandoned")
    BY <2>2
  <2>4. p # o
    BY <2>1, <2>3 DEF Holds
  <2> QED BY <1>1, <1>2, <1>7, <2>1, <2>3, <2>4 DEF Held
<1> QED BY <1>3, <1>4, <1>5, <1>8, <1>9, <1>10 DEF IInv

LEMMA UpdateStatusInternalIInv ==
    ASSUME IInv, NEW o \in Orders, UpdateStatusInternal(o) PROVE IInv'
<1>1. /\ place[o] = "releasing" /\ SetStatus(driver[o], "available", "pool")
      /\ UNCHANGED <<driver, pending>>
  BY DEF UpdateStatusInternal
<1>2. CASE Goto(o, "over") /\ UNCHANGED contested
  <2>1. Held(driver[o])' => driver[o] \in contested
    <3> SUFFICES ASSUME NEW p \in Orders, Holds(p, driver[o])' PROVE driver[o] \in contested
      BY <1>1 DEF Held
    <3>1. p # o /\ Holds(p, driver[o]) /\ Holds(o, driver[o]) /\ driver[o] \in Drivers
      BY <1>1, <1>2 DEF IInv, TypeOK, DriversKnown, Holds, Goto
    <3> QED BY <3>1 DEF IInv, DriversAreNotShared
  <2> QED BY <1>1, <1>2, <2>1, ReleaseIInv DEF Places
<1>3. CASE Goto(o, "serving") /\ contested' = contested \cup {driver[o]}
  BY <1>1, <1>3, ReleaseIInv DEF Places
<1> QED BY <1>2, <1>3 DEF UpdateStatusInternal

LEMMA LateReleaseIInv == ASSUME IInv, NEW o \in Orders, LateRelease(o) PROVE IInv'
<1>1. /\ o \in pending /\ SetStatus(driver[o], "available", "pool") /\ pending' = pending \ {o}
      /\ contested' = IF Held(driver[o]) THEN contested \cup {driver[o]} ELSE contested
      /\ UNCHANGED <<place, driver>>
  BY DEF LateRelease
<1>2. place[o] \in Places /\ Goto(o, place[o])
  BY <1>1 DEF IInv, TypeOK, Goto
<1>3. Held(driver[o])' => Held(driver[o])
  BY <1>1 DEF Held, Holds
<1> QED BY <1>1, <1>2, <1>3, ReleaseIInv

LEMMA NextIInv == IInv /\ [Next]_vars => IInv'
<1> SUFFICES ASSUME IInv, [Next]_vars PROVE IInv'
  OBVIOUS
<1>1. CASE UNCHANGED vars
  BY <1>1 DEF vars, IInv, TypeOK, DriversKnown, PendingOK, DriversAreNotShared, HeldIsOnTrip,
              OnTripIsAccountedFor, Held, Holds
<1>2. ASSUME NEW d \in Drivers,
             Register(d) \/ UserRegistered(d) \/ UpdateType(d) \/ UpdateStatus(d)
      PROVE  IInv'
  <2>1. DefaultType \in TaxiTypes
    BY DEF DriverPoolAssumption
  <2> QED BY <1>2, <2>1, CreateDriverIInv, UpdateTypeIInv, UpdateStatusIInv
          DEF Register, UserRegistered
<1>3. ASSUME NEW o \in Orders,
             \/ SendClaim(o) \/ ClaimAvailableDriver(o) \/ AnswerClaim(o)
             \/ GiveUpClaim(o) \/ LoseClaim(o)
             \/ SendRelease(o) \/ UpdateStatusInternal(o) \/ GiveUpRelease(o)
             \/ LateRelease(o) \/ LoseRelease(o)
      PROVE  IInv'
  BY <1>3, CallerIInv, ClaimIInv, UpdateStatusInternalIInv, LateReleaseIInv
<1> QED BY <1>1, <1>2, <1>3 DEF Next

LEMMA Invariance == Spec => []IInv
<1> QED BY InitIInv, NextIInv, PTL DEF Spec

(* The variables of DriverPool keep their types.                            *)
THEOREM TypeCorrect == Spec => []TypeOK
<1>1. IInv => TypeOK
  BY DEF IInv
<1> QED BY <1>1, Invariance, PTL

(* ClaimAvailableDriver never gives a driver to two orders by itself,       *)
(* however many drivers, orders and calls there are.                        *)
THEOREM SharingCorrect == Spec => []DriversAreNotShared
<1>1. IInv => DriversAreNotShared
  BY DEF IInv
<1> QED BY <1>1, Invariance, PTL

(* An order's driver is out of the reach of every other claim, unless its   *)
(* status was overwritten.                                                  *)
THEOREM HeldCorrect == Spec => []HeldIsOnTrip
<1>1. IInv => HeldIsOnTrip
  BY DEF IInv
<1> QED BY <1>1, Invariance, PTL

(* The drivers left on-trip without an order are those of the calls whose   *)
(* end nobody heard, and no others.                                         *)
THEOREM OnTripCorrect == Spec => []OnTripIsAccountedFor
<1>1. IInv => OnTripIsAccountedFor
  BY DEF IInv
<1> QED BY <1>1, Invariance, PTL
=============================================================================
