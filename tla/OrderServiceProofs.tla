------------------------ MODULE OrderServiceProofs ------------------------
(* Proofs about OrderService, for every value of its constants: how many   *)
(* orders, users, drivers and calls there are, what fails, what drivers    *)
(* do with their own status.                                               *)
EXTENDS OrderService, SumLemmas

(* A first charge writes one debit row, for that order only. *)
LEMMA ChargeEffect ==
    ASSUME LedgerTypeOK, NEW o \in Orders, Charge(o), debits[o] = 0
    PROVE  /\ LedgerTypeOK'
           /\ debits' = [debits EXCEPT ![o] = 1]
           /\ credits' = credits
<1>1. /\ Rider[o] \in Users /\ Price[o] \in Nat
      /\ balance[Rider[o]] \in Nat /\ balance[Rider[o]] >= Price[o]
  <2>1. Rider[o] \in Users /\ Price[o] \in Nat
    BY LedgerAssumption
  <2>2. balance[Rider[o]] \in Nat
    BY <2>1 DEF LedgerTypeOK
  <2>3. balance[Rider[o]] >= Price[o]
    BY DEF Charge, Chargeable
  <2> QED BY <2>1, <2>2, <2>3
<1>2. /\ balance' = [balance EXCEPT ![Rider[o]] = balance[Rider[o]] - Price[o]]
      /\ debits' = [debits EXCEPT ![o] = debits[o] + 1]
      /\ credits' = credits
  BY DEF Charge, LedgerTypeOK
<1>3. balance[Rider[o]] - Price[o] \in Nat
  BY <1>1
<1> QED BY <1>1, <1>2, <1>3 DEF LedgerTypeOK

(* A refund leaves one credit row, for that order only, replayed or not. *)
LEMMA RefundEffect ==
    ASSUME LedgerTypeOK, NEW o \in Orders, Refund(o), credits[o] <= 1
    PROVE  /\ LedgerTypeOK'
           /\ credits' = [credits EXCEPT ![o] = 1]
           /\ debits' = debits
<1>1. CASE credits[o] > 0
  BY <1>1 DEF LedgerTypeOK, Refund
<1>2. CASE ~(credits[o] > 0)
  BY <1>2, LedgerAssumption DEF LedgerTypeOK, Refund
<1> QED BY <1>1, <1>2

LEMMA NoRowIsRow == NoRow \in Row
BY DEF NoRow, Row

(* The initial states satisfy the invariant. *)
LEMMA InitIInv == Init => IInv
<1> SUFFICES ASSUME Init PROVE IInv
  OBVIOUS
<1>1. TypeOK
  BY LedgerAssumption
  DEF Init, LedgerInit, NoRow, TypeOK, LedgerTypeOK, Row, Steps, Ops, Places, PoolStatuses, Statuses
<1>2. \A o \in Orders : /\ debits[o] = 0 /\ credits[o] = 0 /\ step[o] = "new"
                       /\ row[o].status = "none" /\ row[o].driver = NoDriver
  BY DEF Init, LedgerInit, NoRow
<1>3. \A s \in Slots : at[s] = "idle"
  BY DEF Init
<1>4. CreationOK
  BY <1>2 DEF CreationOK, Inserted
<1>5. MoneyOK
  BY <1>2 DEF MoneyOK, Inserted, Exists
<1>6. CallsOK
  BY <1>3 DEF CallsOK
<1>7. RefundedBeforeCancelled /\ MovingOrderHasDriver
  BY <1>2 DEF RefundedBeforeCancelled, MovingOrderHasDriver
<1>8. PaidForNothingOnlyByFault
  BY <1>2 DEF PaidForNothingOnlyByFault
<1> QED BY <1>1, <1>4, <1>5, <1>6, <1>7, <1>8 DEF IInv

(***************************************************************************)
(* One lemma per action: it preserves IInv.                                *)
(***************************************************************************)

LEMMA CreateChargeIInv ==
    ASSUME IInv, NEW o \in Orders, CreateCharge(o) PROVE IInv'
<1>1. PICK end \in Ends("wallet") :
          \/ /\ end = "refused" \/ ~Chargeable(o)
             /\ Return(o, "failed")
             /\ UNCHANGED ledgerVars
          \/ /\ end # "refused"
             /\ Charge(o)
             /\ IF end = "ok"
                THEN Goto(o, "insert") /\ UNCHANGED <<made, claimed>>
                ELSE Return(o, "failed")
  BY DEF CreateCharge
<1>2. /\ step[o] = "new" /\ debits[o] = 0 /\ credits[o] = 0 /\ ~Exists(o)
      /\ UNCHANGED <<row, indexed, pool, created, rated, op, target, at, seen, stars>>
  BY DEF CreateCharge, IInv, MoneyOK, outside, calls
<1>3. /\ credits' = credits
      /\ \/ /\ debits' = debits /\ UNCHANGED balance
            /\ Return(o, "failed")
         \/ /\ debits' = [debits EXCEPT ![o] = 1] /\ LedgerTypeOK'
            /\ \/ Goto(o, "insert") /\ UNCHANGED <<made, claimed>>
               \/ "wallet" \in Faults /\ Return(o, "failed")
  BY <1>1, <1>2, ChargeEffect DEF ledgerVars, Ends, IInv, TypeOK
<1>4. /\ step' = [step EXCEPT ![o] = "insert"] \/ step' = [step EXCEPT ![o] = "failed"]
      /\ made' = made \/ made' = [made EXCEPT ![o] = NoRow]
      /\ claimed' = claimed \/ claimed' = [claimed EXCEPT ![o] = NoDriver]
  BY <1>3 DEF Return, Goto
<1>5. TypeOK'
  <2>1. LedgerTypeOK'
    BY <1>3 DEF IInv, TypeOK, LedgerTypeOK
  <2>2. step' \in [Orders -> Steps]
    BY <1>4 DEF IInv, TypeOK, Steps
  <2>3. made' \in [Orders -> Row]
    BY <1>4, NoRowIsRow DEF IInv, TypeOK
  <2>4. claimed' \in [Orders -> Drivers \cup {NoDriver}]
    BY <1>4 DEF IInv, TypeOK
  <2> QED BY <1>2, <2>1, <2>2, <2>3, <2>4 DEF IInv, TypeOK
<1>6. CreationOK'
  BY <1>2, <1>4 DEF CreationOK, IInv, TypeOK, Inserted, Exists
<1>7. MoneyOK'
  BY <1>2, <1>3, <1>4 DEF MoneyOK, IInv, TypeOK, LedgerTypeOK, Inserted, Exists, Return, Goto
<1>8. CallsOK' 
  BY <1>2, <1>3 DEF CallsOK, CallOK, IInv, Exists
<1>9. RefundedBeforeCancelled' /\ MovingOrderHasDriver'
  BY <1>2, <1>3 DEF RefundedBeforeCancelled, MovingOrderHasDriver, IInv
<1>10. PaidForNothingOnlyByFault'
  BY <1>2, <1>3, SMTT(30) DEF PaidForNothingOnlyByFault, IInv, TypeOK, LedgerTypeOK, Exists, Return, Goto
<1> QED BY <1>5, <1>6, <1>7, <1>8, <1>9, <1>10 DEF IInv
LEMMA InsertedRowIsRow == InsertedRow \in Row /\ InsertedRow.status = "created" /\ InsertedRow.driver = NoDriver
BY DEF InsertedRow, NoRow, Row, Statuses

LEMMA CreateInsertIInv ==
    ASSUME IInv, NEW o \in Orders, CreateInsert(o) PROVE IInv'
<1>1. /\ step[o] = "insert" /\ debits[o] = 1 /\ row[o].driver = NoDriver
      /\ UNCHANGED <<balance, debits, credits, indexed, pool, created, rated, claimed>>
      /\ UNCHANGED <<op, target, at, seen, stars>>
  BY DEF CreateInsert, IInv, MoneyOK, CreationOK, Inserted, ledgerVars, outside, calls
<1>2. /\ row' = row \/ row' = [row EXCEPT ![o] = InsertedRow]
      /\ \/ /\ made' = [made EXCEPT ![o] = InsertedRow] /\ step' = [step EXCEPT ![o] = "index"]
            /\ row' = [row EXCEPT ![o] = InsertedRow]
         \/ made' = made /\ step' = [step EXCEPT ![o] = "refund"]
  BY DEF CreateInsert, Goto, Ends
<1>3. TypeOK'
  <2>1. step' \in [Orders -> Steps]
    BY <1>2 DEF IInv, TypeOK, Steps
  <2>2. row' \in [Orders -> Row] /\ made' \in [Orders -> Row]
    BY <1>2, InsertedRowIsRow DEF IInv, TypeOK
  <2> QED BY <1>1, <2>1, <2>2 DEF IInv, TypeOK, LedgerTypeOK
<1>4. CreationOK'
  BY <1>1, <1>2, InsertedRowIsRow DEF CreationOK, IInv, TypeOK, Inserted, Exists
<1>5. MoneyOK'
  BY <1>1, <1>2, InsertedRowIsRow DEF MoneyOK, IInv, TypeOK, Inserted, Exists
<1>6. CallsOK'
  BY <1>1, <1>2, InsertedRowIsRow DEF CallsOK, CallOK, IInv, TypeOK, Exists
<1>7. RefundedBeforeCancelled' /\ MovingOrderHasDriver'
  BY <1>1, <1>2, InsertedRowIsRow DEF RefundedBeforeCancelled, MovingOrderHasDriver, IInv, TypeOK
<1>8. PaidForNothingOnlyByFault'
  BY <1>1, <1>2, InsertedRowIsRow DEF PaidForNothingOnlyByFault, IInv, TypeOK, Exists
<1> QED BY <1>3, <1>4, <1>5, <1>6, <1>7, <1>8 DEF IInv

LEMMA CreateRefundIInv ==
    ASSUME IInv, NEW o \in Orders, CreateRefund(o) PROVE IInv'
<1>1. /\ step[o] = "refund" /\ debits[o] = 1 /\ credits[o] \in {0, 1} /\ credits[o] <= 1
      /\ UNCHANGED <<row, indexed, pool, created, rated, op, target, at, seen, stars>>
  BY DEF CreateRefund, IInv, MoneyOK, outside, calls
<1>2. /\ debits' = debits /\ LedgerTypeOK'
      /\ \/ credits' = [credits EXCEPT ![o] = 1]
         \/ credits' = credits /\ "wallet" \in Faults
  BY <1>1, RefundEffect DEF CreateRefund, Ends, IInv, TypeOK, LedgerTypeOK, ledgerVars
<1>3. /\ step' = [step EXCEPT ![o] = "failed"]
      /\ made' = [made EXCEPT ![o] = NoRow]
      /\ claimed' = [claimed EXCEPT ![o] = NoDriver]
  BY DEF CreateRefund, Return
<1>4. TypeOK'
  <2>1. step' \in [Orders -> Steps]
    BY <1>3 DEF IInv, TypeOK, Steps
  <2>2. made' \in [Orders -> Row]
    BY <1>3, NoRowIsRow DEF IInv, TypeOK
  <2>3. claimed' \in [Orders -> Drivers \cup {NoDriver}]
    BY <1>3 DEF IInv, TypeOK
  <2> QED BY <1>1, <1>2, <2>1, <2>2, <2>3 DEF IInv, TypeOK
<1>5. CreationOK'
  BY <1>1, <1>3 DEF CreationOK, IInv, TypeOK, Inserted, Exists
<1>6. MoneyOK'
  BY <1>1, <1>2, <1>3 DEF MoneyOK, IInv, TypeOK, LedgerTypeOK, Inserted, Exists
<1>7. CallsOK'
  BY <1>1, <1>2 DEF CallsOK, CallOK, IInv, TypeOK, LedgerTypeOK, Exists
<1>8. RefundedBeforeCancelled' /\ MovingOrderHasDriver'
  BY <1>1, <1>2 DEF RefundedBeforeCancelled, MovingOrderHasDriver, IInv, TypeOK, LedgerTypeOK
<1>9. PaidForNothingOnlyByFault'
  BY <1>1, <1>2, <1>3 DEF PaidForNothingOnlyByFault, IInv, TypeOK, LedgerTypeOK, Exists
<1> QED BY <1>4, <1>5, <1>6, <1>7, <1>8, <1>9 DEF IInv

(* CreateIndex, CreateClaim, CreateRelease and CreatePublish touch neither  *)
(* the ledger nor a row: they only move CreateOrder along.                  *)
LEMMA CreateAdvanceIInv ==
    ASSUME IInv, NEW o \in Orders, TypeOK',
           UNCHANGED <<balance, debits, credits, row, op, target, at, seen, stars>>,
           step[o] \in Inserted,
           \/ /\ step' = [step EXCEPT ![o] = "claim"] /\ UNCHANGED <<made, claimed>>
              /\ step[o] = "index"
           \/ /\ step' = [step EXCEPT ![o] = "assign"] /\ made' = made
              /\ step[o] = "claim" /\ claimed'[o] \in Drivers
              /\ \A p \in Orders : p # o => claimed'[p] = claimed[p]
           \/ /\ step' = [step EXCEPT ![o] = "publish"] /\ UNCHANGED <<made, claimed>>
           \/ /\ step' = [step EXCEPT ![o] = "done"]
              /\ \A p \in Orders : p # o => made'[p] = made[p] /\ claimed'[p] = claimed[p]
    PROVE  IInv'
<1>1. CreationOK'
  BY DEF CreationOK, IInv, TypeOK, Inserted, Exists
<1>2. MoneyOK'
  BY DEF MoneyOK, IInv, TypeOK, Inserted, Exists
<1>3. CallsOK' /\ RefundedBeforeCancelled' /\ MovingOrderHasDriver'
  BY DEF CallsOK, CallOK, RefundedBeforeCancelled, MovingOrderHasDriver, IInv, Exists
<1>4. PaidForNothingOnlyByFault'
  BY DEF PaidForNothingOnlyByFault, IInv, TypeOK, Exists
<1> QED BY <1>1, <1>2, <1>3, <1>4 DEF IInv

LEMMA CreateIndexIInv ==
    ASSUME IInv, NEW o \in Orders, CreateIndex(o) PROVE IInv'
<1>1. UNCHANGED <<balance, debits, credits, row, pool, created, rated, made, claimed>>
      /\ UNCHANGED <<op, target, at, seen, stars>>
  BY DEF CreateIndex, ledgerVars, calls
<1>2. \/ step[o] = "index" /\ step' = [step EXCEPT ![o] = "claim"]
      \/ step[o] = "reindex" /\ step' = [step EXCEPT ![o] = "publish"]
  BY DEF CreateIndex, Goto
<1>3. TypeOK'
  <2>1. step' \in [Orders -> Steps]
    BY <1>2 DEF IInv, TypeOK, Steps
  <2>2. indexed' \in [Orders -> Row]
    BY DEF CreateIndex, IndexOrder, IInv, TypeOK
  <2> QED BY <1>1, <2>1, <2>2 DEF IInv, TypeOK, LedgerTypeOK
<1> QED BY <1>1, <1>2, <1>3, CreateAdvanceIInv DEF Inserted

LEMMA CreateClaimIInv ==
    ASSUME IInv, NEW o \in Orders, CreateClaim(o) PROVE IInv'
<1>1. /\ step[o] = "claim"
      /\ UNCHANGED <<balance, debits, credits, row, indexed, created, rated, made>>
      /\ UNCHANGED <<op, target, at, seen, stars>>
  BY DEF CreateClaim, ledgerVars, calls
<1>2. \/ /\ step' = [step EXCEPT ![o] = "publish"] /\ claimed' = claimed
         /\ pool' = pool \/ \E d \in Drivers : pool' = [pool EXCEPT ![d] = "on-trip"]
      \/ \E d \in Drivers : /\ step' = [step EXCEPT ![o] = "assign"]
                            /\ claimed' = [claimed EXCEPT ![o] = d]
                            /\ pool' = [pool EXCEPT ![d] = "on-trip"]
  BY DEF CreateClaim, Claimable, Goto
<1>3. TypeOK'
  <2>1. step' \in [Orders -> Steps]
    BY <1>2 DEF IInv, TypeOK, Steps
  <2>2. pool' \in [Drivers -> PoolStatuses]
    BY <1>2 DEF IInv, TypeOK, PoolStatuses
  <2>3. claimed' \in [Orders -> Drivers \cup {NoDriver}]
    BY <1>2 DEF IInv, TypeOK
  <2> QED BY <1>1, <2>1, <2>2, <2>3 DEF IInv, TypeOK, LedgerTypeOK
<1>4. \/ /\ step' = [step EXCEPT ![o] = "publish"] /\ UNCHANGED <<made, claimed>>
      \/ /\ step' = [step EXCEPT ![o] = "assign"] /\ made' = made
         /\ claimed'[o] \in Drivers
         /\ \A p \in Orders : p # o => claimed'[p] = claimed[p]
  BY <1>1, <1>2 DEF IInv, TypeOK
<1> QED BY <1>1, <1>3, <1>4, CreateAdvanceIInv DEF Inserted

LEMMA ReleaseEffect ==
    ASSUME IInv, NEW d, ReleaseDriver(d) PROVE pool' \in [Drivers -> PoolStatuses]
BY DEF ReleaseDriver, IInv, TypeOK, PoolStatuses

LEMMA CreateReleaseIInv ==
    ASSUME IInv, NEW o \in Orders, CreateRelease(o) PROVE IInv'
<1>1. /\ step[o] = "release" /\ step' = [step EXCEPT ![o] = "publish"]
      /\ UNCHANGED <<balance, debits, credits, row, indexed, created, rated, made, claimed>>
      /\ UNCHANGED <<op, target, at, seen, stars>>
  BY DEF CreateRelease, ledgerVars, calls, Goto
<1>2. pool' \in [Drivers -> PoolStatuses]
  BY ReleaseEffect DEF CreateRelease
<1>3. TypeOK'
  BY <1>1, <1>2 DEF IInv, TypeOK, LedgerTypeOK, Steps
<1> QED BY <1>1, <1>3, CreateAdvanceIInv DEF Inserted

LEMMA CreatePublishIInv ==
    ASSUME IInv, NEW o \in Orders, CreatePublish(o) PROVE IInv'
<1>1. /\ step[o] = "publish" /\ step' = [step EXCEPT ![o] = "done"]
      /\ made' = [made EXCEPT ![o] = NoRow]
      /\ claimed' = [claimed EXCEPT ![o] = NoDriver]
      /\ UNCHANGED <<balance, debits, credits, row, indexed, pool, rated>>
      /\ UNCHANGED <<op, target, at, seen, stars>>
  BY DEF CreatePublish, ledgerVars, calls, Return
<1>2. made[o].status \in Statuses
  BY <1>1 DEF IInv, CreationOK, Inserted, TypeOK, Row
<1>3. TypeOK'
  <2>1. step' \in [Orders -> Steps]
    BY <1>1 DEF IInv, TypeOK, Steps
  <2>2. made' \in [Orders -> Row]
    BY <1>1, NoRowIsRow DEF IInv, TypeOK
  <2>3. claimed' \in [Orders -> Drivers \cup {NoDriver}]
    BY <1>1 DEF IInv, TypeOK
  <2>4. created' \in [Orders -> SUBSET Statuses]
    BY <1>2 DEF CreatePublish, IInv, TypeOK
  <2> QED BY <1>1, <2>1, <2>2, <2>3, <2>4 DEF IInv, TypeOK, LedgerTypeOK
<1>4. \A p \in Orders : p # o => made'[p] = made[p] /\ claimed'[p] = claimed[p]
  BY <1>1 DEF IInv, TypeOK
<1> QED BY <1>1, <1>3, <1>4, CreateAdvanceIInv DEF Inserted

LEMMA AssignedIsRow ==
    ASSUME NEW r \in Row, NEW d \in Drivers
    PROVE  /\ Assigned(r, d) \in Row /\ Assigned(r, d).driver = d
           /\ Assigned(r, d).status = "driver_assigned"
BY DEF Assigned, Row, Statuses

LEMMA CreateAssignIInv ==
    ASSUME IInv, NEW o \in Orders, CreateAssign(o) PROVE IInv'
<1>1. /\ step[o] = "assign" /\ debits[o] = 1 /\ row[o].driver = NoDriver
      /\ claimed[o] \in Drivers /\ row[o] \in Row
      /\ UNCHANGED <<balance, debits, credits, indexed, pool, created, rated, claimed>>
      /\ UNCHANGED <<op, target, at, seen, stars>>
  BY DEF CreateAssign, IInv, MoneyOK, CreationOK, TypeOK, Inserted, ledgerVars, outside, calls
<1> DEFINE r == Assigned(row[o], claimed[o])
<1>2. r \in Row /\ r.driver \in Drivers /\ r.status = "driver_assigned"
  BY <1>1, AssignedIsRow
<1>3. /\ row' = row \/ row' = [row EXCEPT ![o] = r]
      /\ \/ /\ made' = [made EXCEPT ![o] = row'[o]] /\ step' = [step EXCEPT ![o] = "reindex"]
            /\ row' = [row EXCEPT ![o] = r]
         \/ made' = made /\ step' = [step EXCEPT ![o] = "release"]
  BY DEF CreateAssign, Goto, Ends
<1>4. row'[o] = r \/ row' = row
  BY <1>3 DEF IInv, TypeOK
<1> HIDE DEF r
<1>5. NoDriver \notin Drivers
  BY OrderServiceAssumption
<1>6. TypeOK'
  <2>1. step' \in [Orders -> Steps]
    BY <1>3 DEF IInv, TypeOK, Steps
  <2>2. row' \in [Orders -> Row] /\ made' \in [Orders -> Row]
    BY <1>2, <1>3 DEF IInv, TypeOK
  <2> QED BY <1>1, <2>1, <2>2 DEF IInv, TypeOK, LedgerTypeOK
<1>7. CreationOK'
  BY <1>1, <1>2, <1>3 DEF CreationOK, IInv, TypeOK, Inserted, Exists
<1>8. MoneyOK'
  BY <1>1, <1>2, <1>3 DEF MoneyOK, IInv, TypeOK, Inserted, Exists
<1>9. CallsOK'
  BY <1>1, <1>2, <1>3, <1>5 DEF CallsOK, CallOK, IInv, TypeOK, Exists
<1>10. RefundedBeforeCancelled' /\ MovingOrderHasDriver'
  BY <1>1, <1>2, <1>3, <1>5 DEF RefundedBeforeCancelled, MovingOrderHasDriver, IInv, TypeOK
<1>11. PaidForNothingOnlyByFault'
  BY <1>1, <1>2, <1>3 DEF PaidForNothingOnlyByFault, IInv, TypeOK, Exists
<1> QED BY <1>6, <1>7, <1>8, <1>9, <1>10, <1>11 DEF IInv

(***************************************************************************)
(* The calls on an existing order.                                         *)
(***************************************************************************)

LEMMA BeginIInv ==
    ASSUME IInv, NEW s \in Slots, NEW o \in Orders, NEW what \in Ops \ {"none"},
           NEW given \in Ratings \cup {NoRating}, Begin(s, what, o, given)
    PROVE  IInv'
<1>1. /\ UNCHANGED <<balance, debits, credits, row, indexed, pool, created, rated>>
      /\ UNCHANGED <<step, made, claimed>>
  BY DEF Begin, ledgerVars, outside, creation
<1>2. /\ op' = [op EXCEPT ![s] = what]
      /\ target' = [target EXCEPT ![s] = o]
      /\ at' = [at EXCEPT ![s] = First(what)]
      /\ seen' = [seen EXCEPT ![s] = row[o]]
      /\ stars' = [stars EXCEPT ![s] = given]
      /\ Allowed(what, row[o])
  BY DEF Begin
<1>3. /\ First(what) \in {"refund", "release", "write"}
      /\ First(what) = "refund" <=> what = "cancel"
  BY DEF First, Ops
<1>4. /\ Exists(o)
      /\ what \in {"start", "complete"} => row[o].driver # NoDriver
  BY <1>2 DEF Allowed, Exists
<1>5. TypeOK'
  BY <1>1, <1>2, <1>3 DEF IInv, TypeOK, LedgerTypeOK, Places
<1>6. CallsOK'
  <2> SUFFICES ASSUME NEW t \in Slots, at'[t] # "idle" PROVE CallOK(t)'
    BY DEF CallsOK
  <2>1. CASE t = s
    BY <2>1, <1>1, <1>2, <1>3, <1>4 DEF CallOK, IInv, TypeOK, Exists
  <2>2. CASE t # s
    BY <2>2, <1>1, <1>2 DEF CallsOK, CallOK, IInv, TypeOK, Exists
  <2> QED BY <2>1, <2>2
<1>7. CreationOK' /\ MoneyOK'
  BY <1>1 DEF CreationOK, MoneyOK, IInv, Exists
<1>8. RefundedBeforeCancelled' /\ MovingOrderHasDriver' /\ PaidForNothingOnlyByFault'
  BY <1>1 DEF RefundedBeforeCancelled, MovingOrderHasDriver, PaidForNothingOnlyByFault, IInv, Exists
<1> QED BY <1>5, <1>6, <1>7, <1>8 DEF IInv

(* A call moves on or returns, and at most writes the ledger or the row of  *)
(* its order: what that takes to preserve the invariant about all calls.    *)
LEMMA StayCallsOK ==
    ASSUME IInv, NEW s \in Slots,
           \A t \in Slots : t # s => at'[t] = at[t] /\ op'[t] = op[t] /\ target'[t] = target[t],
           at'[s] # "idle" => CallOK(s)',
           \A o \in Orders : /\ Exists(o) => Exists(o)'
                             /\ row[o].driver # NoDriver => row'[o].driver # NoDriver
                             /\ credits[o] = 1 => credits'[o] = 1
    PROVE  CallsOK'
<1> SUFFICES ASSUME NEW t \in Slots, at'[t] # "idle" PROVE CallOK(t)'
  BY DEF CallsOK
<1>1. CASE t = s
  BY <1>1
<1>2. CASE t # s
  BY <1>2 DEF IInv, CallsOK, CallOK
<1> QED BY <1>1, <1>2

LEMMA LeaveEffect ==
    ASSUME IInv, NEW s \in Slots, Leave(s)
    PROVE  /\ op' \in [Slots -> Ops] /\ target' \in [Slots -> Orders \cup {NoOrder}]
           /\ at' \in [Slots -> Places] /\ seen' \in [Slots -> Row]
           /\ stars' \in [Slots -> Ratings \cup {NoRating}]
           /\ at'[s] = "idle"
           /\ \A t \in Slots : t # s => at'[t] = at[t] /\ op'[t] = op[t] /\ target'[t] = target[t]
BY NoRowIsRow DEF Leave, IInv, TypeOK, Ops, Places

LEMMA MoveEffect ==
    ASSUME IInv, NEW s \in Slots, NEW place \in Places, Move(s, place)
    PROVE  /\ op' \in [Slots -> Ops] /\ target' \in [Slots -> Orders \cup {NoOrder}]
           /\ at' \in [Slots -> Places] /\ seen' \in [Slots -> Row]
           /\ stars' \in [Slots -> Ratings \cup {NoRating}]
           /\ at'[s] = place /\ op'[s] = op[s] /\ target'[s] = target[s]
           /\ \A t \in Slots : t # s => at'[t] = at[t] /\ op'[t] = op[t] /\ target'[t] = target[t]
BY DEF Move, IInv, TypeOK

LEMMA CancelRefundIInv ==
    ASSUME IInv, NEW s \in Slots, CancelRefund(s) PROVE IInv'
<1> DEFINE o == target[s]
<1>1. /\ at[s] = "refund" /\ op[s] = "cancel" /\ o \in Orders /\ Exists(o)
      /\ debits[o] = 1 /\ credits[o] \in {0, 1} /\ credits[o] <= 1
      /\ UNCHANGED <<row, indexed, pool, created, rated, step, made, claimed>>
  BY DEF CancelRefund, IInv, CallsOK, CallOK, MoneyOK, outside, creation
<1> HIDE DEF o
<1>2. /\ debits' = debits /\ LedgerTypeOK'
      /\ \/ /\ credits' = [credits EXCEPT ![o] = 1]
            /\ Move(s, "release") \/ Move(s, "write") \/ Leave(s)
         \/ credits' = credits /\ Leave(s)
  BY <1>1, RefundEffect DEF CancelRefund, o, Ends, IInv, TypeOK, LedgerTypeOK, ledgerVars
<1>3. /\ op' \in [Slots -> Ops] /\ target' \in [Slots -> Orders \cup {NoOrder}]
      /\ at' \in [Slots -> Places] /\ seen' \in [Slots -> Row]
      /\ stars' \in [Slots -> Ratings \cup {NoRating}]
      /\ \A t \in Slots : t # s => at'[t] = at[t] /\ op'[t] = op[t] /\ target'[t] = target[t]
      /\ \/ at'[s] = "idle"
         \/ /\ op'[s] = op[s] /\ target'[s] = target[s] /\ at'[s] \in {"release", "write"}
            /\ credits' = [credits EXCEPT ![o] = 1]
  BY <1>2, LeaveEffect, MoveEffect DEF Places
<1>4. TypeOK'
  BY <1>1, <1>2, <1>3 DEF IInv, TypeOK
<1>5. \A p \in Orders : credits[p] = 1 => credits'[p] = 1
  BY <1>1, <1>2 DEF IInv, TypeOK, LedgerTypeOK
<1>6. CallsOK'
  <2>1. at'[s] # "idle" => CallOK(s)'
    BY <1>1, <1>3 DEF CallOK, o, Exists, IInv, TypeOK, LedgerTypeOK
  <2> QED BY <1>1, <1>3, <1>5, <2>1, StayCallsOK DEF Exists
<1>7. CreationOK'
  BY <1>1 DEF CreationOK, IInv, Exists
<1>8. MoneyOK'
  BY <1>1, <1>2 DEF MoneyOK, IInv, TypeOK, LedgerTypeOK, Exists
<1>9. RefundedBeforeCancelled' /\ MovingOrderHasDriver'
  BY <1>1, <1>5 DEF RefundedBeforeCancelled, MovingOrderHasDriver, IInv
<1>10. PaidForNothingOnlyByFault'
  BY <1>1, <1>2 DEF PaidForNothingOnlyByFault, IInv, TypeOK, LedgerTypeOK, Exists
<1> QED BY <1>4, <1>6, <1>7, <1>8, <1>9, <1>10 DEF IInv

(* CallRelease, CallIndex and RatePublish touch neither the ledger nor a row. *)
LEMMA CallAdvanceIInv ==
    ASSUME IInv, NEW s \in Slots, TypeOK',
           UNCHANGED <<balance, debits, credits, row, step, made, claimed>>,
           \A t \in Slots : t # s => at'[t] = at[t] /\ op'[t] = op[t] /\ target'[t] = target[t],
           at[s] # "idle",
           \/ at'[s] = "idle"
           \/ /\ op'[s] = op[s] /\ target'[s] = target[s]
              /\ \/ at[s] = "release" /\ at'[s] = "write"
                 \/ at'[s] = "publish" /\ op[s] = "rate"
    PROVE  IInv'
<1>1. at'[s] # "idle" => CallOK(s)'
  BY DEF IInv, CallsOK, CallOK, Exists
<1>2. CallsOK'
  BY <1>1, StayCallsOK DEF Exists
<1>3. CreationOK' /\ MoneyOK'
  BY DEF CreationOK, MoneyOK, IInv, Exists
<1>4. RefundedBeforeCancelled' /\ MovingOrderHasDriver' /\ PaidForNothingOnlyByFault'
  BY DEF RefundedBeforeCancelled, MovingOrderHasDriver, PaidForNothingOnlyByFault, IInv, Exists
<1> QED BY <1>2, <1>3, <1>4 DEF IInv

LEMMA CallReleaseIInv ==
    ASSUME IInv, NEW s \in Slots, CallRelease(s) PROVE IInv'
<1>1. /\ at[s] = "release" /\ Move(s, "write")
      /\ UNCHANGED <<balance, debits, credits, row, indexed, created, rated, step, made, claimed>>
  BY DEF CallRelease, ledgerVars, creation
<1>2. pool' \in [Drivers -> PoolStatuses]
  BY ReleaseEffect DEF CallRelease
<1>3. "write" \in Places
  BY DEF Places
<1>4. TypeOK'
  BY <1>1, <1>2, <1>3, MoveEffect DEF IInv, TypeOK, LedgerTypeOK
<1> QED BY <1>1, <1>3, <1>4, MoveEffect, CallAdvanceIInv

LEMMA CallIndexIInv ==
    ASSUME IInv, NEW s \in Slots, CallIndex(s) PROVE IInv'
<1>1. /\ at[s] = "index" /\ (Leave(s) \/ (op[s] = "rate" /\ Move(s, "publish")))
      /\ UNCHANGED <<balance, debits, credits, row, pool, created, rated, step, made, claimed>>
  BY DEF CallIndex, ledgerVars, creation
<1>2. indexed' \in [Orders -> Row]
  BY DEF CallIndex, IndexOrder, IInv, TypeOK
<1>3. "publish" \in Places
  BY DEF Places
<1>4. TypeOK'
  BY <1>1, <1>2, <1>3, MoveEffect, LeaveEffect DEF IInv, TypeOK, LedgerTypeOK
<1> QED BY <1>1, <1>3, <1>4, MoveEffect, LeaveEffect, CallAdvanceIInv

LEMMA RatePublishIInv ==
    ASSUME IInv, NEW s \in Slots, RatePublish(s) PROVE IInv'
<1>1. /\ at[s] = "publish" /\ Leave(s)
      /\ UNCHANGED <<balance, debits, credits, row, indexed, pool, created, step, made, claimed>>
  BY DEF RatePublish, ledgerVars, creation
<1>2. rated' \in [Orders -> SUBSET ((Drivers \cup {NoDriver}) \X (Ratings \cup {NoRating}))]
  <2> DEFINE Events == (Drivers \cup {NoDriver}) \X (Ratings \cup {NoRating})
             e == <<seen[s].driver, seen[s].rating>>
  <2>1. e \in Events
    BY DEF IInv, TypeOK, Row
  <2>2. rated \in [Orders -> SUBSET Events]
    BY DEF IInv, TypeOK
  <2>3. rated' = rated \/ rated' = [rated EXCEPT ![target[s]] = @ \cup {e}]
    BY DEF RatePublish
  <2> HIDE DEF Events, e
  <2>4. rated' \in [Orders -> SUBSET Events]
    BY <2>1, <2>2, <2>3
  <2> QED BY <2>4 DEF Events
<1>3. TypeOK'
  BY <1>1, <1>2, LeaveEffect DEF IInv, TypeOK, LedgerTypeOK
<1> QED BY <1>1, <1>3, LeaveEffect, CallAdvanceIInv

(* What the UPDATE of a call does to a row. *)
LEMMA WrittenIsRow ==
    ASSUME NEW s \in Slots, NEW r \in Row, op[s] \in Ops \ {"none"},
           stars[s] \in Ratings \cup {NoRating}
    PROVE  /\ Written(s, r) \in Row /\ Written(s, r).driver = r.driver
           /\ \/ op[s] = "rate" /\ Written(s, r).status = r.status
              \/ op[s] = "cancel" /\ Written(s, r).status = "cancelled"
              \/ /\ op[s] \in {"start", "complete"}
                 /\ Written(s, r).status \in {"in_progress", "completed"}
<1>1. CASE op[s] = "cancel"
  <2>1. Written(s, r) = [r EXCEPT !.status = "cancelled"]
    BY <1>1 DEF Written
  <2>2. /\ [r EXCEPT !.status = "cancelled"] \in Row
        /\ [r EXCEPT !.status = "cancelled"].driver = r.driver
        /\ [r EXCEPT !.status = "cancelled"].status = "cancelled"
    BY DEF Row, Statuses
  <2> QED BY <1>1, <2>1, <2>2
<1>2. CASE op[s] = "start"
  BY <1>2 DEF Written, Row, Statuses
<1>3. CASE op[s] = "complete"
  BY <1>3 DEF Written, Row, Statuses
<1>4. CASE op[s] = "rate"
  <2>1. Written(s, r) = [r EXCEPT !.rating = stars[s]]
    BY <1>4 DEF Written
  <2>2. /\ [r EXCEPT !.rating = stars[s]] \in Row
        /\ [r EXCEPT !.rating = stars[s]].driver = r.driver
        /\ [r EXCEPT !.rating = stars[s]].status = r.status
    BY DEF Row
  <2> QED BY <1>4, <2>1, <2>2
<1> QED BY <1>1, <1>2, <1>3, <1>4 DEF Ops

LEMMA CallWriteIInv ==
    ASSUME IInv, NEW s \in Slots, CallWrite(s) PROVE IInv'
<1> DEFINE o == target[s]
           r == Written(s, row[o])
<1>1. /\ at[s] = "write" /\ CallOK(s) /\ o \in Orders /\ Exists(o) /\ row[o] \in Row
      /\ op[s] \in Ops \ {"none"} /\ stars[s] \in Ratings \cup {NoRating}
      /\ UNCHANGED <<balance, debits, credits, indexed, pool, created, rated, step, made, claimed>>
  BY DEF CallWrite, IInv, TypeOK, CallsOK, CallOK, ledgerVars, outside, creation
<1>2. /\ r \in Row /\ r.driver = row[o].driver
      /\ \/ r.status = row[o].status /\ op[s] = "rate"
         \/ r.status = "cancelled" /\ op[s] = "cancel"
         \/ r.status \in {"in_progress", "completed"} /\ op[s] \in {"start", "complete"}
  BY <1>1, WrittenIsRow
<1>3. r.status # "none"
  BY <1>1, <1>2 DEF Exists
<1>4. /\ row' = row \/ row' = [row EXCEPT ![o] = r]
      /\ \/ Leave(s)
         \/ /\ at' = [at EXCEPT ![s] = "index"]
            /\ seen' = [seen EXCEPT ![s] = row'[o]]
            /\ UNCHANGED <<op, target, stars>>
  BY DEF CallWrite
<1> HIDE DEF r
<1>5. row' \in [Orders -> Row]
  BY <1>1, <1>2, <1>4 DEF IInv, TypeOK
<1>6. /\ op' \in [Slots -> Ops] /\ target' \in [Slots -> Orders \cup {NoOrder}]
      /\ at' \in [Slots -> Places] /\ seen' \in [Slots -> Row]
      /\ stars' \in [Slots -> Ratings \cup {NoRating}]
      /\ \A t \in Slots : t # s => at'[t] = at[t] /\ op'[t] = op[t] /\ target'[t] = target[t]
      /\ \/ at'[s] = "idle"
         \/ at'[s] = "index" /\ op'[s] = op[s] /\ target'[s] = target[s]
  <2>1. CASE Leave(s)
    BY <2>1, LeaveEffect
  <2>2. CASE ~Leave(s)
    BY <2>2, <1>1, <1>4, <1>5 DEF IInv, TypeOK, Places
  <2> QED BY <2>1, <2>2
<1>7. \A p \in Orders : /\ Exists(p) => Exists(p)'
                        /\ row'[p].driver = row[p].driver
  BY <1>1, <1>2, <1>3, <1>4 DEF Exists, IInv, TypeOK
<1>8. TypeOK'
  BY <1>1, <1>5, <1>6 DEF IInv, TypeOK, LedgerTypeOK
<1>9. CallsOK'
  <2>1. at'[s] # "idle" => CallOK(s)'
    BY <1>1, <1>6, <1>7 DEF CallOK, o
  <2> QED BY <1>1, <1>6, <1>7, <2>1, StayCallsOK
<1>10. CreationOK'
  BY <1>1, <1>7 DEF CreationOK, IInv
<1>11. MoneyOK'
  BY <1>1, <1>3, <1>4 DEF MoneyOK, IInv, TypeOK, Exists, Inserted
<1>12. RefundedBeforeCancelled'
  BY <1>1, <1>2, <1>4 DEF RefundedBeforeCancelled, CallOK, o, IInv, TypeOK
<1>13. MovingOrderHasDriver'
  BY <1>1, <1>2, <1>4 DEF MovingOrderHasDriver, CallOK, o, IInv, TypeOK
<1>14. PaidForNothingOnlyByFault'
  BY <1>1, <1>7 DEF PaidForNothingOnlyByFault, IInv
<1> QED BY <1>8, <1>9, <1>10, <1>11, <1>12, <1>13, <1>14 DEF IInv

LEMMA DriverSetsStatusIInv ==
    ASSUME IInv, NEW d \in Drivers, DriverSetsStatus(d) PROVE IInv'
<1>1. UNCHANGED <<balance, debits, credits, row, indexed, created, rated, step, made, claimed,
                  op, target, at, seen, stars>>
  BY DEF DriverSetsStatus, ledgerVars, creation, calls
<1>2. pool' \in [Drivers -> PoolStatuses]
  BY OrderServiceAssumption DEF DriverSetsStatus, IInv, TypeOK
<1>3. TypeOK'
  BY <1>1, <1>2 DEF IInv, TypeOK, LedgerTypeOK
<1> QED BY <1>1, <1>3
        DEF IInv, CreationOK, MoneyOK, CallsOK, CallOK, RefundedBeforeCancelled,
            MovingOrderHasDriver, PaidForNothingOnlyByFault, Exists

LEMMA CrashIInv == ASSUME IInv, Crash PROVE IInv'
<1>1. /\ "process" \in Faults
      /\ UNCHANGED <<balance, debits, credits, row, indexed, pool, created, rated>>
  BY DEF Crash, ledgerVars, outside
<1>2. \A o \in Orders : step'[o] = "failed" \/ (step'[o] = step[o] /\ step[o] \in {"new", "done"})
  BY DEF Crash
<1>3. \A s \in Slots : at'[s] = "idle"
  BY DEF Crash
<1>4. TypeOK'
  <2>1. step' \in [Orders -> Steps]
    BY DEF Crash, Steps
  <2>2. made' \in [Orders -> Row] /\ claimed' \in [Orders -> Drivers \cup {NoDriver}]
    BY NoRowIsRow DEF Crash
  <2>3. /\ op' \in [Slots -> Ops] /\ target' \in [Slots -> Orders \cup {NoOrder}]
        /\ at' \in [Slots -> Places] /\ seen' \in [Slots -> Row]
        /\ stars' \in [Slots -> Ratings \cup {NoRating}]
    BY NoRowIsRow DEF Crash, Ops, Places
  <2> QED BY <1>1, <2>1, <2>2, <2>3 DEF IInv, TypeOK, LedgerTypeOK
<1>5. CreationOK'
  BY <1>1, <1>2 DEF IInv, CreationOK, Inserted, Exists
<1>6. MoneyOK'
  BY <1>1, <1>2 DEF IInv, MoneyOK, Inserted, Exists
<1>7. CallsOK'
  BY <1>3 DEF CallsOK
<1>8. RefundedBeforeCancelled' /\ MovingOrderHasDriver'
  BY <1>1 DEF IInv, RefundedBeforeCancelled, MovingOrderHasDriver
<1>9. PaidForNothingOnlyByFault'
  BY <1>1 DEF PaidForNothingOnlyByFault
<1> QED BY <1>4, <1>5, <1>6, <1>7, <1>8, <1>9 DEF IInv

LEMMA StutterIInv == ASSUME IInv, UNCHANGED vars PROVE IInv'
BY DEF IInv, TypeOK, LedgerTypeOK, CreationOK, MoneyOK, CallsOK, CallOK, vars,
       RefundedBeforeCancelled, MovingOrderHasDriver, PaidForNothingOnlyByFault, Exists

(***************************************************************************)
(* The invariant is inductive.                                             *)
(***************************************************************************)

LEMMA NextIInv == IInv /\ [Next]_vars => IInv'
<1> SUFFICES ASSUME IInv, [Next]_vars PROVE IInv'
  OBVIOUS
<1>1. ASSUME NEW o \in Orders, CreateOrder(o) PROVE IInv'
  BY <1>1, CreateChargeIInv, CreateInsertIInv, CreateRefundIInv, CreateIndexIInv,
     CreateClaimIInv, CreateAssignIInv, CreateReleaseIInv, CreatePublishIInv DEF CreateOrder
<1>2. ASSUME NEW s \in Slots, BeginCancel(s) \/ BeginStart(s) \/ BeginComplete(s) \/ BeginRate(s)
      PROVE IInv'
  BY <1>2, BeginIInv DEF BeginCancel, BeginStart, BeginComplete, BeginRate, Ops
<1>3. ASSUME NEW s \in Slots, Continue(s) PROVE IInv'
  BY <1>3, CancelRefundIInv, CallReleaseIInv, CallWriteIInv, CallIndexIInv, RatePublishIInv
  DEF Continue
<1>4. ASSUME NEW d \in Drivers, DriverSetsStatus(d) PROVE IInv'
  BY <1>4, DriverSetsStatusIInv
<1> QED BY <1>1, <1>2, <1>3, <1>4, CrashIInv, StutterIInv DEF Next

(* What the theorems below rest on: IInv holds in every reachable state. *)
THEOREM InductiveInvariant == Spec => []IInv
BY InitIInv, NextIInv, PTL DEF Spec

(* Every variable keeps its type, whatever interleaves and whatever fails; *)
(* a wallet balance in particular never becomes negative.                  *)
THEOREM TypeCorrect == Spec => []TypeOK
<1>1. IInv => TypeOK
  BY DEF IInv
<1> QED BY <1>1, InductiveInvariant, PTL

(* CreateOrder inserts a row only for an order whose charge is in the       *)
(* ledger, for any number of orders, calls and failures.                   *)
THEOREM ChargeGatesOrder == Spec => []ChargedBeforeOrder
<1>1. IInv => ChargedBeforeOrder
  BY DEF IInv, MoneyOK, ChargedBeforeOrder
<1> QED BY <1>1, InductiveInvariant, PTL

(* CancelOrder sets "cancelled" only when the refund is in the ledger.     *)
THEOREM RefundGatesCancel == Spec => []RefundedBeforeCancelled
<1>1. IInv => RefundedBeforeCancelled
  BY DEF IInv
<1> QED BY <1>1, InductiveInvariant, PTL

(* Retried and overlapping refunds pay an order back at most once, and only *)
(* an order that was charged; a charge is made at most once.               *)
THEOREM MoneyMovesOnce == Spec => []AtMostOneOfEach
<1>1. IInv => AtMostOneOfEach
  <2> SUFFICES ASSUME IInv, NEW o \in Orders
               PROVE  credits[o] <= debits[o] /\ debits[o] <= 1
    BY DEF AtMostOneOfEach
  <2>1. credits[o] \in {0, 1} /\ debits[o] \in {0, 1} /\ (credits[o] = 1 => debits[o] = 1)
    BY DEF IInv, MoneyOK
  <2> QED BY <2>1
<1> QED BY <1>1, InductiveInvariant, PTL

(* The three together: the money of an order follows its row.               *)
THEOREM MoneyCorrect == Spec => []MoneyFollowsOrder
<1>1. ChargedBeforeOrder /\ RefundedBeforeCancelled /\ AtMostOneOfEach => MoneyFollowsOrder
  BY DEF MoneyFollowsOrder
<1> QED BY <1>1, ChargeGatesOrder, RefundGatesCancel, MoneyMovesOnce, PTL

(* StartTrip, CompleteTrip and AssignDriver update rows without looking at  *)
(* them, and still no order is under way or completed without a driver.    *)
THEOREM TripsHaveDrivers == Spec => []MovingOrderHasDriver
<1>1. IInv => MovingOrderHasDriver
  BY DEF IInv
<1> QED BY <1>1, InductiveInvariant, PTL

(* A rider whose CreateOrder failed pays for no order only if the wallet   *)
(* call failed or the process died.                                        *)
THEOREM FailuresAreCompensated == Spec => []PaidForNothingOnlyByFault
<1>1. IInv => PaidForNothingOnlyByFault
  BY DEF IInv
<1> QED BY <1>1, InductiveInvariant, PTL

(***************************************************************************)
(* The driver and the rating of an order are final.  IInv has that a row   *)
(* has no driver until AssignDriver; the insert must also overwrite no row. *)
(***************************************************************************)

LEMMA CreateKeeps ==
    ASSUME IInv, NoRowYet, NEW o \in Orders, CreateOrder(o)
    PROVE  NoRowYet' /\ DriverAndRatingKept
<1>1. CASE CreateInsert(o)
  <2>1. /\ step[o] = "insert" /\ row[o] = NoRow
        /\ row' = row \/ row' = [row EXCEPT ![o] = InsertedRow]
        /\ step' = [step EXCEPT ![o] = "index"] \/ step' = [step EXCEPT ![o] = "refund"]
    BY <1>1 DEF CreateInsert, Goto, NoRowYet
  <2>2. NoRow.driver = NoDriver /\ NoRow.rating = NoRating
    BY DEF NoRow
  <2>3. NoRowYet'
    BY <2>1 DEF NoRowYet, IInv, TypeOK
  <2> QED BY <2>1, <2>2, <2>3 DEF DriverAndRatingKept, IInv, TypeOK
<1>2. CASE CreateAssign(o)
  <2> DEFINE r == Assigned(row[o], claimed[o])
  <2>1. /\ step[o] = "assign" /\ row[o].driver = NoDriver
        /\ row' = row \/ row' = [row EXCEPT ![o] = r]
        /\ step' = [step EXCEPT ![o] = "reindex"] \/ step' = [step EXCEPT ![o] = "release"]
    BY <1>2 DEF CreateAssign, Goto, IInv, CreationOK
  <2>2. r.rating = row[o].rating
    BY DEF Assigned, Row, IInv, TypeOK
  <2> HIDE DEF r
  <2>3. NoRowYet'
    BY <2>1 DEF NoRowYet, IInv, TypeOK
  <2> QED BY <2>1, <2>2, <2>3 DEF DriverAndRatingKept, IInv, TypeOK
<1>3. CASE ~CreateInsert(o) /\ ~CreateAssign(o)
  <2>1. /\ row' = row
        /\ \A p \in Orders : step'[p] \in {"new", "insert"} => step[p] \in {"new", "insert"}
    BY <1>3
    DEF CreateOrder, CreateCharge, CreateRefund, CreateIndex, CreateClaim, CreateRelease,
        CreatePublish, Goto, Return, IInv, TypeOK
  <2> QED BY <2>1 DEF NoRowYet, DriverAndRatingKept
<1> QED BY <1>1, <1>2, <1>3

LEMMA CallWriteKeeps ==
    ASSUME IInv, NoRowYet, NEW s \in Slots, CallWrite(s)
    PROVE  NoRowYet' /\ DriverAndRatingKept
<1> DEFINE o == target[s]
           r == Written(s, row[o])
<1>1. /\ CallOK(s) /\ o \in Orders /\ row[o] \in Row /\ row[o] # NoRow
      /\ op[s] \in Ops \ {"none"} /\ stars[s] \in Ratings \cup {NoRating}
  BY DEF CallWrite, CallsOK, CallOK, IInv, TypeOK, Exists, NoRow
<1>2. step' = step /\ step[o] \notin {"new", "insert"}
  BY <1>1 DEF CallWrite, creation, NoRowYet
<1>3. row' = row \/ (row' = [row EXCEPT ![o] = r] /\ Matches(s, row[o]))
  BY DEF CallWrite
<1>4. Matches(s, row[o]) => (row[o].rating # NoRating => r.rating = row[o].rating)
  <2>1. CASE op[s] = "rate"
    BY <2>1 DEF Matches
  <2>2. CASE op[s] # "rate"
    BY <2>2, <1>1 DEF Written, Row, Ops
  <2> QED BY <2>1, <2>2
<1>5. r.driver = row[o].driver
  BY <1>1, WrittenIsRow
<1> HIDE DEF r, o
<1>6. NoRowYet'
  BY <1>1, <1>2, <1>3 DEF NoRowYet, IInv, TypeOK
<1>7. DriverAndRatingKept
  BY <1>1, <1>3, <1>4, <1>5 DEF DriverAndRatingKept, IInv, TypeOK
<1> QED BY <1>6, <1>7

LEMMA NextKeeps == IInv /\ NoRowYet /\ [Next]_vars => NoRowYet' /\ DriverAndRatingKept
<1> SUFFICES ASSUME IInv, NoRowYet, [Next]_vars PROVE NoRowYet' /\ DriverAndRatingKept
  OBVIOUS
<1>1. ASSUME NEW o \in Orders, CreateOrder(o) PROVE NoRowYet' /\ DriverAndRatingKept
  BY <1>1, CreateKeeps
<1>2. ASSUME NEW s \in Slots, CallWrite(s) PROVE NoRowYet' /\ DriverAndRatingKept
  BY <1>2, CallWriteKeeps
<1>3. ASSUME row' = row,
             \A o \in Orders : step'[o] \in {"new", "insert"} => step[o] = step'[o]
      PROVE  NoRowYet' /\ DriverAndRatingKept
  BY <1>3 DEF NoRowYet, DriverAndRatingKept
<1>4. ASSUME NEW s \in Slots,
             \/ BeginCancel(s) \/ BeginStart(s) \/ BeginComplete(s) \/ BeginRate(s)
             \/ CancelRefund(s) \/ CallRelease(s) \/ CallIndex(s) \/ RatePublish(s)
      PROVE  row' = row /\ step' = step
  BY <1>4 DEF BeginCancel, BeginStart, BeginComplete, BeginRate, Begin, CancelRefund,
              CallRelease, CallIndex, RatePublish, creation
<1>5. ASSUME NEW d \in Drivers, DriverSetsStatus(d) PROVE row' = row /\ step' = step
  BY <1>5 DEF DriverSetsStatus, creation
<1>6. CASE Crash
  BY <1>3, <1>6 DEF Crash
<1>7. CASE UNCHANGED vars
  BY <1>3, <1>7 DEF vars
<1> QED BY <1>1, <1>2, <1>3, <1>4, <1>5, <1>6, <1>7 DEF Next, Continue

(* No retry and no overlapping call replaces the driver of an order, takes it *)
(* away, or changes a rating once given: RateOrder's WHERE rating IS NULL and *)
(* the single AssignDriver of each CreateOrder are enough.                    *)
THEOREM DriverAndRatingFinal == Spec => DriverAndRatingAreFinal
<1>1. Init => NoRowYet
  BY DEF Init, NoRowYet
<1>2. IInv /\ NoRowYet /\ [Next]_vars => NoRowYet' /\ [DriverAndRatingKept]_vars
  BY NextKeeps
<1> QED BY <1>1, <1>2, InductiveInvariant, PTL DEF Spec, DriverAndRatingAreFinal

-----------------------------------------------------------------------------
(***************************************************************************)
(* What order_service tells others of an order, in its events and in the   *)
(* search index, agrees with the order's row, for every value of the       *)
(* constants.  HistoryOK is inductive on top of IInv and NoRowYet.         *)
(***************************************************************************)

(* No step undoes a row, its driver or its rating. *)
RowsKept ==
    /\ \A o \in Orders : Exists(o) => Exists(o)'
    /\ DriverAndRatingKept

(* A driver or a rating copied from a row is still the row's later on. *)
LEMMA PastStaysPast ==
    ASSUME RowsKept, NEW o \in Orders, NEW d, NEW n
    PROVE  /\ d \in {NoDriver, row[o].driver} => d \in {NoDriver, row'[o].driver}
           /\ n \in {NoRating, row[o].rating} => n \in {NoRating, row'[o].rating}
           /\ row[o].driver # NoDriver => row'[o].driver # NoDriver
           /\ row[o].rating # NoRating => row'[o].rating # NoRating
BY DEF RowsKept, DriverAndRatingKept

(***************************************************************************)
(* One lemma per part of HistoryOK: what a step must add for it to stay.   *)
(***************************************************************************)

LEMMA MadeStays ==
    ASSUME RowsKept, MadeOK,
           \A o \in Orders : step'[o] \in Inserted =>
               \/ made'[o] = made[o] /\ step[o] \in Inserted
               \/ /\ made'[o].driver \in {NoDriver, row'[o].driver}
                  /\ made'[o].rating \in {NoRating, row'[o].rating}
                  /\ made'[o].status = "driver_assigned" => row'[o].driver # NoDriver
    PROVE  MadeOK'
<1> SUFFICES ASSUME NEW o \in Orders, step'[o] \in Inserted
             PROVE  /\ made'[o].driver \in {NoDriver, row'[o].driver}
                    /\ made'[o].rating \in {NoRating, row'[o].rating}
                    /\ made'[o].status = "driver_assigned" => row'[o].driver # NoDriver
  BY DEF MadeOK, Inserted
<1>1. CASE made'[o] = made[o] /\ step[o] \in Inserted
  BY <1>1, PastStaysPast DEF MadeOK
<1> QED BY <1>1

LEMMA SeenStays ==
    ASSUME IInv, RowsKept, SeenOK,
           \A s \in Slots : at'[s] \in {"index", "publish"} =>
               \/ /\ seen'[s] = seen[s] /\ target'[s] = target[s]
                  /\ at[s] \in {"index", "publish"}
               \/ seen'[s] = row'[target'[s]]
    PROVE  SeenOK'
<1> SUFFICES ASSUME NEW s \in Slots, at'[s] \in {"index", "publish"}
             PROVE  /\ seen'[s].driver \in {NoDriver, row'[target'[s]].driver}
                    /\ seen'[s].rating \in {NoRating, row'[target'[s]].rating}
  BY DEF SeenOK
<1>1. CASE seen'[s] = seen[s] /\ target'[s] = target[s] /\ at[s] \in {"index", "publish"}
  <2>1. target[s] \in Orders
    BY <1>1 DEF IInv, CallsOK, CallOK
  <2> QED BY <1>1, <2>1, PastStaysPast DEF SeenOK
<1>2. CASE seen'[s] = row'[target'[s]]
  BY <1>2
<1> QED BY <1>1, <1>2

LEMMA RatingStays ==
    ASSUME IInv, RowsKept, RatingOK,
           \A s \in Slots : op'[s] = "rate" /\ at'[s] # "idle" =>
               \/ /\ op[s] = "rate" /\ at[s] # "idle"
                  /\ target'[s] = target[s] /\ stars'[s] = stars[s]
                  /\ at'[s] \in {"index", "publish"} =>
                        \/ seen'[s] = seen[s] /\ at[s] \in {"index", "publish"}
                        \/ seen'[s].driver # NoDriver /\ seen'[s].rating # NoRating
               \/ /\ row'[target'[s]].driver # NoDriver /\ stars'[s] \in Ratings
                  /\ at'[s] \notin {"index", "publish"}
    PROVE  RatingOK'
<1> SUFFICES ASSUME NEW s \in Slots, op'[s] = "rate", at'[s] # "idle"
             PROVE  /\ row'[target'[s]].driver # NoDriver
                    /\ stars'[s] \in Ratings
                    /\ at'[s] \in {"index", "publish"} =>
                          seen'[s].driver # NoDriver /\ seen'[s].rating # NoRating
  BY DEF RatingOK
<1>1. CASE /\ op[s] = "rate" /\ at[s] # "idle"
           /\ target'[s] = target[s] /\ stars'[s] = stars[s]
           /\ at'[s] \in {"index", "publish"} =>
                 \/ seen'[s] = seen[s] /\ at[s] \in {"index", "publish"}
                 \/ seen'[s].driver # NoDriver /\ seen'[s].rating # NoRating
  <2>1. target[s] \in Orders
    BY <1>1 DEF IInv, CallsOK, CallOK
  <2>2. row'[target'[s]].driver # NoDriver
    BY <1>1, <2>1, PastStaysPast DEF RatingOK
  <2> QED BY <1>1, <2>2 DEF RatingOK
<1>2. CASE ~(/\ op[s] = "rate" /\ at[s] # "idle"
             /\ target'[s] = target[s] /\ stars'[s] = stars[s]
             /\ at'[s] \in {"index", "publish"} =>
                   \/ seen'[s] = seen[s] /\ at[s] \in {"index", "publish"}
                   \/ seen'[s].driver # NoDriver /\ seen'[s].rating # NoRating)
  BY <1>2
<1> QED BY <1>1, <1>2

LEMMA RatedStays ==
    ASSUME RowsKept, RatedEventsAgree,
           \A o \in Orders : \A e \in rated'[o] :
               \/ e \in rated[o]
               \/ /\ e = <<row[o].driver, row[o].rating>>
                  /\ row[o].driver # NoDriver /\ row[o].rating # NoRating
    PROVE  RatedEventsAgree'
<1> SUFFICES ASSUME NEW o \in Orders, NEW e \in rated'[o]
             PROVE  /\ e = <<row'[o].driver, row'[o].rating>>
                    /\ row'[o].driver # NoDriver /\ row'[o].rating # NoRating
  BY DEF RatedEventsAgree
<1>1. /\ e = <<row[o].driver, row[o].rating>>
      /\ row[o].driver # NoDriver /\ row[o].rating # NoRating
  BY DEF RatedEventsAgree
<1>2. row'[o].driver = row[o].driver /\ row'[o].rating = row[o].rating
  BY <1>1 DEF RowsKept, DriverAndRatingKept
<1> QED BY <1>1, <1>2

LEMMA SearchStays ==
    ASSUME RowsKept, SearchShowsOwnPast,
           \A o \in Orders :
               \/ indexed'[o] = indexed[o]
               \/ /\ Exists(o)
                  /\ indexed'[o].driver \in {NoDriver, row[o].driver}
                  /\ indexed'[o].rating \in {NoRating, row[o].rating}
    PROVE  SearchShowsOwnPast'
<1> SUFFICES ASSUME NEW o \in Orders, indexed'[o].status # "none"
             PROVE  /\ Exists(o)'
                    /\ indexed'[o].driver \in {NoDriver, row'[o].driver}
                    /\ indexed'[o].rating \in {NoRating, row'[o].rating}
  BY DEF SearchShowsOwnPast
<1>1. /\ Exists(o)
      /\ indexed'[o].driver \in {NoDriver, row[o].driver}
      /\ indexed'[o].rating \in {NoRating, row[o].rating}
  BY DEF SearchShowsOwnPast
<1> QED BY <1>1, PastStaysPast DEF RowsKept

LEMMA AnnouncedStays ==
    ASSUME RowsKept, AnnouncedOK, CreatedEventsAgree,
           \A o \in Orders :
               \/ /\ created'[o] = created[o]
                  /\ step[o] = "done" => step'[o] = "done"
               \/ /\ step[o] # "done" /\ step'[o] = "done" /\ Exists(o)
                  /\ \E st : /\ created'[o] = created[o] \cup {st}
                             /\ st = "driver_assigned" => row[o].driver # NoDriver
    PROVE  AnnouncedOK' /\ CreatedEventsAgree'
<1>1. \A o \in Orders : step[o] # "done" => created[o] = {}
  BY DEF AnnouncedOK
<1>2. AnnouncedOK'
  BY DEF AnnouncedOK
<1>3. CreatedEventsAgree'
  <2> SUFFICES ASSUME NEW o \in Orders, NEW st \in created'[o]
               PROVE  /\ Exists(o)'
                      /\ \A other \in created'[o] : other = st
                      /\ st = "driver_assigned" => row'[o].driver # NoDriver
    BY DEF CreatedEventsAgree
  <2>1. /\ Exists(o)
        /\ \A other \in created'[o] : other = st
        /\ st = "driver_assigned" => row[o].driver # NoDriver
    BY <1>1 DEF CreatedEventsAgree
  <2> QED BY <2>1, PastStaysPast DEF RowsKept
<1> QED BY <1>2, <1>3

(***************************************************************************)
(* No step takes a row away.                                               *)
(***************************************************************************)

LEMMA ExistsStays == ASSUME IInv, Next, NEW o \in Orders, Exists(o) PROVE Exists(o)'
<1>1. CASE row' = row
  BY <1>1 DEF Exists
<1>2. ASSUME NEW p \in Orders, CreateInsert(p) PROVE Exists(o)'
  BY <1>2, InsertedRowIsRow DEF CreateInsert, Exists, IInv, TypeOK
<1>3. ASSUME NEW p \in Orders, CreateAssign(p) PROVE Exists(o)'
  <2> DEFINE r == Assigned(row[p], claimed[p])
  <2>1. r.status = "driver_assigned"
    BY <1>3, AssignedIsRow DEF CreateAssign, IInv, CreationOK, TypeOK
  <2>2. row' = row \/ row' = [row EXCEPT ![p] = r]
    BY <1>3 DEF CreateAssign
  <2> HIDE DEF r
  <2> QED BY <2>1, <2>2 DEF Exists, IInv, TypeOK
<1>4. ASSUME NEW s \in Slots, CallWrite(s) PROVE Exists(o)'
  <2> DEFINE p == target[s]
             r == Written(s, row[p])
  <2>1. /\ p \in Orders /\ Exists(p) /\ row[p] \in Row
        /\ op[s] \in Ops \ {"none"} /\ stars[s] \in Ratings \cup {NoRating}
    BY <1>4 DEF CallWrite, IInv, TypeOK, CallsOK, CallOK
  <2>2. r.status # "none"
    BY <2>1, WrittenIsRow DEF Exists
  <2>3. row' = row \/ row' = [row EXCEPT ![p] = r]
    BY <1>4 DEF CallWrite
  <2> HIDE DEF r, p
  <2> QED BY <2>1, <2>2, <2>3 DEF Exists, IInv, TypeOK
<1>5. ASSUME NEW p \in Orders, CreateOrder(p), ~CreateInsert(p), ~CreateAssign(p)
      PROVE  row' = row
  BY <1>5 DEF CreateOrder, CreateCharge, CreateRefund, CreateIndex, CreateClaim,
              CreateRelease, CreatePublish
<1>6. ASSUME NEW s \in Slots,
             \/ BeginCancel(s) \/ BeginStart(s) \/ BeginComplete(s) \/ BeginRate(s)
             \/ CancelRefund(s) \/ CallRelease(s) \/ CallIndex(s) \/ RatePublish(s)
      PROVE  row' = row
  BY <1>6 DEF BeginCancel, BeginStart, BeginComplete, BeginRate, Begin, CancelRefund,
              CallRelease, CallIndex, RatePublish
<1>7. (\E d \in Drivers : DriverSetsStatus(d)) \/ Crash => row' = row
  BY DEF DriverSetsStatus, Crash
<1> QED BY <1>1, <1>2, <1>3, <1>4, <1>5, <1>6, <1>7 DEF Next, Continue

LEMMA NextKeepsRows == ASSUME IInv, NoRowYet, Next PROVE RowsKept
BY ExistsStays, NextKeeps DEF RowsKept

(***************************************************************************)
(* One lemma per action that writes or announces something of an order.    *)
(***************************************************************************)

CreateKeepsHistory(o) ==
    /\ UNCHANGED <<op, target, at, seen, stars, rated>>
    /\ \A p \in Orders : p # o => UNCHANGED <<step[p], made[p], indexed[p], created[p]>>

(* A step of CreateOrder(o) leaves the calls and the other orders alone. *)
LEMMA CreateLocal == ASSUME IInv, NEW o \in Orders, CreateOrder(o) PROVE CreateKeepsHistory(o)
<1>1. UNCHANGED <<op, target, at, seen, stars, rated>>
  BY DEF CreateOrder, CreateCharge, CreateInsert, CreateRefund, CreateIndex, CreateClaim,
         CreateAssign, CreateRelease, CreatePublish, calls, outside
<1>2. ASSUME NEW p \in Orders, p # o PROVE step'[p] = step[p] /\ made'[p] = made[p]
  BY <1>2 DEF CreateOrder, CreateCharge, CreateInsert, CreateRefund, CreateIndex, CreateClaim,
         CreateAssign, CreateRelease, CreatePublish, Goto, Return, IInv, TypeOK
<1>3. ASSUME NEW p \in Orders, p # o PROVE indexed'[p] = indexed[p] /\ created'[p] = created[p]
  BY <1>3 DEF CreateOrder, CreateCharge, CreateInsert, CreateRefund, CreateIndex, CreateClaim,
         CreateAssign, CreateRelease, CreatePublish, IndexOrder, outside, IInv, TypeOK
<1> QED BY <1>1, <1>2, <1>3 DEF CreateKeepsHistory

LEMMA CreateMade ==
    ASSUME IInv, HistoryOK, RowsKept, NEW o \in Orders, CreateOrder(o)
    PROVE  MadeOK'
<1>1. \A p \in Orders : p # o => step'[p] = step[p] /\ made'[p] = made[p]
  BY CreateLocal DEF CreateKeepsHistory
<1>2. CASE CreateInsert(o)
  <2>1. \/ step'[o] = "refund"
        \/ made'[o] = InsertedRow
    BY <1>2 DEF CreateInsert, Goto, IInv, TypeOK
  <2>2. /\ InsertedRow.status = "created" /\ InsertedRow.driver = NoDriver
        /\ InsertedRow.rating = NoRating
    BY DEF InsertedRow, NoRow
  <2> QED BY <1>1, <2>1, <2>2, MadeStays DEF HistoryOK, Inserted
<1>3. CASE CreateAssign(o)
  <2> DEFINE r == Assigned(row[o], claimed[o])
  <2>1. r.driver # NoDriver
    BY <1>3, AssignedIsRow, OrderServiceAssumption DEF CreateAssign, IInv, CreationOK, TypeOK
  <2>2. \/ made' = made /\ step[o] \in Inserted
        \/ made'[o] = row'[o] /\ row'[o] = r
    BY <1>3 DEF CreateAssign, Ends, Inserted, IInv, TypeOK
  <2> HIDE DEF r
  <2> QED BY <1>1, <2>1, <2>2, MadeStays DEF HistoryOK
<1>4. CASE ~CreateInsert(o) /\ ~CreateAssign(o)
  <2>1. step'[o] \in Inserted => made'[o] = made[o] /\ step[o] \in Inserted
    BY <1>4 DEF CreateOrder, CreateCharge, CreateRefund, CreateIndex, CreateClaim,
                CreateRelease, CreatePublish, Goto, Return, Inserted, IInv, TypeOK
  <2> QED BY <1>1, <2>1, MadeStays DEF HistoryOK
<1> QED BY <1>2, <1>3, <1>4

LEMMA CreateSearch ==
    ASSUME IInv, HistoryOK, RowsKept, NEW o \in Orders, CreateOrder(o)
    PROVE  SearchShowsOwnPast'
<1>1. \A p \in Orders : p # o => indexed'[p] = indexed[p]
  BY CreateLocal DEF CreateKeepsHistory
<1>2. CASE CreateIndex(o)
  <2>1. step[o] \in Inserted /\ (indexed' = indexed \/ indexed' = [indexed EXCEPT ![o] = made[o]])
    BY <1>2 DEF CreateIndex, IndexOrder, Inserted
  <2>2. /\ Exists(o)
        /\ made[o].driver \in {NoDriver, row[o].driver}
        /\ made[o].rating \in {NoRating, row[o].rating}
    BY <2>1 DEF IInv, CreationOK, HistoryOK, MadeOK
  <2>3. indexed'[o] = indexed[o] \/ indexed'[o] = made[o]
    BY <2>1 DEF IInv, TypeOK
  <2> QED BY <1>1, <2>2, <2>3, SearchStays DEF HistoryOK
<1>3. CASE ~CreateIndex(o)
  <2>1. indexed' = indexed
    BY <1>3 DEF CreateOrder, CreateCharge, CreateInsert, CreateRefund, CreateClaim,
                CreateAssign, CreateRelease, CreatePublish, outside
  <2> QED BY <2>1, SearchStays DEF HistoryOK
<1> QED BY <1>2, <1>3

LEMMA CreateAnnounced ==
    ASSUME IInv, HistoryOK, RowsKept, NEW o \in Orders, CreateOrder(o)
    PROVE  AnnouncedOK' /\ CreatedEventsAgree'
<1>1. \A p \in Orders : p # o => created'[p] = created[p] /\ step'[p] = step[p]
  BY CreateLocal DEF CreateKeepsHistory
<1>2. CASE CreatePublish(o)
  <2>1. /\ step[o] = "publish" /\ step'[o] = "done"
        /\ created' = created \/ created' = [created EXCEPT ![o] = @ \cup {made[o].status}]
    BY <1>2 DEF CreatePublish, Return, IInv, TypeOK
  <2>2. /\ Exists(o)
        /\ made[o].status = "driver_assigned" => row[o].driver # NoDriver
    BY <2>1 DEF IInv, CreationOK, Inserted, HistoryOK, MadeOK
  <2>3. \/ created'[o] = created[o]
        \/ created'[o] = created[o] \cup {made[o].status}
    BY <2>1 DEF IInv, TypeOK
  <2> QED BY <1>1, <2>1, <2>2, <2>3, AnnouncedStays DEF HistoryOK
<1>3. CASE ~CreatePublish(o)
  <2>1. created' = created /\ step[o] # "done"
    BY <1>3 DEF CreateOrder, CreateCharge, CreateInsert, CreateRefund, CreateIndex, CreateClaim,
                CreateAssign, CreateRelease, outside
  <2> QED BY <1>1, <2>1, AnnouncedStays DEF HistoryOK
<1> QED BY <1>2, <1>3

LEMMA CreateHistory ==
    ASSUME IInv, HistoryOK, RowsKept, NEW o \in Orders, CreateOrder(o)
    PROVE  HistoryOK'
<1>1. UNCHANGED <<op, target, at, seen, stars, rated>>
  BY CreateLocal DEF CreateKeepsHistory
<1>2. SeenOK'
  BY <1>1, SeenStays DEF HistoryOK
<1>3. RatingOK'
  BY <1>1, RatingStays DEF HistoryOK
<1>4. RatedEventsAgree'
  BY <1>1, RatedStays DEF HistoryOK
<1> QED BY <1>2, <1>3, <1>4, CreateMade, CreateSearch, CreateAnnounced DEF HistoryOK

(* Calls, drivers and crashes leave CreateOrder alone, or end it. *)
LEMMA CallsLeaveCreation ==
    ASSUME HistoryOK, RowsKept, UNCHANGED <<step, made, created>>
    PROVE  MadeOK' /\ AnnouncedOK' /\ CreatedEventsAgree'
BY MadeStays, AnnouncedStays DEF HistoryOK

LEMMA BeginHistory ==
    ASSUME IInv, HistoryOK, RowsKept, NEW s \in Slots, NEW o \in Orders,
           NEW what \in Ops \ {"none"}, NEW given \in Ratings \cup {NoRating},
           what = "rate" => given \in Ratings, Begin(s, what, o, given)
    PROVE  HistoryOK'
<1>1. /\ UNCHANGED <<row, indexed, created, rated, step, made>>
      /\ \A t \in Slots : t # s => UNCHANGED <<op[t], target[t], at[t], seen[t], stars[t]>>
      /\ at'[s] = First(what) /\ op'[s] = what /\ target'[s] = o /\ stars'[s] = given
  BY DEF Begin, outside, creation, IInv, TypeOK
<1>2. at'[s] \notin {"index", "publish"}
  BY <1>1 DEF First
<1>3. what = "rate" => row'[o].driver # NoDriver
  BY <1>1 DEF Begin, Allowed, IInv, MovingOrderHasDriver
<1>4. SeenOK'
  BY <1>1, <1>2, SeenStays DEF HistoryOK
<1>5. RatingOK'
  BY <1>1, <1>2, <1>3, RatingStays DEF HistoryOK
<1>6. RatedEventsAgree' /\ SearchShowsOwnPast'
  BY <1>1, RatedStays, SearchStays DEF HistoryOK
<1> QED BY <1>1, <1>4, <1>5, <1>6, CallsLeaveCreation DEF HistoryOK

(* A call that has not written its row yet, or that returns. *)
LEMMA LeaveOrMoveHistory ==
    ASSUME IInv, HistoryOK, RowsKept, NEW s \in Slots, NEW place \in Places,
           Leave(s) \/ Move(s, place), at[s] # "idle",
           place = "publish" => at[s] = "index", place # "index"
    PROVE  SeenOK' /\ RatingOK'
<1>1. \A t \in Slots : t # s => UNCHANGED <<op[t], target[t], at[t], seen[t], stars[t]>>
  BY DEF Leave, Move, IInv, TypeOK
<1>2. CASE Leave(s)
  <2>1. at'[s] = "idle"
    BY <1>2, LeaveEffect
  <2>2. SeenOK'
    BY <1>1, <2>1, SeenStays DEF HistoryOK
  <2>3. RatingOK'
    BY <1>1, <2>1, RatingStays DEF HistoryOK
  <2> QED BY <2>2, <2>3
<1>3. CASE Move(s, place)
  <2>1. /\ at'[s] = place /\ UNCHANGED <<op, target, seen, stars>>
    BY <1>3, MoveEffect DEF Move
  <2>2. SeenOK'
    BY <1>1, <2>1, SeenStays DEF HistoryOK
  <2>3. RatingOK'
    BY <1>1, <2>1, RatingStays DEF HistoryOK
  <2> QED BY <2>2, <2>3
<1> QED BY <1>2, <1>3

LEMMA CallStepHistory ==
    ASSUME IInv, HistoryOK, RowsKept, NEW s \in Slots,
           CancelRefund(s) \/ CallRelease(s) \/ CallIndex(s) \/ RatePublish(s)
    PROVE  HistoryOK'
<1>1. UNCHANGED <<row, step, made, created>> /\ at[s] # "idle" /\ target[s] \in Orders
  BY DEF CancelRefund, CallRelease, CallIndex, RatePublish, creation, outside, IInv, CallsOK, CallOK
<1>2. SeenOK' /\ RatingOK'
  <2>1. {"release", "write", "publish"} \subseteq Places
    BY DEF Places
  <2>2. \/ Leave(s) \/ Move(s, "release") \/ Move(s, "write")
        \/ Move(s, "publish") /\ at[s] = "index"
    BY DEF CancelRefund, CallRelease, CallIndex, RatePublish
  <2> QED BY <1>1, <2>1, <2>2, LeaveOrMoveHistory
<1>3. RatedEventsAgree'
  <2>1. CASE RatePublish(s)
    <3> DEFINE o == target[s]
               e == <<seen[s].driver, seen[s].rating>>
    <3>1. /\ at[s] = "publish" /\ op[s] = "rate"
          /\ rated' = rated \/ rated' = [rated EXCEPT ![o] = @ \cup {e}]
      BY <2>1 DEF RatePublish, IInv, CallsOK, CallOK
    <3>2. /\ seen[s].driver = row[o].driver /\ row[o].driver # NoDriver
          /\ seen[s].rating = row[o].rating /\ row[o].rating # NoRating
      BY <3>1 DEF HistoryOK, SeenOK, RatingOK
    <3>3. e = <<row[o].driver, row[o].rating>>
      BY <3>2
    <3> HIDE DEF e, o
    <3>4. \A p \in Orders : \A x \in rated'[p] : x \in rated[p] \/ (p = o /\ x = e)
      BY <3>1 DEF IInv, TypeOK
    <3> QED BY <3>2, <3>3, <3>4, RatedStays DEF HistoryOK
  <2>2. CASE ~RatePublish(s)
    <3>1. rated' = rated
      BY <2>2 DEF CancelRefund, CallRelease, CallIndex, outside
    <3> QED BY <3>1, RatedStays DEF HistoryOK
  <2> QED BY <2>1, <2>2
<1>4. SearchShowsOwnPast'
  <2>1. CASE CallIndex(s)
    <3> DEFINE o == target[s]
    <3>1. /\ at[s] = "index" /\ Exists(o)
          /\ indexed' = indexed \/ indexed' = [indexed EXCEPT ![o] = seen[s]]
      BY <2>1 DEF CallIndex, IndexOrder, IInv, CallsOK, CallOK
    <3>2. /\ seen[s].driver \in {NoDriver, row[o].driver}
          /\ seen[s].rating \in {NoRating, row[o].rating}
      BY <3>1 DEF HistoryOK, SeenOK
    <3> HIDE DEF o
    <3>3. \A p \in Orders : indexed'[p] = indexed[p] \/ (p = o /\ indexed'[p] = seen[s])
      BY <3>1 DEF IInv, TypeOK
    <3> QED BY <3>1, <3>2, <3>3, SearchStays DEF HistoryOK
  <2>2. CASE ~CallIndex(s)
    <3>1. indexed' = indexed
      BY <2>2 DEF CancelRefund, CallRelease, RatePublish, outside
    <3> QED BY <3>1, SearchStays DEF HistoryOK
  <2> QED BY <2>1, <2>2
<1> QED BY <1>1, <1>2, <1>3, <1>4, CallsLeaveCreation DEF HistoryOK

LEMMA CallWriteHistory ==
    ASSUME IInv, HistoryOK, RowsKept, NEW s \in Slots, CallWrite(s)
    PROVE  HistoryOK'
<1> DEFINE o == target[s]
           r == Written(s, row[o])
<1>1. /\ at[s] = "write" /\ o \in Orders /\ row[o] \in Row
      /\ UNCHANGED <<indexed, created, rated, step, made>>
  BY DEF CallWrite, IInv, TypeOK, CallsOK, CallOK, outside, creation
<1>2. MadeOK' /\ AnnouncedOK' /\ CreatedEventsAgree'
  BY <1>1, CallsLeaveCreation
<1>3. RatedEventsAgree' /\ SearchShowsOwnPast'
  BY <1>1, RatedStays, SearchStays DEF HistoryOK
<1>4. CASE Leave(s)
  <2>1. "write" \in Places
    BY DEF Places
  <2>2. SeenOK' /\ RatingOK'
    BY <1>1, <1>4, <2>1, LeaveOrMoveHistory
  <2> QED BY <1>2, <1>3, <2>2 DEF HistoryOK
<1>5. CASE ~Leave(s)
  <2>1. /\ at' = [at EXCEPT ![s] = "index"]
        /\ seen' = [seen EXCEPT ![s] = row'[o]]
        /\ UNCHANGED <<op, target, stars>>
        /\ row' = [row EXCEPT ![o] = r]
    BY <1>5 DEF CallWrite, Ends
  <2>2. /\ at'[s] = "index" /\ seen'[s] = row'[o] /\ row'[o] = r
        /\ \A t \in Slots : t # s => at'[t] = at[t] /\ seen'[t] = seen[t]
    BY <1>1, <2>1 DEF IInv, TypeOK
  <2>3. SeenOK'
    BY <2>1, <2>2, SeenStays DEF HistoryOK
  <2>4. op[s] = "rate" => r.driver # NoDriver /\ r.rating # NoRating
    <3> SUFFICES ASSUME op[s] = "rate" PROVE r.driver # NoDriver /\ r.rating # NoRating
      OBVIOUS
    <3>1. row[o].driver # NoDriver /\ stars[s] \in Ratings
      BY <1>1 DEF HistoryOK, RatingOK
    <3>2. r = [row[o] EXCEPT !.rating = stars[s]]
      BY DEF Written
    <3>3. stars[s] # NoRating
      BY <3>1, OrderServiceAssumption
    <3> QED BY <1>1, <3>1, <3>2, <3>3 DEF Row
  <2> HIDE DEF r, o
  <2>5. RatingOK'
    BY <1>1, <2>1, <2>2, <2>4, RatingStays DEF HistoryOK
  <2> QED BY <1>2, <1>3, <2>3, <2>5 DEF HistoryOK
<1> QED BY <1>4, <1>5

LEMMA DriverSetsStatusHistory ==
    ASSUME IInv, HistoryOK, RowsKept, NEW d \in Drivers, DriverSetsStatus(d)
    PROVE  HistoryOK'
<1>1. UNCHANGED <<row, indexed, created, rated, step, made, op, target, at, seen, stars>>
  BY DEF DriverSetsStatus, creation, calls
<1> QED BY <1>1
        DEF HistoryOK, MadeOK, SeenOK, RatingOK, AnnouncedOK, RatedEventsAgree,
            SearchShowsOwnPast, CreatedEventsAgree, Exists

LEMMA CrashHistory == ASSUME IInv, HistoryOK, RowsKept, Crash PROVE HistoryOK'
<1>1. /\ UNCHANGED <<row, indexed, created, rated>>
      /\ \A o \in Orders : /\ step'[o] \notin Inserted
                           /\ step[o] = "done" => step'[o] = "done"
      /\ \A s \in Slots : at'[s] = "idle"
  BY DEF Crash, outside, Inserted
<1>2. MadeOK' /\ SeenOK' /\ RatingOK'
  BY <1>1 DEF MadeOK, SeenOK, RatingOK, Inserted
<1>3. AnnouncedOK' /\ CreatedEventsAgree'
  BY <1>1, AnnouncedStays DEF HistoryOK
<1>4. RatedEventsAgree' /\ SearchShowsOwnPast'
  BY <1>1, RatedStays, SearchStays DEF HistoryOK
<1> QED BY <1>2, <1>3, <1>4 DEF HistoryOK

(***************************************************************************)
(* HistoryOK is inductive, and the theorems that follow from it.           *)
(***************************************************************************)

LEMMA InitHistory == Init => HistoryOK
BY DEF Init, NoRow, HistoryOK, MadeOK, SeenOK, RatingOK, AnnouncedOK, Inserted,
       RatedEventsAgree, SearchShowsOwnPast, CreatedEventsAgree

LEMMA NextHistory == IInv /\ NoRowYet /\ HistoryOK /\ [Next]_vars => HistoryOK'
<1> SUFFICES ASSUME IInv, NoRowYet, HistoryOK, [Next]_vars PROVE HistoryOK'
  OBVIOUS
<1>1. CASE Next
  <2>1. RowsKept
    BY <1>1, NextKeepsRows
  <2>2. ASSUME NEW s \in Slots, BeginCancel(s) \/ BeginStart(s) \/ BeginComplete(s) \/ BeginRate(s)
        PROVE HistoryOK'
    BY <2>1, <2>2, BeginHistory DEF BeginCancel, BeginStart, BeginComplete, BeginRate, Ops
  <2>3. ASSUME NEW s \in Slots, Continue(s) PROVE HistoryOK'
    BY <2>1, <2>3, CallStepHistory, CallWriteHistory DEF Continue
  <2> QED BY <1>1, <2>1, <2>2, <2>3, CreateHistory, DriverSetsStatusHistory, CrashHistory DEF Next
<1>2. CASE UNCHANGED vars
  BY <1>2 DEF vars, HistoryOK, MadeOK, SeenOK, RatingOK, AnnouncedOK, RatedEventsAgree,
              SearchShowsOwnPast, CreatedEventsAgree, Exists
<1> QED BY <1>1, <1>2

(* What the theorems below rest on: HistoryOK holds in every reachable state. *)
THEOREM HistoryInvariant == Spec => []HistoryOK
<1>1. Init => NoRowYet
  BY DEF Init, NoRowYet
<1>2. IInv /\ NoRowYet /\ [Next]_vars => NoRowYet'
  BY NextKeeps
<1> QED BY <1>1, <1>2, InitHistory, NextHistory, InductiveInvariant, PTL DEF Spec

(* RateTrip calls that overlap, fail or are retried publish no order_rated   *)
(* event but with the driver and the rating the row has, then and for ever.  *)
THEOREM RatedEventsCorrect == Spec => []RatedEventsAgree
<1>1. HistoryOK => RatedEventsAgree
  BY DEF HistoryOK
<1> QED BY <1>1, HistoryInvariant, PTL

(* IndexOrder, without a version and out of order, still never shows an order *)
(* without a row, or a driver or a rating the row does not have.              *)
THEOREM SearchIsAPast == Spec => []SearchShowsOwnPast
<1>1. HistoryOK => SearchShowsOwnPast
  BY DEF HistoryOK
<1> QED BY <1>1, HistoryInvariant, PTL

(* The announcements CreateOrder makes of an order agree, and there is none   *)
(* of an assignment unless AssignDriver carried it out, whatever failed.      *)
THEOREM AnnouncementsCorrect == Spec => []CreatedEventsAgree
<1>1. HistoryOK => CreatedEventsAgree
  BY DEF HistoryOK
<1> QED BY <1>1, HistoryInvariant, PTL

(* Both kinds of events are true of the row of their order.                  *)
THEOREM EventsCorrect == Spec => []EventsAreTrue
<1>1. RatedEventsAgree /\ CreatedEventsAgree => EventsAreTrue
  BY DEF EventsAreTrue
<1> QED BY <1>1, RatedEventsCorrect, AnnouncementsCorrect, PTL

-----------------------------------------------------------------------------

(***************************************************************************)
(* What holds when the calls on an order come one at a time.               *)
(***************************************************************************)

(* Clients who wait are clients: what Spec never does, they never see. *)
LEMMA SerialIsSpec == SerialSpec => Spec
<1>1. [Next /\ OneCallPerOrder]_vars => [Next]_vars
  OBVIOUS
<1> QED BY <1>1, PTL DEF SerialSpec, Spec

(* A step of CreateOrder(o) leaves every call and every other order alone. *)
LEMMA CreateEffect ==
    ASSUME IInv, NEW o \in Orders, CreateOrder(o)
    PROVE  /\ UNCHANGED <<op, target, at, seen, stars>>
           /\ step[o] \notin {"done", "failed"}
           /\ \A p \in Orders : p # o =>
                 UNCHANGED <<step[p], row[p], made[p], claimed[p], indexed[p]>>
           /\ \/ row'[o] = row[o]
              \/ step[o] = "insert" /\ row'[o] = InsertedRow
              \/ /\ step[o] = "assign" /\ row'[o] = Assigned(row[o], claimed[o])
                 /\ step'[o] \in {"reindex", "release"}
<1>0. row \in [Orders -> Row] /\ step \in [Orders -> Steps]
  BY DEF IInv, TypeOK
<1>1. UNCHANGED <<op, target, at, seen, stars>>
  BY CreateLocal DEF CreateKeepsHistory
<1>2. step[o] \notin {"done", "failed"}
  BY DEF CreateOrder, CreateCharge, CreateInsert, CreateRefund, CreateIndex, CreateClaim,
         CreateAssign, CreateRelease, CreatePublish
<1>3. ASSUME NEW p \in Orders, p # o
      PROVE  UNCHANGED <<step[p], row[p], made[p], claimed[p], indexed[p]>>
  <2>1. step'[p] = step[p] /\ made'[p] = made[p] /\ indexed'[p] = indexed[p]
    BY <1>3, CreateLocal DEF CreateKeepsHistory
  <2>2. row'[p] = row[p] /\ claimed'[p] = claimed[p]
    BY <1>3 DEF CreateOrder, CreateCharge, CreateInsert, CreateRefund, CreateIndex, CreateClaim,
         CreateAssign, CreateRelease, CreatePublish, Return, IInv, TypeOK
  <2> QED BY <2>1, <2>2
<1>4. \/ row'[o] = row[o]
      \/ step[o] = "insert" /\ row'[o] = InsertedRow
      \/ /\ step[o] = "assign" /\ row'[o] = Assigned(row[o], claimed[o])
         /\ step'[o] \in {"reindex", "release"}
  <2>1. CASE CreateInsert(o)
    BY <1>0, <2>1 DEF CreateInsert
  <2>2. CASE CreateAssign(o)
    BY <1>0, <2>2 DEF CreateAssign, Goto
  <2>3. CASE ~CreateInsert(o) /\ ~CreateAssign(o)
    BY <2>3 DEF CreateOrder, CreateCharge, CreateRefund, CreateIndex, CreateClaim,
                CreateRelease, CreatePublish
  <2> QED BY <2>1, <2>2, <2>3
<1> QED BY <1>1, <1>2, <1>3, <1>4

(* A call that begins is on an order no other call is on, whose CreateOrder *)
(* has returned.                                                            *)
LEMMA BeginEffect ==
    ASSUME IInv, OneCallPerOrder, NEW s \in Slots, NEW o \in Orders,
           NEW what \in Ops \ {"none"}, NEW given, Begin(s, what, o, given)
    PROVE  /\ UNCHANGED <<row, indexed, pool, created, rated, step, made, claimed>>
           /\ UNCHANGED <<balance, debits, credits>>
           /\ at[s] = "idle" /\ Exists(o) /\ Allowed(what, row[o])
           /\ step[o] \in {"done", "failed"}
           /\ \A t \in Slots : target[t] # o
           /\ at'[s] = First(what) /\ at'[s] \in {"refund", "release", "write"}
           /\ op'[s] = what /\ target'[s] = o /\ seen'[s] = row[o]
           /\ \A t \in Slots : t # s =>
                 UNCHANGED <<op[t], target[t], at[t], seen[t], stars[t]>>
<1>1. /\ UNCHANGED <<row, indexed, pool, created, rated, step, made, claimed>>
      /\ UNCHANGED <<balance, debits, credits>>
      /\ at[s] = "idle" /\ Allowed(what, row[o])
      /\ at'[s] = First(what) /\ op'[s] = what /\ target'[s] = o /\ seen'[s] = row[o]
      /\ \A t \in Slots : t # s => UNCHANGED <<op[t], target[t], at[t], seen[t], stars[t]>>
  BY DEF Begin, ledgerVars, outside, creation, IInv, TypeOK
<1>2. at'[s] \in {"refund", "release", "write"}
  BY <1>1 DEF First
<1>3. Quiet(o)
  BY <1>1, <1>2 DEF OneCallPerOrder
<1>4. Exists(o)
  BY <1>1 DEF Allowed, Exists
<1>5. step[o] # "new"
  BY <1>4 DEF IInv, MoneyOK
<1> QED BY <1>1, <1>2, <1>3, <1>4, <1>5 DEF Quiet

(* A running call moves on or returns, and touches its own order alone. *)
LEMMA CallEffect ==
    ASSUME IInv, NEW s \in Slots, Continue(s)
    PROVE  /\ UNCHANGED <<step, made, claimed>>
           /\ at[s] # "idle" /\ target[s] \in Orders
           /\ \A t \in Slots : t # s =>
                 UNCHANGED <<op[t], target[t], at[t], seen[t], stars[t]>>
           /\ \/ at'[s] = "idle" /\ target'[s] = NoOrder
              \/ at'[s] # "idle" /\ target'[s] = target[s] /\ op'[s] = op[s]
<1>1. UNCHANGED <<step, made, claimed>> /\ at[s] # "idle" /\ target[s] \in Orders
  BY DEF Continue, CancelRefund, CallRelease, CallWrite, CallIndex, RatePublish, creation,
         IInv, CallsOK, CallOK
<1>2. \/ Leave(s)
      \/ \E place \in {"release", "write", "publish"} : Move(s, place)
      \/ /\ at' = [at EXCEPT ![s] = "index"] /\ UNCHANGED <<op, target, stars>>
         /\ \E r : seen' = [seen EXCEPT ![s] = r]
  BY DEF Continue, CancelRefund, CallRelease, CallWrite, CallIndex, RatePublish
<1>3. \A t \in Slots : t # s => UNCHANGED <<op[t], target[t], at[t], seen[t], stars[t]>>
  BY <1>2 DEF Leave, Move, IInv, TypeOK
<1>4. \/ at'[s] = "idle" /\ target'[s] = NoOrder
      \/ at'[s] # "idle" /\ target'[s] = target[s] /\ op'[s] = op[s]
  BY <1>2 DEF Leave, Move, IInv, TypeOK
<1> QED BY <1>1, <1>3, <1>4

LEMMA InsertedIsFresh ==
    /\ InsertedRow.status = "created" /\ InsertedRow.driver = NoDriver
    /\ InsertedRow.rating = NoRating
BY DEF InsertedRow, NoRow

(***************************************************************************)
(* SerialOK is inductive, whatever fails.                                  *)
(***************************************************************************)

LEMMA CreateSerial ==
    ASSUME IInv, SerialOK, NEW o \in Orders, CreateOrder(o) PROVE SerialOK'
<1>1. \A s \in Slots : at[s] # "idle" => target[s] \in Orders \ {o}
  BY CreateEffect DEF SerialOK, SerialCall, IInv, CallsOK, CallOK
<1>2. \A s \in Slots : at[s] # "idle" => SerialCall(s)'
  <2> SUFFICES ASSUME NEW s \in Slots, at[s] # "idle" PROVE SerialCall(s)'
    OBVIOUS
  <2>1. /\ SerialCall(s) /\ UNCHANGED <<op, target, at, seen, stars>>
        /\ UNCHANGED <<step[target[s]], row[target[s]]>>
    BY <1>1, CreateEffect DEF SerialOK
  <2>2. Allowed(op[s], row[target[s]]) => Allowed(op'[s], row'[target'[s]])
    BY <2>1
  <2> QED BY <2>1, <2>2 DEF SerialCall
<1>3. step'[o] \in {"index", "claim", "assign"} => row'[o] = InsertedRow
  <2> SUFFICES ASSUME step'[o] \in {"index", "claim", "assign"} PROVE row'[o] = InsertedRow
    OBVIOUS
  <2>0. row \in [Orders -> Row] /\ step \in [Orders -> Steps]
    BY DEF IInv, TypeOK
  <2>1. CASE CreateInsert(o)
    BY <2>0, <2>1 DEF CreateInsert, Goto
  <2>2. CASE ~CreateInsert(o)
    <3>1. step[o] \in {"index", "claim"} /\ row'[o] = row[o]
      BY <2>0, <2>2 DEF CreateOrder, CreateCharge, CreateRefund, CreateIndex, CreateClaim,
                  CreateAssign, CreateRelease, CreatePublish, Goto, Return
    <3> QED BY <3>1 DEF SerialOK
  <2> QED BY <2>1, <2>2
<1>4. row'[o].status = "created" => row'[o].driver = NoDriver
  <2>1. Assigned(row[o], claimed[o]).status = "driver_assigned"
    BY DEF Assigned, IInv, TypeOK, Row
  <2> QED BY <2>1, CreateEffect, InsertedIsFresh DEF SerialOK
<1>5. \A p \in Orders : p # o => step'[p] = step[p] /\ row'[p] = row[p]
  BY CreateEffect
<1>6. \A s \in Slots : IF at'[s] = "idle" THEN target'[s] = NoOrder ELSE SerialCall(s)'
  BY <1>2, CreateEffect DEF SerialOK
<1>7. \A p \in Orders :
          /\ step'[p] \in {"index", "claim", "assign"} => row'[p] = InsertedRow
          /\ row'[p].status = "created" => row'[p].driver = NoDriver
  BY <1>3, <1>4, <1>5 DEF SerialOK
<1>8. InsertedRow' = InsertedRow
  BY DEF InsertedRow, NoRow
<1> QED BY <1>6, <1>7, <1>8 DEF SerialOK

LEMMA BeginSerial ==
    ASSUME IInv, SerialOK, OneCallPerOrder, NEW s \in Slots, NEW o \in Orders,
           NEW what \in Ops \ {"none"}, NEW given, Begin(s, what, o, given)
    PROVE  SerialOK'
<1>1. SerialCall(s)'
  <2>1. \A t \in Slots : t # s => target'[t] # target'[s]
    BY BeginEffect
  <2>2. Allowed(op'[s], row'[target'[s]]) /\ seen'[s] = row'[target'[s]]
    BY BeginEffect
  <2>3. at'[s] = "release" => op'[s] = "complete"
    BY BeginEffect DEF First
  <2> QED BY <2>1, <2>2, <2>3, BeginEffect DEF SerialCall
<1>2. ASSUME NEW t \in Slots, t # s, at[t] # "idle" PROVE SerialCall(t)'
  <2>1. SerialCall(t) /\ target[t] # o /\ UNCHANGED <<op[t], target[t], at[t], seen[t], row, step>>
    BY <1>2, BeginEffect DEF SerialOK
  <2>2. \A x \in Slots : x # t => target'[x] # target'[t]
    BY <2>1, BeginEffect DEF SerialCall
  <2>3. Allowed(op[t], row[target[t]]) => Allowed(op'[t], row'[target'[t]])
    BY <2>1
  <2> QED BY <2>1, <2>2, <2>3 DEF SerialCall
<1>3. \A t \in Slots : IF at'[t] = "idle" THEN target'[t] = NoOrder ELSE SerialCall(t)'
  BY <1>1, <1>2, BeginEffect DEF SerialOK
<1> QED BY <1>3, BeginEffect DEF SerialOK, InsertedRow, NoRow

(* A running call that leaves the rows alone, or writes its own. *)
LEMMA CallSerialSteps ==
    ASSUME IInv, SerialOK, NEW s \in Slots, Continue(s),
           at'[s] # "idle" => SerialCall(s)',
           \A p \in Orders : p # target[s] => row'[p] = row[p],
           row'[target[s]].status = "created" => row'[target[s]].driver = NoDriver
    PROVE  SerialOK'
<1>0. NoOrder \notin Orders
  BY OrderServiceAssumption
<1>1. SerialCall(s) /\ target[s] \in Orders /\ step' = step
  BY CallEffect DEF SerialOK
<1>2. ASSUME NEW t \in Slots, t # s, at[t] # "idle" PROVE SerialCall(t)'
  <2>1. SerialCall(t) /\ target[t] \in Orders /\ target[t] # target[s]
    BY <1>1, <1>2 DEF SerialOK, SerialCall, IInv, CallsOK, CallOK
  <2>2. UNCHANGED <<op[t], target[t], at[t], seen[t], row[target[t]]>>
    BY <1>2, <2>1, CallEffect
  <2>3. \A x \in Slots : x # t => target'[x] # target'[t]
    BY <1>0, <2>1, <2>2, CallEffect DEF SerialCall
  <2>4. Allowed(op[t], row[target[t]]) => Allowed(op'[t], row'[target'[t]])
    BY <2>2
  <2> QED BY <1>1, <2>1, <2>2, <2>3, <2>4 DEF SerialCall
<1>3. \A t \in Slots : IF at'[t] = "idle" THEN target'[t] = NoOrder ELSE SerialCall(t)'
  BY <1>2, CallEffect DEF SerialOK
<1>4. \A p \in Orders :
          /\ step'[p] \in {"index", "claim", "assign"} => row'[p] = InsertedRow
          /\ row'[p].status = "created" => row'[p].driver = NoDriver
  BY <1>1 DEF SerialOK, SerialCall
<1>5. InsertedRow' = InsertedRow
  BY DEF InsertedRow, NoRow
<1> QED BY <1>3, <1>4, <1>5 DEF SerialOK

(* What an UPDATE does to the row it was allowed on. *)
LEMMA WrittenForward ==
    ASSUME IInv, SerialOK, NEW s \in Slots, at[s] = "write"
    PROVE  LET r == row[target[s]]
               w == Written(s, r)
           IN  /\ target[s] \in Orders /\ Matches(s, r)
               /\ w.driver = r.driver /\ w.status # "created"
               /\ \/ op[s] = "rate" /\ w.status = r.status /\ r.status = "completed"
                  \/ /\ op[s] = "cancel" /\ w.status = "cancelled"
                     /\ r.status \in {"created", "driver_assigned"}
                  \/ /\ op[s] = "start" /\ w.status = "in_progress"
                     /\ r.status = "driver_assigned"
                  \/ /\ op[s] = "complete" /\ w.status = "completed"
                     /\ r.status = "in_progress"
<1> DEFINE r == row[target[s]]
           w == Written(s, r)
<1>1. /\ target[s] \in Orders /\ r \in Row /\ op[s] \in Ops \ {"none"}
      /\ stars[s] \in Ratings \cup {NoRating} /\ Allowed(op[s], r)
  BY DEF IInv, TypeOK, CallsOK, CallOK, SerialOK, SerialCall
<1>2. w.driver = r.driver
  BY <1>1, WrittenIsRow
<1>3. Matches(s, r)
  BY <1>1 DEF Matches, Allowed
<1>4. \/ op[s] = "rate" /\ w.status = r.status /\ r.status = "completed"
      \/ /\ op[s] = "cancel" /\ w.status = "cancelled"
         /\ r.status \in {"created", "driver_assigned"}
      \/ /\ op[s] = "start" /\ w.status = "in_progress" /\ r.status = "driver_assigned"
      \/ /\ op[s] = "complete" /\ w.status = "completed" /\ r.status = "in_progress"
  <2> HIDE DEF r
  <2>1. CASE op[s] = "rate"
    BY <1>1, <2>1, WrittenIsRow DEF Allowed
  <2>2. CASE op[s] = "cancel"
    BY <1>1, <2>2, WrittenIsRow DEF Allowed
  <2>3. CASE op[s] = "start"
    BY <1>1, <2>3 DEF Allowed, Written, Row
  <2>4. CASE op[s] = "complete"
    BY <1>1, <2>4 DEF Allowed, Written, Row
  <2> QED BY <1>1, <2>1, <2>2, <2>3, <2>4 DEF Ops
<1>5. w.status # "created"
  BY <1>4
<1> QED BY <1>1, <1>2, <1>3, <1>4, <1>5

LEMMA CallWriteEffect ==
    ASSUME IInv, SerialOK, NEW s \in Slots, CallWrite(s)
    PROVE  /\ at[s] = "write"
           /\ UNCHANGED <<balance, debits, credits, indexed, pool, created, rated>>
           /\ \/ "db" \in Faults /\ row' = row /\ at'[s] = "idle"
              \/ /\ row' = [row EXCEPT ![target[s]] = Written(s, row[target[s]])]
                 /\ \/ "db" \in Faults /\ at'[s] = "idle"
                    \/ at'[s] = "index" /\ seen'[s] = row'[target[s]]
<1>1. /\ at[s] = "write" /\ at \in [Slots -> Places] /\ seen \in [Slots -> Row]
      /\ UNCHANGED <<balance, debits, credits, indexed, pool, created, rated>>
  BY DEF CallWrite, IInv, TypeOK, ledgerVars, outside
<1>2. Matches(s, row[target[s]])
  BY <1>1, WrittenForward
<1>3. PICK end \in Ends("db") :
          /\ row' = IF end # "refused"
                    THEN [row EXCEPT ![target[s]] = Written(s, row[target[s]])] ELSE row
          /\ IF end = "ok"
             THEN /\ at' = [at EXCEPT ![s] = "index"]
                  /\ seen' = [seen EXCEPT ![s] = row'[target[s]]]
             ELSE Leave(s)
  BY <1>2 DEF CallWrite
<1>4. end \in {"ok", "refused", "lost"} /\ (end # "ok" => "db" \in Faults)
  BY DEF Ends
<1>5. Leave(s) => at'[s] = "idle"
  BY <1>1 DEF Leave
<1> QED BY <1>1, <1>3, <1>4, <1>5

LEMMA CallSerial ==
    ASSUME IInv, SerialOK, NEW s \in Slots, Continue(s) PROVE SerialOK'
<1>1. SerialCall(s) /\ target[s] \in Orders /\ row \in [Orders -> Row]
  BY CallEffect DEF SerialOK, IInv, TypeOK
<1>2. at'[s] # "idle" => \A t \in Slots : t # s => target'[t] # target'[s]
  BY <1>1, CallEffect DEF SerialCall
<1>3. CASE CallWrite(s)
  <2>1. at[s] = "write" /\ step' = step
    BY <1>3 DEF CallWrite, creation
  <2>2. \A p \in Orders : p # target[s] => row'[p] = row[p]
    BY <1>1, <1>3, CallWriteEffect
  <2>3. row'[target[s]].status = "created" => row'[target[s]].driver = NoDriver
    BY <1>1, <1>3, <2>1, CallWriteEffect, WrittenForward DEF SerialOK
  <2>4. at'[s] # "idle" => SerialCall(s)'
    BY <1>1, <1>2, <1>3, <2>1, CallWriteEffect, CallEffect DEF SerialCall
  <2> QED BY <2>2, <2>3, <2>4, CallSerialSteps
<1>4. CASE ~CallWrite(s)
  <2>1. /\ row' = row /\ step' = step
        /\ \/ Leave(s)
           \/ Move(s, "release") /\ at[s] = "refund"
           \/ Move(s, "write") /\ at[s] \in {"refund", "release"}
           \/ Move(s, "publish")
    BY <1>4 DEF Continue, CancelRefund, CallRelease, CallIndex, RatePublish, creation
  <2>2. \/ at'[s] = "idle"
        \/ /\ UNCHANGED <<op, target, seen>>
           /\ at'[s] \in {"release", "write"} => at[s] \in {"refund", "release"}
           /\ at'[s] = "release" => at[s] = "refund"
           /\ at'[s] # "refund"
    BY <2>1 DEF Leave, Move, IInv, TypeOK
  <2>3. at'[s] # "idle" => SerialCall(s)'
    <3> SUFFICES ASSUME at'[s] # "idle" PROVE SerialCall(s)'
      OBVIOUS
    <3>1. Allowed(op[s], row[target[s]]) => Allowed(op'[s], row'[target'[s]])
      BY <2>1, <2>2
    <3>2. at[s] = "refund" => op[s] = "cancel"
      BY DEF IInv, CallsOK, CallOK
    <3> QED BY <1>1, <1>2, <2>1, <2>2, <3>1, <3>2 DEF SerialCall
  <2>4. row'[target[s]].status = "created" => row'[target[s]].driver = NoDriver
    BY <1>1, <2>1 DEF SerialOK
  <2> QED BY <2>1, <2>3, <2>4, CallSerialSteps
<1> QED BY <1>3, <1>4

LEMMA CrashSerial == ASSUME IInv, SerialOK, Crash PROVE SerialOK'
<1>1. row' = row /\ \A s \in Slots : at'[s] = "idle" /\ target'[s] = NoOrder
  BY DEF Crash
<1>2. \A o \in Orders : step'[o] \in {"new", "done", "failed"}
  BY DEF Crash
<1> QED BY <1>1, <1>2 DEF SerialOK

LEMMA InitSerial == Init => SerialOK
BY DEF Init, SerialOK, NoRow

LEMMA NextSerial ==
    IInv /\ SerialOK /\ [Next /\ OneCallPerOrder]_vars => SerialOK'
<1> SUFFICES ASSUME IInv, SerialOK, [Next /\ OneCallPerOrder]_vars PROVE SerialOK'
  OBVIOUS
<1>1. CASE Next /\ OneCallPerOrder
  <2>1. ASSUME NEW s \in Slots, BeginCancel(s) \/ BeginStart(s) \/ BeginComplete(s) \/ BeginRate(s)
        PROVE  SerialOK'
    BY <1>1, <2>1, BeginSerial DEF BeginCancel, BeginStart, BeginComplete, BeginRate, Ops
  <2>2. ASSUME NEW d \in Drivers, DriverSetsStatus(d) PROVE SerialOK'
    <3>1. UNCHANGED <<row, step, op, target, at, seen, stars>>
      BY <2>2 DEF DriverSetsStatus, creation, calls
    <3> QED BY <3>1 DEF SerialOK, SerialCall, Allowed, InsertedRow, NoRow
  <2> QED BY <1>1, <2>1, <2>2, CreateSerial, CallSerial, CrashSerial DEF Next
<1>2. CASE UNCHANGED vars
  BY <1>2 DEF vars, SerialOK, SerialCall, Allowed, InsertedRow, NoRow
<1> QED BY <1>1, <1>2

(* With one call at a time on an order, a call acts on the row as it is. *)
THEOREM SerialInvariant == SerialSpec => [](IInv /\ NoRowYet /\ SerialOK)
<1>1. Init => IInv /\ NoRowYet /\ SerialOK
  BY InitIInv, InitSerial DEF Init, NoRowYet
<1>2. IInv /\ NoRowYet /\ SerialOK /\ [Next /\ OneCallPerOrder]_vars
          => (IInv /\ NoRowYet /\ SerialOK)'
  BY NextIInv, NextKeeps, NextSerial
<1> QED BY <1>1, <1>2, PTL DEF SerialSpec

(***************************************************************************)
(* The lifecycle.                                                          *)
(***************************************************************************)

LEMMA RowWriters ==
    ASSUME Next, row' # row
    PROVE  \/ \E o \in Orders : CreateInsert(o) \/ CreateAssign(o)
           \/ \E s \in Slots : CallWrite(s)
<1>1. ASSUME NEW o \in Orders, CreateOrder(o) PROVE CreateInsert(o) \/ CreateAssign(o)
  BY <1>1 DEF CreateOrder, CreateCharge, CreateRefund, CreateIndex, CreateClaim,
              CreateRelease, CreatePublish
<1>2. ASSUME NEW s \in Slots, BeginCancel(s) \/ BeginStart(s) \/ BeginComplete(s) \/ BeginRate(s)
      PROVE  FALSE
  BY <1>2 DEF BeginCancel, BeginStart, BeginComplete, BeginRate, Begin
<1>3. ASSUME NEW s \in Slots, Continue(s) PROVE CallWrite(s)
  BY <1>3 DEF Continue, CancelRefund, CallRelease, CallIndex, RatePublish
<1>4. (\E d \in Drivers : DriverSetsStatus(d)) \/ Crash => FALSE
  BY DEF DriverSetsStatus, Crash
<1> QED BY <1>1, <1>2, <1>3, <1>4 DEF Next

LEMMA NextForward ==
    IInv /\ NoRowYet /\ SerialOK /\ [Next /\ OneCallPerOrder]_vars => [StatusMovesForward]_vars
<1> SUFFICES ASSUME IInv, NoRowYet, SerialOK, Next, row' # row PROVE StatusMovesForward
  BY DEF StatusMovesForward
<1>0. row \in [Orders -> Row]
  BY DEF IInv, TypeOK
<1>1. ASSUME NEW o \in Orders, CreateInsert(o) PROVE StatusMovesForward
  <2>1. row[o].status = "none" /\ row' = [row EXCEPT ![o] = InsertedRow]
    BY <1>1 DEF CreateInsert, NoRowYet, NoRow
  <2>2. Stage("created") > Stage("none")
    BY DEF Stage
  <2> QED BY <1>0, <2>1, <2>2, InsertedIsFresh DEF StatusMovesForward
<1>2. ASSUME NEW o \in Orders, CreateAssign(o) PROVE StatusMovesForward
  <2>1. /\ step[o] = "assign" /\ claimed[o] \in Drivers
        /\ row' = [row EXCEPT ![o] = Assigned(row[o], claimed[o])]
    BY <1>2 DEF CreateAssign, IInv, CreationOK
  <2>2. row[o].status = "created" /\ Assigned(row[o], claimed[o]).status = "driver_assigned"
    BY <1>0, <2>1, AssignedIsRow, InsertedIsFresh DEF SerialOK
  <2>3. Stage("driver_assigned") > Stage("created")
    BY DEF Stage
  <2> QED BY <1>0, <2>1, <2>2, <2>3 DEF StatusMovesForward
<1>3. ASSUME NEW s \in Slots, CallWrite(s) PROVE StatusMovesForward
  <2> DEFINE o == target[s]
             w == Written(s, row[o])
  <2>1. row' = [row EXCEPT ![o] = w]
    BY <1>3, CallWriteEffect
  <2>2. w.status = row[o].status \/ Stage(w.status) > Stage(row[o].status)
    <3>1. \/ w.status = row[o].status
          \/ w.status \in {"cancelled", "completed"}
             /\ row[o].status \in {"created", "driver_assigned", "in_progress"}
          \/ w.status = "in_progress" /\ row[o].status = "driver_assigned"
      BY <1>3, CallWriteEffect, WrittenForward
    <3> QED BY <3>1 DEF Stage
  <2> HIDE DEF w, o
  <2> QED BY <1>0, <2>1, <2>2 DEF StatusMovesForward
<1> QED BY <1>1, <1>2, <1>3, RowWriters

(* The lifecycle the documents draw is what happens, whatever fails and      *)
(* wherever the process dies, as long as the calls on an order do not        *)
(* overlap: each then writes the row it has checked.                         *)
THEOREM LifecycleForward == SerialSpec => LifecycleMovesForward
BY SerialInvariant, NextForward, PTL DEF SerialSpec, LifecycleMovesForward

(***************************************************************************)
(* Money and order agree.                                                  *)
(***************************************************************************)

NoMoneyFaults == Faults \cap {"wallet", "db", "process"} = {}

LEMMA CreatePaid ==
    ASSUME NoMoneyFaults, IInv, SerialOK, PaidOK, NEW o \in Orders, CreateOrder(o) PROVE PaidOK'
<1>0. /\ row \in [Orders -> Row] /\ step \in [Orders -> Steps] /\ credits \in [Orders -> Nat]
      /\ step[o] # "refund"
  BY DEF IInv, TypeOK, LedgerTypeOK, PaidOK
<1>1. credits' = credits
  BY <1>0 DEF CreateOrder, CreateCharge, CreateInsert, CreateRefund, CreateIndex, CreateClaim,
              CreateAssign, CreateRelease, CreatePublish, Charge, ledgerVars
<1>2. \A p \in Orders : Refunded(p) <=> Refunded(p)'
  BY CreateEffect DEF Refunded
<1>3. step'[o] # "refund"
  BY <1>0 DEF NoMoneyFaults, CreateOrder, CreateCharge, CreateInsert, CreateRefund, CreateIndex,
              CreateClaim, CreateAssign, CreateRelease, CreatePublish, Goto, Return, Ends
<1>4. step'[o] = "insert" => credits[o] = 0
  <2> SUFFICES ASSUME step'[o] = "insert" PROVE credits[o] = 0
    OBVIOUS
  <2>1. step[o] = "new"
    BY <1>0 DEF CreateOrder, CreateCharge, CreateInsert, CreateRefund, CreateIndex,
                CreateClaim, CreateAssign, CreateRelease, CreatePublish, Goto, Return
  <2> QED BY <2>1 DEF IInv, MoneyOK
<1>5. step[o] \in {"insert", "assign"} => credits[o] # 1
  <2>1. CASE step[o] = "insert"
    BY <2>1 DEF PaidOK
  <2>2. CASE step[o] = "assign"
    <3>1. Exists(o) /\ row[o].status # "cancelled"
      BY <2>2, InsertedIsFresh DEF SerialOK, Exists
    <3>2. ~Refunded(o)
      BY <2>2 DEF Refunded, SerialOK, SerialCall
    <3> QED BY <3>1, <3>2 DEF PaidOK
  <2> QED BY <2>1, <2>2
<1>6. Exists(o)' /\ credits[o] = 1 => row'[o].status = "cancelled" \/ Refunded(o)'
  BY <1>2, <1>5, CreateEffect DEF PaidOK, Exists
<1>7. \A p \in Orders : p # o => UNCHANGED <<step[p], row[p]>>
  BY CreateEffect
<1> QED BY <1>1, <1>2, <1>3, <1>4, <1>6, <1>7 DEF PaidOK, Exists

(* A call changes the money, the row and the progress of its own order alone. *)
LEMMA CallPaidSteps ==
    ASSUME IInv, SerialOK, PaidOK, NEW s \in Slots, Continue(s), NEW o \in Orders, o = target[s],
           \A p \in Orders : p # o => row'[p] = row[p] /\ credits'[p] = credits[p],
           credits'[o] = 1 => row'[o].status = "cancelled" \/ Refunded(o)'
    PROVE  PaidOK'
<1>1. /\ step' = step /\ step[o] \in {"done", "failed"}
      /\ \A t \in Slots : t # s => UNCHANGED <<op[t], target[t], at[t]>>
  BY CallEffect DEF SerialOK, SerialCall
<1>2. \A p \in Orders : p # o /\ Refunded(p) => Refunded(p)'
  BY <1>1 DEF Refunded
<1> QED BY <1>1, <1>2 DEF PaidOK, Exists

LEMMA CallPaid ==
    ASSUME NoMoneyFaults, IInv, SerialOK, PaidOK, NEW s \in Slots, Continue(s) PROVE PaidOK'
<1> PICK o \in Orders : o = target[s]
  BY CallEffect
<1>0. /\ row \in [Orders -> Row] /\ credits \in [Orders -> Nat] /\ at \in [Slots -> Places]
      /\ SerialCall(s) /\ at[s] # "idle"
  BY CallEffect DEF IInv, TypeOK, LedgerTypeOK, SerialOK
<1>1. CASE CancelRefund(s)
  <2>1. /\ at[s] = "refund" /\ op[s] = "cancel" /\ row' = row /\ Refund(o)
        /\ Move(s, "release") \/ Move(s, "write")
    BY <1>1 DEF CancelRefund, NoMoneyFaults, Ends, IInv, CallsOK, CallOK
  <2>2. Refunded(o)'
    BY <1>0, <2>1 DEF Refunded, Move
  <2>3. \A p \in Orders : p # o => credits'[p] = credits[p]
    BY <1>0, <2>1 DEF Refund
  <2> QED BY <2>1, <2>2, <2>3, CallPaidSteps
<1>2. CASE CallWrite(s)
  <2>1. /\ at[s] = "write" /\ credits' = credits
        /\ row' = [row EXCEPT ![o] = Written(s, row[o])]
    BY <1>2, CallWriteEffect DEF NoMoneyFaults
  <2>2. op[s] = "cancel" => row'[o].status = "cancelled"
    BY <1>0, <2>1, WrittenForward
  <2>3. op[s] # "cancel" => credits[o] # 1
    <3>1. op[s] # "cancel" => ~Refunded(o)
      BY <1>0 DEF Refunded, SerialCall
    <3>2. row[o].status # "cancelled" /\ Exists(o)
      BY <2>1, WrittenForward DEF Exists
    <3> QED BY <1>0, <3>1, <3>2 DEF PaidOK
  <2>4. \A p \in Orders : p # o => row'[p] = row[p] /\ credits'[p] = credits[p]
    BY <1>0, <2>1
  <2> QED BY <2>1, <2>2, <2>3, <2>4, CallPaidSteps
<1>3. CASE CallRelease(s) \/ CallIndex(s) \/ RatePublish(s)
  <2>1. row' = row /\ credits' = credits
    BY <1>3 DEF CallRelease, CallIndex, RatePublish, ledgerVars
  <2>2. Refunded(o) => Refunded(o)'
    <3> SUFFICES ASSUME NEW t \in Slots, target[t] = o, op[t] = "cancel",
                        at[t] \in {"release", "write"}
                 PROVE  Refunded(o)'
      BY DEF Refunded
    <3>1. t = s
      BY <1>0 DEF SerialCall
    <3>2. at[s] = "release" /\ Move(s, "write")
      BY <1>3, <3>1 DEF CallRelease, CallIndex, RatePublish
    <3>3. at'[s] = "write" /\ op'[s] = op[s] /\ target'[s] = target[s]
      BY <1>0, <3>2 DEF Move
    <3> QED BY <3>1, <3>3 DEF Refunded
  <2>3. Exists(o)
    BY <1>0 DEF IInv, CallsOK, CallOK
  <2> QED BY <1>0, <2>1, <2>2, <2>3, CallPaidSteps DEF PaidOK
<1> QED BY <1>1, <1>2, <1>3 DEF Continue

LEMMA NextPaid ==
    ASSUME NoMoneyFaults
    PROVE  IInv /\ SerialOK /\ PaidOK /\ [Next /\ OneCallPerOrder]_vars => PaidOK'
<1> SUFFICES ASSUME IInv, SerialOK, PaidOK, [Next /\ OneCallPerOrder]_vars PROVE PaidOK'
  OBVIOUS
<1>1. ASSUME UNCHANGED <<row, step, credits>>, \A p \in Orders : Refunded(p) => Refunded(p)'
      PROVE  PaidOK'
  BY <1>1 DEF PaidOK, Exists
<1>2. CASE Next /\ OneCallPerOrder
  <2>1. ASSUME NEW s \in Slots, BeginCancel(s) \/ BeginStart(s) \/ BeginComplete(s) \/ BeginRate(s)
        PROVE  PaidOK'
    <3>1. PICK what \in Ops \ {"none"}, o \in Orders : \E given : Begin(s, what, o, given)
      BY <2>1 DEF BeginCancel, BeginStart, BeginComplete, BeginRate, Ops
    <3>2. UNCHANGED <<row, step, credits>>
      BY <1>2, <3>1, BeginEffect
    <3>3. at[s] = "idle" /\ \A t \in Slots : t # s => UNCHANGED <<op[t], target[t], at[t]>>
      BY <1>2, <3>1, BeginEffect
    <3> QED BY <1>1, <3>2, <3>3 DEF Refunded
  <2>2. ASSUME NEW d \in Drivers, DriverSetsStatus(d) PROVE PaidOK'
    <3>1. UNCHANGED <<row, step, credits, op, target, at>>
      BY <2>2 DEF DriverSetsStatus, creation, calls, ledgerVars
    <3> QED BY <1>1, <3>1 DEF Refunded
  <2>3. ~Crash
    BY DEF Crash, NoMoneyFaults
  <2> QED BY <1>2, <2>1, <2>2, <2>3, CreatePaid, CallPaid DEF Next
<1>3. CASE UNCHANGED vars
  BY <1>1, <1>3 DEF vars, Refunded
<1> QED BY <1>2, <1>3

(* When no call on it is running, an order that is not cancelled is paid for *)
(* and a cancelled one has been refunded: with one call at a time on an      *)
(* order it takes the wallet, the database or the process to fail for a      *)
(* rider to ride for nothing or to pay for a cancelled order.                *)
THEOREM RidesPaid == ASSUME NoMoneyFaults PROVE SerialSpec => []RidesArePaid
<1>1. Init => PaidOK
  <2> SUFFICES ASSUME Init, NEW o \in Orders
               PROVE  step[o] = "new" /\ ~Exists(o)
    BY DEF PaidOK
  <2> QED BY DEF Init, Exists, NoRow
<1>2. IInv /\ PaidOK => RidesArePaid
  <2> SUFFICES ASSUME IInv, PaidOK, NEW o \in Orders, Quiet(o), Exists(o)
               PROVE  (row[o].status = "cancelled") = (credits[o] = debits[o])
    BY DEF RidesArePaid
  <2>1. debits[o] = 1 /\ credits[o] \in {0, 1}
    BY DEF IInv, MoneyOK
  <2>2. ~Refunded(o)
    BY DEF Quiet, Refunded
  <2>3. row[o].status = "cancelled" <=> credits[o] = 1
    BY <2>1, <2>2 DEF PaidOK, IInv, RefundedBeforeCancelled
  <2> QED BY <2>1, <2>3
<1> QED BY <1>1, <1>2, SerialInvariant, NextPaid, PTL DEF SerialSpec

(***************************************************************************)
(* The search index.                                                       *)
(***************************************************************************)

NoSearchFaults == Faults \cap {"search", "db", "process"} = {}

LEMMA CreateIndexed ==
    ASSUME NoSearchFaults, IInv, SerialOK, IndexOK, NEW o \in Orders, CreateOrder(o)
    PROVE  IndexOK'
<1>0. /\ row \in [Orders -> Row] /\ step \in [Orders -> Steps] /\ made \in [Orders -> Row]
      /\ indexed \in [Orders -> Row] /\ step[o] \notin {"refund", "release"}
      /\ "search" \notin Faults /\ "db" \notin Faults
  BY DEF IInv, TypeOK, IndexOK, NoSearchFaults
<1>1. \A p \in Orders : p # o => /\ UNCHANGED <<step[p], row[p], made[p], indexed[p]>>
                                 /\ ToBeIndexed(p) => ToBeIndexed(p)'
  BY CreateEffect DEF ToBeIndexed
<1>2. ~(\E s \in Slots : target[s] = o /\ at[s] = "index")
  BY CreateEffect DEF SerialOK, SerialCall
<1>3. /\ step'[o] \notin {"refund", "release"}
      /\ step'[o] \in {"index", "reindex"} => made'[o] = row'[o]
      /\ Exists(o)' => indexed'[o] = row'[o] \/ step'[o] \in {"index", "reindex"}
  <2>1. CASE CreateCharge(o)
    <3>1. step'[o] \in {"insert", "failed"} /\ row' = row /\ ~Exists(o)
      BY <1>0, <2>1 DEF CreateCharge, Goto, Return, IInv, MoneyOK
    <3> QED BY <3>1 DEF Exists
  <2>2. CASE CreateInsert(o)
    BY <1>0, <2>2 DEF CreateInsert, Goto, Ends
  <2>3. CASE CreateRefund(o)
    BY <1>0, <2>3 DEF CreateRefund
  <2>4. CASE CreateIndex(o)
    <3>1. /\ step[o] \in {"index", "reindex"} /\ step'[o] \in {"claim", "publish"}
          /\ row' = row /\ indexed' = [indexed EXCEPT ![o] = made[o]]
      BY <1>0, <2>4 DEF CreateIndex, IndexOrder, Goto, Ends
    <3> QED BY <1>0, <3>1 DEF IndexOK
  <2>5. CASE CreateClaim(o) \/ CreatePublish(o)
    <3>1. /\ step[o] \in {"claim", "publish"} /\ row' = row /\ indexed' = indexed
          /\ step'[o] \in {"assign", "publish", "done"}
      BY <1>0, <2>5 DEF CreateClaim, CreatePublish, Goto, Return
    <3> QED BY <1>2, <3>1 DEF IndexOK, ToBeIndexed, Exists
  <2>6. CASE CreateAssign(o)
    <3>1. step'[o] = "reindex" /\ made'[o] = row'[o]
      BY <1>0, <2>6 DEF CreateAssign, Goto, Ends
    <3> QED BY <3>1
  <2>7. CASE CreateRelease(o)
    BY <1>0, <2>7 DEF CreateRelease
  <2> QED BY <2>1, <2>2, <2>3, <2>4, <2>5, <2>6, <2>7 DEF CreateOrder
<1> QED BY <1>1, <1>3 DEF IndexOK, ToBeIndexed, Exists

(* A call indexes its own order alone. *)
LEMMA CallIndexedSteps ==
    ASSUME IInv, SerialOK, IndexOK, NEW s \in Slots, Continue(s), NEW o \in Orders, o = target[s],
           \A p \in Orders : p # o => row'[p] = row[p] /\ indexed'[p] = indexed[p],
           Exists(o)' => indexed'[o] = row'[o] \/ at'[s] = "index"
    PROVE  IndexOK'
<1>1. /\ UNCHANGED <<step, made>> /\ step[o] \in {"done", "failed"}
      /\ \A t \in Slots : t # s => UNCHANGED <<target[t], at[t]>>
      /\ at'[s] = "index" => target'[s] = o
  BY CallEffect DEF SerialOK, SerialCall
<1>2. \A p \in Orders : p # o /\ ToBeIndexed(p) => ToBeIndexed(p)'
  BY <1>1 DEF ToBeIndexed
<1>3. at'[s] = "index" => ToBeIndexed(o)'
  BY <1>1 DEF ToBeIndexed
<1> QED BY <1>1, <1>2, <1>3 DEF IndexOK, Exists

LEMMA CallIndexed ==
    ASSUME NoSearchFaults, IInv, SerialOK, IndexOK, NEW s \in Slots, Continue(s) PROVE IndexOK'
<1> PICK o \in Orders : o = target[s]
  BY CallEffect
<1>0. /\ row \in [Orders -> Row] /\ indexed \in [Orders -> Row]
      /\ SerialCall(s) /\ at[s] # "idle" /\ "search" \notin Faults /\ "db" \notin Faults
  BY CallEffect DEF IInv, TypeOK, SerialOK, NoSearchFaults
<1>1. CASE CallWrite(s)
  <2>1. /\ at'[s] = "index" /\ indexed' = indexed
        /\ row' = [row EXCEPT ![o] = Written(s, row[o])]
    BY <1>0, <1>1, CallWriteEffect
  <2> QED BY <1>0, <2>1, CallIndexedSteps
<1>2. CASE CallIndex(s)
  <2>1. row' = row /\ indexed' = [indexed EXCEPT ![o] = row[o]]
    BY <1>0, <1>2 DEF CallIndex, IndexOrder, Ends, SerialCall
  <2> QED BY <1>0, <2>1, CallIndexedSteps
<1>3. CASE CancelRefund(s) \/ CallRelease(s) \/ RatePublish(s)
  <2>1. row' = row /\ indexed' = indexed /\ at[s] # "index"
    BY <1>3 DEF CancelRefund, CallRelease, RatePublish, outside
  <2>2. ~ToBeIndexed(o)
    BY <1>0, <2>1 DEF ToBeIndexed, SerialCall
  <2> QED BY <2>1, <2>2, CallIndexedSteps DEF IndexOK, Exists
<1> QED BY <1>1, <1>2, <1>3 DEF Continue

LEMMA NextIndexed ==
    ASSUME NoSearchFaults
    PROVE  IInv /\ SerialOK /\ IndexOK /\ [Next /\ OneCallPerOrder]_vars => IndexOK'
<1> SUFFICES ASSUME IInv, SerialOK, IndexOK, [Next /\ OneCallPerOrder]_vars PROVE IndexOK'
  OBVIOUS
<1>1. ASSUME UNCHANGED <<row, step, made, indexed>>,
             \A p \in Orders : ToBeIndexed(p) => ToBeIndexed(p)'
      PROVE  IndexOK'
  BY <1>1 DEF IndexOK, Exists
<1>2. CASE Next /\ OneCallPerOrder
  <2>1. ASSUME NEW s \in Slots, BeginCancel(s) \/ BeginStart(s) \/ BeginComplete(s) \/ BeginRate(s)
        PROVE  IndexOK'
    <3>1. PICK what \in Ops \ {"none"}, o \in Orders : \E given : Begin(s, what, o, given)
      BY <2>1 DEF BeginCancel, BeginStart, BeginComplete, BeginRate, Ops
    <3>2. UNCHANGED <<row, step, made, indexed>>
      BY <1>2, <3>1, BeginEffect
    <3>3. at[s] = "idle" /\ \A t \in Slots : t # s => UNCHANGED <<target[t], at[t]>>
      BY <1>2, <3>1, BeginEffect
    <3> QED BY <1>1, <3>2, <3>3 DEF ToBeIndexed
  <2>2. ASSUME NEW d \in Drivers, DriverSetsStatus(d) PROVE IndexOK'
    <3>1. UNCHANGED <<row, step, made, indexed, target, at>>
      BY <2>2 DEF DriverSetsStatus, creation, calls
    <3> QED BY <1>1, <3>1 DEF ToBeIndexed
  <2>3. ~Crash
    BY DEF Crash, NoSearchFaults
  <2> QED BY <1>2, <2>1, <2>2, <2>3, CreateIndexed, CallIndexed DEF Next
<1>3. CASE UNCHANGED vars
  BY <1>1, <1>3 DEF vars, ToBeIndexed
<1> QED BY <1>2, <1>3

(* Between the calls on an order its document in the index is its row: with  *)
(* one call at a time on an order, IndexOrder needs no version.              *)
THEOREM SearchCurrent == ASSUME NoSearchFaults PROVE SerialSpec => []SearchIsCurrent
<1>1. Init => IndexOK
  <2> SUFFICES ASSUME Init, NEW o \in Orders
               PROVE  step[o] = "new" /\ ~Exists(o)
    BY DEF IndexOK
  <2> QED BY DEF Init, Exists, NoRow
<1>2. IndexOK => SearchIsCurrent
  BY DEF IndexOK, SearchIsCurrent, ToBeIndexed, Quiet
<1> QED BY <1>1, <1>2, SerialInvariant, NextIndexed, PTL DEF SerialSpec

(***************************************************************************)
(* The drivers.                                                            *)
(***************************************************************************)

RowHolds(r, d) == r.driver = d /\ r.status \in {"driver_assigned", "in_progress"}

Releasing(s) == at[s] = "write" /\ op[s] \in {"cancel", "complete"}

(* While its CreateOrder runs, no call is about an order. *)
LEMMA HoldsWhileCreated ==
    ASSUME IInv, SerialOK, NEW o \in Orders, step[o] \notin {"done", "failed"}, NEW d
    PROVE  /\ \A s \in Slots : target[s] # o
           /\ Holds(o, d) <=> \/ step[o] \in {"assign", "release"} /\ claimed[o] = d
                              \/ RowHolds(row[o], d)
<1>1. \A s \in Slots : target[s] # o
  BY OrderServiceAssumption DEF SerialOK, SerialCall
<1> QED BY <1>1 DEF Holds, RowHolds

(* After it, the one call on the order decides. *)
LEMMA HoldsWhileCalled ==
    ASSUME IInv, SerialOK, NEW s \in Slots, at[s] # "idle", NEW o \in Orders, o = target[s], NEW d
    PROVE  Holds(o, d) <=> RowHolds(row[o], d) /\ ~Releasing(s)
BY DEF SerialOK, SerialCall, Holds, RowHolds, Releasing

LEMMA CallHolds ==
    ASSUME IInv, SerialOK, NEW s \in Slots, Continue(s), NEW o \in Orders, o = target[s], NEW d
    PROVE  /\ Holds(o, d)' <=> RowHolds(row'[o], d) /\ ~Releasing(s)'
           /\ \A p \in Orders : p # o /\ row'[p] = row[p] => (Holds(p, d)' <=> Holds(p, d))
<1>1. /\ UNCHANGED <<step, claimed>> /\ step[o] \in {"done", "failed"} /\ NoOrder # o
      /\ \A t \in Slots : t # s => UNCHANGED <<op[t], target[t], at[t]>> /\ target[t] # o
      /\ \/ at'[s] = "idle" /\ target'[s] = NoOrder
         \/ at'[s] # "idle" /\ target'[s] = o /\ op'[s] = op[s]
  BY CallEffect, OrderServiceAssumption DEF SerialOK, SerialCall
<1>2. Holds(o, d)' <=> RowHolds(row'[o], d) /\ ~Releasing(s)'
  <2>1. (\A t \in Slots : target'[t] = o /\ at'[t] = "write" => op'[t] \notin {"cancel", "complete"})
            <=> ~Releasing(s)'
    BY <1>1 DEF Releasing
  <2>2. step'[o] \notin {"assign", "release"}
    BY <1>1
  <2> QED BY <2>1, <2>2 DEF Holds, RowHolds
<1>3. NoOrder \notin Orders
  BY OrderServiceAssumption
<1>4. ASSUME NEW p \in Orders, p # o, row'[p] = row[p] PROVE Holds(p, d)' <=> Holds(p, d)
  <2>1. \A t \in Slots :
            (target'[t] = p /\ at'[t] = "write" => op'[t] \notin {"cancel", "complete"})
                <=> (target[t] = p /\ at[t] = "write" => op[t] \notin {"cancel", "complete"})
    BY <1>1, <1>3, <1>4
  <2> QED BY <1>1, <1>4, <2>1 DEF Holds
<1> QED BY <1>2, <1>4

LEMMA CreateHolds ==
    ASSUME IInv, SerialOK, NEW o \in Orders, CreateOrder(o), NEW d
    PROVE  /\ Holds(o, d)' <=> \/ step'[o] \in {"assign", "release"} /\ claimed'[o] = d
                               \/ RowHolds(row'[o], d)
           /\ \A p \in Orders : p # o => (Holds(p, d)' <=> Holds(p, d))
<1>1. \A s \in Slots : target'[s] # o
  BY CreateEffect, HoldsWhileCreated
<1>2. ASSUME NEW p \in Orders, p # o PROVE Holds(p, d)' <=> Holds(p, d)
  <2>1. UNCHANGED <<step[p], claimed[p], row[p], target, at, op>>
    BY <1>2, CreateEffect
  <2> QED BY <2>1 DEF Holds
<1> QED BY <1>1, <1>2 DEF Holds, RowHolds

LEMMA BeginHolds ==
    ASSUME IInv, SerialOK, OneCallPerOrder, NEW s \in Slots, NEW o \in Orders,
           NEW what \in Ops \ {"none"}, NEW given, Begin(s, what, o, given), NEW d, NEW p \in Orders
    PROVE  Holds(p, d)' <=> Holds(p, d)
<1>1. /\ UNCHANGED <<row, step, claimed>>
      /\ \A t \in Slots : t # s => UNCHANGED <<op[t], target[t], at[t]>>
      /\ \A t \in Slots : target[t] # o
      /\ op'[s] = what /\ at'[s] = First(what) /\ target'[s] = o /\ target[s] = NoOrder
  BY BeginEffect DEF SerialOK
<1>2. at'[s] = "write" => op'[s] \notin {"cancel", "complete"}
  <2>1. First("cancel") # "write" /\ First("complete") # "write"
    BY DEF First
  <2> QED BY <1>1, <2>1
<1>3. NoOrder \notin Orders
  BY OrderServiceAssumption
<1>4. ASSUME NEW t \in Slots
      PROVE  (target'[t] = p /\ at'[t] = "write" => op'[t] \notin {"cancel", "complete"})
                 <=> (target[t] = p /\ at[t] = "write" => op[t] \notin {"cancel", "complete"})
  <2>1. CASE t = s
    BY <1>1, <1>2, <1>3, <2>1
  <2>2. CASE t # s
    BY <1>1, <2>2
  <2> QED BY <2>1, <2>2
<1> QED BY <1>1, <1>4 DEF Holds

(* The row of a driver in hand, and what a release does to the pool. *)
LEMMA ReleasedDriver ==
    ASSUME IInv, SerialOK, NEW s \in Slots, CallRelease(s), NEW o \in Orders, o = target[s],
           NEW d \in Drivers, pool'[d] # pool[d]
    PROVE  pool'[d] = "available" /\ Holds(o, d)
<1>1. /\ at[s] = "release" /\ SerialCall(s) /\ row \in [Orders -> Row]
      /\ pool \in [Drivers -> PoolStatuses]
      /\ pool' = pool \/ pool' = [pool EXCEPT ![seen[s].driver] = "available"]
  BY DEF CallRelease, ReleaseDriver, SerialOK, IInv, TypeOK
<1>2. d = row[o].driver /\ pool'[d] = "available"
  BY <1>1 DEF SerialCall
<1>3. row[o].status \in {"driver_assigned", "in_progress"}
  BY <1>1, <1>2, OrderServiceAssumption DEF SerialCall, Allowed, SerialOK
<1> QED BY <1>1, <1>2, <1>3, HoldsWhileCalled DEF RowHolds, Releasing

NoHoldFaults == Faults \cap {"db", "process"} = {} /\ "available" \notin SelfSet

LEMMA HeldStays ==
    ASSUME HeldOnce,
           \A d \in Drivers, o \in Orders :
               Holds(o, d)' => Holds(o, d) /\ (pool'[d] = pool[d] \/ pool'[d] # "available")
    PROVE  HeldOnce'
BY DEF HeldOnce

LEMMA CreateHeld ==
    ASSUME NoHoldFaults, IInv, SerialOK, NoRelease, HeldOnce, NEW o \in Orders, CreateOrder(o)
    PROVE  NoRelease' /\ HeldOnce'
<1>0. /\ row \in [Orders -> Row] /\ step \in [Orders -> Steps] /\ pool \in [Drivers -> PoolStatuses]
      /\ claimed \in [Orders -> Drivers \cup {NoDriver}]
      /\ step[o] # "release" /\ "db" \notin Faults /\ NoDriver \notin Drivers
  BY OrderServiceAssumption DEF IInv, TypeOK, NoRelease, NoHoldFaults
<1>1. NoRelease'
  <2>1. step'[o] # "release"
    BY <1>0 DEF CreateOrder, CreateCharge, CreateInsert, CreateRefund, CreateIndex,
                CreateClaim, CreateAssign, CreateRelease, CreatePublish, Goto, Return, Ends
  <2> QED BY <2>1, CreateEffect DEF NoRelease
<1>2. CASE CreateClaim(o)
  <2>1. step[o] = "claim" /\ row' = row /\ row[o] = InsertedRow
    BY <1>2 DEF CreateClaim, SerialOK
  <2>2. \A d : ~RowHolds(row'[o], d)
    BY <2>1, InsertedIsFresh DEF RowHolds
  <2>3. CASE step'[o] # "assign"
    <3>1. pool' = pool \/ \E d \in Drivers : pool' = [pool EXCEPT ![d] = "on-trip"]
      BY <1>2 DEF CreateClaim, Claimable
    <3>2. \A d \in Drivers : pool'[d] = pool[d] \/ pool'[d] # "available"
      BY <1>0, <3>1
    <3>3. \A d \in Drivers : ~Holds(o, d)'
      BY <1>1, <2>2, <2>3, CreateHolds DEF NoRelease
    <3> QED BY <1>1, <3>2, <3>3, CreateHolds, HeldStays
  <2>4. CASE step'[o] = "assign"
    <3>1. PICK d \in Drivers : /\ pool[d] = "available" /\ pool' = [pool EXCEPT ![d] = "on-trip"]
                               /\ claimed' = [claimed EXCEPT ![o] = d]
      BY <1>0, <1>2, <2>4 DEF CreateClaim, Claimable, Goto
    <3>2. \A p \in Orders : ~Holds(p, d)
      BY <3>1 DEF HeldOnce
    <3>3. \A x \in Drivers : Holds(o, x)' => x = d
      BY <1>0, <2>2, <3>1, CreateHolds
    <3>4. \A x \in Drivers : x # d => pool'[x] = pool[x]
      BY <1>0, <3>1
    <3>5. pool'[d] # "available"
      BY <1>0, <3>1
    <3>6. \A x \in Drivers, p \in Orders : Holds(p, x)' => (p = o /\ x = d) \/ (Holds(p, x) /\ x # d)
      BY <3>2, <3>3, CreateHolds
    <3> QED BY <1>1, <3>4, <3>5, <3>6 DEF HeldOnce
  <2> QED BY <2>3, <2>4
<1>3. CASE ~CreateClaim(o)
  <2>1. pool' = pool
    BY <1>0, <1>3 DEF CreateOrder, CreateCharge, CreateInsert, CreateRefund, CreateIndex,
                CreateAssign, CreateRelease, CreatePublish, outside
  <2>2. step'[o] # "assign"
    BY <1>0, <1>3 DEF CreateOrder, CreateCharge, CreateInsert, CreateRefund, CreateIndex,
                CreateAssign, CreateRelease, CreatePublish, Goto, Return
  <2>3. ASSUME NEW d \in Drivers, RowHolds(row'[o], d) PROVE Holds(o, d)
    <3>1. CASE row'[o] = row[o]
      BY <2>3, <3>1, CreateEffect, HoldsWhileCreated
    <3>2. CASE row'[o] = InsertedRow
      BY <2>3, <3>2, InsertedIsFresh DEF RowHolds
    <3>3. CASE step[o] = "assign" /\ row'[o] = Assigned(row[o], claimed[o])
      <4>1. claimed[o] \in Drivers
        BY <3>3 DEF IInv, CreationOK
      <4>2. d = claimed[o]
        BY <1>0, <2>3, <3>3, <4>1, AssignedIsRow DEF RowHolds
      <4> QED BY <3>3, <4>2 DEF Holds
    <3> QED BY <3>1, <3>2, <3>3, CreateEffect
  <2>4. \A d \in Drivers, p \in Orders : Holds(p, d)' => Holds(p, d)
    BY <1>1, <2>2, <2>3, CreateHolds DEF NoRelease
  <2> QED BY <1>1, <2>1, <2>4, HeldStays
<1> QED BY <1>2, <1>3

LEMMA CallHeld ==
    ASSUME NoHoldFaults, IInv, SerialOK, NoRelease, HeldOnce, NEW s \in Slots, Continue(s)
    PROVE  NoRelease' /\ HeldOnce'
<1> PICK o \in Orders : o = target[s]
  BY CallEffect
<1>0. /\ row \in [Orders -> Row] /\ at \in [Slots -> Places] /\ SerialCall(s) /\ at[s] # "idle"
      /\ "db" \notin Faults
  BY CallEffect DEF IInv, TypeOK, SerialOK, NoHoldFaults
<1>1. NoRelease'
  BY CallEffect DEF NoRelease
<1>2. CASE CallRelease(s)
  <2>1. row' = row /\ at[s] = "release" /\ Releasing(s)'
    BY <1>0, <1>2 DEF CallRelease, Move, Releasing, SerialCall
  <2>2. \A d \in Drivers : ~Holds(o, d)'
    BY <2>1, CallHolds
  <2>3. ASSUME NEW d \in Drivers, NEW p \in Orders, Holds(p, d)'
        PROVE  Holds(p, d) /\ pool'[d] = pool[d]
    <3>1. p # o /\ Holds(p, d)
      BY <2>1, <2>2, <2>3, CallHolds
    <3>2. pool'[d] # pool[d] => Holds(o, d)
      BY <1>2, ReleasedDriver
    <3> QED BY <3>1, <3>2 DEF HeldOnce
  <2> QED BY <1>1, <2>3, HeldStays
<1>3. CASE CallWrite(s)
  <2>1. /\ at[s] = "write" /\ pool' = pool /\ at'[s] # "write"
        /\ row' = [row EXCEPT ![o] = Written(s, row[o])]
    BY <1>0, <1>3, CallWriteEffect
  <2>2. ASSUME NEW d \in Drivers, RowHolds(row'[o], d) PROVE RowHolds(row[o], d) /\ ~Releasing(s)
    BY <1>0, <2>1, <2>2, WrittenForward DEF RowHolds, Releasing
  <2>3. \A d \in Drivers, p \in Orders : Holds(p, d)' => Holds(p, d)
    BY <1>0, <2>1, <2>2, CallHolds, HoldsWhileCalled
  <2> QED BY <1>1, <2>1, <2>3, HeldStays
<1>4. CASE CancelRefund(s) \/ CallIndex(s) \/ RatePublish(s)
  <2>1. row' = row /\ pool' = pool /\ ~Releasing(s)
    BY <1>4 DEF CancelRefund, CallIndex, RatePublish, outside, Releasing
  <2>2. \A d \in Drivers, p \in Orders : Holds(p, d)' => Holds(p, d)
    BY <1>0, <2>1, CallHolds, HoldsWhileCalled
  <2> QED BY <1>1, <2>1, <2>2, HeldStays
<1> QED BY <1>2, <1>3, <1>4 DEF Continue

LEMMA NextHeld ==
    ASSUME NoHoldFaults
    PROVE  IInv /\ SerialOK /\ NoRelease /\ HeldOnce /\ [Next /\ OneCallPerOrder]_vars
               => NoRelease' /\ HeldOnce'
<1> SUFFICES ASSUME IInv, SerialOK, NoRelease, HeldOnce, [Next /\ OneCallPerOrder]_vars
             PROVE  NoRelease' /\ HeldOnce'
  OBVIOUS
<1>1. CASE Next /\ OneCallPerOrder
  <2>1. ASSUME NEW s \in Slots, BeginCancel(s) \/ BeginStart(s) \/ BeginComplete(s) \/ BeginRate(s)
        PROVE  NoRelease' /\ HeldOnce'
    <3>1. PICK what \in Ops \ {"none"}, o \in Orders : \E given : Begin(s, what, o, given)
      BY <2>1 DEF BeginCancel, BeginStart, BeginComplete, BeginRate, Ops
    <3>2. UNCHANGED <<step, pool>>
      BY <1>1, <3>1, BeginEffect
    <3>3. \A d \in Drivers, p \in Orders : Holds(p, d)' <=> Holds(p, d)
      BY <1>1, <3>1, BeginHolds
    <3> QED BY <3>2, <3>3, HeldStays DEF NoRelease
  <2>2. ASSUME NEW x \in Drivers, DriverSetsStatus(x) PROVE NoRelease' /\ HeldOnce'
    <3>1. UNCHANGED <<row, step, claimed, op, target, at>>
      BY <2>2 DEF DriverSetsStatus, creation, calls
    <3>2. \A d \in Drivers : pool'[d] = pool[d] \/ pool'[d] # "available"
      BY <2>2 DEF DriverSetsStatus, NoHoldFaults, IInv, TypeOK
    <3>3. \A d \in Drivers, p \in Orders : Holds(p, d)' <=> Holds(p, d)
      BY <3>1 DEF Holds
    <3> QED BY <3>1, <3>2, <3>3, HeldStays DEF NoRelease
  <2>3. ~Crash
    BY DEF Crash, NoHoldFaults
  <2> QED BY <1>1, <2>1, <2>2, <2>3, CreateHeld, CallHeld DEF Next
<1>2. CASE UNCHANGED vars
  BY <1>2 DEF vars, NoRelease, HeldOnce, Holds
<1> QED BY <1>1, <1>2

(* CompleteTrip and CancelOrder release the driver before they write the     *)
(* row, and AssignDriver assigns one without looking: with one call at a     *)
(* time on an order, a driver still serves one order at most, as long as     *)
(* rows are written and drivers do not call themselves available.            *)
THEOREM OneOrderForEachDriver == ASSUME NoHoldFaults PROVE SerialSpec => []OneOrderPerDriver
<1>1. Init => NoRelease /\ HeldOnce
  <2> SUFFICES ASSUME Init PROVE \A o \in Orders : step[o] = "new" /\ \A d : ~Holds(o, d)
    BY DEF NoRelease, HeldOnce
  <2> QED BY DEF Init, NoRow, Holds
<1>2. IInv /\ HeldOnce => OneOrderPerDriver
  BY DEF HeldOnce, OneOrderPerDriver, Serving, Holds
<1> QED BY <1>1, <1>2, SerialInvariant, NextHeld, PTL DEF SerialSpec

NoTripFaults == Faults \cap {"driver", "process"} = {} /\ "on-trip" \notin SelfSet

LEMMA OnTripStays ==
    ASSUME OnTripIsHeld,
           \A d \in Drivers : pool'[d] = "on-trip" =>
               \/ \E o \in Orders : Holds(o, d)'
               \/ pool[d] = "on-trip" /\ \A o \in Orders : Holds(o, d) => Holds(o, d)'
    PROVE  OnTripIsHeld'
BY DEF OnTripIsHeld

LEMMA CreateOnTrip ==
    ASSUME NoTripFaults, IInv, SerialOK, OnTripIsHeld, NEW o \in Orders, CreateOrder(o)
    PROVE  OnTripIsHeld'
<1>0. /\ row \in [Orders -> Row] /\ step \in [Orders -> Steps] /\ pool \in [Drivers -> PoolStatuses]
      /\ claimed \in [Orders -> Drivers \cup {NoDriver}]
      /\ "driver" \notin Faults /\ step[o] \notin {"done", "failed"}
  BY CreateEffect DEF IInv, TypeOK, NoTripFaults
<1>1. ASSUME NEW d \in Drivers, pool'[d] = "on-trip", Holds(o, d) => Holds(o, d)',
             pool'[d] = pool[d]
      PROVE  \/ \E p \in Orders : Holds(p, d)'
             \/ pool[d] = "on-trip" /\ \A p \in Orders : Holds(p, d) => Holds(p, d)'
  BY <1>1, CreateHolds
<1>2. CASE CreateClaim(o)
  <2>1. /\ step[o] = "claim" /\ row' = row
        /\ \/ pool' = pool
           \/ \E d \in Drivers : /\ pool' = [pool EXCEPT ![d] = "on-trip"] /\ step'[o] = "assign"
                                 /\ claimed' = [claimed EXCEPT ![o] = d]
    BY <1>0, <1>2 DEF CreateClaim, Claimable, Goto, Ends
  <2>2. \A d \in Drivers : Holds(o, d) => Holds(o, d)'
    BY <1>0, <2>1, CreateHolds, HoldsWhileCreated
  <2>3. \A d \in Drivers : pool'[d] = pool[d] \/ Holds(o, d)'
    BY <1>0, <2>1, CreateHolds
  <2> QED BY <1>1, <2>2, <2>3, OnTripStays
<1>3. CASE CreateAssign(o)
  <2>1. /\ step[o] = "assign" /\ pool' = pool /\ claimed' = claimed /\ claimed[o] \in Drivers
        /\ row[o] = InsertedRow
        /\ step'[o] = "release" \/ row'[o] = Assigned(row[o], claimed[o])
    BY <1>0, <1>3 DEF CreateAssign, Goto, Ends, outside, IInv, CreationOK, SerialOK
  <2>2. ASSUME NEW d \in Drivers, Holds(o, d) PROVE Holds(o, d)'
    <3>1. d = claimed[o]
      BY <1>0, <2>1, <2>2, HoldsWhileCreated, InsertedIsFresh DEF RowHolds
    <3>2. row'[o] = Assigned(row[o], claimed[o]) => RowHolds(row'[o], d)
      BY <1>0, <2>1, <3>1, AssignedIsRow DEF RowHolds
    <3> QED BY <2>1, <3>1, <3>2, CreateHolds
  <2> QED BY <1>1, <2>1, <2>2, OnTripStays
<1>4. CASE CreateRelease(o)
  <2>1. /\ step[o] = "release" /\ row' = row /\ pool' = [pool EXCEPT ![claimed[o]] = "available"]
    BY <1>4 DEF CreateRelease, ReleaseDriver, Ends, NoTripFaults
  <2>2. ASSUME NEW d \in Drivers, pool'[d] = "on-trip"
        PROVE  pool'[d] = pool[d] /\ (Holds(o, d) => Holds(o, d)')
    <3>1. pool'[d] = pool[d] /\ d # claimed[o]
      BY <1>0, <2>1, <2>2
    <3> QED BY <1>0, <2>1, <3>1, CreateHolds, HoldsWhileCreated
  <2> QED BY <1>1, <2>2, OnTripStays
<1>5. CASE CreateInsert(o)
  <2>1. step[o] = "insert" /\ pool' = pool /\ row[o].driver = NoDriver
    BY <1>5 DEF CreateInsert, outside, IInv, CreationOK
  <2>2. \A d \in Drivers : ~Holds(o, d)
    BY <1>0, <2>1, HoldsWhileCreated, OrderServiceAssumption DEF RowHolds
  <2> QED BY <1>1, <2>1, <2>2, OnTripStays
<1>6. CASE CreateCharge(o) \/ CreateRefund(o) \/ CreateIndex(o) \/ CreatePublish(o)
  <2>1. row' = row /\ pool' = pool /\ step[o] \notin {"assign", "release"}
    BY <1>6 DEF CreateCharge, CreateRefund, CreateIndex, CreatePublish, outside
  <2>2. \A d \in Drivers : Holds(o, d) => Holds(o, d)'
    BY <1>0, <2>1, CreateHolds, HoldsWhileCreated
  <2> QED BY <1>1, <2>1, <2>2, OnTripStays
<1> QED BY <1>2, <1>3, <1>4, <1>5, <1>6 DEF CreateOrder

LEMMA CallOnTrip ==
    ASSUME NoTripFaults, IInv, SerialOK, OnTripIsHeld, NEW s \in Slots, Continue(s)
    PROVE  OnTripIsHeld'
<1> PICK o \in Orders : o = target[s]
  BY CallEffect
<1>0. /\ row \in [Orders -> Row] /\ at \in [Slots -> Places] /\ pool \in [Drivers -> PoolStatuses]
      /\ SerialCall(s) /\ at[s] # "idle" /\ "driver" \notin Faults
  BY CallEffect DEF IInv, TypeOK, SerialOK, NoTripFaults
<1>1. ASSUME NEW d \in Drivers, pool'[d] = "on-trip", Holds(o, d) => Holds(o, d)',
             pool'[d] = pool[d], \A p \in Orders : p # o => row'[p] = row[p]
      PROVE  pool[d] = "on-trip" /\ \A p \in Orders : Holds(p, d) => Holds(p, d)'
  BY <1>0, <1>1, CallHolds
<1>2. CASE CallRelease(s)
  <2>1. row' = row /\ pool' = [pool EXCEPT ![row[o].driver] = "available"]
    BY <1>0, <1>2 DEF CallRelease, ReleaseDriver, Ends, SerialCall
  <2>2. ASSUME NEW d \in Drivers, pool'[d] = "on-trip"
        PROVE  pool'[d] = pool[d] /\ ~Holds(o, d)
    <3>1. pool'[d] = pool[d] /\ d # row[o].driver
      BY <1>0, <2>1, <2>2
    <3> QED BY <1>0, <3>1, HoldsWhileCalled DEF RowHolds
  <2> QED BY <1>1, <2>1, <2>2, OnTripStays
<1>3. CASE CallWrite(s)
  <2>1. /\ at[s] = "write" /\ pool' = pool /\ at'[s] # "write"
        /\ row' = row \/ row' = [row EXCEPT ![o] = Written(s, row[o])]
    BY <1>0, <1>3, CallWriteEffect
  <2>2. \A d : RowHolds(row[o], d) /\ ~Releasing(s) => RowHolds(row'[o], d)
    BY <1>0, <2>1, WrittenForward DEF RowHolds, Releasing
  <2>3. \A d \in Drivers : Holds(o, d) => Holds(o, d)'
    BY <1>0, <2>1, <2>2, CallHolds, HoldsWhileCalled DEF Releasing
  <2>4. \A p \in Orders : p # o => row'[p] = row[p]
    BY <1>0, <2>1
  <2> QED BY <1>1, <2>1, <2>3, <2>4, OnTripStays
<1>4. CASE CancelRefund(s) \/ CallIndex(s) \/ RatePublish(s)
  <2>1. row' = row /\ pool' = pool
    BY <1>4 DEF CancelRefund, CallIndex, RatePublish, outside
  <2>2. at'[s] = "write" => row[o].driver = NoDriver
    <3>1. \/ Leave(s) \/ Move(s, "release") \/ Move(s, "publish")
          \/ Move(s, "write") /\ seen[s].driver = NoDriver
      BY <1>4 DEF CancelRefund, CallIndex, RatePublish
    <3>2. at'[s] = "write" => seen[s].driver = NoDriver
      BY <1>0, <3>1 DEF Leave, Move
    <3> QED BY <1>0, <3>2 DEF SerialCall
  <2>3. ASSUME NEW d \in Drivers, Holds(o, d) PROVE Holds(o, d)'
    <3>1. RowHolds(row[o], d)
      BY <1>0, <2>3, HoldsWhileCalled
    <3>2. at'[s] # "write"
      BY <2>2, <3>1, OrderServiceAssumption DEF RowHolds
    <3>3. RowHolds(row'[o], d) /\ ~Releasing(s)'
      BY <2>1, <3>1, <3>2 DEF RowHolds, Releasing
    <3> QED BY <1>0, <3>3, CallHolds
  <2> QED BY <1>1, <2>1, <2>3, OnTripStays
<1> QED BY <1>2, <1>3, <1>4 DEF Continue

LEMMA NextOnTrip ==
    ASSUME NoTripFaults
    PROVE  IInv /\ SerialOK /\ OnTripIsHeld /\ [Next /\ OneCallPerOrder]_vars => OnTripIsHeld'
<1> SUFFICES ASSUME IInv, SerialOK, OnTripIsHeld, [Next /\ OneCallPerOrder]_vars
             PROVE  OnTripIsHeld'
  OBVIOUS
<1>1. CASE Next /\ OneCallPerOrder
  <2>1. ASSUME NEW s \in Slots, BeginCancel(s) \/ BeginStart(s) \/ BeginComplete(s) \/ BeginRate(s)
        PROVE  OnTripIsHeld'
    <3>1. PICK what \in Ops \ {"none"}, o \in Orders : \E given : Begin(s, what, o, given)
      BY <2>1 DEF BeginCancel, BeginStart, BeginComplete, BeginRate, Ops
    <3>2. pool' = pool
      BY <1>1, <3>1, BeginEffect
    <3>3. \A d \in Drivers, p \in Orders : Holds(p, d)' <=> Holds(p, d)
      BY <1>1, <3>1, BeginHolds
    <3> QED BY <3>2, <3>3, OnTripStays
  <2>2. ASSUME NEW x \in Drivers, DriverSetsStatus(x) PROVE OnTripIsHeld'
    <3>1. UNCHANGED <<row, step, claimed, op, target, at>>
      BY <2>2 DEF DriverSetsStatus, creation, calls
    <3>2. \A d \in Drivers : pool'[d] = pool[d] \/ pool'[d] # "on-trip"
      BY <2>2 DEF DriverSetsStatus, NoTripFaults, IInv, TypeOK
    <3>3. \A d \in Drivers, p \in Orders : Holds(p, d)' <=> Holds(p, d)
      BY <3>1 DEF Holds
    <3> QED BY <3>2, <3>3, OnTripStays
  <2>3. ~Crash
    BY DEF Crash, NoTripFaults
  <2> QED BY <1>1, <2>1, <2>2, <2>3, CreateOnTrip, CallOnTrip DEF Next
<1>2. CASE UNCHANGED vars
  BY <1>2 DEF vars, OnTripIsHeld, Holds
<1> QED BY <1>1, <1>2

(* A cancelled order leaves no driver on-trip behind: with one call at a     *)
(* time on an order it takes a release or a claim that fails, a crash, or a  *)
(* driver who says so for one to stay on-trip without an order, whatever     *)
(* else fails.                                                               *)
THEOREM CancelReleases == ASSUME NoTripFaults PROVE SerialSpec => []CancelReleasesDriver
<1>1. Init => OnTripIsHeld
  BY DEF Init, OnTripIsHeld
<1>2. IInv /\ OnTripIsHeld => CancelReleasesDriver
  <2> SUFFICES ASSUME IInv, OnTripIsHeld, NEW o \in Orders, \A p \in Orders : Quiet(p),
                      row[o].driver # NoDriver, pool[row[o].driver] = "on-trip"
               PROVE  \E p \in Orders : /\ row[p].driver = row[o].driver
                                        /\ row[p].status \in {"driver_assigned", "in_progress"}
    BY DEF CancelReleasesDriver
  <2>1. row[o].driver \in Drivers
    BY DEF IInv, TypeOK, Row
  <2>2. PICK p \in Orders : Holds(p, row[o].driver)
    BY <2>1 DEF OnTripIsHeld
  <2> QED BY <2>2 DEF Holds, Quiet
<1> QED BY <1>1, <1>2, SerialInvariant, NextOnTrip, PTL DEF SerialSpec

-----------------------------------------------------------------------------
(***************************************************************************)
(* Money: balances are sums of ledger rows.                                *)
(***************************************************************************)

(* The riders' shares of the ledger are Moved, and integers. *)
LEMMA MovedIsInt ==
    ASSUME LedgerTypeOK
    PROVE  \A o \in Orders : Moved[o] = Price[o] * (credits[o] - debits[o]) /\ Moved[o] \in Int
<1>1. ASSUME NEW o \in Orders PROVE Price[o] \in Int /\ credits[o] - debits[o] \in Int
  BY LedgerAssumption DEF LedgerTypeOK
<1>2. \A x, y \in Int : x * y \in Int
  OBVIOUS
<1> QED BY <1>1, <1>2 DEF Moved

(* A row of one order moves its rider's balance, and the sum of the rows, by *)
(* its price.                                                                *)
LEMMA OneRowMoves ==
    ASSUME IsFiniteSet(Orders), LedgerTypeOK, LedgerTypeOK', BalanceIsLedgerSum,
           NEW o \in Orders, NEW n \in Int,
           balance' = [balance EXCEPT ![Rider[o]] = @ + n],
           Moved'[o] = Moved[o] + n, \A p \in Orders \ {o} : Moved'[p] = Moved[p]
    PROVE  BalanceIsLedgerSum'
<1> DEFINE Of(u) == {p \in Orders : Rider[p] = u}
           Sum(u) == SumFunctionOnSet(Moved, Of(u))
           Sum1(u) == SumFunctionOnSet(Moved', Of(u))
<1> SUFFICES ASSUME NEW u \in Users PROVE balance'[u] = InitialBalance[u] + Sum1(u)
  BY DEF BalanceIsLedgerSum
<1>1. /\ IsFiniteSet(Of(u)) /\ \A p \in Of(u) : p \in Orders
      /\ \A p \in Orders : Moved[p] \in Int /\ Moved'[p] \in Int
  <2>1. IsFiniteSet(Of(u))
    BY FS_Subset
  <2>2. \A p \in Orders : Moved'[p] \in Int
    BY MovedIsInt, LedgerAssumption DEF LedgerTypeOK, Moved
  <2> QED BY <2>1, <2>2, MovedIsInt
<1>2. balance[u] = InitialBalance[u] + Sum(u) /\ InitialBalance[u] \in Int /\ Sum(u) \in Int
  <2>1. Sum(u) \in Int
    BY <1>1, SumIsInt
  <2> QED BY <2>1, LedgerAssumption DEF BalanceIsLedgerSum
<1>3. CASE Rider[o] = u
  <2>1. Sum1(u) = Sum(u) + (Moved'[o] - Moved[o])
    <3>1. o \in Of(u) /\ \A p \in Of(u) \ {o} : Moved[p] = Moved'[p]
      BY <1>1, <1>3
    <3> HIDE DEF Of
    <3> QED BY <1>1, <3>1, SumChange
  <2>2. balance'[u] = balance[u] + n
    BY <1>3 DEF LedgerTypeOK
  <2>3. Moved'[o] - Moved[o] = n
    BY <1>1
  <2> HIDE DEF Sum, Sum1
  <2> QED BY <1>2, <2>1, <2>2, <2>3
<1>4. CASE Rider[o] # u
  <2>1. Sum1(u) = Sum(u)
    <3>1. \A p \in Of(u) : Moved'[p] = Moved[p]
      BY <1>1, <1>4
    <3> HIDE DEF Of
    <3> QED BY <1>1, <3>1, SumSame
  <2>2. balance'[u] = balance[u]
    BY <1>4 DEF LedgerTypeOK
  <2> QED BY <1>2, <2>1, <2>2
<1> QED BY <1>3, <1>4

(* Whoever charges and refunds through the ledger finds it balanced: each    *)
(* wallet holds what it held at first and what its rows add up to, for any   *)
(* number of riders, orders and prices.                                      *)
THEOREM LedgerBalances ==
    ASSUME IsFiniteSet(Orders)
    PROVE  LedgerSpec => [](LedgerTypeOK /\ BalanceIsLedgerSum)
<1>1. LedgerInit => LedgerTypeOK /\ BalanceIsLedgerSum
  <2> SUFFICES ASSUME LedgerInit PROVE LedgerTypeOK /\ BalanceIsLedgerSum
    OBVIOUS
  <2>1. LedgerTypeOK
    BY LedgerAssumption DEF LedgerInit, LedgerTypeOK
  <2>2. ASSUME NEW u \in Users PROVE SumFunctionOnSet(Moved, {o \in Orders : Rider[o] = u}) = 0
    <3> DEFINE Of == {o \in Orders : Rider[o] = u}
               Zero == [o \in Orders |-> 0]
    <3>1. \A o \in Of : Moved[o] = Zero[o]
      BY LedgerAssumption DEF LedgerInit, Moved
    <3>2. IsFiniteSet(Of)
      BY FS_Subset
    <3>3. SumFunctionOnSet(Zero, Of) = 0
      <4>1. \A o \in Of : Zero[o] = 0
        OBVIOUS
      <4> HIDE DEF Of, Zero
      <4> QED BY <3>2, <4>1, SumOfZeros
    <3> HIDE DEF Of, Zero
    <3>4. SumFunctionOnSet(Moved, Of) = 0
      BY <3>1, <3>2, <3>3, SumSame
    <3> QED BY <3>4 DEF Of
  <2>3. BalanceIsLedgerSum
    BY <2>2, LedgerAssumption DEF LedgerInit, BalanceIsLedgerSum
  <2> QED BY <2>1, <2>3
<1>2. LedgerTypeOK /\ BalanceIsLedgerSum /\ [LedgerNext]_ledgerVars
         => (LedgerTypeOK /\ BalanceIsLedgerSum)'
  <2> SUFFICES ASSUME LedgerTypeOK, BalanceIsLedgerSum, [LedgerNext]_ledgerVars
               PROVE  LedgerTypeOK' /\ BalanceIsLedgerSum'
    OBVIOUS
  <2>1. CASE UNCHANGED ledgerVars
    BY <2>1 DEF ledgerVars, LedgerTypeOK, BalanceIsLedgerSum, Moved
  <2>2. ASSUME NEW o \in Orders, Charge(o), ~UNCHANGED ledgerVars
        PROVE  LedgerTypeOK' /\ BalanceIsLedgerSum'
    <3>1. /\ debits[o] = 0 /\ credits' = credits
          /\ balance' = [balance EXCEPT ![Rider[o]] = @ - Price[o]]
          /\ debits' = [debits EXCEPT ![o] = @ + 1]
      BY <2>2 DEF Charge, ledgerVars, LedgerTypeOK
    <3>2. LedgerTypeOK'
      BY <2>2, <3>1, ChargeEffect
    <3>3. Moved'[o] = Moved[o] - Price[o] /\ \A p \in Orders \ {o} : Moved'[p] = Moved[p]
      <4>1. \A x, y, z \in Int : x * (y - (z + 1)) = x * (y - z) - x
        BY SMTT(30)
      <4>2. Price[o] \in Int /\ credits[o] \in Int /\ debits[o] \in Int
        BY LedgerAssumption DEF LedgerTypeOK
      <4>3. debits'[o] = debits[o] + 1 /\ \A p \in Orders \ {o} : debits'[p] = debits[p]
        BY <3>1 DEF LedgerTypeOK
      <4> QED BY <3>1, <4>1, <4>2, <4>3 DEF Moved
    <3>4. balance[Rider[o]] \in Int /\ Price[o] \in Int /\ Rider[o] \in Users
      BY LedgerAssumption DEF LedgerTypeOK
    <3>5. balance' = [balance EXCEPT ![Rider[o]] = @ + (-Price[o])]
      BY <3>1, <3>4
    <3>6. Moved'[o] = Moved[o] + (-Price[o]) /\ -Price[o] \in Int
      BY <3>3, <3>4, MovedIsInt
    <3> QED BY <3>2, <3>3, <3>5, <3>6, OneRowMoves
  <2>3. ASSUME NEW o \in Orders, Refund(o), ~UNCHANGED ledgerVars
        PROVE  LedgerTypeOK' /\ BalanceIsLedgerSum'
    <3>1. /\ credits[o] = 0 /\ debits' = debits
          /\ balance' = [balance EXCEPT ![Rider[o]] = @ + Price[o]]
          /\ credits' = [credits EXCEPT ![o] = @ + 1]
      BY <2>3 DEF Refund, ledgerVars, LedgerTypeOK
    <3>2. LedgerTypeOK'
      BY <2>3, <3>1, RefundEffect
    <3>3. Moved'[o] = Moved[o] + Price[o] /\ \A p \in Orders \ {o} : Moved'[p] = Moved[p]
      <4>1. \A x, y, z \in Int : x * ((y + 1) - z) = x * (y - z) + x
        BY SMTT(30)
      <4>2. Price[o] \in Int /\ credits[o] \in Int /\ debits[o] \in Int
        BY LedgerAssumption DEF LedgerTypeOK
      <4>3. credits'[o] = credits[o] + 1 /\ \A p \in Orders \ {o} : credits'[p] = credits[p]
        BY <3>1 DEF LedgerTypeOK
      <4> QED BY <3>1, <4>1, <4>2, <4>3 DEF Moved
    <3>4. Price[o] \in Int
      BY LedgerAssumption
    <3> QED BY <3>1, <3>2, <3>3, <3>4, OneRowMoves
  <2> QED BY <2>1, <2>2, <2>3 DEF LedgerNext
<1> QED BY <1>1, <1>2, PTL DEF LedgerSpec

(* order_service moves money by charges and refunds alone, each by the       *)
(* order's id: retries and failures in between are steps of the ledger or    *)
(* none.                                                                     *)
THEOREM UsesLedger == Spec => LedgerSpec
<1>1. Init => LedgerInit
  BY DEF Init
<1>2. IInv /\ [Next]_vars => [LedgerNext]_ledgerVars
  <2> SUFFICES ASSUME IInv, [Next]_vars PROVE UNCHANGED ledgerVars \/ LedgerNext
    OBVIOUS
  <2>1. ASSUME NEW o \in Orders, CreateOrder(o) PROVE UNCHANGED ledgerVars \/ LedgerNext
    BY <2>1 DEF CreateOrder, CreateCharge, CreateInsert, CreateRefund, CreateIndex, CreateClaim,
                CreateAssign, CreateRelease, CreatePublish, LedgerNext
  <2>2. ASSUME NEW s \in Slots, BeginCancel(s) \/ BeginStart(s) \/ BeginComplete(s) \/ BeginRate(s)
        PROVE  UNCHANGED ledgerVars
    BY <2>2 DEF BeginCancel, BeginStart, BeginComplete, BeginRate, Begin
  <2>3. ASSUME NEW s \in Slots, Continue(s) PROVE UNCHANGED ledgerVars \/ LedgerNext
    <3>1. CASE CancelRefund(s)
      <4>1. target[s] \in Orders
        BY <3>1 DEF CancelRefund, IInv, CallsOK, CallOK
      <4> QED BY <3>1, <4>1 DEF CancelRefund, LedgerNext
    <3>2. CASE CallRelease(s) \/ CallWrite(s) \/ CallIndex(s) \/ RatePublish(s)
      BY <3>2 DEF CallRelease, CallWrite, CallIndex, RatePublish
    <3> QED BY <2>3, <3>1, <3>2 DEF Continue
  <2>4. ASSUME NEW d \in Drivers, DriverSetsStatus(d) PROVE UNCHANGED ledgerVars
    BY <2>4 DEF DriverSetsStatus
  <2>5. ASSUME Crash \/ UNCHANGED vars PROVE UNCHANGED ledgerVars
    BY <2>5 DEF Crash, vars, ledgerVars
  <2> QED BY <2>1, <2>2, <2>3, <2>4, <2>5 DEF Next
<1> QED BY <1>1, <1>2, InductiveInvariant, PTL DEF Spec, LedgerSpec

(* No interleaving of charges and refunds, retried or overlapping, loses or  *)
(* makes money: a sum over all the orders of a rider, however many.          *)
THEOREM BalancesCorrect == ASSUME IsFiniteSet(Orders) PROVE Spec => []BalanceIsLedgerSum
BY LedgerBalances, UsesLedger, PTL
=============================================================================
