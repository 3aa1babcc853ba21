------------------------------- MODULE Ledger -------------------------------
(***************************************************************************)
(* What wallet_service promises its callers: a charge or a refund is one   *)
(* atomic step, idempotent by reference_id.  The references are order ids, *)
(* so a reference fixes the wallet (its rider's) and the amount (its       *)
(* price).  order_service is specified on top of this module.              *)
(***************************************************************************)
EXTENDS Integers, Functions

CONSTANTS Orders,          \* order ids, the references of charges and refunds
          Users,           \* riders, the owners of the wallets
          Rider,           \* Rider[o]: whose wallet order o moves money in
          Price,           \* Price[o]: minor units charged or refunded for o
          InitialBalance   \* InitialBalance[u]: what the wallet of u holds at first

(* Charge and Refund turn away amounts that are not positive. *)
ASSUME LedgerAssumption ==
    /\ Rider \in [Orders -> Users]
    /\ Price \in [Orders -> Nat \ {0}]
    /\ InitialBalance \in [Users -> Nat]

VARIABLES balance,   \* balance[u]: wallets.balance
          debits,    \* debits[o]: number of debit rows with reference_id o
          credits    \* credits[o]: number of credit rows with reference_id o

ledgerVars == <<balance, debits, credits>>

LedgerTypeOK ==
    /\ balance \in [Users -> Nat]
    /\ debits  \in [Orders -> Nat]
    /\ credits \in [Orders -> Nat]

LedgerInit ==
    /\ balance = InitialBalance
    /\ debits  = [o \in Orders |-> 0]
    /\ credits = [o \in Orders |-> 0]

(* A replayed reference is answered from its row; a new one needs the money. *)
Chargeable(o) == debits[o] > 0 \/ balance[Rider[o]] >= Price[o]

(* The row found by reference_id is returned and nothing is written again. *)
Charge(o) ==
    /\ Chargeable(o)
    /\ IF debits[o] > 0
       THEN UNCHANGED <<balance, debits>>
       ELSE /\ balance' = [balance EXCEPT ![Rider[o]] = @ - Price[o]]
            /\ debits'  = [debits EXCEPT ![o] = @ + 1]
    /\ UNCHANGED credits

(* Mutant: a replayed refund writes no row and still pays. *)
RefundPaysReplay(o) ==
    /\ balance' = [balance EXCEPT ![Rider[o]] = @ + Price[o]]
    /\ credits' = [credits EXCEPT ![o] = 1]
    /\ UNCHANGED debits

(* As Charge, for a credit, and without a look at the balance. *)
Refund(o) ==
    /\ IF credits[o] > 0
       THEN UNCHANGED <<balance, credits>>
       ELSE /\ balance' = [balance EXCEPT ![Rider[o]] = @ + Price[o]]
            /\ credits' = [credits EXCEPT ![o] = @ + 1]
    /\ UNCHANGED debits

LedgerNext == \E o \in Orders : Charge(o) \/ Refund(o)

LedgerSpec == LedgerInit /\ [][LedgerNext]_ledgerVars

-----------------------------------------------------------------------------
(* What the rows of an order come to for the wallet of its rider. *)
Moved == [o \in Orders |-> Price[o] * (credits[o] - debits[o])]

(* The balance of a wallet is what its ledger rows add up to: no            *)
(* interleaving of charges and refunds loses or makes money.                *)
BalanceIsLedgerSum ==
    \A u \in Users :
        balance[u] = InitialBalance[u] + SumFunctionOnSet(Moved, {o \in Orders : Rider[o] = u})
=============================================================================
