--------------------------- MODULE MCOrderService ---------------------------
(* Small instances of OrderService for TLC. *)
EXTENDS OrderService, TLC

MCRider == [o \in Orders |-> CHOOSE u \in Users : TRUE]
MCPrice == [o \in Orders |-> 1]
MCBalance1 == [u \in Users |-> 1]
MCBalance2 == [u \in Users |-> 2]
MCOrderType == [o \in Orders |-> "economy"]
MCDriverType == [d \in Drivers |-> "economy"]

Symmetry == Permutations(Slots) \cup Permutations(Drivers)
=============================================================================
