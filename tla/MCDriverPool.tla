----------------------------- MODULE MCDriverPool -----------------------------
(* A small instance of DriverPool for TLC. *)
EXTENDS DriverPool, TLC

CONSTANT business

(* One of the orders asks for a business taxi, the others for the default. *)
MCOrderType == [o \in Orders |-> IF o = business THEN "business" ELSE DefaultType]

Symmetry == Permutations(Drivers) \cup Permutations(Orders \ {business})
=============================================================================
