------------------------------ MODULE MCWallet ------------------------------
(* Small instances of Wallet for TLC. *)
EXTENDS Wallet, TLC

CONSTANT f1

(* The first reference is worth two of the others. *)
MCAmount == [f \in References |-> IF f = f1 THEN 2 ELSE 1]
MCOwner == [f \in References |-> CHOOSE u \in Users : TRUE]

Symmetry == Permutations(Calls)

=============================================================================
