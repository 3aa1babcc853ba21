------------------------------ MODULE MCAccounts ------------------------------
(* A small instance of Accounts for TLC. *)
EXTENDS Accounts, TLC

CONSTANTS e0, f0, p0

(* One admin, whose email and phone others may take once they are free. *)
MCSeed == [a \in Admins |-> [email |-> e0, phone |-> f0, password |-> p0,
                             roles |-> {"admin"}, deleted |-> FALSE]]

Symmetry == Permutations(Ids \ Admins) \cup Permutations(Emails \ {e0})
            \cup Permutations(Phones \ {f0}) \cup Permutations(Calls)
=============================================================================
