----------------------------- MODULE MCAnalytics -----------------------------
(* A small instance of Analytics for TLC. *)
EXTENDS Analytics

CONSTANTS d1, d2

(* Three days of two instants: events at midnight and within a day, two in  *)
(* one second, of two statuses, taxi types and drivers.                     *)
MCEvents ==
    {[at |-> 0, status |-> "created", taxi_type |-> "economy", driver |-> d1, rating |-> 1],
     [at |-> 2, status |-> "driver_assigned", taxi_type |-> "economy", driver |-> d1, rating |-> 5],
     [at |-> 3, status |-> "driver_assigned", taxi_type |-> "comfort", driver |-> d1, rating |-> 4],
     [at |-> 4, status |-> "created", taxi_type |-> "comfort", driver |-> d2, rating |-> 3]}
=============================================================================
