--------------------------- MODULE MCRegistration ---------------------------
(* Small instances of Registration for TLC. *)
EXTENDS Registration

CONSTANT rider

(* One of the users registers to ride, the others to drive. *)
MCRole == [u \in Users |-> IF u = rider THEN "user" ELSE "driver"]
=============================================================================
