------------------------------ MODULE MCGateway ------------------------------
(***************************************************************************)
(* Gateway for TLC: clients send every method with every path of a route   *)
(* of every service, under each prefix of nginx.conf, and with ids that    *)
(* are the literal segments of other routes.                               *)
(***************************************************************************)
EXTENDS Gateway

MCMethods == {"GET", "POST", "PATCH", "DELETE"}

MCIds == {"u1", "search", "profile", "claim"}

Named(p, id) == [i \in DOMAIN p |-> IF p[i] = Id THEN id ELSE p[i]]

Served == {r.path : r \in UNION {Range(RoutesOf(s)) : s \in Services}}

(* The paths services serve, and those without the /v1 of order_service. *)
Bare == Served \cup {Tail(p) : p \in {q \in Served : q[1] = "v1"}}

MCPrefixes == {<<>>, <<"auth">>, <<"users">>, <<"drivers">>, <<"wallets">>, <<"analytics">>}

MCPaths == {prefix \o Named(p, id) : prefix \in MCPrefixes, p \in Bare, id \in MCIds}

MCRoleSets == {{"user"}, {"driver"}, {"user", "analyst"}, {"admin"}}
=============================================================================
