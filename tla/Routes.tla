-------------------------------- MODULE Routes --------------------------------
(***************************************************************************)
(* Routes: where requests go.  The locations of nginx.conf, the routes     *)
(* each service registers, and the calls services make to each other.      *)
(* A path is the sequence of its segments; Id stands for the segment a     *)
(* pattern captures, an id in all of them.                                 *)
(***************************************************************************)
EXTENDS Naturals, Sequences, SequencesExt

Id == ":id"

Services == {"auth_service", "user_service", "driver_service", "wallet_service",
             "order_service", "analytic_service"}

Covers(pattern, path) ==
    /\ Len(pattern) = Len(path)
    /\ \A i \in 1..Len(path) : pattern[i] \in {Id, path[i]}

-----------------------------------------------------------------------------
(* What a service serves, in the order in which it registers it.  check is *)
(* what the service itself asks of the token.                              *)
Route(method, path, check, handler) ==
    [method |-> method, path |-> path, check |-> check, handler |-> handler]

AuthRoutes == <<
    Route("POST", <<"login">>, "none", "Login"),
    Route("POST", <<"refresh">>, "none", "Refresh"),
    Route("POST", <<"logout">>, "none", "Logout"),
    Route("GET", <<"validate">>, "none", "Validate")>>

UserRoutes == <<
    Route("POST", <<"register">>, "none", "Register"),
    Route("POST", <<"internal", "verify-credentials">>, "none", "VerifyCredentials"),
    Route("GET", <<"profile">>, "any", "Profile"),
    Route("PATCH", <<"profile">>, "any", "UpdateProfile"),
    Route("DELETE", <<"profile">>, "any", "DeleteProfile"),
    Route("POST", <<"profile", "password">>, "any", "UpdatePassword"),
    Route("POST", <<"admin", "users", Id, "analyst-role">>, "admin", "AssignRoleAnalytic")>>

DriverRoutes == <<
    Route("POST", <<"internal", "drivers">>, "none", "RegisterDriver"),
    Route("GET", <<"internal", "drivers">>, "none", "GetDrivers"),
    Route("POST", <<"internal", "drivers", "claim">>, "none", "ClaimDriver"),
    Route("PATCH", <<"internal", "drivers", Id, "status">>, "none", "UpdateStatusInternal"),
    Route("GET", <<"profile">>, "any", "DriverProfile"),
    Route("PATCH", <<"profile">>, "any", "UpdateType"),
    Route("PATCH", <<"profile", "status">>, "any", "UpdateStatus")>>

WalletRoutes == <<
    Route("POST", <<"internal", "wallets">>, "none", "CreateWallet"),
    Route("GET", <<"internal", "wallets", Id>>, "none", "GetWallet"),
    Route("POST", <<"internal", "wallets", Id, "charge">>, "none", "Charge"),
    Route("POST", <<"internal", "wallets", Id, "refund">>, "none", "Refund"),
    Route("GET", <<"internal", "wallets", Id, "transactions">>, "none", "ListTransactions")>>

(* The methods of the gRPC server, each behind AuthInterceptor. *)
RPCs == {"CreateOrder", "CancelOrder", "StartTrip", "CompleteTrip", "RateTrip",
         "GetOrder", "ListOrders", "SearchOrders"}

OrderRoutes == <<
    Route("POST", <<"v1", "orders">>, "any", "CreateOrder"),
    Route("POST", <<"v1", "orders", Id, "cancel">>, "any", "CancelOrder"),
    Route("POST", <<"v1", "orders", Id, "start">>, "any", "StartTrip"),
    Route("POST", <<"v1", "orders", Id, "complete">>, "any", "CompleteTrip"),
    Route("POST", <<"v1", "orders", Id, "rate">>, "any", "RateTrip"),
    Route("GET", <<"v1", "orders", Id>>, "any", "GetOrder"),
    Route("GET", <<"v1", "orders">>, "any", "ListOrders"),
    Route("GET", <<"v1", "orders", "search">>, "any", "SearchOrders")>>

AnalyticRoutes == <<
    Route("GET", <<"orders", "stats">>, "none", "GetOrderStats"),
    Route("GET", <<"orders", "daily">>, "none", "GetDailyOrderCounts"),
    Route("GET", <<"ratings", "drivers", Id>>, "none", "GetDriverRatingStats")>>

RoutesOf(service) ==
    CASE service = "auth_service" -> AuthRoutes
      [] service = "user_service" -> UserRoutes
      [] service = "driver_service" -> DriverRoutes
      [] service = "wallet_service" -> WalletRoutes
      [] service = "order_service" -> OrderRoutes
      [] service = "analytic_service" -> AnalyticRoutes

(* grpc-gateway's mux tries the pattern registered last first; the others  *)
(* have no two routes that cover one path.  0 is 404, 405 or 501.          *)
Selected(service, method, path) ==
    IF service = "order_service"
    THEN SelectLastInSeq(RoutesOf(service), LAMBDA r : r.method = method /\ Covers(r.path, path))
    ELSE SelectInSeq(RoutesOf(service), LAMBDA r : r.method = method /\ Covers(r.path, path))

-----------------------------------------------------------------------------
(* nginx.conf.  kind is how the location matches, gate the role its        *)
(* auth_request asks for, rewrite the path the service gets: the one given *)
(* or the client's with a prefix taken off or put on.  args says whether   *)
(* the query string goes with it; it does not with a literal path, unless  *)
(* $is_args$args is appended.                                              *)
Location(kind, path, gate, service, rewrite, args) ==
    [kind |-> kind, path |-> path, gate |-> gate, service |-> service,
     rewrite |-> rewrite, args |-> args]

Locations == <<
    Location("exact", <<"auth", "login">>, "none", "auth_service", "strip", FALSE),
    Location("exact", <<"auth", "refresh">>, "none", "auth_service", "strip", FALSE),
    Location("exact", <<"auth", "logout">>, "none", "auth_service", "strip", FALSE),
    Location("exact", <<"users", "register">>, "none", "user_service", "strip", FALSE),
    Location("prefix", <<"users", "profile">>, "any", "user_service", "strip", TRUE),
    Location("regexUnder", <<"users", "admin">>, "admin", "user_service", "strip", TRUE),
    Location("prefix", <<"drivers", "profile">>, "any", "driver_service", "strip", TRUE),
    Location("exact", <<"orders">>, "any", "order_service", "v1", TRUE),
    Location("segments", <<"orders", Id, "cancel">>, "any", "order_service", "v1", TRUE),
    Location("segments", <<"orders", Id, "start">>, "any", "order_service", "v1", TRUE),
    Location("segments", <<"orders", Id, "complete">>, "any", "order_service", "v1", TRUE),
    Location("segments", <<"orders", Id, "rate">>, "any", "order_service", "v1", TRUE),
    Location("exact", <<"orders", "search">>, "analyst", "order_service", "v1", TRUE),
    Location("segments", <<"orders", Id>>, "any", "order_service", "v1", TRUE),
    Location("under", <<"analytics">>, "analyst", "analytic_service", "strip", TRUE)>>

Under(prefix, path) == IsPrefix(prefix, path) /\ Len(path) > Len(prefix)

(* Mutant: a location for a whole service instead of its profiles. *)
MatchesFirst(location, path) ==
    CASE location.kind \in {"exact", "segments"} -> Covers(location.path, path)
      [] location.kind = "prefix" -> path # <<>> /\ Head(location.path) = Head(path)
      [] location.kind \in {"under", "regexUnder"} -> Under(location.path, path)

(* "exact" is an exact location, "prefix" one for a path and what is under *)
(* it, "under" one that ends in a slash; "segments" is a regular           *)
(* expression for a whole path, "regexUnder" one for its start.            *)
Matches(location, path) ==
    CASE location.kind \in {"exact", "segments"} -> Covers(location.path, path)
      [] location.kind = "prefix" -> IsPrefix(location.path, path)
      [] location.kind \in {"under", "regexUnder"} -> Under(location.path, path)

(* Mutant: the last location of the file that matches is taken. *)
LocateLast(path) ==
    SelectLastInSeq(Locations, LAMBDA l : Matches(l, path))

(* nginx takes an exact match first, then the first regular expression     *)
(* that matches, then the prefix.                                          *)
Locate(path) ==
    LET Of(kinds) == SelectInSeq(Locations, LAMBDA l : l.kind \in kinds /\ Matches(l, path))
    IN  IF Of({"exact"}) # 0 THEN Of({"exact"})
        ELSE IF Of({"segments", "regexUnder"}) # 0 THEN Of({"segments", "regexUnder"})
        ELSE Of({"prefix", "under"})

(* Mutant: the prefix of the public path is kept. *)
Unstripped(location, path) ==
    IF location.rewrite = "v1" THEN <<"v1">> \o path ELSE path

Rewritten(location, path) ==
    IF location.rewrite = "v1" THEN <<"v1">> \o path ELSE Tail(path)

-----------------------------------------------------------------------------
(* The requests services send to each other, without a token. *)
Call(from, to, method, path) == [from |-> from, to |-> to, method |-> method, path |-> path]

Calls == {
    Call("auth_service", "user_service", "POST", <<"internal", "verify-credentials">>),
    Call("order_service", "driver_service", "POST", <<"internal", "drivers", "claim">>),
    Call("order_service", "driver_service", "PATCH", <<"internal", "drivers", "u1", "status">>),
    Call("order_service", "wallet_service", "POST", <<"internal", "wallets", "u1", "charge">>),
    Call("order_service", "wallet_service", "POST", <<"internal", "wallets", "u1", "refund">>),
    Call("driver_service", "analytic_service", "GET", <<"analytics", "ratings", "drivers", "u1">>)}
=============================================================================
