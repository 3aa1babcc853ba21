------------------------------- MODULE Gateway -------------------------------
(***************************************************************************)
(* Gateway: the way of one request, from a client through nginx to the     *)
(* handler that answers it, or from one service straight to another.       *)
(* nginx asks auth_service first, where the location says so; services     *)
(* check the signature and the age of the token again, and two of them the *)
(* role, but not the session.  On the way the token can expire, its        *)
(* session end, and any service be down.                                   *)
(***************************************************************************)
EXTENDS Routes

CONSTANTS Methods, Paths,   \* of the requests clients send
          RoleSets,         \* the roles their tokens carry
          Origins,          \* who sends requests: "client" or services
          Faults            \* of "down" and "time", what may happen on the way

ASSUME GatewayAssumption == Paths \subseteq Seq(STRING)

VARIABLES from,       \* who sent the request
          method, path,
          session,    \* how it is with its token
          roles,      \* the roles in the token
          at,         \* where the request is
          location,   \* the location nginx took, 0 for none
          service,    \* the service it is passed to
          target,     \* the path it is passed with
          checked,    \* history: auth_service has let it through
          rpc,        \* the gRPC method it has become
          answer      \* the handler that answers it, or the status of a refusal

request == <<from, method, path, roles>>
requestVars == <<from, method, path, session, roles, at, location, service, target, checked, rpc, answer>>

(* "active" tokens are valid and have a session, those logged out none.    *)
Sessions == {"none", "active", "loggedOut", "expired"}

Parses == session \in {"active", "loggedOut"}

FromClient ==
    /\ "client" \in Origins /\ from = "client"
    /\ method \in Methods /\ path \in Paths
    /\ session \in Sessions
    /\ roles \in IF session = "none" THEN {{}} ELSE RoleSets
    /\ at = "gateway" /\ service = "none" /\ target = <<>>

FromService ==
    \E call \in {c \in Calls : c.from \in Origins} :
        /\ from = call.from /\ method = call.method /\ path = call.path
        /\ session = "none" /\ roles = {}
        /\ at = "service" /\ service = call.to /\ target = call.path

RequestInit ==
    /\ FromClient \/ FromService
    /\ location = 0
    /\ checked = FALSE
    /\ rpc = "none"
    /\ answer = "none"

Done(status) ==
    /\ at' = "done"
    /\ answer' = status

(* nginx takes a location; a path without one is a file it does not have. *)
Pass ==
    /\ at = "gateway"
    /\ location' = Locate(path)
    /\ IF location' = 0
       THEN Done("404") /\ UNCHANGED <<service, target>>
       ELSE LET l == Locations[location']
            IN  /\ service' = l.service
                /\ target' = Rewritten(l, path)
                /\ at' = IF l.gate = "none" THEN "service" ELSE "auth"
                /\ UNCHANGED answer
    /\ UNCHANGED <<request, session, checked, rpc>>

(* auth_request: GET /validate, with the role the location requires. *)
Validate ==
    /\ at = "auth"
    /\ LET gate == Locations[location].gate
           role == IF gate = "any" THEN {} ELSE {gate}
       IN  IF Selected("auth_service", "GET", <<"validate">>) = 0 THEN Done("500") /\ UNCHANGED checked
           ELSE IF session # "active" THEN Done("401") /\ UNCHANGED checked
           ELSE IF ~(role \subseteq roles) THEN Done("403") /\ UNCHANGED checked
           ELSE at' = "service" /\ checked' = TRUE /\ UNCHANGED answer
    /\ UNCHANGED <<request, session, location, service, target, rpc>>

(* A service that speaks HTTP finds the route and asks what it asks. *)
Serve ==
    /\ at = "service" /\ service # "order_service"
    /\ LET i == Selected(service, method, target)
       IN  IF i = 0 THEN Done("404")
           ELSE LET route == RoutesOf(service)[i]
                IN  IF route.check # "none" /\ ~Parses THEN Done("401")
                    ELSE IF route.check = "admin" /\ "admin" \notin roles THEN Done("403")
                    ELSE Done(route.handler)
    /\ UNCHANGED <<request, session, location, service, target, checked, rpc>>

(* order_service turns the request into a call of its own gRPC server. *)
Forward ==
    /\ at = "service" /\ service = "order_service"
    /\ LET i == Selected(service, method, target)
       IN  IF i = 0 THEN Done("404") /\ UNCHANGED rpc
           ELSE at' = "rpc" /\ rpc' = OrderRoutes[i].handler /\ UNCHANGED answer
    /\ UNCHANGED <<request, session, location, service, target, checked>>

(* The server runs AuthInterceptor, and then the method. *)
Intercept ==
    /\ at = "rpc"
    /\ IF rpc \notin RPCs THEN Done("501") ELSE IF ~Parses THEN Done("401") ELSE Done(rpc)
    /\ UNCHANGED <<request, session, location, service, target, checked, rpc>>

(* auth_service is not to be had, nor Redis for it; or the service is not. *)
Fail ==
    /\ "down" \in Faults
    /\ \/ at = "auth" /\ Done("500")
       \/ at \in {"service", "rpc"} /\ Done("502")
    /\ UNCHANGED <<request, session, location, service, target, checked, rpc>>

(* The token ages and the client logs out, on another connection. *)
Elapse ==
    /\ "time" \in Faults /\ at # "done"
    /\ \/ session = "active" /\ session' \in {"loggedOut", "expired"}
       \/ session = "loggedOut" /\ session' = "expired"
    /\ UNCHANGED <<request, at, location, service, target, checked, rpc, answer>>

RequestNext == Pass \/ Validate \/ Serve \/ Forward \/ Intercept \/ Fail \/ Elapse

RequestSpec == RequestInit /\ [][RequestNext]_requestVars

-----------------------------------------------------------------------------
Handlers(picked(_)) ==
    {r.handler : r \in {q \in UNION {Range(RoutesOf(s)) : s \in Services} : picked(q)}}

Analysts == {"SearchOrders", "GetOrderStats", "GetDailyOrderCounts", "GetDriverRatingStats"}

Open == {"Login", "Refresh", "Logout", "Register"}

(* What the handlers leave to the gateway is asked there: SearchOrders and *)
(* analytic_service check no role, and no service knows of logouts.  So no *)
(* client is answered by one of them, whichever location and route took    *)
(* the request there, but with the role, and none by any other but with a  *)
(* session that auth_service has found.                                    *)
AnsweredWereAllowed ==
    from = "client" /\ answer \in Handlers(LAMBDA r : TRUE) =>
        /\ answer \in Analysts => checked /\ "analyst" \in roles
        /\ answer = "AssignRoleAnalytic" => checked /\ "admin" \in roles
        /\ answer \notin Open => checked

(* "Nothing internal is reachable through it": routes under /internal, and *)
(* /validate, ask for no token, and no path a client sends gets to one.    *)
InternalStaysInside ==
    from = "client" =>
        answer \notin Handlers(LAMBDA r : r.path[1] \in {"internal", "validate"})

(* The public endpoints, as clients know them. *)
Endpoint(m, p, handler) == method = m /\ Covers(p, path) => answer \in {handler, "none", "401", "403", "500", "502"}

(* Locations, rewrites and routes fit together: a request for a public     *)
(* endpoint is refused or answered by the handler of that endpoint, never  *)
(* by that of another whose pattern covers the path too, and never lost;   *)
(* and a handler that reads the query string is given it.                  *)
Queried == {"ListOrders", "SearchOrders", "GetOrderStats", "GetDailyOrderCounts"}

EndpointsAreServed ==
    from = "client" =>
        /\ answer \in Queried => Locations[location].args
        /\ Endpoint("POST", <<"auth", "login">>, "Login")
        /\ Endpoint("POST", <<"auth", "refresh">>, "Refresh")
        /\ Endpoint("POST", <<"auth", "logout">>, "Logout")
        /\ Endpoint("POST", <<"users", "register">>, "Register")
        /\ Endpoint("GET", <<"users", "profile">>, "Profile")
        /\ Endpoint("PATCH", <<"users", "profile">>, "UpdateProfile")
        /\ Endpoint("DELETE", <<"users", "profile">>, "DeleteProfile")
        /\ Endpoint("POST", <<"users", "profile", "password">>, "UpdatePassword")
        /\ Endpoint("POST", <<"users", "admin", "users", Id, "analyst-role">>, "AssignRoleAnalytic")
        /\ Endpoint("GET", <<"drivers", "profile">>, "DriverProfile")
        /\ Endpoint("PATCH", <<"drivers", "profile">>, "UpdateType")
        /\ Endpoint("PATCH", <<"drivers", "profile", "status">>, "UpdateStatus")
        /\ Endpoint("POST", <<"orders">>, "CreateOrder")
        /\ Endpoint("GET", <<"orders">>, "ListOrders")
        /\ path # <<"orders", "search">> => Endpoint("GET", <<"orders", Id>>, "GetOrder")
        /\ Endpoint("GET", <<"orders", "search">>, "SearchOrders")
        /\ \A e \in {<<"cancel", "CancelOrder">>, <<"start", "StartTrip">>,
                     <<"complete", "CompleteTrip">>, <<"rate", "RateTrip">>} :
              Endpoint("POST", <<"orders", Id, e[1]>>, e[2])
        /\ Endpoint("GET", <<"analytics", "orders", "stats">>, "GetOrderStats")
        /\ Endpoint("GET", <<"analytics", "orders", "daily">>, "GetDailyOrderCounts")
        /\ Endpoint("GET", <<"analytics", "ratings", "drivers", Id>>, "GetDriverRatingStats")

(* analytic_service.go:11 of driver_service says of its gateway that it    *)
(* "hits the same public route analytic_service exposes to                 *)
(* gateway_service": calls between services are for routes the other has.  *)
CallsAreServed == from # "client" => answer # "404"
=============================================================================
