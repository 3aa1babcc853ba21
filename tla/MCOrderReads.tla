---------------------------- MODULE MCOrderReads ----------------------------
(* Two rides taken and one driven; a comfort and a business trip of one    *)
(* length that is above where swapped rates would show, and whose prices   *)
(* are rounded.  Among the searches is one that ends at Go's zero time.    *)
EXTENDS OrderReads, TLC

MCTrip == ("o1" :> [rider |-> "me", taxi_type |-> "business", metres |-> 20020])
       @@ ("o2" :> [rider |-> "me", taxi_type |-> "economy", metres |-> 0])
       @@ ("o3" :> [rider |-> "you", taxi_type |-> "comfort", metres |-> 20020])

MCDriverType == [me |-> "comfort", you |-> "business", d |-> "economy"]

MCOffsets == {-1}

MCComments == {<<"">>}

Anything == [taxi_type |-> "TAXI_TYPE_UNSPECIFIED", status |-> "STATUS_UNSPECIFIED",
             created_after |-> <<>>, created_before |-> <<>>, min_price |-> 0, max_price |-> 0]

MCSearches ==
    {[Anything EXCEPT !.taxi_type = t] : t \in {"TAXI_TYPE_UNSPECIFIED", "TAXI_TYPE_COMFORT"}}
    \cup {[Anything EXCEPT !.status = s, !.max_price = 1000] : s \in {"STATUS_CREATED", "STATUS_COMPLETED"}}
    \cup {[Anything EXCEPT !.min_price = m, !.max_price = n] : m \in {0, 201}, n \in {801, 1300}}
    \cup {[Anything EXCEPT !.created_after = <<t>>, !.created_before = <<u>>] : t \in {1, 3}, u \in {0, 1, 2}}
=============================================================================
