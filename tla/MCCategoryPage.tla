---------------------------- MODULE MCCategoryPage ----------------------------
(* Instances of CategoryPage. *)
EXTENDS CategoryPage

Doc(type, timestamp) == [type |-> type, timestamp |-> timestamp, strings |-> TRUE]
Bad(type, timestamp) == [type |-> type, timestamp |-> timestamp, strings |-> FALSE]

MCDocs == {Doc("coffee", 1), Doc("coffee", 2), Doc("events", 3), Doc("lifestyle", 4), Doc(NoType, 5),
           Bad("events", 6), Bad(NoType, 7)}

MCResponses == {[whole |-> 1, broken |-> 1], [whole |-> 2, broken |-> 0]}
=============================================================================
