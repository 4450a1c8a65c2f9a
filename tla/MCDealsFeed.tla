----------------------------- MODULE MCDealsFeed -----------------------------
EXTENDS DealsFeed

Doc(id, type, timestamp, complete) ==
    [id |-> id, type |-> type, timestamp |-> timestamp, complete |-> complete]

(* Three events, the middle one without a poster, and a deal of two other types. *)
Catalogue ==
    {Doc("e1", "events", 1, TRUE), Doc("e2", "events", 2, FALSE), Doc("e3", "events", 3, TRUE),
     Doc("q1", "liqour", 4, TRUE), Doc("l1", "lifestyle", 5, TRUE)}
=============================================================================
