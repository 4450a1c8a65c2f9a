------------------------------ MODULE DealsView ------------------------------
(***************************************************************************)
(* What a page of deals promises, whatever the queueing underneath: the     *)
(* database delivers one list after another, and the page turns, in one     *)
(* step, from what it shows to lists it has been given: whole lists, each   *)
(* once, consecutive and in the order they came.  It never shows part of a  *)
(* list, items of two lists mixed, or a list with a gap before the next.    *)
(***************************************************************************)
EXTENDS Integers, Sequences, SequencesExt

CONSTANT Lists          \* the lists of items a query can return

VARIABLES lists,        \* the lists delivered so far
          page          \* what is on the screen

vars == <<lists, page>>

Init == lists = <<>> /\ page = <<>>

(* The database delivers a list. *)
Deliver ==
    /\ \E l \in Lists : lists' = Append(lists, l)
    /\ UNCHANGED page

(* The lists from the i-th to the j-th, one after another; none if j < i. *)
Run(i, j) == FlattenSeq(SubSeq(lists, i, j))

(* The page is drawn anew. *)
Draw ==
    /\ \E i \in 1..Len(lists), j \in 0..Len(lists) : page' = Run(i, j)
    /\ UNCHANGED lists

Next == Deliver \/ Draw

Spec == Init /\ [][Next]_vars
=============================================================================
