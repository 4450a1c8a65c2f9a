------------------------------ MODULE MCFirstUse ------------------------------
(* Instances of FirstUse. *)
EXTENDS FirstUse

CONSTANTS a, b

(* No deal, one, two, and the two in the other order. *)
MCLists == {<<>>, <<a>>, <<a, b>>, <<b, a>>}
=============================================================================
