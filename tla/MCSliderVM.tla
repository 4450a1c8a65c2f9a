------------------------------ MODULE MCSliderVM ------------------------------
(* Instances of SliderVM. *)
EXTENDS SliderVM

(* No image, one, two, and one that is missing after one that is not. *)
MCLists == {<<>>, <<TRUE>>, <<TRUE, TRUE>>, <<TRUE, FALSE>>}
=============================================================================
