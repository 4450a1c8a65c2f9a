----------------------------- MODULE Onboarding -----------------------------
(***************************************************************************)
(* What the launch of the application promises: the slides are for someone  *)
(* who has not been past them, the home screen for someone who has; and     *)
(* having been past them is never forgotten, whatever happens to the        *)
(* process.                                                                 *)
(***************************************************************************)
VARIABLES
    seen,     \* the user has been past the slides
    screen    \* what is on the screen: "none", "slides" or "home"

vars == <<seen, screen>>

Init == seen = FALSE /\ screen = "none"

ShowSlides == ~seen /\ screen' = "slides" /\ UNCHANGED seen
Remember   == seen' = TRUE /\ UNCHANGED screen
ShowHome   == seen /\ screen' = "home" /\ UNCHANGED seen
Vanish     == screen' = "none" /\ UNCHANGED seen

Next == ShowSlides \/ Remember \/ ShowHome \/ Vanish

Spec == Init /\ [][Next]_vars
=============================================================================
