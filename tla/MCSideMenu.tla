----------------------------- MODULE MCSideMenu -----------------------------
(* Instances of SideMenu for TLC: a slow, a fast and a still pan in either  *)
(* direction, and translations on both sides of every threshold of          *)
(* handlePanGesture (cfg files have no negative numbers).                   *)
EXTENDS SideMenu

MCVelocities   == {-600, -100, 0, 100, 600}
MCTranslations == {-250, -100, 0, 100, 200, 260, 300}
=============================================================================
