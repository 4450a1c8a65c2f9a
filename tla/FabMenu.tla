------------------------------- MODULE FabMenu -------------------------------
(***************************************************************************)
(* The floating menu of the Android home page (HomeFragment): a button that *)
(* turns, two entries that slide up above it, and a veil behind them.       *)
(*                                                                          *)
(* The three views are moved by ViewPropertyAnimators, which take time.  A  *)
(* tap in the meantime starts the next movement from wherever the views     *)
(* are; replacing a running movement cancels it, and a cancelled animator   *)
(* reports onAnimationEnd too, to the listener its view has by then.        *)
(***************************************************************************)
EXTENDS Integers

CONSTANTS
    Near, Far,   \* R.dimen.standard_55 and R.dimen.standard_100
    HalfTurn,    \* 180 degrees
    MaxTaps      \* bound: taps on the button and the veil

ASSUME FabAssumption ==
    /\ Near \in Nat \ {0} /\ Far \in Nat \ {0} /\ HalfTurn \in Nat \ {0}
    /\ Near < Far
    /\ MaxTaps \in Nat

Views == {"fab", "fabLayout2", "fabLayout3"}

VARIABLES
    isFABOpen,   \* the fragment's flag
    entries,     \* the visibility of fabLayout2 and fabLayout3
    veil,        \* the visibility of fabBGLayout
    pos,         \* rotation of fab, translationY of the entries
    target,      \* where each view's animator takes it
    moving,      \* the views whose animator runs
    listener,    \* fabLayout3's animator has the listener of closeFABMenu
    taps,        \* taps so far
    hurried      \* history: a tap met a movement since the menu last opened from rest

vars == <<isFABOpen, entries, veil, pos, target, moving, listener, taps, hurried>>

Visibility == {"VISIBLE", "GONE"}

Init ==
    /\ isFABOpen = FALSE
    /\ entries = "GONE" /\ veil = "GONE"
    /\ pos = [v \in Views |-> 0] /\ target = pos
    /\ moving = {}
    /\ listener = FALSE
    /\ taps = 0
    /\ hurried = FALSE

Tap ==
    /\ taps < MaxTaps
    /\ taps' = taps + 1
    /\ hurried' = (moving # {} \/ (hurried /\ isFABOpen))

(* The flag is not asked. *)
onAnimationEnd_always(open, shown, heard) ==
    IF heard THEN "GONE" ELSE shown

(* onAnimationEnd: the visibility of the entries after fabLayout3's animator
   ends, or is cancelled, while the flag is open and the entries are as given. *)
onAnimationEnd(open, shown, heard) ==
    IF heard /\ ~open THEN "GONE" ELSE shown

(* Each entry is raised from where it is itself. *)
showFABMenu_ownBase ==
    /\ isFABOpen' = TRUE
    /\ veil' = "VISIBLE"
    /\ entries' = onAnimationEnd(TRUE, "VISIBLE", listener /\ "fabLayout3" \in moving)
    /\ target' = [fab        |-> pos["fab"] + HalfTurn,
                  fabLayout2 |-> pos["fabLayout2"] - Near,
                  fabLayout3 |-> pos["fabLayout3"] - Far]
    /\ moving' = Views
    /\ UNCHANGED <<pos, listener>>

(* Both heights start from where fabLayout2 is. *)
showFABMenu ==
    /\ isFABOpen' = TRUE
    /\ veil' = "VISIBLE"
    /\ entries' = onAnimationEnd(TRUE, "VISIBLE", listener /\ "fabLayout3" \in moving)
    /\ LET baseTranslation == pos["fabLayout2"]
       IN  target' = [fab        |-> pos["fab"] + HalfTurn,
                      fabLayout2 |-> baseTranslation - Near,
                      fabLayout3 |-> baseTranslation - Far]
    /\ moving' = Views
    /\ UNCHANGED <<pos, listener>>

(* No listener is set. *)
closeFABMenu_noListener ==
    /\ isFABOpen' = FALSE
    /\ veil' = "GONE"
    /\ entries' = onAnimationEnd(FALSE, entries, listener /\ "fabLayout3" \in moving)
    /\ target' = [v \in Views |-> 0]
    /\ moving' = Views
    /\ UNCHANGED <<pos, listener>>

(* The rotation goes back half a turn, as it came. *)
closeFABMenu_rotatesBy ==
    /\ isFABOpen' = FALSE
    /\ veil' = "GONE"
    /\ entries' = onAnimationEnd(FALSE, entries, listener /\ "fabLayout3" \in moving)
    /\ target' = [v \in Views |-> IF v = "fab" THEN pos["fab"] + HalfTurn ELSE 0]
    /\ moving' = Views
    /\ listener' = TRUE
    /\ UNCHANGED pos

(* The first translationY(0) cancels a movement of fabLayout3 that still runs;
   the listener it reports to is that of the close before, if there was one. *)
closeFABMenu ==
    /\ isFABOpen' = FALSE
    /\ veil' = "GONE"
    /\ entries' = onAnimationEnd(FALSE, entries, listener /\ "fabLayout3" \in moving)
    /\ target' = [v \in Views |-> 0]
    /\ moving' = Views
    /\ listener' = TRUE
    /\ UNCHANGED pos

(* The button toggles; the veil, which covers the page while the menu is open, closes. *)
TapFab  == Tap /\ (IF ~isFABOpen THEN showFABMenu ELSE closeFABMenu)
TapVeil == Tap /\ veil = "VISIBLE" /\ closeFABMenu

-----------------------------------------------------------------------------
(* ViewPropertyAnimator: a frame on the way, and the end. *)

Way(a, b) == IF a <= b THEN a..b ELSE b..a

AnimationFrame(v) ==
    /\ v \in moving
    /\ \E p \in Way(pos[v], target[v]) \ {pos[v], target[v]} :
          pos' = [pos EXCEPT ![v] = p]
    /\ UNCHANGED <<isFABOpen, entries, veil, target, moving, listener, taps, hurried>>

AnimationEnds(v) ==
    /\ v \in moving
    /\ pos' = [pos EXCEPT ![v] = target[v]]
    /\ moving' = moving \ {v}
    /\ entries' = onAnimationEnd(isFABOpen, entries, listener /\ v = "fabLayout3")
    /\ UNCHANGED <<isFABOpen, veil, target, listener, taps, hurried>>

Next ==
    \/ TapFab \/ TapVeil
    \/ \E v \in Views : AnimationFrame(v) \/ AnimationEnds(v)

Spec == Init /\ [][Next]_vars

(* A running animator ends: its duration is 300 ms and frames keep coming. *)
FairSpec == Spec /\ \A v \in Views : WF_vars(AnimationEnds(v))

-----------------------------------------------------------------------------
(* The state is well typed. *)
TypeOK ==
    /\ isFABOpen \in BOOLEAN /\ listener \in BOOLEAN
    /\ entries \in Visibility /\ veil \in Visibility
    /\ pos \in [Views -> Int] /\ target \in [Views -> Int]
    /\ moving \subseteq Views
    /\ taps \in Nat /\ hurried \in BOOLEAN

(* An open menu is on the screen, entries and veil, however the taps fell: the
   end of a movement that closed it, cancelled by the tap that opens it again,
   must not hide it. *)
OpenIsVisible == isFABOpen => entries = "VISIBLE" /\ veil = "VISIBLE"

(* A closed menu at rest has left no trace: entries and veil are gone, and every
   view is back at zero, so that the next showFABMenu starts from zero. *)
ClosedLeavesNoTrace ==
    ~isFABOpen /\ moving = {} =>
        entries = "GONE" /\ veil = "GONE" /\ pos = [v \in Views |-> 0]

(* The entries of an open menu at rest keep their distance and are above the
   button, wherever the taps made them start: both heights are counted from
   the same baseTranslation. *)
EntriesApart ==
    isFABOpen /\ moving = {} =>
        /\ pos["fabLayout2"] - pos["fabLayout3"] = Far - Near
        /\ pos["fabLayout2"] < 0

(* Unless a tap met a movement, the menu opens to its two heights and the button
   shows half a turn, whatever was tapped, and however hastily, before the menu
   last came to rest closed. *)
OpensToHeight ==
    isFABOpen /\ moving = {} /\ ~hurried =>
        pos = [fab |-> HalfTurn, fabLayout2 |-> -Near, fabLayout3 |-> -Far]

(* A closed menu disappears, unless it is opened again. *)
ClosedDisappears == ~isFABOpen ~> (entries = "GONE" \/ isFABOpen)
=============================================================================
