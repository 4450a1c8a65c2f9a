------------------------------ MODULE SideMenu ------------------------------
(***************************************************************************)
(* The iOS side menu: MainViewController.swift and the row selection of    *)
(* SideMenuViewController.swift.                                           *)
(*                                                                         *)
(* The menu is moved by the constant of one constraint, 0 when expanded.   *)
(* isExpanded, which every decision reads, is written by the completion of *)
(* the sliding animation, half a second after the constant is: between the *)
(* two, taps, pans and rotations meet a flag that is not yet true.         *)
(*                                                                         *)
(* revealSideMenuOnTop and gestureEnabled are never changed from true.     *)
(***************************************************************************)
EXTENDS Integers, Sequences

CONSTANTS
  Rows,          \* the rows of the menu the user selects
  Velocities,    \* horizontal velocities with which a pan begins
  Translations,  \* distances a pan reports
  Hasty,         \* may gestures overlap, and rotation meet, an animation?
  MaxAnims       \* bound on animations in flight

RevealWidth == 260
Padding     == 150
Expanded    == 0
Collapsed   == -(RevealWidth + Padding)

PageRows   == 0..5
OtherRow   == 6
SafariRows == 7..10

ASSUME SideMenuAssumption ==
  /\ Rows \subseteq 0..10
  /\ Velocities \subseteq Int
  /\ Translations \subseteq Int
  /\ Hasty \in BOOLEAN
  /\ MaxAnims \in Nat \ {0}

VARIABLES
  isExpanded,         \* the flag, as of the last completed animation
  constant,           \* sideMenuTrailingConstraint.constant
  shadow,             \* sideMenuShadowView.alpha: "clear", "partial", "full"
  anims,              \* completions to come: the value each gives isExpanded
  draggingIsEnabled,
  panBaseLocation,
  pan,                \* is a pan gesture in progress?
  closes,             \* collapses that selectedCell left on the main queue
  page,               \* the row whose controller fills the screen
  highlighted,        \* the selected row of the table, -1 if none
  presented           \* is a Safari controller on top?

menu    == <<isExpanded, constant, shadow, anims>>
gesture == <<draggingIsEnabled, panBaseLocation, pan>>
content == <<page, highlighted, presented>>
vars    == <<menu, gesture, closes, content>>

\* The state is well typed: the page on screen is always one of the six page rows.
TypeOK ==
  /\ isExpanded \in BOOLEAN
  /\ constant \in Int
  /\ shadow \in {"clear", "partial", "full"}
  /\ anims \in Seq(BOOLEAN)
  /\ draggingIsEnabled \in BOOLEAN
  /\ panBaseLocation \in {0, RevealWidth}
  /\ pan \in BOOLEAN
  /\ closes \in Nat
  /\ page \in PageRows
  /\ highlighted \in -1..10
  /\ presented \in BOOLEAN

-----------------------------------------------------------------------------
\* viewDidLoad of both controllers: collapsed, home shown and highlighted.
Init ==
  /\ isExpanded = FALSE
  /\ constant = Collapsed
  /\ shadow = "clear"
  /\ anims = <<>>
  /\ draggingIsEnabled = FALSE
  /\ panBaseLocation = 0
  /\ pan = FALSE
  /\ closes = 0
  /\ page = 0
  /\ highlighted = 0
  /\ presented = FALSE

\* Nothing is in motion.
Still == anims = <<>> /\ ~pan /\ closes = 0

\* A user who is not hasty touches the menu with one finger, when it is still.
MayTouch == ~presented /\ (Hasty \/ Still)

\* sideMenuState, with animateSideMenu: constant and shadow take their values
\* now; completions fire in the order the animations began.  An animation that
\* changes nothing may complete at once.
sideMenuState(expanded) ==
  /\ constant' = IF expanded THEN Expanded ELSE Collapsed
  /\ shadow' = IF expanded THEN "full" ELSE "clear"
  /\ Len(anims) < MaxAnims
  /\ \/ /\ anims' = Append(anims, expanded)
        /\ UNCHANGED isExpanded
     \/ /\ constant' = constant
        /\ isExpanded' = expanded
        /\ UNCHANGED anims

\* The completion handler of the oldest animation.
AnimationCompletes ==
  /\ anims # <<>>
  /\ isExpanded' = Head(anims)
  /\ anims' = Tail(anims)
  /\ UNCHANGED <<constant, shadow, gesture, closes, content>>

\* The menu button of a page, which the open menu and its shadow cover.
revealSideMenu ==
  /\ ~presented /\ ~pan
  /\ constant # Expanded \/ anims # <<>>
  /\ sideMenuState(~isExpanded)
  /\ UNCHANGED <<gesture, closes, content>>

\* Variant: the padding for rotation is forgotten.
viewWillTransition_noPadding ==
  /\ Hasty \/ Still
  /\ constant' = IF isExpanded THEN Expanded ELSE -RevealWidth
  /\ UNCHANGED <<isExpanded, shadow, anims, gesture, closes, content>>

\* viewWillTransition: the constant is set again from the flag.
viewWillTransition ==
  /\ Hasty \/ Still
  /\ constant' = IF isExpanded THEN Expanded ELSE Collapsed
  /\ UNCHANGED <<isExpanded, shadow, anims, gesture, closes, content>>

\* A tap outside the menu (shouldReceive drops the ones inside).
TapGestureRecognizer ==
  /\ MayTouch
  /\ isExpanded
  /\ sideMenuState(FALSE)
  /\ UNCHANGED <<gesture, closes, content>>

-----------------------------------------------------------------------------
(* handlePanGesture                                                        *)

\* .began.  A pan to the right on the open menu cancels itself.  A fast swipe
\* toggles at once and drags nothing.
PanBegan(v) ==
  LET enabled == draggingIsEnabled \/ (v > 0 /\ ~isExpanded) \/ (v < 0 /\ isExpanded)
      fast    == v > 550 \/ v < -550
  IN
  /\ MayTouch /\ ~pan
  /\ pan' = ~(v > 0 /\ isExpanded)
  /\ \/ /\ enabled /\ fast
        /\ sideMenuState(~isExpanded)
        /\ draggingIsEnabled' = FALSE
        /\ UNCHANGED panBaseLocation
     \/ /\ enabled /\ ~fast
        /\ draggingIsEnabled' = TRUE
        /\ panBaseLocation' = IF isExpanded THEN RevealWidth ELSE 0
        /\ UNCHANGED menu
     \/ /\ ~enabled
        /\ UNCHANGED <<menu, draggingIsEnabled, panBaseLocation>>
  /\ UNCHANGED <<closes, content>>

\* alpha = (x * 150 / 260) / 260, at most 0.6; at or below 0 it is clear.
DragShadow(x) ==
  IF x <= 0 THEN "clear"
  ELSE IF x * 150 * 10 >= 6 * RevealWidth * RevealWidth THEN "full" ELSE "partial"

\* .changed
PanChanged(t) ==
  LET xLocation == panBaseLocation + t
  IN
  /\ pan
  /\ draggingIsEnabled
  /\ shadow' = DragShadow(xLocation)
  /\ constant' = IF xLocation <= RevealWidth THEN xLocation - RevealWidth ELSE constant
  /\ UNCHANGED <<isExpanded, anims, gesture, closes, content>>

\* .ended: decided by the constant, whether or not the pan was dragging.
movedMoreThanHalf == 2 * constant > -RevealWidth

\* Variant: the menu is left where the pan let go of it.
PanEnded_keepsPosition ==
  /\ pan
  /\ pan' = FALSE
  /\ draggingIsEnabled' = FALSE
  /\ UNCHANGED <<menu, panBaseLocation, closes, content>>

PanEnded ==
  /\ pan
  /\ pan' = FALSE
  /\ draggingIsEnabled' = FALSE
  /\ sideMenuState(movedMoreThanHalf)
  /\ UNCHANGED <<panBaseLocation, closes, content>>

\* .cancelled, by a system gesture or an alert: the default case does nothing.
PanCancelled ==
  /\ pan
  /\ pan' = FALSE
  /\ UNCHANGED <<menu, draggingIsEnabled, panBaseLocation, closes, content>>

-----------------------------------------------------------------------------
(* Selecting a row                                                         *)

\* tableView(didSelectRowAt:), after the table highlighted row.
HighlightAfter(row) == IF row \in {4, 6} THEN -1 ELSE row

\* selectedCell: show the page, or present Safari; then leave the collapse on
\* the main queue.
selectedCell(row) ==
  /\ MayTouch
  /\ constant # Collapsed
  /\ closes < MaxAnims
  /\ page' = IF row \in PageRows THEN row ELSE page
  /\ presented' = (row \in SafariRows)
  /\ closes' = closes + 1
  /\ highlighted' = HighlightAfter(row)
  /\ UNCHANGED <<menu, gesture>>

\* Variant: the menu is toggled, as the button does, instead of collapsed.
AsyncCollapse_toggles ==
  /\ closes > 0
  /\ closes' = closes - 1
  /\ sideMenuState(~isExpanded)
  /\ UNCHANGED <<gesture, content>>

AsyncCollapse ==
  /\ closes > 0
  /\ closes' = closes - 1
  /\ sideMenuState(FALSE)
  /\ UNCHANGED <<gesture, content>>

\* The user dismisses Safari.
DismissSafari ==
  /\ presented
  /\ presented' = FALSE
  /\ UNCHANGED <<menu, gesture, closes, page, highlighted>>

-----------------------------------------------------------------------------
Next ==
  \/ AnimationCompletes
  \/ revealSideMenu
  \/ viewWillTransition
  \/ TapGestureRecognizer
  \/ \E v \in Velocities : PanBegan(v)
  \/ \E t \in Translations : PanChanged(t)
  \/ PanEnded \/ PanCancelled
  \/ \E row \in Rows : selectedCell(row)
  \/ AsyncCollapse
  \/ DismissSafari

\* UIKit completes its animations and the main queue runs.
Fairness == WF_vars(AnimationCompletes) /\ WF_vars(AsyncCollapse)

Spec     == Init /\ [][Next]_vars
FairSpec == Spec /\ Fairness

-----------------------------------------------------------------------------
(* Properties                                                              *)

\* At rest the flag that every decision of MainViewController reads, the place
\* of the menu and its shadow agree, unless a drag was interrupted.
MenuAgrees ==
  Still /\ ~draggingIsEnabled =>
    /\ constant = (IF isExpanded THEN Expanded ELSE Collapsed)
    /\ shadow = (IF isExpanded THEN "full" ELSE "clear")

\* MainViewController.swift:77: "Keep the state of the side menu (expanded or
\* collapse) in rotation": a rotation does not open or close the menu.
RotationKeepsMenu ==
  [][viewWillTransition /\ ~draggingIsEnabled => UNCHANGED constant]_vars

\* Selecting a row collapses the menu: selectedCell (MainViewController.swift
\* 134-180) leaves it closed, with the flag saying so.
RowCollapses == closes > 0 ~> (constant = Collapsed /\ ~isExpanded)
=============================================================================
