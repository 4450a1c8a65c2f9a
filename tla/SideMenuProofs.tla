--------------------------- MODULE SideMenuProofs ---------------------------
(***************************************************************************)
(* Theorems about the iOS side menu (SideMenu) for every set of rows,      *)
(* velocities and translations and every number of animations in flight.   *)
(***************************************************************************)
EXTENDS SideMenu, SequenceTheorems, TLAPS

\* What isExpanded becomes when the animations in flight have completed.
Desired == IF anims = <<>> THEN isExpanded ELSE anims[Len(anims)]

\* The menu and its shadow are where the flag is going to say.
Placed ==
  /\ constant = (IF Desired THEN Expanded ELSE Collapsed)
  /\ shadow = (IF Desired THEN "full" ELSE "clear")

\* A finger that drags the menu has it to itself.
DragAlone == pan /\ draggingIsEnabled => anims = <<>> /\ closes = 0

MenuInv ==
  /\ TypeOK
  /\ ~draggingIsEnabled => Placed
  /\ DragAlone

-----------------------------------------------------------------------------
\* Handling all but the last completion leaves the last in its place.
LEMMA LastOfTail ==
  ASSUME NEW S, NEW q \in Seq(S), q # <<>>
  PROVE  /\ Len(q) \in Nat \ {0}
         /\ Len(q) = 1 => Tail(q) = <<>> /\ Head(q) = q[Len(q)]
         /\ Len(q) # 1 => Tail(q) # <<>> /\ Tail(q)[Len(Tail(q))] = q[Len(q)]
<1>1. /\ Len(q) \in Nat \ {0}
      /\ Tail(q) \in Seq(S) /\ Head(q) = q[1]
      /\ Len(Tail(q)) = Len(q) - 1
      /\ \A k \in 1..Len(Tail(q)) : Tail(q)[k] = q[k + 1]
  OBVIOUS
<1>2. Len(q) = 1 => Tail(q) = <<>>
  <2>1. Tail(q) # <<>> => Len(Tail(q)) \in Nat \ {0}
    BY <1>1, EmptySeq
  <2>2. Len(q) = 1 => Len(Tail(q)) \notin Nat \ {0}
    BY <1>1
  <2>3. QED
    BY <2>1, <2>2
<1>3. Len(q) # 1 => Tail(q) # <<>> /\ Len(Tail(q)) \in 1..Len(Tail(q))
  BY <1>1
<1>4. QED
  BY <1>1, <1>2, <1>3

\* The state stays well typed when the menu starts to slide.
LEMMA StateType ==
  ASSUME TypeOK, NEW e \in BOOLEAN, sideMenuState(e)
  PROVE  /\ isExpanded' \in BOOLEAN /\ constant' \in Int
         /\ shadow' \in {"clear", "partial", "full"} /\ anims' \in Seq(BOOLEAN)
BY DEF TypeOK, sideMenuState, Expanded, Collapsed, RevealWidth, Padding

\* The initial state is well typed.
LEMMA TypeInit == Init => TypeOK
<1>1. <<>> \in Seq(BOOLEAN) /\ Collapsed \in Int /\ 0 \in PageRows /\ 0 \in -1..10
      /\ 0 \in Nat
  BY DEF Collapsed, RevealWidth, Padding, PageRows
<1>2. QED
  BY <1>1, Zenon DEF Init, TypeOK

\* Every step keeps the state well typed.
LEMMA TypeStep == TypeOK /\ [Next]_vars => TypeOK'
<1>1. SUFFICES ASSUME TypeOK, [Next]_vars PROVE TypeOK'
  OBVIOUS
<1>2. CASE AnimationCompletes
  <2>1. Head(anims) \in BOOLEAN /\ Tail(anims) \in Seq(BOOLEAN)
    BY <1>1, <1>2 DEF TypeOK, AnimationCompletes
  <2>2. QED
    BY <1>1, <1>2, <2>1 DEF TypeOK, AnimationCompletes, gesture, content
<1>3. CASE revealSideMenu
  <2>1. (~isExpanded) \in BOOLEAN
    BY <1>1 DEF TypeOK
  <2>2. QED
    BY <1>1, <1>3, <2>1, StateType DEF TypeOK, revealSideMenu, gesture, content
<1>4. CASE viewWillTransition
  BY <1>1, <1>4 DEF TypeOK, viewWillTransition, Expanded, Collapsed, RevealWidth, Padding, gesture, content
<1>5. CASE TapGestureRecognizer
  BY <1>1, <1>5, StateType DEF TypeOK, TapGestureRecognizer, gesture, content
<1>6. ASSUME NEW v \in Velocities, PanBegan(v) PROVE TypeOK'
  <2>1. pan' \in BOOLEAN /\ closes' = closes /\ UNCHANGED content
    BY <1>6 DEF PanBegan
  <2>2. CASE sideMenuState(~isExpanded) /\ draggingIsEnabled' = FALSE /\ UNCHANGED panBaseLocation
    <3>1. (~isExpanded) \in BOOLEAN
      BY <1>1 DEF TypeOK
    <3>2. QED
      BY <1>1, <2>1, <2>2, <3>1, StateType DEF TypeOK, content
  <2>3. CASE /\ draggingIsEnabled' = TRUE /\ UNCHANGED menu
             /\ panBaseLocation' = IF isExpanded THEN RevealWidth ELSE 0
    BY <1>1, <2>1, <2>3 DEF TypeOK, content, menu
  <2>4. CASE UNCHANGED <<menu, draggingIsEnabled, panBaseLocation>>
    BY <1>1, <2>1, <2>4 DEF TypeOK, content, menu
  <2>5. QED
    BY <1>6, <2>2, <2>3, <2>4 DEF PanBegan
<1>7. ASSUME NEW t \in Translations, PanChanged(t) PROVE TypeOK'
  <2>1. t \in Int
    BY SideMenuAssumption
  <2>2. DragShadow(panBaseLocation + t) \in {"clear", "partial", "full"}
    BY DEF DragShadow
  <2>3. QED
    BY <1>1, <1>7, <2>1, <2>2 DEF TypeOK, PanChanged, gesture, content, RevealWidth
<1>8. CASE PanEnded
  <2>1. movedMoreThanHalf \in BOOLEAN
    BY DEF movedMoreThanHalf
  <2>2. QED
    BY <1>1, <1>8, <2>1, StateType DEF TypeOK, PanEnded, content
<1>9. CASE PanCancelled
  BY <1>1, <1>9 DEF TypeOK, PanCancelled, menu, content
<1>10. ASSUME NEW row \in Rows, selectedCell(row) PROVE TypeOK'
  <2>1. row \in 0..10
    BY SideMenuAssumption
  <2>2. HighlightAfter(row) \in -1..10
    BY <2>1 DEF HighlightAfter
  <2>3. QED
    BY <1>1, <1>10, <2>1, <2>2 DEF TypeOK, selectedCell, menu, gesture
<1>11. CASE AsyncCollapse
  <2>1. closes' \in Nat
    BY <1>1, <1>11 DEF TypeOK, AsyncCollapse
  <2>2. QED
    BY <1>1, <1>11, <2>1, StateType DEF TypeOK, AsyncCollapse, gesture, content
<1>12. CASE DismissSafari
  BY <1>1, <1>12 DEF TypeOK, DismissSafari, menu, gesture
<1>13. CASE UNCHANGED vars
  BY <1>1, <1>13 DEF TypeOK, vars, menu, gesture, content
<1>14. QED
  BY <1>1, <1>2, <1>3, <1>4, <1>5, <1>6, <1>7, <1>8, <1>9, <1>10, <1>11, <1>12, <1>13 DEF Next

\* MainViewController's state stays well typed.
THEOREM TypeCorrect == Spec => []TypeOK
BY TypeInit, TypeStep, PTL DEF Spec

-----------------------------------------------------------------------------
\* Starting to slide puts the menu where the last completion will say, if it
\* was so before or if no completion is outstanding.
LEMMA StatePlaces ==
  ASSUME TypeOK, NEW e \in BOOLEAN, sideMenuState(e),
         Placed \/ anims = <<>>
  PROVE  Placed'
<1>1. /\ constant' = (IF e THEN Expanded ELSE Collapsed)
      /\ shadow' = (IF e THEN "full" ELSE "clear")
  BY DEF sideMenuState
<1>2. CASE anims' = Append(anims, e)
  <2>1. anims' # <<>> /\ anims'[Len(anims')] = e
    BY <1>2 DEF TypeOK
  <2>2. QED
    BY <1>1, <2>1 DEF Placed, Desired
<1>3. CASE constant' = constant /\ isExpanded' = e /\ anims' = anims
  <2>1. anims # <<>> => anims[Len(anims)] \in BOOLEAN
    BY DEF TypeOK
  <2>2. Desired' = e
    BY <1>1, <1>3, <2>1 DEF Placed, Desired, Expanded, Collapsed, RevealWidth, Padding
  <2>3. QED
    BY <1>1, <2>2 DEF Placed
<1>4. QED
  BY <1>2, <1>3 DEF sideMenuState

\* The invariant holds at first and is kept by every step of a patient user.
LEMMA MenuStep ==
  ASSUME Hasty = FALSE
  PROVE  (Init => MenuInv) /\ (MenuInv /\ [Next]_vars => MenuInv')
<1>1. Init => MenuInv
  BY TypeInit DEF Init, MenuInv, Placed, Desired, DragAlone
<1>2. MenuInv /\ [Next]_vars => MenuInv'
  <2>1. SUFFICES ASSUME MenuInv, [Next]_vars
                 PROVE  (~draggingIsEnabled => Placed)' /\ DragAlone'
    BY TypeStep DEF MenuInv
  <2>2. TypeOK /\ TypeOK' /\ (~draggingIsEnabled => Placed) /\ DragAlone
    BY <2>1, TypeStep DEF MenuInv
  <2>3. UNCHANGED menu => Placed' = Placed
    BY DEF menu, Placed, Desired
  <2>4. MayTouch => anims = <<>> /\ ~pan /\ closes = 0
    BY DEF MayTouch, Still
  <2>5. CASE AnimationCompletes
    <3>1. anims # <<>> /\ isExpanded' = Head(anims) /\ anims' = Tail(anims)
          /\ UNCHANGED <<constant, shadow, draggingIsEnabled, pan, closes>>
      BY <2>5 DEF AnimationCompletes, gesture
    <3>2. Desired' = Desired
      BY <2>2, <3>1, LastOfTail DEF TypeOK, Desired
    <3>3. Placed' = Placed
      BY <3>1, <3>2 DEF Placed
    <3>4. QED
      BY <2>2, <3>1, <3>3 DEF DragAlone
  <2>6. CASE revealSideMenu
    <3>1. (~isExpanded) \in BOOLEAN
      BY <2>2 DEF TypeOK
    <3>2. ~draggingIsEnabled => Placed'
      BY <2>2, <2>6, <3>1, StatePlaces DEF revealSideMenu
    <3>3. QED
      BY <2>6, <3>2 DEF revealSideMenu, gesture, DragAlone
  <2>7. CASE viewWillTransition
    <3>1. /\ anims = <<>> /\ ~pan /\ UNCHANGED <<isExpanded, shadow, anims, draggingIsEnabled, pan, closes>>
          /\ constant' = IF isExpanded THEN Expanded ELSE Collapsed
      BY <2>7 DEF viewWillTransition, Still, gesture
    <3>2. QED
      BY <2>2, <3>1 DEF Placed, Desired, DragAlone
  <2>8. CASE TapGestureRecognizer
    <3>1. Placed'
      BY <2>2, <2>4, <2>8, StatePlaces DEF TapGestureRecognizer
    <3>2. QED
      BY <2>4, <2>8, <3>1 DEF TapGestureRecognizer, gesture, DragAlone
  <2>9. ASSUME NEW v \in Velocities, PanBegan(v)
        PROVE  (~draggingIsEnabled => Placed)' /\ DragAlone'
    <3>1. anims = <<>> /\ closes = 0 /\ closes' = closes
      BY <2>4, <2>9 DEF PanBegan
    <3>2. CASE sideMenuState(~isExpanded) /\ draggingIsEnabled' = FALSE
      <4>1. (~isExpanded) \in BOOLEAN
        BY <2>2 DEF TypeOK
      <4>2. Placed'
        BY <2>2, <3>1, <3>2, <4>1, StatePlaces
      <4>3. QED
        BY <3>2, <4>2 DEF DragAlone
    <3>3. CASE draggingIsEnabled' = TRUE /\ UNCHANGED menu
      BY <3>1, <3>3 DEF DragAlone, menu
    <3>4. CASE UNCHANGED <<menu, draggingIsEnabled, panBaseLocation>>
      BY <2>2, <2>3, <3>1, <3>4 DEF DragAlone, menu
    <3>5. QED
      BY <2>9, <3>2, <3>3, <3>4 DEF PanBegan
  <2>10. ASSUME NEW t \in Translations, PanChanged(t)
         PROVE  (~draggingIsEnabled => Placed)' /\ DragAlone'
    BY <2>2, <2>10 DEF PanChanged, gesture, DragAlone
  <2>11. CASE PanEnded
    <3>1. movedMoreThanHalf \in BOOLEAN
      BY DEF movedMoreThanHalf
    <3>2. Placed \/ anims = <<>>
      BY <2>2, <2>11 DEF PanEnded, DragAlone
    <3>3. Placed'
      BY <2>2, <2>11, <3>1, <3>2, StatePlaces DEF PanEnded
    <3>4. QED
      BY <2>11, <3>3 DEF PanEnded, DragAlone
  <2>12. CASE PanCancelled
    BY <2>2, <2>3, <2>12 DEF PanCancelled, DragAlone
  <2>13. ASSUME NEW row \in Rows, selectedCell(row)
         PROVE  (~draggingIsEnabled => Placed)' /\ DragAlone'
    BY <2>2, <2>3, <2>4, <2>13 DEF selectedCell, gesture, DragAlone
  <2>14. CASE AsyncCollapse
    <3>1. ~(pan /\ draggingIsEnabled)
      BY <2>2, <2>14 DEF AsyncCollapse, DragAlone, TypeOK
    <3>2. ~draggingIsEnabled => Placed'
      BY <2>2, <2>14, StatePlaces DEF AsyncCollapse
    <3>3. QED
      BY <2>14, <3>1, <3>2 DEF AsyncCollapse, gesture, DragAlone
  <2>15. CASE DismissSafari
    BY <2>2, <2>3, <2>15 DEF DismissSafari, gesture, menu, DragAlone
  <2>16. CASE UNCHANGED vars
    BY <2>2, <2>3, <2>16 DEF vars, gesture, menu, DragAlone
  <2>17. QED
    BY <2>1, <2>5, <2>6, <2>7, <2>8, <2>9, <2>10, <2>11, <2>12, <2>13, <2>14, <2>15, <2>16 DEF Next
<1>3. QED
  BY <1>1, <1>2

\* For a patient user, however the button is pressed during a slide and however
\* pans are interrupted, the flag and the menu agree at rest.
THEOREM FlagAndMenuAgree == Hasty = FALSE => (Spec => []MenuAgrees)
<1>1. ASSUME Hasty = FALSE PROVE Spec => []MenuAgrees
  <2>1. Init => MenuInv
    BY <1>1, MenuStep
  <2>2. MenuInv /\ [Next]_vars => MenuInv'
    BY <1>1, MenuStep
  <2>3. MenuInv => MenuAgrees
    BY DEF MenuInv, MenuAgrees, Placed, Desired, Still
  <2>4. QED
    BY <2>1, <2>2, <2>3, PTL DEF Spec
<1>2. QED
  BY <1>1

\* For a patient user a rotation neither opens nor closes the menu, which is
\* what the comment at MainViewController.swift:77 says of viewWillTransition.
THEOREM RotationIsNeutral == Hasty = FALSE => (Spec => RotationKeepsMenu)
<1>1. ASSUME Hasty = FALSE PROVE Spec => RotationKeepsMenu
  <2>1. Init => MenuInv
    BY <1>1, MenuStep
  <2>2. MenuInv /\ [Next]_vars => MenuInv'
    BY <1>1, MenuStep
  <2>3. MenuInv /\ [Next]_vars =>
          [viewWillTransition /\ ~draggingIsEnabled => UNCHANGED constant]_vars
    BY <1>1 DEF MenuInv, viewWillTransition, Still, Placed, Desired
  <2>4. QED
    BY <2>1, <2>2, <2>3, PTL DEF Spec, RotationKeepsMenu
<1>2. QED
  BY <1>1
=============================================================================
