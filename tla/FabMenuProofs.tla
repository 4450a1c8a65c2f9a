---------------------------- MODULE FabMenuProofs ----------------------------
(***************************************************************************)
(* Theorems about the floating menu for every pair of heights, every number *)
(* of taps and every path the views take between two frames.                *)
(***************************************************************************)
EXTENDS FabMenu, TLAPS

(* A view that does not move is where its last movement took it. *)
Arrived == \A v \in Views : v \notin moving => pos[v] = target[v]

(* The movement of an open menu ends with the entries apart and raised. *)
OpenTargets ==
    isFABOpen => /\ target["fabLayout2"] - target["fabLayout3"] = Far - Near
                 /\ target["fabLayout2"] < 0

(* A closed menu is on its way to zero, and its entries are hidden already or
   the listener that will hide them is on fabLayout3's running animator. *)
ClosedTargets ==
    ~isFABOpen => /\ veil = "GONE"
                  /\ \A v \in Views : target[v] = 0
                  /\ entries = "GONE" \/ (listener /\ "fabLayout3" \in moving)

(* The entries are never below the place they start from. *)
NeverBelow == pos["fabLayout2"] <= 0

FabInv ==
    /\ TypeOK
    /\ Arrived
    /\ OpenIsVisible
    /\ OpenTargets
    /\ ClosedTargets
    /\ NeverBelow

-----------------------------------------------------------------------------
(* Init of HomeFragment's menu establishes the invariant. *)
LEMMA FabInit == Init => FabInv
<1>1. SUFFICES ASSUME Init PROVE FabInv
  OBVIOUS
<1>2. /\ pos = [v \in Views |-> 0] /\ target = [v \in Views |-> 0]
      /\ pos \in [Views -> Int] /\ pos["fabLayout2"] = 0
  BY <1>1 DEF Init, Views
<1>3. TypeOK
  BY <1>1, <1>2 DEF Init, TypeOK, Visibility
<1>4. Arrived /\ ClosedTargets /\ NeverBelow
  BY <1>1, <1>2 DEF Init, Arrived, ClosedTargets, NeverBelow
<1>5. OpenIsVisible /\ OpenTargets
  BY <1>1 DEF Init, OpenIsVisible, OpenTargets
<1>6. QED
  BY <1>3, <1>4, <1>5 DEF FabInv

(* showFABMenu keeps it, from any heights the views are at. *)
LEMMA ShowKeeps ==
    ASSUME FabInv, showFABMenu, taps' \in Nat, hurried' \in BOOLEAN
    PROVE  FabInv'
<1>1. /\ pos' = pos /\ moving' = Views /\ listener' = listener
      /\ isFABOpen' = TRUE /\ veil' = "VISIBLE" /\ entries' = "VISIBLE"
  BY DEF showFABMenu, onAnimationEnd
<1>2. /\ pos \in [Views -> Int] /\ pos["fabLayout2"] \in Int /\ pos["fab"] \in Int
      /\ pos["fabLayout2"] <= 0
  BY DEF FabInv, TypeOK, Views, NeverBelow
<1>3. /\ target' = [fab        |-> pos["fab"] + HalfTurn,
                    fabLayout2 |-> pos["fabLayout2"] - Near,
                    fabLayout3 |-> pos["fabLayout2"] - Far]
      /\ target' \in [Views -> Int]
  BY <1>2, FabAssumption DEF showFABMenu, Views
<1>4. TypeOK'
  BY <1>1, <1>2, <1>3 DEF FabInv, TypeOK, Visibility
<1>5. OpenTargets'
  BY <1>2, <1>3, FabAssumption DEF OpenTargets
<1>6. QED
  BY <1>1, <1>2, <1>4, <1>5
     DEF FabInv, Arrived, OpenIsVisible, ClosedTargets, NeverBelow

(* closeFABMenu keeps it, whichever listener the cancelled movement reports to. *)
LEMMA CloseKeeps ==
    ASSUME FabInv, closeFABMenu, taps' \in Nat, hurried' \in BOOLEAN
    PROVE  FabInv'
<1>1. /\ pos' = pos /\ moving' = Views /\ listener' = TRUE
      /\ isFABOpen' = FALSE /\ veil' = "GONE" /\ entries' \in Visibility
      /\ target' = [v \in Views |-> 0]
  BY DEF closeFABMenu, onAnimationEnd, FabInv, TypeOK, Visibility
<1>2. TypeOK'
  <2>1. target' \in [Views -> Int] /\ "GONE" \in Visibility
    BY <1>1 DEF Visibility
  <2>2. QED
    BY <1>1, <2>1 DEF FabInv, TypeOK
<1>3. ClosedTargets'
  BY <1>1 DEF ClosedTargets, Views
<1>4. QED
  BY <1>1, <1>2, <1>3
     DEF FabInv, Arrived, OpenIsVisible, OpenTargets, NeverBelow

(* A frame of a movement keeps it. *)
LEMMA FrameKeeps ==
    ASSUME FabInv, NEW v \in Views, AnimationFrame(v)
    PROVE  FabInv'
<1>1. PICK p \in Way(pos[v], target[v]) \ {pos[v], target[v]} :
          pos' = [pos EXCEPT ![v] = p]
  BY DEF AnimationFrame
<1>2. /\ v \in moving
      /\ UNCHANGED <<isFABOpen, entries, veil, target, moving, listener, taps, hurried>>
  BY DEF AnimationFrame
<1>3. /\ pos[v] \in Int /\ target[v] \in Int /\ p \in Int
      /\ p <= pos[v] \/ p <= target[v]
  BY <1>1 DEF Way, FabInv, TypeOK
<1>4. target["fabLayout2"] <= 0
  BY DEF FabInv, TypeOK, OpenTargets, ClosedTargets, Views
<1>5. pos'["fabLayout2"] <= 0
  BY <1>1, <1>3, <1>4 DEF FabInv, TypeOK, NeverBelow, Views
<1>6. TypeOK'
  BY <1>1, <1>2, <1>3 DEF FabInv, TypeOK
<1>7. Arrived'
  BY <1>1, <1>2 DEF FabInv, TypeOK, Arrived
<1>8. QED
  BY <1>2, <1>5, <1>6, <1>7
     DEF FabInv, OpenIsVisible, OpenTargets, ClosedTargets, NeverBelow

(* The end of a movement keeps it: the listener hides a closed menu only. *)
LEMMA EndKeeps ==
    ASSUME FabInv, NEW v \in Views, AnimationEnds(v)
    PROVE  FabInv'
<1>1. /\ v \in moving /\ moving' = moving \ {v}
      /\ pos' = [pos EXCEPT ![v] = target[v]]
      /\ entries' = (IF listener /\ v = "fabLayout3" /\ ~isFABOpen THEN "GONE" ELSE entries)
      /\ UNCHANGED <<isFABOpen, veil, target, listener, taps, hurried>>
  BY DEF AnimationEnds, onAnimationEnd
<1>2. target["fabLayout2"] <= 0
  BY DEF FabInv, TypeOK, OpenTargets, ClosedTargets, Views
<1>3. pos'["fabLayout2"] <= 0
  BY <1>1, <1>2 DEF FabInv, TypeOK, NeverBelow, Views
<1>4. TypeOK'
  BY <1>1 DEF FabInv, TypeOK, Visibility
<1>5. Arrived'
  BY <1>1 DEF FabInv, TypeOK, Arrived
<1>6. OpenIsVisible' /\ OpenTargets'
  BY <1>1 DEF FabInv, OpenIsVisible, OpenTargets
<1>7. ClosedTargets'
  BY <1>1 DEF FabInv, ClosedTargets
<1>8. QED
  BY <1>3, <1>4, <1>5, <1>6, <1>7 DEF FabInv, NeverBelow

(* Every step of the menu keeps the invariant. *)
LEMMA FabStep == FabInv /\ [Next]_vars => FabInv'
<1>1. SUFFICES ASSUME FabInv, [Next]_vars PROVE FabInv'
  OBVIOUS
<1>2. ASSUME Tap PROVE taps' \in Nat /\ hurried' \in BOOLEAN
  BY <1>1, <1>2 DEF Tap, FabInv, TypeOK
<1>3. CASE TapFab
  BY <1>1, <1>2, <1>3, ShowKeeps, CloseKeeps DEF TapFab
<1>4. CASE TapVeil
  BY <1>1, <1>2, <1>4, CloseKeeps DEF TapVeil
<1>5. ASSUME NEW v \in Views, AnimationFrame(v) \/ AnimationEnds(v) PROVE FabInv'
  BY <1>1, <1>5, FrameKeeps, EndKeeps
<1>6. CASE UNCHANGED vars
  BY <1>1, <1>6 DEF vars, FabInv, TypeOK, Arrived, OpenIsVisible, OpenTargets,
                    ClosedTargets, NeverBelow
<1>7. QED
  BY <1>1, <1>3, <1>4, <1>5, <1>6 DEF Next

(* At rest the invariant says what the user sees. *)
LEMMA FabAtRest == FabInv => ClosedLeavesNoTrace /\ EntriesApart
<1>1. SUFFICES ASSUME FabInv PROVE ClosedLeavesNoTrace /\ EntriesApart
  OBVIOUS
<1>2. ASSUME moving = {} PROVE \A v \in Views : pos[v] = target[v]
  BY <1>1, <1>2 DEF FabInv, Arrived
<1>3. ClosedLeavesNoTrace
  BY <1>1, <1>2 DEF FabInv, TypeOK, ClosedTargets, ClosedLeavesNoTrace
<1>4. EntriesApart
  BY <1>1, <1>2 DEF FabInv, OpenTargets, EntriesApart, Views
<1>5. QED
  BY <1>3, <1>4

(* The state of HomeFragment's menu is well typed, and no entry is left to a
   visibility that the code does not set. *)
THEOREM TypeCorrect == Spec => []TypeOK
<1>1. FabInv => TypeOK
  BY DEF FabInv
<1>2. QED
  BY <1>1, FabInit, FabStep, PTL DEF Spec

(* However the taps fall, an open menu is visible: the listener of closeFABMenu
   never hides entries that showFABMenu has shown again. *)
THEOREM OpenStaysVisible == Spec => []OpenIsVisible
<1>1. FabInv => OpenIsVisible
  BY DEF FabInv
<1>2. QED
  BY <1>1, FabInit, FabStep, PTL DEF Spec

(* However the taps fall, closing leaves nothing behind: every view of
   HomeFragment's menu returns to zero and the entries are gone. *)
THEOREM ClosingIsClean == Spec => []ClosedLeavesNoTrace
BY FabInit, FabStep, FabAtRest, PTL DEF Spec

(* However the taps fall, the two entries of showFABMenu end up apart. *)
THEOREM EntriesStayApart == Spec => []EntriesApart
BY FabInit, FabStep, FabAtRest, PTL DEF Spec

-----------------------------------------------------------------------------
(* An opening that no tap has met goes to the two heights and the half turn, and
   a closing that no tap has met ends before the next opening begins. *)
Heights == [fab |-> HalfTurn, fabLayout2 |-> -Near, fabLayout3 |-> -Far]
CalmTargets == isFABOpen /\ ~hurried => target = Heights

(* A tap that opens a menu at rest finds every view at zero. *)
LEMMA CalmStep == FabInv /\ CalmTargets /\ [Next]_vars => CalmTargets'
<1>1. SUFFICES ASSUME FabInv, CalmTargets, [Next]_vars PROVE CalmTargets'
  OBVIOUS
<1>2. CASE TapFab /\ ~isFABOpen /\ ~hurried'
  <2>1. moving = {} /\ showFABMenu
    BY <1>2 DEF TapFab, Tap
  <2>2. pos = [v \in Views |-> 0]
    BY <1>1, <1>2, <2>1, FabAtRest DEF ClosedLeavesNoTrace
  <2>3. pos["fab"] = 0 /\ pos["fabLayout2"] = 0
    BY <2>2 DEF Views
  <2>4. 0 + HalfTurn = HalfTurn /\ 0 - Near = -Near /\ 0 - Far = -Far
    BY FabAssumption
  <2>5. QED
    BY <2>1, <2>3, <2>4 DEF showFABMenu, CalmTargets, Heights
<1>3. CASE TapFab /\ ~isFABOpen /\ hurried'
  BY <1>3 DEF CalmTargets
<1>4. CASE (TapFab /\ isFABOpen) \/ TapVeil
  BY <1>4 DEF TapFab, TapVeil, closeFABMenu, CalmTargets
<1>5. ASSUME NEW v \in Views, AnimationFrame(v) \/ AnimationEnds(v) PROVE CalmTargets'
  BY <1>1, <1>5 DEF AnimationFrame, AnimationEnds, CalmTargets, Heights
<1>6. CASE UNCHANGED vars
  BY <1>1, <1>6 DEF vars, CalmTargets, Heights
<1>7. QED
  BY <1>1, <1>2, <1>3, <1>4, <1>5, <1>6 DEF Next

(* The heights of showFABMenu are the same whenever no tap met the movement:
   baseTranslation is zero whenever the menu opens from rest, whatever taps
   came before. *)
THEOREM CalmHeights == Spec => []OpensToHeight
<1>1. Init => CalmTargets
  BY DEF Init, CalmTargets
<1>2. FabInv /\ CalmTargets => OpensToHeight
  <2>1. SUFFICES ASSUME FabInv, CalmTargets, isFABOpen, moving = {}, ~hurried
                 PROVE  pos = Heights
    BY DEF OpensToHeight, Heights
  <2>2. \A v \in Views : pos[v] = target[v]
    BY <2>1 DEF FabInv, Arrived
  <2>3. QED
    BY <2>1, <2>2 DEF FabInv, TypeOK, CalmTargets
<1>3. QED
  BY <1>1, <1>2, FabInit, FabStep, CalmStep, PTL DEF Spec
=============================================================================
