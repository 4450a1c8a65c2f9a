-------------------------------- MODULE Intro --------------------------------
(***************************************************************************)
(* IntroVC: the onboarding of the iOS application.                          *)
(*                                                                          *)
(* A tap starts two animations of half a second, of the title and of the    *)
(* description, and each of them starts a second one when it ends; the end  *)
(* of the description's second one turns the page.  Nothing disables the    *)
(* screen meanwhile, so taps overlap.  The closures hold the controller,    *)
(* which therefore lives until the last of them has run, also after the     *)
(* main screen has taken its place.                                         *)
(***************************************************************************)
EXTENDS AppLife, Integers, Sequences

CONSTANTS
    Count,      \* items.count
    MaxTaps     \* bound: taps on the onboarding

ASSUME IntroAssumption == Count \in Nat \ {0} /\ MaxTaps \in Nat

VARIABLES
    root,          \* the window's root: "intro" or "main"
    currentPage,
    screen,        \* the item whose texts the labels have, the cover, and the labels' alpha
    taps,          \* the taps whose animations run, the oldest first
    tapped,        \* history: the number of taps
    patient        \* history: no tap met an animation

intro == <<root, currentPage, screen, taps, tapped, patient>>

(* title: the first animation of the title runs; phase: that of the description. *)
Tap == [title |-> TRUE, phase |-> 1]

-----------------------------------------------------------------------------
(* The texts of a page, without the rest. *)
setupScreen_texts(index) ==
    [screen EXCEPT !.text = index, !.cover = index]

(* Texts, cover, and both labels back in their place. *)
setupScreen(index) ==
    [text |-> index, cover |-> index, title |-> "there", desc |-> "there"]

IntroInit ==
    /\ currentPage = 0
    /\ screen = [text |-> 0, cover |-> 0, title |-> "there", desc |-> "there"]
    /\ taps = <<>>
    /\ tapped = 0
    /\ patient = TRUE

(* A tap that meets an animation is lost. *)
handleTapAnimation_loses ==
    /\ root = "intro"
    /\ tapped < MaxTaps
    /\ IF taps = <<>>
         THEN taps' = <<Tap>> /\ screen' = [screen EXCEPT !.title = "moving", !.desc = "moving"]
         ELSE UNCHANGED <<taps, screen>>
    /\ tapped' = tapped + 1
    /\ patient' = (patient /\ taps = <<>>)
    /\ UNCHANGED <<root, currentPage, crash>>

handleTapAnimation ==
    /\ root = "intro"
    /\ tapped < MaxTaps
    /\ taps' = Append(taps, Tap)
    /\ screen' = [screen EXCEPT !.title = "moving", !.desc = "moving"]
    /\ tapped' = tapped + 1
    /\ patient' = (patient /\ taps = <<>>)
    /\ UNCHANGED <<root, currentPage, crash>>

Oldest(k, Waiting(_)) == Waiting(taps[k]) /\ \A j \in 1..(k - 1) : ~Waiting(taps[j])
InTitle(t)  == t.title
InPhase1(t) == t.phase = 1

(* The title's first animation ends, and the second takes the title away. *)
TitleMoved(k) ==
    /\ Oldest(k, InTitle)
    /\ taps' = [taps EXCEPT ![k].title = FALSE]
    /\ screen' = [screen EXCEPT !.title = "away"]
    /\ UNCHANGED <<root, currentPage, tapped, patient, crash>>

(* The description's first animation ends: the next cover, if there is one, and
   the second animation. *)
DescMoved(k) ==
    /\ Oldest(k, InPhase1)
    /\ taps' = [taps EXCEPT ![k].phase = 2]
    /\ screen' = [screen EXCEPT !.desc = "away",
                                !.cover = IF currentPage < Count - 1 THEN currentPage + 1 ELSE @]
    /\ UNCHANGED <<root, currentPage, tapped, patient, crash>>

(* The last page is taken for the end. *)
lastItem_early(page) == page = Count - 1

lastItem(page) == page = Count

(* The description's second animation ends, half a second after the first ones:
   the page is turned, or the main screen becomes the root. *)
DescGone ==
    /\ taps # <<>>
    /\ Head(taps) = [title |-> FALSE, phase |-> 2]
    /\ taps' = Tail(taps)
    /\ currentPage' = currentPage + 1
    /\ IF lastItem(currentPage')
         THEN root' = "main" /\ UNCHANGED <<screen, crash>>
         ELSE /\ UNCHANGED root
              /\ IF currentPage' < Count
                   THEN screen' = setupScreen(currentPage') /\ UNCHANGED crash
                   ELSE crash' = "no item" /\ UNCHANGED screen
    /\ UNCHANGED <<tapped, patient>>

(* The ends of animations; they come also when the view has left the window. *)
Animations == DescGone \/ \E k \in DOMAIN taps : TitleMoved(k) \/ DescMoved(k)

IntroVC == handleTapAnimation \/ Animations
=============================================================================
