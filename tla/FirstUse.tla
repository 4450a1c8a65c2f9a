------------------------------- MODULE FirstUse -------------------------------
(***************************************************************************)
(* The onboarding of the iOS application and the pages it opens.  The       *)
(* closures of the onboarding run on after the main screen has replaced it. *)
(*                                                                          *)
(* In this commit the storyboard begins with the main screen and no scene   *)
(* leads to IntroVC; both beginnings are modelled.                          *)
(***************************************************************************)
EXTENDS Intro, CellImages

vars == <<intro, pages, crash>>

Init ==
    /\ root \in {"intro", "main"}
    /\ crash = "nothing"
    /\ IntroInit
    /\ CellsInit

IntroStep == Running /\ IntroVC /\ UNCHANGED pages
PageStep  == Running /\ root = "main" /\ PageVC /\ UNCHANGED intro

Next == IntroStep \/ PageStep

(* Animations end; nothing is assumed of the user, the feed or the servers. *)
Spec == Init /\ [][Next]_vars /\ WF_vars(Running /\ Animations /\ UNCHANGED pages)

-----------------------------------------------------------------------------
Labels == {"there", "moving", "away"}
Images == Items \cup {Placeholder, NoImage}

(* The state is well typed. *)
TypeOK ==
    /\ root \in {"intro", "main"}
    /\ currentPage \in Nat
    /\ screen \in [text : 0..(Count - 1), cover : 0..(Count - 1), title : Labels, desc : Labels]
    /\ taps \in Seq([title : BOOLEAN, phase : {1, 2}])
    /\ tapped \in Nat /\ patient \in BOOLEAN
    /\ itemList \in Seq(Items)
    /\ cells \in Seq([row : Nat, item : Items, image : Images, asked : [Items -> Nat],
                      overtaken : BOOLEAN])
    /\ details \in Items \cup {"none"} /\ banners \in Nat
    /\ crash \in {"nothing", "no item", "no cell", "no row", "no body"}

(* However the taps overlapped, an onboarding at rest shows one page, whole: the
   texts, the cover and currentPage agree and both labels are in their place. *)
RestShowsPage ==
    Running /\ root = "intro" /\ taps = <<>> =>
        screen = [text |-> currentPage, cover |-> currentPage, title |-> "there", desc |-> "there"]

(* As many taps as there are pages lead to the main screen. *)
OpensApp == (root = "intro" /\ tapped >= Count) ~> (root = "main")

(* What can end the application: a tap that met an animation, and came after as
   many as there are pages; a tap beside the cells; an answer without a body.  A
   row is never past the list. *)
OnlyKnownCrashes ==
    \/ crash \in {"nothing", "no cell", "no body"}
    \/ crash = "no item" /\ tapped > Count /\ ~patient

(* The cell on a row has the texts of that row's item, and no row has two cells,
   so that the details a tap opens are those of the deal that is seen. *)
CellsFollowList ==
    \A c \in DOMAIN cells : cells[c].row # 0 =>
        /\ cells[c].row <= Len(itemList) /\ cells[c].item = itemList[cells[c].row]
        /\ \A d \in DOMAIN cells : cells[d].row = cells[c].row => d = c

(* The picture in a cell is its item's, or none, unless the cell was used again
   while the poster of another item was under way. *)
OwnImageUnlessOvertaken ==
    \A c \in DOMAIN cells :
        cells[c].overtaken \/ cells[c].image \in {cells[c].item, Placeholder, NoImage}
=============================================================================
