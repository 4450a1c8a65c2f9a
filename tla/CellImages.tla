------------------------------ MODULE CellImages ------------------------------
(***************************************************************************)
(* The cells of a page of the iOS application and the details they open:    *)
(* cellForItemAt, Tapped, MenuViewCell and DetailsVC.                       *)
(*                                                                          *)
(* A collection view takes a cell off a row that scrolls out, and gives it  *)
(* to one that scrolls in.  Each time the cell is filled, a request for the *)
(* item's poster is sent whose answer is put into that cell, whichever item *)
(* it shows by then.                                                        *)
(***************************************************************************)
EXTENDS AppLife, Integers, Sequences

CONSTANTS
    Items,       \* the deals; an item stands also for its poster and its banner
    Lists,       \* the lists the feed may draw
    MaxCells,    \* bound: cells the collection view makes
    MaxAsked     \* bound: requests under way for one cell, or for banners

ASSUME CellAssumption ==
    /\ "none" \notin Items /\ "placeholder" \notin Items
    /\ Lists \subseteq Seq(Items)
    /\ MaxCells \in Nat /\ MaxAsked \in Nat

VARIABLES
    itemList,    \* the page's list
    cells,       \* the cells made so far
    details,     \* the item whose details are presented, or "none"
    banners      \* requests for banners under way

pages == <<itemList, cells, details, banners>>

Placeholder == "placeholder"
NoImage     == "none"

(* row 0: the cell waits to be used again; item: whose texts it has; asked: how
   many requests for each poster are under way; overtaken is history: it was filled while the poster of
   another item was under way. *)
NewCell == [row |-> 0, item |-> "none", image |-> Placeholder, asked |-> [i \in Items |-> 0],
            overtaken |-> FALSE]

CellsInit == itemList = <<>> /\ cells = <<>> /\ details = "none" /\ banners = 0

-----------------------------------------------------------------------------
(* The list changes and the view is not told. *)
drawDeals_noReload ==
    /\ itemList' \in Lists
    /\ UNCHANGED <<cells, details, banners, crash>>

(* loadDeals: the list is replaced and the view reloaded: its cells are free. *)
drawDeals ==
    /\ itemList' \in Lists
    /\ cells' = [c \in DOMAIN cells |-> [cells[c] EXCEPT !.row = 0]]
    /\ UNCHANGED <<details, banners, crash>>

(* The old picture is kept. *)
prepareForReuse_keeps(cell) == cell

prepareForReuse(cell) == [cell EXCEPT !.image = Placeholder]

(* The cell shows this item, and its poster is asked for. *)
Filled(cell, row, item) ==
    [cell EXCEPT !.row = row, !.item = item, !.asked[item] = @ + 1,
                 !.overtaken = \E other \in Items \ {item} : cell.asked[other] > 0]

Showing(row) == \E c \in DOMAIN cells : cells[c].row = row

(* A row comes into view; the cell is one that is free, or a new one. *)
cellForItemAt(row) ==
    /\ row <= Len(itemList)
    /\ ~Showing(row)
    /\ \/ \E c \in DOMAIN cells :
             /\ cells[c].row = 0
             /\ \A i \in Items : cells[c].asked[i] < MaxAsked
             /\ cells' = [cells EXCEPT ![c] = Filled(prepareForReuse(@), row, itemList[row])]
       \/ /\ Len(cells) < MaxCells
          /\ cells' = Append(cells, Filled(NewCell, row, itemList[row]))
    /\ UNCHANGED <<itemList, details, banners, crash>>

ScrollsOut(c) ==
    /\ cells[c].row # 0
    /\ cells' = [cells EXCEPT ![c].row = 0]
    /\ UNCHANGED <<itemList, details, banners, crash>>

(* The answers to a request. *)
Answered(c, poster, image) ==
    /\ cells' = [cells EXCEPT ![c].asked[poster] = @ - 1, ![c].image = image]
    /\ UNCHANGED <<itemList, details, banners, crash>>

(* A body, an image or not; no body, which is unwrapped by force; no answer. *)
PosterAnswered(c, poster) ==
    /\ cells[c].asked[poster] > 0
    /\ \/ Answered(c, poster, poster)
       \/ Answered(c, poster, NoImage)
       \/ Answered(c, poster, Placeholder)
       \/ crash' = "no body" /\ UNCHANGED pages

(* A tap on a cell: the view is asked for the row, the list for the item, whose
   details are presented and ask for its banner. *)
Tapped(c) ==
    /\ details = "none"
    /\ cells[c].row # 0
    /\ banners < MaxAsked
    /\ IF cells[c].row <= Len(itemList)
         THEN /\ details' = itemList[cells[c].row]
              /\ banners' = banners + 1
              /\ UNCHANGED crash
         ELSE crash' = "no row" /\ UNCHANGED <<details, banners>>
    /\ UNCHANGED <<itemList, cells>>

(* A tap between the cells, where there is no row to unwrap. *)
TappedBeside ==
    /\ details = "none"
    /\ crash' = "no cell"
    /\ UNCHANGED pages

(* DetailsVC: the answer is put into the screen that asked, which the closure
   holds; the body is unwrapped by force. *)
BannerAnswered ==
    /\ banners > 0
    /\ \/ banners' = banners - 1 /\ UNCHANGED <<itemList, cells, details, crash>>
       \/ crash' = "no body" /\ UNCHANGED pages

backBtn ==
    /\ details # "none"
    /\ details' = "none"
    /\ UNCHANGED <<itemList, cells, banners, crash>>

PageVC ==
    \/ drawDeals
    \/ \E row \in 1..Len(itemList) : cellForItemAt(row)
    \/ \E c \in DOMAIN cells :
          \/ ScrollsOut(c) \/ Tapped(c)
          \/ \E poster \in Items : PosterAnswered(c, poster)
    \/ TappedBeside \/ BannerAnswered \/ backBtn
=============================================================================
