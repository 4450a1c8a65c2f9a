--------------------------- MODULE FirstUseProofs ---------------------------
(* Proofs about FirstUse, for any number of pages and taps, any deals and lists,
   and any number of cells and requests. *)
EXTENDS FirstUse, TLAPS

ScreenType == [text : 0..(Count - 1), cover : 0..(Count - 1), title : Labels, desc : Labels]
TapType    == [title : BOOLEAN, phase : {1, 2}]
CellType   == [row : Nat, item : Items, image : Images, asked : [Items -> Nat],
               overtaken : BOOLEAN]

(* Every tap ends as a page. *)
Counted == currentPage + Len(taps) = tapped

(* The onboarding is on the screen before its last page is turned, and a user who
   waits for the animations starts none after that. *)
OnPages == Running /\ root = "intro" => currentPage < Count
Waits   == patient => Len(taps) <= 1 /\ (Len(taps) > 0 => root = "intro")

IntroTyped ==
    /\ root \in {"intro", "main"}
    /\ currentPage \in Nat
    /\ screen \in ScreenType
    /\ taps \in Seq(TapType)
    /\ tapped \in Nat /\ patient \in BOOLEAN

IntroInv == IntroTyped /\ Counted /\ OnPages /\ Waits /\ RestShowsPage

(* What holds of one cell at any time: while no other poster is under way, none
   can come into it. *)
Own(c) == c.overtaken \/ /\ c.image \in {c.item, Placeholder, NoImage}
                         /\ \A j \in Items : j # c.item => c.asked[j] = 0

CellsInv ==
    /\ cells \in Seq(CellType)
    /\ \A c \in DOMAIN cells : Own(cells[c])

PageTyped ==
    /\ itemList \in Seq(Items)
    /\ details \in Items \cup {"none"} /\ banners \in Nat

CrashInv == crash \in {"nothing", "no item", "no cell", "no body"} /\ OnlyKnownCrashes

FirstInv == IntroInv /\ CellsInv /\ PageTyped /\ CellsFollowList /\ CrashInv

-----------------------------------------------------------------------------
LEMMA FirstInit == Init => FirstInv
<1> SUFFICES ASSUME Init PROVE FirstInv
  OBVIOUS
<1>1. Count \in Nat /\ Count > 0 /\ 0 \in 0..(Count - 1)
  BY IntroAssumption
<1>2. screen \in ScreenType
  BY <1>1 DEF Init, IntroInit, ScreenType, Labels
<1>3. IntroInv
  BY <1>1, <1>2 DEF Init, IntroInit, IntroInv, IntroTyped, Counted, OnPages, Waits, RestShowsPage
<1>4. CellsInv /\ PageTyped /\ CellsFollowList /\ CrashInv
  BY DEF Init, CellsInit, CellsInv, PageTyped, CellsFollowList, CrashInv, OnlyKnownCrashes
<1> QED
  BY <1>3, <1>4 DEF FirstInv

(* The onboarding leaves the pages alone. *)
LEMMA PagesStay ==
    ASSUME FirstInv, UNCHANGED pages, CrashInv', IntroInv'
    PROVE  FirstInv'
  BY DEF FirstInv, pages, CellsInv, PageTyped, CellsFollowList

(* An animation moves on: the number of taps stays. *)
LEMMA TapMoves ==
    ASSUME FirstInv, Running, NEW k \in DOMAIN taps, NEW t \in TapType,
           taps' = [taps EXCEPT ![k] = t], screen' \in ScreenType,
           UNCHANGED <<root, currentPage, tapped, patient, crash, pages>>
    PROVE  FirstInv'
<1>1. taps \in Seq(TapType) /\ taps' \in Seq(TapType) /\ Len(taps') = Len(taps) /\ Len(taps) > 0
  BY DEF FirstInv, IntroInv, IntroTyped
<1>2. taps' # <<>>
  BY <1>1
<1>3. IntroInv'
  BY <1>1, <1>2 DEF FirstInv, IntroInv, IntroTyped, Counted, OnPages, Waits, RestShowsPage, Running
<1>4. CrashInv'
  BY DEF FirstInv, CrashInv, OnlyKnownCrashes
<1> QED
  BY <1>3, <1>4, PagesStay

LEMMA IntroKeeps ==
    ASSUME FirstInv, Running, IntroVC, UNCHANGED pages
    PROVE  FirstInv'
<1>1. /\ Count \in Nat /\ Count > 0 /\ currentPage \in Nat /\ tapped \in Nat
      /\ taps \in Seq(TapType) /\ Len(taps) \in Nat /\ screen \in ScreenType
      /\ currentPage + Len(taps) = tapped
  BY IntroAssumption DEF FirstInv, IntroInv, IntroTyped, Counted
<1>n. Count \in Nat /\ currentPage \in Nat /\ tapped \in Nat /\ Len(taps) \in Nat
      /\ currentPage + Len(taps) = tapped
  BY <1>1
<1>p. root = "intro" => currentPage < Count
  BY DEF FirstInv, IntroInv, OnPages
<1>q. patient /\ Len(taps) > 0 => root = "intro"
  BY DEF FirstInv, IntroInv, Waits
<1>b. patient \in BOOLEAN /\ root \in {"intro", "main"}
  BY DEF FirstInv, IntroInv, IntroTyped
<1>2. CASE handleTapAnimation
  <2>1. screen' \in ScreenType
    BY <1>1, <1>2 DEF handleTapAnimation, ScreenType, Labels
  <2>2. Tap \in TapType
    BY DEF Tap, TapType
  <2>3. taps' \in Seq(TapType) /\ Len(taps') = Len(taps) + 1 /\ taps' # <<>>
    <3> HIDE DEF Tap
    <3>1. taps' = Append(taps, Tap)
      BY <1>2 DEF handleTapAnimation
    <3> QED
      BY <1>1, <2>2, <3>1
  <2>4. patient' => Len(taps) = 0
    <3>1. patient' => taps = <<>>
      BY <1>2, Zenon DEF handleTapAnimation
    <3> QED
      BY <3>1
  <2>5. IntroInv'
    <3>1. IntroTyped'
      <4>1. patient' \in BOOLEAN
        BY <1>2 DEF handleTapAnimation
      <4>2. UNCHANGED <<root, currentPage>> /\ tapped' = tapped + 1
        BY <1>2 DEF handleTapAnimation
      <4> QED
        BY <1>n, <1>b, <2>1, <2>3, <4>1, <4>2 DEF IntroTyped
    <3>2. Counted' /\ OnPages' /\ RestShowsPage'
      <4>1. UNCHANGED <<root, currentPage, crash>> /\ tapped' = tapped + 1
        BY <1>2 DEF handleTapAnimation
      <4> QED
        BY <1>n, <1>p, <2>3, <4>1 DEF Counted, OnPages, RestShowsPage, Running
    <3>3. Waits'
      <4>1. root' = "intro"
        BY <1>2 DEF handleTapAnimation
      <4> QED
        BY <1>n, <2>3, <2>4, <4>1 DEF Waits
    <3> QED
      BY <3>1, <3>2, <3>3 DEF IntroInv
  <2>6. CrashInv'
    BY <1>2 DEF handleTapAnimation, FirstInv, CrashInv, OnlyKnownCrashes, Running
  <2> QED
    BY <2>5, <2>6, PagesStay
<1>3. ASSUME NEW k \in DOMAIN taps, TitleMoved(k) PROVE FirstInv'
  <2> DEFINE t == [taps[k] EXCEPT !.title = FALSE]
  <2>1. taps[k] \in TapType
    BY <1>1
  <2>2. t \in TapType /\ taps' = [taps EXCEPT ![k] = t]
    BY <1>3, <2>1 DEF TitleMoved, TapType
  <2>3. screen' \in ScreenType
    BY <1>1, <1>3 DEF TitleMoved, ScreenType, Labels
  <2>4. UNCHANGED <<root, currentPage, tapped, patient, crash, pages>>
    BY <1>3 DEF TitleMoved
  <2> HIDE DEF t
  <2> QED
    BY <2>2, <2>3, <2>4, TapMoves
<1>4. ASSUME NEW k \in DOMAIN taps, DescMoved(k) PROVE FirstInv'
  <2> DEFINE t == [taps[k] EXCEPT !.phase = 2]
             n == IF currentPage < Count - 1 THEN currentPage + 1 ELSE screen.cover
  <2>1. taps[k] \in TapType
    BY <1>1
  <2>2. t \in TapType /\ taps' = [taps EXCEPT ![k] = t]
    BY <1>4, <2>1 DEF DescMoved, TapType
  <2>3. n \in 0..(Count - 1)
    BY <1>1 DEF ScreenType
  <2>4. screen' = [screen EXCEPT !.desc = "away", !.cover = n]
    BY <1>4 DEF DescMoved
  <2>5. screen' \in ScreenType
    <3> HIDE DEF n
    <3> QED
      BY <1>1, <2>3, <2>4 DEF ScreenType, Labels
  <2>6. UNCHANGED <<root, currentPage, tapped, patient, crash, pages>>
    BY <1>4 DEF DescMoved
  <2> HIDE DEF t
  <2> QED
    BY <2>2, <2>5, <2>6, TapMoves
<1>5. CASE DescGone
  <2>1. /\ taps' = Tail(taps) /\ currentPage' = currentPage + 1 /\ Len(taps) > 0
        /\ UNCHANGED <<tapped, patient>>
    <3>1. taps # <<>>
      BY <1>5 DEF DescGone
    <3>2. Len(taps) > 0
      BY <1>1, <3>1
    <3> QED
      BY <1>5, <3>2 DEF DescGone
  <2>2. taps' \in Seq(TapType) /\ Len(taps') = Len(taps) - 1
    BY <1>1, <2>1
  <2>3. \/ currentPage + 1 = Count /\ root' = "main" /\ UNCHANGED <<screen, crash>>
        \/ currentPage + 1 < Count /\ screen' = setupScreen(currentPage + 1) /\ UNCHANGED <<root, crash>>
        \/ currentPage + 1 > Count /\ crash' = "no item" /\ UNCHANGED <<root, screen>>
    <3> DEFINE n == currentPage + 1
    <3>1. n = Count \/ n < Count \/ (n > Count /\ n # Count /\ ~(n < Count))
      BY <1>n
    <3>2. n < Count => n # Count
      BY <1>n
    <3>3. currentPage' = n
      BY <2>1
    <3> HIDE DEF n
    <3> QED
      BY <1>5, <3>1, <3>2, <3>3, Zenon DEF DescGone, lastItem, n
  <2>4. currentPage + 1 < Count => setupScreen(currentPage + 1) \in ScreenType
    BY <1>1 DEF setupScreen, ScreenType, Labels
  <2>5. IntroTyped'
    <3>1. currentPage' \in Nat /\ tapped' \in Nat /\ patient' \in BOOLEAN
      BY <1>n, <1>b, <2>1
    <3>2. root' \in {"intro", "main"} /\ screen' \in ScreenType
      BY <1>1, <1>b, <2>3, <2>4
    <3> QED
      BY <2>2, <3>1, <3>2 DEF IntroTyped
  <2>6. Counted'
    BY <1>1, <2>1, <2>2 DEF Counted
  <2>7. OnPages'
    BY <1>1, <2>1, <2>3 DEF OnPages, Running
  <2>8. Waits'
    BY <1>1, <2>1, <2>2 DEF FirstInv, IntroInv, Waits
  <2>9. RestShowsPage'
    BY <1>1, <2>1, <2>3 DEF RestShowsPage, Running, setupScreen, FirstInv, IntroInv, OnPages
  <2>10. CrashInv'
    <3>1. CASE crash' = crash
      BY <3>1, <2>1 DEF FirstInv, CrashInv, OnlyKnownCrashes, Running
    <3>2. CASE currentPage + 1 > Count /\ crash' = "no item"
      <4>1. root # "intro"
        <5>1. currentPage + 1 > Count
          BY <3>2
        <5> QED
          BY <1>n, <1>p, <5>1
      <4>2. ~patient
        BY <1>q, <2>1, <4>1
      <4>3. tapped > Count
        <5>1. currentPage + 1 > Count
          BY <3>2
        <5>2. Len(taps) > 0
          BY <2>1
        <5> QED
          BY <1>n, <5>1, <5>2
      <4> QED
        BY <2>1, <3>2, <4>2, <4>3 DEF CrashInv, OnlyKnownCrashes
    <3> QED
      BY <2>3, <3>1, <3>2
  <2> QED
    BY <2>5, <2>6, <2>7, <2>8, <2>9, <2>10, PagesStay DEF IntroInv
<1> QED
  BY <1>2, <1>3, <1>4, <1>5 DEF IntroVC, Animations

-----------------------------------------------------------------------------
(* The pages leave the onboarding alone. *)
LEMMA IntroStays ==
    ASSUME FirstInv, Running, UNCHANGED intro, CellsInv', PageTyped', CellsFollowList',
           crash' \in {"nothing", "no cell", "no body"}
    PROVE  FirstInv'
<1>1. IntroInv'
  BY DEF FirstInv, intro, IntroInv, IntroTyped, Counted, OnPages, Waits, RestShowsPage, Running
<1>2. CrashInv'
  BY DEF CrashInv, OnlyKnownCrashes
<1> QED
  BY <1>1, <1>2 DEF FirstInv

(* One cell is replaced by one that shows the same row and item, or is free. *)
LEMMA CellMoves ==
    ASSUME FirstInv, NEW c \in DOMAIN cells, NEW g \in CellType, Own(g),
           g.item = cells[c].item, g.row = cells[c].row \/ g.row = 0,
           cells' = [cells EXCEPT ![c] = g], UNCHANGED itemList
    PROVE  CellsInv' /\ CellsFollowList'
<1>1. /\ cells \in Seq(CellType) /\ cells' \in Seq(CellType) /\ DOMAIN cells' = DOMAIN cells
      /\ cells'[c] = g /\ \A d \in DOMAIN cells : d # c => cells'[d] = cells[d]
  BY DEF FirstInv, CellsInv
<1>2. CellsInv'
  BY <1>1 DEF FirstInv, CellsInv
<1>3. \A d \in DOMAIN cells : /\ cells'[d].item = cells[d].item
                              /\ cells'[d].row = cells[d].row \/ cells'[d].row = 0
  BY <1>1
<1>4. CellsFollowList'
  BY <1>1, <1>3 DEF FirstInv, CellsFollowList
<1> QED
  BY <1>2, <1>4

(* A cell that is filled for a row that no cell shows. *)
LEMMA FilledOwn ==
    ASSUME NEW cell, cell \in [row : Nat, item : Items \cup {"none"}, image : Images,
                               asked : [Items -> Nat], overtaken : BOOLEAN],
           cell.image = Placeholder, NEW row \in Nat, NEW item \in Items
    PROVE  /\ Filled(cell, row, item) \in CellType /\ Own(Filled(cell, row, item))
           /\ Filled(cell, row, item).row = row /\ Filled(cell, row, item).item = item
<1> DEFINE more == [cell.asked EXCEPT ![item] = @ + 1]
           over == \E other \in Items \ {item} : cell.asked[other] > 0
           g    == [cell EXCEPT !.row = row, !.item = item, !.asked = more, !.overtaken = over]
<1>1. cell.asked \in [Items -> Nat] /\ cell.image \in Images
  OBVIOUS
<1>2. more \in [Items -> Nat] /\ over \in BOOLEAN
  BY <1>1
<1>3. Filled(cell, row, item) = g
  BY DEF Filled
<1>4. ~over => \A j \in Items : j # item => more[j] = 0
  BY <1>1
<1> HIDE DEF more, over
<1>5. g \in CellType
  BY <1>1, <1>2 DEF CellType
<1>6. /\ g.row = row /\ g.item = item /\ g.asked = more /\ g.overtaken = over
      /\ g.image = Placeholder
  OBVIOUS
<1>7. Own(g)
  BY <1>2, <1>4, <1>6 DEF Own
<1> QED
  BY <1>3, <1>5, <1>6, <1>7

(* A row that no cell shows gets one: an old one or a new one. *)
LEMMA RowShown ==
    ASSUME FirstInv, NEW row \in 1..Len(itemList), ~Showing(row), NEW g \in CellType, Own(g),
           g.row = row, g.item = itemList[row], UNCHANGED itemList,
           \/ \E c \in DOMAIN cells : cells' = [cells EXCEPT ![c] = g]
           \/ cells' = Append(cells, g)
    PROVE  CellsInv' /\ CellsFollowList'
<1>1. cells \in Seq(CellType) /\ row <= Len(itemList) /\ \A d \in DOMAIN cells : cells[d].row # row
  BY DEF FirstInv, CellsInv, Showing, PageTyped
<1>2. PICK c \in 1..(Len(cells) + 1) :
         /\ cells' \in Seq(CellType) /\ c \in DOMAIN cells'
         /\ cells'[c] = g
         /\ \A d \in DOMAIN cells' : d # c => d \in DOMAIN cells /\ cells'[d] = cells[d]
  <2>1. CASE cells' = Append(cells, g)
    <3>1. Len(cells) \in Nat /\ Len(cells) + 1 \in 1..(Len(cells) + 1)
      BY <1>1
    <3> QED
      BY <1>1, <2>1, <3>1
  <2>2. ASSUME NEW d \in DOMAIN cells, cells' = [cells EXCEPT ![d] = g]
        PROVE  \E c \in 1..(Len(cells) + 1) :
                  /\ cells' \in Seq(CellType) /\ c \in DOMAIN cells'
                  /\ cells'[c] = g
                  /\ \A e \in DOMAIN cells' : e # c => e \in DOMAIN cells /\ cells'[e] = cells[e]
    BY <1>1, <2>2
  <2> QED
    BY <2>1, <2>2
<1>3. CellsInv'
  BY <1>2 DEF FirstInv, CellsInv
<1>4. ASSUME NEW d \in DOMAIN cells', cells'[d].row # 0
      PROVE  /\ cells'[d].row <= Len(itemList) /\ cells'[d].item = itemList[cells'[d].row]
             /\ \A e \in DOMAIN cells' : cells'[e].row = cells'[d].row => e = d
  <2>1. CASE d = c
    <3>1. cells'[d].row = row /\ cells'[d].item = itemList[row]
      BY <1>2, <2>1
    <3>2. \A e \in DOMAIN cells' : e # c => cells'[e].row # row
      BY <1>1, <1>2
    <3> QED
      BY <1>1, <2>1, <3>1, <3>2
  <2>2. CASE d # c
    <3>1. d \in DOMAIN cells /\ cells'[d] = cells[d]
      BY <1>2, <2>2
    <3>2. cells'[c].row # cells[d].row
      BY <1>1, <1>2, <3>1
    <3> QED
      BY <1>2, <1>4, <3>1, <3>2 DEF FirstInv, CellsFollowList
  <2> QED
    BY <2>1, <2>2
<1> QED
  BY <1>3, <1>4 DEF CellsFollowList

LEMMA PageKeeps ==
    ASSUME FirstInv, Running, PageVC, UNCHANGED intro
    PROVE  FirstInv'
<1>1. /\ cells \in Seq(CellType) /\ \A c \in DOMAIN cells : Own(cells[c])
      /\ itemList \in Seq(Items) /\ Len(itemList) \in Nat
      /\ details \in Items \cup {"none"} /\ banners \in Nat
  BY DEF FirstInv, CellsInv, PageTyped
<1>2. ASSUME UNCHANGED pages, crash' \in {"nothing", "no cell", "no body"} PROVE FirstInv'
  BY <1>2, IntroStays DEF FirstInv, pages, CellsInv, PageTyped, CellsFollowList
<1>3. CASE drawDeals
  <2>1. itemList' \in Seq(Items)
    BY <1>3, CellAssumption DEF drawDeals
  <2>2. ASSUME NEW c \in DOMAIN cells
        PROVE  /\ [cells[c] EXCEPT !.row = 0] \in CellType
               /\ Own([cells[c] EXCEPT !.row = 0]) /\ [cells[c] EXCEPT !.row = 0].row = 0
    <3>1. cells[c] \in CellType /\ Own(cells[c])
      BY <1>1
    <3> QED
      BY <3>1 DEF CellType, Own
  <2>3. cells' = [c \in DOMAIN cells |-> [cells[c] EXCEPT !.row = 0]]
    BY <1>3 DEF drawDeals
  <2>4. cells' \in Seq(CellType) /\ DOMAIN cells' = DOMAIN cells
    <3>1. DOMAIN cells = 1..Len(cells) /\ Len(cells) \in Nat
      BY <1>1
    <3>2. cells' \in [1..Len(cells) -> CellType]
      BY <2>2, <2>3, <3>1
    <3> QED
      BY <3>1, <3>2
  <2>5. CellsInv'
    BY <2>2, <2>3, <2>4 DEF CellsInv
  <2>6. CellsFollowList'
    BY <2>2, <2>3, <2>4 DEF CellsFollowList
  <2>7. PageTyped' /\ UNCHANGED crash
    BY <1>1, <1>3, <2>1 DEF drawDeals, PageTyped
  <2> QED
    BY <2>5, <2>6, <2>7, IntroStays DEF Running
<1>4. ASSUME NEW row \in 1..Len(itemList), cellForItemAt(row) PROVE FirstInv'
  <2>1. ~Showing(row) /\ itemList[row] \in Items /\ row \in Nat
    BY <1>1, <1>4 DEF cellForItemAt
  <2>2. PICK cell :
           /\ cell \in [row : Nat, item : Items \cup {"none"}, image : Images,
                         asked : [Items -> Nat], overtaken : BOOLEAN]
           /\ cell.image = Placeholder
           /\ \/ \E c \in DOMAIN cells : cells' = [cells EXCEPT ![c] = Filled(cell, row, itemList[row])]
              \/ cells' = Append(cells, Filled(cell, row, itemList[row]))
    <3>1. CASE cells' = Append(cells, Filled(NewCell, row, itemList[row]))
      <4>1. NewCell.image = Placeholder
        BY DEF NewCell
      <4>2. NewCell \in [row : Nat, item : Items \cup {"none"}, image : Images,
                         asked : [Items -> Nat], overtaken : BOOLEAN]
        BY DEF NewCell, Images
      <4> QED
        BY <3>1, <4>1, <4>2
    <3>2. ASSUME NEW c \in DOMAIN cells,
                 cells' = [cells EXCEPT ![c] = Filled(prepareForReuse(@), row, itemList[row])]
          PROVE  \E cell :
           /\ cell \in [row : Nat, item : Items \cup {"none"}, image : Images,
                         asked : [Items -> Nat], overtaken : BOOLEAN]
           /\ cell.image = Placeholder
           /\ \/ \E d \in DOMAIN cells : cells' = [cells EXCEPT ![d] = Filled(cell, row, itemList[row])]
              \/ cells' = Append(cells, Filled(cell, row, itemList[row]))
      <4> DEFINE cell == prepareForReuse(cells[c])
      <4>1. cells[c] \in CellType
        BY <1>1
      <4>2. cell.image = Placeholder
        BY <4>1 DEF prepareForReuse, CellType
      <4>3. cell \in [row : Nat, item : Items \cup {"none"}, image : Images,
                      asked : [Items -> Nat], overtaken : BOOLEAN]
        BY <4>1 DEF prepareForReuse, CellType, Images
      <4>4. cells' = [cells EXCEPT ![c] = Filled(cell, row, itemList[row])]
        BY <3>2
      <4> HIDE DEF cell
      <4> QED
        BY <4>2, <4>3, <4>4
    <3> QED
      BY <1>4, <3>1, <3>2 DEF cellForItemAt
  <2> DEFINE g == Filled(cell, row, itemList[row])
  <2>3. g \in CellType /\ Own(g) /\ g.row = row /\ g.item = itemList[row]
    BY <2>1, <2>2, FilledOwn
  <2>4. UNCHANGED <<itemList, details, banners, crash>>
    BY <1>4 DEF cellForItemAt
  <2>5. (\E c \in DOMAIN cells : cells' = [cells EXCEPT ![c] = g]) \/ cells' = Append(cells, g)
    BY <2>2
  <2> HIDE DEF g
  <2>6. CellsInv' /\ CellsFollowList'
    BY <2>1, <2>3, <2>4, <2>5, RowShown
  <2> QED
    BY <1>1, <2>4, <2>6, IntroStays DEF Running, PageTyped
<1>5. ASSUME NEW c \in DOMAIN cells, ScrollsOut(c) PROVE FirstInv'
  <2> DEFINE g == [cells[c] EXCEPT !.row = 0]
  <2>1. cells[c] \in CellType /\ Own(cells[c])
    BY <1>1
  <2>2. g \in CellType /\ Own(g) /\ g.item = cells[c].item /\ g.row = 0
    BY <2>1 DEF CellType, Own
  <2>3. cells' = [cells EXCEPT ![c] = g] /\ UNCHANGED <<itemList, details, banners, crash>>
    BY <1>5 DEF ScrollsOut
  <2> HIDE DEF g
  <2>4. CellsInv' /\ CellsFollowList'
    BY <2>2, <2>3, CellMoves
  <2> QED
    BY <1>1, <2>3, <2>4, IntroStays DEF Running, PageTyped
<1>6. ASSUME NEW c \in DOMAIN cells, NEW poster \in Items, cells[c].asked[poster] > 0,
             NEW image \in {poster, NoImage, Placeholder}, Answered(c, poster, image)
      PROVE  FirstInv'
  <2> DEFINE less == [cells[c].asked EXCEPT ![poster] = @ - 1]
             g == [cells[c] EXCEPT !.asked = less, !.image = image]
  <2>1. cells[c] \in CellType /\ Own(cells[c])
    BY <1>1
  <2>2. cells[c].asked \in [Items -> Nat] /\ cells[c].overtaken \in BOOLEAN
    BY <2>1 DEF CellType
  <2>3. less \in [Items -> Nat]
    BY <1>6, <2>2
  <2>4. image \in Images
    BY DEF Images
  <2>5. cells' = [cells EXCEPT ![c] = g] /\ UNCHANGED <<itemList, details, banners, crash>>
    BY <1>6 DEF Answered
  <2>6. /\ \A j \in Items : j # poster => less[j] = cells[c].asked[j]
    BY <2>2
  <2>7. ~cells[c].overtaken => poster = cells[c].item
    BY <1>6, <2>1, <2>2 DEF Own
  <2> HIDE DEF less
  <2>8. g \in CellType /\ g.item = cells[c].item /\ g.row = cells[c].row
    BY <2>1, <2>3, <2>4 DEF CellType
  <2>9. Own(g)
    <3>1. g.overtaken = cells[c].overtaken /\ g.image = image /\ g.asked = less
      BY <2>1 DEF CellType
    <3> HIDE DEF g
    <3> QED
      BY <2>1, <2>6, <2>7, <2>8, <3>1 DEF Own
  <2> HIDE DEF g
  <2>10. CellsInv' /\ CellsFollowList'
    BY <2>5, <2>8, <2>9, CellMoves
  <2> QED
    BY <1>1, <2>5, <2>10, IntroStays DEF Running, PageTyped
<1>7. ASSUME NEW c \in DOMAIN cells, NEW poster \in Items, PosterAnswered(c, poster)
      PROVE  FirstInv'
  BY <1>2, <1>6, <1>7 DEF PosterAnswered
<1>8. ASSUME NEW c \in DOMAIN cells, Tapped(c) PROVE FirstInv'
  <2>1. cells[c] \in CellType /\ cells[c].row # 0
    <3>1. cells[c].row # 0
      BY <1>8 DEF Tapped
    <3> QED
      BY <1>1, <3>1
  <2>2. cells[c].row \in 1..Len(itemList)
    <3>1. cells[c].row <= Len(itemList)
      BY <2>1 DEF FirstInv, CellsFollowList
    <3>2. cells[c].row \in Nat
      BY <2>1 DEF CellType
    <3> QED
      BY <1>1, <2>1, <3>1, <3>2
  <2>3. /\ details' = itemList[cells[c].row] /\ banners' = banners + 1
        /\ UNCHANGED <<itemList, cells, crash>>
    <3>1. cells[c].row <= Len(itemList)
      BY <1>1, <2>2
    <3> QED
      BY <1>8, <3>1, Zenon DEF Tapped
  <2>4. itemList[cells[c].row] \in Items
    BY <1>1, <2>2
  <2> QED
    BY <1>1, <2>3, <2>4, IntroStays DEF Running, PageTyped, FirstInv, CellsInv, CellsFollowList
<1>9. CASE TappedBeside
  BY <1>2, <1>9 DEF TappedBeside
<1>10. CASE BannerAnswered
  <2>1. CASE banners' = banners - 1 /\ UNCHANGED <<itemList, cells, details, crash>>
    <3>1. banners - 1 \in Nat
      <4>1. banners > 0
        BY <1>10 DEF BannerAnswered
      <4> QED
        BY <1>1, <4>1
    <3> QED
      BY <1>1, <2>1, <3>1, IntroStays DEF Running, PageTyped, FirstInv, CellsInv, CellsFollowList
  <2>2. CASE crash' = "no body" /\ UNCHANGED pages
    BY <1>2, <2>2
  <2> QED
    BY <1>10, <2>1, <2>2 DEF BannerAnswered
<1>11. CASE backBtn
  BY <1>1, <1>11, IntroStays DEF backBtn, Running, PageTyped, FirstInv, CellsInv, CellsFollowList
<1> QED
  BY <1>3, <1>4, <1>5, <1>7, <1>8, <1>9, <1>10, <1>11 DEF PageVC

LEMMA FirstStep == FirstInv /\ [Next]_vars => FirstInv'
<1> SUFFICES ASSUME FirstInv, [Next]_vars PROVE FirstInv'
  OBVIOUS
<1>1. CASE IntroStep
  BY <1>1, IntroKeeps DEF IntroStep
<1>2. CASE PageStep
  BY <1>2, PageKeeps DEF PageStep
<1>3. CASE UNCHANGED vars
  <2>1. UNCHANGED <<pages, intro, crash>>
    BY <1>3 DEF vars
  <2>2. CrashInv'
    BY <2>1 DEF FirstInv, CrashInv, OnlyKnownCrashes, intro
  <2>3. IntroInv'
    BY <2>1 DEF FirstInv, IntroInv, IntroTyped, Counted, OnPages, Waits, RestShowsPage, intro, Running
  <2> QED
    BY <2>1, <2>2, <2>3, PagesStay
<1> QED
  BY <1>1, <1>2, <1>3 DEF Next

LEMMA Invariance == Spec => []FirstInv
  BY FirstInit, FirstStep, PTL DEF Spec

-----------------------------------------------------------------------------
(* Type correctness, for any number of pages, taps, cells and requests. *)
THEOREM TypeCorrect == Spec => []TypeOK
<1>1. FirstInv => TypeOK
  BY DEF FirstInv, IntroInv, IntroTyped, ScreenType, TapType, CellsInv, CellType, PageTyped,
         CrashInv, TypeOK
<1> QED
  BY <1>1, Invariance, PTL

(* However taps overlap the animations of handleTapAnimation, an onboarding at
   rest shows one page, whole. *)
THEOREM OnboardingRestsWhole == Spec => []RestShowsPage
<1>1. FirstInv => RestShowsPage
  BY DEF FirstInv, IntroInv
<1> QED
  BY <1>1, Invariance, PTL

(* items[index] of setupScreen is passed only by a user who taps on during the
   last animation, and itemList[row] of Tapped never. *)
THEOREM CrashesAreKnown == Spec => []OnlyKnownCrashes
<1>1. FirstInv => OnlyKnownCrashes
  BY DEF FirstInv, CrashInv
<1> QED
  BY <1>1, Invariance, PTL

(* For any lists and any number of cells, a row has one cell, and that cell the
   texts of the row's item. *)
THEOREM CellsShowTheirRows == Spec => []CellsFollowList
<1>1. FirstInv => CellsFollowList
  BY DEF FirstInv
<1> QED
  BY <1>1, Invariance, PTL

(* A wrong picture needs a cell that cellForItemAt filled again while the poster
   of another item was under way, and nothing else. *)
THEOREM WrongImageNeedsReuse == Spec => []OwnImageUnlessOvertaken
<1>1. FirstInv => OwnImageUnlessOvertaken
  BY DEF FirstInv, CellsInv, Own, OwnImageUnlessOvertaken
<1> QED
  BY <1>1, Invariance, PTL
=============================================================================
