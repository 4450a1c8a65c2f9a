--------------------------- MODULE DealsFeedProofs ---------------------------
(***************************************************************************)
(* Theorems about the deals of a page (DealsFeed), for every page, every    *)
(* collection of documents and any number and size of snapshots.            *)
(***************************************************************************)
EXTENDS DealsFeed, WellFoundedInduction, TLAPS

-----------------------------------------------------------------------------
(* Induction over the natural numbers, for a set.                           *)

(* A set of naturals that is not empty has a least element. *)
LEMMA LeastNat ==
    ASSUME NEW T, T \subseteq Nat, T # {}
    PROVE  \E m \in T : \A n \in T : m <= n
<1>1. DEFINE R == OpToRel(<, Nat)
<1>2. IsWellFoundedOn(R, Nat)
  BY NatLessThanWellFounded
<1>3. \A x, y \in Nat : x < y => <<x, y>> \in R
  BY DEF OpToRel
<1> HIDE DEF R
<1>4. PICK m \in T : \A n \in T : ~ (<<n, m>> \in R)
  BY <1>2, WFMin
<1>5. \A n \in T : ~ (n < m) /\ n \in Nat /\ m \in Nat
  BY <1>3, <1>4
<1>6. \A n \in T : m <= n
  BY <1>5
<1>7. QED
  BY <1>4, <1>6

(* A set that holds 0, and with every number its successor, holds them all. *)
LEMMA NatSet ==
    ASSUME NEW T, T \subseteq Nat, 0 \in T, \A n \in T : n + 1 \in T
    PROVE  T = Nat
<1>1. SUFFICES ASSUME Nat \ T # {} PROVE FALSE
  OBVIOUS
<1>2. PICK m \in Nat \ T : \A n \in Nat \ T : m <= n
  BY <1>1, LeastNat
<1>3. m - 1 \in Nat /\ m - 1 < m /\ (m - 1) + 1 = m
  BY <1>2
<1>4. m - 1 \in T
  BY <1>2, <1>3
<1>5. QED
  BY <1>2, <1>3, <1>4

-----------------------------------------------------------------------------
(* Type correctness, and the types of the deals                             *)

(* A snapshot is a sequence of documents of the types the page asks for. *)
LEMMA SnapshotDocs ==
    ASSUME NEW s \in Snapshots
    PROVE  /\ s \in Seq(Docs) /\ Len(s) \in Nat /\ DOMAIN s = 1..Len(s)
           /\ \A i \in 1..Len(s) : s[i] \in Docs /\ s[i].type \in Feed[Page].types
<1>1. DEFINE matching == {d \in Docs : d.type \in Feed[Page].types}
<1>2. \E n \in Nat : s \in [1..n -> matching]
  <2>1. DEFINE most == IF MaxDocs < Feed[Page].limit THEN MaxDocs ELSE Feed[Page].limit
  <2>2. PICK n \in 0..most : s \in [1..n -> matching]
    BY DEF Snapshots
  <2>3. n \in Nat
    OBVIOUS
  <2>4. QED
    BY <2>2, <2>3
<1>3. matching \subseteq Docs /\ \A d \in matching : d.type \in Feed[Page].types
  OBVIOUS
<1> HIDE DEF matching
<1>4. QED
  BY <1>2, <1>3

(* Each kind of block closes over what its handler expects. *)
LEMMA BlockArg ==
    ASSUME NEW b \in Blocks
    PROVE  /\ b.kind \in {"snapshot", "document", "error", "callback", "draw"}
           /\ b.kind = "snapshot" => b.arg \in Snapshots
           /\ b.kind = "document" => b.arg \in Docs
           /\ b.kind = "draw" => b.arg \in Seq(Items)
  BY DEF Blocks

LEMMA BlockOf ==
    /\ \A s \in Snapshots : Block("snapshot", s) \in Blocks
    /\ \A d \in Docs : Block("document", d) \in Blocks
    /\ \A l \in Seq(Items) : Block("draw", l) \in Blocks
    /\ Block("error", <<>>) \in Blocks
    /\ Block("callback", <<>>) \in Blocks
    /\ \A k, a : Block(k, a).kind = k /\ Block(k, a).arg = a
  BY DEF Block, Blocks

LEMMA ItemOf == \A d \in Docs : Item(d) \in Items /\ Item(d).type = d.type
  BY DEF Items, Item

(* The items and documents of the types the page asks for. *)
OwnItems == {item \in Items : item.type \in Feed[Page].types}
OwnBlock(b) ==
    /\ b.kind = "document" => b.arg.type \in Feed[Page].types
    /\ b.kind = "draw" => b.arg \in Seq(OwnItems)

OwnInv ==
    /\ TypeOK
    /\ itemList \in Seq(OwnItems) /\ shown \in Seq(OwnItems)
    /\ \A x \in 1..Len(queue) : OwnBlock(queue[x])

(* What a block leaves when it has run, and what is put behind it. *)
LEMMA OwnQueue ==
    ASSUME NEW q, q \in Seq(Blocks), \A x \in 1..Len(q) : OwnBlock(q[x])
    PROVE  /\ \A b \in Blocks : OwnBlock(b) =>
                /\ Append(q, b) \in Seq(Blocks)
                /\ \A x \in 1..Len(Append(q, b)) : OwnBlock(Append(q, b)[x])
           /\ q # <<>> =>
                /\ Tail(q) \in Seq(Blocks) /\ Head(q) \in Blocks /\ OwnBlock(Head(q))
                /\ \A x \in 1..Len(Tail(q)) : OwnBlock(Tail(q)[x])
<1>1. ASSUME NEW b \in Blocks, OwnBlock(b)
      PROVE  /\ Append(q, b) \in Seq(Blocks)
             /\ \A x \in 1..Len(Append(q, b)) : OwnBlock(Append(q, b)[x])
  <2>1. /\ Append(q, b) \in Seq(Blocks)
        /\ Len(Append(q, b)) = Len(q) + 1 /\ Len(q) \in Nat
        /\ \A x \in 1..Len(q) : Append(q, b)[x] = q[x]
        /\ Append(q, b)[Len(q) + 1] = b
    OBVIOUS
  <2>2. \A x \in 1..(Len(q) + 1) : x \in 1..Len(q) \/ x = Len(q) + 1
    BY <2>1
  <2>3. QED
    BY <1>1, <2>1, <2>2
<1>2. ASSUME q # <<>>
      PROVE  /\ Tail(q) \in Seq(Blocks) /\ Head(q) \in Blocks /\ OwnBlock(Head(q))
             /\ \A x \in 1..Len(Tail(q)) : OwnBlock(Tail(q)[x])
  <2>1. /\ Tail(q) \in Seq(Blocks) /\ Head(q) = q[1] /\ Head(q) \in Blocks
        /\ 1 \in 1..Len(q)
        /\ \A x \in 1..Len(Tail(q)) : x + 1 \in 1..Len(q) /\ Tail(q)[x] = q[x + 1]
    BY <1>2
  <2>2. QED
    BY <2>1
<1>3. QED
  BY <1>1, <1>2
(* The blocks that the listener puts on the queue for a snapshot. *)
DocumentBlocks(s) == [i \in DOMAIN s |-> Block("document", s[i])]

LEMMA SnapshotQueue ==
    ASSUME NEW q, q \in Seq(Blocks), NEW s \in Snapshots
    PROVE  /\ q \o DocumentBlocks(s) \in Seq(Blocks)
           /\ Len(q \o DocumentBlocks(s)) = Len(q) + Len(s)
           /\ \A x \in 1..Len(q) : (q \o DocumentBlocks(s))[x] = q[x]
           /\ \A i \in 1..Len(s) :
                (q \o DocumentBlocks(s))[Len(q) + i] = Block("document", s[i])
<1>1. DEFINE D == DocumentBlocks(s)
<1>2. /\ D \in [1..Len(s) -> Blocks] /\ Len(s) \in Nat
      /\ \A i \in 1..Len(s) : D[i] = Block("document", s[i])
  BY SnapshotDocs, BlockOf DEF DocumentBlocks
<1> HIDE DEF D
<1>3. D \in Seq(Blocks) /\ Len(D) = Len(s)
  BY <1>2
<1>4. /\ q \o D \in Seq(Blocks) /\ Len(q) \in Nat
      /\ Len(q \o D) = Len(q) + Len(D)
      /\ \A x \in 1..Len(q) : (q \o D)[x] = q[x]
      /\ \A x \in (Len(q) + 1)..(Len(q) + Len(D)) : (q \o D)[x] = D[x - Len(q)]
  BY <1>3
<1>5. \A i \in 1..Len(s) : /\ Len(q) + i \in (Len(q) + 1)..(Len(q) + Len(D))
                           /\ (Len(q) + i) - Len(q) = i
  BY <1>2, <1>3, <1>4
<1>6. \A i \in 1..Len(s) : (q \o D)[Len(q) + i] = Block("document", s[i])
  BY <1>2, <1>4, <1>5
<1>7. QED
  BY <1>2, <1>3, <1>4, <1>6 DEF D

LEMMA OwnInit == Init => OwnInv
<1>1. SUFFICES ASSUME Init PROVE OwnInv
  OBVIOUS
<1>2. TypeOK
  <2>1. listening \in BOOLEAN /\ alert \in BOOLEAN /\ apart \in BOOLEAN
    BY <1>1, Zenon DEF Init
  <2>2. queue = <<>> /\ itemList = <<>> /\ shown = <<>> /\ delivered = <<>>
    BY <1>1, Zenon DEF Init
  <2>3. QED
    BY <2>1, <2>2 DEF TypeOK
<1>3. itemList \in Seq(OwnItems) /\ shown \in Seq(OwnItems) /\ Len(queue) = 0
  BY <1>1 DEF Init
<1>4. QED
  BY <1>2, <1>3 DEF OwnInv

LEMMA OwnStep == OwnInv /\ [Next]_vars => OwnInv'
<1>1. SUFFICES ASSUME OwnInv, [Next]_vars PROVE OwnInv'
  OBVIOUS
<1>2. /\ queue \in Seq(Blocks) /\ \A x \in 1..Len(queue) : OwnBlock(queue[x])
      /\ itemList \in Seq(OwnItems) /\ shown \in Seq(OwnItems)
      /\ itemList \in Seq(Items) /\ shown \in Seq(Items)
      /\ delivered \in Seq(Snapshots)
      /\ listening \in BOOLEAN /\ alert \in BOOLEAN /\ apart \in BOOLEAN
  BY <1>1 DEF OwnInv, TypeOK
<1>3. queue # <<>> =>
        /\ Tail(queue) \in Seq(Blocks) /\ Head(queue) \in Blocks /\ OwnBlock(Head(queue))
        /\ \A x \in 1..Len(Tail(queue)) : OwnBlock(Tail(queue)[x])
  BY <1>2, OwnQueue
<1>4. Seq(OwnItems) \subseteq Seq(Items)
  BY DEF OwnItems
<1>5. CASE DeliverSnapshot
  <2>1. PICK s \in Snapshots : /\ queue' = Append(queue, Block("snapshot", s))
                               /\ delivered' = Append(delivered, s)
    BY <1>5 DEF DeliverSnapshot
  <2>2. Block("snapshot", s) \in Blocks /\ OwnBlock(Block("snapshot", s))
    BY BlockOf DEF OwnBlock
  <2>3. queue' \in Seq(Blocks) /\ \A x \in 1..Len(queue') : OwnBlock(queue'[x])
    BY <1>2, <2>1, <2>2, OwnQueue
  <2>4. delivered' \in Seq(Snapshots)
    BY <1>2, <2>1
  <2>5. apart' \in BOOLEAN
    BY <1>5 DEF DeliverSnapshot
  <2>6. QED
    BY <1>2, <1>5, <2>3, <2>4, <2>5 DEF DeliverSnapshot, OwnInv, TypeOK
<1>6. CASE DeliverError
  <2>1. Block("error", <<>>) \in Blocks /\ OwnBlock(Block("error", <<>>))
    BY BlockOf DEF OwnBlock
  <2>2. queue' \in Seq(Blocks) /\ \A x \in 1..Len(queue') : OwnBlock(queue'[x])
    BY <1>2, <1>6, <2>1, OwnQueue DEF DeliverError
  <2>3. apart' \in BOOLEAN /\ listening' \in BOOLEAN
    BY <1>6 DEF DeliverError
  <2>4. QED
    BY <1>2, <1>6, <2>2, <2>3 DEF DeliverError, OwnInv, TypeOK
<1>7. CASE HandleSnapshot
  <2>1. /\ queue # <<>> /\ Head(queue).kind = "snapshot"
        /\ queue' = Tail(queue) \o DocumentBlocks(Head(queue).arg)
        /\ itemList' = <<>>
    BY <1>7 DEF HandleSnapshot, Running, DocumentBlocks
  <2>2. DEFINE s == Head(queue).arg
               q == Tail(queue)
  <2>3. s \in Snapshots /\ q \in Seq(Blocks)
    BY <1>3, <2>1, BlockArg
  <2> HIDE DEF s, q
  <2>4. /\ queue' \in Seq(Blocks) /\ Len(queue') = Len(q) + Len(s)
        /\ \A x \in 1..Len(q) : queue'[x] = q[x]
        /\ \A i \in 1..Len(s) : queue'[Len(q) + i] = Block("document", s[i])
    BY <2>1, <2>3, SnapshotQueue DEF s, q
  <2>5. Len(q) \in Nat /\ Len(s) \in Nat
    BY <2>3, SnapshotDocs
  <2>6. \A x \in 1..(Len(q) + Len(s)) :
          x \in 1..Len(q) \/ (x - Len(q) \in 1..Len(s) /\ x = Len(q) + (x - Len(q)))
    BY <2>5
  <2>7. \A i \in 1..Len(s) : OwnBlock(Block("document", s[i]))
    BY <2>3, SnapshotDocs, BlockOf DEF OwnBlock
  <2>8. \A x \in 1..Len(queue') : OwnBlock(queue'[x])
    <3>1. \A x \in 1..Len(q) : OwnBlock(q[x])
      BY <1>3, <2>1 DEF q
    <3>2. QED
      BY <2>4, <2>6, <2>7, <3>1
  <2>9. <<>> \in Seq(OwnItems) /\ <<>> \in Seq(Items)
    OBVIOUS
  <2>10. QED
    BY <1>2, <1>7, <2>1, <2>4, <2>8, <2>9 DEF HandleSnapshot, OwnInv, TypeOK
<1>8. CASE HandleError
  <2>1. <<>> \in Seq(OwnItems) /\ <<>> \in Seq(Items)
    OBVIOUS
  <2>2. alert' \in BOOLEAN
    BY <1>8 DEF HandleError
  <2>3. QED
    BY <1>2, <1>3, <1>8, <2>1, <2>2 DEF HandleError, Running, OwnInv, TypeOK
<1>9. CASE HandleDocument
  <2>1. DEFINE d == Head(queue).arg
  <2>2. queue # <<>> /\ Head(queue).kind = "document"
    BY <1>9 DEF HandleDocument, Running
  <2>3. d \in Docs /\ d.type \in Feed[Page].types
    BY <1>3, <2>2, BlockArg DEF OwnBlock
  <2>4. Item(d) \in OwnItems /\ Item(d) \in Items
    BY <2>3, ItemOf DEF OwnItems
  <2>5. Block("callback", <<>>) \in Blocks /\ OwnBlock(Block("callback", <<>>))
    BY BlockOf DEF OwnBlock
  <2>6. /\ Append(Tail(queue), Block("callback", <<>>)) \in Seq(Blocks)
        /\ \A x \in 1..Len(Append(Tail(queue), Block("callback", <<>>))) :
              OwnBlock(Append(Tail(queue), Block("callback", <<>>))[x])
    BY <1>3, <2>2, <2>5, OwnQueue
  <2>7. Append(itemList, Item(d)) \in Seq(OwnItems) /\ Append(itemList, Item(d)) \in Seq(Items)
    BY <1>2, <2>4
  <2>8. \/ /\ itemList' = Append(itemList, Item(d))
           /\ queue' = Append(Tail(queue), Block("callback", <<>>))
        \/ queue' = Tail(queue) /\ itemList' = itemList
    BY <1>9 DEF HandleDocument
  <2>9. /\ itemList' \in Seq(OwnItems) /\ itemList' \in Seq(Items)
        /\ queue' \in Seq(Blocks) /\ \A x \in 1..Len(queue') : OwnBlock(queue'[x])
    BY <1>2, <1>3, <2>2, <2>6, <2>7, <2>8
  <2>10. QED
    BY <1>2, <1>9, <2>9 DEF HandleDocument, OwnInv, TypeOK
<1>10. CASE HandleCallback
  <2>1. queue # <<>> /\ queue' = Append(Tail(queue), Block("draw", itemList))
    BY <1>10 DEF HandleCallback, Running
  <2>2. Block("draw", itemList) \in Blocks /\ OwnBlock(Block("draw", itemList))
    BY <1>2, BlockOf DEF OwnBlock
  <2>3. queue' \in Seq(Blocks) /\ \A x \in 1..Len(queue') : OwnBlock(queue'[x])
    BY <1>3, <2>1, <2>2, OwnQueue
  <2>4. QED
    BY <1>2, <1>10, <2>3 DEF HandleCallback, OwnInv, TypeOK
<1>11. CASE HandleDraw
  <2>1. Head(queue).arg \in Seq(OwnItems)
    BY <1>3, <1>11 DEF HandleDraw, Running, OwnBlock
  <2>2. QED
    BY <1>2, <1>3, <1>4, <1>11, <2>1 DEF HandleDraw, Running, OwnInv, TypeOK
<1>12. CASE UNCHANGED vars
  BY <1>2, <1>12 DEF vars, OwnInv, TypeOK
<1>13. QED
  BY <1>1, <1>5, <1>6, <1>7, <1>8, <1>9, <1>10, <1>11, <1>12 DEF Next, MainQueue

(* The feed's state stays well typed: a handler finds in its block what it
   expects, and nothing but checked items is listed, drawn or shown. *)
THEOREM TypeCorrect == Spec => []TypeOK
<1>1. OwnInv => TypeOK
  BY DEF OwnInv
<1>2. QED
  BY <1>1, OwnInit, OwnStep, PTL DEF Spec

(* A page whose query asks for the type it is named for shows deals of that type
   only, whatever was delivered: all pages but Lifestyle, whose loadDeals asks
   for another type. *)
THEOREM PagesShowOwnDeals == Page # "lifestyle" => (Spec => []OwnDeals)
<1>1. ASSUME Page # "lifestyle" PROVE Spec => []OwnDeals
  <2>1. Feed[Page].types = Category[Page]
    <3>1. Page \in {"home", "wine", "coffee", "travel", "events"}
      BY <1>1, FeedAssumption
    <3>2. /\ Feed.home.types = Category.home /\ Feed.wine.types = Category.wine
          /\ Feed.coffee.types = Category.coffee /\ Feed.travel.types = Category.travel
          /\ Feed.events.types = Category.events
      BY DEF Feed, Category, HomeFeed, WineFeed, CoffeeFeed, TravelFeed, EventsFeed
    <3>3. QED
      BY <3>1, <3>2
  <2>2. OwnInv => OwnDeals
    <3>1. SUFFICES ASSUME shown \in Seq(OwnItems) PROVE OwnDeals
      BY DEF OwnInv
    <3>2. \A i \in DOMAIN shown : shown[i].type \in Feed[Page].types
      BY <3>1 DEF OwnItems
    <3>3. QED
      BY <2>1, <3>2 DEF OwnDeals, ToSet
  <2>3. QED
    BY <2>2, OwnInit, OwnStep, PTL DEF Spec
<1>2. QED
  BY <1>1
-----------------------------------------------------------------------------
(* What ListedUpTo and Run compute                                          *)

(* A recursive function over 0..n whose value at k depends on that at k - 1. *)
LEMMA UpToExists ==
    ASSUME NEW s \in Snapshots, NEW n \in Nat
    PROVE  \E f : f = [k \in 0..n |->
                          IF k = 0 THEN <<>>
                          ELSE IF Complete(s[k]) THEN Append(f[k - 1], Item(s[k]))
                          ELSE f[k - 1]]
<1>1. DEFINE Next1(l, k) == IF Complete(s[k]) THEN Append(l, Item(s[k])) ELSE l
             P(m) == \E f : f = [k \in 0..m |-> IF k = 0 THEN <<>> ELSE Next1(f[k - 1], k)]
             T == {m \in Nat : P(m)}
<1> HIDE DEF Next1
<1>2. P(0)
  <2>1. DEFINE f == [k \in 0..0 |-> <<>>]
  <2>2. f = [k \in 0..0 |-> IF k = 0 THEN <<>> ELSE Next1(f[k - 1], k)]
    OBVIOUS
  <2>3. QED
    BY <2>2
<1>3. ASSUME NEW m \in Nat, P(m) PROVE P(m + 1)
  <2>1. PICK f : f = [k \in 0..m |-> IF k = 0 THEN <<>> ELSE Next1(f[k - 1], k)]
    BY <1>3
  <2>2. DEFINE g == [k \in 0..(m + 1) |-> IF k = m + 1 THEN Next1(f[m], k) ELSE f[k]]
  <2>3. /\ \A k \in 0..m : g[k] = f[k]
        /\ g[m + 1] = Next1(f[m], m + 1)
        /\ g = [k \in 0..(m + 1) |-> g[k]]
    OBVIOUS
  <2> HIDE DEF g
  <2>4. ASSUME NEW k \in 0..(m + 1)
        PROVE  g[k] = IF k = 0 THEN <<>> ELSE Next1(g[k - 1], k)
    <3>1. CASE k = m + 1
      <4>1. k # 0 /\ k - 1 = m /\ m \in 0..m
        BY <3>1
      <4>2. QED
        BY <2>3, <3>1, <4>1
    <3>2. CASE k # m + 1 /\ k # 0
      <4>1. k \in 0..m /\ k - 1 \in 0..m
        BY <3>2
      <4>2. f[k] = Next1(f[k - 1], k)
        BY <2>1, <3>2, <4>1
      <4>3. QED
        BY <2>3, <3>2, <4>1, <4>2
    <3>3. CASE k = 0
      BY <2>1, <2>3, <3>3
    <3>4. QED
      BY <3>1, <3>2, <3>3
  <2>5. g = [k \in 0..(m + 1) |-> IF k = 0 THEN <<>> ELSE Next1(g[k - 1], k)]
    BY <2>3, <2>4
  <2>6. QED
    BY <2>5
<1>4. T = Nat
  <2> HIDE DEF P
  <2>1. T \subseteq Nat /\ 0 \in T /\ \A m \in T : m + 1 \in T
    BY <1>2, <1>3
  <2> HIDE DEF T
  <2>2. QED
    BY <2>1, NatSet
<1>5. P(n)
  BY <1>4
<1>6. QED
  BY <1>5 DEF Next1

(* ListedUpTo takes the documents one after another, as their blocks do. *)
LEMMA ListedStep ==
    ASSUME NEW s \in Snapshots
    PROVE  /\ ListedUpTo(s)[0] = <<>>
           /\ \A k \in 1..Len(s) :
                ListedUpTo(s)[k] = IF Complete(s[k])
                                     THEN Append(ListedUpTo(s)[k - 1], Item(s[k]))
                                     ELSE ListedUpTo(s)[k - 1]
<1>1. Len(s) \in Nat
  BY SnapshotDocs
<1>2. DEFINE F == CHOOSE f : f = [k \in 0..Len(s) |->
                                     IF k = 0 THEN <<>>
                                     ELSE IF Complete(s[k]) THEN Append(f[k - 1], Item(s[k]))
                                     ELSE f[k - 1]]
<1>3. F = [k \in 0..Len(s) |-> IF k = 0 THEN <<>>
                               ELSE IF Complete(s[k]) THEN Append(F[k - 1], Item(s[k]))
                               ELSE F[k - 1]]
  BY <1>1, UpToExists
<1>4. ListedUpTo(s) = F
  BY DEF ListedUpTo
<1> HIDE DEF F
<1>5. F[0] = <<>>
  BY <1>1, <1>3
<1>6. \A k \in 1..Len(s) : F[k] = IF Complete(s[k]) THEN Append(F[k - 1], Item(s[k])) ELSE F[k - 1]
  <2>1. \A k \in 1..Len(s) : k \in 0..Len(s) /\ k # 0
    BY <1>1
  <2>2. QED
    BY <1>3, <2>1
<1>7. QED
  BY <1>4, <1>5, <1>6

(* The items listed are items. *)
LEMMA ListedType ==
    ASSUME NEW s \in Snapshots, NEW n \in 0..Len(s)
    PROVE  ListedUpTo(s)[n] \in Seq(Items)
<1>1. Len(s) \in Nat /\ n \in Nat
  BY SnapshotDocs
<1>2. DEFINE U == ListedUpTo(s)
             T == {m \in Nat : m <= Len(s) => U[m] \in Seq(Items)}
<1>3. /\ U[0] = <<>>
      /\ \A k \in 1..Len(s) : U[k] = IF Complete(s[k]) THEN Append(U[k - 1], Item(s[k])) ELSE U[k - 1]
  BY ListedStep
<1>4. \A k \in 1..Len(s) : Item(s[k]) \in Items
  BY SnapshotDocs, ItemOf
<1> HIDE DEF U
<1>5. T = Nat
  <2>1. T \subseteq Nat /\ 0 \in T
    <3>1. U[0] \in Seq(Items)
      BY <1>3
    <3>2. QED
      BY <3>1
  <2>2. ASSUME NEW m \in T PROVE m + 1 \in T
    <3>1. SUFFICES ASSUME m + 1 <= Len(s) PROVE U[m + 1] \in Seq(Items)
      BY <2>2
    <3>2. m \in Nat /\ m + 1 \in 1..Len(s) /\ (m + 1) - 1 = m
      BY <1>1, <2>2, <3>1
    <3>3. U[m] \in Seq(Items)
      BY <1>1, <2>2, <3>1
    <3>4. U[m + 1] = U[m] \/ U[m + 1] = Append(U[m], Item(s[m + 1]))
      BY <1>3, <3>2
    <3>5. Item(s[m + 1]) \in Items
      BY <1>4, <3>2
    <3>6. \A S : \A l \in Seq(S), e \in S : Append(l, e) \in Seq(S)
      OBVIOUS
    <3>7. Append(U[m], Item(s[m + 1])) \in Seq(Items)
      BY <3>3, <3>5, <3>6, Zenon
    <3>8. QED
      BY <3>3, <3>4, <3>7, Zenon
  <2> HIDE DEF T
  <2>3. QED
    BY <2>1, <2>2, NatSet
<1>6. QED
  BY <1>1, <1>5 DEF U
(* The recursive function by which FlattenSeq is defined exists. *)
LEMMA FlattenExists ==
    ASSUME NEW s, NEW n \in Nat
    PROVE  \E f : f = [i \in 1..n |-> IF i = 1 THEN s[i] ELSE f[i - 1] \o s[i]]
<1>1. DEFINE Join(l, i) == l \o s[i]
             P(m) == \E f : f = [i \in 1..m |-> IF i = 1 THEN s[i] ELSE Join(f[i - 1], i)]
             T == {m \in Nat : P(m)}
<1> HIDE DEF Join
<1>2. P(0)
  <2>1. DEFINE f == [i \in 1..0 |-> 0]
  <2>2. f = [i \in 1..0 |-> IF i = 1 THEN s[i] ELSE Join(f[i - 1], i)]
    OBVIOUS
  <2>3. QED
    BY <2>2
<1>3. ASSUME NEW m \in Nat, P(m) PROVE P(m + 1)
  <2>1. PICK f : f = [i \in 1..m |-> IF i = 1 THEN s[i] ELSE Join(f[i - 1], i)]
    BY <1>3
  <2>2. DEFINE g == [i \in 1..(m + 1) |->
                       IF i = m + 1 THEN IF i = 1 THEN s[i] ELSE Join(f[m], i) ELSE f[i]]
  <2>3. /\ \A i \in 1..m : g[i] = f[i]
        /\ g[m + 1] = IF m + 1 = 1 THEN s[m + 1] ELSE Join(f[m], m + 1)
        /\ g = [i \in 1..(m + 1) |-> g[i]]
    OBVIOUS
  <2> HIDE DEF g
  <2>4. ASSUME NEW i \in 1..(m + 1)
        PROVE  g[i] = IF i = 1 THEN s[i] ELSE Join(g[i - 1], i)
    <3>1. CASE i = m + 1 /\ i # 1
      <4>1. i - 1 = m /\ m \in 1..m
        BY <3>1
      <4>2. QED
        BY <2>3, <3>1, <4>1
    <3>2. CASE i = m + 1 /\ i = 1
      BY <2>3, <3>2
    <3>3. CASE i # m + 1 /\ i # 1
      <4>1. i \in 1..m /\ i - 1 \in 1..m
        BY <3>3
      <4>2. f[i] = Join(f[i - 1], i)
        BY <2>1, <3>3, <4>1
      <4>3. QED
        BY <2>3, <3>3, <4>1, <4>2
    <3>4. CASE i # m + 1 /\ i = 1
      <4>1. 1 \in 1..m
        BY <3>4
      <4>2. f[1] = s[1]
        BY <2>1, <4>1
      <4>3. QED
        BY <2>3, <3>4, <4>1, <4>2
    <3>5. QED
      BY <3>1, <3>2, <3>3, <3>4
  <2>5. g = [i \in 1..(m + 1) |-> IF i = 1 THEN s[i] ELSE Join(g[i - 1], i)]
    BY <2>3, <2>4
  <2>6. QED
    BY <2>5
<1>4. T = Nat
  <2> HIDE DEF P
  <2>1. T \subseteq Nat /\ 0 \in T /\ \A m \in T : m + 1 \in T
    BY <1>2, <1>3
  <2> HIDE DEF T
  <2>2. QED
    BY <2>1, NatSet
<1>5. P(n)
  BY <1>4
<1>6. QED
  BY <1>5 DEF Join

(* The function by which FlattenSeq is defined. *)
Flatten(s) == CHOOSE f : f = [i \in 1..Len(s) |-> IF i = 1 THEN s[i] ELSE f[i - 1] \o s[i]]

LEMMA FlattenDef ==
    ASSUME NEW s, Len(s) \in Nat \ {0}
    PROVE  /\ FlattenSeq(s) = Flatten(s)[Len(s)]
           /\ Flatten(s)[1] = s[1]
           /\ \A i \in 2..Len(s) : Flatten(s)[i] = Flatten(s)[i - 1] \o s[i]
<1>1. Flatten(s) = [i \in 1..Len(s) |-> IF i = 1 THEN s[i] ELSE Flatten(s)[i - 1] \o s[i]]
  BY FlattenExists DEF Flatten
<1>2. FlattenSeq(s) = Flatten(s)[Len(s)]
  BY DEF FlattenSeq, Flatten
<1>3. \A i \in 2..Len(s) : i \in 1..Len(s) /\ i # 1
  OBVIOUS
<1>4. \A i \in 2..Len(s) : Flatten(s)[i] = Flatten(s)[i - 1] \o s[i]
  BY <1>1, <1>3
<1>5. Flatten(s)[1] = s[1]
  <2>1. 1 \in 1..Len(s)
    OBVIOUS
  <2>2. QED
    BY <1>1, <2>1
<1>6. QED
  BY <1>2, <1>4, <1>5

(* Two sequences that agree up to n flatten alike up to n. *)
LEMMA FlattenAgree ==
    ASSUME NEW s, NEW t, Len(s) \in Nat \ {0}, Len(t) \in Nat \ {0},
           NEW n \in Nat \ {0}, n <= Len(s), n <= Len(t), \A i \in 1..n : s[i] = t[i]
    PROVE  Flatten(s)[n] = Flatten(t)[n]
<1>1. DEFINE F == Flatten(s)
             G == Flatten(t)
             T == {m \in Nat : m \in 1..n => F[m] = G[m]}
<1>2. /\ F[1] = s[1] /\ \A i \in 2..Len(s) : F[i] = F[i - 1] \o s[i]
      /\ G[1] = t[1] /\ \A i \in 2..Len(t) : G[i] = G[i - 1] \o t[i]
  BY FlattenDef
<1> HIDE DEF F, G
<1>3. ASSUME NEW m \in T PROVE m + 1 \in T
  <2>1. SUFFICES ASSUME m + 1 \in 1..n PROVE F[m + 1] = G[m + 1]
    BY <1>3
  <2>2. CASE m = 0
    BY <1>2, <2>1, <2>2
  <2>3. CASE m # 0
    <3>1. /\ m \in 1..n /\ m + 1 \in 2..Len(s) /\ m + 1 \in 2..Len(t)
          /\ (m + 1) - 1 = m
      BY <1>3, <2>1, <2>3
    <3>2. F[m] = G[m]
      BY <1>3, <3>1
    <3>3. F[m + 1] = F[m] \o s[m + 1] /\ G[m + 1] = G[m] \o t[m + 1]
      BY <1>2, <3>1
    <3>4. s[m + 1] = t[m + 1]
      BY <2>1
    <3>5. QED
      BY <3>2, <3>3, <3>4
  <2>4. QED
    BY <2>2, <2>3
<1>4. T \subseteq Nat /\ 0 \in T
  OBVIOUS
<1>5. T = Nat
  <2> HIDE DEF T
  <2>1. QED
    BY <1>3, <1>4, NatSet
<1>6. n \in T /\ n \in 1..n
  BY <1>5
<1>7. QED
  BY <1>6 DEF F, G

(* Flattening yields a sequence. *)
LEMMA FlattenType ==
    ASSUME NEW S, NEW s, s \in Seq(Seq(S)), NEW k \in 1..Len(s)
    PROVE  Flatten(s)[k] \in Seq(S)
<1>1. Len(s) \in Nat \ {0} /\ \A i \in 1..Len(s) : s[i] \in Seq(S)
  OBVIOUS
<1>2. DEFINE F == Flatten(s)
             T == {m \in Nat : m \in 1..Len(s) => F[m] \in Seq(S)}
<1>3. F[1] = s[1] /\ \A i \in 2..Len(s) : F[i] = F[i - 1] \o s[i]
  BY <1>1, FlattenDef
<1> HIDE DEF F
<1>4. ASSUME NEW m \in T PROVE m + 1 \in T
  <2>1. SUFFICES ASSUME m + 1 \in 1..Len(s) PROVE F[m + 1] \in Seq(S)
    BY <1>4
  <2>2. CASE m = 0
    BY <1>1, <1>3, <2>1, <2>2
  <2>3. CASE m # 0
    <3>1. m \in 1..Len(s) /\ m + 1 \in 2..Len(s) /\ (m + 1) - 1 = m
      BY <1>1, <1>4, <2>1, <2>3
    <3>2. F[m] \in Seq(S) /\ s[m + 1] \in Seq(S)
      BY <1>1, <1>4, <2>1, <3>1
    <3>3. F[m + 1] = F[m] \o s[m + 1]
      BY <1>3, <3>1
    <3>4. QED
      BY <3>2, <3>3
  <2>4. QED
    BY <2>2, <2>3
<1>5. T \subseteq Nat /\ 0 \in T
  OBVIOUS
<1>6. T = Nat
  <2> HIDE DEF T
  <2>1. QED
    BY <1>4, <1>5, NatSet
<1>7. k \in T
  BY <1>6
<1>8. QED
  BY <1>7 DEF F
(* The lists from the i-th to the j-th of L, one after another. *)
RunOf(L, i, j) == FlattenSeq(SubSeq(L, i, j))

LEMMA RunEmpty ==
    ASSUME NEW L, NEW i \in Int, NEW j \in Int, j < i
    PROVE  RunOf(L, i, j) = <<>>
<1>1. SubSeq(L, i, j) = <<>> /\ Len(<<>>) = 0
  OBVIOUS
<1>2. QED
  BY <1>1 DEF RunOf, FlattenSeq

(* A part of L, element by element. *)
LEMMA RunPart ==
    ASSUME NEW X, NEW L, L \in Seq(Seq(X)), NEW i \in 1..Len(L), NEW j \in i..Len(L)
    PROVE  /\ SubSeq(L, i, j) \in Seq(Seq(X))
           /\ Len(SubSeq(L, i, j)) = j - i + 1 /\ j - i + 1 \in Nat \ {0}
           /\ \A k \in 1..(j - i + 1) : SubSeq(L, i, j)[k] = L[i + k - 1]
  OBVIOUS

(* One more list is put at the end of a run. *)
LEMMA RunNext ==
    ASSUME NEW X, NEW L, L \in Seq(Seq(X)), NEW i \in 1..Len(L), NEW j \in i..Len(L)
    PROVE  RunOf(L, i, j) = RunOf(L, i, j - 1) \o L[j]
<1>0. Len(L) \in Nat /\ i \in Nat /\ j \in Nat /\ i <= j /\ L[j] \in Seq(X)
  OBVIOUS
<1>1. DEFINE n == j - i + 1
             s == SubSeq(L, i, j)
             t == SubSeq(L, i, j - 1)
<1>2. /\ Len(s) = n /\ n \in Nat \ {0}
      /\ \A k \in 1..n : s[k] = L[i + k - 1]
  BY RunPart
<1>3. s[n] = L[j]
  BY <1>0, <1>2
<1>4. CASE i = j
  <2>1. n = 1
    BY <1>0, <1>4
  <2>2. RunOf(L, i, j) = Flatten(s)[1] /\ Flatten(s)[1] = s[1]
    BY <1>2, <2>1, FlattenDef DEF RunOf
  <2>3. RunOf(L, i, j - 1) = <<>>
    BY <1>0, <1>4, RunEmpty
  <2>4. \A l \in Seq(X) : <<>> \o l = l
    OBVIOUS
  <2>5. RunOf(L, i, j) = L[j]
    BY <1>3, <2>1, <2>2
  <2>6. QED
    BY <1>0, <2>3, <2>4, <2>5
<1>5. CASE i # j
  <2>1. j - 1 \in i..Len(L) /\ (j - 1) - i + 1 = n - 1 /\ n \in 2..n /\ n - 1 \in Nat
    BY <1>0, <1>5
  <2>2. /\ Len(t) = n - 1 /\ n - 1 \in Nat \ {0}
        /\ \A k \in 1..(n - 1) : t[k] = L[i + k - 1]
    BY <2>1, RunPart
  <2>3. /\ \A k \in 1..(n - 1) : k \in 1..n
        /\ n - 1 <= n /\ n - 1 \in 1..(n - 1)
    BY <1>2, <2>2
  <2> HIDE DEF s, t, n
  <2>4. \A k \in 1..(n - 1) : s[k] = t[k]
    BY <1>2, <2>2, <2>3
  <2>5. Flatten(s)[n - 1] = Flatten(t)[n - 1]
    <3>1. DEFINE m == n - 1
    <3>2. /\ Len(s) \in Nat \ {0} /\ Len(t) \in Nat \ {0}
          /\ m \in Nat \ {0} /\ m <= Len(s) /\ m <= Len(t)
      BY <1>2, <2>2, <2>3
    <3>3. \A k \in 1..m : s[k] = t[k]
      BY <2>4
    <3> HIDE DEF m
    <3>4. Flatten(s)[m] = Flatten(t)[m]
      BY <3>2, <3>3, FlattenAgree
    <3>5. QED
      BY <3>4 DEF m
  <2>6. FlattenSeq(s) = Flatten(s)[n] /\ FlattenSeq(t) = Flatten(t)[n - 1]
    BY <1>2, <2>2, FlattenDef
  <2>7. Flatten(s)[n] = Flatten(s)[n - 1] \o s[n]
    BY <1>2, <2>1, FlattenDef
  <2>8. QED
    BY <1>3, <2>5, <2>6, <2>7 DEF RunOf, s, t
<1>6. QED
  BY <1>4, <1>5

(* A run of lists of X is a list of X. *)
LEMMA RunType ==
    ASSUME NEW X, NEW L, L \in Seq(Seq(X)), NEW i \in 1..(Len(L) + 1), NEW j \in 0..Len(L)
    PROVE  RunOf(L, i, j) \in Seq(X)
<1>1. CASE j < i
  <2>1. RunOf(L, i, j) = <<>>
    BY <1>1, RunEmpty
  <2>2. QED
    BY <2>1
<1>2. CASE ~(j < i)
  <2>1. i \in 1..Len(L) /\ j \in i..Len(L)
    BY <1>2
  <2>2. DEFINE s == SubSeq(L, i, j)
  <2>3. s \in Seq(Seq(X)) /\ Len(s) \in Nat \ {0}
    BY <2>1, RunPart
  <2>4. RunOf(L, i, j) = Flatten(s)[Len(s)]
    BY <2>3, FlattenDef DEF RunOf
  <2> HIDE DEF s
  <2>5. Len(s) \in 1..Len(s)
    BY <2>3
  <2>6. QED
    BY <2>3, <2>4, <2>5, FlattenType
<1>3. QED
  BY <1>1, <1>2

(* A list delivered later leaves the runs of the earlier ones as they are. *)
LEMMA RunAppend ==
    ASSUME NEW X, NEW L, L \in Seq(Seq(X)), NEW l, l \in Seq(X),
           NEW i \in 1..(Len(L) + 1), NEW j \in 0..Len(L)
    PROVE  RunOf(Append(L, l), i, j) = RunOf(L, i, j)
<1>1. CASE j < i
  BY <1>1, RunEmpty
<1>2. CASE ~(j < i)
  <2>1. i \in 1..Len(L) /\ j \in i..Len(L)
    BY <1>2
  <2>2. /\ Append(L, l) \in Seq(Seq(X)) /\ Len(Append(L, l)) = Len(L) + 1
        /\ \A k \in 1..Len(L) : Append(L, l)[k] = L[k]
        /\ Len(L) \in Nat
    OBVIOUS
  <2>3. DEFINE M == Append(L, l)
               n == j - i + 1
               s == SubSeq(L, i, j)
               t == SubSeq(M, i, j)
  <2>4. i \in 1..Len(M) /\ j \in i..Len(M)
    BY <2>1, <2>2
  <2>5. /\ Len(s) = n /\ n \in Nat \ {0} /\ Len(t) = n
        /\ \A k \in 1..n : s[k] = L[i + k - 1]
        /\ \A k \in 1..n : t[k] = M[i + k - 1]
    <3> HIDE DEF M
    <3>1. QED
      BY <2>1, <2>2, <2>4, RunPart DEF M
  <2>6. \A k \in 1..n : i + k - 1 \in 1..Len(L)
    BY <2>1
  <2>7. \A k \in 1..n : s[k] = t[k]
    BY <2>2, <2>5, <2>6
  <2>8. RunOf(L, i, j) = Flatten(s)[n] /\ RunOf(M, i, j) = Flatten(t)[n]
    BY <2>5, FlattenDef DEF RunOf
  <2> HIDE DEF s, t, n, M
  <2>9. n <= n /\ n \in 1..n
    BY <2>5
  <2>10. Flatten(s)[n] = Flatten(t)[n]
    <3>1. /\ Len(s) \in Nat \ {0} /\ Len(t) \in Nat \ {0}
          /\ n \in Nat \ {0} /\ n <= Len(s) /\ n <= Len(t)
      BY <2>5, <2>9
    <3>2. QED
      BY <2>7, <3>1, FlattenAgree
  <2>11. QED
    BY <2>8, <2>10 DEF M
<1>3. QED
  BY <1>1, <1>2

(* Lists without an item add nothing to a run. *)
LEMMA RunSkip ==
    ASSUME NEW X, NEW L, L \in Seq(Seq(X)), NEW c \in 0..Len(L), NEW d \in c..Len(L),
           NEW i \in 1..(c + 1), \A m \in (c + 1)..d : L[m] = <<>>
    PROVE  RunOf(L, i, d) = RunOf(L, i, c)
<1>1. DEFINE T == {m \in Nat : m + c <= d => RunOf(L, i, m + c) = RunOf(L, i, c)}
<1>2. Len(L) \in Nat /\ c \in Nat /\ d \in Nat /\ i \in Nat \ {0} /\ i <= c + 1
  OBVIOUS
<1>3. T \subseteq Nat /\ 0 \in T
  <2>1. 0 + c = c
    BY <1>2
  <2>2. QED
    BY <2>1
<1>4. ASSUME NEW m \in T PROVE m + 1 \in T
  <2>1. SUFFICES ASSUME (m + 1) + c <= d PROVE RunOf(L, i, (m + 1) + c) = RunOf(L, i, c)
    BY <1>4
  <2>2. DEFINE k == (m + 1) + c
  <2>3. /\ k \in (c + 1)..d /\ i \in 1..Len(L) /\ k \in i..Len(L) /\ k - 1 = m + c
        /\ k - 1 \in 0..Len(L) /\ i \in 1..(Len(L) + 1) /\ m + c <= d
    BY <1>2, <1>4, <2>1
  <2>4. L[k] = <<>> /\ RunOf(L, i, k - 1) = RunOf(L, i, c)
    BY <1>4, <2>3
  <2> HIDE DEF k
  <2>5. RunOf(L, i, k) = RunOf(L, i, k - 1) \o <<>>
    BY <2>3, <2>4, RunNext
  <2>6. RunOf(L, i, k - 1) \in Seq(X)
    BY <2>3, RunType
  <2>7. \A l \in Seq(X) : l \o <<>> = l
    OBVIOUS
  <2>8. QED
    BY <2>4, <2>5, <2>6, <2>7 DEF k
<1>5. T = Nat
  <2> HIDE DEF T
  <2>1. QED
    BY <1>3, <1>4, NatSet
<1>6. d - c \in Nat /\ (d - c) + c = d
  BY <1>2
<1>7. d - c \in T
  BY <1>5, <1>6, Zenon
<1>8. QED
  BY <1>2, <1>6, <1>7
-----------------------------------------------------------------------------
(* Where the blocks of each snapshot are                                    *)

(* How the queue q holds the snapshots dl: at[a] is the place of the a-th one's
   block until it runs, and then the one before its first document's block.
   The first h snapshots' blocks have run; of these the first c have no document
   waiting, and of the next one the first p documents' blocks have run. *)
Counts(dl, at, c, h, p) ==
    /\ at \in [1..Len(dl) -> Int]
    /\ h \in 0..Len(dl) /\ c \in 0..h /\ p \in Nat
    /\ p > 0 => c < h /\ p < Len(dl[c + 1]) /\ at[c + 1] + p = 0

(* The documents' blocks of a snapshot are together, ... *)
Together(q, dl, at, c, h, p) ==
    \A a \in (c + 1)..h :
       /\ at[a] + Len(dl[a]) <= Len(q)
       /\ Len(dl[a]) > 0 /\ ~(a = c + 1 /\ p > 0) => at[a] >= 0
       /\ \A i \in 1..Len(dl[a]) :
             at[a] + i >= 1 => q[at[a] + i] = Block("document", dl[a][i])

(* ... before those of the next, ... *)
InOrder(dl, at, c, h) ==
    \A a, e \in (c + 1)..h : a < e => at[a] + Len(dl[a]) <= at[e]

(* ... the other snapshots' own blocks are in order too, ... *)
Unopened(q, dl, at, h) ==
    /\ \A a \in (h + 1)..Len(dl) :
          at[a] \in 1..Len(q) /\ q[at[a]] = Block("snapshot", dl[a])
    /\ \A a, e \in (h + 1)..Len(dl) : a < e => at[a] < at[e]

(* ... and there are no others. *)
NoOthers(q, dl, at, c, h) ==
    \A x \in 1..Len(q) :
       /\ q[x].kind = "document" =>
             \E a \in (c + 1)..h : \E i \in 1..Len(dl[a]) : x = at[a] + i
       /\ q[x].kind = "snapshot" => \E a \in (h + 1)..Len(dl) : x = at[a]

Placed(q, dl, at, c, h, p) ==
    /\ Counts(dl, at, c, h, p)
    /\ Together(q, dl, at, c, h, p) /\ InOrder(dl, at, c, h)
    /\ Unopened(q, dl, at, h)
    /\ NoOthers(q, dl, at, c, h)

(* The view model's list: the whole lists after the b-th, and the part of the next
   one whose documents' blocks have run.  It was emptied when the b-th was the last
   of which nothing waited, by a later snapshot or by an error. *)
Collected(c, h, p, b) ==
    /\ b \in 0..c
    /\ b < h \/ alert \/ h = 0
    /\ itemList = IF p = 0 THEN RunOf(ListsDelivered, b + 1, c)
                  ELSE RunOf(ListsDelivered, b + 1, c) \o ListedUpTo(delivered[c + 1])[p]

NoneOf(q, kind) == \A x \in 1..Len(q) : q[x].kind # kind

(* What the page will show when the draws that wait have run. *)
Latest(q, page, list) ==
    \/ \E x \in 1..Len(q) : /\ q[x] = Block("draw", list)
                            /\ \A y \in (x + 1)..Len(q) : q[y].kind # "draw"
    \/ NoneOf(q, "draw") /\ page = list

(* Unless a callback waits, the last redraw has every list it could have. *)
Redrawn(c, h, p) ==
    NoneOf(queue, "callback") =>
        /\ p > 0 => ListedUpTo(delivered[c + 1])[p] = <<>>
        /\ \E i \in 1..(c + 1) : /\ i <= h \/ alert \/ h = 0
                                 /\ Latest(queue, shown, RunOf(ListsDelivered, i, c))

(* A run of whole lists, as DealsView draws them. *)
WholeLists(list) ==
    \E i \in 1..Len(delivered), j \in 0..Len(delivered) : list = RunOf(ListsDelivered, i, j)

DrawsInv ==
    /\ \A x \in 1..Len(queue) : queue[x].kind = "draw" => WholeLists(queue[x].arg)
    /\ delivered = <<>> => NoneOf(queue, "callback")

FeedInv ==
    /\ OwnInv
    /\ DrawsInv
    /\ \E at, c, h, p, b : /\ Placed(queue, delivered, at, c, h, p)
                           /\ Collected(c, h, p, b)
                           /\ Redrawn(c, h, p)
(* The numbers of documents, and the kinds of the blocks. *)
LEMMA PlacedTypes ==
    ASSUME NEW q, q \in Seq(Blocks), NEW dl, dl \in Seq(Snapshots), NEW at, NEW c, NEW h, NEW p,
           Placed(q, dl, at, c, h, p)
    PROVE  /\ Len(q) \in Nat /\ Len(dl) \in Nat
           /\ c \in Nat /\ h \in Nat /\ p \in Nat /\ c <= h /\ h <= Len(dl)
           /\ \A a \in 1..Len(dl) : Len(dl[a]) \in Nat /\ at[a] \in Int /\ dl[a] \in Snapshots
           /\ \A a \in (c + 1)..h : a \in 1..Len(dl)
           /\ \A a \in (h + 1)..Len(dl) : a \in 1..Len(dl)
           /\ p > 0 => c + 1 \in (c + 1)..h
<1>1. Len(q) \in Nat /\ Len(dl) \in Nat /\ \A a \in 1..Len(dl) : dl[a] \in Snapshots
  OBVIOUS
<1>2. \A a \in 1..Len(dl) : Len(dl[a]) \in Nat
  BY <1>1, SnapshotDocs
<1>3. /\ at \in [1..Len(dl) -> Int] /\ h \in 0..Len(dl) /\ c \in 0..h /\ p \in Nat
      /\ p > 0 => c < h
  BY DEF Placed, Counts
<1>4. c \in Nat /\ h \in Nat /\ c <= h /\ h <= Len(dl)
  BY <1>1, <1>3
<1>5. /\ \A a \in (c + 1)..h : a \in 1..Len(dl)
      /\ \A a \in (h + 1)..Len(dl) : a \in 1..Len(dl)
      /\ p > 0 => c + 1 \in (c + 1)..h
  BY <1>1, <1>3, <1>4
<1>6. QED
  BY <1>1, <1>2, <1>3, <1>4, <1>5

(* While a snapshot's documents have run in part, the next of them is first. *)
LEMMA PartlyRun ==
    ASSUME NEW q, q \in Seq(Blocks), NEW dl, dl \in Seq(Snapshots), NEW at, NEW c, NEW h, NEW p,
           Placed(q, dl, at, c, h, p), p > 0
    PROVE  /\ q # <<>> /\ Head(q).kind = "document"
           /\ at[c + 1] + (p + 1) = 1
<1>1. /\ Len(q) \in Nat /\ p \in Nat /\ c \in Nat /\ c + 1 \in (c + 1)..h
      /\ Len(dl[c + 1]) \in Nat /\ at[c + 1] \in Int
  BY PlacedTypes
<1>2. p < Len(dl[c + 1]) /\ at[c + 1] + p = 0
  BY DEF Placed, Counts
<1>3. p + 1 \in 1..Len(dl[c + 1]) /\ at[c + 1] + (p + 1) = 1
  BY <1>1, <1>2
<1>4. q[1] = Block("document", dl[c + 1][p + 1])
  <2>1. \A i \in 1..Len(dl[c + 1]) :
          at[c + 1] + i >= 1 => q[at[c + 1] + i] = Block("document", dl[c + 1][i])
    BY <1>1 DEF Placed, Together
  <2>2. q[at[c + 1] + (p + 1)] = Block("document", dl[c + 1][p + 1])
    BY <1>3, <2>1
  <2>3. QED
    BY <1>3, <2>2
<1>5. 1 <= Len(q)
  BY <1>1, <1>2 DEF Placed, Together
<1>6. q # <<>> /\ Head(q) = q[1]
  BY <1>1, <1>5
<1>7. QED
  BY <1>3, <1>4, <1>6, BlockOf

(* Places once the first block has run. *)
Shifted(dl, at) == [a \in 1..Len(dl) |-> at[a] - 1]

(* A block that is neither a snapshot's nor a document's has run. *)
LEMMA PlacedTail ==
    ASSUME NEW q, q \in Seq(Blocks), NEW dl, dl \in Seq(Snapshots), NEW at, NEW c, NEW h, NEW p,
           Placed(q, dl, at, c, h, p),
           q # <<>>, Head(q).kind # "document", Head(q).kind # "snapshot"
    PROVE  p = 0 /\ Placed(Tail(q), dl, Shifted(dl, at), c, h, 0)
<1>1. /\ Len(q) \in Nat /\ Len(dl) \in Nat
      /\ c \in Nat /\ h \in Nat /\ p \in Nat /\ c <= h /\ h <= Len(dl)
      /\ \A a \in 1..Len(dl) : Len(dl[a]) \in Nat /\ at[a] \in Int
      /\ \A a \in (c + 1)..h : a \in 1..Len(dl)
      /\ \A a \in (h + 1)..Len(dl) : a \in 1..Len(dl)
  BY PlacedTypes
<1>2. p = 0
  BY <1>1, PartlyRun
<1>3. /\ Len(q) >= 1 /\ Len(Tail(q)) = Len(q) - 1 /\ Head(q) = q[1]
      /\ \A x \in 1..(Len(q) - 1) : Tail(q)[x] = q[x + 1]
  BY <1>1
<1>4. DEFINE r == Tail(q)
             to == Shifted(dl, at)
<1>5. \A a \in 1..Len(dl) : to[a] = at[a] - 1
  BY DEF Shifted
<1>6. Counts(dl, to, c, h, 0)
  BY <1>1, <1>5 DEF Placed, Counts, Shifted
<1> HIDE DEF to, r
<1>7. Together(r, dl, to, c, h, 0)
  <2>1. SUFFICES ASSUME NEW a \in (c + 1)..h
                 PROVE  /\ to[a] + Len(dl[a]) <= Len(r)
                        /\ Len(dl[a]) > 0 => to[a] >= 0
                        /\ \A i \in 1..Len(dl[a]) :
                              to[a] + i >= 1 => r[to[a] + i] = Block("document", dl[a][i])
    BY DEF Together
  <2>2. /\ at[a] + Len(dl[a]) <= Len(q)
        /\ Len(dl[a]) > 0 => at[a] >= 0
        /\ \A i \in 1..Len(dl[a]) :
              at[a] + i >= 1 => q[at[a] + i] = Block("document", dl[a][i])
    BY <1>2 DEF Placed, Together
  <2>3. to[a] = at[a] - 1 /\ at[a] \in Int /\ Len(dl[a]) \in Nat
    BY <1>1, <1>5
  <2>4. Len(dl[a]) > 0 => at[a] # 0
    <3>1. SUFFICES ASSUME Len(dl[a]) > 0, at[a] = 0 PROVE FALSE
      OBVIOUS
    <3>2. 1 \in 1..Len(dl[a]) /\ at[a] + 1 = 1
      BY <2>3, <3>1
    <3>3. q[1] = Block("document", dl[a][1])
      BY <2>2, <3>2
    <3>4. QED
      BY <1>3, <3>3, BlockOf
  <2>5. ASSUME NEW i \in 1..Len(dl[a]), to[a] + i >= 1
        PROVE  r[to[a] + i] = Block("document", dl[a][i])
    <3>1. DEFINE x == to[a] + i
    <3>2. x + 1 = at[a] + i /\ x \in 1..(Len(q) - 1) /\ at[a] + i >= 1
      <4>1. PICK u, m, l : u = at[a] /\ m = Len(dl[a]) /\ l = Len(q)
        OBVIOUS
      <4>2. u \in Int /\ m \in Nat /\ l \in Nat /\ u + m <= l
        BY <4>1, <1>1, <2>2, <2>3, <2>5
      <4>3. i \in Nat /\ i <= m /\ (u - 1) + i >= 1 /\ x = (u - 1) + i
        BY <4>1, <1>1, <2>2, <2>3, <2>5
      <4>4. ((u - 1) + i) + 1 = u + i /\ (u - 1) + i \in 1..(l - 1) /\ u + i >= 1
        BY <4>2, <4>3
      <4>5. QED
        BY <4>1, <4>3, <4>4
    <3>3. r[x] = q[x + 1]
      BY <1>3, <3>2 DEF r
    <3>4. QED
      BY <2>2, <3>2, <3>3
  <2>6. Len(r) = Len(q) - 1 /\ Len(q) \in Nat
    BY <1>1, <1>3 DEF r
  <2>7. to[a] + Len(dl[a]) <= Len(r) /\ (Len(dl[a]) > 0 => to[a] >= 0)
    BY <2>2, <2>3, <2>4, <2>6
  <2>8. QED
    BY <2>5, <2>7
<1>8. InOrder(dl, to, c, h)
  <2>1. SUFFICES ASSUME NEW a \in (c + 1)..h, NEW e \in (c + 1)..h, a < e
                 PROVE  to[a] + Len(dl[a]) <= to[e]
    BY DEF InOrder
  <2>2. at[a] + Len(dl[a]) <= at[e]
    BY <2>1 DEF Placed, InOrder
  <2>3. /\ at[a] \in Int /\ at[e] \in Int /\ Len(dl[a]) \in Nat
        /\ to[a] = at[a] - 1 /\ to[e] = at[e] - 1
    BY <1>1, <1>5
  <2>4. QED
    BY <2>2, <2>3
<1>9. Unopened(r, dl, to, h)
  <2>1. ASSUME NEW a \in (h + 1)..Len(dl)
        PROVE  to[a] \in 1..Len(r) /\ r[to[a]] = Block("snapshot", dl[a])
    <3>1. at[a] \in 1..Len(q) /\ q[at[a]] = Block("snapshot", dl[a]) /\ to[a] = at[a] - 1
      BY <1>1, <1>5 DEF Placed, Unopened
    <3>2. at[a] # 1
      BY <1>3, <3>1, BlockOf
    <3>3. to[a] \in 1..(Len(q) - 1) /\ to[a] + 1 = at[a]
      BY <1>1, <3>1, <3>2
    <3>4. QED
      BY <1>3, <3>1, <3>3 DEF r
  <2>2. ASSUME NEW a \in (h + 1)..Len(dl), NEW e \in (h + 1)..Len(dl), a < e
        PROVE  to[a] < to[e]
    <3>1. at[a] < at[e]
      BY <2>2 DEF Placed, Unopened
    <3>2. QED
      BY <1>1, <1>5, <3>1
  <2>3. QED
    BY <2>1, <2>2 DEF Unopened
<1>10. NoOthers(r, dl, to, c, h)
  <2>1. SUFFICES ASSUME NEW x \in 1..Len(r)
                 PROVE  /\ r[x].kind = "document" =>
                              \E a \in (c + 1)..h : \E i \in 1..Len(dl[a]) : x = to[a] + i
                        /\ r[x].kind = "snapshot" => \E a \in (h + 1)..Len(dl) : x = to[a]
    BY DEF NoOthers
  <2>2. x + 1 \in 1..Len(q) /\ r[x] = q[x + 1]
    BY <1>1, <1>3 DEF r
  <2>3. ASSUME r[x].kind = "document"
        PROVE  \E a \in (c + 1)..h : \E i \in 1..Len(dl[a]) : x = to[a] + i
    <3>1. PICK a \in (c + 1)..h : \E i \in 1..Len(dl[a]) : x + 1 = at[a] + i
      BY <2>2, <2>3 DEF Placed, NoOthers
    <3>2. PICK i \in 1..Len(dl[a]) : x + 1 = at[a] + i
      BY <3>1
    <3>3. at[a] \in Int /\ to[a] = at[a] - 1 /\ i \in Int
      BY <1>1, <1>5
    <3>4. x = to[a] + i
      BY <2>2, <3>2, <3>3
    <3>5. QED
      BY <3>4
  <2>4. ASSUME r[x].kind = "snapshot"
        PROVE  \E a \in (h + 1)..Len(dl) : x = to[a]
    <3>1. PICK a \in (h + 1)..Len(dl) : x + 1 = at[a]
      BY <2>2, <2>4 DEF Placed, NoOthers
    <3>2. x = to[a]
      BY <1>1, <1>5, <2>2, <3>1
    <3>3. QED
      BY <3>2
  <2>5. QED
    BY <2>3, <2>4
<1>11. QED
  BY <1>2, <1>6, <1>7, <1>8, <1>9, <1>10 DEF Placed, to, r
(* A block that is neither a snapshot's nor a document's is put on the queue. *)
LEMMA PlacedAppend ==
    ASSUME NEW q, q \in Seq(Blocks), NEW dl, dl \in Seq(Snapshots), NEW at, NEW c, NEW h, NEW p,
           Placed(q, dl, at, c, h, p),
           NEW b \in Blocks, b.kind # "document", b.kind # "snapshot"
    PROVE  Placed(Append(q, b), dl, at, c, h, p)
<1>1. /\ Len(q) \in Nat /\ Len(dl) \in Nat
      /\ \A a \in 1..Len(dl) : Len(dl[a]) \in Nat /\ at[a] \in Int
      /\ \A a \in (c + 1)..h : a \in 1..Len(dl)
  BY PlacedTypes
<1>2. DEFINE r == Append(q, b)
<1>3. /\ Len(r) = Len(q) + 1 /\ r[Len(q) + 1] = b
      /\ \A x \in 1..Len(q) : r[x] = q[x]
  OBVIOUS
<1> HIDE DEF r
<1>4. Together(r, dl, at, c, h, p)
  <2>1. SUFFICES ASSUME NEW a \in (c + 1)..h
                 PROVE  /\ at[a] + Len(dl[a]) <= Len(r)
                        /\ Len(dl[a]) > 0 /\ ~(a = c + 1 /\ p > 0) => at[a] >= 0
                        /\ \A i \in 1..Len(dl[a]) :
                              at[a] + i >= 1 => r[at[a] + i] = Block("document", dl[a][i])
    BY DEF Together
  <2>2. /\ at[a] + Len(dl[a]) <= Len(q)
        /\ Len(dl[a]) > 0 /\ ~(a = c + 1 /\ p > 0) => at[a] >= 0
        /\ \A i \in 1..Len(dl[a]) :
              at[a] + i >= 1 => q[at[a] + i] = Block("document", dl[a][i])
    BY DEF Placed, Together
  <2>3. at[a] \in Int /\ Len(dl[a]) \in Nat /\ Len(q) \in Nat
    BY <1>1
  <2>4. ASSUME NEW i \in 1..Len(dl[a]), at[a] + i >= 1
        PROVE  r[at[a] + i] = Block("document", dl[a][i])
    <3>1. at[a] + i \in 1..Len(q)
      BY <2>2, <2>3, <2>4
    <3>2. QED
      BY <1>3, <2>2, <2>4, <3>1
  <2>5. QED
    BY <1>3, <2>2, <2>3, <2>4
<1>5. Unopened(r, dl, at, h)
  <2>1. ASSUME NEW a \in (h + 1)..Len(dl)
        PROVE  at[a] \in 1..Len(r) /\ r[at[a]] = Block("snapshot", dl[a])
    <3>1. at[a] \in 1..Len(q) /\ q[at[a]] = Block("snapshot", dl[a])
      BY DEF Placed, Unopened
    <3>2. QED
      BY <1>1, <1>3, <3>1
  <2>2. QED
    BY <2>1 DEF Placed, Unopened
<1>6. NoOthers(r, dl, at, c, h)
  <2>1. SUFFICES ASSUME NEW x \in 1..Len(r)
                 PROVE  /\ r[x].kind = "document" =>
                              \E a \in (c + 1)..h : \E i \in 1..Len(dl[a]) : x = at[a] + i
                        /\ r[x].kind = "snapshot" => \E a \in (h + 1)..Len(dl) : x = at[a]
    BY DEF NoOthers
  <2>2. x \in 1..Len(q) \/ x = Len(q) + 1
    BY <1>1, <1>3
  <2>3. CASE x \in 1..Len(q)
    <3>1. r[x] = q[x]
      BY <1>3, <2>3
    <3>2. QED
      BY <2>3, <3>1 DEF Placed, NoOthers
  <2>4. CASE x = Len(q) + 1
    BY <1>3, <2>4
  <2>5. QED
    BY <2>2, <2>3, <2>4
<1>7. QED
  BY <1>4, <1>5, <1>6 DEF Placed, r

(* Firestore puts a new snapshot's block on the queue. *)
LEMMA PlacedDeliver ==
    ASSUME NEW q, q \in Seq(Blocks), NEW dl, dl \in Seq(Snapshots), NEW at, NEW c, NEW h, NEW p,
           Placed(q, dl, at, c, h, p), NEW s \in Snapshots
    PROVE  \E to : Placed(Append(q, Block("snapshot", s)), Append(dl, s), to, c, h, p)
<1>1. /\ Len(q) \in Nat /\ Len(dl) \in Nat
      /\ c \in Nat /\ h \in Nat /\ p \in Nat /\ c <= h /\ h <= Len(dl)
      /\ \A a \in 1..Len(dl) : Len(dl[a]) \in Nat /\ at[a] \in Int
      /\ \A a \in (c + 1)..h : a \in 1..Len(dl)
      /\ \A a \in (h + 1)..Len(dl) : a \in 1..Len(dl)
      /\ p > 0 => c + 1 \in (c + 1)..h
  BY PlacedTypes
<1>2. DEFINE b == Block("snapshot", s)
             r == Append(q, b)
             dm == Append(dl, s)
             to == [a \in 1..(Len(dl) + 1) |-> IF a = Len(dl) + 1 THEN Len(q) + 1 ELSE at[a]]
<1>3. b \in Blocks /\ b.kind = "snapshot"
  BY BlockOf
<1>4. /\ Len(r) = Len(q) + 1 /\ r[Len(q) + 1] = b
      /\ \A x \in 1..Len(q) : r[x] = q[x]
  BY <1>3
<1>5. /\ Len(dm) = Len(dl) + 1 /\ dm[Len(dl) + 1] = s
      /\ \A a \in 1..Len(dl) : dm[a] = dl[a]
  OBVIOUS
<1>6. /\ to[Len(dl) + 1] = Len(q) + 1
      /\ \A a \in 1..Len(dl) : to[a] = at[a]
      /\ to \in [1..(Len(dl) + 1) -> Int]
  BY <1>1
<1> HIDE DEF to, dm, r, b
<1>7. \A a \in (c + 1)..h : dm[a] = dl[a] /\ to[a] = at[a] /\ Len(dl[a]) \in Nat /\ at[a] \in Int
  BY <1>1, <1>5, <1>6
<1>8. \A a \in (h + 1)..Len(dl) : dm[a] = dl[a] /\ to[a] = at[a] /\ at[a] \in Int
  BY <1>1, <1>5, <1>6
<1>9. Counts(dm, to, c, h, p)
  <2>1. p > 0 => c < h /\ p < Len(dl[c + 1]) /\ at[c + 1] + p = 0
    BY DEF Placed, Counts
  <2>2. p > 0 => c < h /\ p < Len(dm[c + 1]) /\ to[c + 1] + p = 0
    BY <1>1, <1>7, <2>1
  <2>3. h \in 0..Len(dm) /\ c \in 0..h /\ p \in Nat
    BY <1>1, <1>5
  <2>4. QED
    BY <1>5, <1>6, <2>2, <2>3 DEF Counts
<1>10. Together(r, dm, to, c, h, p)
  <2>1. SUFFICES ASSUME NEW a \in (c + 1)..h
                 PROVE  /\ at[a] + Len(dl[a]) <= Len(r)
                        /\ Len(dl[a]) > 0 /\ ~(a = c + 1 /\ p > 0) => at[a] >= 0
                        /\ \A i \in 1..Len(dl[a]) :
                              at[a] + i >= 1 => r[at[a] + i] = Block("document", dl[a][i])
    BY <1>7 DEF Together
  <2>2. /\ at[a] + Len(dl[a]) <= Len(q)
        /\ Len(dl[a]) > 0 /\ ~(a = c + 1 /\ p > 0) => at[a] >= 0
        /\ \A i \in 1..Len(dl[a]) :
              at[a] + i >= 1 => q[at[a] + i] = Block("document", dl[a][i])
    BY DEF Placed, Together
  <2>3. at[a] \in Int /\ Len(dl[a]) \in Nat /\ Len(q) \in Nat
    BY <1>1
  <2>4. ASSUME NEW i \in 1..Len(dl[a]), at[a] + i >= 1
        PROVE  r[at[a] + i] = Block("document", dl[a][i])
    <3>1. at[a] + i \in 1..Len(q)
      BY <2>2, <2>3, <2>4
    <3>2. QED
      BY <1>4, <2>2, <2>4, <3>1
  <2>5. QED
    BY <1>4, <2>2, <2>3, <2>4
<1>11. InOrder(dm, to, c, h)
  <2>1. SUFFICES ASSUME NEW a \in (c + 1)..h, NEW e \in (c + 1)..h, a < e
                 PROVE  to[a] + Len(dm[a]) <= to[e]
    BY DEF InOrder
  <2>2. at[a] + Len(dl[a]) <= at[e]
    BY <2>1 DEF Placed, InOrder
  <2>3. QED
    BY <1>7, <2>2
<1>12. Unopened(r, dm, to, h)
  <2>1. \A a \in (h + 1)..Len(dm) : a \in (h + 1)..Len(dl) \/ a = Len(dl) + 1
    BY <1>1, <1>5
  <2>2. \A a \in (h + 1)..Len(dl) : to[a] \in 1..Len(q) /\ q[to[a]] = Block("snapshot", dm[a])
    BY <1>8 DEF Placed, Unopened
  <2>3. ASSUME NEW a \in (h + 1)..Len(dm)
        PROVE  to[a] \in 1..Len(r) /\ r[to[a]] = Block("snapshot", dm[a])
    <3>1. CASE a \in (h + 1)..Len(dl)
      <4>1. to[a] \in 1..Len(q) /\ q[to[a]] = Block("snapshot", dm[a])
        BY <2>2, <3>1
      <4>2. QED
        BY <1>1, <1>4, <4>1
    <3>2. CASE a = Len(dl) + 1
      BY <1>1, <1>4, <1>5, <1>6, <3>2 DEF b
    <3>3. QED
      BY <2>1, <3>1, <3>2
  <2>4. ASSUME NEW a \in (h + 1)..Len(dm), NEW e \in (h + 1)..Len(dm), a < e
        PROVE  to[a] < to[e]
    <3>1. a \in (h + 1)..Len(dl)
      BY <1>1, <1>5, <2>4
    <3>2. to[a] \in 1..Len(q)
      BY <2>2, <3>1
    <3>3. CASE e \in (h + 1)..Len(dl)
      <4>1. at[a] < at[e]
        BY <2>4, <3>1, <3>3 DEF Placed, Unopened
      <4>2. QED
        BY <1>8, <3>1, <3>3, <4>1
    <3>4. CASE e = Len(dl) + 1
      BY <1>1, <1>6, <3>2, <3>4
    <3>5. QED
      BY <2>1, <3>3, <3>4
  <2>5. QED
    BY <2>3, <2>4 DEF Unopened
<1>13. NoOthers(r, dm, to, c, h)
  <2>1. SUFFICES ASSUME NEW x \in 1..Len(r)
                 PROVE  /\ r[x].kind = "document" =>
                              \E a \in (c + 1)..h : \E i \in 1..Len(dm[a]) : x = to[a] + i
                        /\ r[x].kind = "snapshot" => \E a \in (h + 1)..Len(dm) : x = to[a]
    BY DEF NoOthers
  <2>2. x \in 1..Len(q) \/ x = Len(q) + 1
    BY <1>1, <1>4
  <2>3. CASE x \in 1..Len(q)
    <3>1. /\ q[x].kind = "document" =>
                \E a \in (c + 1)..h : \E i \in 1..Len(dl[a]) : x = at[a] + i
          /\ q[x].kind = "snapshot" => \E a \in (h + 1)..Len(dl) : x = at[a]
      BY <2>3 DEF Placed, NoOthers
    <3>2. r[x] = q[x]
      BY <1>4, <2>3
    <3>3. \A a \in (h + 1)..Len(dl) : a \in (h + 1)..Len(dm)
      BY <1>1, <1>5
    <3>4. QED
      BY <1>7, <1>8, <3>1, <3>2, <3>3
  <2>4. CASE x = Len(q) + 1
    <3>1. Len(dl) + 1 \in (h + 1)..Len(dm)
      BY <1>1, <1>5
    <3>2. QED
      BY <1>3, <1>4, <1>6, <2>4, <3>1
  <2>5. QED
    BY <2>2, <2>3, <2>4
<1>14. Placed(r, dm, to, c, h, p)
  BY <1>9, <1>10, <1>11, <1>12, <1>13 DEF Placed
<1>15. QED
  BY <1>14 DEF r, dm, b
(* A snapshot's block is the first: it is the oldest one not opened. *)
LEMMA SnapshotFirst ==
    ASSUME NEW q, q \in Seq(Blocks), NEW dl, dl \in Seq(Snapshots), NEW at, NEW c, NEW h, NEW p,
           Placed(q, dl, at, c, h, p),
           q # <<>>, Head(q).kind = "snapshot"
    PROVE  /\ p = 0 /\ h < Len(dl)
           /\ at[h + 1] = 1 /\ Head(q).arg = dl[h + 1]
<1>1. /\ Len(q) \in Nat /\ Len(dl) \in Nat /\ h \in Nat /\ p \in Nat /\ h <= Len(dl)
      /\ \A a \in 1..Len(dl) : at[a] \in Int
      /\ \A a \in (h + 1)..Len(dl) : a \in 1..Len(dl)
  BY PlacedTypes
<1>2. p = 0
  BY <1>1, PartlyRun
<1>3. 1 \in 1..Len(q) /\ Head(q) = q[1]
  BY <1>1
<1>4. PICK a \in (h + 1)..Len(dl) : at[a] = 1
  BY <1>3 DEF Placed, NoOthers
<1>5. h < Len(dl) /\ h + 1 \in (h + 1)..Len(dl)
  BY <1>1, <1>4
<1>6. at[h + 1] \in 1..Len(q) /\ q[at[h + 1]] = Block("snapshot", dl[h + 1])
  BY <1>5 DEF Placed, Unopened
<1>7. h + 1 < a => at[h + 1] < at[a]
  BY <1>5 DEF Placed, Unopened
<1>8. a = h + 1
  <2>1. ~(h + 1 < a)
    BY <1>1, <1>4, <1>6, <1>7
  <2>2. QED
    BY <1>1, <1>4, <2>1
<1>9. QED
  BY <1>2, <1>3, <1>4, <1>5, <1>6, <1>8, BlockOf

(* Places once the h-th snapshot's block has run, n blocks being left. *)
Opened(dl, at, h, n) == [a \in 1..Len(dl) |-> IF a = h THEN n ELSE at[a] - 1]

(* A snapshot's block has run: its documents are behind all others. *)
LEMMA PlacedSnapshot ==
    ASSUME NEW q, q \in Seq(Blocks), NEW dl, dl \in Seq(Snapshots), NEW at, NEW c, NEW h, NEW p,
           Placed(q, dl, at, c, h, p),
           q # <<>>, Head(q).kind = "snapshot"
    PROVE  Placed(Tail(q) \o DocumentBlocks(dl[h + 1]), dl,
                  Opened(dl, at, h + 1, Len(q) - 1), c, h + 1, 0)
<1>1. /\ Len(q) \in Nat /\ Len(dl) \in Nat
      /\ c \in Nat /\ h \in Nat /\ p \in Nat /\ c <= h /\ h <= Len(dl)
      /\ \A a \in 1..Len(dl) : Len(dl[a]) \in Nat /\ at[a] \in Int /\ dl[a] \in Snapshots
      /\ \A a \in (c + 1)..h : a \in 1..Len(dl)
      /\ \A a \in (h + 1)..Len(dl) : a \in 1..Len(dl)
  BY PlacedTypes
<1>2. p = 0 /\ h < Len(dl) /\ at[h + 1] = 1 /\ Head(q).arg = dl[h + 1]
  BY SnapshotFirst
<1>3. /\ Len(q) >= 1 /\ Len(Tail(q)) = Len(q) - 1 /\ Head(q) = q[1] /\ Tail(q) \in Seq(Blocks)
      /\ \A x \in 1..(Len(q) - 1) : Tail(q)[x] = q[x + 1]
  BY <1>1
<1>4. DEFINE g == h + 1
             s == dl[g]
             n == Len(q) - 1
             r == Tail(q) \o DocumentBlocks(s)
             to == Opened(dl, at, g, n)
<1>5. g \in 1..Len(dl) /\ s \in Snapshots /\ n \in Nat /\ Len(s) \in Nat
  BY <1>1, <1>2, <1>3
<1>6. /\ Len(r) = n + Len(s)
      /\ \A x \in 1..n : r[x] = q[x + 1]
      /\ \A i \in 1..Len(s) : r[n + i] = Block("document", s[i])
  <2>1. DEFINE t == Tail(q)
  <2>2. t \in Seq(Blocks) /\ Len(t) = n /\ \A x \in 1..n : t[x] = q[x + 1]
    BY <1>3
  <2> HIDE DEF s, g, t, n
  <2>3. /\ Len(t \o DocumentBlocks(s)) = Len(t) + Len(s)
        /\ \A x \in 1..Len(t) : (t \o DocumentBlocks(s))[x] = t[x]
        /\ \A i \in 1..Len(s) : (t \o DocumentBlocks(s))[Len(t) + i] = Block("document", s[i])
    BY <1>5, <2>2, SnapshotQueue
  <2>4. r = t \o DocumentBlocks(s)
    BY DEF t
  <2> HIDE DEF r
  <2>5. QED
    BY <2>2, <2>3, <2>4
<1>7. /\ to[g] = n /\ to \in [1..Len(dl) -> Int]
      /\ \A a \in (c + 1)..h : to[a] = at[a] - 1 /\ at[a] \in Int /\ Len(dl[a]) \in Nat /\ a # g
      /\ \A a \in (g + 1)..Len(dl) : /\ to[a] = at[a] - 1 /\ at[a] \in Int
                                     /\ a # g /\ a \in (h + 1)..Len(dl)
  <2>1. \A a \in 1..Len(dl) : to[a] = IF a = g THEN n ELSE at[a] - 1
    BY DEF Opened
  <2>2. /\ \A a \in (c + 1)..h : a \in 1..Len(dl) /\ a # g
        /\ \A a \in (g + 1)..Len(dl) : a \in 1..Len(dl) /\ a # g /\ a \in (h + 1)..Len(dl)
    BY <1>1
  <2>3. to \in [1..Len(dl) -> Int]
    BY <1>1, <1>5 DEF Opened
  <2> HIDE DEF to, g, n
  <2>4. QED
    BY <1>1, <1>5, <2>1, <2>2, <2>3
<1>8. /\ \A a \in (c + 1)..g : a \in (c + 1)..h \/ a = g
      /\ \A a \in (c + 1)..h : a \in (c + 1)..g /\ a < g
      /\ g \in (c + 1)..g /\ c \in 0..g /\ g \in 0..Len(dl) /\ g \in Nat
      /\ g \in (h + 1)..Len(dl)
  BY <1>1, <1>2
<1> HIDE DEF to, r, s, g, n
<1>9. Counts(dl, to, c, g, 0)
  BY <1>7, <1>8 DEF Counts
<1>10. ASSUME NEW a \in (c + 1)..h
       PROVE  /\ to[a] + Len(dl[a]) <= n
              /\ Len(dl[a]) > 0 => to[a] >= 0
              /\ \A i \in 1..Len(dl[a]) :
                    to[a] + i >= 1 => r[to[a] + i] = Block("document", dl[a][i])
  <2>1. /\ at[a] + Len(dl[a]) <= Len(q)
        /\ Len(dl[a]) > 0 => at[a] >= 0
        /\ \A i \in 1..Len(dl[a]) :
              at[a] + i >= 1 => q[at[a] + i] = Block("document", dl[a][i])
    BY <1>2 DEF Placed, Together
  <2>2. to[a] = at[a] - 1 /\ at[a] \in Int /\ Len(dl[a]) \in Nat /\ n = Len(q) - 1 /\ Len(q) \in Nat
    BY <1>1, <1>7 DEF n
  <2>3. Len(dl[a]) > 0 => at[a] # 0
    <3>1. SUFFICES ASSUME Len(dl[a]) > 0, at[a] = 0 PROVE FALSE
      OBVIOUS
    <3>2. 1 \in 1..Len(dl[a]) /\ at[a] + 1 = 1
      BY <2>2, <3>1
    <3>3. q[1] = Block("document", dl[a][1])
      BY <2>1, <3>2
    <3>4. QED
      BY <1>3, <3>3, BlockOf
  <2>4. ASSUME NEW i \in 1..Len(dl[a]), to[a] + i >= 1
        PROVE  r[to[a] + i] = Block("document", dl[a][i])
    <3>1. DEFINE x == to[a] + i
    <3>2. x + 1 = at[a] + i /\ x \in 1..n /\ at[a] + i >= 1
      <4>1. PICK u, m, l : u = at[a] /\ m = Len(dl[a]) /\ l = Len(q)
        OBVIOUS
      <4>2. u \in Int /\ m \in Nat /\ l \in Nat /\ u + m <= l
        BY <4>1, <2>1, <2>2, <2>4
      <4>3. i \in Nat /\ i <= m /\ (u - 1) + i >= 1 /\ x = (u - 1) + i
        BY <4>1, <2>1, <2>2, <2>4
      <4>4. ((u - 1) + i) + 1 = u + i /\ (u - 1) + i \in 1..(l - 1) /\ u + i >= 1
        BY <4>2, <4>3
      <4>5. QED
        BY <4>1, <4>3, <4>4, <2>2
    <3>3. r[x] = q[x + 1]
      BY <1>6, <3>2
    <3>4. QED
      BY <2>1, <3>2, <3>3
  <2>5. to[a] + Len(dl[a]) <= n /\ (Len(dl[a]) > 0 => to[a] >= 0)
    BY <2>1, <2>2, <2>3
  <2>6. QED
    BY <2>4, <2>5
<1>11. Together(r, dl, to, c, g, 0)
  <2>1. SUFFICES ASSUME NEW a \in (c + 1)..g
                 PROVE  /\ to[a] + Len(dl[a]) <= Len(r)
                        /\ Len(dl[a]) > 0 => to[a] >= 0
                        /\ \A i \in 1..Len(dl[a]) :
                              to[a] + i >= 1 => r[to[a] + i] = Block("document", dl[a][i])
    BY DEF Together
  <2>2. CASE a \in (c + 1)..h
    <3>1. to[a] \in Int /\ Len(dl[a]) \in Nat /\ to[a] + Len(dl[a]) <= n
      BY <1>7, <1>10, <2>2
    <3>2. to[a] + Len(dl[a]) <= Len(r)
      BY <1>5, <1>6, <3>1
    <3>3. QED
      BY <1>10, <2>2, <3>2
  <2>3. CASE a = g
    <3>1. dl[a] = s /\ to[a] = n
      BY <1>7, <2>3 DEF s
    <3>2. QED
      BY <1>5, <1>6, <3>1
  <2>4. QED
    BY <1>8, <2>2, <2>3
<1>12. InOrder(dl, to, c, g)
  <2>1. SUFFICES ASSUME NEW a \in (c + 1)..g, NEW e \in (c + 1)..g, a < e
                 PROVE  to[a] + Len(dl[a]) <= to[e]
    BY DEF InOrder
  <2>2. a \in (c + 1)..h
    BY <1>8, <2>1
  <2>3. CASE e = g
    BY <1>7, <1>10, <2>2, <2>3
  <2>4. CASE e \in (c + 1)..h
    <3>1. at[a] + Len(dl[a]) <= at[e]
      BY <2>1, <2>2, <2>4 DEF Placed, InOrder
    <3>2. /\ at[a] \in Int /\ at[e] \in Int /\ Len(dl[a]) \in Nat
          /\ to[a] = at[a] - 1 /\ to[e] = at[e] - 1
      BY <1>7, <2>2, <2>4
    <3>3. QED
      BY <3>1, <3>2
  <2>5. QED
    BY <1>8, <2>3, <2>4
<1>13. ASSUME NEW a \in (g + 1)..Len(dl)
       PROVE  /\ to[a] \in 1..n /\ to[a] + 1 = at[a] /\ at[a] \in Int
              /\ q[at[a]] = Block("snapshot", dl[a])
  <2>1. a \in (h + 1)..Len(dl) /\ to[a] = at[a] - 1 /\ at[a] \in Int
    BY <1>7
  <2>2. at[a] \in 1..Len(q) /\ q[at[a]] = Block("snapshot", dl[a])
    BY <2>1 DEF Placed, Unopened
  <2>3. at[h + 1] < at[a]
    <3>1. h + 1 < a
      BY <1>1 DEF g
    <3>2. QED
      BY <1>8, <2>1, <3>1 DEF Placed, Unopened, g
  <2>4. at[a] >= 2 /\ Len(q) \in Nat /\ at[a] <= Len(q)
    BY <1>1, <1>2, <2>1, <2>2, <2>3
  <2>5. to[a] \in 1..(Len(q) - 1) /\ to[a] + 1 = at[a]
    BY <2>1, <2>4
  <2>6. QED
    BY <2>1, <2>2, <2>5 DEF n
<1>14. Unopened(r, dl, to, g)
  <2>1. ASSUME NEW a \in (g + 1)..Len(dl)
        PROVE  to[a] \in 1..Len(r) /\ r[to[a]] = Block("snapshot", dl[a])
    <3>1. /\ to[a] \in 1..n /\ to[a] + 1 = at[a] /\ at[a] \in Int
          /\ q[at[a]] = Block("snapshot", dl[a])
      BY <1>13
    <3>2. r[to[a]] = q[to[a] + 1]
      BY <1>6, <3>1
    <3>3. QED
      BY <1>5, <1>6, <3>1, <3>2
  <2>2. ASSUME NEW a \in (g + 1)..Len(dl), NEW e \in (g + 1)..Len(dl), a < e
        PROVE  to[a] < to[e]
    <3>1. a \in (h + 1)..Len(dl) /\ e \in (h + 1)..Len(dl)
      BY <1>7
    <3>2. at[a] < at[e]
      BY <2>2, <3>1 DEF Placed, Unopened
    <3>3. at[a] \in Int /\ at[e] \in Int /\ to[a] = at[a] - 1 /\ to[e] = at[e] - 1
      BY <1>7
    <3>4. QED
      BY <3>2, <3>3
  <2>3. QED
    BY <2>1, <2>2 DEF Unopened
<1>15. NoOthers(r, dl, to, c, g)
  <2>1. SUFFICES ASSUME NEW x \in 1..Len(r)
                 PROVE  /\ r[x].kind = "document" =>
                              \E a \in (c + 1)..g : \E i \in 1..Len(dl[a]) : x = to[a] + i
                        /\ r[x].kind = "snapshot" => \E a \in (g + 1)..Len(dl) : x = to[a]
    BY DEF NoOthers
  <2>2. x \in 1..n \/ (x - n \in 1..Len(s) /\ x = n + (x - n))
    BY <1>5, <1>6
  <2>3. CASE x \in 1..n
    <3>1. x + 1 \in 1..Len(q) /\ r[x] = q[x + 1]
      BY <1>1, <1>6, <2>3 DEF n
    <3>2. ASSUME r[x].kind = "document"
          PROVE  \E a \in (c + 1)..g : \E i \in 1..Len(dl[a]) : x = to[a] + i
      <4>1. PICK a \in (c + 1)..h : \E i \in 1..Len(dl[a]) : x + 1 = at[a] + i
        BY <3>1, <3>2 DEF Placed, NoOthers
      <4>2. PICK i \in 1..Len(dl[a]) : x + 1 = at[a] + i
        BY <4>1
      <4>3. at[a] \in Int /\ to[a] = at[a] - 1 /\ i \in Int /\ a \in (c + 1)..g
        BY <1>7, <1>8
      <4>4. x = to[a] + i
        BY <2>3, <4>2, <4>3
      <4>5. QED
        BY <4>3, <4>4
    <3>3. ASSUME r[x].kind = "snapshot"
          PROVE  \E a \in (g + 1)..Len(dl) : x = to[a]
      <4>1. PICK a \in (h + 1)..Len(dl) : x + 1 = at[a]
        BY <3>1, <3>3 DEF Placed, NoOthers
      <4>2. a # h + 1
        BY <1>2, <2>3, <4>1
      <4>3. a \in (g + 1)..Len(dl)
        BY <1>1, <4>1, <4>2 DEF g
      <4>4. to[a] = at[a] - 1 /\ at[a] \in Int
        BY <1>7, <4>3
      <4>5. x = to[a]
        BY <4>1, <4>4
      <4>6. QED
        BY <4>3, <4>5
    <3>4. QED
      BY <3>2, <3>3
  <2>4. CASE x - n \in 1..Len(s) /\ x = n + (x - n)
    <3>1. r[x] = Block("document", s[x - n])
      BY <1>6, <2>4
    <3>2. r[x].kind = "document"
      BY <3>1, BlockOf
    <3>3. x = to[g] + (x - n) /\ x - n \in 1..Len(dl[g])
      BY <1>7, <2>4 DEF s
    <3>4. QED
      BY <1>8, <3>2, <3>3
  <2>5. QED
    BY <2>2, <2>3, <2>4
<1>16. QED
  BY <1>9, <1>11, <1>12, <1>14, <1>15 DEF Placed, to, r, s, g, n
(* The first block is that of the i-th document of the a-th snapshot: the next one
   of the oldest snapshot that has documents waiting. *)
NextDocument(q, dl, at, c, h, p, a, i) ==
    /\ a \in (c + 1)..h /\ i \in 1..Len(dl[a])
    /\ at[a] + i = 1 /\ Head(q).arg = dl[a][i]
    /\ p > 0 => a = c + 1 /\ i = p + 1
    /\ p = 0 => i = 1 /\ \A m \in (c + 1)..(a - 1) : Len(dl[m]) = 0

LEMMA DocumentFirst ==
    ASSUME NEW q, q \in Seq(Blocks), NEW dl, dl \in Seq(Snapshots), NEW at, NEW c, NEW h, NEW p,
           Placed(q, dl, at, c, h, p),
           q # <<>>, Head(q).kind = "document"
    PROVE  \E a, i : NextDocument(q, dl, at, c, h, p, a, i)
<1>1. /\ Len(q) \in Nat /\ Len(dl) \in Nat
      /\ c \in Nat /\ h \in Nat /\ p \in Nat /\ c <= h /\ h <= Len(dl)
      /\ \A a \in 1..Len(dl) : Len(dl[a]) \in Nat /\ at[a] \in Int
      /\ \A a \in (c + 1)..h : a \in 1..Len(dl)
      /\ p > 0 => c + 1 \in (c + 1)..h
  BY PlacedTypes
<1>2. 1 \in 1..Len(q) /\ Head(q) = q[1]
  BY <1>1
<1>3. PICK a \in (c + 1)..h : \E i \in 1..Len(dl[a]) : 1 = at[a] + i
  BY <1>2 DEF Placed, NoOthers
<1>4. PICK i \in 1..Len(dl[a]) : 1 = at[a] + i
  BY <1>3
<1>5. at[a] \in Int /\ Len(dl[a]) \in Nat /\ i \in Nat /\ i >= 1 /\ Len(dl[a]) > 0
  BY <1>1, <1>4
<1>6. Head(q).arg = dl[a][i]
  <2>1. at[a] + i >= 1
    BY <1>4
  <2>2. q[at[a] + i] = Block("document", dl[a][i])
    BY <1>4, <2>1 DEF Placed, Together
  <2>3. QED
    BY <1>2, <1>4, <2>2, BlockOf
<1>7. \A m \in (c + 1)..h : m < a => at[m] + Len(dl[m]) <= at[a]
  BY DEF Placed, InOrder
<1>8. ASSUME p > 0 PROVE a = c + 1 /\ i = p + 1
  <2>1. at[c + 1] + (p + 1) = 1 /\ p < Len(dl[c + 1])
    BY <1>8, PartlyRun DEF Placed, Counts
  <2>2. at[c + 1] \in Int /\ Len(dl[c + 1]) \in Nat
    BY <1>1, <1>8
  <2>3. ~(c + 1 < a)
    <3>1. SUFFICES ASSUME c + 1 < a PROVE FALSE
      OBVIOUS
    <3>2. at[c + 1] + Len(dl[c + 1]) <= at[a]
      BY <1>1, <1>7, <1>8, <3>1
    <3>3. p \in Nat
      BY <1>1
    <3>4. QED
      BY <1>4, <1>5, <2>1, <2>2, <3>2, <3>3
  <2>4. a = c + 1
    BY <1>1, <2>3
  <2>5. i = p + 1
    <3>1. at[a] + (p + 1) = 1 /\ p \in Nat
      BY <1>1, <2>1, <2>4
    <3>2. QED
      BY <1>4, <1>5, <3>1
  <2>6. QED
    BY <2>4, <2>5
<1>9. ASSUME p = 0 PROVE i = 1 /\ \A m \in (c + 1)..(a - 1) : Len(dl[m]) = 0
  <2>1. \A m \in (c + 1)..h : Len(dl[m]) > 0 => at[m] >= 0
    BY <1>9 DEF Placed, Together
  <2>2. at[a] >= 0
    BY <1>5, <2>1
  <2>3. i = 1 /\ at[a] = 0
    BY <1>4, <1>5, <2>2
  <2>4. ASSUME NEW m \in (c + 1)..(a - 1) PROVE Len(dl[m]) = 0
    <3>1. m \in (c + 1)..h /\ m < a
      BY <1>1, <1>3
    <3>2. at[m] \in Int /\ Len(dl[m]) \in Nat
      BY <1>1, <3>1
    <3>3. at[m] + Len(dl[m]) <= 0 /\ (Len(dl[m]) > 0 => at[m] >= 0)
      BY <1>7, <2>1, <2>3, <3>1
    <3>4. QED
      BY <3>2, <3>3
  <2>5. QED
    BY <2>3, <2>4
<1>10. at[a] + i = 1
  BY <1>4
<1>11. NextDocument(q, dl, at, c, h, p, a, i)
  BY <1>3, <1>4, <1>6, <1>8, <1>9, <1>10 DEF NextDocument
<1>12. QED
  BY <1>11

(* The block of the i-th document of the a-th snapshot has run. *)
LEMMA PlacedDocument ==
    ASSUME NEW q, q \in Seq(Blocks), NEW dl, dl \in Seq(Snapshots), NEW at, NEW c, NEW h, NEW p,
           Placed(q, dl, at, c, h, p),
           q # <<>>, Head(q).kind = "document",
           NEW a \in (c + 1)..h, NEW i \in 1..Len(dl[a]), at[a] + i = 1,
           NEW k, NEW o, \/ i < Len(dl[a]) /\ k = a - 1 /\ o = i
                         \/ i = Len(dl[a]) /\ k = a /\ o = 0
    PROVE  Placed(Tail(q), dl, Shifted(dl, at), k, h, o)
<1>1. /\ Len(q) \in Nat /\ Len(dl) \in Nat
      /\ c \in Nat /\ h \in Nat /\ p \in Nat /\ c <= h /\ h <= Len(dl)
      /\ \A e \in 1..Len(dl) : Len(dl[e]) \in Nat /\ at[e] \in Int
      /\ \A e \in (c + 1)..h : e \in 1..Len(dl)
      /\ \A e \in (h + 1)..Len(dl) : e \in 1..Len(dl)
  BY PlacedTypes
<1>2. /\ Len(q) >= 1 /\ Len(Tail(q)) = Len(q) - 1 /\ Head(q) = q[1]
      /\ \A x \in 1..(Len(q) - 1) : Tail(q)[x] = q[x + 1]
  BY <1>1
<1>3. DEFINE r == Tail(q)
             to == Shifted(dl, at)
<1>4. /\ \A e \in 1..Len(dl) : to[e] = at[e] - 1
      /\ to \in [1..Len(dl) -> Int]
  BY <1>1 DEF Shifted
<1> HIDE DEF to, r
<1>5. /\ at[a] \in Int /\ Len(dl[a]) \in Nat /\ i \in Nat /\ i >= 1 /\ i <= Len(dl[a])
      /\ a \in Nat /\ to[a] = at[a] - 1
  BY <1>1, <1>4
<1>6. /\ k \in 0..h /\ o \in Nat /\ \A e \in (k + 1)..h : e \in (c + 1)..h
      /\ \A e \in (k + 1)..h : ~(e = k + 1 /\ o > 0) => a < e
  BY <1>1, <1>5
<1>7. \A e \in (k + 1)..h : /\ at[e] \in Int /\ Len(dl[e]) \in Nat /\ to[e] = at[e] - 1
                            /\ e \in (c + 1)..h
  BY <1>1, <1>4, <1>6
<1>8. Counts(dl, to, k, h, o)
  <2>1. ASSUME o > 0 PROVE k < h /\ o < Len(dl[k + 1]) /\ to[k + 1] + o = 0
    <3>1. i < Len(dl[a]) /\ k = a - 1 /\ o = i
      BY <2>1
    <3>2. k + 1 = a /\ k < h
      BY <1>1, <1>5, <3>1
    <3>3. to[a] + i = 0
      BY <1>5
    <3>4. QED
      BY <3>1, <3>2, <3>3
  <2>2. QED
    BY <1>4, <1>6, <2>1, <1>1 DEF Counts
<1>9. Together(r, dl, to, k, h, o)
  <2>1. SUFFICES ASSUME NEW e \in (k + 1)..h
                 PROVE  /\ to[e] + Len(dl[e]) <= Len(r)
                        /\ Len(dl[e]) > 0 /\ ~(e = k + 1 /\ o > 0) => to[e] >= 0
                        /\ \A j \in 1..Len(dl[e]) :
                              to[e] + j >= 1 => r[to[e] + j] = Block("document", dl[e][j])
    BY DEF Together
  <2>2. /\ at[e] + Len(dl[e]) <= Len(q)
        /\ \A j \in 1..Len(dl[e]) :
              at[e] + j >= 1 => q[at[e] + j] = Block("document", dl[e][j])
    BY <1>7 DEF Placed, Together
  <2>3. to[e] = at[e] - 1 /\ at[e] \in Int /\ Len(dl[e]) \in Nat /\ Len(q) \in Nat
    BY <1>1, <1>7
  <2>4. ASSUME NEW j \in 1..Len(dl[e]), to[e] + j >= 1
        PROVE  r[to[e] + j] = Block("document", dl[e][j])
    <3>1. DEFINE x == to[e] + j
    <3>2. x + 1 = at[e] + j /\ x \in 1..(Len(q) - 1) /\ at[e] + j >= 1
      <4>1. PICK u, m, l : u = at[e] /\ m = Len(dl[e]) /\ l = Len(q)
        OBVIOUS
      <4>2. u \in Int /\ m \in Nat /\ l \in Nat /\ u + m <= l
        BY <4>1, <2>2, <2>3, <2>4
      <4>3. j \in Nat /\ j <= m /\ (u - 1) + j >= 1 /\ x = (u - 1) + j
        BY <4>1, <2>2, <2>3, <2>4
      <4>4. ((u - 1) + j) + 1 = u + j /\ (u - 1) + j \in 1..(l - 1) /\ u + j >= 1
        BY <4>2, <4>3
      <4>5. QED
        BY <4>1, <4>3, <4>4
    <3>3. r[x] = q[x + 1]
      BY <1>2, <3>2 DEF r
    <3>4. QED
      BY <2>2, <3>2, <3>3
  <2>5. Len(r) = Len(q) - 1
    BY <1>2 DEF r
  <2>6. to[e] + Len(dl[e]) <= Len(r)
    BY <2>2, <2>3, <2>5
  <2>7. ASSUME ~(e = k + 1 /\ o > 0) PROVE to[e] >= 0
    <3>1. a < e /\ e \in (c + 1)..h
      BY <1>6, <2>7
    <3>2. at[a] + Len(dl[a]) <= at[e]
      BY <3>1 DEF Placed, InOrder
    <3>3. QED
      BY <1>5, <2>3, <3>2
  <2>8. QED
    BY <2>4, <2>6, <2>7
<1>10. InOrder(dl, to, k, h)
  <2>1. SUFFICES ASSUME NEW d \in (k + 1)..h, NEW e \in (k + 1)..h, d < e
                 PROVE  to[d] + Len(dl[d]) <= to[e]
    BY DEF InOrder
  <2>2. d \in (c + 1)..h /\ e \in (c + 1)..h
    BY <1>6
  <2>3. at[d] + Len(dl[d]) <= at[e]
    BY <2>1, <2>2 DEF Placed, InOrder
  <2>4. /\ at[d] \in Int /\ at[e] \in Int /\ Len(dl[d]) \in Nat
        /\ to[d] = at[d] - 1 /\ to[e] = at[e] - 1
    BY <1>7
  <2>5. QED
    BY <2>3, <2>4
<1>11. Unopened(r, dl, to, h)
  <2>1. ASSUME NEW e \in (h + 1)..Len(dl)
        PROVE  to[e] \in 1..Len(r) /\ r[to[e]] = Block("snapshot", dl[e])
    <3>1. at[e] \in 1..Len(q) /\ q[at[e]] = Block("snapshot", dl[e]) /\ to[e] = at[e] - 1
      BY <1>1, <1>4 DEF Placed, Unopened
    <3>2. at[e] # 1
      BY <1>2, <3>1, BlockOf
    <3>3. to[e] \in 1..(Len(q) - 1) /\ to[e] + 1 = at[e]
      <4>1. \A l \in Nat : \A u \in 1..l : u # 1 => u - 1 \in 1..(l - 1) /\ (u - 1) + 1 = u
        OBVIOUS
      <4>2. QED
        BY <1>1, <3>1, <3>2, <4>1
    <3>4. QED
      BY <1>2, <3>1, <3>3 DEF r
  <2>2. ASSUME NEW d \in (h + 1)..Len(dl), NEW e \in (h + 1)..Len(dl), d < e
        PROVE  to[d] < to[e]
    <3>1. at[d] < at[e]
      BY <2>2 DEF Placed, Unopened
    <3>2. QED
      BY <1>1, <1>4, <3>1
  <2>3. QED
    BY <2>1, <2>2 DEF Unopened
<1>12. NoOthers(r, dl, to, k, h)
  <2>1. SUFFICES ASSUME NEW x \in 1..Len(r)
                 PROVE  /\ r[x].kind = "document" =>
                              \E e \in (k + 1)..h : \E j \in 1..Len(dl[e]) : x = to[e] + j
                        /\ r[x].kind = "snapshot" => \E e \in (h + 1)..Len(dl) : x = to[e]
    BY DEF NoOthers
  <2>2. x + 1 \in 1..Len(q) /\ r[x] = q[x + 1] /\ x \in Nat /\ x >= 1
    BY <1>1, <1>2 DEF r
  <2>3. ASSUME r[x].kind = "document"
        PROVE  \E e \in (k + 1)..h : \E j \in 1..Len(dl[e]) : x = to[e] + j
    <3>1. PICK e \in (c + 1)..h : \E j \in 1..Len(dl[e]) : x + 1 = at[e] + j
      BY <2>2, <2>3 DEF Placed, NoOthers
    <3>2. PICK j \in 1..Len(dl[e]) : x + 1 = at[e] + j
      BY <3>1
    <3>3. at[e] \in Int /\ to[e] = at[e] - 1 /\ j \in Int /\ Len(dl[e]) \in Nat /\ j <= Len(dl[e])
      BY <1>1, <1>4, <3>2
    <3>4. x = to[e] + j
      <4>1. \A u, v, w \in Int : u + 1 = v + w => u = (v - 1) + w
        OBVIOUS
      <4>2. x \in Int
        BY <2>2
      <4>3. x = (at[e] - 1) + j
        <5>1. at[e] \in Int /\ j \in Int /\ x + 1 = at[e] + j
          BY <3>2, <3>3
        <5>2. QED
          BY <4>1, <4>2, <5>1
      <4>4. QED
        BY <3>3, <4>3
    <3>5. ~(e < a)
      <4>1. SUFFICES ASSUME e < a PROVE FALSE
        OBVIOUS
      <4>2. at[e] + Len(dl[e]) <= at[a]
        BY <4>1 DEF Placed, InOrder
      <4>3. at[a] <= 0
        BY <1>5
      <4>4. PICK u, v, l : u = at[e] /\ v = at[a] /\ l = Len(dl[e])
        OBVIOUS
      <4>5. u \in Int /\ v \in Int /\ l \in Int /\ j \in Int /\ x \in Int /\ x >= 1
        BY <1>5, <2>2, <3>3, <4>4
      <4>6. x + 1 = u + j /\ j <= l /\ u + l <= v /\ v <= 0
        BY <3>2, <3>3, <4>2, <4>3, <4>4
      <4>7. QED
        BY <4>5, <4>6
    <3>6. k = a => e # a
      <4>1. SUFFICES ASSUME k = a, e = a PROVE FALSE
        OBVIOUS
      <4>2. i = Len(dl[a])
        BY <1>5, <4>1
      <4>3. x + 1 = at[a] + j /\ j <= Len(dl[a])
        BY <3>2, <3>3, <4>1
      <4>4. PICK u, l : u = at[a] /\ l = Len(dl[a])
        OBVIOUS
      <4>5. u \in Int /\ l \in Int /\ j \in Int /\ x \in Int /\ x >= 1
        BY <1>5, <2>2, <3>3, <4>4
      <4>6. x + 1 = u + j /\ j <= l /\ u + l = 1
        BY <4>2, <4>3, <4>4
      <4>7. QED
        BY <4>5, <4>6
    <3>7. e \in (k + 1)..h
      <4>1. k = a - 1 \/ k = a
        OBVIOUS
      <4>2. e \in Nat /\ a \in Nat /\ e <= h /\ h \in Nat /\ a <= e
        BY <1>1, <1>5, <3>5
      <4>3. QED
        BY <3>6, <4>1, <4>2
    <3>8. QED
      BY <3>4, <3>7
  <2>4. ASSUME r[x].kind = "snapshot"
        PROVE  \E e \in (h + 1)..Len(dl) : x = to[e]
    <3>1. PICK e \in (h + 1)..Len(dl) : x + 1 = at[e]
      BY <2>2, <2>4 DEF Placed, NoOthers
    <3>2. x = to[e]
      BY <1>1, <1>4, <2>2, <3>1
    <3>3. QED
      BY <3>2
  <2>5. QED
    BY <2>3, <2>4
<1>13. QED
  BY <1>8, <1>9, <1>10, <1>11, <1>12 DEF Placed, to, r
-----------------------------------------------------------------------------
(* The lists of the snapshots delivered                                     *)

ListsOf(dl) == [i \in 1..Len(dl) |-> Listed(dl[i])]

LEMMA ListsOfType ==
    ASSUME NEW dl, dl \in Seq(Snapshots)
    PROVE  /\ ListsOf(dl) \in Seq(Seq(Items)) /\ Len(ListsOf(dl)) = Len(dl) /\ Len(dl) \in Nat
           /\ \A i \in 1..Len(dl) : ListsOf(dl)[i] = Listed(dl[i]) /\ Listed(dl[i]) \in Seq(Items)
<1>1. Len(dl) \in Nat /\ \A i \in 1..Len(dl) : dl[i] \in Snapshots
  OBVIOUS
<1>2. \A s \in Snapshots : Listed(s) \in Seq(Items)
  <2>1. ASSUME NEW s \in Snapshots PROVE Listed(s) \in Seq(Items)
    <3>1. Len(s) \in 0..Len(s)
      BY SnapshotDocs
    <3>2. QED
      BY <3>1, ListedType DEF Listed
  <2>2. QED
    BY <2>1
<1>3. ListsOf(dl) \in [1..Len(dl) -> Seq(Items)]
  BY <1>1, <1>2 DEF ListsOf
<1>4. \A i \in 1..Len(dl) : ListsOf(dl)[i] = Listed(dl[i])
  BY DEF ListsOf
<1>5. QED
  BY <1>1, <1>2, <1>3, <1>4

(* A snapshot more is a list more. *)
LEMMA ListsOfAppend ==
    ASSUME NEW dl, dl \in Seq(Snapshots), NEW s \in Snapshots
    PROVE  ListsOf(Append(dl, s)) = Append(ListsOf(dl), Listed(s))
<1>1. DEFINE dm == Append(dl, s)
<1>2. /\ dm \in Seq(Snapshots) /\ Len(dm) = Len(dl) + 1 /\ Len(dl) \in Nat
      /\ dm[Len(dl) + 1] = s /\ \A i \in 1..Len(dl) : dm[i] = dl[i]
  OBVIOUS
<1> HIDE DEF dm
<1>3. DEFINE L == ListsOf(dl)
             M == ListsOf(dm)
<1>4. /\ L \in Seq(Seq(Items)) /\ Len(L) = Len(dl)
      /\ \A i \in 1..Len(dl) : L[i] = Listed(dl[i])
  BY ListsOfType
<1>5. /\ M \in Seq(Seq(Items)) /\ Len(M) = Len(dl) + 1
      /\ \A i \in 1..(Len(dl) + 1) : M[i] = Listed(dm[i])
  BY <1>2, ListsOfType
<1>6. \A i \in 1..(Len(dl) + 1) : i \in 1..Len(dl) \/ i = Len(dl) + 1
  BY <1>2
<1>7. \A i \in 1..(Len(dl) + 1) : M[i] = IF i = Len(dl) + 1 THEN Listed(s) ELSE L[i]
  BY <1>2, <1>4, <1>5, <1>6
<1> HIDE DEF L, M
<1>8. Append(L, Listed(s)) = M
  <2>1. Listed(s) \in Seq(Items)
    <3>1. Len(s) \in 0..Len(s)
      BY SnapshotDocs
    <3>2. QED
      BY <3>1, ListedType DEF Listed
  <2>2. DEFINE N == Append(L, Listed(s))
  <2>3. /\ N \in Seq(Seq(Items)) /\ Len(N) = Len(dl) + 1
        /\ \A i \in 1..Len(dl) : N[i] = L[i]
        /\ N[Len(dl) + 1] = Listed(s)
    BY <1>4, <2>1
  <2> HIDE DEF N
  <2>4. \A i \in 1..(Len(dl) + 1) : N[i] = M[i]
    BY <1>2, <1>6, <1>7, <2>3
  <2>5. N \in [1..(Len(dl) + 1) -> Seq(Items)] /\ M \in [1..(Len(dl) + 1) -> Seq(Items)]
    BY <1>5, <2>3
  <2>6. QED
    BY <2>4, <2>5 DEF N
<1>9. QED
  BY <1>8 DEF L, M, dm

LEMMA ListsNow == ListsDelivered = ListsOf(delivered) /\ ListsDelivered' = ListsOf(delivered')
  BY DEF ListsDelivered, ListsOf

(* The runs of DealsView are runs of the lists delivered. *)
LEMMA ViewRun == \A i, j : View!Run(i, j) = RunOf(ListsDelivered, i, j)
  BY DEF View!Run, RunOf, View!FlattenSeq, FlattenSeq
-----------------------------------------------------------------------------
(* Callbacks and draws on the queue                                         *)

(* Blocks that are put on the queue. *)
LEMMA LatestAppend ==
    ASSUME NEW q, q \in Seq(Blocks), NEW b \in Blocks, NEW page, NEW list
    PROVE  /\ \A kind : NoneOf(Append(q, b), kind) => NoneOf(q, kind) /\ b.kind # kind
           /\ \A kind : NoneOf(q, kind) /\ b.kind # kind => NoneOf(Append(q, b), kind)
           /\ b.kind # "draw" /\ Latest(q, page, list) => Latest(Append(q, b), page, list)
           /\ b = Block("draw", list) => Latest(Append(q, b), page, list)
<1>1. DEFINE r == Append(q, b)
             n == Len(q)
<1>2. /\ n \in Nat /\ Len(r) = n + 1 /\ r[n + 1] = b
      /\ \A x \in 1..n : r[x] = q[x]
  OBVIOUS
<1>3. /\ \A x \in 1..(n + 1) : x \in 1..n \/ x = n + 1
      /\ \A x \in 1..n : x \in 1..(n + 1)
      /\ \A x \in 1..n : \A y \in (x + 1)..(n + 1) : y \in (x + 1)..n \/ y = n + 1
      /\ \A x \in 1..n : \A y \in (x + 1)..n : y \in 1..n
      /\ n + 1 \in 1..(n + 1) /\ \A y \in ((n + 1) + 1)..(n + 1) : FALSE
  BY <1>2
<1> HIDE DEF r, n
<1>4. \A kind : (NoneOf(r, kind) => NoneOf(q, kind) /\ b.kind # kind)
                /\ (NoneOf(q, kind) /\ b.kind # kind => NoneOf(r, kind))
  <2>1. Len(q) = n
    BY DEF n
  <2>2. QED
    BY <1>2, <1>3, <2>1 DEF NoneOf
<1>5. ASSUME b.kind # "draw", Latest(q, page, list) PROVE Latest(r, page, list)
  <2>1. CASE NoneOf(q, "draw") /\ page = list
    BY <1>4, <1>5, <2>1 DEF Latest
  <2>2. CASE ~(NoneOf(q, "draw") /\ page = list)
    <3>1. PICK x \in 1..n : /\ q[x] = Block("draw", list)
                            /\ \A y \in (x + 1)..n : q[y].kind # "draw"
      BY <1>5, <2>2 DEF Latest, n
    <3>2. x \in 1..Len(r) /\ r[x] = Block("draw", list)
      BY <1>2, <1>3, <3>1
    <3>3. \A y \in (x + 1)..Len(r) : r[y].kind # "draw"
      BY <1>2, <1>3, <1>5, <3>1
    <3>4. QED
      BY <3>2, <3>3 DEF Latest
  <2>3. QED
    BY <2>1, <2>2
<1>6. ASSUME b = Block("draw", list) PROVE Latest(r, page, list)
  <2>1. n + 1 \in 1..Len(r) /\ r[n + 1] = Block("draw", list)
        /\ \A y \in ((n + 1) + 1)..Len(r) : r[y].kind # "draw"
    BY <1>2, <1>3, <1>6
  <2>2. QED
    BY <2>1 DEF Latest
<1>7. QED
  BY <1>4, <1>5, <1>6 DEF r

(* The first block runs. *)
LEMMA LatestTail ==
    ASSUME NEW q, q \in Seq(Blocks), q # <<>>, NEW page, NEW list, Latest(q, page, list)
    PROVE  /\ Head(q).kind # "draw" => Latest(Tail(q), page, list)
           /\ Head(q).kind = "draw" => Latest(Tail(q), Head(q).arg, list)
<1>1. DEFINE r == Tail(q)
             n == Len(q)
<1>2. /\ n \in Nat /\ n >= 1 /\ Len(r) = n - 1 /\ Head(q) = q[1]
      /\ \A x \in 1..(n - 1) : r[x] = q[x + 1]
  OBVIOUS
<1>3. /\ \A x \in 1..(n - 1) : x + 1 \in 1..n
      /\ 1 \in 1..n /\ \A x \in 1..n : x # 1 => x - 1 \in 1..(n - 1) /\ (x - 1) + 1 = x
      /\ \A x \in 1..n : \A y \in ((x - 1) + 1)..(n - 1) : y \in 1..(n - 1) /\ y + 1 \in (x + 1)..n
      /\ \A y \in 1..(n - 1) : y + 1 \in (1 + 1)..n
  BY <1>2
<1> HIDE DEF r, n
<1>4. CASE NoneOf(q, "draw") /\ page = list
  <2>1. NoneOf(r, "draw") /\ Head(q).kind # "draw"
    <3>1. \A x \in 1..n : q[x].kind # "draw"
      BY <1>4 DEF NoneOf, n
    <3>2. QED
      BY <1>2, <1>3, <3>1 DEF NoneOf
  <2>2. QED
    BY <1>4, <2>1 DEF Latest, r
<1>5. CASE ~(NoneOf(q, "draw") /\ page = list)
  <2>1. PICK x \in 1..n : /\ q[x] = Block("draw", list)
                          /\ \A y \in (x + 1)..n : q[y].kind # "draw"
    BY <1>5 DEF Latest, n
  <2>2. CASE x = 1
    <3>1. Head(q).kind = "draw" /\ Head(q).arg = list
      BY <1>2, <2>1, <2>2, BlockOf
    <3>2. NoneOf(r, "draw")
      BY <1>2, <1>3, <2>1, <2>2 DEF NoneOf
    <3>3. QED
      BY <3>1, <3>2 DEF Latest, r
  <2>3. CASE x # 1
    <3>1. x - 1 \in 1..Len(r) /\ r[x - 1] = Block("draw", list)
      BY <1>2, <1>3, <2>1, <2>3
    <3>2. \A y \in ((x - 1) + 1)..Len(r) : r[y].kind # "draw"
      BY <1>2, <1>3, <2>1
    <3>3. QED
      BY <3>1, <3>2 DEF Latest, r
  <2>4. QED
    BY <2>2, <2>3
<1>6. QED
  BY <1>4, <1>5

LEMMA NoneTail ==
    ASSUME NEW q, q \in Seq(Blocks), q # <<>>, NEW kind
    PROVE  /\ NoneOf(q, kind) => NoneOf(Tail(q), kind)
           /\ NoneOf(Tail(q), kind) /\ Head(q).kind # kind => NoneOf(q, kind)
<1>1. DEFINE r == Tail(q)
             n == Len(q)
<1>2. /\ n \in Nat /\ n >= 1 /\ Len(r) = n - 1 /\ Head(q) = q[1]
      /\ \A x \in 1..(n - 1) : r[x] = q[x + 1]
  OBVIOUS
<1>3. /\ \A x \in 1..(n - 1) : x + 1 \in 1..n
      /\ \A x \in 1..n : x # 1 => x - 1 \in 1..(n - 1) /\ (x - 1) + 1 = x
  BY <1>2
<1>4. n = Len(q)
  OBVIOUS
<1> HIDE DEF r, n
<1>5. NoneOf(q, kind) => NoneOf(r, kind)
  BY <1>2, <1>3, <1>4 DEF NoneOf
<1>6. NoneOf(r, kind) /\ Head(q).kind # kind => NoneOf(q, kind)
  <2>1. SUFFICES ASSUME NoneOf(r, kind), Head(q).kind # kind, NEW x \in 1..n
                 PROVE  q[x].kind # kind
    BY <1>4 DEF NoneOf
  <2>2. CASE x = 1
    BY <1>2, <2>1, <2>2
  <2>3. CASE x # 1
    <3>1. r[x - 1] = q[x] /\ x - 1 \in 1..Len(r)
      BY <1>2, <1>3, <2>3
    <3>2. QED
      BY <2>1, <3>1 DEF NoneOf
  <2>4. QED
    BY <2>2, <2>3
<1>7. QED
  BY <1>5, <1>6 DEF r

(* The documents of a snapshot are put on the queue. *)
LEMMA LatestOpen ==
    ASSUME NEW q, q \in Seq(Blocks), NEW s \in Snapshots, NEW page, NEW list
    PROVE  /\ NoneOf(q \o DocumentBlocks(s), "callback") <=> NoneOf(q, "callback")
           /\ Latest(q, page, list) => Latest(q \o DocumentBlocks(s), page, list)
<1>1. DEFINE r == q \o DocumentBlocks(s)
             n == Len(q)
<1>2. /\ Len(r) = n + Len(s)
      /\ \A x \in 1..n : r[x] = q[x]
      /\ \A i \in 1..Len(s) : r[n + i] = Block("document", s[i])
  BY SnapshotQueue
<1>3. n \in Nat /\ Len(s) \in Nat /\ n = Len(q)
  BY SnapshotDocs
<1>4. /\ \A x \in 1..(n + Len(s)) : x \in 1..n \/ (x - n \in 1..Len(s) /\ n + (x - n) = x)
      /\ \A x \in 1..n : x \in 1..(n + Len(s))
      /\ \A x \in 1..n : \A y \in (x + 1)..(n + Len(s)) : y \in 1..(n + Len(s))
      /\ \A x \in 1..n : \A y \in (x + 1)..(n + Len(s)) : y \in 1..n => y \in (x + 1)..n
  BY <1>3
<1> HIDE DEF r, n
<1>5. \A x \in 1..Len(r) : x \in 1..n \/ r[x].kind = "document"
  <2>1. SUFFICES ASSUME NEW x \in 1..Len(r), ~(x \in 1..n) PROVE r[x].kind = "document"
    OBVIOUS
  <2>2. x - n \in 1..Len(s) /\ n + (x - n) = x
    BY <1>2, <1>4, <2>1
  <2>3. r[x] = Block("document", s[x - n])
    BY <1>2, <2>2
  <2>4. QED
    BY <2>3, BlockOf
<1>6. \A kind : kind # "document" => (NoneOf(r, kind) <=> NoneOf(q, kind))
  <2>1. ASSUME NEW kind, kind # "document", NoneOf(r, kind) PROVE NoneOf(q, kind)
    BY <1>2, <1>3, <1>4, <2>1 DEF NoneOf
  <2>2. ASSUME NEW kind, kind # "document", NoneOf(q, kind) PROVE NoneOf(r, kind)
    BY <1>2, <1>3, <1>5, <2>2 DEF NoneOf
  <2>3. QED
    BY <2>1, <2>2
<1>7. ASSUME Latest(q, page, list) PROVE Latest(r, page, list)
  <2>1. CASE NoneOf(q, "draw") /\ page = list
    BY <1>6, <2>1 DEF Latest
  <2>2. CASE ~(NoneOf(q, "draw") /\ page = list)
    <3>1. PICK x \in 1..n : /\ q[x] = Block("draw", list)
                            /\ \A y \in (x + 1)..n : q[y].kind # "draw"
      BY <1>3, <1>7, <2>2 DEF Latest
    <3>2. x \in 1..Len(r) /\ r[x] = Block("draw", list)
      BY <1>2, <1>4, <3>1
    <3>3. \A y \in (x + 1)..Len(r) : r[y].kind # "draw"
      <4>1. SUFFICES ASSUME NEW y \in (x + 1)..Len(r) PROVE r[y].kind # "draw"
        OBVIOUS
      <4>2. y \in 1..Len(r)
        BY <1>2, <1>4
      <4>3. CASE y \in 1..n
        BY <1>2, <1>4, <3>1, <4>3
      <4>4. CASE ~(y \in 1..n)
        BY <1>5, <4>2, <4>4
      <4>5. QED
        BY <4>3, <4>4
    <3>4. QED
      BY <3>2, <3>3 DEF Latest
  <2>3. QED
    BY <2>1, <2>2
<1>8. QED
  BY <1>6, <1>7 DEF r
-----------------------------------------------------------------------------
(* The feed's invariant                                                     *)

LEMMA FeedInit == Init => FeedInv
<1>1. SUFFICES ASSUME Init PROVE FeedInv
  OBVIOUS
<1>2. queue = <<>> /\ itemList = <<>> /\ shown = <<>> /\ delivered = <<>>
  BY <1>1, Zenon DEF Init
<1>3. Len(queue) = 0 /\ Len(delivered) = 0
  BY <1>2
<1>4. OwnInv
  BY <1>1, OwnInit
<1>5. DrawsInv
  BY <1>3 DEF DrawsInv, NoneOf
<1>6. DEFINE at == [a \in 1..Len(delivered) |-> 0]
<1>7. Placed(queue, delivered, at, 0, 0, 0)
  <2>1. at \in [1..Len(delivered) -> Int] /\ 0 \in 0..Len(delivered) /\ 0 \in 0..0
    BY <1>3
  <2>2. /\ \A a \in (0 + 1)..0 : FALSE
        /\ \A a \in (0 + 1)..Len(delivered) : FALSE
        /\ \A x \in 1..Len(queue) : FALSE
    BY <1>3
  <2> HIDE DEF at
  <2>3. QED
    BY <2>1, <2>2 DEF Placed, Counts, Together, InOrder, Unopened, NoOthers
<1>8. RunOf(ListsDelivered, 0 + 1, 0) = <<>>
  BY RunEmpty
<1>9. Collected(0, 0, 0, 0)
  BY <1>2, <1>8 DEF Collected
<1>10. Redrawn(0, 0, 0)
  <2>1. NoneOf(queue, "draw")
    BY <1>3 DEF NoneOf
  <2>2. Latest(queue, shown, RunOf(ListsDelivered, 1, 0))
    BY <1>2, <1>8, <2>1 DEF Latest
  <2>3. 1 \in 1..(0 + 1)
    OBVIOUS
  <2>4. QED
    BY <2>2, <2>3 DEF Redrawn
<1> HIDE DEF at
<1>11. QED
  BY <1>4, <1>5, <1>7, <1>9, <1>10 DEF FeedInv

(* What the state is made of, for the steps below. *)
LEMMA FeedTypes ==
    ASSUME OwnInv
    PROVE  /\ queue \in Seq(Blocks) /\ delivered \in Seq(Snapshots)
           /\ ListsDelivered \in Seq(Seq(Items)) /\ Len(ListsDelivered) = Len(delivered)
           /\ Len(delivered) \in Nat
           /\ \A i \in 1..Len(delivered) : ListsDelivered[i] = Listed(delivered[i])
<1>1. queue \in Seq(Blocks) /\ delivered \in Seq(Snapshots)
  BY DEF OwnInv, TypeOK
<1>2. QED
  BY <1>1, ListsOfType, ListsNow

LEMMA FeedDeliverError == FeedInv /\ OwnInv' /\ DeliverError => FeedInv'
<1>1. SUFFICES ASSUME FeedInv, OwnInv', DeliverError PROVE FeedInv'
  OBVIOUS
<1>2. OwnInv /\ DrawsInv
  BY <1>1 DEF FeedInv
<1>3. PICK at, c, h, p, b : /\ Placed(queue, delivered, at, c, h, p)
                            /\ Collected(c, h, p, b) /\ Redrawn(c, h, p)
  BY <1>1 DEF FeedInv
<1>4. DEFINE e == Block("error", <<>>)
<1>5. e \in Blocks /\ e.kind = "error"
  BY BlockOf
<1> HIDE DEF e
<1>6. queue \in Seq(Blocks) /\ delivered \in Seq(Snapshots)
  BY <1>2, FeedTypes
<1>7. /\ queue' = Append(queue, e) /\ delivered' = delivered /\ itemList' = itemList
      /\ shown' = shown /\ alert' = alert
  BY <1>1 DEF DeliverError, e
<1>8. ListsDelivered' = ListsDelivered
  BY <1>7, ListsNow
<1>9. Placed(queue', delivered', at, c, h, p)
  BY <1>3, <1>5, <1>6, <1>7, PlacedAppend
<1>10. Collected(c, h, p, b)'
  BY <1>3, <1>7, <1>8 DEF Collected
<1>11. Redrawn(c, h, p)'
  <2>1. NoneOf(queue', "callback") => NoneOf(queue, "callback")
    BY <1>5, <1>6, <1>7, LatestAppend
  <2>2. \A list : Latest(queue, shown, list) => Latest(queue', shown', list)
    BY <1>5, <1>6, <1>7, LatestAppend
  <2>3. QED
    BY <1>3, <1>7, <1>8, <2>1, <2>2 DEF Redrawn
<1>12. DrawsInv'
  <2>1. \A x \in 1..Len(queue') : queue'[x] = e \/ (x \in 1..Len(queue) /\ queue'[x] = queue[x])
    BY <1>6, <1>7
  <2>2. delivered' = <<>> => NoneOf(queue', "callback")
    BY <1>2, <1>5, <1>6, <1>7, LatestAppend DEF DrawsInv
  <2>3. QED
    BY <1>2, <1>5, <1>7, <1>8, <2>1, <2>2 DEF DrawsInv, WholeLists
<1>13. QED
  BY <1>1, <1>9, <1>10, <1>11, <1>12 DEF FeedInv

LEMMA FeedHandleError == FeedInv /\ OwnInv' /\ HandleError => FeedInv'
<1>1. SUFFICES ASSUME FeedInv, OwnInv', HandleError PROVE FeedInv'
  OBVIOUS
<1>2. OwnInv /\ DrawsInv
  BY <1>1 DEF FeedInv
<1>3. PICK at, c, h, p, b : /\ Placed(queue, delivered, at, c, h, p)
                            /\ Collected(c, h, p, b) /\ Redrawn(c, h, p)
  BY <1>1 DEF FeedInv
<1>4. queue \in Seq(Blocks) /\ delivered \in Seq(Snapshots)
  BY <1>2, FeedTypes
<1>5. /\ queue # <<>> /\ Head(queue).kind = "error"
      /\ queue' = Tail(queue) /\ delivered' = delivered /\ itemList' = <<>>
      /\ shown' = shown /\ alert' = TRUE
  BY <1>1 DEF HandleError, Running
<1>6. ListsDelivered' = ListsDelivered
  BY <1>5, ListsNow
<1>7. p = 0 /\ Placed(queue', delivered', Shifted(delivered, at), c, h, 0)
  BY <1>3, <1>4, <1>5, PlacedTail
<1>8. c \in Nat /\ h \in Nat
  BY <1>3, <1>4, PlacedTypes
<1>9. Collected(c, h, 0, c)'
  <2>1. RunOf(ListsDelivered, c + 1, c) = <<>>
    BY <1>8, RunEmpty
  <2>2. c \in 0..c
    BY <1>8
  <2>3. QED
    BY <1>5, <1>6, <2>1, <2>2 DEF Collected
<1>10. Redrawn(c, h, 0)'
  <2>1. NoneOf(queue', "callback") => NoneOf(queue, "callback")
    BY <1>4, <1>5, NoneTail
  <2>2. \A list : Latest(queue, shown, list) => Latest(queue', shown', list)
    BY <1>4, <1>5, LatestTail
  <2>3. QED
    BY <1>3, <1>5, <1>6, <1>7, <2>1, <2>2 DEF Redrawn
<1>11. DrawsInv'
  <2>1. \A x \in 1..Len(queue') : queue'[x].kind = "draw" => WholeLists(queue'[x].arg)
    BY <1>2, <1>4, <1>5 DEF DrawsInv
  <2>2. delivered' = <<>> => NoneOf(queue', "callback")
    BY <1>2, <1>4, <1>5, NoneTail DEF DrawsInv
  <2>3. QED
    BY <1>5, <1>6, <2>1, <2>2 DEF DrawsInv, WholeLists
<1>12. QED
  BY <1>1, <1>7, <1>9, <1>10, <1>11 DEF FeedInv

LEMMA FeedHandleSnapshot == FeedInv /\ OwnInv' /\ HandleSnapshot => FeedInv'
<1>1. SUFFICES ASSUME FeedInv, OwnInv', HandleSnapshot PROVE FeedInv'
  OBVIOUS
<1>2. OwnInv /\ DrawsInv
  BY <1>1 DEF FeedInv
<1>3. PICK at, c, h, p, b : /\ Placed(queue, delivered, at, c, h, p)
                            /\ Collected(c, h, p, b) /\ Redrawn(c, h, p)
  BY <1>1 DEF FeedInv
<1>4. queue \in Seq(Blocks) /\ delivered \in Seq(Snapshots)
  BY <1>2, FeedTypes
<1>5. /\ queue # <<>> /\ Head(queue).kind = "snapshot"
      /\ queue' = Tail(queue) \o DocumentBlocks(Head(queue).arg)
      /\ delivered' = delivered /\ itemList' = <<>> /\ shown' = shown /\ alert' = alert
  BY <1>1 DEF HandleSnapshot, Running, DocumentBlocks
<1>6. ListsDelivered' = ListsDelivered
  BY <1>5, ListsNow
<1>7. p = 0 /\ h < Len(delivered) /\ Head(queue).arg = delivered[h + 1]
  BY <1>3, <1>4, <1>5, SnapshotFirst
<1>8. DEFINE to == Opened(delivered, at, h + 1, Len(queue) - 1)
<1>9. Placed(queue', delivered', to, c, h + 1, 0)
  BY <1>3, <1>4, <1>5, <1>7, PlacedSnapshot
<1>10. c \in Nat /\ h \in Nat /\ c <= h
  BY <1>3, <1>4, PlacedTypes
<1>11. Collected(c, h + 1, 0, c)'
  <2>1. RunOf(ListsDelivered, c + 1, c) = <<>>
    BY <1>10, RunEmpty
  <2>2. c \in 0..c /\ c < h + 1
    BY <1>10
  <2>3. QED
    BY <1>5, <1>6, <2>1, <2>2 DEF Collected
<1>12. DEFINE s == Head(queue).arg
              t == Tail(queue)
<1>13. s \in Snapshots /\ t \in Seq(Blocks) /\ queue' = t \o DocumentBlocks(s)
  BY <1>4, <1>5, BlockArg
<1>14. /\ NoneOf(t, "callback") => NoneOf(queue, "callback")
       /\ NoneOf(queue, "callback") => NoneOf(t, "callback")
       /\ \A list : Latest(queue, shown, list) => Latest(t, shown, list)
  BY <1>4, <1>5, NoneTail, LatestTail
<1>15. \A x \in 1..Len(t) : t[x].kind = "draw" => WholeLists(t[x].arg)
  BY <1>2, <1>4, <1>5 DEF DrawsInv
<1> HIDE DEF s, t, to
<1>16. Redrawn(c, h + 1, 0)'
  <2>1. NoneOf(queue', "callback") => NoneOf(queue, "callback")
    BY <1>13, <1>14, LatestOpen
  <2>2. \A list : Latest(queue, shown, list) => Latest(queue', shown', list)
    BY <1>5, <1>13, <1>14, LatestOpen
  <2>3. \A i \in 1..(c + 1) : i <= h + 1
    BY <1>10
  <2>4. QED
    BY <1>3, <1>5, <1>6, <2>1, <2>2, <2>3 DEF Redrawn
<1>17. DrawsInv'
  <2>1. /\ Len(queue') = Len(t) + Len(s) /\ Len(t) \in Nat /\ Len(s) \in Nat
        /\ \A x \in 1..Len(t) : queue'[x] = t[x]
        /\ \A i \in 1..Len(s) : queue'[Len(t) + i] = Block("document", s[i])
    BY <1>13, SnapshotQueue, SnapshotDocs
  <2>2. \A x \in 1..(Len(t) + Len(s)) :
           x \in 1..Len(t) \/ (x - Len(t) \in 1..Len(s) /\ Len(t) + (x - Len(t)) = x)
    BY <2>1
  <2>3. \A x \in 1..Len(queue') : queue'[x].kind = "draw" => WholeLists(queue'[x].arg)
    <3>1. SUFFICES ASSUME NEW x \in 1..Len(queue'), queue'[x].kind = "draw"
                   PROVE  WholeLists(queue'[x].arg)
      OBVIOUS
    <3>2. CASE x \in 1..Len(t)
      BY <1>15, <2>1, <3>1, <3>2
    <3>3. CASE x - Len(t) \in 1..Len(s) /\ Len(t) + (x - Len(t)) = x
      <4>1. queue'[x] = Block("document", s[x - Len(t)])
        BY <2>1, <3>3
      <4>2. QED
        BY <3>1, <4>1, BlockOf
    <3>4. QED
      BY <2>1, <2>2, <3>2, <3>3
  <2>4. delivered' = <<>> => NoneOf(queue', "callback")
    BY <1>2, <1>5, <1>13, <1>14, LatestOpen DEF DrawsInv
  <2>5. QED
    BY <1>5, <1>6, <2>3, <2>4 DEF DrawsInv, WholeLists
<1>18. QED
  BY <1>1, <1>9, <1>11, <1>16, <1>17 DEF FeedInv
LEMMA FeedHandleCallback == FeedInv /\ OwnInv' /\ HandleCallback => FeedInv'
<1>1. SUFFICES ASSUME FeedInv, OwnInv', HandleCallback PROVE FeedInv'
  OBVIOUS
<1>2. OwnInv /\ DrawsInv
  BY <1>1 DEF FeedInv
<1>3. PICK at, c, h, p, b : /\ Placed(queue, delivered, at, c, h, p)
                            /\ Collected(c, h, p, b) /\ Redrawn(c, h, p)
  BY <1>1 DEF FeedInv
<1>4. queue \in Seq(Blocks) /\ delivered \in Seq(Snapshots)
  BY <1>2, FeedTypes
<1>5. /\ queue # <<>> /\ Head(queue).kind = "callback"
      /\ queue' = Append(Tail(queue), Block("draw", itemList))
      /\ delivered' = delivered /\ itemList' = itemList /\ shown' = shown /\ alert' = alert
  BY <1>1 DEF HandleCallback, Running
<1>6. ListsDelivered' = ListsDelivered
  BY <1>5, ListsNow
<1>7. DEFINE t == Tail(queue)
             e == Block("draw", itemList)
<1>8. t \in Seq(Blocks) /\ e \in Blocks /\ e.kind = "draw" /\ e.arg = itemList
  BY <1>2, <1>4, <1>5, BlockOf DEF OwnInv, TypeOK
<1>9. p = 0 /\ Placed(t, delivered, Shifted(delivered, at), c, h, 0)
  BY <1>3, <1>4, <1>5, PlacedTail
<1>10. Placed(queue', delivered', Shifted(delivered, at), c, h, 0)
  <2> HIDE DEF t, e
  <2>1. Placed(Append(t, e), delivered, Shifted(delivered, at), c, h, 0)
    BY <1>4, <1>8, <1>9, PlacedAppend
  <2>2. QED
    BY <1>5, <2>1 DEF t, e
<1>11. Collected(c, h, 0, b)'
  BY <1>3, <1>5, <1>6, <1>9 DEF Collected
<1>12. itemList = RunOf(ListsDelivered, b + 1, c) /\ b \in 0..c /\ (b < h \/ alert \/ h = 0)
  BY <1>3, <1>9 DEF Collected
<1>13. c \in Nat /\ h \in Nat /\ c <= h /\ h <= Len(delivered) /\ Len(delivered) \in Nat
  BY <1>3, <1>4, PlacedTypes
<1>14. Redrawn(c, h, 0)'
  <2>1. Latest(queue', shown', RunOf(ListsDelivered, b + 1, c))
    <3> HIDE DEF t
    <3>1. Latest(Append(t, e), shown, itemList)
      BY <1>8, LatestAppend
    <3>2. QED
      BY <1>5, <1>12, <3>1 DEF t
  <2>2. b + 1 \in 1..(c + 1) /\ (b < h => b + 1 <= h)
    BY <1>12, <1>13
  <2>3. b + 1 <= h \/ alert' \/ h = 0
    BY <1>5, <1>12, <2>2
  <2>4. QED
    BY <1>6, <2>1, <2>2, <2>3 DEF Redrawn
<1>15. delivered # <<>>
  <2>1. queue[1].kind = "callback" /\ 1 \in 1..Len(queue)
    BY <1>4, <1>5
  <2>2. QED
    BY <1>2, <2>1 DEF DrawsInv, NoneOf
<1>16. Len(delivered) >= 1
  BY <1>4, <1>15
<1>17. WholeLists(itemList)
  <2>1. CASE b + 1 <= Len(delivered)
    <3>1. b + 1 \in 1..Len(delivered) /\ c \in 0..Len(delivered)
      BY <1>12, <1>13, <2>1
    <3>2. QED
      BY <1>12, <3>1 DEF WholeLists
  <2>2. CASE ~(b + 1 <= Len(delivered))
    <3>1. c < b + 1 /\ b + 1 \in Int /\ c \in Int /\ 1 \in 1..Len(delivered) /\ 0 \in 0..Len(delivered)
      BY <1>12, <1>13, <1>16, <2>2
    <3>2. itemList = <<>> /\ RunOf(ListsDelivered, 1, 0) = <<>>
      BY <1>12, <3>1, RunEmpty
    <3>3. QED
      BY <3>1, <3>2 DEF WholeLists
  <2>3. QED
    BY <2>1, <2>2
<1>18. DrawsInv'
  <2>1. \A x \in 1..Len(t) : t[x].kind = "draw" => WholeLists(t[x].arg)
    BY <1>2, <1>4, <1>5 DEF DrawsInv
  <2>2. \A x \in 1..Len(queue') : queue'[x] = e \/ (x \in 1..Len(t) /\ queue'[x] = t[x])
    <3> HIDE DEF t, e
    <3>1. \A x \in 1..Len(Append(t, e)) :
             Append(t, e)[x] = e \/ (x \in 1..Len(t) /\ Append(t, e)[x] = t[x])
      BY <1>8
    <3>2. QED
      BY <1>5, <3>1 DEF t, e
  <2>3. \A x \in 1..Len(queue') : queue'[x].kind = "draw" => WholeLists(queue'[x].arg)
    <3> HIDE DEF t, e
    <3>1. QED
      BY <1>8, <1>17, <2>1, <2>2
  <2>4. QED
    BY <1>5, <1>6, <1>15, <2>3 DEF DrawsInv, WholeLists
<1>19. QED
  BY <1>1, <1>10, <1>11, <1>14, <1>18 DEF FeedInv

LEMMA FeedHandleDraw == FeedInv /\ OwnInv' /\ HandleDraw => FeedInv'
<1>1. SUFFICES ASSUME FeedInv, OwnInv', HandleDraw PROVE FeedInv'
  OBVIOUS
<1>2. OwnInv /\ DrawsInv
  BY <1>1 DEF FeedInv
<1>3. PICK at, c, h, p, b : /\ Placed(queue, delivered, at, c, h, p)
                            /\ Collected(c, h, p, b) /\ Redrawn(c, h, p)
  BY <1>1 DEF FeedInv
<1>4. queue \in Seq(Blocks) /\ delivered \in Seq(Snapshots)
  BY <1>2, FeedTypes
<1>5. /\ queue # <<>> /\ Head(queue).kind = "draw"
      /\ queue' = Tail(queue) /\ delivered' = delivered /\ itemList' = itemList
      /\ shown' = Head(queue).arg /\ alert' = alert
  BY <1>1 DEF HandleDraw, Running
<1>6. ListsDelivered' = ListsDelivered
  BY <1>5, ListsNow
<1>7. p = 0 /\ Placed(queue', delivered', Shifted(delivered, at), c, h, 0)
  BY <1>3, <1>4, <1>5, PlacedTail
<1>8. Collected(c, h, 0, b)'
  BY <1>3, <1>5, <1>6, <1>7 DEF Collected
<1>9. Redrawn(c, h, 0)'
  <2>1. NoneOf(queue', "callback") => NoneOf(queue, "callback")
    BY <1>4, <1>5, NoneTail
  <2>2. \A list : Latest(queue, shown, list) => Latest(queue', shown', list)
    BY <1>4, <1>5, LatestTail
  <2>3. QED
    BY <1>3, <1>5, <1>6, <1>7, <2>1, <2>2 DEF Redrawn
<1>10. DrawsInv'
  <2>1. \A x \in 1..Len(queue') : queue'[x].kind = "draw" => WholeLists(queue'[x].arg)
    BY <1>2, <1>4, <1>5 DEF DrawsInv
  <2>2. delivered' = <<>> => NoneOf(queue', "callback")
    BY <1>2, <1>4, <1>5, NoneTail DEF DrawsInv
  <2>3. QED
    BY <1>5, <1>6, <2>1, <2>2 DEF DrawsInv, WholeLists
<1>11. QED
  BY <1>1, <1>7, <1>8, <1>9, <1>10 DEF FeedInv

LEMMA FeedDeliverSnapshot == FeedInv /\ OwnInv' /\ DeliverSnapshot => FeedInv'
<1>1. SUFFICES ASSUME FeedInv, OwnInv', DeliverSnapshot PROVE FeedInv'
  OBVIOUS
<1>2. OwnInv /\ DrawsInv
  BY <1>1 DEF FeedInv
<1>3. PICK at, c, h, p, b : /\ Placed(queue, delivered, at, c, h, p)
                            /\ Collected(c, h, p, b) /\ Redrawn(c, h, p)
  BY <1>1 DEF FeedInv
<1>4. /\ queue \in Seq(Blocks) /\ delivered \in Seq(Snapshots)
      /\ ListsDelivered \in Seq(Seq(Items)) /\ Len(ListsDelivered) = Len(delivered)
      /\ Len(delivered) \in Nat
  BY <1>2, FeedTypes
<1>5. PICK s \in Snapshots : /\ queue' = Append(queue, Block("snapshot", s))
                             /\ delivered' = Append(delivered, s)
  BY <1>1 DEF DeliverSnapshot
<1>6. itemList' = itemList /\ shown' = shown /\ alert' = alert
  BY <1>1 DEF DeliverSnapshot
<1>7. DEFINE e == Block("snapshot", s)
             L == ListsDelivered
             n == Len(delivered)
<1>8. e \in Blocks /\ e.kind = "snapshot"
  BY BlockOf
<1>9. ListsDelivered' = Append(L, Listed(s)) /\ Listed(s) \in Seq(Items)
  <2>1. Len(s) \in 0..Len(s)
    BY SnapshotDocs
  <2>2. Listed(s) \in Seq(Items)
    BY <2>1, ListedType DEF Listed
  <2>3. QED
    BY <1>4, <1>5, <2>2, ListsNow, ListsOfAppend
<1> HIDE DEF e
<1>10. \A i \in 1..(n + 1) : \A j \in 0..n : RunOf(ListsDelivered', i, j) = RunOf(L, i, j)
  <2>1. ASSUME NEW i \in 1..(n + 1), NEW j \in 0..n
        PROVE  RunOf(ListsDelivered', i, j) = RunOf(L, i, j)
    <3> HIDE DEF L
    <3>1. L \in Seq(Seq(Items)) /\ Len(L) = n
      BY <1>4 DEF L
    <3> HIDE DEF n
    <3>2. RunOf(Append(L, Listed(s)), i, j) = RunOf(L, i, j)
      BY <1>9, <3>1, RunAppend
    <3>3. QED
      BY <1>9, <3>2
  <2>2. QED
    BY <2>1
<1>11. PICK to : Placed(queue', delivered', to, c, h, p)
  BY <1>3, <1>4, <1>5, PlacedDeliver
<1>12. /\ c \in Nat /\ h \in Nat /\ p \in Nat /\ c <= h /\ h <= n
       /\ p > 0 => c + 1 \in (c + 1)..h
  BY <1>3, <1>4, PlacedTypes
<1>13. p = 0 \/ delivered'[c + 1] = delivered[c + 1]
  <2>1. p = 0 \/ c + 1 \in 1..n
    BY <1>4, <1>12
  <2>2. \A a \in 1..n : delivered'[a] = delivered[a]
    BY <1>4, <1>5
  <2>3. QED
    BY <2>1, <2>2
<1>14. Collected(c, h, p, b)'
  <2>1. b \in 0..c /\ b + 1 \in 1..(n + 1) /\ c \in 0..n
    BY <1>3, <1>4, <1>12 DEF Collected
  <2>2. RunOf(ListsDelivered', b + 1, c) = RunOf(ListsDelivered, b + 1, c)
    BY <1>10, <2>1
  <2>3. QED
    BY <1>3, <1>6, <1>13, <2>2 DEF Collected
<1>15. Redrawn(c, h, p)'
  <2>1. NoneOf(queue', "callback") => NoneOf(queue, "callback")
    BY <1>4, <1>5, <1>8, LatestAppend DEF e
  <2>2. \A list : Latest(queue, shown, list) => Latest(queue', shown', list)
    BY <1>4, <1>5, <1>6, <1>8, LatestAppend DEF e
  <2>3. \A i \in 1..(c + 1) : i \in 1..(n + 1) /\ c \in 0..n
    BY <1>4, <1>12
  <2>4. \A i \in 1..(c + 1) : RunOf(ListsDelivered', i, c) = RunOf(ListsDelivered, i, c)
    BY <1>10, <2>3
  <2>5. p > 0 => p # 0
    BY <1>12
  <2>6. QED
    BY <1>3, <1>6, <1>13, <2>1, <2>2, <2>4, <2>5 DEF Redrawn
<1>16. DrawsInv'
  <2>1. \A x \in 1..Len(queue') : queue'[x] = e \/ (x \in 1..Len(queue) /\ queue'[x] = queue[x])
    BY <1>4, <1>5 DEF e
  <2>2. Len(delivered') = n + 1 /\ delivered' # <<>>
    <3>1. Len(delivered') = n + 1
      BY <1>4, <1>5
    <3>2. Len(<<>>) = 0 /\ n + 1 # 0
      BY <1>4
    <3>3. QED
      BY <3>1, <3>2
  <2>3. \A i \in 1..n : i \in 1..(n + 1)
    BY <1>4
  <2>4. \A j \in 0..n : j \in 0..(n + 1)
    BY <1>4
  <2>5. \A list : WholeLists(list) => WholeLists(list)'
    <3>1. SUFFICES ASSUME NEW list, WholeLists(list) PROVE WholeLists(list)'
      OBVIOUS
    <3>2. PICK i \in 1..n, j \in 0..n : list = RunOf(ListsDelivered, i, j)
      BY <3>1 DEF WholeLists
    <3>3. list = RunOf(ListsDelivered', i, j)
      BY <1>10, <2>3, <3>2
    <3>4. QED
      BY <2>2, <2>3, <2>4, <3>3 DEF WholeLists
  <2>6. \A x \in 1..Len(queue') : queue'[x].kind = "draw" => WholeLists(queue'[x].arg)
    BY <1>2, <1>8, <2>1 DEF DrawsInv
  <2>7. \A x \in 1..Len(queue') : queue'[x].kind = "draw" => WholeLists(queue[x].arg)'
    <3>1. SUFFICES ASSUME NEW x \in 1..Len(queue'), queue'[x].kind = "draw"
                   PROVE  WholeLists(queue[x].arg)'
      OBVIOUS
    <3>2. PICK list : list = queue'[x].arg
      OBVIOUS
    <3>3. WholeLists(list)
      BY <2>6, <3>1, <3>2
    <3>4. WholeLists(list)'
      BY <2>5, <3>3
    <3>5. QED
      BY <3>2, <3>4 DEF WholeLists
  <2>8. QED
    BY <2>2, <2>7 DEF DrawsInv
<1>17. QED
  BY <1>1, <1>11, <1>14, <1>15, <1>16 DEF FeedInv
(* The list and the places once a document's block has run. *)
LEMMA FeedHandleDocument == FeedInv /\ OwnInv' /\ HandleDocument => FeedInv'
<1>1. SUFFICES ASSUME FeedInv, OwnInv', HandleDocument PROVE FeedInv'
  OBVIOUS
<1>2. OwnInv /\ DrawsInv
  BY <1>1 DEF FeedInv
<1>3. PICK at, c, h, p, b : /\ Placed(queue, delivered, at, c, h, p)
                            /\ Collected(c, h, p, b) /\ Redrawn(c, h, p)
  BY <1>1 DEF FeedInv
<1>4. /\ queue \in Seq(Blocks) /\ delivered \in Seq(Snapshots)
      /\ ListsDelivered \in Seq(Seq(Items)) /\ Len(ListsDelivered) = Len(delivered)
      /\ Len(delivered) \in Nat
      /\ \A i \in 1..Len(delivered) : ListsDelivered[i] = Listed(delivered[i])
  BY <1>2, FeedTypes
<1>5. queue # <<>> /\ Head(queue).kind = "document"
  BY <1>1 DEF HandleDocument, Running
<1>6. delivered' = delivered /\ shown' = shown /\ alert' = alert
  BY <1>1 DEF HandleDocument
<1>7. ListsDelivered' = ListsDelivered
  BY <1>6, ListsNow
<1>8. PICK a, i : NextDocument(queue, delivered, at, c, h, p, a, i)
  BY <1>3, <1>4, <1>5, DocumentFirst
<1>9. /\ a \in (c + 1)..h /\ i \in 1..Len(delivered[a])
      /\ at[a] + i = 1 /\ Head(queue).arg = delivered[a][i]
      /\ p > 0 => a = c + 1 /\ i = p + 1
      /\ p = 0 => i = 1 /\ \A m \in (c + 1)..(a - 1) : Len(delivered[m]) = 0
  BY <1>8 DEF NextDocument
<1>10. /\ c \in Nat /\ h \in Nat /\ p \in Nat /\ c <= h /\ h <= Len(delivered)
       /\ \A m \in 1..Len(delivered) : Len(delivered[m]) \in Nat /\ delivered[m] \in Snapshots
  BY <1>3, <1>4, PlacedTypes
<1>11. DEFINE L == ListsDelivered
              n == Len(delivered)
              s == delivered[a]
              U == ListedUpTo(delivered[a])
              d == delivered[a][i]
              z == Len(delivered[a])
<1>12. /\ a \in 1..n /\ a - 1 \in c..n /\ a \in Nat /\ a > c /\ n \in Nat
       /\ s \in Snapshots /\ z \in Nat /\ i \in 1..z /\ i \in Nat /\ i - 1 \in 0..z
  BY <1>4, <1>9, <1>10
<1>13. /\ U[0] = <<>>
       /\ U[i] = IF Complete(d) THEN Append(U[i - 1], Item(d)) ELSE U[i - 1]
       /\ U[i] \in Seq(Items) /\ U[i - 1] \in Seq(Items)
       /\ L[a] = U[z]
  <2>1. i \in 0..z
    BY <1>12
  <2>2. L[a] = U[z]
    BY <1>4, <1>12 DEF Listed
  <2>3. QED
    BY <1>12, <2>1, <2>2, ListedStep, ListedType
<1>14. L \in Seq(Seq(Items)) /\ Len(L) = n
  BY <1>4
(* Nothing is listed of the snapshots before that have no document waiting. *)
<1>15. ASSUME NEW f \in 1..(c + 1)
       PROVE  RunOf(L, f, a - 1) = RunOf(L, f, c)
  <2>1. CASE p > 0
    <3>1. a - 1 = c
      BY <1>9, <1>10, <2>1
    <3>2. QED
      BY <3>1
  <2>2. CASE p = 0
    <3>1. ASSUME NEW m \in (c + 1)..(a - 1) PROVE L[m] = <<>>
      <4>1. m \in 1..n /\ Len(delivered[m]) = 0
        BY <1>9, <1>10, <1>12, <2>2
      <4>2. Listed(delivered[m]) = <<>>
        BY <1>10, <4>1, ListedStep DEF Listed
      <4>3. QED
        BY <1>4, <4>1, <4>2
    <3>2. c \in 0..Len(L) /\ a - 1 \in c..Len(L)
      BY <1>10, <1>12, <1>14
    <3> HIDE DEF L
    <3>3. QED
      BY <1>14, <3>1, <3>2, RunSkip
  <2>3. QED
    BY <1>10, <2>1, <2>2
(* The part of the a-th list that is collected, and what callbacks know of it. *)
<1>16. /\ b \in 0..c /\ (b < h \/ alert \/ h = 0)
       /\ itemList = RunOf(L, b + 1, a - 1) \o U[i - 1]
       /\ RunOf(L, b + 1, a - 1) \in Seq(Items)
  <2>1. b \in 0..c /\ (b < h \/ alert \/ h = 0)
    BY <1>3 DEF Collected
  <2>2. /\ b + 1 \in 1..(c + 1) /\ b + 1 \in 1..(Len(L) + 1) /\ a - 1 \in 0..Len(L)
        /\ c \in 0..Len(L)
    BY <1>10, <1>12, <1>14, <2>1
  <2>3. RunOf(L, b + 1, a - 1) = RunOf(L, b + 1, c)
    BY <1>15, <2>2
  <2>4. RunOf(L, b + 1, a - 1) \in Seq(Items)
    <3> HIDE DEF L
    <3>1. QED
      BY <1>14, <2>2, RunType
  <2>5. CASE p > 0
    <3>1. itemList = RunOf(L, b + 1, c) \o ListedUpTo(delivered[c + 1])[p]
      <4>1. p # 0
        BY <1>10, <2>5
      <4>2. QED
        BY <1>3, <4>1 DEF Collected
    <3>2. a = c + 1 /\ i - 1 = p
      BY <1>9, <1>10, <2>5
    <3>3. QED
      BY <2>1, <2>3, <2>4, <3>1, <3>2
  <2>6. CASE p = 0
    <3>1. itemList = RunOf(L, b + 1, c)
      BY <1>3, <2>6 DEF Collected
    <3>2. U[i - 1] = <<>>
      BY <1>9, <1>13, <2>6
    <3>3. \A l \in Seq(Items) : l \o <<>> = l
      OBVIOUS
    <3> HIDE DEF L, U
    <3>4. QED
      BY <2>1, <2>3, <2>4, <3>1, <3>2, <3>3 DEF L
  <2>7. p > 0 \/ p = 0
    BY <1>10
  <2>8. QED
    BY <2>5, <2>6, <2>7, Zenon
<1>17. itemList' = RunOf(L, b + 1, a - 1) \o U[i]
  <2>1. itemList' = IF Complete(d) THEN Append(itemList, Item(d)) ELSE itemList
    BY <1>1, <1>9 DEF HandleDocument
  <2>2. DEFINE w == RunOf(L, b + 1, a - 1)
               u == U[i - 1]
  <2>3. d \in Docs
    BY <1>12, SnapshotDocs
  <2>4. Item(d) \in Items
    BY <2>3, ItemOf
  <2>5. \A v, y \in Seq(Items) : \A x \in Items : Append(v \o y, x) = v \o Append(y, x)
    OBVIOUS
  <2>6. w \in Seq(Items) /\ u \in Seq(Items) /\ itemList = w \o u
    BY <1>13, <1>16
  <2> HIDE DEF w, u
  <2>7. Append(w \o u, Item(d)) = w \o Append(u, Item(d))
    BY <2>4, <2>5, <2>6
  <2>8. itemList' = w \o (IF Complete(d) THEN Append(u, Item(d)) ELSE u)
    BY <2>1, <2>6, <2>7
  <2>9. QED
    BY <1>13, <2>8 DEF w, u
<1>18. PICK k, o : k = (IF i < z THEN a - 1 ELSE a) /\ o = (IF i < z THEN i ELSE 0)
  OBVIOUS
<1>19. \/ i < z /\ k = a - 1 /\ o = i
       \/ i = z /\ k = a /\ o = 0
  BY <1>12, <1>18
<1>20. k \in c..h /\ o \in Nat /\ (o = 0 => i = z /\ k = a) /\ (o > 0 => k = a - 1 /\ o = i)
  <2>1. c \in Nat /\ h \in Nat /\ a <= h /\ a \in Nat /\ a > c
    BY <1>9, <1>10, <1>12
  <2>2. z \in Nat /\ i \in Nat /\ i >= 1 /\ i <= z
    BY <1>12
  <2> HIDE DEF z
  <2>3. QED
    BY <1>18, <2>1, <2>2
<1> HIDE DEF L, n, s, U, d, z
<1>21. Placed(Tail(queue), delivered, Shifted(delivered, at), k, h, o)
  <2>1. /\ Placed(queue, delivered, at, c, h, p) /\ at[a] + i = 1
        /\ a \in (c + 1)..h /\ i \in 1..Len(delivered[a])
    BY <1>3, <1>9
  <2>2. \/ i < Len(delivered[a]) /\ k = a - 1 /\ o = i
        \/ i = Len(delivered[a]) /\ k = a /\ o = 0
    BY <1>19 DEF z
  <2>3. QED
    BY <1>4, <1>5, <2>1, <2>2, PlacedDocument
<1>22. Collected(k, h, o, b)'
  <2>1. SUFFICES itemList' = IF o = 0 THEN RunOf(L, b + 1, k)
                             ELSE RunOf(L, b + 1, k) \o ListedUpTo(delivered[k + 1])[o]
    <3>1. b \in 0..k
      BY <1>10, <1>16, <1>20
    <3>2. QED
      BY <1>6, <1>7, <1>16, <3>1 DEF Collected, L
  <2>2. CASE o > 0
    <3>1. k = a - 1 /\ o = i /\ o # 0 /\ k + 1 = a
      BY <1>12, <1>20, <2>2
    <3>2. itemList' = RunOf(L, b + 1, k) \o ListedUpTo(delivered[k + 1])[o]
      BY <1>17, <3>1 DEF U
    <3>3. QED
      BY <3>1, <3>2
  <2>3. CASE o = 0
    <3>1. i = z /\ k = a
      BY <1>20, <2>3
    <3>2. b + 1 \in 1..Len(L) /\ a \in (b + 1)..Len(L)
      BY <1>10, <1>12, <1>14, <1>16
    <3>3. RunOf(L, b + 1, a) = RunOf(L, b + 1, a - 1) \o L[a]
      BY <1>14, <3>2, RunNext
    <3>4. itemList' = RunOf(L, b + 1, k)
      BY <1>13, <1>17, <3>1, <3>3
    <3>5. QED
      BY <2>3, <3>4
  <2>4. o > 0 \/ o = 0
    BY <1>20
  <2>5. QED
    BY <2>2, <2>3, <2>4, Zenon
<1>23. DEFINE t == Tail(queue)
              e == Block("callback", <<>>)
<1>24. t \in Seq(Blocks) /\ e \in Blocks /\ e.kind = "callback"
  BY <1>4, <1>5, BlockOf
<1>25. queue' = IF Complete(d) THEN Append(t, e) ELSE t
  BY <1>1, <1>9 DEF HandleDocument, d
<1>26. /\ NoneOf(t, "callback") => NoneOf(queue, "callback")
       /\ \A list : Latest(queue, shown, list) => Latest(t, shown, list)
  BY <1>4, <1>5, NoneTail, LatestTail
<1>27. \A x \in 1..Len(t) : t[x].kind = "draw" => WholeLists(t[x].arg)
  BY <1>2, <1>4, <1>5 DEF DrawsInv
<1> HIDE DEF t, e
<1>28. Placed(queue', delivered', Shifted(delivered, at), k, h, o)
  <2>1. Placed(t, delivered, Shifted(delivered, at), k, h, o)
    BY <1>21 DEF t
  <2>2. Placed(Append(t, e), delivered, Shifted(delivered, at), k, h, o)
    BY <1>4, <1>24, <2>1, PlacedAppend
  <2>3. QED
    BY <1>6, <1>25, <2>1, <2>2
<1>29. Redrawn(k, h, o)'
  <2>1. SUFFICES ASSUME NoneOf(queue', "callback")
                 PROVE  /\ o > 0 => ListedUpTo(delivered'[k + 1])[o] = <<>>
                        /\ \E f \in 1..(k + 1) :
                              /\ f <= h \/ alert' \/ h = 0
                              /\ Latest(queue', shown', RunOf(ListsDelivered', f, k))
    BY DEF Redrawn
  <2>2. ~Complete(d) /\ queue' = t
    BY <1>24, <1>25, <2>1, LatestAppend
  <2>3. NoneOf(queue, "callback")
    BY <1>26, <2>1, <2>2
  <2>4. p > 0 => ListedUpTo(delivered[c + 1])[p] = <<>>
    BY <1>3, <2>3 DEF Redrawn
  <2>5. PICK f \in 1..(c + 1) : /\ f <= h \/ alert \/ h = 0
                                /\ Latest(queue, shown, RunOf(ListsDelivered, f, c))
    BY <1>3, <2>3 DEF Redrawn
  <2>6. U[i - 1] = <<>>
    <3>1. CASE p > 0
      <4>1. a = c + 1 /\ i - 1 = p
        BY <1>9, <1>10, <3>1
      <4>2. QED
        BY <2>4, <3>1, <4>1 DEF U
    <3>2. CASE p = 0
      <4>1. i - 1 = 0
        BY <1>9, <3>2
      <4>2. QED
        BY <1>13, <4>1
    <3>3. QED
      BY <1>10, <3>1, <3>2
  <2>7. U[i] = <<>>
    BY <1>13, <2>2, <2>6
  <2>8. o > 0 => ListedUpTo(delivered'[k + 1])[o] = <<>>
    <3>1. SUFFICES ASSUME o > 0 PROVE ListedUpTo(delivered[k + 1])[o] = <<>>
      BY <1>6
    <3>2. k + 1 = a /\ o = i
      BY <1>12, <1>20, <3>1
    <3>3. QED
      BY <2>7, <3>2 DEF U
  <2>9. RunOf(L, f, k) = RunOf(L, f, c)
    <3>1. RunOf(L, f, a - 1) = RunOf(L, f, c)
      BY <1>15, <2>5
    <3>2. CASE o > 0
      BY <1>20, <3>1, <3>2
    <3>3. CASE o = 0
      <4>1. k = a /\ L[a] = <<>>
        BY <1>13, <1>20, <2>7, <3>3
      <4>2. f \in 1..Len(L) /\ a \in f..Len(L) /\ f \in 1..(Len(L) + 1) /\ a - 1 \in 0..Len(L)
        BY <1>10, <1>12, <1>14, <2>5
      <4>3. RunOf(L, f, a) = RunOf(L, f, a - 1) \o <<>>
        BY <1>14, <4>1, <4>2, RunNext
      <4>4. RunOf(L, f, a - 1) \in Seq(Items)
        BY <1>14, <4>2, RunType
      <4>5. \A l \in Seq(Items) : l \o <<>> = l
        OBVIOUS
      <4>6. RunOf(L, f, a - 1) \o <<>> = RunOf(L, f, a - 1)
        BY <4>4, <4>5
      <4>7. QED
        BY <3>1, <4>1, <4>3, <4>6
    <3>4. QED
      BY <1>20, <3>2, <3>3
  <2>10. f \in 1..(k + 1)
    BY <1>10, <1>20, <2>5
  <2>11. Latest(queue', shown', RunOf(ListsDelivered', f, k))
    BY <1>6, <1>7, <1>26, <2>2, <2>5, <2>9 DEF L
  <2>12. QED
    BY <1>6, <2>5, <2>8, <2>10, <2>11
<1>30. DrawsInv'
  <2>1. delivered' # <<>>
    BY <1>4, <1>6, <1>12 DEF n
  <2>2. \A x \in 1..Len(queue') : queue'[x].kind = "draw" => WholeLists(queue'[x].arg)
    <3>1. CASE Complete(d)
      <4>1. \A x \in 1..Len(Append(t, e)) :
               Append(t, e)[x] = e \/ (x \in 1..Len(t) /\ Append(t, e)[x] = t[x])
        BY <1>24
      <4>2. QED
        BY <1>24, <1>25, <1>27, <3>1, <4>1
    <3>2. CASE ~Complete(d)
      BY <1>25, <1>27, <3>2
    <3>3. QED
      BY <3>1, <3>2
  <2>3. QED
    BY <1>6, <1>7, <2>1, <2>2 DEF DrawsInv, WholeLists
<1>31. QED
  BY <1>1, <1>22, <1>28, <1>29, <1>30 DEF FeedInv

LEMMA FeedStep == FeedInv /\ [Next]_vars => FeedInv'
<1>1. SUFFICES ASSUME FeedInv, [Next]_vars PROVE FeedInv'
  OBVIOUS
<1>2. OwnInv'
  BY <1>1, OwnStep DEF FeedInv
<1>3. CASE UNCHANGED vars
  <2>1. /\ queue' = queue /\ delivered' = delivered /\ itemList' = itemList
        /\ shown' = shown /\ alert' = alert
    BY <1>3 DEF vars
  <2>2. ListsDelivered' = ListsDelivered
    BY <2>1, ListsNow
  <2>3. DrawsInv'
    BY <1>1, <2>1, <2>2 DEF FeedInv, DrawsInv, WholeLists
  <2>4. PICK at, c, h, p, b : /\ Placed(queue, delivered, at, c, h, p)
                              /\ Collected(c, h, p, b) /\ Redrawn(c, h, p)
    BY <1>1 DEF FeedInv
  <2>5. Placed(queue', delivered', at, c, h, p)
    BY <2>1, <2>4
  <2>6. Collected(c, h, p, b)' /\ Redrawn(c, h, p)'
    BY <2>1, <2>2, <2>4 DEF Collected, Redrawn
  <2>7. QED
    BY <1>2, <2>3, <2>5, <2>6 DEF FeedInv
<1>4. QED
  BY <1>1, <1>2, <1>3, FeedDeliverSnapshot, FeedDeliverError, FeedHandleSnapshot,
     FeedHandleError, FeedHandleDocument, FeedHandleCallback, FeedHandleDraw
     DEF Next, MainQueue
(* With nothing on the queue, everything delivered is listed and drawn. *)
LEMMA AtRest == FeedInv => NewestAtRest
<1>1. SUFFICES ASSUME FeedInv, queue = <<>>, delivered # <<>>
               PROVE  \E i \in 1..(Len(delivered) + (IF alert THEN 1 ELSE 0)) :
                         shown = View!Run(i, Len(delivered))
  BY DEF NewestAtRest
<1>2. PICK at, c, h, p, b : /\ Placed(queue, delivered, at, c, h, p)
                            /\ Collected(c, h, p, b) /\ Redrawn(c, h, p)
  BY <1>1 DEF FeedInv
<1>3. OwnInv
  BY <1>1 DEF FeedInv
<1>4. /\ queue \in Seq(Blocks) /\ delivered \in Seq(Snapshots)
      /\ ListsDelivered \in Seq(Seq(Items)) /\ Len(ListsDelivered) = Len(delivered)
      /\ \A i \in 1..Len(delivered) : ListsDelivered[i] = Listed(delivered[i])
  BY <1>3, FeedTypes
<1>5. /\ Len(delivered) \in Nat
      /\ c \in Nat /\ h \in Nat /\ p \in Nat /\ c <= h /\ h <= Len(delivered)
      /\ \A a \in 1..Len(delivered) :
            Len(delivered[a]) \in Nat /\ at[a] \in Int /\ delivered[a] \in Snapshots
      /\ \A a \in (c + 1)..h : a \in 1..Len(delivered)
  BY <1>2, <1>4, PlacedTypes
<1>6. Len(queue) = 0 /\ Len(delivered) # 0
  BY <1>1, <1>4
<1>7. p = 0
  <2>1. SUFFICES ASSUME p > 0 PROVE FALSE
    BY <1>5
  <2>2. queue # <<>>
    BY <1>2, <1>4, <2>1, PartlyRun
  <2>3. QED
    BY <1>1, <2>2
<1>8. h = Len(delivered)
  <2>1. SUFFICES ASSUME h # Len(delivered) PROVE FALSE
    OBVIOUS
  <2>2. h + 1 \in (h + 1)..Len(delivered)
    BY <1>5, <2>1
  <2>3. at[h + 1] \in 1..Len(queue)
    BY <1>2, <2>2 DEF Placed, Unopened
  <2>4. QED
    BY <1>6, <2>3
<1>9. \A m \in (c + 1)..h : ListsDelivered[m] = <<>>
  <2>1. SUFFICES ASSUME NEW m \in (c + 1)..h PROVE ListsDelivered[m] = <<>>
    OBVIOUS
  <2>2. at[m] + Len(delivered[m]) <= 0 /\ (Len(delivered[m]) > 0 => at[m] >= 0)
    BY <1>2, <1>6, <1>7 DEF Placed, Together
  <2>3. m \in 1..Len(delivered) /\ at[m] \in Int /\ Len(delivered[m]) \in Nat /\ delivered[m] \in Snapshots
    BY <1>5
  <2>4. Len(delivered[m]) = 0
    BY <2>2, <2>3
  <2>5. Listed(delivered[m]) = <<>>
    BY <2>3, <2>4, ListedStep DEF Listed
  <2>6. QED
    BY <1>4, <2>3, <2>5
<1>10. NoneOf(queue, "callback") /\ NoneOf(queue, "draw") /\ \A x \in 1..Len(queue) : FALSE
  BY <1>6 DEF NoneOf
<1>11. PICK i \in 1..(c + 1) : /\ i <= h \/ alert \/ h = 0
                               /\ Latest(queue, shown, RunOf(ListsDelivered, i, c))
  BY <1>2, <1>10 DEF Redrawn
<1>12. shown = RunOf(ListsDelivered, i, c)
  BY <1>10, <1>11 DEF Latest
<1>13. RunOf(ListsDelivered, i, Len(delivered)) = RunOf(ListsDelivered, i, c)
  <2>1. DEFINE L == ListsDelivered
  <2>2. /\ L \in Seq(Seq(Items)) /\ c \in 0..Len(L) /\ h \in c..Len(L)
        /\ \A m \in (c + 1)..h : L[m] = <<>>
    BY <1>4, <1>5, <1>9
  <2> HIDE DEF L
  <2>3. RunOf(L, i, h) = RunOf(L, i, c)
    BY <1>11, <2>2, RunSkip
  <2>4. QED
    BY <1>8, <2>3 DEF L
<1>14. i \in 1..(Len(delivered) + (IF alert THEN 1 ELSE 0))
  <2>1. i \in Nat /\ i >= 1 /\ i <= Len(delivered) + 1 /\ (i <= Len(delivered) \/ alert)
    BY <1>5, <1>6, <1>8, <1>11
  <2>2. CASE alert
    BY <1>5, <2>1, <2>2
  <2>3. CASE ~alert
    BY <1>5, <2>1, <2>3
  <2>4. QED
    BY <2>2, <2>3
<1>15. QED
  BY <1>12, <1>13, <1>14, ViewRun

(* A page at rest shows a run of snapshots that ends with the newest delivered,
   whatever the timing of Firestore's deliveries was: the second round through the
   main queue loses no snapshot, and the last callback sees every document. *)
THEOREM RestsOnNewest == Spec => []NewestAtRest
  BY AtRest, FeedInit, FeedStep, PTL DEF Spec

(* A step of the feed delivers a list, draws a run of whole lists or leaves the
   page and the lists as they are. *)
LEMMA ViewStep == FeedInv /\ [Next]_vars => [View!Next]_(View!vars)
<1>1. SUFFICES ASSUME FeedInv, [Next]_vars PROVE [View!Next]_(View!vars)
  OBVIOUS
<1>2. OwnInv /\ DrawsInv
  BY <1>1 DEF FeedInv
<1>3. /\ queue \in Seq(Blocks) /\ delivered \in Seq(Snapshots)
      /\ Len(ListsDelivered) = Len(delivered)
  BY <1>2, FeedTypes
<1>4. CASE DeliverSnapshot
  <2>1. PICK s \in Snapshots : delivered' = Append(delivered, s)
    BY <1>4 DEF DeliverSnapshot
  <2>2. ListsDelivered' = Append(ListsDelivered, Listed(s)) /\ shown' = shown
    BY <1>3, <1>4, <2>1, ListsNow, ListsOfAppend DEF DeliverSnapshot
  <2>3. View!Deliver
    BY <2>2 DEF View!Deliver
  <2>4. QED
    BY <2>3 DEF View!Next
<1>5. CASE HandleDraw
  <2>1. queue # <<>> /\ Head(queue).kind = "draw" /\ shown' = Head(queue).arg
        /\ delivered' = delivered
    BY <1>5 DEF HandleDraw, Running
  <2>2. ListsDelivered' = ListsDelivered
    BY <2>1, ListsNow
  <2>3. WholeLists(shown')
    <3>1. Head(queue) = queue[1] /\ 1 \in 1..Len(queue)
      BY <1>3, <2>1
    <3>2. QED
      BY <1>2, <2>1, <3>1 DEF DrawsInv
  <2>4. PICK i \in 1..Len(delivered), j \in 0..Len(delivered) :
           shown' = RunOf(ListsDelivered, i, j)
    BY <2>3 DEF WholeLists
  <2>5. View!Draw
    BY <1>3, <2>2, <2>4, ViewRun DEF View!Draw
  <2>6. QED
    BY <2>5 DEF View!Next
<1>6. CASE delivered' = delivered /\ shown' = shown
  BY <1>6, ListsNow DEF View!vars
<1>7. QED
  BY <1>1, <1>4, <1>5, <1>6
     DEF Next, MainQueue, DeliverError, HandleSnapshot, HandleError, HandleDocument,
         HandleCallback, vars

(* The queue of blocks does what DealsView says of a page: it is redrawn with whole
   lists only, each once, consecutive and in the order they came. *)
THEOREM FeedImplementsView == Spec => ImplementsView
<1>1. Init => View!Init
  <2>1. SUFFICES ASSUME Init PROVE ListsDelivered = <<>> /\ shown = <<>>
    BY DEF View!Init
  <2>2. delivered = <<>> /\ shown = <<>>
    BY <2>1, Zenon DEF Init
  <2>3. Len(delivered) = 0
    BY <2>2
  <2>4. ListsDelivered = [i \in 1..0 |-> Listed(delivered[i])]
    BY <2>3 DEF ListsDelivered
  <2>5. QED
    BY <2>2, <2>4
<1>2. QED
  BY <1>1, ViewStep, FeedInit, FeedStep, PTL DEF Spec, ImplementsView, View!Spec
-----------------------------------------------------------------------------
(* Snapshots that arrive apart                                              *)

(* Of the snapshot whose blocks are on the queue, the documents from the k-th on
   wait, in front of the callbacks of those that were listed. *)
Listing(s, k) ==
    LET waiting == Len(s) - (k - 1)
    IN  /\ k \in 1..Len(s)
        /\ waiting <= Len(queue)
        /\ \A x \in 1..waiting : queue[x] = Block("document", s[(k - 1) + x])
        /\ \A x \in (waiting + 1)..Len(queue) : queue[x].kind = "callback"
        /\ itemList = ListedUpTo(s)[k - 1]
        /\ itemList = <<>> <=> Len(queue) = waiting

(* All its documents are listed; callbacks and draws wait. *)
Drawing(s) ==
    /\ queue # <<>> /\ itemList = Listed(s) /\ itemList # <<>>
    /\ \A x \in 1..Len(queue) : \/ queue[x].kind = "callback"
                                \/ queue[x] = Block("draw", Listed(s))

(* The snapshots arrived apart: only the newest one has blocks on the queue. *)
OneSnapshot ==
    LET n == Len(delivered)
    IN  \/ queue = <<>> /\ shown = NewestList(n)
        \/ queue = <<Block("error", <<>>)>> /\ shown = NewestList(n)
        \/ n > 0 /\ queue = <<Block("snapshot", delivered[n])>> /\ shown = NewestList(n - 1)
        \/ n > 0 /\ shown = NewestList(n - 1) /\ \E k \in Nat : Listing(delivered[n], k)
        \/ n > 0 /\ Drawing(delivered[n]) /\ shown \in {NewestList(n - 1), Listed(delivered[n])}

ApartInv == OwnInv /\ (apart => OneSnapshot)
NewestOf(L, n) ==
    LET full == {i \in 1..n : L[i] # <<>>}
    IN  IF full = {} THEN <<>> ELSE L[Max(full)]

LEMMA NewestNow ==
    \A n : /\ NewestList(n) = NewestOf(ListsDelivered, n)
           /\ NewestList(n)' = NewestOf(ListsDelivered', n)
  BY DEF NewestList, NewestOf

(* The newest list is the last one, or else the newest before it. *)
LEMMA NewestStep ==
    ASSUME NEW L, NEW n \in Nat \ {0}
    PROVE  NewestOf(L, n) = IF L[n] # <<>> THEN L[n] ELSE NewestOf(L, n - 1)
<1>1. DEFINE F == {i \in 1..n : L[i] # <<>>}
             G == {i \in 1..(n - 1) : L[i] # <<>>}
<1>2. CASE L[n] # <<>>
  <2>1. n \in F /\ \A y \in F : n >= y /\ (y >= n => y = n)
    BY <1>2
  <2>2. Max(F) = n
    <3> HIDE DEF F
    <3>1. DEFINE P(x) == x \in F /\ \A y \in F : x >= y
    <3>2. Max(F) = CHOOSE x : P(x)
      BY DEF Max
    <3>3. P(n) /\ \A x : P(x) => x = n
      BY <2>1
    <3> HIDE DEF P
    <3>4. QED
      BY <3>2, <3>3
  <2>3. F # {}
    BY <2>1
  <2>4. QED
    BY <1>2, <2>2, <2>3 DEF NewestOf
<1>3. CASE L[n] = <<>>
  <2>1. F = G
    <3>1. \A i \in 1..n : i # n => i \in 1..(n - 1)
      OBVIOUS
    <3>2. \A i \in 1..(n - 1) : i \in 1..n
      OBVIOUS
    <3>3. QED
      BY <1>3, <3>1, <3>2
  <2>2. QED
    BY <1>3, <2>1 DEF NewestOf
<1>4. QED
  BY <1>2, <1>3

(* It depends on the first n lists only. *)
LEMMA NewestAgree ==
    ASSUME NEW L, NEW M, NEW n \in Nat, \A i \in 1..n : L[i] = M[i]
    PROVE  NewestOf(L, n) = NewestOf(M, n)
<1>1. DEFINE F == {i \in 1..n : L[i] # <<>>}
             G == {i \in 1..n : M[i] # <<>>}
<1>2. F = G
  OBVIOUS
<1>3. CASE F = {}
  BY <1>2, <1>3 DEF NewestOf
<1>4. CASE F # {}
  <2>2. Max(F) \in F
    <3>1. DEFINE S == {n - i : i \in F}
    <3>2. S \subseteq Nat /\ S # {}
      BY <1>4
    <3> HIDE DEF S
    <3>3. PICK m \in S : \A y \in S : m <= y
      BY <3>2, LeastNat
    <3>4. PICK x \in F : m = n - x
      BY <3>3 DEF S
    <3>5. \A y \in F : n - y \in S /\ y \in Int
      BY DEF S
    <3>6. \A y \in F : x >= y
      <4>1. SUFFICES ASSUME NEW y \in F PROVE x >= y
        OBVIOUS
      <4>2. n - x <= n - y /\ y \in Int /\ x \in Int
        BY <3>3, <3>4, <3>5
      <4>3. QED
        BY <4>2
    <3>7. DEFINE P(v) == v \in F /\ \A y \in F : v >= y
    <3>8. Max(F) = CHOOSE v : P(v)
      BY DEF Max
    <3>9. P(x)
      BY <3>4, <3>6
    <3> HIDE DEF P, F
    <3>10. P(Max(F))
      BY <3>8, <3>9
    <3>11. QED
      BY <3>10 DEF P
  <2>3. L[Max(F)] = M[Max(F)]
    <3>1. F \subseteq 1..n
      OBVIOUS
    <3> HIDE DEF F
    <3>2. QED
      BY <2>2, <3>1
  <2>4. QED
    BY <1>2, <1>4, <2>3 DEF NewestOf
<1>5. QED
  BY <1>3, <1>4
(* The newest list once one more was delivered. *)
LEMMA NewestDelivered ==
    ASSUME OwnInv
    PROVE  Len(delivered) > 0 =>
              NewestList(Len(delivered)) =
                 IF Listed(delivered[Len(delivered)]) # <<>>
                   THEN Listed(delivered[Len(delivered)])
                   ELSE NewestList(Len(delivered) - 1)
<1>1. DEFINE n == Len(delivered)
<1>2. SUFFICES ASSUME n > 0
               PROVE  NewestList(n) = IF Listed(delivered[n]) # <<>> THEN Listed(delivered[n])
                                      ELSE NewestList(n - 1)
  OBVIOUS
<1>3. n \in Nat \ {0} /\ n \in 1..n
  BY <1>2, FeedTypes
<1>4. ListsDelivered[n] = Listed(delivered[n])
  BY <1>3, FeedTypes
<1> HIDE DEF n
<1>5. NewestOf(ListsDelivered, n) = IF ListsDelivered[n] # <<>> THEN ListsDelivered[n]
                                    ELSE NewestOf(ListsDelivered, n - 1)
  BY <1>3, NewestStep
<1>6. QED
  BY <1>4, <1>5, NewestNow

(* The first block tells the phase. *)
LEMMA Phases ==
    ASSUME OwnInv, OneSnapshot, queue # <<>>,
           NEW n, n = Len(delivered)
    PROVE  /\ Head(queue).kind = "snapshot" =>
                /\ n > 0 /\ queue = <<Block("snapshot", delivered[n])>>
                /\ shown = NewestList(n - 1)
           /\ Head(queue).kind = "error" => Tail(queue) = <<>> /\ shown = NewestList(n)
           /\ Head(queue).kind = "document" =>
                n > 0 /\ shown = NewestList(n - 1) /\ \E k \in Nat : Listing(delivered[n], k)
           /\ Head(queue).kind \in {"callback", "draw"} =>
                /\ n > 0 /\ Drawing(delivered[n])
                /\ shown \in {NewestList(n - 1), Listed(delivered[n])}
<1>1. queue \in Seq(Blocks) /\ delivered \in Seq(Snapshots)
  BY FeedTypes
<1>2. Len(queue) \in Nat /\ Len(queue) >= 1 /\ Head(queue) = queue[1] /\ 1 \in 1..Len(queue)
  BY <1>1
<1>3. CASE queue = <<Block("error", <<>>)>> /\ shown = NewestList(n)
  <2>1. Head(queue).kind = "error" /\ Tail(queue) = <<>>
    <3>1. Head(queue) = Block("error", <<>>) /\ Tail(queue) = <<>>
      BY <1>3
    <3>2. QED
      BY <3>1, BlockOf
  <2>2. QED
    BY <1>3, <2>1
<1>4. CASE n > 0 /\ queue = <<Block("snapshot", delivered[n])>> /\ shown = NewestList(n - 1)
  <2>1. Head(queue).kind = "snapshot"
    BY <1>4, BlockOf
  <2>2. QED
    BY <1>4, <2>1
<1>5. CASE n > 0 /\ shown = NewestList(n - 1) /\ \E k \in Nat : Listing(delivered[n], k)
  <2>1. PICK k \in Nat : Listing(delivered[n], k)
    BY <1>5
  <2>2. n \in 1..Len(delivered)
    BY <1>1, <1>5
  <2>3. delivered[n] \in Snapshots
    BY <1>1, <2>2
  <2>4. Len(delivered[n]) \in Nat /\ k \in 1..Len(delivered[n])
    BY <2>1, <2>3, SnapshotDocs DEF Listing
  <2>5. 1 \in 1..(Len(delivered[n]) - (k - 1))
    BY <2>4
  <2>6. queue[1] = Block("document", delivered[n][(k - 1) + 1])
    BY <2>1, <2>5 DEF Listing
  <2>7. Head(queue).kind = "document"
    BY <1>2, <2>6, BlockOf
  <2>8. QED
    BY <1>5, <2>7
<1>6. CASE /\ n > 0 /\ Drawing(delivered[n])
           /\ shown \in {NewestList(n - 1), Listed(delivered[n])}
  <2>1. queue[1].kind = "callback" \/ queue[1] = Block("draw", Listed(delivered[n]))
    BY <1>2, <1>6 DEF Drawing
  <2>2. Head(queue).kind \in {"callback", "draw"}
    BY <1>2, <2>1, BlockOf
  <2>3. QED
    BY <1>6, <2>2
<1>7. QED
  BY <1>3, <1>4, <1>5, <1>6 DEF OneSnapshot

(* What the phases say of the page. *)
LEMMA OneListShown ==
    ASSUME OwnInv, OneSnapshot, NEW n, n = Len(delivered)
    PROVE  \/ shown = NewestList(n)
           \/ queue # <<>> /\ shown = NewestList(n - 1)
<1>1. CASE queue = <<>>
  <2>1. queue \in Seq(Blocks) /\ delivered \in Seq(Snapshots) /\ Len(queue) = 0
    BY <1>1, FeedTypes
  <2>2. queue # <<Block("error", <<>>)>> /\ queue # <<Block("snapshot", delivered[n])>>
    BY <1>1
  <2>3. ~(n > 0 /\ \E k \in Nat : Listing(delivered[n], k))
    <3>1. SUFFICES ASSUME n > 0, NEW k \in Nat, Listing(delivered[n], k) PROVE FALSE
      OBVIOUS
    <3>2. n \in 1..Len(delivered)
      BY <2>1, <3>1
    <3>3. delivered[n] \in Snapshots
      BY <2>1, <3>2
    <3>4. /\ Len(delivered[n]) \in Nat /\ k \in 1..Len(delivered[n])
          /\ Len(delivered[n]) - (k - 1) <= 0
      BY <2>1, <3>1, <3>3, SnapshotDocs DEF Listing
    <3>5. QED
      BY <3>4
  <2>4. ~Drawing(delivered[n])
    BY <1>1 DEF Drawing
  <2>5. QED
    BY <2>2, <2>3, <2>4 DEF OneSnapshot
<1>2. CASE queue # <<>>
  <2>1. Head(queue).kind \in {"snapshot", "document", "error", "callback", "draw"}
    <3>1. Head(queue) \in Blocks
      BY <1>2, FeedTypes
    <3>2. QED
      BY <3>1, BlockArg
  <2>2. CASE Head(queue).kind \in {"callback", "draw"}
    <3>1. /\ n > 0 /\ Drawing(delivered[n])
          /\ shown \in {NewestList(n - 1), Listed(delivered[n])}
      BY <1>2, <2>2, Phases
    <3>2. NewestList(n) = Listed(delivered[n])
      BY <3>1, NewestDelivered DEF Drawing
    <3>3. QED
      BY <1>2, <3>1, <3>2
  <2>3. CASE Head(queue).kind \in {"snapshot", "document", "error"}
    BY <1>2, <2>3, Phases
  <2>4. QED
    BY <2>1, <2>2, <2>3
<1>3. QED
  BY <1>1, <1>2

LEMMA ApartInit == Init => ApartInv
<1>1. SUFFICES ASSUME Init PROVE ApartInv
  OBVIOUS
<1>2. queue = <<>> /\ shown = <<>> /\ delivered = <<>>
  BY <1>1, Zenon DEF Init
<1>3. NewestList(0) = <<>>
  <2>1. {i \in 1..0 : ListsDelivered[i] # <<>>} = {}
    OBVIOUS
  <2>2. QED
    BY <2>1 DEF NewestList
<1>4. Len(delivered) = 0
  BY <1>2
<1>5. OneSnapshot
  BY <1>2, <1>3, <1>4 DEF OneSnapshot
<1>6. QED
  BY <1>1, <1>5, OwnInit DEF ApartInv
(* A delivery finds the queue empty, or the snapshots are no longer apart. *)
LEMMA ApartDeliver ==
    ASSUME ApartInv, OwnInv', DeliverSnapshot \/ DeliverError, apart'
    PROVE  OneSnapshot'
<1>1. DEFINE n == Len(delivered)
<1>2. /\ OwnInv /\ delivered \in Seq(Snapshots) /\ n \in Nat
      /\ ListsDelivered \in Seq(Seq(Items)) /\ Len(ListsDelivered) = n
  BY FeedTypes DEF ApartInv
<1>3. apart /\ queue = <<>> /\ shown' = shown
  BY DEF DeliverSnapshot, DeliverError
<1>4. shown = NewestList(n)
  BY <1>2, <1>3, OneListShown DEF ApartInv
<1>5. CASE DeliverSnapshot
  <2>1. PICK s \in Snapshots : /\ queue' = Append(queue, Block("snapshot", s))
                               /\ delivered' = Append(delivered, s)
    BY <1>5 DEF DeliverSnapshot
  <2>2. queue' = <<Block("snapshot", s)>>
    BY <1>3, <2>1
  <2>3. Len(delivered') = n + 1 /\ delivered'[n + 1] = s
    BY <1>2, <2>1
  <2>4. ListsDelivered' = Append(ListsDelivered, Listed(s))
    BY <1>2, <2>1, ListsNow, ListsOfAppend
  <2>5. \A i \in 1..n : ListsDelivered'[i] = ListsDelivered[i]
    BY <1>2, <2>4
  <2> HIDE DEF n
  <2>6. NewestOf(ListsDelivered', n) = NewestOf(ListsDelivered, n)
    BY <1>2, <2>5, NewestAgree
  <2>7. shown' = NewestOf(ListsDelivered', n)
    BY <1>3, <1>4, <2>6, NewestNow
  <2>8. PICK m : m = n
    OBVIOUS
  <2>9. m \in Nat /\ Len(delivered') = m + 1 /\ m + 1 > 0 /\ (m + 1) - 1 = m
    BY <1>2, <2>3, <2>8
  <2>10. shown' = NewestList((m + 1) - 1)'
    BY <2>7, <2>8, <2>9, NewestNow
  <2>11. queue' = <<Block("snapshot", delivered'[m + 1])>>
    BY <2>2, <2>3, <2>8
  <2>12. QED
    BY <2>9, <2>10, <2>11 DEF OneSnapshot
<1>6. CASE DeliverError
  <2>1. queue' = <<Block("error", <<>>)>> /\ delivered' = delivered
    BY <1>3, <1>6 DEF DeliverError
  <2>2. ListsDelivered' = ListsDelivered
    BY <2>1, ListsNow
  <2>3. shown' = NewestList(Len(delivered))'
    BY <1>3, <1>4, <2>1, <2>2 DEF NewestList
  <2>4. QED
    BY <2>1, <2>3 DEF OneSnapshot
<1>7. QED
  BY <1>5, <1>6

(* A block of the main queue runs; the lists delivered are as before. *)
LEMMA SameNewest ==
    ASSUME delivered' = delivered
    PROVE  \A n : NewestList(n)' = NewestList(n)
<1>1. ListsDelivered' = ListsDelivered
  BY ListsNow
<1>2. QED
  BY <1>1, NewestNow

LEMMA ApartSnapshot == ApartInv /\ OwnInv' /\ HandleSnapshot /\ apart' => OneSnapshot'
<1>1. SUFFICES ASSUME ApartInv, OwnInv', HandleSnapshot, apart' PROVE OneSnapshot'
  OBVIOUS
<1>2. PICK n : n = Len(delivered)
  OBVIOUS
<1>3. PICK s : s = delivered[n]
  OBVIOUS
<1>4. /\ queue # <<>> /\ Head(queue).kind = "snapshot"
      /\ queue' = Tail(queue) \o DocumentBlocks(Head(queue).arg)
      /\ itemList' = <<>> /\ delivered' = delivered /\ shown' = shown /\ apart
  BY <1>1 DEF HandleSnapshot, Running, DocumentBlocks
<1>5. OwnInv /\ OneSnapshot
  BY <1>1, <1>4 DEF ApartInv
<1>6. n > 0 /\ queue = <<Block("snapshot", s)>> /\ shown = NewestList(n - 1)
  BY <1>2, <1>3, <1>4, <1>5, Phases
<1>7. delivered \in Seq(Snapshots) /\ n \in Nat
  BY <1>2, <1>5, FeedTypes
<1>8. s \in Snapshots
  BY <1>2, <1>3, <1>6, <1>7
<1>9. Tail(queue) = <<>> /\ Head(queue).arg = s
  <2>1. Tail(queue) = <<>> /\ Head(queue) = Block("snapshot", s)
    BY <1>6
  <2>2. QED
    BY <2>1, BlockOf
<1>10. /\ queue' \in Seq(Blocks) /\ Len(queue') = Len(s) /\ Len(s) \in Nat
       /\ \A i \in 1..Len(s) : queue'[i] = Block("document", s[i])
  <2>1. PICK t : t = <<>>
    OBVIOUS
  <2>2. t \in Seq(Blocks) /\ Len(t) = 0
    BY <2>1
  <2>3. queue' = t \o DocumentBlocks(s)
    BY <1>4, <1>9, <2>1
  <2>4. /\ t \o DocumentBlocks(s) \in Seq(Blocks)
        /\ Len(t \o DocumentBlocks(s)) = Len(t) + Len(s)
        /\ \A i \in 1..Len(s) : (t \o DocumentBlocks(s))[Len(t) + i] = Block("document", s[i])
    BY <1>8, <2>2, SnapshotQueue
  <2>5. Len(s) \in Nat /\ \A i \in 1..Len(s) : Len(t) + i = i
    BY <1>8, <2>2, SnapshotDocs
  <2>6. 0 + Len(s) = Len(s)
    BY <2>5
  <2>7. QED
    BY <2>2, <2>3, <2>4, <2>5, <2>6
<1>11. \A m : NewestList(m)' = NewestList(m)
  BY <1>4, SameNewest
<1>12. ListedUpTo(s)[0] = <<>>
  BY <1>8, ListedStep
<1>13. CASE Len(s) = 0
  <2>1. queue' = <<>>
    BY <1>10, <1>13
  <2>2. NewestList(n) = NewestList(n - 1)
    <3>1. Listed(s) = <<>>
      BY <1>12, <1>13 DEF Listed
    <3>2. QED
      BY <1>2, <1>3, <1>5, <1>6, <3>1, NewestDelivered
  <2>3. shown' = NewestList(n)'
    BY <1>4, <1>6, <1>11, <2>2
  <2>4. QED
    BY <1>2, <1>4, <2>1, <2>3 DEF OneSnapshot
<1>14. CASE Len(s) # 0
  <2>1. Listing(s, 1)'
    <3>1. 1 \in 1..Len(s) /\ Len(s) - (1 - 1) = Len(s) /\ 1 - 1 = 0
      BY <1>10, <1>14
    <3>2. \A x \in 1..Len(s) : queue'[x] = Block("document", s[(1 - 1) + x])
      <4>1. \A x \in 1..Len(s) : (1 - 1) + x = x
        BY <1>10
      <4>2. QED
        BY <1>10, <4>1
    <3>3. \A x \in (Len(s) + 1)..Len(queue') : FALSE
      BY <1>10
    <3>4. Len(s) <= Len(queue') /\ Len(queue') = Len(s)
      BY <1>10
    <3>5. QED
      BY <1>4, <1>12, <3>1, <3>2, <3>3, <3>4 DEF Listing
  <2>2. shown' = NewestList(n - 1)'
    BY <1>4, <1>6, <1>11
  <2>3. QED
    BY <1>2, <1>3, <1>4, <1>6, <2>1, <2>2 DEF OneSnapshot
<1>15. QED
  BY <1>13, <1>14

LEMMA ApartError == ApartInv /\ OwnInv' /\ HandleError /\ apart' => OneSnapshot'
<1>1. SUFFICES ASSUME ApartInv, OwnInv', HandleError, apart' PROVE OneSnapshot'
  OBVIOUS
<1>2. PICK n : n = Len(delivered)
  OBVIOUS
<1>3. /\ queue # <<>> /\ Head(queue).kind = "error" /\ queue' = Tail(queue)
      /\ delivered' = delivered /\ shown' = shown /\ apart
  BY <1>1 DEF HandleError, Running
<1>4. queue' = <<>> /\ shown = NewestList(n)
  BY <1>1, <1>2, <1>3, Phases DEF ApartInv
<1>5. shown' = NewestList(n)'
  BY <1>3, <1>4, SameNewest
<1>6. QED
  BY <1>2, <1>3, <1>4, <1>5 DEF OneSnapshot

LEMMA ApartCallback == ApartInv /\ OwnInv' /\ HandleCallback /\ apart' => OneSnapshot'
<1>1. SUFFICES ASSUME ApartInv, OwnInv', HandleCallback, apart' PROVE OneSnapshot'
  OBVIOUS
<1>2. PICK n : n = Len(delivered)
  OBVIOUS
<1>3. PICK s : s = delivered[n]
  OBVIOUS
<1>4. /\ queue # <<>> /\ Head(queue).kind = "callback"
      /\ queue' = Append(Tail(queue), Block("draw", itemList))
      /\ itemList' = itemList /\ delivered' = delivered /\ shown' = shown /\ apart
  BY <1>1 DEF HandleCallback, Running
<1>5. /\ OwnInv /\ queue \in Seq(Blocks)
      /\ itemList \in Seq(Items)
  BY <1>1, FeedTypes DEF ApartInv, OwnInv, TypeOK
<1>6. n > 0 /\ Drawing(s) /\ shown \in {NewestList(n - 1), Listed(s)}
  BY <1>1, <1>2, <1>3, <1>4, <1>5, Phases DEF ApartInv
<1>7. PICK e : e = Block("draw", itemList)
  OBVIOUS
<1>8. e \in Blocks /\ e = Block("draw", Listed(s))
  BY <1>5, <1>6, <1>7, BlockOf DEF Drawing
<1>9. PICK t : t = Tail(queue)
  OBVIOUS
<1>10. /\ t \in Seq(Blocks)
       /\ \A x \in 1..Len(t) : x + 1 \in 1..Len(queue) /\ t[x] = queue[x + 1]
  BY <1>4, <1>5, <1>9
<1>11. /\ Append(t, e) # <<>>
       /\ \A x \in 1..Len(Append(t, e)) :
             Append(t, e)[x] = e \/ (x \in 1..Len(t) /\ Append(t, e)[x] = t[x])
  BY <1>8, <1>10
<1>12. queue' = Append(t, e)
  BY <1>4, <1>7, <1>9
<1>13. Drawing(s)'
  <2>1. queue' # <<>> /\ itemList' = Listed(s) /\ itemList' # <<>>
    BY <1>4, <1>6, <1>11, <1>12 DEF Drawing
  <2>2. \A x \in 1..Len(queue') : \/ queue'[x].kind = "callback"
                                  \/ queue'[x] = Block("draw", Listed(s))
    BY <1>6, <1>8, <1>10, <1>11, <1>12 DEF Drawing
  <2>3. QED
    BY <2>1, <2>2 DEF Drawing
<1>14. shown' \in {NewestList(n - 1)', Listed(s)}
  BY <1>4, <1>6, SameNewest
<1>15. QED
  BY <1>2, <1>3, <1>4, <1>6, <1>13, <1>14 DEF OneSnapshot

LEMMA ApartDraw == ApartInv /\ OwnInv' /\ HandleDraw /\ apart' => OneSnapshot'
<1>1. SUFFICES ASSUME ApartInv, OwnInv', HandleDraw, apart' PROVE OneSnapshot'
  OBVIOUS
<1>2. PICK n : n = Len(delivered)
  OBVIOUS
<1>3. PICK s : s = delivered[n]
  OBVIOUS
<1>4. /\ queue # <<>> /\ Head(queue).kind = "draw" /\ queue' = Tail(queue)
      /\ itemList' = itemList /\ delivered' = delivered /\ shown' = Head(queue).arg /\ apart
  BY <1>1 DEF HandleDraw, Running
<1>5. OwnInv /\ queue \in Seq(Blocks)
  BY <1>1, FeedTypes DEF ApartInv
<1>6. n > 0 /\ Drawing(s)
  BY <1>1, <1>2, <1>3, <1>4, <1>5, Phases DEF ApartInv
<1>7. /\ Head(queue) = queue[1] /\ 1 \in 1..Len(queue)
      /\ \A x \in 1..Len(queue') : x + 1 \in 1..Len(queue) /\ queue'[x] = queue[x + 1]
  BY <1>4, <1>5
<1>8. shown' = Listed(s)
  <2>1. queue[1].kind = "callback" \/ queue[1] = Block("draw", Listed(s))
    BY <1>6, <1>7 DEF Drawing
  <2>2. QED
    BY <1>4, <1>7, <2>1, BlockOf
<1>9. CASE queue' = <<>>
  <2>1. NewestList(n) = Listed(s)
    BY <1>2, <1>3, <1>5, <1>6, NewestDelivered DEF Drawing
  <2>2. shown' = NewestList(n)'
    BY <1>4, <1>8, <2>1, SameNewest
  <2>3. QED
    BY <1>2, <1>4, <1>9, <2>2 DEF OneSnapshot
<1>10. CASE queue' # <<>>
  <2>1. Drawing(s)'
    BY <1>4, <1>6, <1>7, <1>10 DEF Drawing
  <2>2. QED
    BY <1>2, <1>3, <1>4, <1>6, <1>8, <2>1 DEF OneSnapshot
<1>11. QED
  BY <1>9, <1>10
LEMMA ApartDocument == ApartInv /\ OwnInv' /\ HandleDocument /\ apart' => OneSnapshot'
<1>1. SUFFICES ASSUME ApartInv, OwnInv', HandleDocument, apart' PROVE OneSnapshot'
  OBVIOUS
<1>2. PICK n : n = Len(delivered)
  OBVIOUS
<1>3. PICK s : s = delivered[n]
  OBVIOUS
<1>4. /\ queue # <<>> /\ Head(queue).kind = "document"
      /\ delivered' = delivered /\ shown' = shown /\ apart
  BY <1>1 DEF HandleDocument, Running
<1>5. OwnInv /\ queue \in Seq(Blocks) /\ delivered \in Seq(Snapshots)
  BY <1>1, FeedTypes DEF ApartInv
<1>6. n > 0 /\ shown = NewestList(n - 1) /\ \E k \in Nat : Listing(s, k)
  BY <1>1, <1>2, <1>3, <1>4, <1>5, Phases DEF ApartInv
<1>7. PICK k \in Nat : Listing(s, k)
  BY <1>6
<1>8. s \in Snapshots
  BY <1>2, <1>3, <1>5, <1>6
<1>9. PICK z, w, l : z = Len(s) /\ w = Len(s) - (k - 1) /\ l = Len(queue)
  OBVIOUS
<1>10. /\ k \in 1..z /\ w <= l /\ (itemList = <<>> <=> l = w)
       /\ \A x \in 1..w : queue[x] = Block("document", s[(k - 1) + x])
       /\ \A x \in (w + 1)..l : queue[x].kind = "callback"
       /\ itemList = ListedUpTo(s)[k - 1]
  BY <1>7, <1>9 DEF Listing
<1>11. z \in Nat /\ k \in Nat /\ k >= 1 /\ k <= z /\ w = z - (k - 1) /\ w \in Nat /\ w >= 1 /\ l \in Nat
  BY <1>5, <1>8, <1>9, <1>10, SnapshotDocs
(* The block that runs is the k-th document's. *)
<1>12. Head(queue).arg = s[k]
  <2>1. 1 \in 1..w /\ (k - 1) + 1 = k /\ queue[1] = Head(queue)
    BY <1>4, <1>5, <1>11
  <2>2. queue[1] = Block("document", s[k])
    BY <1>10, <2>1
  <2>3. QED
    BY <2>1, <2>2, BlockOf
<1>13. PICK d, u, v : d = s[k] /\ u = ListedUpTo(s)[k - 1] /\ v = ListedUpTo(s)[k]
  OBVIOUS
<1>14. v = IF Complete(d) THEN Append(u, Item(d)) ELSE u
  BY <1>8, <1>9, <1>10, <1>13, ListedStep
<1>15. u \in Seq(Items) /\ Item(d) \in Items
  <2>1. k - 1 \in 0..Len(s) /\ k \in 1..Len(s)
    BY <1>9, <1>11
  <2>2. QED
    BY <1>8, <1>13, <2>1, ListedType, SnapshotDocs, ItemOf
<1>16. itemList' = v
  BY <1>1, <1>10, <1>12, <1>13, <1>14 DEF HandleDocument
<1>17. PICK t, e : t = Tail(queue) /\ e = Block("callback", <<>>)
  OBVIOUS
<1>18. /\ t \in Seq(Blocks) /\ Len(t) = l - 1 /\ e \in Blocks /\ e.kind = "callback"
       /\ \A x \in 1..(l - 1) : t[x] = queue[x + 1]
  BY <1>4, <1>5, <1>9, <1>17, BlockOf
<1>19. queue' = IF Complete(d) THEN Append(t, e) ELSE t
  BY <1>1, <1>12, <1>13, <1>17 DEF HandleDocument
<1>20. /\ Len(queue') \in Nat
       /\ \A x \in 1..Len(queue') : \/ x \in 1..(l - 1) /\ queue'[x] = queue[x + 1]
                                    \/ ~(x \in 1..(l - 1)) /\ queue'[x].kind = "callback"
       /\ v = <<>> <=> Len(queue') = w - 1
       /\ w - 1 <= Len(queue')
  <2>1. CASE Complete(d)
    <3>1. /\ Len(Append(t, e)) = l /\ Append(t, e)[l] = e
          /\ \A x \in 1..(l - 1) : Append(t, e)[x] = t[x]
      BY <1>11, <1>18
    <3>2. \A x \in 1..l : x \in 1..(l - 1) \/ (x = l /\ ~(x \in 1..(l - 1)))
      BY <1>11
    <3>3. v # <<>>
      BY <1>14, <1>15, <2>1
    <3>4. queue' = Append(t, e)
      BY <1>19, <2>1
    <3>5. l # w - 1 /\ w - 1 <= l
      BY <1>10, <1>11
    <3>6. QED
      BY <1>11, <1>18, <3>1, <3>2, <3>3, <3>4, <3>5
  <2>2. CASE ~Complete(d)
    <3>1. queue' = t /\ v = itemList
      BY <1>10, <1>13, <1>14, <1>19, <2>2
    <3>2. l - 1 \in Nat /\ (l = w <=> l - 1 = w - 1) /\ w - 1 <= l - 1
      BY <1>10, <1>11
    <3>3. QED
      BY <1>10, <1>18, <3>1, <3>2
  <2>3. QED
    BY <2>1, <2>2
<1>21. \A m : NewestList(m)' = NewestList(m)
  BY <1>4, SameNewest
<1>22. CASE k < z
  <2>1. Listing(s, k + 1)'
    <3>1. k + 1 \in 1..Len(s) /\ Len(s) - ((k + 1) - 1) = w - 1 /\ (k + 1) - 1 = k
      BY <1>9, <1>11, <1>22
    <3>2. \A x \in 1..(w - 1) : queue'[x] = Block("document", s[k + x])
      <4>1. SUFFICES ASSUME NEW x \in 1..(w - 1)
                     PROVE  queue'[x] = Block("document", s[k + x])
        OBVIOUS
      <4>2. /\ x \in 1..Len(queue') /\ x \in 1..(l - 1) /\ x + 1 \in 1..w
            /\ (k - 1) + (x + 1) = k + x
        BY <1>10, <1>11, <1>20
      <4>3. queue'[x] = queue[x + 1]
        BY <1>20, <4>2
      <4>4. queue[x + 1] = Block("document", s[(k - 1) + (x + 1)])
        BY <1>10, <4>2
      <4>5. QED
        BY <4>2, <4>3, <4>4
    <3>3. \A x \in ((w - 1) + 1)..Len(queue') : queue'[x].kind = "callback"
      <4>1. SUFFICES ASSUME NEW x \in ((w - 1) + 1)..Len(queue')
                     PROVE  queue'[x].kind = "callback"
        OBVIOUS
      <4>2. x \in 1..Len(queue') /\ (x \in 1..(l - 1) => x + 1 \in (w + 1)..l)
        BY <1>11, <1>20
      <4>3. QED
        BY <1>10, <1>20, <4>2
    <3>4. itemList' = ListedUpTo(s)[k] /\ (itemList' = <<>> <=> Len(queue') = w - 1)
      BY <1>13, <1>16, <1>20
    <3>5. QED
      BY <1>20, <3>1, <3>2, <3>3, <3>4 DEF Listing
  <2>2. k + 1 \in Nat
    OBVIOUS
  <2>3. shown' = NewestList(n - 1)'
    BY <1>4, <1>6, <1>21
  <2>4. QED
    BY <1>2, <1>3, <1>4, <1>6, <2>1, <2>2, <2>3 DEF OneSnapshot
<1>23. CASE k = z
  <2>1. w = 1 /\ w - 1 = 0 /\ v = Listed(s)
    BY <1>9, <1>11, <1>13, <1>23 DEF Listed
  <2>2. queue' \in Seq(Blocks)
    BY <1>18, <1>19
  <2>3. CASE v = <<>>
    <3>1. queue' = <<>>
      BY <1>20, <2>1, <2>2, <2>3
    <3>2. NewestList(n) = NewestList(n - 1)
      BY <1>2, <1>3, <1>5, <1>6, <2>1, <2>3, NewestDelivered
    <3>3. shown' = NewestList(n)'
      BY <1>4, <1>6, <1>21, <3>2
    <3>4. QED
      BY <1>2, <1>4, <3>1, <3>3 DEF OneSnapshot
  <2>4. CASE v # <<>>
    <3>1. queue' # <<>>
      BY <1>20, <2>1, <2>2, <2>4
    <3>2. \A x \in 1..Len(queue') : queue'[x].kind = "callback"
      <4>1. SUFFICES ASSUME NEW x \in 1..Len(queue') PROVE queue'[x].kind = "callback"
        OBVIOUS
      <4>2. x \in 1..(l - 1) => x + 1 \in (w + 1)..l
        BY <1>11, <2>1
      <4>3. QED
        BY <1>10, <1>20, <4>2
    <3>3. Drawing(s)'
      BY <1>16, <2>1, <2>4, <3>1, <3>2 DEF Drawing
    <3>4. shown' = NewestList(n - 1)'
      BY <1>4, <1>6, <1>21
    <3>5. QED
      BY <1>2, <1>3, <1>4, <1>6, <3>3, <3>4 DEF OneSnapshot
  <2>5. QED
    BY <2>3, <2>4
<1>24. QED
  BY <1>11, <1>22, <1>23

LEMMA ApartStep == ApartInv /\ [Next]_vars => ApartInv'
<1>1. SUFFICES ASSUME ApartInv, [Next]_vars PROVE ApartInv'
  OBVIOUS
<1>2. OwnInv'
  BY <1>1, OwnStep DEF ApartInv
<1>3. SUFFICES ASSUME apart' PROVE OneSnapshot'
  BY <1>2 DEF ApartInv
<1>4. CASE UNCHANGED vars
  <2>1. /\ queue' = queue /\ itemList' = itemList /\ shown' = shown
        /\ delivered' = delivered /\ apart' = apart
    BY <1>4 DEF vars
  <2>2. \A n : NewestList(n)' = NewestList(n)
    BY <2>1, SameNewest
  <2>3. /\ \A s, k : Listing(s, k)' <=> Listing(s, k)
        /\ \A s : Drawing(s)' <=> Drawing(s)
    BY <2>1 DEF Listing, Drawing
  <2>4. OneSnapshot
    BY <1>1, <1>3, <2>1 DEF ApartInv
  <2>5. QED
    BY <2>1, <2>2, <2>3, <2>4 DEF OneSnapshot
<1>5. QED
  BY <1>1, <1>2, <1>3, <1>4, ApartDeliver, ApartSnapshot, ApartError, ApartDocument,
     ApartCallback, ApartDraw DEF Next, MainQueue

(* While each snapshot finds the queue empty, the page only ever shows one list: the
   newest that has an item or, until that is drawn, the one before; an empty
   snapshot or an error takes nothing off the page. *)
THEOREM OneListAtATime == Spec => []OneListWhenApart
<1>1. ApartInv => OneListWhenApart
  <2>1. SUFFICES ASSUME ApartInv, apart
                 PROVE  \/ shown = NewestList(Len(delivered))
                        \/ queue # <<>> /\ shown = NewestList(Len(delivered) - 1)
    BY DEF OneListWhenApart
  <2>2. QED
    BY <2>1, OneListShown DEF ApartInv
<1>2. QED
  BY <1>1, ApartInit, ApartStep, PTL DEF Spec
=============================================================================
