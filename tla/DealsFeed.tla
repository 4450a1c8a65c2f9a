------------------------------ MODULE DealsFeed ------------------------------
(***************************************************************************)
(* The deals of a page of the iOS app: a Firestore snapshot listener        *)
(* (DataVM.getItems, HomeVM.getDeals), the view model's itemList, and the   *)
(* view controller that draws it (loadDeals).                               *)
(*                                                                          *)
(* Everything runs on the main queue, a FIFO of blocks.  Firestore puts a   *)
(* block there for every snapshot; that block empties itemList and puts one *)
(* block per document; each of those appends its item and puts a callback;  *)
(* the callback reads itemList as it is by then and puts the block that     *)
(* draws.  Nothing stops a second snapshot from arriving in between.        *)
(***************************************************************************)
EXTENDS Integers, Sequences, SequencesExt

CONSTANTS
    Page,        \* the page
    Docs,        \* the documents of the collection "deals"
    MaxDocs,     \* bound: documents in one snapshot
    MaxSnaps     \* bound: snapshots delivered to one listener

Types == {"liqour", "coffee", "travel", "events", "lifestyle"}

ASSUME FeedAssumption ==
    /\ Page \in {"home", "wine", "coffee", "travel", "events", "lifestyle"}
    /\ \A d \in Docs : d.type \in Types /\ d.complete \in BOOLEAN /\ d.timestamp \in Nat
    /\ MaxDocs \in Nat /\ MaxSnaps \in Nat

VARIABLES
    queue,       \* the main queue
    itemList,    \* the view model's itemList
    shown,       \* the view controller's itemList, which the collection view draws
    listening,   \* the snapshot listener is registered
    alert,       \* an error indicator was presented
    delivered,   \* history: the snapshots Firestore delivered
    apart        \* history: nothing was delivered while blocks were waiting

vars == <<queue, itemList, shown, listening, alert, delivered, apart>>

-----------------------------------------------------------------------------
(* What each page asks the database for. *)

HomeFeed      == [types |-> Types, limit |-> 4]
WineFeed      == [types |-> {"liqour"}, limit |-> 100]
CoffeeFeed    == [types |-> {"coffee"}, limit |-> 100]
TravelFeed    == [types |-> {"travel"}, limit |-> 100]
EventsFeed    == [types |-> {"events"}, limit |-> 100]
LifestyleFeed == [types |-> {"liqour"}, limit |-> 100]

Feed == [home |-> HomeFeed, wine |-> WineFeed, coffee |-> CoffeeFeed,
         travel |-> TravelFeed, events |-> EventsFeed, lifestyle |-> LifestyleFeed]

(* A result of the query: matching documents, the newest first, at most limit;
   which documents exist may change between two results. *)
Snapshots ==
    LET matching == {d \in Docs : d.type \in Feed[Page].types}
        most     == IF MaxDocs < Feed[Page].limit THEN MaxDocs ELSE Feed[Page].limit
    IN  {s \in UNION {[1..n -> matching] : n \in 0..most} :
            \A i, j \in DOMAIN s : i < j => s[i].timestamp > s[j].timestamp}

(* A document becomes an item when its seven fields are all strings. *)
Complete(d) == d.complete
Item(d)     == [id |-> d.id, type |-> d.type]

Block(kind, arg) == [kind |-> kind, arg |-> arg]

-----------------------------------------------------------------------------
Init ==
    /\ queue = <<>> /\ itemList = <<>> /\ shown = <<>>
    /\ listening = TRUE
    /\ alert = FALSE
    /\ delivered = <<>>
    /\ apart = TRUE

(* Firestore: a new result of the query, or an error, which ends the listener. *)
DeliverSnapshot ==
    /\ listening
    /\ Len(delivered) < MaxSnaps
    /\ apart' = (apart /\ queue = <<>>)
    /\ \E s \in Snapshots :
          /\ queue' = Append(queue, Block("snapshot", s))
          /\ delivered' = Append(delivered, s)
    /\ UNCHANGED <<itemList, shown, listening, alert>>

DeliverError ==
    /\ listening
    /\ apart' = (apart /\ queue = <<>>)
    /\ queue' = Append(queue, Block("error", <<>>))
    /\ listening' = FALSE
    /\ UNCHANGED <<itemList, shown, alert, delivered>>

Running(kind) == queue # <<>> /\ Head(queue).kind = kind

(* The list is left as it is. *)
HandleSnapshot_keepsList ==
    /\ Running("snapshot")
    /\ LET docs == Head(queue).arg
       IN  queue' = Tail(queue) \o [i \in DOMAIN docs |-> Block("document", docs[i])]
    /\ UNCHANGED <<itemList, shown, listening, alert, delivered, apart>>

(* The listener's block: itemList = [], then a block for every document. *)
HandleSnapshot ==
    /\ Running("snapshot")
    /\ itemList' = <<>>
    /\ LET docs == Head(queue).arg
       IN  queue' = Tail(queue) \o [i \in DOMAIN docs |-> Block("document", docs[i])]
    /\ UNCHANGED <<shown, listening, alert, delivered, apart>>

(* The listener's block for an error: the callback runs at once. *)
HandleError ==
    /\ Running("error")
    /\ itemList' = <<>>
    /\ alert' = TRUE
    /\ queue' = Tail(queue)
    /\ UNCHANGED <<shown, listening, delivered, apart>>

(* Newest first, but each item is put in front. *)
HandleDocument_prepends ==
    /\ Running("document")
    /\ LET d == Head(queue).arg
       IN  IF Complete(d)
             THEN /\ itemList' = <<Item(d)>> \o itemList
                  /\ queue' = Append(Tail(queue), Block("callback", <<>>))
             ELSE /\ queue' = Tail(queue)
                  /\ UNCHANGED itemList
    /\ UNCHANGED <<shown, listening, alert, delivered, apart>>

(* One callback, from the last document's block. *)
HandleDocument_lastNotifies ==
    /\ Running("document")
    /\ LET d    == Head(queue).arg
           last == \A i \in DOMAIN Tail(queue) : Tail(queue)[i].kind # "document"
       IN  /\ itemList' = IF Complete(d) THEN Append(itemList, Item(d)) ELSE itemList
           /\ queue' = IF Complete(d) /\ last
                         THEN Append(Tail(queue), Block("callback", <<>>))
                         ELSE Tail(queue)
    /\ UNCHANGED <<shown, listening, alert, delivered, apart>>

(* The callback runs in the document's own block. *)
HandleDocument_callsBack ==
    /\ Running("document")
    /\ LET d == Head(queue).arg
       IN  IF Complete(d)
             THEN /\ itemList' = Append(itemList, Item(d))
                  /\ queue' = Append(Tail(queue), Block("draw", itemList'))
             ELSE /\ queue' = Tail(queue)
                  /\ UNCHANGED itemList
    /\ UNCHANGED <<shown, listening, alert, delivered, apart>>

(* The document itself goes into the list, fields unchecked. *)
HandleDocument_unchecked ==
    /\ Running("document")
    /\ itemList' = Append(itemList, Head(queue).arg)
    /\ queue' = Append(Tail(queue), Block("callback", <<>>))
    /\ UNCHANGED <<shown, listening, alert, delivered, apart>>

(* A document's block. *)
HandleDocument ==
    /\ Running("document")
    /\ LET d == Head(queue).arg
       IN  IF Complete(d)
             THEN /\ itemList' = Append(itemList, Item(d))
                  /\ queue' = Append(Tail(queue), Block("callback", <<>>))
             ELSE /\ queue' = Tail(queue)
                  /\ UNCHANGED itemList
    /\ UNCHANGED <<shown, listening, alert, delivered, apart>>

(* dataCB: the controller takes itemList as it is now, and draws it later. *)
HandleCallback ==
    /\ Running("callback")
    /\ queue' = Append(Tail(queue), Block("draw", itemList))
    /\ UNCHANGED <<itemList, shown, listening, alert, delivered, apart>>

(* loadDeals: self.itemList = items, reloadData. *)
HandleDraw ==
    /\ Running("draw")
    /\ shown' = Head(queue).arg
    /\ queue' = Tail(queue)
    /\ UNCHANGED <<itemList, listening, alert, delivered, apart>>

MainQueue == HandleSnapshot \/ HandleError \/ HandleDocument \/ HandleCallback \/ HandleDraw

Next == DeliverSnapshot \/ DeliverError \/ MainQueue

(* The main queue runs its blocks; Firestore may deliver nothing. *)
Spec == Init /\ [][Next]_vars /\ WF_vars(MainQueue)

-----------------------------------------------------------------------------
Items == {Item(d) : d \in Docs}

(* The blocks the main queue holds, and what each closes over. *)
Blocks ==
         [kind : {"snapshot"}, arg : Snapshots]
    \cup [kind : {"document"}, arg : Docs]
    \cup [kind : {"error", "callback"}, arg : {<<>>}]
    \cup [kind : {"draw"}, arg : Seq(Items)]

(* The state is well typed, and only a draw block's argument lists items. *)
TypeOK ==
    /\ queue \in Seq(Blocks)
    /\ itemList \in Seq(Items)
    /\ shown \in Seq(Items)
    /\ listening \in BOOLEAN /\ alert \in BOOLEAN /\ apart \in BOOLEAN
    /\ delivered \in Seq(Snapshots)

(* The items of a snapshot's first documents: the complete ones, in its order. *)
ListedUpTo(s) ==
    LET upTo[n \in 0..Len(s)] ==
            IF n = 0 THEN <<>>
            ELSE IF Complete(s[n]) THEN Append(upTo[n - 1], Item(s[n]))
            ELSE upTo[n - 1]
    IN  upTo

Listed(s) == ListedUpTo(s)[Len(s)]

ListsDelivered == [i \in 1..Len(delivered) |-> Listed(delivered[i])]

(* The page as its reader sees it. *)
View == INSTANCE DealsView WITH
            Lists <- {Listed(s) : s \in Snapshots},
            lists <- ListsDelivered,
            page  <- shown

(* Whatever Firestore's timing does to the blocks, every redraw shows a run of
   whole snapshots: the second round through the main queue (the callback that
   getItems puts there from within a document's block) means that no callback
   falls between two documents of a snapshot. *)
ImplementsView == View!Spec

(* A page at rest shows a run of snapshots that ends with the newest: the newest
   alone, or, because the blocks of an earlier one ran after itemList = [] of a
   later one, the earlier ones in front of it.  After an error the run may be
   empty. *)
NewestAtRest ==
    queue = <<>> /\ delivered # <<>> =>
        \E i \in 1..(Len(delivered) + (IF alert THEN 1 ELSE 0)) :
            shown = View!Run(i, Len(delivered))

(* The newest list that has an item, among the first n delivered. *)
NewestList(n) ==
    LET full == {i \in 1..n : ListsDelivered[i] # <<>>}
    IN  IF full = {} THEN <<>> ELSE ListsDelivered[Max(full)]

(* While snapshots arrive apart, the page only ever shows one list, the newest
   that has an item or, until that is drawn, the one before; an error takes
   nothing off the page. *)
OneListWhenApart ==
    apart => \/ shown = NewestList(Len(delivered))
             \/ queue # <<>> /\ shown = NewestList(Len(delivered) - 1)

(* A snapshot with items is drawn, unless a later one or an error comes first. *)
SnapshotShown ==
    \A n \in 1..MaxSnaps :
        (Len(delivered) = n /\ Listed(Last(delivered)) # <<>>)
            ~> (\/ Len(delivered) # n \/ ~listening
                \/ IsSuffix(Listed(Last(delivered)), shown))

(* The page shows deals of the category it is named for: the rows of the menu
   are commented "Wine", "Coffee", "Travel", "Events", "Lifestyle" and open the
   page of that name. *)
Category == [home |-> Types, wine |-> {"liqour"}, coffee |-> {"coffee"},
             travel |-> {"travel"}, events |-> {"events"}, lifestyle |-> {"lifestyle"}]
OwnDeals == \A item \in ToSet(shown) : item.type \in Category[Page]
=============================================================================
