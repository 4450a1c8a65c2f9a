----------------------------- MODULE CategoryPage -----------------------------
(***************************************************************************)
(* The content of a page of the Android app: the deals and the slider of    *)
(* HomeFragment, CoffeeFragment, EventsFragment, LifestyleFragment,         *)
(* LiquorFragment and TravelFragment, and ItemsAdapter, which draws deals.  *)
(*                                                                          *)
(* A fragment asks for both when its view is created.  The answers come     *)
(* later, in either order, and are handled whatever became of the fragment: *)
(* neither request is cancelled, and getContext() of a fragment that is     *)
(* gone is null.  Rows and slides are made later still, by layout.          *)
(***************************************************************************)
EXTENDS Integers, Sequences

CONSTANTS
    Docs,          \* the documents of the collection "deals"
    Responses,     \* the answers of the slider's server
    MaxDocs,       \* bound: documents in one answer
    MaxFragments   \* bound: fragments created

NoType == "none"
Types  == {"liqour", "coffee", "travel", "events", "lifestyle"}
Pages  == {"home", "liquor", "coffee", "travel", "events", "lifestyle"}

(* An answer of the slider's server is an array; an entry is whole when it has
   the strings id, image and name, and broken otherwise.  The field strings of a
   document says that what it has of its seven fields are strings; its type is
   NoType when it has none, or one that is no string. *)
ASSUME PageAssumption ==
    /\ \A d \in Docs : /\ d.type \in Types \cup {NoType} /\ d.timestamp \in Nat
                       /\ d.strings \in BOOLEAN
    /\ \A r \in Responses : r.whole \in Nat /\ r.broken \in Nat
    /\ MaxDocs \in Nat /\ MaxFragments \in Nat

VARIABLES
    frags,     \* the fragments created so far, the newest last
    crash      \* what ended the application, and on which page

vars == <<frags, crash>>

Because(why, page) == [why |-> why, page |-> page]
Running == crash.why = "nothing"

-----------------------------------------------------------------------------
(* What each page asks Firestore for. *)

(* A copied query. *)
EventsQuery_copied == [types |-> {"coffee"}, limit |-> 100]

HomeQuery      == [types |-> Types \cup {NoType}, limit |-> 4]
LiquorQuery    == [types |-> {"liqour"}, limit |-> 100]
CoffeeQuery    == [types |-> {"coffee"}, limit |-> 100]
TravelQuery    == [types |-> {"travel"}, limit |-> 100]
EventsQuery    == [types |-> {"events"}, limit |-> 100]
LifestyleQuery == [types |-> {"lifestyle"}, limit |-> 100]

Query == [home |-> HomeQuery, liquor |-> LiquorQuery, coffee |-> CoffeeQuery,
          travel |-> TravelQuery, events |-> EventsQuery, lifestyle |-> LifestyleQuery]

Descending(s) == \A i, j \in DOMAIN s : i < j => s[i].timestamp > s[j].timestamp

(* A result of the page's query: matching documents, the newest first. *)
Answers(p) ==
    LET matching == {d \in Docs : d.type \in Query[p].types}
        most     == IF MaxDocs < Query[p].limit THEN MaxDocs ELSE Query[p].limit
    IN  {s \in UNION {[1..n -> matching] : n \in 0..most} : Descending(s)}

ReadableAnswers(p) == {s \in Answers(p) : \A k \in DOMAIN s : s[k].strings}

-----------------------------------------------------------------------------
(* A new fragment: empty lists, the recycler view hidden behind the shimmer, and
   both requests under way.  life is where the fragment is (gone: detached, its
   getContext() is null), context whether the adapter was given a context,
   bound and slides how many rows and slides were made. *)
onCreateView(p) ==
    [page |-> p, life |-> "current", asked |-> {"slider", "deals"},
     deals |-> <<>>, context |-> TRUE, visible |-> FALSE, bound |-> 0,
     sliders |-> 0, pageCount |-> 0, slides |-> 0]

Init ==
    /\ frags = <<onCreateView("home")>>
    /\ crash = Because("nothing", "home")

Become(old, new) == [i \in DOMAIN frags |->
    [frags[i] EXCEPT !.life = IF @ = old THEN new ELSE @]]

(* The navigation replaces the fragment; the old one fades out. *)
Open(p) ==
    /\ Running
    /\ Len(frags) < MaxFragments
    /\ frags' = Append(Become("current", "leaving"), onCreateView(p))
    /\ UNCHANGED crash

(* The fade is over: onDestroyView, onDetach. *)
FadeEnds ==
    /\ Running
    /\ \E i \in DOMAIN frags : frags[i].life = "leaving"
    /\ frags' = Become("leaving", "gone")
    /\ UNCHANGED crash

(* A rotation: every fragment is gone at once, and the activity's next instance
   restores the current one as a new object of its class. *)
Relaunch ==
    /\ Running
    /\ Len(frags) < MaxFragments
    /\ frags' = Append([i \in DOMAIN frags |-> [frags[i] EXCEPT !.life = "gone"]],
                       onCreateView(frags[Len(frags)].page))
    /\ UNCHANGED crash

-----------------------------------------------------------------------------
(* One page per entry of the array. *)
onSuccess_length(i) ==
    /\ "slider" \in frags[i].asked
    /\ \E r \in Responses :
          frags' = [frags EXCEPT ![i].asked = @ \ {"slider"},
                                 ![i].sliders = @ + r.whole,
                                 ![i].pageCount = r.whole + r.broken,
                                 ![i].slides = 0]
    /\ UNCHANGED crash

(* The slider's answer with status 200: a broken entry throws before it is added
   and is passed over; setPageCount gives the carousel a new adapter. *)
onSuccess(i) ==
    /\ "slider" \in frags[i].asked
    /\ \E r \in Responses :
          frags' = [frags EXCEPT ![i].asked = @ \ {"slider"},
                                 ![i].sliders = @ + r.whole,
                                 ![i].pageCount = frags[i].sliders + r.whole,
                                 ![i].slides = 0]
    /\ UNCHANGED crash

(* Another status, an answer that is no array, or none at all. *)
onFailure(i) ==
    /\ "slider" \in frags[i].asked
    /\ frags' = [frags EXCEPT ![i].asked = @ \ {"slider"}]
    /\ UNCHANGED crash

(* The adapter for these deals, made with getContext() and given to the view. *)
WithDeals(f, docs) ==
    [f EXCEPT !.asked = @ \ {"deals"}, !.deals = @ \o docs,
              !.context = (f.life # "gone"), !.visible = TRUE, !.bound = 0]

(* doc.getString throws for a field that is there and is no string: the loop ends
   with the documents before it added, and the application with it. *)
getStringThrows(i) ==
    \E docs \in Answers(frags[i].page) : \E k \in DOMAIN docs :
        /\ ~docs[k].strings
        /\ \A j \in 1..(k - 1) : docs[j].strings
        /\ frags' = [frags EXCEPT ![i].asked = @ \ {"deals"},
                                  ![i].deals = @ \o SubSeq(docs, 1, k - 1)]
        /\ crash' = Because("malformed deal", frags[i].page)

(* A listener in place of a single get(). *)
onComplete_listens(i) ==
    /\ "deals" \in frags[i].asked
    /\ \/ /\ \E docs \in ReadableAnswers(frags[i].page) :
                frags' = [frags EXCEPT ![i] =
                            [WithDeals(frags[i], docs) EXCEPT !.asked = frags[i].asked]]
          /\ UNCHANGED crash
       \/ getStringThrows(i)

(* The shimmer goes only when there is something to show. *)
onComplete_waits(i) ==
    /\ "deals" \in frags[i].asked
    /\ \/ /\ \E docs \in ReadableAnswers(frags[i].page) :
                frags' = [frags EXCEPT ![i] =
                            [WithDeals(frags[i], docs) EXCEPT !.visible = (docs # <<>>)]]
          /\ UNCHANGED crash
       \/ getStringThrows(i)

(* A word to the user, through getContext(). *)
onComplete_toasts(i) ==
    /\ "deals" \in frags[i].asked
    /\ \/ /\ \E docs \in ReadableAnswers(frags[i].page) :
                frags' = [frags EXCEPT ![i] = WithDeals(frags[i], docs)]
          /\ crash' = IF frags[i].life = "gone" THEN Because("no context", frags[i].page)
                      ELSE crash
       \/ getStringThrows(i)

(* The deals' answer. *)
onComplete(i) ==
    /\ "deals" \in frags[i].asked
    /\ \/ /\ \E docs \in ReadableAnswers(frags[i].page) :
                frags' = [frags EXCEPT ![i] = WithDeals(frags[i], docs)]
          /\ UNCHANGED crash
       \/ getStringThrows(i)

(* The query failed.  The same onComplete runs first, it was added first, and
   task.getResult() throws: the listener that would report the failure, queued
   behind it, never runs. *)
onCompleteFailed(i) ==
    /\ "deals" \in frags[i].asked
    /\ crash' = Because("failed query", frags[i].page)
    /\ frags' = [frags EXCEPT ![i].asked = @ \ {"deals"}]

(* Layout makes the next row of a view that is on screen: the row is inflated
   with the adapter's context, and its deal's type is put in capitals. *)
onBindViewHolder(i) ==
    LET f == frags[i] IN
    /\ f.life # "gone" /\ f.visible /\ f.bound < Len(f.deals)
    /\ frags' = [frags EXCEPT ![i].bound = @ + 1]
    /\ crash' = CASE ~f.context                          -> Because("no context", f.page)
                  [] f.context /\ f.deals[f.bound + 1].type = NoType -> Because("untyped deal", f.page)
                  [] OTHER                               -> crash

(* The carousel makes its next slide: sliders.get(position). *)
setViewForPosition(i) ==
    LET f == frags[i] IN
    /\ f.life # "gone" /\ f.slides < f.pageCount
    /\ frags' = [frags EXCEPT ![i].slides = @ + 1]
    /\ crash' = IF f.slides < f.sliders THEN crash ELSE Because("bad position", f.page)

-----------------------------------------------------------------------------
DealsAnswered(i) == onComplete(i) \/ onCompleteFailed(i)

Callback(i) ==
    \/ onSuccess(i) \/ onFailure(i) \/ DealsAnswered(i)
    \/ onBindViewHolder(i) \/ setViewForPosition(i)

(* One class: a new object of it, and the callbacks of those there are. *)
CallbackOf(p) == Running /\ \E i \in DOMAIN frags : frags[i].page = p /\ Callback(i)
FragmentOf(p) == Open(p) \/ CallbackOf(p)

HomeFragment      == FragmentOf("home")
LiquorFragment    == FragmentOf("liquor")
CoffeeFragment    == FragmentOf("coffee")
TravelFragment    == FragmentOf("travel")
EventsFragment    == FragmentOf("events")
LifestyleFragment == FragmentOf("lifestyle")

Next ==
    \/ HomeFragment \/ LiquorFragment \/ CoffeeFragment
    \/ TravelFragment \/ EventsFragment \/ LifestyleFragment
    \/ FadeEnds
    \/ Relaunch

(* A Firestore task completes, one way or the other. *)
Answered(i) == Running /\ i \in DOMAIN frags /\ DealsAnswered(i)

Spec == Init /\ [][Next]_vars /\ \A i \in 1..MaxFragments : WF_vars(Answered(i))

-----------------------------------------------------------------------------
Causes == {"nothing", "failed query", "malformed deal", "untyped deal", "no context",
           "bad position"}

(* The fragments' fields are well typed. *)
TypeOK ==
    /\ frags \in Seq([page : Pages, life : {"current", "leaving", "gone"},
                      asked : SUBSET {"slider", "deals"}, deals : Seq(Docs),
                      context : BOOLEAN, visible : BOOLEAN, bound : Nat,
                      sliders : Nat, pageCount : Nat, slides : Nat])
    /\ crash \in [why : Causes, page : Pages]

(* Every page has the deals of its own category, also a page whose answer comes
   after another was opened. *)
Category == [home |-> Types \cup {NoType}, liquor |-> {"liqour"}, coffee |-> {"coffee"},
             travel |-> {"travel"}, events |-> {"events"}, lifestyle |-> {"lifestyle"}]
OwnCategory ==
    \A i \in DOMAIN frags : \A k \in DOMAIN frags[i].deals :
        frags[i].deals[k].type \in Category[frags[i].page]

(* A page lists each deal once, the newest first, over all late answers and
   re-creations: no answer is added to a list that has one already. *)
NewestFirst == \A i \in DOMAIN frags : Descending(frags[i].deals)

(* The carousel never asks for a slide that is not in the list, whichever entries
   of the answer were passed over. *)
SlidesInBounds == \A i \in DOMAIN frags : frags[i].pageCount <= frags[i].sliders

(* The lateness of an answer does no harm: the application ends in a callback only
   because a query failed; or because a deal of the page's own category has a field
   that is no string, which doc.getString of onComplete does not forgive; or
   because home, whose query has no filter on the type, drew a deal that has none.
   No adapter without a context is ever drawn, no slide is out of range, and no
   page falls for a malformed deal of another. *)
CrashCauses ==
    \/ crash.why \in {"nothing", "failed query"}
    \/ /\ crash.why = "malformed deal"
       /\ \E d \in Docs : ~d.strings /\ d.type \in Category[crash.page]
    \/ /\ crash = Because("untyped deal", "home")
       /\ \E d \in Docs : d.strings /\ d.type = NoType

(* The shimmer of a page ends, unless the page is left or the application ends. *)
ShimmerEnds ==
    \A i \in 1..MaxFragments :
        (i \in DOMAIN frags)
            ~> (~Running \/ (i \in DOMAIN frags /\ (frags[i].visible \/ frags[i].life # "current")))
=============================================================================
