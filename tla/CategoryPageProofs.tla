-------------------------- MODULE CategoryPageProofs --------------------------
(* Proofs about CategoryPage, for every collection of deals, every set of
   answers and any number of fragments. *)
EXTENDS CategoryPage, TLAPS

Fragment == [page : Pages, life : {"current", "leaving", "gone"},
             asked : SUBSET {"slider", "deals"}, deals : Seq(Docs),
             context : BOOLEAN, visible : BOOLEAN, bound : Nat,
             sliders : Nat, pageCount : Nat, slides : Nat]

(* What holds of one fragment at any time. *)
Unanswered(f) == "deals" \in f.asked => f.deals = <<>>
Listed(f)     == /\ Descending(f.deals)
                 /\ \A k \in DOMAIN f.deals :
                      f.deals[k].type \in Category[f.page] /\ f.deals[k].strings
Slid(f)       == f.pageCount <= f.sliders
Contextual(f) == f.life # "gone" => f.context

Good(f) == Unanswered(f) /\ Listed(f) /\ Slid(f) /\ Contextual(f)

FragsInv ==
    /\ frags \in Seq(Fragment) /\ Len(frags) > 0
    /\ \A i \in DOMAIN frags : Good(frags[i])

CrashInv == crash \in [why : Causes, page : Pages] /\ CrashCauses

PageInv == FragsInv /\ CrashInv

(* A query's result is a list of documents of the page's category. *)
LEMMA AnswersListed ==
    ASSUME NEW p \in Pages, NEW s \in Answers(p)
    PROVE  /\ s \in Seq(Docs)
           /\ Descending(s)
           /\ \A k \in DOMAIN s : s[k].type \in Category[p]
<1> DEFINE matching == {d \in Docs : d.type \in Query[p].types}
           most     == IF MaxDocs < Query[p].limit THEN MaxDocs ELSE Query[p].limit
<1>1. s \in UNION {[1..n -> matching] : n \in 0..most} /\ Descending(s)
  BY DEF Answers
<1>2. PICK n \in 0..most : s \in [1..n -> matching]
  BY <1>1
<1>3. Query[p].types = Category[p] /\ Query[p].limit \in Nat
  <2>1. CASE p = "home"
    BY <2>1 DEF Query, Category, HomeQuery
  <2>2. CASE p = "liquor"
    BY <2>2 DEF Query, Category, LiquorQuery
  <2>3. CASE p = "coffee"
    BY <2>3 DEF Query, Category, CoffeeQuery
  <2>4. CASE p = "travel"
    BY <2>4 DEF Query, Category, TravelQuery
  <2>5. CASE p = "events"
    BY <2>5 DEF Query, Category, EventsQuery
  <2>6. CASE p = "lifestyle"
    BY <2>6 DEF Query, Category, LifestyleQuery
  <2> QED
    BY <2>1, <2>2, <2>3, <2>4, <2>5, <2>6 DEF Pages
<1>4. n \in Nat
  BY <1>3, PageAssumption
<1>5. matching \subseteq Docs
  OBVIOUS
<1>6. s \in Seq(Docs)
  BY <1>2, <1>4, <1>5
<1>7. \A k \in DOMAIN s : s[k].type \in Category[p]
  BY <1>2, <1>3
<1> QED
  BY <1>1, <1>6, <1>7

(* A fresh fragment. *)
LEMMA FreshGood ==
    ASSUME NEW p \in Pages
    PROVE  onCreateView(p) \in Fragment /\ Good(onCreateView(p))
  BY DEF onCreateView, Fragment, Good, Unanswered, Listed, Slid, Contextual, Descending

(* Replacing one fragment by a good one. *)
LEMMA PutGood ==
    ASSUME FragsInv, NEW i \in DOMAIN frags, NEW g \in Fragment, Good(g),
           frags' = [frags EXCEPT ![i] = g]
    PROVE  FragsInv'
<1>1. frags' \in Seq(Fragment) /\ Len(frags') > 0 /\ DOMAIN frags' = DOMAIN frags
  BY DEF FragsInv
<1>2. ASSUME NEW j \in DOMAIN frags' PROVE Good(frags'[j])
  <2>1. CASE j = i
    BY <2>1 DEF FragsInv
  <2>2. CASE j # i
    BY <1>1, <2>2 DEF FragsInv
  <2> QED
    BY <2>1, <2>2
<1> QED
  BY <1>1, <1>2 DEF FragsInv

(* Moving fragments on, never away from "gone". *)
LEMMA MovedGood ==
    ASSUME frags \in Seq(Fragment), \A i \in DOMAIN frags : Good(frags[i]),
           NEW l, \A i \in DOMAIN frags :
                     /\ l[i] \in {"current", "leaving", "gone"}
                     /\ frags[i].life = "gone" => l[i] = "gone",
           NEW s, s = [i \in DOMAIN frags |-> [frags[i] EXCEPT !.life = l[i]]]
    PROVE  /\ s \in Seq(Fragment) /\ Len(s) = Len(frags)
           /\ \A i \in DOMAIN s : Good(s[i])
<1>1. ASSUME NEW i \in DOMAIN frags
      PROVE  s[i] \in Fragment /\ Good(s[i])
  <2>1. frags[i] \in Fragment /\ Good(frags[i])
    OBVIOUS
  <2>2. s[i] = [frags[i] EXCEPT !.life = l[i]]
    OBVIOUS
  <2>3. s[i] \in Fragment
    BY <2>1, <2>2 DEF Fragment
  <2>4. /\ s[i].asked = frags[i].asked /\ s[i].deals = frags[i].deals
        /\ s[i].page = frags[i].page /\ s[i].pageCount = frags[i].pageCount
        /\ s[i].sliders = frags[i].sliders /\ s[i].context = frags[i].context
        /\ s[i].life = l[i]
    BY <2>1, <2>2 DEF Fragment
  <2>5. Good(s[i])
    BY <2>1, <2>4 DEF Good, Unanswered, Listed, Slid, Contextual
  <2> QED
    BY <2>3, <2>5
<1>2. s \in Seq(Fragment) /\ Len(s) = Len(frags)
  <2>1. DOMAIN frags = 1..Len(frags) /\ Len(frags) \in Nat
    OBVIOUS
  <2>2. s \in [1..Len(frags) -> Fragment]
    BY <1>1, <2>1
  <2> QED
    BY <2>1, <2>2
<1> QED
  BY <1>1, <1>2

(* A new fragment joins good ones. *)
LEMMA JoinGood ==
    ASSUME NEW s \in Seq(Fragment), \A i \in DOMAIN s : Good(s[i]), NEW p \in Pages
    PROVE  /\ Append(s, onCreateView(p)) \in Seq(Fragment)
           /\ Len(Append(s, onCreateView(p))) > 0
           /\ \A i \in DOMAIN Append(s, onCreateView(p)) : Good(Append(s, onCreateView(p))[i])
<1> DEFINE g == onCreateView(p)
<1>1. g \in Fragment /\ Good(g)
  BY FreshGood
<1> HIDE DEF g
<1>2. Append(s, g) \in Seq(Fragment) /\ Len(Append(s, g)) = Len(s) + 1
  BY <1>1
<1>3. ASSUME NEW i \in DOMAIN Append(s, g) PROVE Good(Append(s, g)[i])
  <2>1. CASE i = Len(s) + 1
    BY <1>1, <2>1
  <2>2. CASE i # Len(s) + 1
    BY <1>2, <2>2
  <2> QED
    BY <2>1, <2>2
<1> QED
  BY <1>2, <1>3 DEF g

-----------------------------------------------------------------------------
LEMMA InitInv == Init => PageInv
<1> SUFFICES ASSUME Init PROVE PageInv
  OBVIOUS
<1>1. onCreateView("home") \in Fragment /\ Good(onCreateView("home"))
  BY FreshGood DEF Pages
<1>2. frags \in Seq(Fragment) /\ Len(frags) > 0 /\ \A i \in DOMAIN frags : Good(frags[i])
  BY <1>1 DEF Init
<1>3. crash \in [why : Causes, page : Pages] /\ CrashCauses
  BY DEF Init, Because, Causes, Pages, CrashCauses
<1> QED
  BY <1>2, <1>3 DEF PageInv, FragsInv, CrashInv

(* A callback of any fragment, wherever the fragment is. *)
LEMMA CallbackInv ==
    ASSUME PageInv, NEW i \in DOMAIN frags, Callback(i)
    PROVE  PageInv'
<1> DEFINE f == frags[i]
<1>f. f \in Fragment /\ Good(f)
  BY DEF PageInv, FragsInv
<1>p. f.page \in Pages
  BY <1>f DEF Fragment
<1>1. CASE onSuccess(i)
  <2>1. PICK r \in Responses :
            frags' = [frags EXCEPT ![i] = [f EXCEPT !.asked = @ \ {"slider"},
                                                    !.sliders = @ + r.whole,
                                                    !.pageCount = f.sliders + r.whole,
                                                    !.slides = 0]]
    BY <1>1 DEF onSuccess, PageInv, FragsInv
  <2> DEFINE g == [f EXCEPT !.asked = @ \ {"slider"}, !.sliders = @ + r.whole,
                            !.pageCount = f.sliders + r.whole, !.slides = 0]
  <2>2. r.whole \in Nat
    BY PageAssumption
  <2>3. g \in Fragment
    <3>1. f.asked \ {"slider"} \in SUBSET {"slider", "deals"} /\ f.sliders + r.whole \in Nat
      BY <1>f, <2>2 DEF Fragment
    <3> QED
      BY <1>f, <3>1 DEF Fragment
  <2>4. Good(g)
    BY <1>f, <2>2 DEF Fragment, Good, Unanswered, Listed, Slid, Contextual
  <2>5. FragsInv'
    <3> HIDE DEF f, g
    <3> QED BY <2>1, <2>3, <2>4, PutGood DEF PageInv, f, g
  <2> QED
    BY <1>1, <2>5 DEF PageInv, CrashInv, CrashCauses, onSuccess
<1>2. CASE onFailure(i)
  <2> DEFINE g == [f EXCEPT !.asked = @ \ {"slider"}]
  <2>1. frags' = [frags EXCEPT ![i] = g]
    BY <1>2 DEF onFailure, PageInv, FragsInv
  <2>2. f.asked \ {"slider"} \in SUBSET {"slider", "deals"}
    BY <1>f DEF Fragment
  <2>3. g \in Fragment
    BY <1>f, <2>2 DEF Fragment
  <2>4. Good(g)
    BY <1>f DEF Fragment, Good, Unanswered, Listed, Slid, Contextual
  <2>5. FragsInv'
    <3> HIDE DEF f, g
    <3> QED
      BY <2>1, <2>3, <2>4, PutGood DEF PageInv
  <2> QED
    BY <1>2, <2>5 DEF PageInv, CrashInv, CrashCauses, onFailure
<1>d. "deals" \in f.asked => f.deals = <<>>
  BY <1>f DEF Good, Unanswered
<1>3. CASE /\ "deals" \in f.asked
           /\ \E docs \in ReadableAnswers(f.page) : frags' = [frags EXCEPT ![i] = WithDeals(f, docs)]
           /\ UNCHANGED crash
  <2>1. PICK docs \in Answers(f.page) :
            /\ frags' = [frags EXCEPT ![i] = WithDeals(f, docs)]
            /\ \A k \in DOMAIN docs : docs[k].strings
    BY <1>3 DEF ReadableAnswers
  <2> DEFINE g == WithDeals(f, docs)
  <2>2. /\ docs \in Seq(Docs) /\ Descending(docs)
        /\ \A k \in DOMAIN docs : docs[k].type \in Category[f.page] /\ docs[k].strings
    BY <1>p, <2>1, AnswersListed
  <2>3. f.deals = <<>>
    BY <1>3, <1>d
  <2>4. <<>> \o docs = docs
    BY <2>2
  <2>5. g = [f EXCEPT !.asked = @ \ {"deals"}, !.deals = docs,
                      !.context = (f.life # "gone"), !.visible = TRUE, !.bound = 0]
    BY <2>3, <2>4 DEF WithDeals
  <2>6. f.asked \ {"deals"} \in SUBSET {"slider", "deals"} /\ (f.life # "gone") \in BOOLEAN
    BY <1>f DEF Fragment
  <2>7. g \in Fragment
    <3> DEFINE a == f.asked \ {"deals"}
               c == f.life # "gone"
    <3>1. a \in SUBSET {"slider", "deals"} /\ c \in BOOLEAN
      BY <2>6
    <3>2. g = [f EXCEPT !.asked = a, !.deals = docs, !.context = c, !.visible = TRUE, !.bound = 0]
      BY <2>5
    <3> HIDE DEF a, c, f, g
    <3> QED
      BY <1>f, <2>2, <3>1, <3>2 DEF Fragment
  <2>8. /\ g.asked = f.asked \ {"deals"} /\ g.deals = docs /\ g.page = f.page
        /\ g.pageCount = f.pageCount /\ g.sliders = f.sliders
        /\ g.context = (f.life # "gone") /\ g.life = f.life
    BY <1>f, <2>5 DEF Fragment
  <2>9. Good(g)
    <3> HIDE DEF f, g
    <3> QED
      BY <1>f, <2>2, <2>8 DEF Good, Unanswered, Listed, Slid, Contextual
  <2>10. FragsInv'
    <3> HIDE DEF f, g
    <3> QED
      BY <2>1, <2>7, <2>9, PutGood DEF PageInv, g
  <2> QED
    BY <1>3, <2>10 DEF PageInv, CrashInv, CrashCauses
<1>7. CASE "deals" \in f.asked /\ getStringThrows(i)
  <2>1. PICK docs \in Answers(f.page) : \E k \in DOMAIN docs :
            /\ ~docs[k].strings
            /\ \A j \in 1..(k - 1) : docs[j].strings
            /\ frags' = [frags EXCEPT ![i] = [f EXCEPT !.asked = @ \ {"deals"},
                                                      !.deals = @ \o SubSeq(docs, 1, k - 1)]]
            /\ crash' = Because("malformed deal", f.page)
    BY <1>7 DEF getStringThrows, PageInv, FragsInv
  <2>2. /\ docs \in Seq(Docs) /\ Descending(docs)
        /\ \A k \in DOMAIN docs : docs[k].type \in Category[f.page]
    BY <1>p, AnswersListed
  <2>3. PICK k \in DOMAIN docs :
            /\ ~docs[k].strings
            /\ \A j \in 1..(k - 1) : docs[j].strings
            /\ frags' = [frags EXCEPT ![i] = [f EXCEPT !.asked = @ \ {"deals"},
                                                      !.deals = @ \o SubSeq(docs, 1, k - 1)]]
            /\ crash' = Because("malformed deal", f.page)
    BY <2>1
  <2>4. PICK pre : pre = SubSeq(docs, 1, k - 1)
    OBVIOUS
  <2>5. /\ pre \in Seq(Docs) /\ <<>> \o pre = pre
        /\ \A j \in DOMAIN pre : j \in DOMAIN docs /\ pre[j] = docs[j] /\ j \in 1..(k - 1)
    <3>1. k \in 1..Len(docs) /\ Len(docs) \in Nat /\ docs \in Seq(Docs)
      BY <2>2
    <3>2. k - 1 \in Nat /\ k - 1 <= Len(docs)
      BY <3>1
    <3>3. /\ pre \in Seq(Docs) /\ Len(pre) = k - 1
          /\ \A j \in 1..(k - 1) : pre[j] = docs[j]
      BY <2>4, <3>1, <3>2
    <3> QED
      BY <3>1, <3>2, <3>3
  <2>6. Listed([f EXCEPT !.deals = pre])
    <3>1. Descending(pre)
      BY <2>2, <2>5 DEF Descending
    <3>2. \A j \in DOMAIN pre : pre[j].type \in Category[f.page] /\ pre[j].strings
      BY <2>2, <2>3, <2>5
    <3> QED
      BY <1>f, <3>1, <3>2 DEF Listed, Fragment
  <2> DEFINE a == f.asked \ {"deals"}
             g == [f EXCEPT !.asked = a, !.deals = pre]
  <2>7. frags' = [frags EXCEPT ![i] = g]
    BY <1>7, <1>d, <2>3, <2>4, <2>5
  <2>8. a \in SUBSET {"slider", "deals"} /\ "deals" \notin a
    BY <1>f DEF Fragment
  <2>9. g \in Fragment
    <3> HIDE DEF a, f
    <3> QED
      BY <1>f, <2>5, <2>8 DEF Fragment
  <2>10. /\ g.asked = a /\ g.deals = pre /\ g.page = f.page
         /\ g.pageCount = f.pageCount /\ g.sliders = f.sliders
         /\ g.context = f.context /\ g.life = f.life
    BY <1>f DEF Fragment
  <2>11. Good(g)
    <3>1. Listed(g)
      BY <1>f, <2>6, <2>10 DEF Listed, Fragment
    <3> HIDE DEF f, g, a
    <3> QED
      BY <1>f, <2>8, <2>10, <3>1 DEF Good, Unanswered, Slid, Contextual
  <2>12. FragsInv'
    <3> HIDE DEF f, g
    <3> QED
      BY <2>7, <2>9, <2>11, PutGood DEF PageInv
  <2>13. CrashInv'
    <3>1. docs[k] \in Docs /\ ~docs[k].strings /\ docs[k].type \in Category[f.page]
      <4>1. docs[k] \in Docs
        BY <2>2
      <4>2. ~docs[k].strings
        BY <2>3
      <4>3. docs[k].type \in Category[f.page]
        BY <2>2
      <4> QED
        BY <4>1, <4>2, <4>3
    <3>2. crash' = [why |-> "malformed deal", page |-> f.page]
      BY <2>3 DEF Because
    <3>3. crash' \in [why : Causes, page : Pages]
      BY <1>p, <3>2 DEF Causes
    <3>4. crash'.why = "malformed deal" /\ crash'.page = f.page
      BY <3>2
    <3> HIDE DEF f
    <3> QED
      BY <3>1, <3>3, <3>4 DEF CrashInv, CrashCauses
  <2> QED
    BY <2>12, <2>13 DEF PageInv
<1>4. CASE onCompleteFailed(i)
  <2> DEFINE g == [f EXCEPT !.asked = @ \ {"deals"}]
  <2>1. frags' = [frags EXCEPT ![i] = g]
    BY <1>4 DEF onCompleteFailed, PageInv, FragsInv
  <2>2. f.asked \ {"deals"} \in SUBSET {"slider", "deals"}
    BY <1>f DEF Fragment
  <2>3. g \in Fragment
    BY <1>f, <2>2 DEF Fragment
  <2>4. Good(g)
    BY <1>f DEF Fragment, Good, Unanswered, Listed, Slid, Contextual
  <2>5. FragsInv'
    <3> HIDE DEF f, g
    <3> QED
      BY <2>1, <2>3, <2>4, PutGood DEF PageInv
  <2>6. CrashInv'
    BY <1>4, <1>p DEF onCompleteFailed, CrashInv, CrashCauses, Because, Causes
  <2> QED
    BY <2>5, <2>6 DEF PageInv
<1>5. CASE onBindViewHolder(i)
  <2> DEFINE g == [f EXCEPT !.bound = @ + 1]
  <2>1. frags' = [frags EXCEPT ![i] = g]
    BY <1>5 DEF onBindViewHolder, PageInv, FragsInv
  <2>2. g \in Fragment /\ Good(g)
    BY <1>f DEF Fragment, Good, Unanswered, Listed, Slid, Contextual
  <2>3. FragsInv'
    <3> HIDE DEF f, g
    <3> QED
      BY <2>1, <2>2, PutGood DEF PageInv
  <2>4. f.context
    BY <1>5, <1>f DEF onBindViewHolder, Good, Contextual
  <2>5. f.bound + 1 \in DOMAIN f.deals
    <3>1. f.bound < Len(f.deals)
      BY <1>5 DEF onBindViewHolder
    <3>2. f.bound \in Nat /\ f.deals \in Seq(Docs)
      BY <1>f DEF Fragment
    <3> QED
      BY <3>1, <3>2
  <2>6. f.deals[f.bound + 1].type = NoType => f.page = "home"
    <3>1. f.deals[f.bound + 1].type \in Category[f.page]
      BY <1>f, <2>5 DEF Good, Listed
    <3>2. \A p \in Pages : NoType \in Category[p] => p = "home"
      BY DEF Pages, Category, NoType
    <3> QED
      BY <1>p, <3>1, <3>2
  <2>7. \/ crash' = crash
        \/ /\ crash' = Because("untyped deal", "home")
           /\ f.deals[f.bound + 1].type = NoType
    BY <1>5, <2>4, <2>6 DEF onBindViewHolder
  <2>9. f.deals[f.bound + 1] \in Docs /\ f.deals[f.bound + 1].strings
    <3>1. f.deals \in Seq(Docs)
      BY <1>f DEF Fragment
    <3> QED
      BY <1>f, <2>5, <3>1 DEF Good, Listed
  <2>8. CrashInv'
    <3>1. CASE crash' = crash
      BY <3>1 DEF PageInv, CrashInv, CrashCauses
    <3>2. CASE /\ crash' = Because("untyped deal", "home")
               /\ f.deals[f.bound + 1].type = NoType
      <4>1. crash' \in [why : Causes, page : Pages]
        BY <3>2 DEF Because, Causes, Pages
      <4> QED
        BY <2>9, <3>2, <4>1 DEF CrashInv, CrashCauses, Because
    <3> QED
      BY <2>7, <3>1, <3>2
  <2> QED
    BY <2>3, <2>8 DEF PageInv
<1>6. CASE setViewForPosition(i)
  <2> DEFINE g == [f EXCEPT !.slides = @ + 1]
  <2>1. frags' = [frags EXCEPT ![i] = g]
    BY <1>6 DEF setViewForPosition, PageInv, FragsInv
  <2>2. g \in Fragment /\ Good(g)
    BY <1>f DEF Fragment, Good, Unanswered, Listed, Slid, Contextual
  <2>3. FragsInv'
    <3> HIDE DEF f, g
    <3> QED
      BY <2>1, <2>2, PutGood DEF PageInv
  <2>4. crash' = crash
    <3>1. f.slides < f.pageCount /\ f.pageCount <= f.sliders
      BY <1>6, <1>f DEF setViewForPosition, Good, Slid
    <3>2. f.slides \in Nat /\ f.pageCount \in Nat /\ f.sliders \in Nat
      BY <1>f DEF Fragment
    <3>3. f.slides < f.sliders
      BY <3>1, <3>2
    <3> QED
      BY <1>6, <3>3 DEF setViewForPosition
  <2> QED
    BY <2>3, <2>4 DEF PageInv, CrashInv, CrashCauses
<1> QED
  BY <1>1, <1>2, <1>3, <1>4, <1>5, <1>6, <1>7 DEF Callback, DealsAnswered, onComplete

(* The fragments move on, and perhaps a new one joins them. *)
LEMMA NavigationInv ==
    ASSUME PageInv, (\E p \in Pages : Open(p)) \/ FadeEnds \/ Relaunch
    PROVE  PageInv'
<1>1. frags \in Seq(Fragment) /\ Len(frags) > 0 /\ \A i \in DOMAIN frags : Good(frags[i])
  BY DEF PageInv, FragsInv
<1>2. \A i \in DOMAIN frags :
          frags[i].life \in {"current", "leaving", "gone"} /\ frags[i].page \in Pages
  <2> SUFFICES ASSUME NEW i \in DOMAIN frags
               PROVE  frags[i].life \in {"current", "leaving", "gone"} /\ frags[i].page \in Pages
    OBVIOUS
  <2>1. frags[i] \in Fragment
    BY <1>1
  <2> QED
    BY <2>1 DEF Fragment
<1>3. CrashInv'
  BY DEF PageInv, CrashInv, CrashCauses, Open, FadeEnds, Relaunch
<1>4. ASSUME NEW p \in Pages, Open(p) PROVE FragsInv'
  <2> DEFINE s == Become("current", "leaving")
             l == [i \in DOMAIN frags |->
                      IF frags[i].life = "current" THEN "leaving" ELSE frags[i].life]
  <2>1. s = [i \in DOMAIN frags |-> [frags[i] EXCEPT !.life = l[i]]]
    BY DEF Become
  <2>2. \A i \in DOMAIN frags : /\ l[i] \in {"current", "leaving", "gone"}
                                /\ frags[i].life = "gone" => l[i] = "gone"
    BY <1>2
  <2>3. s \in Seq(Fragment) /\ \A i \in DOMAIN s : Good(s[i])
    <3> HIDE DEF s, l
    <3> QED
      BY <1>1, <2>1, <2>2, MovedGood
  <2>4. frags' = Append(s, onCreateView(p))
    BY <1>4 DEF Open
  <2> HIDE DEF s
  <2> QED
    BY <2>3, <2>4, JoinGood DEF FragsInv
<1>5. ASSUME FadeEnds PROVE FragsInv'
  <2> DEFINE s == Become("leaving", "gone")
             l == [i \in DOMAIN frags |->
                      IF frags[i].life = "leaving" THEN "gone" ELSE frags[i].life]
  <2>1. s = [i \in DOMAIN frags |-> [frags[i] EXCEPT !.life = l[i]]]
    BY DEF Become
  <2>2. \A i \in DOMAIN frags : /\ l[i] \in {"current", "leaving", "gone"}
                                /\ frags[i].life = "gone" => l[i] = "gone"
    BY <1>2
  <2>3. s \in Seq(Fragment) /\ Len(s) = Len(frags) /\ \A i \in DOMAIN s : Good(s[i])
    <3> HIDE DEF s, l
    <3> QED
      BY <1>1, <2>1, <2>2, MovedGood
  <2>4. frags' = s
    BY <1>5 DEF FadeEnds
  <2> HIDE DEF s
  <2> QED
    BY <1>1, <2>3, <2>4 DEF FragsInv
<1>6. ASSUME Relaunch PROVE FragsInv'
  <2> DEFINE l == [i \in DOMAIN frags |-> "gone"]
             s == [i \in DOMAIN frags |-> [frags[i] EXCEPT !.life = l[i]]]
             p == frags[Len(frags)].page
  <2>1. p \in Pages
    <3>1. Len(frags) \in DOMAIN frags
      BY <1>1
    <3> QED
      BY <1>2, <3>1
  <2>2. s = [i \in DOMAIN frags |-> [frags[i] EXCEPT !.life = "gone"]]
    OBVIOUS
  <2>3. \A i \in DOMAIN frags : l[i] = "gone"
    OBVIOUS
  <2>4. s \in Seq(Fragment) /\ \A i \in DOMAIN s : Good(s[i])
    <3> HIDE DEF l
    <3> QED
      BY <1>1, <2>3, MovedGood
  <2>5. frags' = Append(s, onCreateView(p))
    BY <1>6, <2>2 DEF Relaunch
  <2> HIDE DEF s, p
  <2> QED
    BY <2>1, <2>4, <2>5, JoinGood DEF FragsInv
<1> QED
  BY <1>3, <1>4, <1>5, <1>6 DEF PageInv

LEMMA NextInv == PageInv /\ [Next]_vars => PageInv'
<1> SUFFICES ASSUME PageInv, [Next]_vars PROVE PageInv'
  OBVIOUS
<1>1. ASSUME NEW p \in Pages, FragmentOf(p) PROVE PageInv'
  <2>1. CASE Open(p)
    BY <2>1, NavigationInv
  <2>2. CASE CallbackOf(p)
    BY <2>2, CallbackInv DEF CallbackOf
  <2> QED
    BY <1>1, <2>1, <2>2 DEF FragmentOf
<1>2. CASE HomeFragment \/ LiquorFragment \/ CoffeeFragment
           \/ TravelFragment \/ EventsFragment \/ LifestyleFragment
  BY <1>1, <1>2 DEF HomeFragment, LiquorFragment, CoffeeFragment, TravelFragment,
                    EventsFragment, LifestyleFragment, Pages
<1>3. CASE FadeEnds \/ Relaunch
  BY <1>3, NavigationInv
<1>4. CASE UNCHANGED vars
  BY <1>4 DEF vars, PageInv, FragsInv, CrashInv, CrashCauses
<1> QED
  BY <1>2, <1>3, <1>4 DEF Next

LEMMA Invariance == Spec => []PageInv
  BY InitInv, NextInv, PTL DEF Spec

(* Type correctness: whatever is answered, and however late. *)
THEOREM TypeCorrect == Spec => []TypeOK
<1>1. PageInv => TypeOK
  BY DEF PageInv, FragsInv, CrashInv, TypeOK, Fragment
<1> QED
  BY <1>1, Invariance, PTL

(* Every page lists deals of its own category, for any collection. *)
THEOREM PagesKeepCategory == Spec => []OwnCategory
<1>1. PageInv => OwnCategory
  BY DEF PageInv, FragsInv, Good, Listed, OwnCategory
<1> QED
  BY <1>1, Invariance, PTL

(* Every page lists its deals newest first and once, because a list is empty
   until the one answer that fills it. *)
THEOREM ListsStayOrdered == Spec => []NewestFirst
<1>1. PageInv => NewestFirst
  BY DEF PageInv, FragsInv, Good, Listed, NewestFirst
<1> QED
  BY <1>1, Invariance, PTL

(* The carousel stays within its list, however many entries are broken. *)
THEOREM CarouselInBounds == Spec => []SlidesInBounds
<1>1. PageInv => SlidesInBounds
  BY DEF PageInv, FragsInv, Good, Slid, SlidesInBounds
<1> QED
  BY <1>1, Invariance, PTL

(* The lateness of an answer never ends the application, for any number of
   fragments: an adapter made without a context belongs to a fragment that is never
   drawn again.  What ends it is a failed query, a malformed deal of the page's own
   category or, on home, a deal without a type. *)
THEOREM LateAnswersHarmless == Spec => []CrashCauses
<1>1. PageInv => CrashCauses
  BY DEF PageInv, CrashInv
<1> QED
  BY <1>1, Invariance, PTL
=============================================================================
