-------------------------- MODULE NavDrawerProofs --------------------------
(***************************************************************************)
(* Theorems about the Android navigation (NavDrawer), for every set of     *)
(* items, every bound on buffered taps and every kind of interruption the  *)
(* theorem does not exclude.                                               *)
(***************************************************************************)
EXTENDS NavDrawer, TLAPS

-----------------------------------------------------------------------------
(* What posting and handling a message do to the queue.                    *)

\* The main queue after Handler.post holds what it held, and the new message.
LEMMA HasMsgAppend ==
  ASSUME NEW q \in Seq(Message), NEW m \in Message, NEW op
  PROVE  HasMsg(Append(q, m), op) <=> HasMsg(q, op) \/ m.op = op
<1>1. /\ Len(Append(q, m)) = Len(q) + 1
      /\ \A k \in 1..Len(q) : Append(q, m)[k] = q[k]
      /\ Append(q, m)[Len(q) + 1] = m
      /\ Len(q) \in Nat
  OBVIOUS
<1>2. QED
  BY <1>1 DEF HasMsg

\* Handling the first message of the main queue leaves the others.
LEMMA HasMsgTail ==
  ASSUME NEW q \in Seq(Message), q # <<>>, NEW op
  PROVE  HasMsg(q, op) <=> HasMsg(Tail(q), op) \/ Head(q).op = op
<1>1. /\ Len(q) \in Nat \ {0}
      /\ Len(Tail(q)) = Len(q) - 1
      /\ \A k \in 1..Len(Tail(q)) : Tail(q)[k] = q[k + 1]
      /\ Head(q) = q[1]
  OBVIOUS
<1>2. HasMsg(Tail(q), op) => HasMsg(q, op)
  <2>1. SUFFICES ASSUME NEW k \in 1..Len(Tail(q)), Tail(q)[k].op = op
                 PROVE  \E j \in 1..Len(q) : q[j].op = op
    BY DEF HasMsg
  <2>2. k + 1 \in 1..Len(q)
    BY <1>1
  <2>3. QED
    BY <2>1, <2>2, <1>1
<1>3. Head(q).op = op => HasMsg(q, op)
  BY <1>1 DEF HasMsg
<1>4. HasMsg(q, op) => HasMsg(Tail(q), op) \/ Head(q).op = op
  <2>1. SUFFICES ASSUME NEW k \in 1..Len(q), q[k].op = op, k # 1
                 PROVE  \E j \in 1..Len(Tail(q)) : Tail(q)[j].op = op
    BY <1>1 DEF HasMsg
  <2>2. k - 1 \in 1..Len(Tail(q)) /\ (k - 1) + 1 = k
    BY <1>1, <2>1
  <2>3. QED
    BY <2>1, <2>2, <1>1
<1>5. QED
  BY <1>2, <1>3, <1>4

\* An empty queue holds no message.
LEMMA HasMsgEmpty == \A op : ~HasMsg(<<>>, op)
BY DEF HasMsg

\* What a handler finds when it posts: the queue, perhaps with a relaunch behind it.
LEMMA MeanwhileQueue ==
  ASSUME NEW q \in Seq(Message), NEW rest \in Meanwhile(q)
  PROVE  /\ rest \in Seq(Message)
         /\ rest = q \/ rest = Append(q, Msg("relaunch"))
<1>1. Msg("relaunch") \in Message
  BY DEF Msg, Message
<1>2. rest = q \/ rest = Append(q, Msg("relaunch"))
  BY DEF Meanwhile
<1>3. QED
  BY <1>1, <1>2

\* For a user who is not hasty no relaunch comes in while a handler runs.
LEMMA MeanwhileCalm ==
  ASSUME Hasty = FALSE, NEW q, NEW rest \in Meanwhile(q)
  PROVE  rest = q
BY DEF Meanwhile

-----------------------------------------------------------------------------
(* Type correctness                                                        *)

\* The initial state is well typed.
LEMMA TypeInit == Init => TypeOK
<1>1. SUFFICES ASSUME Init PROVE TypeOK
  OBVIOUS
<1>2. PICK rest \in Meanwhile(<<>>) :
        queue = Append(rest, Msg("load")) /\ overtaken = (rest # <<>>)
  BY <1>1 DEF Init
<1>3. Msg("load") \in Message /\ <<>> \in Seq(Message)
  BY DEF Msg, Message
<1>4. rest \in Seq(Message)
  BY <1>3, MeanwhileQueue
<1>5. queue \in Seq(Message)
  BY <1>2, <1>3, <1>4
<1>6. overtaken \in BOOLEAN
  BY <1>2
<1>7. QED
  BY <1>1, <1>5, <1>6 DEF Init, TypeOK, Pages, Home, NoFragment

\* loadHomeFragment keeps the state it writes well typed.
LEMMA LoadType ==
  ASSUME NEW idx \in Pages, NEW tag \in Pages, NEW rest \in Seq(Message),
         drawer \in {"closed", "opening", "open", "closing"},
         loadHomeFragment(idx, tag, rest)
  PROVE  /\ navItemIndex' \in Pages /\ CURRENT_TAG' \in Pages
         /\ checked' \in Pages /\ title' \in Pages
         /\ drawer' \in {"closed", "opening", "open", "closing"}
         /\ queue' \in Seq(Message)
<1>1. Msg("load") \in Message
  BY DEF Msg, Message
<1>2. QED
  BY <1>1 DEF loadHomeFragment, closeDrawers

\* Every step keeps the state well typed.
LEMMA TypeStep == TypeOK /\ [Next]_vars => TypeOK'
<1>1. SUFFICES ASSUME TypeOK, [Next]_vars PROVE TypeOK'
  OBVIOUS
<1> Home \in Pages
  BY DEF Home, Pages
<1>2. CASE HandleClick
  <2>0. PICK rest \in Meanwhile(Tail(queue)) : onNavigationItemSelected(Head(queue).item, rest)
    BY <1>2 DEF HandleClick
  <2>1. rest \in Seq(Message)
    <3>1. Tail(queue) \in Seq(Message)
      BY <1>1, <1>2 DEF TypeOK, HandleClick
    <3>2. QED
      BY <3>1, MeanwhileQueue
  <2>2. CASE Head(queue).item \in Pages /\ loadHomeFragment(Head(queue).item, Head(queue).item, rest)
    BY <1>1, <1>2, <2>1, <2>2, LoadType DEF TypeOK, HandleClick, frags
  <2>3. CASE queue' = rest /\ UNCHANGED <<statics, bar, drawer>>
    BY <1>1, <1>2, <2>1, <2>3 DEF TypeOK, HandleClick, frags, statics, bar
  <2>4. CASE loadHomeFragment(Home, CURRENT_TAG, rest)
    BY <1>1, <1>2, <2>1, <2>4, LoadType DEF TypeOK, HandleClick, frags
  <2>5. QED
    BY <2>0, <2>2, <2>3, <2>4 DEF onNavigationItemSelected
<1>3. CASE HandleLoad
  <2>1. [page |-> getHomeFragment, tag |-> CURRENT_TAG] \in Fragment
    BY <1>1 DEF TypeOK, getHomeFragment, Fragment
  <2>2. Msg("exec") \in Message
    BY DEF Msg, Message
  <2>3. queue' \in Seq(Message)
    <3>1. PICK rest \in Meanwhile(Tail(queue)) :
            queue' = IF pending = <<>> THEN Append(rest, Msg("exec")) ELSE rest
      BY <1>3 DEF HandleLoad
    <3>2. Tail(queue) \in Seq(Message)
      BY <1>1, <1>3 DEF TypeOK, HandleLoad
    <3>3. rest \in Seq(Message)
      BY <3>2, MeanwhileQueue
    <3>4. QED
      BY <2>2, <3>1, <3>3
  <2>4. QED
    BY <1>1, <1>3, <2>1, <2>3 DEF TypeOK, HandleLoad, statics, bar
<1>4. CASE HandleExec
  <2>1. pending[Len(pending)] \in Fragment
    BY <1>1, <1>4 DEF TypeOK, HandleExec
  <2>2. Replaced \subseteq Pages
    <3>1. \A k \in 1..(Len(pending) - 1) : pending[k] \in Fragment
      BY <1>1 DEF TypeOK
    <3>2. QED
      BY <1>1, <3>1 DEF TypeOK, Replaced, Fragment
  <2>3. QED
    BY <1>1, <1>4, <2>1, <2>2 DEF TypeOK, HandleExec, statics, bar
<1>5. CASE HandleRelaunch
  <2>1. pending # <<>> => pending[Len(pending)] \in Fragment
    BY <1>1 DEF TypeOK
  <2>2. QED
    BY <1>1, <1>5, <2>1 DEF TypeOK, HandleRelaunch, statics, RestoredDrawer
<1>6. CASE \E i \in Items : TapItem(i)
  <2>1. PICK i \in Items : TapItem(i)
    BY <1>6
  <2>2. Click(i) \in Message
    BY <2>1, NavAssumption DEF Click, Message, Pages, OnAir, Social
  <2>3. QED
    BY <1>1, <2>1, <2>2 DEF TypeOK, TapItem, statics, bar, frags
<1>7. CASE onBackPressed
  <2>1. CASE drawer' = closeDrawers /\ UNCHANGED <<app, overtaken, statics, bar, queue, frags>>
    BY <1>1, <2>1 DEF TypeOK, closeDrawers, statics, bar, frags
  <2>2. CASE /\ \E rest \in Meanwhile(queue) : loadHomeFragment(Home, Home, rest)
             /\ UNCHANGED <<app, overtaken, frags>>
    <3>1. PICK rest \in Meanwhile(queue) : loadHomeFragment(Home, Home, rest)
      BY <2>2
    <3>2. rest \in Seq(Message)
      BY <1>1, MeanwhileQueue DEF TypeOK
    <3>3. QED
      BY <1>1, <2>2, <3>1, <3>2, LoadType DEF TypeOK, frags
  <2>3. CASE /\ app' = "exited" /\ drawer' = "closed"
             /\ queue' = <<>> /\ pending' = <<>>
             /\ frame' = NoFragment /\ leaving' = {}
             /\ UNCHANGED <<overtaken, statics, bar>>
    BY <1>1, <2>3 DEF TypeOK, statics, bar
  <2>4. QED
    BY <1>7, <2>1, <2>2, <2>3 DEF onBackPressed
<1>8. CASE onCreate
  <2>1. PICK rest \in Meanwhile(<<>>) :
          loadHomeFragment(Home, Home, rest) /\ overtaken' = (rest # <<>>)
    BY <1>8 DEF onCreate
  <2>2. <<>> \in Seq(Message)
    OBVIOUS
  <2>3. rest \in Seq(Message) /\ overtaken' \in BOOLEAN
    BY <2>1, <2>2, MeanwhileQueue
  <2>4. QED
    BY <1>1, <1>8, <2>1, <2>3, LoadType DEF TypeOK, onCreate, frags
<1>9. CASE OpenDrawer \/ CloseDrawer \/ DrawerSettles
  BY <1>1, <1>9 DEF TypeOK, OpenDrawer, CloseDrawer, DrawerSettles, statics, bar, frags
<1>10. CASE Rotate
  <2>1. Msg("relaunch") \in Message
    BY DEF Msg, Message
  <2>2. QED
    BY <1>1, <1>10, <2>1 DEF TypeOK, Rotate, statics, bar, frags
<1>11. CASE KillAndRestore
  BY <1>1, <1>11 DEF TypeOK, KillAndRestore, RestoredDrawer
<1>12. CASE \E t \in Pages : FadeEnds(t)
  BY <1>1, <1>12 DEF TypeOK, FadeEnds, statics, bar
<1>13. CASE UNCHANGED vars
  BY <1>1, <1>13 DEF TypeOK, vars, statics, bar, frags
<1>14. QED
  BY <1>1, <1>2, <1>3, <1>4, <1>5, <1>6, <1>7, <1>8, <1>9, <1>10, <1>11, <1>12, <1>13
     DEF Next, HandleMessage

\* MainActivity's state stays well typed: in particular the index that picks
\* the title and the menu item is always one of the six.
THEOREM TypeCorrect == Spec => []TypeOK
BY TypeInit, TypeStep, PTL DEF Spec

-----------------------------------------------------------------------------
(* A page's fragment is attached under its own tag                         *)

\* Only the page items and On Air are used: the items without a case of their
\* own in onNavigationItemSelected are the ones that part the two statics.
NoSocial == Items \cap Social = {}

ClicksFromItems(q) == \A k \in 1..Len(q) :
  q[k].op = "click" => q[k].item \in Items

TagInv ==
  /\ TypeOK
  /\ ClicksFromItems(queue)
  /\ CURRENT_TAG = navItemIndex
  /\ TagHonest

\* Posting a click of one of Items, or another message, keeps the queue's
\* clicks within Items; so does handling a message.
LEMMA ItemsQueue ==
  ASSUME NEW q \in Seq(Message), ClicksFromItems(q)
  PROVE  /\ \A m \in Message : (m.op = "click" => m.item \in Items)
                                => ClicksFromItems(Append(q, m))
         /\ q # <<>> => ClicksFromItems(Tail(q))
         /\ q # <<>> /\ Head(q).op = "click" => Head(q).item \in Items
<1>1. ASSUME NEW m \in Message, m.op = "click" => m.item \in Items
      PROVE  ClicksFromItems(Append(q, m))
  <2>1. /\ Len(Append(q, m)) = Len(q) + 1
        /\ \A k \in 1..Len(q) : Append(q, m)[k] = q[k]
        /\ Append(q, m)[Len(q) + 1] = m
        /\ Len(q) \in Nat
    OBVIOUS
  <2>2. QED
    BY <1>1, <2>1 DEF ClicksFromItems
<1>2. ASSUME q # <<>>
      PROVE  ClicksFromItems(Tail(q)) /\ (Head(q).op = "click" => Head(q).item \in Items)
  <2>1. /\ Len(q) \in Nat \ {0}
        /\ Len(Tail(q)) = Len(q) - 1
        /\ \A k \in 1..Len(Tail(q)) : k + 1 \in 1..Len(q) /\ Tail(q)[k] = q[k + 1]
        /\ Head(q) = q[1]
    BY <1>2
  <2>2. QED
    BY <2>1 DEF ClicksFromItems
<1>3. QED
  BY <1>1, <1>2

\* A relaunch that comes in is not a click.
LEMMA MeanwhileItems ==
  ASSUME NEW q \in Seq(Message), ClicksFromItems(q), NEW rest \in Meanwhile(q)
  PROVE  ClicksFromItems(rest)
<1>1. Msg("relaunch") \in Message /\ Msg("relaunch").op # "click"
  BY DEF Msg, Message
<1>2. ClicksFromItems(Append(q, Msg("relaunch")))
  BY <1>1, ItemsQueue
<1>3. QED
  BY <1>2, MeanwhileQueue

\* loadHomeFragment(p, p, rest), however it is reached, keeps the statics one
\* pair and the queue's clicks within Items.
LEMMA LoadTag ==
  ASSUME NEW p \in Pages, NEW rest \in Seq(Message), ClicksFromItems(rest),
         loadHomeFragment(p, p, rest)
  PROVE  CURRENT_TAG' = navItemIndex' /\ ClicksFromItems(queue')
<1>1. Msg("load") \in Message /\ Msg("load").op # "click"
  BY DEF Msg, Message
<1>2. ClicksFromItems(Append(rest, Msg("load")))
  BY <1>1, ItemsQueue
<1>3. QED
  BY <1>2 DEF loadHomeFragment

\* The tag invariant holds at launch and is kept by every step, rotations,
\* kills and input during fades included.
LEMMA TagStep ==
  ASSUME NoSocial
  PROVE  (Init => TagInv) /\ (TagInv /\ [Next]_vars => TagInv')
<1>1. Init => TagInv
  <2>1. SUFFICES ASSUME Init PROVE TagInv
    OBVIOUS
  <2>2. ClicksFromItems(queue)
    <3>1. PICK rest \in Meanwhile(<<>>) : queue = Append(rest, Msg("load"))
      BY <2>1 DEF Init
    <3>2. /\ <<>> \in Seq(Message) /\ ClicksFromItems(<<>>)
          /\ Msg("load") \in Message /\ Msg("load").op # "click"
      BY DEF ClicksFromItems, Msg, Message
    <3>3. rest \in Seq(Message) /\ ClicksFromItems(rest)
      BY <3>2, MeanwhileQueue, MeanwhileItems
    <3>4. QED
      BY <3>1, <3>2, <3>3, ItemsQueue
  <2>3. TagHonest
    BY <2>1 DEF Init, TagHonest, NoFragment
  <2>4. QED
    BY <2>1, <2>2, <2>3, TypeInit DEF Init, TagInv
<1>2. TagInv /\ [Next]_vars => TagInv'
  <2>1. SUFFICES ASSUME TagInv, [Next]_vars
                 PROVE  ClicksFromItems(queue)' /\ (CURRENT_TAG = navItemIndex)' /\ TagHonest'
    BY TypeStep DEF TagInv
  <2> USE DEF TagInv
  <2>a. /\ queue \in Seq(Message) /\ pending \in Seq(Fragment) /\ navItemIndex \in Pages
        /\ ClicksFromItems(queue) /\ CURRENT_TAG = navItemIndex /\ TagHonest
        /\ Home \in Pages
    BY <2>1 DEF TypeOK, Home, Pages
  <2>b. queue # <<>> => Tail(queue) \in Seq(Message) /\ ClicksFromItems(Tail(queue))
    BY <2>a, ItemsQueue
  <2>c. UNCHANGED <<pending, frame>> => TagHonest'
    BY <2>a DEF TagHonest
  <2>d. ClicksFromItems(<<>>)
    BY DEF ClicksFromItems
  <2>2. CASE HandleClick
    <3>1. Head(queue).item \in Items /\ Head(queue).item \notin Social
      BY <2>2, <2>a, ItemsQueue DEF HandleClick, NoSocial
    <3>2. TagHonest'
      BY <2>2, <2>c DEF HandleClick, frags
    <3>3. PICK rest \in Meanwhile(Tail(queue)) : onNavigationItemSelected(Head(queue).item, rest)
      BY <2>2 DEF HandleClick
    <3>4. rest \in Seq(Message) /\ ClicksFromItems(rest)
      BY <2>2, <2>b, MeanwhileQueue, MeanwhileItems DEF HandleClick
    <3>5. CASE Head(queue).item \in Pages
               /\ loadHomeFragment(Head(queue).item, Head(queue).item, rest)
      BY <3>2, <3>4, <3>5, LoadTag
    <3>6. CASE queue' = rest /\ UNCHANGED <<statics, bar, drawer>>
      BY <2>a, <3>2, <3>4, <3>6 DEF statics
    <3>7. QED
      BY <3>1, <3>3, <3>5, <3>6 DEF onNavigationItemSelected
  <2>3. CASE HandleLoad
    <3>1. Msg("exec") \in Message /\ Msg("exec").op # "click"
      BY DEF Msg, Message
    <3>2. ClicksFromItems(queue')
      <4>1. PICK rest \in Meanwhile(Tail(queue)) :
              queue' = IF pending = <<>> THEN Append(rest, Msg("exec")) ELSE rest
        BY <2>3 DEF HandleLoad
      <4>2. rest \in Seq(Message) /\ ClicksFromItems(rest)
        BY <2>3, <2>b, MeanwhileQueue, MeanwhileItems DEF HandleLoad
      <4>3. QED
        BY <3>1, <4>1, <4>2, ItemsQueue
    <3>3. TagHonest'
      <4>1. DEFINE f == [page |-> navItemIndex, tag |-> navItemIndex]
      <4>2. f \in Fragment /\ f.tag = f.page
        BY <2>a DEF Fragment
      <4>3. pending' = Append(pending, f) /\ frame' = frame
        BY <2>3, <2>a DEF HandleLoad, getHomeFragment
      <4> HIDE DEF f
      <4>4. /\ Len(pending') = Len(pending) + 1
            /\ \A k \in 1..Len(pending) : pending'[k] = pending[k]
            /\ pending'[Len(pending) + 1] = f
            /\ Len(pending) \in Nat
        BY <2>a, <4>2, <4>3
      <4>5. QED
        BY <2>a, <4>2, <4>3, <4>4 DEF TagHonest
    <3>4. QED
      BY <2>3, <2>a, <3>2, <3>3 DEF HandleLoad, statics
  <2>4. CASE HandleExec
    <3>1. pending[Len(pending)].tag = pending[Len(pending)].page
      BY <2>4, <2>a DEF HandleExec, TagHonest
    <3>2. QED
      BY <2>4, <2>a, <2>b, <3>1 DEF HandleExec, TagHonest, statics
  <2>5. CASE HandleRelaunch
    <3>1. pending # <<>> => pending[Len(pending)].tag = pending[Len(pending)].page
      BY <2>a DEF TagHonest
    <3>2. QED
      BY <2>5, <2>a, <2>d, <3>1 DEF HandleRelaunch, TagHonest, statics
  <2>6. CASE \E i \in Items : TapItem(i)
    <3>1. PICK i \in Items : TapItem(i)
      BY <2>6
    <3>2. Click(i) \in Message /\ Click(i).item \in Items
      BY NavAssumption DEF Click, Message, Pages, OnAir, Social
    <3>3. ClicksFromItems(queue')
      BY <2>a, <3>1, <3>2, ItemsQueue DEF TapItem
    <3>4. QED
      BY <2>a, <2>c, <3>1, <3>3 DEF TapItem, statics, frags
  <2>7. CASE onBackPressed
    <3>1. CASE drawer' = closeDrawers /\ UNCHANGED <<app, overtaken, statics, bar, queue, frags>>
      BY <2>a, <2>c, <3>1 DEF statics, frags
    <3>2. CASE /\ \E rest \in Meanwhile(queue) : loadHomeFragment(Home, Home, rest)
               /\ UNCHANGED <<app, overtaken, frags>>
      <4>1. PICK rest \in Meanwhile(queue) : loadHomeFragment(Home, Home, rest)
        BY <3>2
      <4>2. rest \in Seq(Message) /\ ClicksFromItems(rest)
        BY <2>a, MeanwhileQueue, MeanwhileItems
      <4>3. QED
        BY <2>a, <2>c, <3>2, <4>1, <4>2, LoadTag DEF frags
    <3>3. CASE /\ app' = "exited" /\ drawer' = "closed"
               /\ queue' = <<>> /\ pending' = <<>>
               /\ frame' = NoFragment /\ leaving' = {}
               /\ UNCHANGED <<overtaken, statics, bar>>
      BY <2>a, <2>d, <3>3 DEF statics, TagHonest, NoFragment
    <3>4. QED
      BY <2>7, <3>1, <3>2, <3>3 DEF onBackPressed
  <2>8. CASE onCreate
    <3>1. PICK rest \in Meanwhile(<<>>) : loadHomeFragment(Home, Home, rest)
      BY <2>8 DEF onCreate
    <3>2. <<>> \in Seq(Message)
      OBVIOUS
    <3>3. rest \in Seq(Message) /\ ClicksFromItems(rest)
      BY <2>d, <3>2, MeanwhileQueue, MeanwhileItems
    <3>4. QED
      BY <2>8, <2>a, <2>c, <3>1, <3>3, LoadTag DEF onCreate, frags
  <2>9. CASE OpenDrawer \/ CloseDrawer \/ DrawerSettles
    BY <2>9, <2>a, <2>c DEF OpenDrawer, CloseDrawer, DrawerSettles, statics, frags
  <2>10. CASE Rotate
    <3>1. Msg("relaunch") \in Message /\ Msg("relaunch").op # "click"
      BY DEF Msg, Message
    <3>2. ClicksFromItems(queue')
      BY <2>10, <2>a, <3>1, ItemsQueue DEF Rotate
    <3>3. QED
      BY <2>10, <2>a, <2>c, <3>2 DEF Rotate, statics, frags
  <2>11. CASE KillAndRestore
    BY <2>11, <2>a, <2>c DEF KillAndRestore
  <2>12. CASE \E t \in Pages : FadeEnds(t)
    BY <2>12, <2>a, <2>c DEF FadeEnds, statics
  <2>13. CASE UNCHANGED vars
    BY <2>13, <2>a, <2>c DEF vars, statics, frags
  <2>14. QED
    BY <2>1, <2>2, <2>3, <2>4, <2>5, <2>6, <2>7, <2>8, <2>9, <2>10, <2>11, <2>12, <2>13
       DEF Next, HandleMessage
<1>3. QED
  BY <1>1, <1>2

\* While the user keeps to the items that have a case of their own, a fragment
\* is attached under its own page's tag: MainActivity.java:153 never takes one
\* page for another, however rotations, kills and key presses interleave.
THEOREM TagsAreHonest == NoSocial => (Spec => []TagHonest)
<1>1. ASSUME NoSocial PROVE Spec => []TagHonest
  <2>1. Init => TagInv
    BY <1>1, TagStep
  <2>2. TagInv /\ [Next]_vars => TagInv'
    BY <1>1, TagStep
  <2>3. TagInv => TagHonest
    BY DEF TagInv
  <2>4. QED
    BY <2>1, <2>2, <2>3, PTL DEF Spec
<1>2. QED
  BY <1>1

-----------------------------------------------------------------------------
(* The frame follows the statics                                           *)

ClicksFirst(q) == \A k \in 1..Len(q) :
  q[k].op = "click" => \A j \in 1..k : q[j].op = "click"

OneExec(q) == \A j, k \in 1..Len(q) :
  q[j].op = "exec" /\ q[k].op = "exec" => j = k

\* The shape of the queue: buffered taps come before the runnables they post,
\* a relaunch is alone, and one exec stands for all pending transactions.
QueueShape ==
  /\ ClicksFirst(queue)
  /\ OneExec(queue)
  /\ HasMsg(queue, "exec") <=> pending # <<>>
  /\ HasMsg(queue, "relaunch") => queue = <<Msg("relaunch")>>

\* The drawer interlocks input with the queue.
DrawerLock ==
  /\ HasMsg(queue, "click") =>
        drawer \in {"open", "closing"} /\ pending = <<>> /\ leaving = {}
  /\ drawer = "open" => ~HasMsg(queue, "load") /\ ~HasMsg(queue, "exec")
  /\ drawer \in {"closed", "opening"} /\ queue # <<>>
        /\ ~HasMsg(queue, "relaunch") => navItemIndex = Home

WhenExited ==
  app = "exited" =>
    queue = <<>> /\ pending = <<>> /\ frame = NoFragment /\ leaving = {} /\ drawer = "closed"

CalmInv == TagInv /\ QueueShape /\ DrawerLock /\ WhenExited /\ OnCourse

\* The user lets a page change fade before the next input, rotates at rest, and
\* the process is not killed.
Calm == NoSocial /\ Hasty = FALSE /\ "kill" \notin Interrupts

\* How posting and handling messages keep the taps first and the exec unique.
LEMMA ShapeQueue ==
  ASSUME NEW q \in Seq(Message), ClicksFirst(q), OneExec(q)
  PROVE  /\ \A m \in Message :
              /\ m.op # "click" \/ (\A k \in 1..Len(q) : q[k].op = "click")
                   => ClicksFirst(Append(q, m))
              /\ m.op # "exec" \/ ~HasMsg(q, "exec") => OneExec(Append(q, m))
         /\ q # <<>> =>
              /\ ClicksFirst(Tail(q))
              /\ OneExec(Tail(q))
              /\ Head(q).op = "exec" => ~HasMsg(Tail(q), "exec")
              /\ Head(q).op # "click" => ~HasMsg(q, "click")
<1>1. ASSUME NEW m \in Message
      PROVE  /\ m.op # "click" \/ (\A k \in 1..Len(q) : q[k].op = "click")
                   => ClicksFirst(Append(q, m))
             /\ m.op # "exec" \/ ~HasMsg(q, "exec") => OneExec(Append(q, m))
  <2>1. /\ Len(Append(q, m)) = Len(q) + 1
        /\ \A k \in 1..Len(q) : Append(q, m)[k] = q[k]
        /\ Append(q, m)[Len(q) + 1] = m
        /\ Len(q) \in Nat
    OBVIOUS
  <2>2. \A k \in 1..(Len(q) + 1) : k \in 1..Len(q) \/ k = Len(q) + 1
    BY <2>1
  <2>3. m.op # "click" \/ (\A k \in 1..Len(q) : q[k].op = "click")
          => ClicksFirst(Append(q, m))
    BY <2>1, <2>2 DEF ClicksFirst
  <2>4. m.op # "exec" \/ ~HasMsg(q, "exec") => OneExec(Append(q, m))
    BY <2>1, <2>2 DEF OneExec, HasMsg
  <2>5. QED
    BY <2>3, <2>4
<1>2. ASSUME q # <<>>
      PROVE  /\ ClicksFirst(Tail(q))
             /\ OneExec(Tail(q))
             /\ Head(q).op = "exec" => ~HasMsg(Tail(q), "exec")
             /\ Head(q).op # "click" => ~HasMsg(q, "click")
  <2>1. /\ Len(q) \in Nat \ {0}
        /\ Len(Tail(q)) = Len(q) - 1
        /\ \A k \in 1..Len(Tail(q)) : k + 1 \in 1..Len(q) /\ Tail(q)[k] = q[k + 1]
        /\ Head(q) = q[1]
        /\ 1 \in 1..Len(q)
    BY <1>2
  <2>2. ClicksFirst(Tail(q))
    BY <2>1 DEF ClicksFirst
  <2>3. OneExec(Tail(q))
    BY <2>1 DEF OneExec
  <2>4. Head(q).op = "exec" => ~HasMsg(Tail(q), "exec")
    BY <2>1 DEF OneExec, HasMsg
  <2>5. Head(q).op # "click" => ~HasMsg(q, "click")
    BY <2>1 DEF ClicksFirst, HasMsg
  <2>6. QED
    BY <2>2, <2>3, <2>4, <2>5
<1>3. QED
  BY <1>1, <1>2

\* A queue that holds only clicks, by elimination.
LEMMA AllClicks ==
  ASSUME NEW q \in Seq(Message),
         ~HasMsg(q, "load"), ~HasMsg(q, "exec"), ~HasMsg(q, "relaunch")
  PROVE  \A k \in 1..Len(q) : q[k].op = "click"
<1>1. \A k \in 1..Len(q) : q[k] \in Message
  OBVIOUS
<1>2. \A m \in Message : m.op \in {"click", "load", "exec", "relaunch"}
  BY DEF Message
<1>3. QED
  BY <1>1, <1>2 DEF HasMsg

\* A fragment found in the frame under a page's tag is that page's fragment.
LEMMA FrameIsPage ==
  ASSUME TagInv, NEW i \in Pages, frame.tag = i
  PROVE  frame = [page |-> i, tag |-> i]
<1>1. frame # NoFragment
  BY DEF NoFragment, Pages
<1>2. frame \in Fragment /\ frame.page = i
  BY <1>1 DEF TagInv, TypeOK, TagHonest
<1>3. \A f \in Fragment : f = [page |-> f.page, tag |-> f.tag]
  BY DEF Fragment
<1>4. QED
  BY <1>2, <1>3

\* The invariant holds at launch.
LEMMA CalmInit == Calm /\ Init => CalmInv
<1>1. SUFFICES ASSUME Calm, Init PROVE CalmInv
  OBVIOUS
<1>2. TagInv
  BY <1>1, TagStep DEF Calm
<1>3. queue = <<Msg("load")>> /\ Msg("load").op = "load"
  <2>1. PICK rest \in Meanwhile(<<>>) : queue = Append(rest, Msg("load"))
    BY <1>1 DEF Init
  <2>2. rest = <<>>
    BY <1>1, MeanwhileCalm DEF Calm
  <2>3. QED
    BY <2>1, <2>2 DEF Msg
<1>4. \A op : HasMsg(queue, op) <=> op = "load"
  BY <1>3 DEF HasMsg
<1>5. ClicksFirst(queue) /\ OneExec(queue)
  BY <1>3 DEF ClicksFirst, OneExec
<1>6. QED
  BY <1>1, <1>2, <1>4, <1>5
     DEF Init, CalmInv, QueueShape, DrawerLock, WhenExited, OnCourse, Target

\* The invariant is kept by every step.
LEMMA CalmStep == Calm /\ CalmInv /\ [Next]_vars => CalmInv'
<1>1. SUFFICES ASSUME Calm, CalmInv, [Next]_vars
               PROVE  QueueShape' /\ DrawerLock' /\ WhenExited' /\ OnCourse'
  BY TagStep DEF CalmInv, Calm
<1>2. /\ TypeOK /\ TagInv /\ TagInv'
      /\ queue \in Seq(Message) /\ pending \in Seq(Fragment)
      /\ navItemIndex \in Pages /\ CURRENT_TAG = navItemIndex
      /\ Home \in Pages
  BY <1>1, TagStep DEF CalmInv, TagInv, TypeOK, Calm, Home, Pages
<1>3. /\ ClicksFirst(queue) /\ OneExec(queue)
      /\ QueueShape /\ DrawerLock /\ WhenExited /\ OnCourse
  BY <1>1 DEF CalmInv, QueueShape
<1>4. queue # <<>> =>
        /\ Tail(queue) \in Seq(Message)
        /\ ClicksFirst(Tail(queue)) /\ OneExec(Tail(queue))
        /\ \A op : HasMsg(queue, op) <=> HasMsg(Tail(queue), op) \/ Head(queue).op = op
  BY <1>2, <1>3, HasMsgTail, ShapeQueue
<1>5. /\ \A op : ~HasMsg(<<>>, op)
      /\ ClicksFirst(<<>>) /\ OneExec(<<>>)
  BY HasMsgEmpty DEF ClicksFirst, OneExec
<1>6. ASSUME NEW r \in Seq(Message), ClicksFirst(r), OneExec(r)
      PROVE  /\ ClicksFirst(Append(r, Msg("load"))) /\ OneExec(Append(r, Msg("load")))
             /\ \A op : HasMsg(Append(r, Msg("load")), op) <=> HasMsg(r, op) \/ op = "load"
  <2>1. Msg("load") \in Message /\ Msg("load").op = "load"
    BY DEF Msg, Message
  <2>2. QED
    BY <1>6, <2>1, ShapeQueue, HasMsgAppend
<1>7. HasMsg(queue, "relaunch") /\ queue # <<>> => Head(queue).op = "relaunch"
  BY <1>3 DEF QueueShape, Msg
<1>m. \A q : \A rest \in Meanwhile(q) : rest = q
  BY <1>1, MeanwhileCalm DEF Calm
<1>8. CASE HandleClick
  <2>1. /\ queue # <<>> /\ Head(queue).op = "click" /\ app' = app
        /\ UNCHANGED <<pending, frame, leaving>>
    BY <1>8 DEF HandleClick, frags
  <2>2. /\ HasMsg(queue, "click") /\ ~HasMsg(queue, "relaunch")
        /\ pending = <<>> /\ leaving = {} /\ drawer \in {"open", "closing"}
        /\ ~HasMsg(queue, "exec") /\ app = "running"
    <3>1. HasMsg(queue, "click") /\ ~HasMsg(queue, "relaunch")
      BY <1>4, <1>7, <2>1
    <3>2. QED
      BY <1>2, <1>3, <2>1, <3>1 DEF DrawerLock, QueueShape, WhenExited, TypeOK
  <2>3. ~HasMsg(Tail(queue), "exec") /\ ~HasMsg(Tail(queue), "relaunch")
    BY <1>4, <2>1, <2>2
  <2>4. ASSUME NEW i \in Pages, loadHomeFragment(i, i, Tail(queue))
        PROVE  QueueShape' /\ DrawerLock' /\ WhenExited' /\ OnCourse'
    <3>1. /\ navItemIndex' = i /\ CURRENT_TAG' = i /\ checked' = i
          /\ drawer' = "closing"
          /\ queue' = IF frame.tag = i THEN Tail(queue) ELSE Append(Tail(queue), Msg("load"))
      BY <2>2, <2>4 DEF loadHomeFragment, closeDrawers, findFragmentByTag
    <3>2. /\ ClicksFirst(queue') /\ OneExec(queue')
          /\ ~HasMsg(queue', "exec") /\ ~HasMsg(queue', "relaunch")
          /\ frame.tag # i => HasMsg(queue', "load")
      BY <1>4, <1>6, <2>1, <2>3, <3>1
    <3>3. frame.tag = i => frame = [page |-> i, tag |-> i]
      BY <1>2, FrameIsPage
    <3>4. QED
      BY <2>1, <2>2, <3>1, <3>2, <3>3
         DEF QueueShape, DrawerLock, WhenExited, OnCourse, Target
  <2>5. CASE queue' = Tail(queue) /\ UNCHANGED <<statics, bar, drawer>>
    <3>1. /\ ClicksFirst(queue') /\ OneExec(queue')
          /\ \A op : HasMsg(queue', op) => HasMsg(queue, op)
          /\ HasMsg(queue, "load") => HasMsg(queue', "load")
      BY <1>4, <2>1, <2>5
    <3>2. QED
      BY <1>3, <2>1, <2>2, <2>5, <3>1
         DEF QueueShape, DrawerLock, WhenExited, OnCourse, Target, statics, bar
  <2>6. Head(queue).item \notin Social
    BY <1>1, <1>2, <2>1, ItemsQueue DEF TagInv, Calm, NoSocial
  <2>7. QED
    <3>1. onNavigationItemSelected(Head(queue).item, Tail(queue))
      BY <1>8, <1>m DEF HandleClick
    <3>2. QED
      BY <2>4, <2>5, <2>6, <3>1 DEF onNavigationItemSelected
<1>9. CASE HandleLoad
  <2>1. /\ queue # <<>> /\ Head(queue).op = "load"
        /\ pending' = Append(pending, [page |-> navItemIndex, tag |-> CURRENT_TAG])
        /\ queue' = IF pending = <<>> THEN Append(Tail(queue), Msg("exec")) ELSE Tail(queue)
        /\ UNCHANGED <<app, navItemIndex, CURRENT_TAG, title, checked, drawer, frame, leaving>>
    BY <1>9, <1>m DEF HandleLoad, getHomeFragment, statics, bar
  <2>2. /\ ~HasMsg(queue, "relaunch") /\ ~HasMsg(queue, "click") /\ HasMsg(queue, "load")
        /\ app = "running"
    BY <1>2, <1>3, <1>4, <1>7, <2>1, ShapeQueue DEF WhenExited, TypeOK
  <2>3. Msg("exec") \in Message /\ Msg("exec").op = "exec"
    BY DEF Msg, Message
  <2>4. pending = <<>> => ~HasMsg(Tail(queue), "exec")
    BY <1>3, <1>4, <2>1 DEF QueueShape
  <2>5. /\ ClicksFirst(queue') /\ OneExec(queue')
        /\ HasMsg(queue', "exec")
        /\ ~HasMsg(queue', "relaunch") /\ ~HasMsg(queue', "click")
    <3>1. CASE pending = <<>>
      BY <1>4, <2>1, <2>2, <2>3, <2>4, <3>1, ShapeQueue, HasMsgAppend
    <3>2. CASE pending # <<>>
      BY <1>3, <1>4, <2>1, <2>2, <3>2 DEF QueueShape
    <3>3. QED
      BY <3>1, <3>2
  <2>6. /\ pending' # <<>>
        /\ pending'[Len(pending')] = [page |-> navItemIndex, tag |-> CURRENT_TAG]
    <3>1. DEFINE f == [page |-> navItemIndex, tag |-> CURRENT_TAG]
    <3>2. f \in Fragment
      BY <1>2 DEF Fragment
    <3> HIDE DEF f
    <3>3. /\ Append(pending, f) # <<>>
          /\ Append(pending, f)[Len(Append(pending, f))] = f
      BY <1>2, <3>2
    <3>4. QED
      BY <2>1, <3>3 DEF f
  <2>7. QED
    BY <1>3, <2>1, <2>2, <2>5, <2>6
       DEF QueueShape, DrawerLock, WhenExited, OnCourse, Target
<1>10. CASE HandleExec
  <2>1. /\ queue # <<>> /\ Head(queue).op = "exec" /\ pending # <<>>
        /\ frame' = pending[Len(pending)] /\ pending' = <<>> /\ queue' = Tail(queue)
        /\ UNCHANGED <<app, navItemIndex, CURRENT_TAG, title, checked, drawer>>
    BY <1>10 DEF HandleExec, statics, bar
  <2>2. /\ ~HasMsg(queue, "relaunch") /\ ~HasMsg(queue, "click") /\ ~HasMsg(queue', "exec")
        /\ app = "running"
    BY <1>2, <1>3, <1>4, <1>7, <2>1, ShapeQueue DEF WhenExited, TypeOK
  <2>3. /\ HasMsg(queue', "load") <=> HasMsg(queue, "load")
        /\ ~HasMsg(queue', "relaunch") /\ ~HasMsg(queue', "click")
    BY <1>4, <2>1, <2>2
  <2>4. QED
    BY <1>3, <1>4, <2>1, <2>2, <2>3
       DEF QueueShape, DrawerLock, WhenExited, OnCourse, Target
<1>11. CASE HandleRelaunch
  <2>1. HasMsg(queue, "relaunch")
    BY <1>4, <1>11 DEF HandleRelaunch
  <2>2. queue = <<Msg("relaunch")>> /\ Msg("relaunch").op = "relaunch"
    BY <1>3, <2>1 DEF QueueShape, Msg
  <2>3. ~HasMsg(queue, "load") /\ ~HasMsg(queue, "exec")
    BY <2>2 DEF HasMsg
  <2>4. pending = <<>> /\ app = "running"
    BY <1>2, <1>3, <2>2, <2>3 DEF QueueShape, WhenExited, TypeOK
  <2>5. QED
    BY <1>3, <1>5, <1>11, <2>3, <2>4
       DEF HandleRelaunch, QueueShape, DrawerLock, WhenExited, OnCourse, Target, statics
<1>12. CASE \E i \in Items : TapItem(i)
  <2>1. PICK i \in Items : TapItem(i)
    BY <1>12
  <2>2. Click(i) \in Message /\ Click(i).op = "click"
    BY NavAssumption DEF Click, Message, Pages, OnAir, Social
  <2>3. /\ app = "running" /\ ~HasMsg(queue, "relaunch") /\ leaving = {}
        /\ drawer = "open" /\ queue' = Append(queue, Click(i))
        /\ UNCHANGED <<app, navItemIndex, CURRENT_TAG, title, checked, drawer, pending, frame, leaving>>
    BY <1>1, <2>1 DEF TapItem, InputEnabled, Patient, Calm, statics, bar, frags
  <2>4. ~HasMsg(queue, "load") /\ ~HasMsg(queue, "exec") /\ pending = <<>>
    BY <1>3, <2>3 DEF DrawerLock, QueueShape
  <2>5. \A k \in 1..Len(queue) : queue[k].op = "click"
    BY <1>2, <2>3, <2>4, AllClicks
  <2>6. /\ ClicksFirst(queue') /\ OneExec(queue')
        /\ ~HasMsg(queue', "load") /\ ~HasMsg(queue', "exec") /\ ~HasMsg(queue', "relaunch")
    BY <1>2, <1>3, <2>2, <2>3, <2>4, <2>5, ShapeQueue, HasMsgAppend
  <2>7. QED
    BY <1>3, <2>3, <2>4, <2>6 DEF QueueShape, DrawerLock, WhenExited, OnCourse, Target
<1>13. CASE onBackPressed
  <2>1. app = "running" /\ ~HasMsg(queue, "relaunch") /\ leaving = {}
    BY <1>1, <1>13 DEF onBackPressed, InputEnabled, Patient, Calm
  <2>2. CASE isDrawerOpen /\ drawer' = closeDrawers /\ UNCHANGED <<app, overtaken, statics, bar, queue, frags>>
    <3>1. drawer' = "closing"
      BY <2>2 DEF isDrawerOpen, closeDrawers
    <3>2. QED
      BY <1>3, <2>1, <2>2, <3>1
         DEF isDrawerOpen, QueueShape, DrawerLock, WhenExited, OnCourse, Target, statics, bar, frags
  <2>3. CASE /\ ~isDrawerOpen /\ navItemIndex # Home
             /\ loadHomeFragment(Home, Home, queue) /\ UNCHANGED <<app, overtaken, frags>>
    <3>1. queue = <<>> /\ pending = <<>>
      BY <1>2, <1>3, <1>5, <2>1, <2>3 DEF isDrawerOpen, DrawerLock, QueueShape, TypeOK
    <3>2. /\ navItemIndex' = Home /\ CURRENT_TAG' = Home /\ checked' = Home
          /\ drawer' \in {"closed", "closing"}
          /\ queue' = IF frame.tag = Home THEN <<>> ELSE Append(<<>>, Msg("load"))
          /\ UNCHANGED <<app, pending, frame, leaving>>
      BY <2>1, <2>3, <3>1 DEF loadHomeFragment, closeDrawers, findFragmentByTag, frags
    <3>3. /\ ClicksFirst(queue') /\ OneExec(queue')
          /\ \A op : HasMsg(queue', op) <=> op = "load" /\ frame.tag # Home
      BY <1>2, <1>5, <1>6, <3>1, <3>2
    <3>4. frame.tag = Home => frame = [page |-> Home, tag |-> Home]
      BY <1>2, FrameIsPage
    <3>5. QED
      BY <2>1, <3>1, <3>2, <3>3, <3>4
         DEF QueueShape, DrawerLock, WhenExited, OnCourse, Target
  <2>4. CASE /\ app' = "exited" /\ drawer' = "closed"
             /\ queue' = <<>> /\ pending' = <<>>
             /\ frame' = NoFragment /\ leaving' = {}
             /\ UNCHANGED <<overtaken, statics, bar>>
    BY <1>5, <2>4 DEF QueueShape, DrawerLock, WhenExited, OnCourse
  <2>5. QED
    BY <1>13, <1>m, <2>2, <2>3, <2>4 DEF onBackPressed
<1>14. CASE onCreate
  <2>1. /\ queue = <<>> /\ pending = <<>> /\ frame = NoFragment /\ leaving = {} /\ drawer = "closed"
    BY <1>3, <1>14 DEF onCreate, WhenExited
  <2>2. /\ navItemIndex' = Home /\ CURRENT_TAG' = Home /\ checked' = Home
        /\ drawer' = "closed" /\ queue' = Append(<<>>, Msg("load"))
        /\ UNCHANGED <<pending, frame, leaving>> /\ app' = "running"
    <3>1. PICK rest \in Meanwhile(<<>>) : loadHomeFragment(Home, Home, rest)
      BY <1>14 DEF onCreate
    <3>2. rest = <<>>
      BY <1>m
    <3>3. loadHomeFragment(Home, Home, <<>>)
      BY <3>1, <3>2
    <3>4. UNCHANGED <<pending, frame, leaving>> /\ app' = "running"
      BY <1>14 DEF onCreate, frags
    <3>5. QED
      BY <2>1, <3>3, <3>4
         DEF loadHomeFragment, closeDrawers, findFragmentByTag, NoFragment, Home
  <2>3. /\ ClicksFirst(queue') /\ OneExec(queue')
        /\ \A op : HasMsg(queue', op) <=> op = "load"
    BY <1>2, <1>5, <1>6, <2>1, <2>2
  <2>4. QED
    BY <2>1, <2>2, <2>3 DEF QueueShape, DrawerLock, WhenExited, OnCourse, Target
<1>15. CASE OpenDrawer
  <2>1. ~HasMsg(queue, "click")
    BY <1>3, <1>5, <1>15 DEF OpenDrawer, DrawerLock
  <2>2. QED
    BY <1>3, <1>15, <2>1
       DEF OpenDrawer, InputEnabled, QueueShape, DrawerLock, WhenExited, OnCourse, Target, statics, bar, frags
<1>16. CASE CloseDrawer
  BY <1>3, <1>16
     DEF CloseDrawer, InputEnabled, QueueShape, DrawerLock, WhenExited, OnCourse, Target, statics, bar, frags
<1>17. CASE DrawerSettles
  BY <1>3, <1>5, <1>17
     DEF DrawerSettles, QueueShape, DrawerLock, WhenExited, OnCourse, Target, statics, bar, frags
<1>18. CASE Rotate
  <2>1. /\ queue = <<>> /\ queue' = Append(<<>>, Msg("relaunch")) /\ app = "running"
        /\ UNCHANGED <<app, navItemIndex, CURRENT_TAG, title, checked, drawer, pending, frame, leaving>>
    BY <1>1, <1>18 DEF Rotate, InputEnabled, Calm, statics, bar, frags
  <2>2. Append(<<>>, Msg("relaunch")) = <<Msg("relaunch")>> /\ Msg("relaunch").op = "relaunch"
    BY DEF Msg
  <2>3. /\ ClicksFirst(queue') /\ OneExec(queue')
        /\ \A op : HasMsg(queue', op) <=> op = "relaunch"
    BY <2>1, <2>2 DEF ClicksFirst, OneExec, HasMsg
  <2>4. QED
    BY <1>3, <1>5, <2>1, <2>2, <2>3 DEF QueueShape, DrawerLock, WhenExited, OnCourse, Target, Msg
<1>19. CASE KillAndRestore
  BY <1>1, <1>19 DEF KillAndRestore, Calm
<1>20. CASE \E t \in Pages : FadeEnds(t)
  BY <1>3, <1>20 DEF FadeEnds, QueueShape, DrawerLock, WhenExited, OnCourse, Target, statics, bar
<1>21. CASE UNCHANGED vars
  BY <1>3, <1>21
     DEF vars, QueueShape, DrawerLock, WhenExited, OnCourse, Target, statics, bar, frags
<1>22. QED
  BY <1>1, <1>8, <1>9, <1>10, <1>11, <1>12, <1>13, <1>14, <1>15, <1>16, <1>17,
     <1>18, <1>19, <1>20, <1>21 DEF Next, HandleMessage

\* MainActivity never loses a selection of a calm user: at every moment the page
\* on screen, or on its way there, is the one the statics name, for any number
\* of taps buffered before the first is handled.
THEOREM StaysOnCourse == Calm => (Spec => []OnCourse)
<1>1. ASSUME Calm PROVE Spec => []OnCourse
  <2>1. Init => CalmInv
    BY <1>1, CalmInit
  <2>2. CalmInv /\ [Next]_vars => CalmInv'
    BY <1>1, CalmStep
  <2>3. CalmInv => OnCourse
    BY DEF CalmInv
  <2>4. QED
    BY <2>1, <2>2, <2>3, PTL DEF Spec
<1>2. QED
  BY <1>1

\* For a calm user the Back key leaves the application from the home page only,
\* as the comment at MainActivity.java:287 says.
THEOREM ExitsFromHome == Calm => (Spec => ExitOnlyFromHome)
<1>1. ASSUME Calm PROVE Spec => ExitOnlyFromHome
  <2>1. Init => CalmInv
    BY <1>1, CalmInit
  <2>2. CalmInv /\ [Next]_vars => CalmInv'
    BY <1>1, CalmStep
  <2>3. CalmInv /\ [Next]_vars =>
          [app = "running" /\ app' = "exited" => Target.page = Home]_vars
    <3>1. SUFFICES ASSUME CalmInv, Next, app = "running", app' = "exited"
                   PROVE  Target.page = Home
      BY DEF vars
    <3>2. navItemIndex = Home
      BY <3>1 DEF Next, HandleMessage, HandleClick, HandleLoad, HandleExec, HandleRelaunch,
                  TapItem, onBackPressed, onCreate, OpenDrawer, CloseDrawer, DrawerSettles,
                  Rotate, KillAndRestore, FadeEnds
    <3>3. Target = [page |-> navItemIndex, tag |-> CURRENT_TAG]
      BY <3>1 DEF CalmInv, OnCourse
    <3>4. QED
      BY <3>2, <3>3
  <2>4. QED
    BY <2>1, <2>2, <2>3, PTL DEF Spec, ExitOnlyFromHome
<1>2. QED
  BY <1>1
-----------------------------------------------------------------------------
(* The frame is filled, whatever happens first                             *)

\* A runnable waits, and no relaunch runs before it.
LoadFirst(q) == \E k \in 1..Len(q) :
  q[k].op = "load" /\ \A j \in 1..k : q[j].op # "relaunch"

\* One exec stands for all pending transactions, and an empty frame has its first
\* transaction ahead of it: pending, or to be made by a runnable that no relaunch
\* overtakes any more once it was posted before one came.
FillInv ==
  /\ TypeOK
  /\ OneExec(queue)
  /\ HasMsg(queue, "exec") <=> pending # <<>>
  /\ app = "exited" => queue = <<>> /\ frame = NoFragment /\ leaving = {}
  /\ app = "running" /\ ~overtaken /\ frame = NoFragment /\ pending = <<>> => LoadFirst(queue)

\* How posting and handling messages keep the exec unique, whatever the order
\* of the taps.
LEMMA ExecQueue ==
  ASSUME NEW q \in Seq(Message), OneExec(q)
  PROVE  /\ \A m \in Message :
              m.op # "exec" \/ ~HasMsg(q, "exec") => OneExec(Append(q, m))
         /\ q # <<>> =>
              /\ OneExec(Tail(q))
              /\ Head(q).op = "exec" => ~HasMsg(Tail(q), "exec")
<1>1. ASSUME NEW m \in Message, m.op # "exec" \/ ~HasMsg(q, "exec")
      PROVE  OneExec(Append(q, m))
  <2>1. /\ Len(Append(q, m)) = Len(q) + 1
        /\ \A k \in 1..Len(q) : Append(q, m)[k] = q[k]
        /\ Append(q, m)[Len(q) + 1] = m
        /\ Len(q) \in Nat
    OBVIOUS
  <2>2. \A k \in 1..(Len(q) + 1) : k \in 1..Len(q) \/ k = Len(q) + 1
    BY <2>1
  <2>3. QED
    BY <1>1, <2>1, <2>2 DEF OneExec, HasMsg
<1>2. ASSUME q # <<>>
      PROVE  OneExec(Tail(q)) /\ (Head(q).op = "exec" => ~HasMsg(Tail(q), "exec"))
  <2>1. /\ Len(q) \in Nat \ {0}
        /\ Len(Tail(q)) = Len(q) - 1
        /\ \A k \in 1..Len(Tail(q)) : k + 1 \in 1..Len(q) /\ Tail(q)[k] = q[k + 1]
        /\ Head(q) = q[1]
        /\ 1 \in 1..Len(q)
    BY <1>2
  <2>2. QED
    BY <2>1 DEF OneExec, HasMsg
<1>3. QED
  BY <1>1, <1>2

\* A waiting runnable keeps its place: a message posted later comes behind it,
\* and handling another message brings it nearer.
LEMMA LoadKeepsPlace ==
  ASSUME NEW q \in Seq(Message), LoadFirst(q)
  PROVE  /\ \A m \in Message : LoadFirst(Append(q, m))
         /\ q # <<>>
         /\ Head(q).op # "relaunch"
         /\ Head(q).op # "load" => LoadFirst(Tail(q))
<1>1. PICK k \in 1..Len(q) : q[k].op = "load" /\ \A j \in 1..k : q[j].op # "relaunch"
  BY DEF LoadFirst
<1>2. /\ Len(q) \in Nat \ {0}
      /\ Len(Tail(q)) = Len(q) - 1
      /\ \A j \in 1..Len(Tail(q)) : j + 1 \in 1..Len(q) /\ Tail(q)[j] = q[j + 1]
      /\ Head(q) = q[1]
      /\ 1 \in 1..k
  BY <1>1
<1>3. ASSUME NEW m \in Message PROVE LoadFirst(Append(q, m))
  <2>1. /\ Len(Append(q, m)) = Len(q) + 1
        /\ \A j \in 1..Len(q) : Append(q, m)[j] = q[j]
    OBVIOUS
  <2>2. k \in 1..Len(Append(q, m)) /\ \A j \in 1..k : j \in 1..Len(q)
    BY <1>1, <1>2, <2>1
  <2>3. QED
    BY <1>1, <2>1, <2>2 DEF LoadFirst
<1>4. ASSUME Head(q).op # "load" PROVE LoadFirst(Tail(q))
  <2>1. k # 1
    BY <1>1, <1>2, <1>4
  <2>2. /\ k - 1 \in 1..Len(Tail(q)) /\ (k - 1) + 1 = k
        /\ \A j \in 1..(k - 1) : j + 1 \in 1..k /\ j \in 1..Len(Tail(q))
    BY <1>2, <2>1
  <2>3. Tail(q)[k - 1].op = "load"
    BY <1>1, <1>2, <2>2
  <2>4. \A j \in 1..(k - 1) : Tail(q)[j].op # "relaunch"
    BY <1>1, <1>2, <2>2
  <2>5. QED
    BY <2>2, <2>3, <2>4 DEF LoadFirst
<1>5. QED
  BY <1>1, <1>2, <1>3, <1>4

\* A page's fragment is not the empty frame.
LEMMA FragmentShows == \A f \in Fragment : f # NoFragment
BY DEF Fragment, NoFragment, Pages

\* A relaunch that comes in while a handler runs brings no exec and stays behind
\* the runnables that wait.
LEMMA MeanwhileFill ==
  ASSUME NEW q \in Seq(Message), OneExec(q), NEW rest \in Meanwhile(q)
  PROVE  /\ rest \in Seq(Message) /\ OneExec(rest)
         /\ HasMsg(rest, "exec") <=> HasMsg(q, "exec")
         /\ LoadFirst(q) => LoadFirst(rest)
<1>1. Msg("relaunch") \in Message /\ Msg("relaunch").op # "exec"
  BY DEF Msg, Message
<1>2. /\ OneExec(Append(q, Msg("relaunch")))
      /\ HasMsg(Append(q, Msg("relaunch")), "exec") <=> HasMsg(q, "exec")
      /\ LoadFirst(q) => LoadFirst(Append(q, Msg("relaunch")))
  BY <1>1, ExecQueue, HasMsgAppend, LoadKeepsPlace
<1>3. QED
  BY <1>2, MeanwhileQueue

\* The queue of an activity that has just run onCreate(null).
LEMMA FirstQueue ==
  ASSUME NEW rest \in Meanwhile(<<>>)
  PROVE  /\ OneExec(Append(rest, Msg("load")))
         /\ ~HasMsg(Append(rest, Msg("load")), "exec")
         /\ rest = <<>> => LoadFirst(Append(rest, Msg("load")))
<1>1. /\ <<>> \in Seq(Message) /\ OneExec(<<>>) /\ ~HasMsg(<<>>, "exec")
      /\ Msg("load") \in Message /\ Msg("load").op = "load"
  BY HasMsgEmpty DEF OneExec, Msg, Message
<1>2. rest \in Seq(Message) /\ OneExec(rest) /\ ~HasMsg(rest, "exec")
  BY <1>1, MeanwhileFill
<1>3. OneExec(Append(rest, Msg("load"))) /\ ~HasMsg(Append(rest, Msg("load")), "exec")
  BY <1>1, <1>2, ExecQueue, HasMsgAppend
<1>4. Append(<<>>, Msg("load")) = <<Msg("load")>>
  OBVIOUS
<1>5. LoadFirst(<<Msg("load")>>)
  BY <1>1 DEF LoadFirst
<1>6. QED
  BY <1>3, <1>4, <1>5

\* The first runnable is posted when the activity starts.
LEMMA FillInit == Init => FillInv
<1>1. SUFFICES ASSUME Init PROVE FillInv
  OBVIOUS
<1>2. PICK rest \in Meanwhile(<<>>) :
        queue = Append(rest, Msg("load")) /\ overtaken = (rest # <<>>)
  BY <1>1 DEF Init
<1>3. OneExec(queue) /\ ~HasMsg(queue, "exec") /\ (~overtaken => LoadFirst(queue))
  BY <1>2, FirstQueue
<1>4. QED
  BY <1>1, <1>3, TypeInit DEF Init, FillInv

\* Every step keeps the frame filled or its first transaction ahead of it.
LEMMA FillStep == FillInv /\ [Next]_vars => FillInv'
<1>1. SUFFICES ASSUME FillInv, [Next]_vars, TypeOK, TypeOK' PROVE FillInv'
  BY TypeStep DEF FillInv
<1>2. /\ queue \in Seq(Message) /\ pending \in Seq(Fragment)
      /\ app \in {"running", "exited"}
  BY <1>1 DEF TypeOK
<1>3. /\ OneExec(queue)
      /\ HasMsg(queue, "exec") <=> pending # <<>>
      /\ app = "exited" => queue = <<>> /\ frame = NoFragment /\ leaving = {}
      /\ app = "running" /\ ~overtaken /\ frame = NoFragment /\ pending = <<>>
           => LoadFirst(queue)
  BY <1>1 DEF FillInv
<1>4. queue # <<>> =>
        /\ app = "running"
        /\ Tail(queue) \in Seq(Message) /\ OneExec(Tail(queue))
        /\ \A op : HasMsg(queue, op) <=> HasMsg(Tail(queue), op) \/ Head(queue).op = op
  BY <1>2, <1>3, HasMsgTail, ExecQueue
<1>5. OneExec(<<>>) /\ ~HasMsg(<<>>, "exec")
  BY HasMsgEmpty DEF OneExec
<1>6. ASSUME NEW r \in Seq(Message), OneExec(r), NEW m \in Message, m.op # "exec"
      PROVE  /\ OneExec(Append(r, m))
             /\ HasMsg(Append(r, m), "exec") <=> HasMsg(r, "exec")
             /\ LoadFirst(r) => LoadFirst(Append(r, m))
  BY <1>6, ExecQueue, HasMsgAppend, LoadKeepsPlace
<1>7. Msg("load") \in Message /\ Msg("load").op = "load"
  BY DEF Msg, Message
<1>8. ASSUME UNCHANGED <<app, overtaken, queue, pending, frame>>,
             app = "exited" => UNCHANGED leaving
      PROVE  FillInv'
  BY <1>1, <1>3, <1>8 DEF FillInv
<1>9. ASSUME NEW r \in Seq(Message), OneExec(r), app' = "running",
             queue' = r \/ queue' = Append(r, Msg("load")),
             HasMsg(r, "exec") <=> HasMsg(queue, "exec"),
             LoadFirst(queue) => LoadFirst(r), app = "running",
             UNCHANGED <<overtaken, pending, frame>>
      PROVE  FillInv'
  <2>1. /\ OneExec(queue') /\ (HasMsg(queue', "exec") <=> HasMsg(queue, "exec"))
        /\ LoadFirst(queue) => LoadFirst(queue')
    BY <1>6, <1>7, <1>9
  <2>2. QED
    BY <1>1, <1>3, <1>9, <2>1 DEF FillInv
<1>10. CASE HandleClick
  <2>1. /\ queue # <<>> /\ Head(queue).op = "click"
        /\ UNCHANGED <<app, overtaken, pending, frame>>
    BY <1>10 DEF HandleClick, frags
  <2>2. PICK rest \in Meanwhile(Tail(queue)) : onNavigationItemSelected(Head(queue).item, rest)
    BY <1>10 DEF HandleClick
  <2>3. queue' = rest \/ queue' = Append(rest, Msg("load"))
    BY <2>2 DEF onNavigationItemSelected, loadHomeFragment
  <2>4. LoadFirst(queue) => LoadFirst(Tail(queue))
    BY <1>2, <2>1, LoadKeepsPlace
  <2>5. /\ rest \in Seq(Message) /\ OneExec(rest)
        /\ HasMsg(rest, "exec") <=> HasMsg(queue, "exec")
        /\ LoadFirst(queue) => LoadFirst(rest)
    <3>1. HasMsg(Tail(queue), "exec") <=> HasMsg(queue, "exec")
      BY <1>4, <2>1
    <3>2. QED
      BY <1>4, <2>1, <2>4, <3>1, MeanwhileFill
  <2>6. QED
    BY <1>4, <1>9, <2>1, <2>3, <2>5
<1>11. CASE HandleLoad
  <2>1. PICK rest \in Meanwhile(Tail(queue)) :
          queue' = IF pending = <<>> THEN Append(rest, Msg("exec")) ELSE rest
    BY <1>11 DEF HandleLoad
  <2>0. queue # <<>> /\ Head(queue).op = "load" /\ UNCHANGED <<app, frame>>
    BY <1>11 DEF HandleLoad
  <2>m. /\ rest \in Seq(Message) /\ OneExec(rest)
        /\ HasMsg(rest, "exec") <=> HasMsg(queue, "exec")
    <3>1. HasMsg(Tail(queue), "exec") <=> HasMsg(queue, "exec")
      BY <1>4, <2>0
    <3>2. QED
      BY <1>4, <2>0, <3>1, MeanwhileFill
  <2>2. pending' # <<>>
    <3>1. [page |-> getHomeFragment, tag |-> CURRENT_TAG] \in Fragment
      BY <1>1 DEF TypeOK, getHomeFragment, Fragment
    <3>2. \A f \in Fragment : Append(pending, f) # <<>>
      BY <1>2
    <3>3. QED
      BY <1>11, <3>1, <3>2 DEF HandleLoad
  <2>3. Msg("exec") \in Message /\ Msg("exec").op = "exec"
    BY DEF Msg, Message
  <2>4. OneExec(queue') /\ HasMsg(queue', "exec")
    <3>1. CASE pending = <<>>
      <4>1. ~HasMsg(rest, "exec")
        BY <1>3, <2>m, <3>1
      <4>2. QED
        BY <2>1, <2>3, <2>m, <3>1, <4>1, ExecQueue, HasMsgAppend
    <3>2. CASE pending # <<>>
      BY <1>3, <2>1, <2>m, <3>2
    <3>3. QED
      BY <3>1, <3>2
  <2>5. QED
    BY <1>1, <1>4, <2>0, <2>2, <2>4 DEF FillInv
<1>12. CASE HandleExec
  <2>1. /\ queue # <<>> /\ Head(queue).op = "exec" /\ pending # <<>>
        /\ frame' = pending[Len(pending)] /\ pending' = <<>> /\ queue' = Tail(queue)
        /\ app' = app
    BY <1>12 DEF HandleExec
  <2>2. ~HasMsg(queue', "exec") /\ OneExec(queue')
    BY <1>2, <1>3, <2>1, ExecQueue
  <2>3. pending[Len(pending)] \in Fragment
    BY <1>2, <2>1
  <2>4. frame' # NoFragment
    BY <2>1, <2>3, FragmentShows
  <2>5. QED
    BY <1>1, <1>4, <2>1, <2>2, <2>4 DEF FillInv
<1>13. CASE HandleRelaunch
  <2>1. /\ queue # <<>> /\ Head(queue).op = "relaunch"
        /\ frame' = IF pending = <<>> THEN frame ELSE pending[Len(pending)]
        /\ pending' = <<>> /\ queue' = <<>> /\ UNCHANGED <<app, overtaken>>
    BY <1>13 DEF HandleRelaunch
  <2>2. ~LoadFirst(queue)
    BY <1>2, <2>1, LoadKeepsPlace
  <2>3. pending # <<>> => pending[Len(pending)] \in Fragment
    BY <1>2
  <2>4. ~overtaken => frame' # NoFragment
    BY <1>3, <1>4, <2>1, <2>2, <2>3, FragmentShows
  <2>5. QED
    BY <1>1, <1>4, <1>5, <2>1, <2>4 DEF FillInv
<1>14. CASE \E i \in Items : TapItem(i)
  <2>1. PICK i \in Items : TapItem(i)
    BY <1>14
  <2>2. Click(i) \in Message /\ Click(i).op # "exec"
    BY NavAssumption DEF Click, Message, Pages, OnAir, Social
  <2>3. /\ app = "running" /\ queue' = Append(queue, Click(i))
        /\ UNCHANGED <<app, overtaken, pending, frame>>
    BY <2>1 DEF TapItem, InputEnabled, frags
  <2>4. /\ OneExec(queue') /\ (HasMsg(queue', "exec") <=> HasMsg(queue, "exec"))
        /\ LoadFirst(queue) => LoadFirst(queue')
    BY <1>2, <1>3, <1>6, <2>2, <2>3
  <2>5. QED
    BY <1>1, <1>3, <2>3, <2>4 DEF FillInv
<1>15. CASE onBackPressed
  <2>1. app = "running"
    BY <1>15 DEF onBackPressed, InputEnabled
  <2>2. CASE UNCHANGED <<app, overtaken, statics, bar, queue, frags>>
    BY <1>8, <2>2 DEF frags
  <2>3. CASE /\ \E rest \in Meanwhile(queue) : loadHomeFragment(Home, Home, rest)
             /\ UNCHANGED <<app, overtaken, frags>>
    <3>1. PICK rest \in Meanwhile(queue) : loadHomeFragment(Home, Home, rest)
      BY <2>3
    <3>2. queue' = rest \/ queue' = Append(rest, Msg("load"))
      BY <3>1 DEF loadHomeFragment
    <3>3. /\ rest \in Seq(Message) /\ OneExec(rest)
          /\ HasMsg(rest, "exec") <=> HasMsg(queue, "exec")
          /\ LoadFirst(queue) => LoadFirst(rest)
      BY <1>2, <1>3, MeanwhileFill
    <3>4. QED
      BY <1>9, <2>1, <2>3, <3>2, <3>3 DEF frags
  <2>4. CASE /\ app' = "exited" /\ queue' = <<>> /\ pending' = <<>>
             /\ frame' = NoFragment /\ leaving' = {}
    BY <1>1, <1>5, <2>4 DEF FillInv
  <2>5. QED
    BY <1>15, <2>2, <2>3, <2>4 DEF onBackPressed
<1>16. CASE onCreate
  <2>1. app = "exited" /\ app' = "running" /\ UNCHANGED <<pending, frame>>
    BY <1>16 DEF onCreate, frags
  <2>2. PICK rest \in Meanwhile(<<>>) :
          loadHomeFragment(Home, Home, rest) /\ overtaken' = (rest # <<>>)
    BY <1>16 DEF onCreate
  <2>3. queue' = Append(rest, Msg("load"))
    BY <1>3, <2>1, <2>2 DEF loadHomeFragment, findFragmentByTag, NoFragment, Home
  <2>4. OneExec(queue') /\ ~HasMsg(queue', "exec") /\ (~overtaken' => LoadFirst(queue'))
    BY <2>2, <2>3, FirstQueue
  <2>5. QED
    BY <1>1, <1>3, <1>5, <2>1, <2>4 DEF FillInv
<1>17. CASE OpenDrawer \/ CloseDrawer \/ DrawerSettles
  BY <1>8, <1>17 DEF OpenDrawer, CloseDrawer, DrawerSettles, frags
<1>18. CASE Rotate
  <2>1. /\ app = "running" /\ queue' = Append(queue, Msg("relaunch"))
        /\ UNCHANGED <<app, overtaken, pending, frame>>
    BY <1>18 DEF Rotate, InputEnabled, frags
  <2>2. Msg("relaunch") \in Message /\ Msg("relaunch").op # "exec"
    BY DEF Msg, Message
  <2>3. /\ OneExec(queue') /\ (HasMsg(queue', "exec") <=> HasMsg(queue, "exec"))
        /\ LoadFirst(queue) => LoadFirst(queue')
    BY <1>2, <1>3, <1>6, <2>1, <2>2
  <2>4. QED
    BY <1>1, <1>3, <2>1, <2>3 DEF FillInv
<1>19. CASE KillAndRestore
  BY <1>8, <1>19 DEF KillAndRestore
<1>20. CASE \E t \in Pages : FadeEnds(t)
  <2>1. leaving # {} /\ UNCHANGED <<app, overtaken, queue, pending, frame>>
    BY <1>20 DEF FadeEnds
  <2>2. QED
    BY <1>3, <1>8, <2>1
<1>21. CASE UNCHANGED vars
  BY <1>8, <1>21 DEF vars, frags
<1>22. QED
  BY <1>1, <1>10, <1>11, <1>12, <1>13, <1>14, <1>15, <1>16, <1>17, <1>18, <1>19, <1>20, <1>21
     DEF Next, HandleMessage

\* An activity with nothing left to do shows a page, for every user and every
\* interruption, unless a relaunch came while its onCreate(null) ran: a rotation
\* after the first runnable was posted and before the first page, a Back key
\* pressed while it loads or a kill never leaves the frame of
\* MainActivity.java:158-165 empty.
THEOREM ActivityNeverBlank == Spec => []NeverBlank
<1>1. FillInv => NeverBlank
  <2>1. SUFFICES ASSUME FillInv, app = "running", queue = <<>>, ~overtaken
                 PROVE  frame # NoFragment
    BY DEF NeverBlank
  <2>2. pending = <<>> /\ ~LoadFirst(<<>>)
    BY <2>1, HasMsgEmpty DEF FillInv, LoadFirst
  <2>3. QED
    BY <2>1, <2>2 DEF FillInv
<1>2. QED
  BY <1>1, FillInit, FillStep, PTL DEF Spec

\* The exec that the FragmentManager posts with the first commit finds the
\* transactions it was posted for: no commit posts a second one, and neither a
\* relaunch nor an earlier exec empties the list under it.
THEOREM ExecFindsWork ==
  Spec => [](queue # <<>> /\ Head(queue).op = "exec" => pending # <<>>)
<1>1. FillInv => (queue # <<>> /\ Head(queue).op = "exec" => pending # <<>>)
  <2>1. SUFFICES ASSUME FillInv, queue # <<>>, Head(queue).op = "exec" PROVE pending # <<>>
    OBVIOUS
  <2>2. HasMsg(queue, "exec")
    BY <2>1, HasMsgTail DEF FillInv, TypeOK
  <2>3. QED
    BY <2>1, <2>2 DEF FillInv
<1>2. QED
  BY <1>1, FillInit, FillStep, PTL DEF Spec
=============================================================================
