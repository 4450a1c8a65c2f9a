----------------------------- MODULE NavDrawer -----------------------------
(***************************************************************************)
(* Navigation of the Android application: MainActivity.java.               *)
(*                                                                         *)
(* One activity hosts one fragment in R.id.frame.  The drawer's items, and *)
(* the Back key, write two process-wide statics, navItemIndex and          *)
(* CURRENT_TAG, and post a runnable on the main looper which reads those   *)
(* statics again when it runs and commits the fragment transaction.  The   *)
(* commit is itself asynchronous.  So three steps, with other messages and *)
(* key events between them, stand between a selection and the page:        *)
(*                                                                         *)
(*    click -> (statics, title) -> load -> (transaction) -> exec -> frame  *)
(*                                                                         *)
(* Pages and their tags are numbered as the drawer's items are:            *)
(*   0 home, 1 Liquor, 2 Coffee, 3 Travel, 4 Events, 5 Lifestyle, and the  *)
(*   items of "Other": 6 On Air, 7 Facebook, 8 Twitter, 9 Instagram.       *)
(***************************************************************************)
EXTENDS Integers, Sequences

CONSTANTS
  Items,       \* the drawer items the user selects
  MaxTaps,     \* bound on taps waiting in the main queue
  Hasty,       \* may input and rotation arrive before the screen is at rest?
  Interrupts   \* subset of {"rotate", "kill"}

Pages  == 0..5
OnAir  == 6
Social == 7..9
Home   == 0

ASSUME NavAssumption ==
  /\ Items \subseteq Pages \cup {OnAir} \cup Social
  /\ MaxTaps \in Nat \ {0}
  /\ Hasty \in BOOLEAN
  /\ Interrupts \subseteq {"rotate", "kill"}

VARIABLES
  app,            \* "running", or "exited" after the last Back
  overtaken,      \* history: a relaunch came while onCreate(null) ran
  navItemIndex,   \* static int navItemIndex
  CURRENT_TAG,    \* static String CURRENT_TAG, by number
  title,          \* the toolbar title: the page it names
  checked,        \* the highlighted item of the NavigationView
  drawer,         \* the DrawerLayout
  queue,          \* messages posted on the main looper
  pending,        \* transactions committed and not executed
  frame,          \* the fragment in R.id.frame
  leaving         \* tags of the replaced fragments that still fade out

statics == <<navItemIndex, CURRENT_TAG>>
bar     == <<title, checked>>
frags   == <<pending, frame, leaving>>
vars    == <<app, overtaken, statics, bar, drawer, queue, frags>>

NoFragment == [page |-> -1, tag |-> -1]
Fragment   == [page : Pages, tag : Pages]
Message    == [op : {"click", "load", "exec", "relaunch"}, item : 0..9]

Msg(op)   == [op |-> op, item |-> 0]
Click(i)  == [op |-> "click", item |-> i]

HasMsg(q, op) == \E k \in 1..Len(q) : q[k].op = op

\* The state is well typed: the statics always name one of the six pages, and so
\* does everything that waits in the looper and in the FragmentManager.
TypeOK ==
  /\ app \in {"running", "exited"}
  /\ overtaken \in BOOLEAN
  /\ navItemIndex \in Pages
  /\ CURRENT_TAG \in Pages
  /\ title \in Pages
  /\ checked \in Pages
  /\ drawer \in {"closed", "opening", "open", "closing"}
  /\ queue \in Seq(Message)
  /\ pending \in Seq(Fragment)
  /\ frame \in Fragment \cup {NoFragment}
  /\ leaving \subseteq Pages

-----------------------------------------------------------------------------
(* The library's side: DrawerLayout, FragmentManager, the looper.          *)

\* DrawerLayout.isDrawerOpen: true until the closing slide has ended, and
\* only once the opening one has.
isDrawerOpen == drawer \in {"open", "closing"}

\* DrawerLayout.closeDrawers starts the closing slide.
closeDrawers == IF drawer = "closed" THEN "closed" ELSE "closing"

\* FragmentManager.findFragmentByTag looks at the added fragments and then at
\* every active one; a replaced fragment stays active while it fades out.
findFragmentByTag(tag) == frame.tag = tag \/ tag \in leaving

\* While the window is being rotated no input is delivered.
InputEnabled == app = "running" /\ ~HasMsg(queue, "relaunch")

\* A relaunch is posted by another thread, so one may come in while a handler
\* runs, and it then stands before what that handler posts.  The queues that a
\* handler may find when it posts, q having been the queue when it began:
Meanwhile(q) ==
  {q} \cup IF Hasty /\ "rotate" \in Interrupts /\ ~HasMsg(q, "relaunch")
          THEN {Append(q, Msg("relaunch"))} ELSE {}

\* A user who is not hasty waits until the last page change has faded in.
Patient == Hasty \/ leaving = {}

-----------------------------------------------------------------------------
(* MainActivity                                                            *)

\* onCreate without a saved state posts home's runnable.
Init ==
  /\ app = "running"
  /\ navItemIndex = Home /\ CURRENT_TAG = Home
  /\ title = Home /\ checked = Home
  /\ drawer = "closed"
  /\ \E rest \in Meanwhile(<<>>) :
       /\ queue = Append(rest, Msg("load"))
       /\ overtaken = (rest # <<>>)
  /\ pending = <<>> /\ frame = NoFragment /\ leaving = {}

\* Variant: two cases of the switch exchanged.
getHomeFragment_casesExchanged ==
  IF navItemIndex = 2 THEN 4 ELSE IF navItemIndex = 4 THEN 2 ELSE navItemIndex

\* getHomeFragment: the page of navItemIndex (its default is never taken).
getHomeFragment == navItemIndex

\* loadHomeFragment once the statics are idx and tag, rest being the queue it
\* posts to.  It highlights and titles first; a page whose tag is found only
\* closes the drawer.
loadHomeFragment(idx, tag, rest) ==
  /\ navItemIndex' = idx
  /\ CURRENT_TAG' = tag
  /\ checked' = idx
  /\ title' = idx
  /\ drawer' = closeDrawers
  /\ queue' = IF findFragmentByTag(tag) THEN rest ELSE Append(rest, Msg("load"))

\* Variant: the Events case forgets CURRENT_TAG.
onNavigationItemSelected_noEventsTag(i, rest) ==
  loadHomeFragment(i, IF i = 4 THEN CURRENT_TAG ELSE i, rest)

\* onNavigationItemSelected for item i, run by the main looper.
onNavigationItemSelected(i, rest) ==
  \/ /\ i \in Pages
     /\ loadHomeFragment(i, i, rest)
  \/ /\ i = OnAir
     /\ queue' = rest
     /\ UNCHANGED <<statics, bar, drawer>>
  \/ /\ i \in Social
     /\ loadHomeFragment(Home, CURRENT_TAG, rest)

\* A touch on a drawer item posts the click; the touches that were buffered
\* while the main thread was busy all land before the first click runs.
TapItem(i) ==
  /\ InputEnabled /\ Patient
  /\ drawer = "open"
  /\ Len(queue) < MaxTaps
  /\ queue' = Append(queue, Click(i))
  /\ UNCHANGED <<app, overtaken, statics, bar, drawer, frags>>

HandleClick ==
  /\ queue # <<>> /\ Head(queue).op = "click"
  /\ \E rest \in Meanwhile(Tail(queue)) : onNavigationItemSelected(Head(queue).item, rest)
  /\ UNCHANGED <<app, overtaken, frags>>

\* Variant: the runnable gives up while the drawer still slides.
HandleLoad_onlyWhenClosed ==
  /\ queue # <<>> /\ Head(queue).op = "load"
  /\ pending' = IF isDrawerOpen THEN pending
                ELSE Append(pending, [page |-> getHomeFragment, tag |-> CURRENT_TAG])
  /\ \E rest \in Meanwhile(Tail(queue)) :
       queue' = IF pending = <<>> /\ ~isDrawerOpen THEN Append(rest, Msg("exec")) ELSE rest
  /\ UNCHANGED <<app, overtaken, statics, bar, drawer, frame, leaving>>

\* mPendingRunnable: it reads the statics now, not when it was posted.  The
\* manager posts one exec for all the transactions that are pending.
HandleLoad ==
  /\ queue # <<>> /\ Head(queue).op = "load"
  /\ pending' = Append(pending, [page |-> getHomeFragment, tag |-> CURRENT_TAG])
  /\ \E rest \in Meanwhile(Tail(queue)) :
       queue' = IF pending = <<>> THEN Append(rest, Msg("exec")) ELSE rest
  /\ UNCHANGED <<app, overtaken, statics, bar, drawer, frame, leaving>>

\* The transactions run: each replaces what the frame holds.
Replaced ==
  {f.tag : f \in ({frame} \ {NoFragment}) \cup
                 {pending[k] : k \in 1..(Len(pending) - 1)}}

HandleExec ==
  /\ queue # <<>> /\ Head(queue).op = "exec"
  /\ pending # <<>>
  /\ frame' = pending[Len(pending)]
  /\ leaving' = leaving \cup Replaced
  /\ pending' = <<>>
  /\ queue' = Tail(queue)
  /\ UNCHANGED <<app, overtaken, statics, bar, drawer>>

FadeEnds(tag) ==
  /\ tag \in leaving
  /\ leaving' = leaving \ {tag}
  /\ UNCHANGED <<app, overtaken, statics, bar, drawer, queue, pending, frame>>

\* Variant: shouldLoadHomeFragOnBackPress is off.
onBackPressed_neverLoadsHome ==
  /\ InputEnabled /\ Patient
  /\ IF isDrawerOpen
     THEN drawer' = closeDrawers /\ UNCHANGED <<app, queue, frags>>
     ELSE /\ app' = "exited" /\ drawer' = "closed"
          /\ queue' = <<>> /\ pending' = <<>> /\ frame' = NoFragment /\ leaving' = {}
  /\ UNCHANGED <<overtaken, statics, bar>>

\* onBackPressed.  super.onBackPressed finishes the activity.
onBackPressed ==
  /\ InputEnabled /\ Patient
  /\ \/ /\ isDrawerOpen
        /\ drawer' = closeDrawers
        /\ UNCHANGED <<app, overtaken, statics, bar, queue, frags>>
     \/ /\ ~isDrawerOpen
        /\ navItemIndex # Home
        /\ \E rest \in Meanwhile(queue) : loadHomeFragment(Home, Home, rest)
        /\ UNCHANGED <<app, overtaken, frags>>
     \/ /\ ~isDrawerOpen
        /\ navItemIndex = Home
        /\ app' = "exited"
        /\ drawer' = "closed"
        /\ queue' = <<>> /\ pending' = <<>>
        /\ frame' = NoFragment /\ leaving' = {}
        /\ UNCHANGED <<overtaken, statics, bar>>

\* The user starts the application again: onCreate(null) resets the statics,
\* which outlive the activity, and posts home's runnable.
onCreate ==
  /\ app = "exited"
  /\ app' = "running"
  /\ \E rest \in Meanwhile(<<>>) :
       /\ loadHomeFragment(Home, Home, rest)
       /\ overtaken' = (rest # <<>>)
  /\ UNCHANGED frags

-----------------------------------------------------------------------------
(* The drawer moves: a slide or a drag lasts several frames, so what was    *)
(* posted before it began has run when it ends.                            *)

OpenDrawer ==
  /\ InputEnabled
  /\ \/ drawer = "closed"
     \/ drawer = "closing" /\ queue = <<>>
  /\ drawer' = "opening"
  /\ UNCHANGED <<app, overtaken, statics, bar, queue, frags>>

CloseDrawer ==
  /\ InputEnabled
  /\ drawer \in {"open", "opening"}
  /\ drawer' = "closing"
  /\ UNCHANGED <<app, overtaken, statics, bar, queue, frags>>

DrawerSettles ==
  /\ app = "running"
  /\ queue = <<>>
  /\ \/ drawer = "opening" /\ drawer' = "open"
     \/ drawer = "closing" /\ drawer' = "closed"
  /\ UNCHANGED <<app, overtaken, statics, bar, queue, frags>>

-----------------------------------------------------------------------------
(* Recreation: MainActivity is neither locked to portrait nor does it       *)
(* handle configuration changes.                                           *)

Rotate ==
  /\ "rotate" \in Interrupts
  /\ InputEnabled
  /\ Hasty \/ queue = <<>>
  /\ queue' = Append(queue, Msg("relaunch"))
  /\ UNCHANGED <<app, overtaken, statics, bar, drawer, frags>>

\* The saved drawer: open if it was open or about to be.
RestoredDrawer == IF drawer \in {"open", "opening"} THEN "open" ELSE "closed"

\* Variant: the transactions that were pending are lost on recreation.
HandleRelaunch_losesPending ==
  /\ queue # <<>> /\ Head(queue).op = "relaunch"
  /\ pending' = <<>> /\ leaving' = {}
  /\ queue' = <<>>
  /\ title' = Home
  /\ drawer' = RestoredDrawer
  /\ UNCHANGED <<app, overtaken, statics, checked, frame>>

\* Saving the state runs the pending transactions; the old activity's clicks
\* go with its views and its runnables commit to a dead manager, which drops
\* them.  onCreate(saved) loads nothing and leaves the title to the activity
\* label, which is the title of home.
HandleRelaunch ==
  /\ queue # <<>> /\ Head(queue).op = "relaunch"
  /\ frame' = IF pending = <<>> THEN frame ELSE pending[Len(pending)]
  /\ pending' = <<>> /\ leaving' = {}
  /\ queue' = <<>>
  /\ title' = Home
  /\ drawer' = RestoredDrawer
  /\ UNCHANGED <<app, overtaken, statics, checked>>

\* The process is killed in the background, idle, and recreated from the saved
\* state: the statics are initialized again, the fragments are restored.
KillAndRestore ==
  /\ "kill" \in Interrupts
  /\ app = "running" /\ queue = <<>>
  /\ navItemIndex' = Home /\ CURRENT_TAG' = Home
  /\ title' = Home
  /\ leaving' = {}
  /\ drawer' = RestoredDrawer
  /\ UNCHANGED <<app, overtaken, checked, queue, pending, frame>>

-----------------------------------------------------------------------------
HandleMessage == HandleClick \/ HandleLoad \/ HandleExec \/ HandleRelaunch

Next ==
  \/ HandleMessage
  \/ \E i \in Items : TapItem(i)
  \/ onBackPressed
  \/ onCreate
  \/ OpenDrawer \/ CloseDrawer \/ DrawerSettles
  \/ Rotate \/ KillAndRestore
  \/ \E t \in Pages : FadeEnds(t)

\* The looper handles its messages, and animations end.
Fairness ==
  /\ WF_vars(HandleMessage)
  /\ WF_vars(DrawerSettles)
  /\ WF_vars(\E t \in Pages : FadeEnds(t))

Spec     == Init /\ [][Next]_vars
FairSpec == Spec /\ Fairness

-----------------------------------------------------------------------------
(* Properties                                                              *)

\* The fragment the frame holds once everything posted so far has run.
Target ==
  IF HasMsg(queue, "load") THEN [page |-> navItemIndex, tag |-> CURRENT_TAG]
  ELSE IF pending # <<>> THEN pending[Len(pending)]
  ELSE frame

\* Whatever is interleaved, what is on screen, or on its way there, is the page
\* and the tag that the statics name, and the highlight names it too:
\* loadHomeFragment (MainActivity.java:145-177) never loses a selection.
OnCourse ==
  app = "running" =>
    /\ Target = [page |-> navItemIndex, tag |-> CURRENT_TAG]
    /\ checked = navItemIndex

\* A fragment is always attached under its own page's tag, so that the test of
\* MainActivity.java:153 cannot take one page for another.
TagHonest ==
  /\ frame.tag = frame.page
  /\ \A k \in 1..Len(pending) : pending[k].tag = pending[k].page

\* MainActivity.java:287: "This code loads home fragment when back key is
\* pressed when user is in other fragment than home": the Back key leaves the
\* application from the home page only.
ExitOnlyFromHome ==
  [][app = "running" /\ app' = "exited" => Target.page = Home]_vars

\* Eventually the page the statics name is on the screen, unless they name
\* another by then or the application is left.
IndexShown ==
  \A i \in Pages :
    navItemIndex = i ~> (frame.page = i \/ navItemIndex # i \/ app = "exited")

\* Whatever was rotated away, killed or raced, an idle activity shows a page: the
\* one transaction that fills the frame (MainActivity.java:158-165) survives,
\* unless a relaunch came while onCreate ran, before mHandler.post (line 169).
\* Then the activity is recreated from a state without fragments, and the test of
\* savedInstanceState (line 96) keeps its successor from loading home.
NeverBlank == app = "running" /\ queue = <<>> => frame # NoFragment \/ overtaken

\* A relaunch is ahead of a runnable: it destroys the activity whose manager the
\* runnable is going to use.
RelaunchAhead == \E k \in 1..Len(queue) : \E j \in 1..k :
  queue[k].op = "load" /\ queue[j].op = "relaunch"

\* A page whose runnable was posted comes to the screen, with input during the
\* fades, rotations and kills: unless another page is chosen by then, the
\* application is left, or a relaunch stands before the runnable, which is the one
\* way in which MainActivity loses a page it is about to load.
PostedPageArrives ==
  \A i \in Pages :
    HasMsg(queue, "load") /\ navItemIndex = i
      ~> (frame.page = i \/ navItemIndex # i \/ app = "exited" \/ RelaunchAhead)
=============================================================================
