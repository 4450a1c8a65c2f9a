# Jazz on the Move: a TLA+ verification project

Jazz on the Move is a small lifestyle-deals application in two native versions:
`src/Android` (Java, one activity with fragments, Firestore, async-http) and
`src/iOS` (Swift/UIKit, child view controllers, Firestore listeners, Alamofire).
There is no server code in the repository and no test beyond the generated
templates; the documentation is the comments in the code. The hard part of such
a program is not its data but its order of events: everything runs on one main
thread, but in many small turns, between which taps, rotations, answers of the
network and ends of animations arrive in any order. That is what the models are
about.

Paths below are relative to `src/Android/app/src/main/java/ug/code/jazzonthemove/`
(A) and `src/iOS/Jazz On the Move/` (I).

## Inventory

| Component | State | Operations | What is hard | What makes it correct |
|---|---|---|---|---|
| Android navigation, A `MainActivity.java` | statics `navItemIndex`, `CURRENT_TAG`; toolbar title, highlighted item, drawer, looper queue, pending transactions, attached fragments | drawer item, Back, drawer toggle, load runnable, transaction, recreation, process death | three asynchronous steps between a tap and the page, each reading the statics again; fragments still fading out; recreation | the page shown is the page the statics name; Back leaves from home only; a blank screen or a lost page only by a relaunch that overtakes a runnable |
| Android floating menu, A `fragment/HomeFragment.java` | `isFABOpen`, visibilities, three view animators and a listener | open, close, animation frames and ends | taps during a movement, a listener that outlives its animation, relative heights | open implies visible; closed leaves nothing behind |
| Android page content, A `fragment/*Fragment.java`, `adapter/ItemsAdapter.java` | deals, sliders, shimmer, carousel | two requests, two answers, detachment | failed task whose result is read; answers after the fragment is gone | each page ends with its own deals, once; no late answer does harm |
| Android launch and session, A `activity/WelcomeActivity.java`, `app/Session.java` | two flags on disk, current slide, Android's task | next, skip, swipe, launch, Back, Home, process death | a kill between two writes or between a write and a start; a screen that is built after it was finished | the slides are shown once; a later launch arrives at home |
| Android sign-in, A `activity/PhoneActivity.java`, `EditProfileActivity.java` | form, verification, sign-ins, listener registrations, lookups, uploads, saves, dialog; the user and the profile in Firebase | send, verify, callbacks, upload, save, listener calls | automatic and manual verification race; answers after the screen was stopped or destroyed; a listener registered twice and removed once; failures that leave the screen locked | home only with a profile; no late sign-in; stuck only after an error that was shown, a departure, or a save that failed |
| iOS side menu, I `Controllers/MainViewController.swift`, `SideMenu/SideMenuViewController.swift` | `isExpanded`, the constraint's constant, shadow, animations in flight, pan state, rows | button, tap, pan, rotation, row selection | the flag is written half a second after the menu moved; cancelled gestures | flag, menu and shadow agree at rest |
| iOS deals feed, I `ViewModels/DataVM.swift`, `HomeVM.swift`, `loadDeals` of six controllers | main queue, `itemList`, the list drawn | snapshot, error, document block, callback, redraw | three rounds through the main queue per snapshot, and snapshots that do not wait | a page shows whole lists, finally the newest |
| iOS slider, I `ViewModels/HomeSliderVM.swift`, `loadSlider` | slider list, carousels | request, answer by status, retry | endless immediate retry, a carousel and timer per image, controllers that outlive their page | retries do not multiply; the topmost carousel has all images |
| iOS cells and details, I `Controllers/View Cells/MenuViewCell.swift`, `cellForItemAt` and `Tapped` of six controllers, `DetailsVC.swift` | cells, requests under way, presented item | reload, reuse, image answers, tap, dismissal | answers for a reused cell; taps where there is no cell; answers without a body | a cell shows its row's deal; a wrong picture needs a reuse that overtook a request |
| iOS onboarding, I `Controllers/Slider/IntroVC.swift` | `currentPage`, labels, cover, animations in flight, the window's root | tap, animation ends | overlapping taps; closures that run after the screen was replaced | at rest one whole page; the last tap opens the app |
| Legacy and shell | | | | not modelled, see below |

The components meet as follows. A drawer or menu row chooses a page (navigation
→ page content, side menu → feed); on Android the page's fragment is created by
the navigation's transaction, on iOS `showViewController` adds a child
controller whose `viewDidLoad` registers the feed's listener. The feeds share
nothing but the main queue. `Session` connects the launch screens, which start
each other through Android's task and end in `MainActivity`. A page's cells are
drawn from the list the feed hands over; `IntroVC` replaces itself by the main
screen.

`PROJECT.json` lists every component, and under `hazards` what can go wrong at
which line, with the properties that watch it.

## Modules

| Module | Models | State and actions against the code |
|---|---|---|
| `NavDrawer` | `MainActivity` | `statics`, `bar`, `drawer` are the fields and views; `queue` the main looper's messages (`click`, `load` = `mPendingRunnable`, `exec` = the FragmentManager's, `relaunch`); `pending`, `frame`, `leaving` the FragmentManager; `overtaken` (history) records that a relaunch came before home's first load. `Meanwhile` is a relaunch another thread posts while a handler runs. `TapItem`/`HandleClick` → `onNavigationItemSelected`, `onBackPressed`, `HandleLoad`, `HandleExec`, `HandleRelaunch`, `KillAndRestore`. |
| `NavDrawerProofs` | | theorems |
| `FabMenu` | `HomeFragment`'s menu | `showFABMenu`, `closeFABMenu`, `onAnimationEnd` as in the code; `AnimationFrame`, `AnimationEnds` are the library's ViewPropertyAnimator: starting a movement cancels the one that runs, and a cancelled one reports its end. |
| `FabMenuProofs` | | theorems |
| `CategoryPage`, `MCCategoryPage` | the six fragments, `ItemsAdapter` | `frags` is the sequence of fragment objects created so far with the fields of each, where it is (`current`, `leaving`, `gone`) and what it still waits for (`asked`). `onCreateView`, `onSuccess`, `onFailure`, `onComplete`, `onBindViewHolder`, `setViewForPosition` are the code's; `HomeFragment` … `LifestyleFragment` are the steps of each class. `crash` records which exception ended the application. |
| `CategoryPageProofs` | | theorems |
| `Session` | `Session.java`, the task | what the launch screens share: `firstTime`, `loggedIn` are the flags on disk; `acts` the activities started so far, `task` those in the task, `shown` the one with a window; `run` is what the present handler has still to do, one step per action: `setFirstTimeLaunch`, `setLoggedIn`, `startActivity`, `finish`. |
| `SignIn` | `PhoneActivity`, `EditProfileActivity` | one action per button and per callback, named as in the code; `signInWithPhoneAuthCredential` is `SignInSucceeds`, `SignInFails` and, for a stopped activity, `SignInAdrift`; `user` and `profile` are Firebase's. |
| `Launch` | `WelcomeActivity` and the three together | `onCreate`, `btnSkip`, `btnNext`, `Swipe`; the system's `Resume`, `Leave`, `Open`, `Back`, `Kill`; `Started` and `Stopped` are what `onStart`, `onResume` and `onStop` do; `HideTooLate` is the exception of a dialog whose activity was destroyed. |
| `Onboarding` | what the launch promises | the abstract specification `Launch` refines |
| `LaunchProofs` | | theorems |
| `AppLife` | the iOS application's life | `crash`: what ended it |
| `Intro` | `IntroVC` | `taps` are the taps whose animations run, oldest first; `TitleMoved`, `DescMoved`, `DescGone` are the completions of `handleTapAnimation` |
| `CellImages` | `cellForItemAt`, `Tapped`, `MenuViewCell`, `DetailsVC` | `cells` are the cells made so far with the requests each waits for; the action names are the code's |
| `FirstUse`, `MCFirstUse` | the onboarding and the pages behind it | composes `Intro` and `CellImages` over one application |
| `FirstUseProofs` | | theorems |
| `SliderVM`, `MCSliderVM` | `HomeSliderVM`, `loadSlider` | `controllers` is the sequence of page controllers shown so far, each with its view model; `getDeals` has one action per kind of answer; `dataCB` and `drawSlider` are the two blocks on the main queue; `HomeVC` … `LifestyleVC` are the steps of each class. |
| `SliderVMProofs` | | theorems |
| `SideMenu`, `MCSideMenu` | `MainViewController`, row selection | `sideMenuState` writes the constant and the shadow and leaves a completion in `anims`; `AnimationCompletes` writes `isExpanded`; the four phases of `handlePanGesture`; `viewWillTransition`; `selectedCell` and the collapse it queues. |
| `SideMenuProofs` | | theorems |
| `DealsFeed`, `MCDealsFeed` | `DataVM.getItems`, `HomeVM.getDeals`, `loadDeals` | `queue` is the main queue with blocks `snapshot`, `error`, `document`, `callback`, `draw`, one handler each; a page's query is a record of `Feed`. A document is its id, type, timestamp and whether its seven fields are present. |
| `DealsView` | what a feed promises | the abstract specification `DealsFeed` refines |
| `DealsFeedProofs` | | theorems |

Definitions named `X_variant` are mutated forms of `X`: plausible mistakes in
that code, used to show that the properties notice them.

## Runs

Passing runs:

* **nav_calm** (`NavDrawer_calm.cfg`). Four items, up to three taps buffered,
  rotation whenever the looper is idle, Back at any time; the user waits for a
  fade. `OnCourse`: the page on screen, or on its way, is the one the statics
  and the highlight name. `TagHonest`: a fragment is attached under its own
  page's tag. `ExitOnlyFromHome`, and `IndexShown` (liveness).
* **nav_all** (`NavDrawer_all.cfg`). All kinds of items, input during fades,
  process death, rotation between any two messages, and also while a handler runs:
  the system posts the relaunch from another thread, so that it may stand before
  what the handler posts (`Meanwhile`). `NeverBlank`: an idle activity shows a
  page, unless a relaunch came while `onCreate` ran. `PostedPageArrives`
  (liveness): a page whose runnable was posted arrives, unless a relaunch stands
  before the runnable, another page is chosen or the application is left.
* **side_calm** (`MCSideMenu_calm.cfg`). The button at any time, pans of either
  direction and speed with translations around every threshold, cancelled pans,
  rotation at rest. `MenuAgrees`, `RotationKeepsMenu`, `RowCollapses`.
* **fab_menu** (`FabMenu.cfg`). Five taps at any frame. `OpenIsVisible`,
  `ClosedLeavesNoTrace`, `EntriesApart`, `OpensToHeight`, `ClosedDisappears`.
* **feed_events** (`MCDealsFeed_events.cfg`). Three snapshots of up to two of
  three documents (one incomplete) and an error, delivered at any moment.
  `ImplementsView` (refinement of `DealsView`: every redraw shows whole lists,
  consecutive and in order), `NewestAtRest`, `OneListWhenApart`, `SnapshotShown`.
* **page_content** (`MCCategoryPage.cfg`). Two fragments of any class, replaced
  or re-created at any moment, all orders of answers, failed queries, broken
  slider entries, malformed deals, a deal without a type. `OwnCategory`,
  `NewestFirst`, `SlidesInBounds`, `CrashCauses` (what ends the application is a
  failed query, a malformed deal of the page's own category or, on home, a deal
  without a type; never that an answer is late), `ShimmerEnds`.
* **slider** (`MCSliderVM.cfg`). Two controllers of any class and every sequence
  of answers. `OneThingAtATime`, `TopmostIsWhole`, `NeverSilent`,
  `ControllerStays` (the forced unwrapping is safe *because* controllers are
  never taken off their parent: the mutant that does so crashes), `ListDrawn`.
* **launch** (`Launch.cfg`). The application opened by its icon, at
  `PhoneActivity` or at `EditProfileActivity`; every order of Firebase's answers;
  Back, Home, another screen in front; the process killed at any moment.
  `HomeRemembered`, `HomeHasProfile`, `StuckForAReason`, `NoLateSignIn`,
  `OnboardingOnce` (refinement of `Onboarding`), `HomeReached` (liveness).
* **first_use** (`MCFirstUse.cfg`). Taps at any moment of the onboarding's
  animations; then lists that come and go, cells that are used again, posters
  and banners that answer late, with nonsense, without a body or not at all.
  `RestShowsPage`, `OnlyKnownCrashes`, `CellsFollowList`,
  `OwnImageUnlessOvertaken`, `OpensApp` (liveness).

Runs that end in a counterexample, each a disagreement between the code and a
comment in it (`findings` quotes both):

* **nav_social**: Facebook, Twitter and Instagram set `navItemIndex` to home but
  leave the page, so the next Back leaves the application from another page.
* **side_rotation**: rotating while the menu slides moves it back, and the
  completion then leaves the flag opposite to the menu.
* **feed_lifestyle**: the Lifestyle page asks for the type `liqour`.

What the models also show, outside these runs: a failed query on Android ends
the application, since `onComplete` reads the result of the failed task, and the
failure listener behind it never runs; so does, on any page that asks for it, a
deal with a field that is no string, which `getString` throws at; and, on home
only, a deal without a type. A rotation that the system posts while
`MainActivity.onCreate` runs leaves a blank frame until a page is chosen: its
relaunch comes before home's runnable, saves no fragment, and the next `onCreate`
has a saved state and loads none. Likewise the page of a click is lost,
while the statics go on naming it, when a relaunch comes before its runnable. Home
on iOS says nothing when its slider fails. `didSelectRowAt` removes
the highlight of Events and Other, where its comment names Facebook. Two snapshots
that reach the main queue together are shown one after the other, duplicates
included, until a third arrives (`NewestAtRest` allows exactly that); a
category that loses its last deal stays on screen; quick taps raise the entries
of the floating menu above their heights (`OpensToHeight` excludes them);
Back during home's fade-out retitles and loads nothing, and an item tapped twice
before its runnable ran is loaded twice. After a rotation the toolbar has home's
title on any page, and a cancelled pan leaves the side menu half open.

Of the launch: a verification that fails leaves the number and the button
disabled for good, and so does leaving the form while it waits, since Firebase
drops the callbacks with the activity; a failed save leaves a dialog that cannot
be cancelled (`StuckForAReason` names exactly these). An upload writes the
profile with whatever name and text stand in the form, which the button would
refuse. Back from `MainActivity` returns to `EditProfileActivity`, which a lookup
does not finish, and which looks up again and starts `MainActivity` anew. A save
that succeeds, or an upload that fails, after its activity was destroyed under
the dialog ends the process. Of the iOS screens: a second tap on the last page of
the onboarding, before the first one's animations have ended, reads past the
items; a tap beside the cells and an answer without a body unwrap nil
(`OnlyKnownCrashes` names exactly these); a cell that is used again before its
poster arrived may keep the wrong picture until it is filled once more.

In this commit nothing starts `PhoneActivity` or `EditProfileActivity`, and no
scene of the storyboard leads to `IntroVC`. They are complete and start each
other, so each is modelled as a beginning of its own (`entry`, `root`).

### Bounds

* `MaxTaps` (NavDrawer) bounds messages waiting when a tap arrives. Three let a
  second click fall between every two steps of the first. `Items` has a page of
  each role: home, two others, one that opens nothing, one social.
* `MaxAnims` (SideMenu) = 2 animations in flight and queued collapses: a
  completion can meet the start of another; more only repeat the situation, and
  the theorems hold for every number.
* `Near`, `Far`, `HalfTurn` = 3, 5, 3 leave intermediate frames in every
  movement; five taps reach open–close–open–close with every one interrupted.
* `MaxFragments` = 2 and `MaxControllers` = 2: one that is left or re-created and
  one that takes its place; objects share nothing but the application's life, so
  a third only repeats the second (and the theorems about `CategoryPage` hold
  for any number). `Responses` and `Lists` have whole and broken entries.
* `MaxDocs` = 2 and `MaxSnaps` = 3: two documents are the least between which
  something could fall, three snapshots the least where one interrupts two.
* `MaxActs` = 2 bounds activities when the user starts another one; handlers may
  go beyond it, so that Phone, Edit and Main follow each other. `MaxTries` = 1
  sign-in, upload or save of each activity under way, beside the automatic
  sign-in, which is not bounded; `MaxCopies` = 2 bounds registrations, calls and
  lookups when an activity is shown again, which the first showing alone
  exceeds. The theorems hold for all values.
* `Count` = 2 pages and `MaxTaps` = 4 taps: two more than there are pages, each
  of which can meet the animations of every other. Two items, two cells and one
  request for a poster at a time are the least where a cell is overtaken. The
  application has four pages; the theorems hold for every number.
* `CHECK_DEADLOCK FALSE` in the FabMenu, DealsFeed, CategoryPage, SliderVM,
  Launch and FirstUse runs: with their bound reached and nothing left to do, or
  after a crash, these systems do stop.

`overtaken` (NavDrawer), `hurried` (FabMenu), `apart` and `delivered` (DealsFeed)
are history variables: no guard reads them, except that `delivered` carries the bound. So is `listed`
(SliderVM), `told`, `parted` and `failed` (SignIn: an error was shown, the
activity was stopped, a save failed), `tapped` and `patient` (Intro, where
`tapped` carries the bound) and `overtaken` (CellImages).

### Fairness

Weak fairness only, and only of what the platforms guarantee: the main looper
or main queue runs the message at its head; a started animation, slide or fade
ends; and, in CategoryPage, a Firestore `get()` completes with a result or a
failure, as the SDK promises of every task. In Launch: the main thread goes on
with the handler it has begun, and the system shows the activity on top of a task
in the foreground; neither holds after the process died or the user left, which
`HomeReached` allows. In FirstUse: animations end. Nothing is assumed of the
user, of rotation, of Firebase's answers to the launch screens, of Firestore's
listeners, or of the servers of sliders and images.

## Proofs

TLAPS proves the following for every value of the constants.

* `NavDrawerProofs`. `TypeCorrect`; `TagsAreHonest`, from the assumption that no
  social item is used, for any interleaving of input, rotation and process
  death; `StaysOnCourse` and `ExitsFromHome`, for a user who waits for fades and
  for any number of buffered taps. `OnCourse` is not inductive: a load that
  waits in the queue reads the statics when it runs, so one must know which
  messages can stand together (`QueueShape`: a pending transaction has its
  `exec` queued, a relaunch stands alone), that a drawer which is not open takes
  no taps (`DrawerLock`), what an exit leaves (`WhenExited`), and `TagInv`.
  `ActivityNeverBlank` and `ExecFindsWork` hold for every user, rotation and
  process death: by `FillInv` a frame without a page has the load that fills it,
  or the transaction of that load, on its way. A relaunch posted after the load
  does not overtake it, and saves what it committed; one that came while
  `onCreate` ran does, which is the case `overtaken` records and the theorem
  excepts.
* `SideMenuProofs`. `TypeCorrect`; `FlagAndMenuAgree` and `RotationIsNeutral` for
  a user who does not rotate or drag during a slide. The invariant `MenuInv`
  says where the menu is relative to what the flag *will* be once the
  completions in flight have run (`Desired`), and that a drag has the menu to
  itself.
* `FabMenuProofs`. `OpenStaysVisible`, `ClosingIsClean`, `EntriesStayApart` and
  `CalmHeights`, with no assumption on the taps. `FabInv` says where a view that
  does not move is (`Arrived`) and where the others are going
  (`OpenTargets`, `ClosedTargets`): the entries of a closed menu are gone, or
  the listener that hides them is on a running animator.
* `CategoryPageProofs`. `LateAnswersHarmless`, `PagesKeepCategory`,
  `ListsStayOrdered`, `CarouselInBounds` and `TypeCorrect`, for any data, any
  answers and any number of fragments. The invariant speaks of one fragment at a
  time (`Good`): its list is empty until the answer it waits for, and the adapter
  of a fragment that is not gone has a context.

* `SliderVMProofs`. `TypeCorrect`, `RetriesDoNotMultiply`, `SlidersAreWhole`,
  `FailuresAreTold` and `UnwrappingIsSafe`, for any answers and any number of
  controllers. The invariant `SliderInv` says of each controller that a request
  goes with an empty list and no carousel, and of the main queue that a block
  comes after the only answer, one at a time.
* `LaunchProofs`. `TypeCorrect`, `HomeIsRemembered`, `ProfileBeforeHome`,
  `StuckOnlyForAReason`, `SignInIsPrompt` and the refinement
  `LaunchKeepsPromise`, for any number of activities, tries and copies and every
  set of entries. None of these is inductive, since what a handler has still to
  do decides what its next step may assume: `RunInv` says that a handler which
  will start `MainActivity` has the first launch still to write or finds it
  written, and has its profile; `PastSlides` that a Welcome which exists after
  the first launch is about to finish; `OneWelcome` that it is the one on the
  screen; `Locals` that only the activity on the screen waits for a
  verification or a sign-in, and that lookups and saves have a user; `FormsMove`
  that a stuck form has a reason or is leaving. That the task has a top is
  `Greatest`, from the library's theorems about well-founded orders.
* `FirstUseProofs`. `TypeCorrect`, `OnboardingRestsWhole`, `CrashesAreKnown`,
  `CellsShowTheirRows` and `WrongImageNeedsReuse`, for any number of pages, taps,
  deals and cells. `FirstInv` relates `currentPage` and the animations in flight
  to the number of taps, and each cell's picture to the requests it waits for.

* `DealsFeedProofs`. For any documents and any number and size of snapshots:
  `TypeCorrect`; `PagesShowOwnDeals`, for the pages whose query names their own
  type; `RestsOnNewest`, the refinement `FeedImplementsView`, and
  `OneListAtATime`. The first two follow from what each block closes over
  (`OwnInv`). The next two need `FeedInv`, an account of the whole queue. `Placed`
  says where the blocks of every snapshot are: those of one snapshot's documents
  together, in its order, before those of the next, so that a callback, which
  goes behind them all, never falls between two of them. `Collected` says that
  the list is a run of whole snapshots and the part of the next whose blocks have
  run; `Redrawn` that when no callback waits, the last draw has all of it. That
  is why nothing is ever drawn in part, and why nothing is lost at rest.
  `OneListAtATime` needs another invariant, `OneSnapshot`: the phases a single
  snapshot goes through when nothing else arrives. Both speak of what
  `ListedUpTo` and `FlattenSeq` compute for any length; these lemmas go by
  induction, with `NatSet` (a set that holds 0 and every successor is all of
  Nat), itself from the library's theorem on well-founded orders.

Since the type invariants of these modules are proved for every value of the
constants, their runs do not check them again; feed_events still does, where the
unchecked document of a mutant shows what it says.

The assumptions on constants (`NavAssumption`, `SideMenuAssumption`,
`FabAssumption`, `PageAssumption`, `FeedAssumption`, `SliderAssumption`,
`SignInAssumption`, `EntryAssumption`, `IntroAssumption`, `CellAssumption`) say
what kind of value each is, that the lower height is the smaller, that an
onboarding has a page, and which ways into the launch screens there are. TLC evaluates them in every run.

Only model-checked: the liveness properties `IndexShown`, `PostedPageArrives`,
`RowCollapses`, `SnapshotShown`, `ClosedDisappears`, `ShimmerEnds`, `ListDrawn`,
`HomeReached` and `OpensApp`, since fairness is out of the prover's reach. Every
invariant and action property that a passing run checks, and both refinements,
are proved.

## Not modelled

* Layout, colours, texts, images, logging, and the library classes themselves;
  what the code relies on in them (DrawerLayout, FragmentManager,
  ViewPropertyAnimator, Firestore listeners) is modelled as it is used and
  marked external in the map.
* iOS: `Reachability` (used by nothing), `AllVC` (loading commented out,
  presented by nothing), `AppDelegate`, `SceneDelegate`, `Constants`.
* Android: `HomeActivity` (its grid view is never assigned, and nothing starts
  it), `AllActivity` (started by it alone), the detail, web and video screens,
  templates and data classes; `FileUtil` (file I/O).
* `DetailsVC`'s book and call buttons, which hand over to a player and to the
  telephone; the music of `IntroVC`; the dots and button texts of
  `WelcomeActivity`.
* A `commit()` that fails: a write of `Session` is taken to reach the disk. A
  database write that Firebase has queued is taken to arrive, or to be lost with
  the process, and never to arrive in a later one.
* `src/iOS/Pods`: the third-party libraries the iOS version was built with
  (Firebase, gRPC, BoringSSL, abseil, leveldb and others), kept as published.
  They are by far the largest part of the repository and none of its own logic.
* In NavDrawer the items of On Air and the social ones open a toast or a
  browser; only their effect on the navigation's state is kept. In FabMenu the
  entry that starts the video screen is left out for the same reason.

## Plan

What remains, in order of weight:

1. `NavDrawer` composed with `CategoryPage`: the navigation's transactions create
   and remove the fragments.
2. Proofs: the safety side of the liveness properties (that every step of a
   queue leaves less to do), and what the composition of 1 adds.
3. `DetailsVC`'s player, and the Android detail screens, if they come to keep
   state.
