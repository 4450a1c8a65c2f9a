------------------------------- MODULE SliderVM -------------------------------
(***************************************************************************)
(* The slider of the iOS pages: HomeSliderVM, which asks a server for a     *)
(* list of images and asks again when the network fails, and loadSlider of  *)
(* the six page controllers, which draws them.                              *)
(*                                                                          *)
(* MainViewController takes the view of the page before off the screen but  *)
(* keeps its controller as a child, so every controller ever shown lives    *)
(* on, and with it its request and its retries.  The closures hold the      *)
(* controller weakly and unwrap it by force one main-queue round after they *)
(* checked it.                                                              *)
(***************************************************************************)
EXTENDS Integers, Sequences

CONSTANTS
    Lists,           \* the lists of images a server may send
    MaxControllers   \* bound: page controllers shown

Pages == {"home", "wine", "coffee", "travel", "events", "lifestyle"}

(* An entry of a list is whether its image is a string that is a URL. *)
ASSUME SliderAssumption ==
    /\ Lists \subseteq Seq(BOOLEAN)
    /\ MaxControllers \in Nat

VARIABLES
    controllers,   \* the page controllers shown so far
    queue,         \* the blocks on the main queue: which, and whose
    crash          \* what ended the application

vars == <<controllers, queue, crash>>

Running == crash = "nothing"

Block(kind, i) == [kind |-> kind, of |-> i]

-----------------------------------------------------------------------------
(* A new controller and its view model, the first request on its way.  alive:
   something holds the controller; alerted: it presented an error; carousels:
   the number of images of each carousel started in its view; listed is history:
   an array arrived. *)
viewDidLoad(p) ==
    [page |-> p, alive |-> TRUE, requests |-> 1, sliderList |-> <<>>,
     alerted |-> FALSE, carousels |-> <<>>, listed |-> FALSE]

Init ==
    /\ controllers = <<viewDidLoad("home")>>
    /\ queue = <<>>
    /\ crash = "nothing"

(* The child before is removed from its parent. *)
showViewController_removesChild(p) ==
    /\ Running
    /\ Len(controllers) < MaxControllers
    /\ controllers' = Append([i \in DOMAIN controllers |-> [controllers[i] EXCEPT !.alive = FALSE]],
                             viewDidLoad(p))
    /\ UNCHANGED <<queue, crash>>

(* Only the view before is removed; its controller stays a child. *)
showViewController(p) ==
    /\ Running
    /\ Len(controllers) < MaxControllers
    /\ controllers' = Append(controllers, viewDidLoad(p))
    /\ UNCHANGED <<queue, crash>>

-----------------------------------------------------------------------------
(* HomeSliderVM.getDeals: the answer to a request. *)

Answered(c) == [c EXCEPT !.requests = @ - 1]

(* One request has ended and the next is on its way. *)
Retried(c)  == c

(* dataCB(false, ...): every page but home presents an error. *)
Alerted(c) == [c EXCEPT !.alerted = @ \/ (c.alive /\ c.page # "home")]

(* The list grows by the entries of an array. *)
Listed(c, list) ==
    [c EXCEPT !.requests = @ - 1, !.sliderList = @ \o list, !.listed = TRUE]

(* Status 200 and an array: the callback is queued. *)
ArrayArrives(i) ==
    /\ \E list \in Lists : controllers' = [controllers EXCEPT ![i] = Listed(@, list)]
    /\ queue' = Append(queue, Block("callback", i))
    /\ UNCHANGED crash

(* Status 200 and another JSON value: the cast to NSArray is forced. *)
OtherJSONArrives(i) ==
    /\ controllers' = [controllers EXCEPT ![i] = Answered(@)]
    /\ crash' = "no array"
    /\ UNCHANGED queue

(* Status 200 and an array with an element that is no object: value(forKey:) raises,
   with the entries before it already in the list. *)
OddArrayArrives(i) ==
    /\ \E list \in Lists :
          controllers' = [controllers EXCEPT ![i].requests = @ - 1,
                                             ![i].sliderList = @ \o list]
    /\ crash' = "no object"
    /\ UNCHANGED queue

(* Asked again, twice. *)
NoJSONArrives_twice(i) ==
    /\ controllers' = [controllers EXCEPT ![i] = [Retried(@) EXCEPT !.requests = @ + 1]]
    /\ UNCHANGED <<queue, crash>>

(* Status 200 and no JSON: asked again, nothing said. *)
NoJSONArrives(i) ==
    /\ controllers' = [controllers EXCEPT ![i] = Retried(@)]
    /\ UNCHANGED <<queue, crash>>

(* Nothing said. *)
ErrorStatusArrives_silent(i) ==
    /\ controllers' = [controllers EXCEPT ![i] = Answered(@)]
    /\ UNCHANGED <<queue, crash>>

(* Status 404, 408, 500, 502, 503 or 504: the end of it. *)
ErrorStatusArrives(i) ==
    /\ controllers' = [controllers EXCEPT ![i] = Alerted(Answered(@))]
    /\ UNCHANGED <<queue, crash>>

(* Any other status, or no answer: asked again, and an error presented. *)
NothingArrives(i) ==
    /\ controllers' = [controllers EXCEPT ![i] = Alerted(Retried(@))]
    /\ UNCHANGED <<queue, crash>>

getDeals(i) ==
    /\ controllers[i].requests > 0
    /\ \/ ArrayArrives(i) \/ OddArrayArrives(i) \/ OtherJSONArrives(i) \/ NoJSONArrives(i)
       \/ ErrorStatusArrives(i) \/ NothingArrives(i)

-----------------------------------------------------------------------------
(* loadSlider. *)

First(kind, i) == queue # <<>> /\ Head(queue) = Block(kind, i)

(* dataCB(true, ...): the controller, if there still is one, queues the drawing. *)
dataCB(i) ==
    /\ First("callback", i)
    /\ queue' = IF controllers[i].alive THEN Append(Tail(queue), Block("draw", i)) ELSE Tail(queue)
    /\ UNCHANGED <<controllers, crash>>

(* The placeholder is not removed. *)
drawSlider_keepsPlaceholder(i) ==
    /\ First("draw", i)
    /\ queue' = Tail(queue)
    /\ controllers' = [controllers EXCEPT ![i].carousels =
                          @ \o [k \in DOMAIN controllers[i].sliderList |-> k + 1]]
    /\ crash' = IF \A k \in DOMAIN controllers[i].sliderList : controllers[i].sliderList[k]
                  THEN crash ELSE "no image"

(* A list of one image is not worth a carousel. *)
drawSlider_skipsSingle(i) ==
    /\ First("draw", i)
    /\ queue' = Tail(queue)
    /\ controllers' = IF Len(controllers[i].sliderList) > 1
                        THEN [controllers EXCEPT ![i].carousels =
                                 @ \o [k \in DOMAIN controllers[i].sliderList |-> k]]
                        ELSE controllers
    /\ UNCHANGED crash

(* The queued block: model is emptied, then for each entry its image is appended
   and a carousel of the images so far is started on top of the others.  The
   controller and the image are unwrapped by force. *)
drawSlider(i) ==
    LET c     == controllers[i]
        drawn == c.alive /\ \A k \in DOMAIN c.sliderList : c.sliderList[k]
    IN  /\ First("draw", i)
        /\ queue' = Tail(queue)
        /\ controllers' = IF drawn
                            THEN [controllers EXCEPT ![i].carousels =
                                     @ \o [k \in DOMAIN c.sliderList |-> k]]
                            ELSE controllers
        /\ crash' = IF drawn THEN crash ELSE IF c.alive THEN "no image" ELSE "no controller"

-----------------------------------------------------------------------------
CallbackOf(p) ==
    Running /\ \E i \in DOMAIN controllers :
                  controllers[i].page = p /\ (getDeals(i) \/ dataCB(i) \/ drawSlider(i))

(* One class of controllers: a new one, and what the ones there are do. *)
ControllerOf(p) == showViewController(p) \/ CallbackOf(p)

HomeVC      == ControllerOf("home")
WineVC      == ControllerOf("wine")
CoffeeVC    == ControllerOf("coffee")
TravelVC    == ControllerOf("travel")
EventsVC    == ControllerOf("events")
LifestyleVC == ControllerOf("lifestyle")

Next == HomeVC \/ WineVC \/ CoffeeVC \/ TravelVC \/ EventsVC \/ LifestyleVC

(* The main queue runs its blocks; the servers may answer anything, or nothing. *)
MainQueue == Running /\ \E i \in DOMAIN controllers : dataCB(i) \/ drawSlider(i)

Spec == Init /\ [][Next]_vars /\ WF_vars(MainQueue)

-----------------------------------------------------------------------------
Queued(i) == \E k \in DOMAIN queue : queue[k].of = i

(* The state is well typed, and blocks are those of controllers there are. *)
TypeOK ==
    /\ controllers \in Seq([page : Pages, alive : BOOLEAN, requests : Nat,
                            sliderList : Seq(BOOLEAN), alerted : BOOLEAN, carousels : Seq(Nat),
                            listed : BOOLEAN])
    /\ queue \in Seq([kind : {"callback", "draw"}, of : DOMAIN controllers])
    /\ crash \in {"nothing", "no array", "no object", "no image", "no controller"}

(* The retries do not multiply: a view model has one request on its way, or a
   block on the queue, or neither, never two of anything.  So the list, which is
   appended to and never emptied, holds one answer. *)
OneThingAtATime ==
    \A i \in DOMAIN controllers :
        /\ controllers[i].requests <= 1
        /\ controllers[i].requests = 1 => ~Queued(i) /\ controllers[i].sliderList = <<>>
        /\ \A k, l \in DOMAIN queue : queue[k].of = i /\ queue[l].of = i => k = l

(* A slider that is drawn has a carousel for every image, each with one image
   more than the one under it: the topmost, and only it, has all of them. *)
TopmostIsWhole ==
    \A i \in DOMAIN controllers :
        LET c == controllers[i] IN
        \/ c.carousels = <<>>
        \/ c.carousels = [k \in DOMAIN c.sliderList |-> k]

(* No page but home is left without images and without a word: until an array
   arrives, a request is under way or an error was presented. *)
NeverSilent ==
    \A i \in DOMAIN controllers :
        LET c == controllers[i] IN
        ~c.listed /\ c.page # "home" /\ Running => c.requests > 0 \/ c.alerted

(* The forced unwrapping of the controller is safe, though its check was made a
   round of the main queue earlier, because no controller is ever let go. *)
ControllerStays == crash # "no controller"

(* A list that arrived is drawn, unless the application ends; also on a page that
   is no longer the one on screen. *)
ListDrawn ==
    \A i \in 1..MaxControllers :
        (i \in DOMAIN controllers /\ controllers[i].sliderList # <<>>)
            ~> (~Running \/ (i \in DOMAIN controllers /\ controllers[i].carousels # <<>>))
=============================================================================
