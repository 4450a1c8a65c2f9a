--------------------------- MODULE SliderVMProofs ---------------------------
(* Proofs about SliderVM, for every set of lists and any number of controllers. *)
EXTENDS SliderVM, TLAPS

Controller == [page : Pages, alive : BOOLEAN, requests : Nat, sliderList : Seq(BOOLEAN),
               alerted : BOOLEAN, carousels : Seq(Nat), listed : BOOLEAN]

BlockOf(n) == [kind : {"callback", "draw"}, of : 1..n]

(* What holds of one controller at any time. *)
Single(c) == c.requests <= 1
Fresh(c)  == c.requests > 0 => c.sliderList = <<>> /\ c.carousels = <<>>
Whole(c)  == c.carousels = <<>> \/ c.carousels = [k \in DOMAIN c.sliderList |-> k]
Told(c)   == ~c.listed /\ c.page # "home" => c.requests > 0 \/ c.alerted

Kept(c) == c.alive /\ Single(c) /\ Fresh(c) /\ Whole(c)

ControllersInv ==
    /\ controllers \in Seq(Controller)
    /\ \A i \in DOMAIN controllers : Kept(controllers[i])

(* A controller has a block on the queue after its only answer, and one at a time. *)
Awaited(c) == c.requests = 0 /\ c.carousels = <<>>

QueueInv ==
    /\ queue \in Seq(BlockOf(Len(controllers)))
    /\ \A k \in DOMAIN queue : Awaited(controllers[queue[k].of])
    /\ \A k, l \in DOMAIN queue : queue[k].of = queue[l].of => k = l

TellInv == Running => \A i \in DOMAIN controllers : Told(controllers[i])

CrashInv == crash \in {"nothing", "no array", "no object", "no image"}

SliderInv == ControllersInv /\ QueueInv /\ TellInv /\ CrashInv

-----------------------------------------------------------------------------
LEMMA FreshKept ==
    ASSUME NEW p \in Pages
    PROVE  viewDidLoad(p) \in Controller /\ Kept(viewDidLoad(p)) /\ Told(viewDidLoad(p))
  BY DEF viewDidLoad, Controller, Kept, Single, Fresh, Whole, Told

LEMMA SliderInit == Init => SliderInv
<1> SUFFICES ASSUME Init PROVE SliderInv
  OBVIOUS
<1> DEFINE g == viewDidLoad("home")
<1>1. g \in Controller /\ Kept(g) /\ Told(g)
  BY FreshKept DEF Pages
<1>2. controllers = <<g>>
  BY DEF Init
<1> HIDE DEF g
<1> QED
  BY <1>1, <1>2 DEF Init, SliderInv, ControllersInv, QueueInv, TellInv, CrashInv

(* One controller is replaced by one that is as good. *)
LEMMA PutKept ==
    ASSUME ControllersInv, NEW i \in DOMAIN controllers, NEW g \in Controller, Kept(g),
           controllers' = [controllers EXCEPT ![i] = g]
    PROVE  ControllersInv' /\ Len(controllers') = Len(controllers)
<1>1. /\ controllers' \in Seq(Controller) /\ Len(controllers') = Len(controllers)
      /\ DOMAIN controllers' = DOMAIN controllers
  BY DEF ControllersInv
<1>2. ASSUME NEW j \in DOMAIN controllers' PROVE Kept(controllers'[j])
  BY <1>1 DEF ControllersInv
<1> QED
  BY <1>1, <1>2 DEF ControllersInv

(* ... and has told as much. *)
LEMMA PutTold ==
    ASSUME ControllersInv, TellInv, Running, NEW i \in DOMAIN controllers, NEW g, Told(g),
           controllers' = [controllers EXCEPT ![i] = g]
    PROVE  TellInv'
  BY DEF ControllersInv, TellInv

(* A controller with a request on its way has no block on the queue. *)
LEMMA NotQueued ==
    ASSUME SliderInv, NEW i \in DOMAIN controllers, controllers[i].requests > 0
    PROVE  \A k \in DOMAIN queue : queue[k].of # i
  BY DEF SliderInv, QueueInv, Awaited

(* The queue stays, and so do the controllers that are on it. *)
LEMMA QueueStays ==
    ASSUME SliderInv, NEW i \in DOMAIN controllers, controllers[i].requests > 0, NEW g,
           controllers' = [controllers EXCEPT ![i] = g], UNCHANGED queue
    PROVE  QueueInv'
<1>1. /\ queue \in Seq(BlockOf(Len(controllers))) /\ Len(controllers') = Len(controllers)
      /\ controllers \in Seq(Controller)
  BY DEF SliderInv, QueueInv, ControllersInv
<1>2. ASSUME NEW k \in DOMAIN queue PROVE Awaited(controllers'[queue[k].of])
  <2>1. queue[k] \in BlockOf(Len(controllers)) /\ queue[k].of # i
    BY <1>1, NotQueued
  <2>2. queue[k].of \in DOMAIN controllers
    BY <1>1, <2>1 DEF BlockOf
  <2>3. controllers'[queue[k].of] = controllers[queue[k].of]
    BY <2>1, <2>2
  <2> QED
    BY <2>3 DEF SliderInv, QueueInv
<1> QED
  BY <1>1, <1>2 DEF SliderInv, QueueInv

(* A page is shown: a controller joins the others. *)
LEMMA ShowKeeps ==
    ASSUME SliderInv, NEW p \in Pages, showViewController(p)
    PROVE  SliderInv'
<1> DEFINE g == viewDidLoad(p)
<1>1. g \in Controller /\ Kept(g) /\ Told(g)
  BY FreshKept
<1>2. controllers' = Append(controllers, g) /\ UNCHANGED <<queue, crash>>
  BY DEF showViewController
<1> HIDE DEF g
<1>3. controllers \in Seq(Controller) /\ Len(controllers) \in Nat
  BY DEF SliderInv, ControllersInv
<1>4. /\ controllers' \in Seq(Controller) /\ Len(controllers') = Len(controllers) + 1
      /\ DOMAIN controllers = 1..Len(controllers)
      /\ \A j \in DOMAIN controllers : controllers'[j] = controllers[j]
      /\ controllers'[Len(controllers) + 1] = g
      /\ \A j \in DOMAIN controllers' : j \in DOMAIN controllers \/ j = Len(controllers) + 1
  BY <1>1, <1>2, <1>3
<1>5. ControllersInv'
  BY <1>1, <1>4 DEF SliderInv, ControllersInv
<1>6. TellInv'
  BY <1>1, <1>2, <1>4 DEF SliderInv, TellInv, Running
<1>7. QueueInv'
  <2>1. queue \in Seq(BlockOf(Len(controllers)))
    BY DEF SliderInv, QueueInv
  <2>2. BlockOf(Len(controllers)) \subseteq BlockOf(Len(controllers'))
    BY <1>3, <1>4 DEF BlockOf
  <2>3. queue \in Seq(BlockOf(Len(controllers')))
    BY <2>1, <2>2
  <2>4. ASSUME NEW k \in DOMAIN queue PROVE Awaited(controllers'[queue[k].of])
    <3>1. queue[k] \in BlockOf(Len(controllers))
      BY <2>1
    <3>2. queue[k].of \in DOMAIN controllers
      BY <1>4, <3>1 DEF BlockOf
    <3> QED
      BY <1>4, <3>2 DEF SliderInv, QueueInv
  <2> QED
    BY <1>2, <2>3, <2>4 DEF SliderInv, QueueInv
<1> QED
  BY <1>2, <1>5, <1>6, <1>7 DEF SliderInv, CrashInv

(* An answer, of any kind. *)
LEMMA AnswerKeeps ==
    ASSUME SliderInv, Running, NEW i \in DOMAIN controllers, getDeals(i)
    PROVE  SliderInv'
<1> DEFINE c == controllers[i]
<1>c. c \in Controller /\ Kept(c) /\ Told(c)
  BY DEF SliderInv, ControllersInv, TellInv
<1>r. c.requests = 1 /\ c.sliderList = <<>> /\ c.carousels = <<>> /\ c.alive
  BY <1>c DEF getDeals, Controller, Kept, Single, Fresh
<1>1. ASSUME NEW g \in Controller, Kept(g), ~Running' \/ Told(g),
             controllers' = [controllers EXCEPT ![i] = g], UNCHANGED queue, CrashInv'
      PROVE  SliderInv'
  <2> HIDE DEF c
  <2>1. ControllersInv'
    BY <1>1, PutKept DEF SliderInv
  <2>2. QueueInv'
    <3>1. controllers[i].requests > 0
      BY <1>r DEF c
    <3> QED
      BY <1>1, <3>1, QueueStays
  <2>3. TellInv'
    <3>1. CASE ~Running'
      BY <3>1 DEF TellInv
    <3>2. CASE Told(g)
      BY <1>1, <3>2, PutTold DEF SliderInv
    <3> QED
      BY <1>1, <3>1, <3>2
  <2> QED
    BY <1>1, <2>1, <2>2, <2>3 DEF SliderInv
<1>2. CASE ArrayArrives(i)
  <2>1. PICK list \in Lists : controllers' = [controllers EXCEPT ![i] = Listed(c, list)]
    BY <1>2 DEF ArrayArrives
  <2>2. list \in Seq(BOOLEAN) /\ <<>> \o list = list
    BY SliderAssumption
  <2> DEFINE g == [c EXCEPT !.requests = 0, !.sliderList = list, !.listed = TRUE]
  <2>3. controllers' = [controllers EXCEPT ![i] = g]
    <3>1. Listed(c, list) = g
      BY <1>c, <1>r, <2>2 DEF Listed, Controller
    <3> QED
      BY <2>1, <3>1
  <2>4. g \in Controller
    BY <1>c, <2>2 DEF Controller
  <2>5. Kept(g) /\ Told(g) /\ Awaited(g)
    BY <1>c, <1>r DEF Controller, Kept, Single, Fresh, Whole, Told, Awaited
  <2>6. queue' = Append(queue, Block("callback", i)) /\ UNCHANGED crash
    BY <1>2 DEF ArrayArrives
  <2> HIDE DEF g, c
  <2>7. ControllersInv' /\ Len(controllers') = Len(controllers)
    BY <2>3, <2>4, <2>5, PutKept DEF SliderInv
  <2>8. TellInv'
    BY <2>3, <2>5, PutTold DEF SliderInv
  <2>9. QueueInv'
    <3>1. queue \in Seq(BlockOf(Len(controllers))) /\ controllers \in Seq(Controller)
      BY DEF SliderInv, QueueInv, ControllersInv
    <3>2. Block("callback", i) \in BlockOf(Len(controllers))
      BY <3>1 DEF Block, BlockOf
    <3> DEFINE b == Block("callback", i)
    <3>3. b.of = i
      BY DEF Block
    <3> HIDE DEF b
    <3>4. /\ queue' \in Seq(BlockOf(Len(controllers))) /\ Len(queue') = Len(queue) + 1
          /\ queue'[Len(queue) + 1] = b
          /\ \A k \in DOMAIN queue : queue'[k] = queue[k]
          /\ \A k \in DOMAIN queue' : k \in DOMAIN queue \/ k = Len(queue) + 1
      BY <2>6, <3>1, <3>2 DEF b
    <3>5. \A k \in DOMAIN queue : queue[k].of # i
      BY <1>r, NotQueued DEF c
    <3>6. ASSUME NEW k \in DOMAIN queue' PROVE Awaited(controllers'[queue'[k].of])
      <4>1. CASE k = Len(queue) + 1
        BY <2>3, <2>5, <3>1, <3>3, <3>4, <4>1
      <4>2. CASE k \in DOMAIN queue
        <5>1. queue[k] \in BlockOf(Len(controllers))
          BY <3>1, <4>2
        <5>2. queue[k].of \in DOMAIN controllers /\ queue[k].of # i
          BY <3>1, <3>5, <4>2, <5>1 DEF BlockOf
        <5> QED
          BY <2>3, <3>4, <4>2, <5>2 DEF SliderInv, QueueInv
      <4> QED
        BY <3>4, <4>1, <4>2
    <3>7. ASSUME NEW k \in DOMAIN queue', NEW l \in DOMAIN queue', queue'[k].of = queue'[l].of
          PROVE  k = l
      BY <3>3, <3>4, <3>5, <3>7 DEF SliderInv, QueueInv
    <3> QED
      BY <2>7, <3>4, <3>6, <3>7 DEF QueueInv
  <2> QED
    BY <2>6, <2>7, <2>8, <2>9 DEF SliderInv, CrashInv
<1>3. CASE OtherJSONArrives(i)
  <2> DEFINE g == [c EXCEPT !.requests = 0]
  <2>1. controllers' = [controllers EXCEPT ![i] = g]
    <3>1. Answered(c) = g
      BY <1>c, <1>r DEF Answered, Controller
    <3> QED
      BY <1>3, <3>1 DEF OtherJSONArrives
  <2>2. g \in Controller /\ Kept(g)
    BY <1>c, <1>r DEF Controller, Kept, Single, Fresh, Whole
  <2>3. ~Running' /\ CrashInv' /\ UNCHANGED queue
    BY <1>3 DEF OtherJSONArrives, Running, CrashInv
  <2> HIDE DEF g, c
  <2> QED
    BY <1>1, <2>1, <2>2, <2>3
<1>4. CASE NoJSONArrives(i)
  <2>1. controllers' = [controllers EXCEPT ![i] = c] /\ UNCHANGED <<queue, crash>>
    BY <1>4 DEF NoJSONArrives, Retried
  <2>2. CrashInv'
    BY <2>1 DEF SliderInv, CrashInv
  <2> HIDE DEF c
  <2> QED
    BY <1>1, <1>c, <2>1, <2>2
<1>5. CASE ErrorStatusArrives(i)
  <2> DEFINE told == c.alerted \/ c.page # "home"
             g == [c EXCEPT !.requests = 0, !.alerted = told]
  <2>1. told \in BOOLEAN
    OBVIOUS
  <2>2. controllers' = [controllers EXCEPT ![i] = g] /\ UNCHANGED <<queue, crash>>
    <3>1. Answered(c) \in Controller /\ Answered(c) = [c EXCEPT !.requests = 0]
      BY <1>c, <1>r DEF Answered, Controller
    <3>2. Alerted(Answered(c)) = g
      BY <1>c, <1>r, <3>1 DEF Alerted, Controller
    <3> QED
      BY <1>5, <3>2 DEF ErrorStatusArrives
  <2>3. CrashInv'
    BY <2>2 DEF SliderInv, CrashInv
  <2>4. Kept(g) /\ Told(g)
    BY <1>c, <1>r DEF Controller, Kept, Single, Fresh, Whole, Told
  <2>5. g \in Controller
    <3> HIDE DEF told
    <3> QED
      BY <1>c, <2>1 DEF Controller
  <2> HIDE DEF g, c
  <2> QED
    BY <1>1, <2>2, <2>3, <2>4, <2>5
<1>6. CASE NothingArrives(i)
  <2> DEFINE told == c.alerted \/ c.page # "home"
             g == [c EXCEPT !.alerted = told]
  <2>1. told \in BOOLEAN
    OBVIOUS
  <2>2. controllers' = [controllers EXCEPT ![i] = g] /\ UNCHANGED <<queue, crash>>
    BY <1>6, <1>c, <1>r DEF NothingArrives, Retried, Alerted, Controller
  <2>3. CrashInv'
    BY <2>2 DEF SliderInv, CrashInv
  <2>4. Kept(g) /\ Told(g)
    BY <1>c, <1>r DEF Controller, Kept, Single, Fresh, Whole, Told
  <2>5. g \in Controller
    <3> HIDE DEF told
    <3> QED
      BY <1>c, <2>1 DEF Controller
  <2> HIDE DEF g, c
  <2> QED
    BY <1>1, <2>2, <2>3, <2>4, <2>5
<1>7. CASE OddArrayArrives(i)
  <2>1. PICK list \in Lists :
            controllers' = [controllers EXCEPT ![i] = [c EXCEPT !.requests = @ - 1,
                                                                !.sliderList = @ \o list]]
    BY <1>7 DEF OddArrayArrives, SliderInv, ControllersInv
  <2>2. list \in Seq(BOOLEAN) /\ <<>> \o list = list
    BY SliderAssumption
  <2> DEFINE g == [c EXCEPT !.requests = 0, !.sliderList = list]
  <2>3. controllers' = [controllers EXCEPT ![i] = g]
    <3>1. [c EXCEPT !.requests = @ - 1, !.sliderList = @ \o list] = g
      BY <1>c, <1>r, <2>2 DEF Controller
    <3> QED
      BY <2>1, <3>1
  <2>4. g \in Controller
    BY <1>c, <2>2 DEF Controller
  <2>5. Kept(g)
    BY <1>c, <1>r DEF Controller, Kept, Single, Fresh, Whole
  <2>6. ~Running' /\ CrashInv' /\ UNCHANGED queue
    BY <1>7 DEF OddArrayArrives, Running, CrashInv
  <2> HIDE DEF g, c
  <2> QED
    BY <1>1, <2>3, <2>4, <2>5, <2>6
<1> QED
  BY <1>2, <1>3, <1>4, <1>5, <1>6, <1>7 DEF getDeals

(* The block at the head of the queue leaves it. *)
LEMMA TailQueue ==
    ASSUME SliderInv, queue # <<>>
    PROVE  /\ Tail(queue) \in Seq(BlockOf(Len(controllers)))
           /\ Len(queue) > 0 /\ Len(Tail(queue)) = Len(queue) - 1
           /\ Head(queue) = queue[1]
           /\ \A k \in DOMAIN Tail(queue) : k + 1 \in DOMAIN queue /\ Tail(queue)[k] = queue[k + 1]
           /\ \A k \in DOMAIN Tail(queue) : Tail(queue)[k].of # Head(queue).of
<1>1. queue \in Seq(BlockOf(Len(controllers)))
  BY DEF SliderInv, QueueInv
<1>2. /\ Tail(queue) \in Seq(BlockOf(Len(controllers)))
      /\ Len(queue) > 0 /\ Len(Tail(queue)) = Len(queue) - 1
      /\ Head(queue) = queue[1] /\ 1 \in DOMAIN queue
      /\ \A k \in DOMAIN Tail(queue) :
            k + 1 \in DOMAIN queue /\ k + 1 # 1 /\ Tail(queue)[k] = queue[k + 1]
  BY <1>1
<1>3. ASSUME NEW k \in DOMAIN Tail(queue) PROVE Tail(queue)[k].of # Head(queue).of
  BY <1>2 DEF SliderInv, QueueInv
<1> QED
  BY <1>2, <1>3

LEMMA CallbackKeeps ==
    ASSUME SliderInv, NEW i \in DOMAIN controllers, dataCB(i)
    PROVE  SliderInv'
<1> DEFINE q == Tail(queue)
           b == Block("draw", i)
<1>1. queue # <<>> /\ Head(queue).of = i /\ UNCHANGED <<controllers, crash>>
  BY DEF dataCB, First, Block
<1>2. queue' = Append(q, b)
  BY DEF dataCB, SliderInv, ControllersInv, Kept
<1>3. /\ q \in Seq(BlockOf(Len(controllers))) /\ Head(queue) = queue[1] /\ 1 \in DOMAIN queue
      /\ \A k \in DOMAIN q : k + 1 \in DOMAIN queue /\ q[k] = queue[k + 1] /\ q[k].of # i
  <2>1. queue \in Seq(BlockOf(Len(controllers)))
    BY DEF SliderInv, QueueInv
  <2> QED
    BY <1>1, <2>1, TailQueue
<1>4. b \in BlockOf(Len(controllers)) /\ b.of = i
  BY DEF Block, BlockOf, SliderInv, ControllersInv
<1>5. ControllersInv' /\ TellInv' /\ CrashInv'
  BY <1>1 DEF SliderInv, ControllersInv, TellInv, CrashInv, Running
<1>6. Awaited(controllers[i])
  BY <1>1, <1>3 DEF SliderInv, QueueInv
<1>7. \A k, l \in DOMAIN q : q[k].of = q[l].of => k = l
  <2> SUFFICES ASSUME NEW k \in DOMAIN q, NEW l \in DOMAIN q, q[k].of = q[l].of PROVE k = l
    OBVIOUS
  <2>1. k \in Nat /\ l \in Nat
    BY <1>3
  <2>2. k + 1 = l + 1
    BY <1>3 DEF SliderInv, QueueInv
  <2> QED
    BY <2>1, <2>2
<1>8. \A k \in DOMAIN q : Awaited(controllers[q[k].of])
  BY <1>3 DEF SliderInv, QueueInv
<1> HIDE DEF q, b
<1>9. /\ queue' \in Seq(BlockOf(Len(controllers)))
      /\ queue'[Len(q) + 1] = b
      /\ \A k \in DOMAIN q : queue'[k] = q[k]
      /\ \A k \in DOMAIN queue' : k \in DOMAIN q \/ k = Len(q) + 1
  BY <1>2, <1>3, <1>4
<1>10. QueueInv'
  BY <1>1, <1>3, <1>4, <1>6, <1>7, <1>8, <1>9 DEF QueueInv
<1> QED
  BY <1>5, <1>10 DEF SliderInv

(* The list is drawn, or an image that is not there ends the application. *)
LEMMA DrawKeeps ==
    ASSUME SliderInv, Running, NEW i \in DOMAIN controllers, drawSlider(i)
    PROVE  SliderInv'
<1> DEFINE q == Tail(queue)
           c == controllers[i]
           drawn == \A k \in DOMAIN c.sliderList : c.sliderList[k]
           shown == [k \in DOMAIN c.sliderList |-> k]
           g == [c EXCEPT !.carousels = shown]
<1>c. c \in Controller /\ Kept(c) /\ Told(c)
  BY DEF SliderInv, ControllersInv, TellInv
<1>1. queue # <<>> /\ Head(queue).of = i /\ queue' = q
  <2>1. First("draw", i) /\ queue' = q
    BY Zenon DEF drawSlider
  <2> QED
    BY <2>1 DEF First, Block
<1>2. /\ q \in Seq(BlockOf(Len(controllers))) /\ Head(queue) = queue[1] /\ 1 \in DOMAIN queue
      /\ \A k \in DOMAIN q : k + 1 \in DOMAIN queue /\ q[k] = queue[k + 1] /\ q[k].of # i
  <2>1. queue \in Seq(BlockOf(Len(controllers)))
    BY DEF SliderInv, QueueInv
  <2> QED
    BY <1>1, <2>1, TailQueue
<1>3. Awaited(c)
  BY <1>1, <1>2 DEF SliderInv, QueueInv
<1>4. \A k, l \in DOMAIN q : q[k].of = q[l].of => k = l
  <2> SUFFICES ASSUME NEW k \in DOMAIN q, NEW l \in DOMAIN q, q[k].of = q[l].of PROVE k = l
    OBVIOUS
  <2>1. k \in Nat /\ l \in Nat
    BY <1>2
  <2>2. k + 1 = l + 1
    BY <1>2 DEF SliderInv, QueueInv
  <2> QED
    BY <2>1, <2>2
<1>5. shown \in Seq(Nat) /\ <<>> \o shown = shown
  <2>1. c.sliderList \in Seq(BOOLEAN)
    BY <1>c DEF Controller
  <2> QED
    BY <2>1
<1>6. IF drawn THEN controllers' = [controllers EXCEPT ![i] = g] /\ crash' = crash
               ELSE controllers' = controllers /\ crash' = "no image"
  <2>1. c.carousels = <<>> /\ c.alive
    BY <1>3, <1>c DEF Awaited, Kept
  <2> QED
    BY <1>5, <2>1 DEF drawSlider
<1>7. g \in Controller
  <2> HIDE DEF shown
  <2> QED
    BY <1>5, <1>c DEF Controller
<1>8. Kept(g) /\ Told(g)
  <2>1. /\ g.carousels = [k \in DOMAIN g.sliderList |-> k] /\ g.alive = c.alive
        /\ g.requests = c.requests /\ g.listed = c.listed /\ g.page = c.page
        /\ g.alerted = c.alerted /\ c.requests = 0
    BY <1>c, <1>3 DEF Controller, Awaited
  <2> QED
    BY <1>c, <2>1 DEF Kept, Single, Fresh, Whole, Told
<1> HIDE DEF c, g, q, shown, drawn
<1>9. ControllersInv' /\ Len(controllers') = Len(controllers) /\ CrashInv' /\ TellInv'
  <2>1. CASE drawn
    <3>1. controllers' = [controllers EXCEPT ![i] = g] /\ crash' = crash
      BY <1>6, <2>1
    <3>2. ControllersInv' /\ Len(controllers') = Len(controllers)
      BY <1>7, <1>8, <3>1, PutKept DEF SliderInv
    <3>3. TellInv'
      BY <1>8, <3>1, PutTold DEF SliderInv
    <3> QED
      BY <3>1, <3>2, <3>3 DEF SliderInv, CrashInv
  <2>2. CASE ~drawn
    BY <1>6, <2>2 DEF SliderInv, ControllersInv, CrashInv, TellInv, Running
  <2> QED
    BY <2>1, <2>2
<1>10. \A j \in DOMAIN controllers : j # i => controllers'[j] = controllers[j]
  BY <1>6
<1>11. \A k \in DOMAIN q : Awaited(controllers'[q[k].of])
  <2> SUFFICES ASSUME NEW k \in DOMAIN q PROVE Awaited(controllers'[q[k].of])
    OBVIOUS
  <2>1. q[k] \in BlockOf(Len(controllers)) /\ q[k].of # i /\ q[k] = queue[k + 1]
        /\ k + 1 \in DOMAIN queue
    BY <1>2
  <2>2. q[k].of \in DOMAIN controllers
    BY <2>1 DEF BlockOf, SliderInv, ControllersInv
  <2> QED
    BY <1>10, <2>1, <2>2 DEF SliderInv, QueueInv
<1>12. QueueInv'
  BY <1>1, <1>2, <1>4, <1>9, <1>11 DEF QueueInv
<1> QED
  BY <1>9, <1>12 DEF SliderInv

LEMMA SliderStep == SliderInv /\ [Next]_vars => SliderInv'
<1> SUFFICES ASSUME SliderInv, [Next]_vars PROVE SliderInv'
  OBVIOUS
<1>1. ASSUME NEW p \in Pages, ControllerOf(p) PROVE SliderInv'
  <2>1. CASE showViewController(p)
    BY <2>1, ShowKeeps
  <2>2. CASE CallbackOf(p)
    BY <2>2, AnswerKeeps, CallbackKeeps, DrawKeeps DEF CallbackOf
  <2> QED
    BY <1>1, <2>1, <2>2 DEF ControllerOf
<1>2. CASE HomeVC \/ WineVC \/ CoffeeVC \/ TravelVC \/ EventsVC \/ LifestyleVC
  BY <1>1, <1>2 DEF HomeVC, WineVC, CoffeeVC, TravelVC, EventsVC, LifestyleVC, Pages
<1>3. CASE UNCHANGED vars
  BY <1>3 DEF vars, SliderInv, ControllersInv, QueueInv, TellInv, CrashInv, Running
<1> QED
  BY <1>2, <1>3 DEF Next

LEMMA Invariance == Spec => []SliderInv
  BY SliderInit, SliderStep, PTL DEF Spec

-----------------------------------------------------------------------------
(* Type correctness: the blocks on the main queue are those of controllers there
   are, however many pages were shown. *)
THEOREM TypeCorrect == Spec => []TypeOK
<1>1. SliderInv => TypeOK
  <2> SUFFICES ASSUME SliderInv PROVE TypeOK
    OBVIOUS
  <2>1. controllers \in Seq(Controller) /\ DOMAIN controllers = 1..Len(controllers)
    BY DEF SliderInv, ControllersInv
  <2> QED
    BY <2>1 DEF SliderInv, QueueInv, CrashInv, TypeOK, Controller, BlockOf
<1> QED
  BY <1>1, Invariance, PTL

(* The retries of getDeals do not multiply, for any number of controllers and any
   answers. *)
THEOREM RetriesDoNotMultiply == Spec => []OneThingAtATime
<1>1. SliderInv => OneThingAtATime
  <2> SUFFICES ASSUME SliderInv, NEW i \in DOMAIN controllers
               PROVE  /\ controllers[i].requests <= 1
                      /\ controllers[i].requests = 1 =>
                             ~Queued(i) /\ controllers[i].sliderList = <<>>
                      /\ \A k, l \in DOMAIN queue : queue[k].of = i /\ queue[l].of = i => k = l
    BY DEF OneThingAtATime
  <2>1. Kept(controllers[i])
    BY DEF SliderInv, ControllersInv
  <2>2. controllers[i].requests = 1 => ~Queued(i)
    BY NotQueued DEF Queued
  <2> QED
    BY <2>1, <2>2 DEF Kept, Single, Fresh, SliderInv, QueueInv
<1> QED
  BY <1>1, Invariance, PTL

(* A slider that loadSlider drew has all images in its topmost carousel, because
   it is drawn once and from one answer. *)
THEOREM SlidersAreWhole == Spec => []TopmostIsWhole
<1>1. SliderInv => TopmostIsWhole
  BY DEF SliderInv, ControllersInv, Kept, Whole, TopmostIsWhole
<1> QED
  BY <1>1, Invariance, PTL

(* Every page but home says that its slider failed, or is still asking. *)
THEOREM FailuresAreTold == Spec => []NeverSilent
<1>1. SliderInv => NeverSilent
  BY DEF SliderInv, TellInv, Told, NeverSilent
<1> QED
  BY <1>1, Invariance, PTL

(* self! in the block that loadSlider queues always finds the controller. *)
THEOREM UnwrappingIsSafe == Spec => []ControllerStays
<1>1. SliderInv => ControllerStays
  BY DEF SliderInv, CrashInv, ControllerStays
<1> QED
  BY <1>1, Invariance, PTL
=============================================================================
