------------------------------- MODULE Session -------------------------------
(***************************************************************************)
(* What the launch screens of the Android application share: the flags of   *)
(* Session.java, which are on disk, the task (Android's stack of            *)
(* activities, which survives the process), and the main thread.            *)
(*                                                                          *)
(* The handlers that leave a screen do some of the following, always in     *)
(* this order: write the flag of the first launch, write the flag of the    *)
(* login, start an activity, finish their own.  Each write is committed     *)
(* before the next step begins, and the process can die between any two.    *)
(***************************************************************************)
EXTENDS Integers, Sequences

VARIABLES
    firstTime,    \* IsFirstTimeLaunch, on disk
    loggedIn,     \* loggedin, on disk
    acts,         \* the activities started so far, by number
    task,         \* those in the task; the one on top is the one started last
    shown,        \* the activity whose window is on the screen
    run           \* what the main thread's present handler has still to do

session == <<firstTime, loggedIn>>

Nobody == 0

(* New activities.  made: there is an object for it in the process.
   Welcome: the page of its pager.
   Phone: the form (ready, waiting with everything disabled, asking for the
   code), where the verification is, the sign-ins under way; told and parted are
   history: an error was shown, and the activity was stopped.
   Edit: how often its listener is registered, calls of it that are posted,
   lookups, uploads and saves under way, mProImgs, the dialog; failed is history:
   a save failed. *)
Welcome == [what |-> "welcome", made |-> FALSE, page |-> 0]
Main    == [what |-> "main", made |-> FALSE]
Phone   == [what |-> "phone", made |-> FALSE, form |-> "ready", sms |-> "none",
            signIns |-> 0, told |-> FALSE, parted |-> FALSE]
Edit    == [what |-> "edit", made |-> FALSE, listeners |-> 0, calls |-> 0, lookups |-> 0,
            uploads |-> 0, saves |-> 0, image |-> FALSE, dialog |-> FALSE, failed |-> FALSE]

New == [welcome |-> Welcome, main |-> Main, phone |-> Phone, edit |-> Edit]

Top == CHOOSE i \in task : \A j \in task : j <= i

-----------------------------------------------------------------------------
NoHandler          == [me |-> Nobody, ops |-> {}, to |-> "main"]
Handler(i, ops, to) == [me |-> i, ops |-> ops, to |-> to]
Idle               == run.ops = {}

Done(op) == run' = [run EXCEPT !.ops = @ \ {op}]

setFirstTimeLaunch ==
    /\ "first" \in run.ops
    /\ firstTime' = FALSE
    /\ Done("first")
    /\ UNCHANGED <<loggedIn, acts, task, shown>>

setLoggedIn ==
    /\ "first" \notin run.ops
    /\ "logged" \in run.ops
    /\ loggedIn' = FALSE
    /\ Done("logged")
    /\ UNCHANGED <<firstTime, acts, task, shown>>

(* The flags are written at leisure. *)
startActivity_first ==
    /\ "start" \in run.ops
    /\ acts' = Append(acts, New[run.to])
    /\ task' = task \cup {Len(acts) + 1}
    /\ Done("start")
    /\ UNCHANGED <<session, shown>>

(* The system puts the new activity on top of the task; its window comes later. *)
startActivity ==
    /\ {"first", "logged"} \cap run.ops = {}
    /\ "start" \in run.ops
    /\ acts' = Append(acts, New[run.to])
    /\ task' = task \cup {Len(acts) + 1}
    /\ Done("start")
    /\ UNCHANGED <<session, shown>>

(* The activity leaves the task; its window stays until another one is there.  A
   second finish of the same activity does nothing. *)
finish ==
    /\ run.ops = {"finish"}
    /\ task' = task \ {run.me}
    /\ Done("finish")
    /\ UNCHANGED <<session, acts, shown>>

Continue == setFirstTimeLaunch \/ setLoggedIn \/ startActivity \/ finish

(* The activity on the screen is of this kind, and its thread takes input. *)
Front(what) == Idle /\ shown # Nobody /\ acts[shown].what = what
=============================================================================
