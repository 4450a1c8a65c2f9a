-------------------------------- MODULE Launch --------------------------------
(***************************************************************************)
(* WelcomeActivity, which the launcher icon opens, and the launch screens   *)
(* together: the system that shows and stops activities, the Back key, the  *)
(* Home key, and the death of the process at any moment.                    *)
(*                                                                          *)
(* In this commit only the icon opens anything.  PhoneActivity and          *)
(* EditProfileActivity start each other and MainActivity, and nothing       *)
(* starts them; the other two entries are what they do once something does. *)
(***************************************************************************)
EXTENDS SignIn

CONSTANT Entries     \* how the application is opened, a subset of {"welcome", "phone", "edit"}

ASSUME EntryAssumption == Entries \subseteq {"welcome", "phone", "edit"}

VARIABLES
    entry,       \* the way it is opened in this behaviour
    foreground   \* the application is what the user looks at

vars == <<session, acts, task, shown, run, firebase, entry, foreground>>

Slides == 4      \* layouts.length

Init ==
    /\ firstTime = TRUE /\ loggedIn = TRUE          \* the defaults of Session
    /\ acts = <<>> /\ task = {} /\ shown = Nobody
    /\ run = NoHandler
    /\ user \in BOOLEAN /\ profile \in {"none", "whole"} /\ adrift = 0
    /\ entry \in Entries
    /\ foreground = FALSE

-----------------------------------------------------------------------------
(* WelcomeActivity *)

launchHomeScreen(i) == run' = Handler(i, {"first", "start", "finish"}, "main")

(* Nothing is started for one who has logged in. *)
onCreate_forgets(i) ==
    IF loggedIn
      THEN run' = Handler(i, {"first", "logged", "finish"}, "main")
      ELSE launchHomeScreen(i)

(* onCreate, when it is not the first launch; the rest of it makes a screen that
   is never shown, because the activity is finished by then. *)
onCreate(i) ==
    IF loggedIn
      THEN run' = Handler(i, {"first", "logged", "start", "finish"}, "main")
      ELSE launchHomeScreen(i)

(* The Skip button is there on every slide but the last. *)
btnSkip ==
    /\ Tapped("welcome")
    /\ acts[shown].page < Slides - 1
    /\ launchHomeScreen(shown)
    /\ UNCHANGED <<session, acts, task, shown, firebase, entry, foreground>>

(* One slide on, or, from the last one, home. *)
btnNext ==
    /\ Tapped("welcome")
    /\ LET current == acts[shown].page + 1
       IN  IF current < Slides
             THEN acts' = [acts EXCEPT ![shown].page = current] /\ UNCHANGED run
             ELSE launchHomeScreen(shown) /\ UNCHANGED acts
    /\ UNCHANGED <<session, task, shown, firebase, entry, foreground>>

(* The pager also follows the finger. *)
Swipe ==
    /\ Front("welcome")
    /\ \E p \in 0..(Slides - 1) :
          /\ p \in {acts[shown].page - 1, acts[shown].page + 1}
          /\ acts' = [acts EXCEPT ![shown].page = p]
    /\ UNCHANGED <<session, task, shown, run, firebase, entry, foreground>>

WelcomeActivity == btnSkip \/ btnNext \/ Swipe

-----------------------------------------------------------------------------
(* The system. *)

(* Callbacks outlive the activity. *)
Stopped_unscoped(a) ==
    IF a.what = "edit" THEN [a EXCEPT !.listeners = IF @ > 0 THEN @ - 1 ELSE 0] ELSE a

(* An activity that is stopped: Firebase drops the callbacks that were given the
   PhoneActivity; EditProfileActivity removes its listener, once. *)
Stopped(a) ==
    CASE a.what = "phone" -> [a EXCEPT !.sms = "none", !.signIns = 0, !.parted = TRUE]
      [] a.what = "edit"  -> [a EXCEPT !.listeners = IF @ > 0 THEN @ - 1 ELSE 0]
      [] OTHER            -> a

(* onStart and onResume of EditProfileActivity register the listener each, and
   each registration posts a call. *)
Started(a) ==
    IF a.what = "edit"
      THEN [a EXCEPT !.made = TRUE, !.listeners = @ + 2, !.calls = @ + 2]
      ELSE [a EXCEPT !.made = TRUE]

WithoutWindow == IF shown = Nobody THEN acts ELSE [acts EXCEPT ![shown] = Stopped(@)]
Dropped       == IF shown # Nobody /\ acts[shown].what = "phone" THEN acts[shown].signIns ELSE 0

(* The slides are shown first and the flag is looked at afterwards. *)
Resume_anyhow ==
    /\ Idle /\ foreground /\ task # {} /\ shown # Top
    /\ acts' = [WithoutWindow EXCEPT ![Top] = Started(@)]
    /\ adrift' = adrift + Dropped
    /\ shown' = Top
    /\ UNCHANGED <<session, task, run, user, profile, entry, foreground>>

(* The activity on top gets its window and the one before is stopped.  A Welcome
   that is created when it is not the first launch never gets a window. *)
Resume ==
    /\ Idle /\ foreground /\ task # {} /\ shown # Top
    /\ acts' = [WithoutWindow EXCEPT ![Top] = Started(@)]
    /\ adrift' = adrift + Dropped
    /\ IF acts[Top].what = "welcome" /\ ~acts[Top].made /\ ~firstTime
         THEN shown' = Nobody /\ onCreate(Top)
         ELSE shown' = Top /\ UNCHANGED run
    /\ UNCHANGED <<session, task, user, profile, entry, foreground>>

(* The last activity was finished, or the user presses Home. *)
Leave ==
    /\ Idle /\ foreground
    /\ acts' = WithoutWindow
    /\ adrift' = adrift + Dropped
    /\ shown' = Nobody
    /\ foreground' = FALSE
    /\ UNCHANGED <<session, task, run, user, profile, entry>>

(* Few enough copies of the listener are about. *)
Uncrowded == \A i \in Edits : acts[i].listeners + acts[i].calls + acts[i].lookups <= MaxCopies

(* Another screen covers EditProfileActivity for a moment: onPause, onResume. *)
Refocus ==
    /\ Front("edit")
    /\ Uncrowded
    /\ acts' = [acts EXCEPT ![shown].listeners = @ + 1, ![shown].calls = @ + 1]
    /\ UNCHANGED <<session, task, shown, run, firebase, entry, foreground>>

(* The default of every activity here, and of MainActivity on its home page; the
   dialog of EditProfileActivity cannot be cancelled. *)
Back ==
    /\ Idle /\ shown \in task /\ Len(acts) < MaxActs
    /\ acts[shown].what = "edit" => ~acts[shown].dialog
    /\ run' = Handler(shown, {"finish"}, "main")
    /\ UNCHANGED <<session, acts, task, shown, firebase, entry, foreground>>

Open ==
    /\ ~foreground /\ Uncrowded
    /\ foreground' = TRUE
    /\ IF task = {}
         THEN /\ Len(acts) < MaxActs
              /\ acts' = Append(acts, New[entry])
              /\ task' = {Len(acts) + 1}
         ELSE UNCHANGED <<acts, task>>
    /\ UNCHANGED <<session, shown, run, firebase, entry>>

(* The objects are gone, the task and the disk stay.  The pager's page is saved
   when Welcome was stopped; writes under way have or have not arrived. *)
ProcessDies ==
    /\ \E saved \in BOOLEAN :
          acts' = [i \in DOMAIN acts |->
                      IF acts[i].what = "welcome" /\ saved
                        THEN [acts[i] EXCEPT !.made = FALSE]
                        ELSE New[acts[i].what]]
    /\ profile' \in {profile} \cup (IF \E i \in Edits : acts[i].saves > 0 THEN {"whole"} ELSE {})
    /\ shown' = Nobody
    /\ run' = NoHandler
    /\ adrift' = 0
    /\ foreground' = FALSE
    /\ UNCHANGED <<session, task, user, entry>>

(* The system kills it, at any moment. *)
Kill == ProcessDies

(* A save succeeds, or an upload fails, after its activity was destroyed with the
   dialog up: hideDialog throws. *)
HideTooLate ==
    /\ Idle
    /\ \E i \in Edits :
          /\ acts[i].dialog /\ ~Attached(i)
          /\ \/ acts[i].saves > 0 /\ profile' = "whole"
             \/ acts[i].uploads > 0
    /\ ProcessDies

-----------------------------------------------------------------------------
Screens == Continue /\ UNCHANGED <<firebase, entry, foreground>>
Login   == (PhoneActivity \/ EditProfileActivity) /\ UNCHANGED <<entry, foreground>>
System  == Resume \/ Leave \/ Refocus \/ Back \/ Open \/ Kill \/ HideTooLate

Next == Screens \/ WelcomeActivity \/ Login \/ System

(* The main thread goes on with its handler, and the system shows what is on top. *)
Fairness == WF_vars(Screens) /\ WF_vars(Resume)

Spec == Init /\ [][Next]_vars /\ Fairness

-----------------------------------------------------------------------------
Ops == {"first", "logged", "start", "finish"}

(* The state is well typed. *)
TypeOK ==
    /\ firstTime \in BOOLEAN /\ loggedIn \in BOOLEAN
    /\ acts \in Seq(   [what : {"welcome"}, made : BOOLEAN, page : 0..(Slides - 1)]
                  \cup [what : {"main"}, made : BOOLEAN]
                  \cup [what : {"phone"}, made : BOOLEAN, form : {"ready", "waiting", "code"},
                        sms : {"none", "asked", "sent"}, signIns : Nat, told : BOOLEAN,
                        parted : BOOLEAN]
                  \cup [what : {"edit"}, made : BOOLEAN, listeners : Nat, calls : Nat,
                        lookups : Nat, uploads : Nat, saves : Nat, image : BOOLEAN,
                        dialog : BOOLEAN, failed : BOOLEAN])
    /\ task \subseteq DOMAIN acts
    /\ shown \in {Nobody} \cup DOMAIN acts
    /\ run \in [me : {Nobody} \cup DOMAIN acts, ops : SUBSET Ops, to : {"main", "phone", "edit"}]
    /\ user \in BOOLEAN /\ profile \in {"none", "partial", "whole"} /\ adrift \in Nat
    /\ entry \in Entries /\ foreground \in BOOLEAN

Has(what) == \E i \in task : acts[i].what = what

(* MainActivity is in the task only when the first launch is recorded on disk,
   whichever handler started it and wherever the process died. *)
HomeRemembered == Has("main") => ~firstTime

(* The slides are never shown again once the user went past them. *)
Screen ==
    IF shown = Nobody THEN "none"
    ELSE CASE acts[shown].what = "welcome" -> "slides"
           [] acts[shown].what = "main"    -> "home"
           [] OTHER                        -> "none"

Promise == INSTANCE Onboarding WITH seen <- ~firstTime, screen <- Screen

OnboardingOnce == Promise!Spec

(* Whatever the two flags say, a launch that is not the first arrives at
   MainActivity, unless the user leaves or the process dies. *)
HomeReached ==
    (foreground /\ task # {} /\ acts[Top].what = "welcome" /\ ~firstTime)
        ~> (Screen = "home" \/ ~foreground)

(* A sign-in leads to MainActivity only with a user, and a profile in the database. *)
HomeHasProfile == Has("main") /\ entry # "welcome" => user /\ profile # "none"

(* EditProfileActivity is started by a PhoneActivity that is on the screen, never
   by a result that arrives later; opening it is the other way. *)
NoLateSignIn ==
    [][\A i \in DOMAIN acts' \ DOMAIN acts :
          acts'[i].what = "edit" => task = {} \/ (run.me = shown /\ acts[shown].what = "phone")]_vars

(* The two ways to a screen that takes no input any more.  PhoneActivity: all is
   disabled and nothing is under way. *)
StuckForm(a)   == a.what = "phone" /\ a.form = "waiting" /\ a.sms = "none" /\ a.signIns = 0
(* EditProfileActivity: the dialog is up and nothing will take it down. *)
StuckDialog(a) == a.what = "edit" /\ a.dialog /\ a.saves = 0

(* A screen takes no input any more only after something went wrong: the form of
   PhoneActivity after an error that was shown, or after the user left it while it
   waited; the dialog of EditProfileActivity after a save that failed, and of that
   one the user is told nothing (EditProfileActivity.java:134 looks at success
   only). *)
StuckForAReason ==
    Idle => \A i \in task :
        /\ StuckForm(acts[i]) => acts[i].told \/ acts[i].parted
        /\ StuckDialog(acts[i]) => acts[i].failed
=============================================================================
