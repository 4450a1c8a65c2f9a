------------------------------- MODULE SignIn -------------------------------
(***************************************************************************)
(* PhoneActivity, which signs a user in by telephone number, and            *)
(* EditProfileActivity, which looks the user's profile up and lets it be    *)
(* written.  Firebase answers each of them by callbacks on the main thread, *)
(* in any order and at any time.                                            *)
(***************************************************************************)
EXTENDS Session

CONSTANTS
    MaxActs,     \* bound: activities started before the user stops
    MaxTries,    \* bound: sign-ins, uploads and saves an activity has under way
    MaxCopies    \* bound: registrations, calls and lookups when an activity is shown again

ASSUME SignInAssumption == MaxActs \in Nat /\ MaxTries \in Nat /\ MaxCopies \in Nat

VARIABLES
    user,        \* FirebaseAuth has a current user; it is remembered on disk
    profile,     \* the user's node in the database: none, partial or whole
    adrift       \* sign-ins under way whose activity was stopped

firebase == <<user, profile, adrift>>

(* The activity on the screen, and room for what the user wants of it. *)
Tapped(what) == Front(what) /\ Len(acts) < MaxActs

-----------------------------------------------------------------------------
(* PhoneActivity *)

Phones == {i \in DOMAIN acts : acts[i].what = "phone" /\ acts[i].made}

(* The send button disables itself and the number, and asks for a code. *)
sendButton ==
    /\ Tapped("phone")
    /\ acts[shown].form = "ready"
    /\ acts' = [acts EXCEPT ![shown].form = "waiting", ![shown].sms = "asked"]
    /\ UNCHANGED <<session, task, shown, run, firebase>>

onCodeSent(i) ==
    /\ Idle
    /\ acts[i].sms = "asked"
    /\ acts' = [acts EXCEPT ![i].form = "code", ![i].sms = "sent"]
    /\ UNCHANGED <<session, task, shown, run, firebase>>

(* The number needs no code, or the code was read from the message. *)
onVerificationCompleted(i) ==
    /\ Idle
    /\ acts[i].sms # "none"
    /\ acts' = [acts EXCEPT ![i].sms = "none", ![i].signIns = @ + 1]
    /\ UNCHANGED <<session, task, shown, run, firebase>>

(* Nothing is said. *)
onVerificationFailed_silent(i) ==
    /\ Idle
    /\ acts[i].sms = "asked"
    /\ acts' = [acts EXCEPT ![i].sms = "none"]
    /\ UNCHANGED <<session, task, shown, run, firebase>>

(* Only an error is shown: number and button stay disabled. *)
onVerificationFailed(i) ==
    /\ Idle
    /\ acts[i].sms = "asked"
    /\ acts' = [acts EXCEPT ![i].sms = "none", ![i].told = TRUE]
    /\ UNCHANGED <<session, task, shown, run, firebase>>

(* After sixty seconds the message is waited for no more. *)
RetrievalTimesOut(i) ==
    /\ Idle
    /\ acts[i].sms = "sent"
    /\ acts' = [acts EXCEPT ![i].sms = "none"]
    /\ UNCHANGED <<session, task, shown, run, firebase>>

(* The verify button stays enabled. *)
verifyButton ==
    /\ Tapped("phone")
    /\ acts[shown].form = "code"
    /\ acts[shown].signIns + adrift < MaxTries
    /\ acts' = [acts EXCEPT ![shown].signIns = @ + 1]
    /\ UNCHANGED <<session, task, shown, run, firebase>>

(* A new user: FirebaseAuth posts a call for every registration there is. *)
Notified(as) ==
    [i \in DOMAIN as |->
        IF as[i].what = "edit" /\ ~user THEN [as[i] EXCEPT !.calls = @ + as[i].listeners] ELSE as[i]]

(* signInWithPhoneAuthCredential: the result, while the activity is started. *)
SignInSucceeds(i) ==
    /\ Idle
    /\ acts[i].signIns > 0
    /\ user' = TRUE
    /\ acts' = Notified([acts EXCEPT ![i].signIns = @ - 1])
    /\ run' = Handler(i, {"start", "finish"}, "edit")
    /\ UNCHANGED <<session, task, shown, profile, adrift>>

SignInFails(i) ==
    /\ Idle
    /\ acts[i].signIns > 0
    /\ acts' = [acts EXCEPT ![i].signIns = @ - 1, ![i].told = TRUE]
    /\ UNCHANGED <<session, task, shown, run, firebase>>

(* The result of a sign-in that nobody waits for any more. *)
SignInAdrift ==
    /\ Idle
    /\ adrift > 0
    /\ adrift' = adrift - 1
    /\ \/ user' = TRUE /\ acts' = Notified(acts)
       \/ UNCHANGED <<user, acts>>
    /\ UNCHANGED <<session, task, shown, run, profile>>

PhoneActivity ==
    \/ sendButton \/ verifyButton \/ SignInAdrift
    \/ \E i \in Phones : \/ onCodeSent(i) \/ onVerificationCompleted(i) \/ onVerificationFailed(i)
                         \/ RetrievalTimesOut(i) \/ SignInSucceeds(i) \/ SignInFails(i)

-----------------------------------------------------------------------------
(* EditProfileActivity *)

Edits == {i \in DOMAIN acts : acts[i].what = "edit" /\ acts[i].made}

(* A posted call of the listener. *)
onAuthStateChanged(i) ==
    /\ Idle
    /\ acts[i].calls > 0
    /\ IF user
         THEN /\ acts' = [acts EXCEPT ![i].calls = @ - 1, ![i].lookups = @ + 1]
              /\ UNCHANGED run
         ELSE /\ acts' = [acts EXCEPT ![i].calls = @ - 1]
              /\ run' = Handler(i, {"start", "finish"}, "phone")
    /\ UNCHANGED <<session, task, shown, firebase>>

(* Whatever was found. *)
onDataChange_anyone(i) ==
    /\ Idle
    /\ acts[i].lookups > 0
    /\ acts' = [acts EXCEPT ![i].lookups = @ - 1]
    /\ run' = Handler(i, {"first", "logged", "start"}, "main")
    /\ UNCHANGED <<session, task, shown, firebase>>

(* checkUser: a profile, however incomplete, leads to MainActivity; this activity
   is not finished. *)
onDataChange(i) ==
    /\ Idle
    /\ acts[i].lookups > 0
    /\ acts' = [acts EXCEPT ![i].lookups = @ - 1]
    /\ run' = IF profile = "none" THEN run ELSE Handler(i, {"first", "logged", "start"}, "main")
    /\ UNCHANGED <<session, task, shown, firebase>>

onCancelled(i) ==
    /\ Idle
    /\ acts[i].lookups > 0
    /\ acts' = [acts EXCEPT ![i].lookups = @ - 1]
    /\ run' = Handler(i, {"start", "finish"}, "phone")
    /\ UNCHANGED <<session, task, shown, firebase>>

(* An activity that was destroyed under its dialog cannot dismiss it: see Launch. *)
Attached(i) == i \in task \/ i = shown

(* The user can act on the form: no dialog over it; posted calls, which run before
   any tap, have run; and they found a user, or the activity is on its way out. *)
Form == Tapped("edit") /\ user /\ ~acts[shown].dialog /\ acts[shown].calls = 0

(* A picture is chosen, compressed and on its way to the storage; when one of
   these fails, nothing happens. *)
onSingleImageSelected ==
    /\ Form
    /\ acts[shown].uploads < MaxTries
    /\ acts' = [acts EXCEPT ![shown].uploads = @ + 1]
    /\ UNCHANGED <<session, task, shown, run, firebase>>

(* The picture has an address: it is written at once, with the name and the text
   as they stand in the form, long enough or not. *)
UploadSucceeds(i) ==
    /\ Idle
    /\ acts[i].uploads > 0
    /\ acts' = [acts EXCEPT ![i].uploads = @ - 1, ![i].image = TRUE]
    /\ profile' \in {"partial", "whole"}
    /\ UNCHANGED <<session, task, shown, run, user, adrift>>

UploadFails(i) ==
    /\ Idle
    /\ acts[i].uploads > 0
    /\ acts[i].dialog => Attached(i)
    /\ acts' = [acts EXCEPT ![i].uploads = @ - 1, ![i].dialog = FALSE]
    /\ UNCHANGED <<session, task, shown, run, firebase>>

(* The button, with name and text long enough and an image; without them it only
   says what is missing. *)
sendInfo ==
    /\ Form
    /\ acts[shown].image
    /\ acts[shown].saves < MaxTries
    /\ acts' = [acts EXCEPT ![shown].dialog = TRUE, ![shown].saves = @ + 1]
    /\ UNCHANGED <<session, task, shown, run, firebase>>

(* The profile is written. *)
SaveSucceeds(i) ==
    /\ Idle
    /\ acts[i].saves > 0
    /\ acts[i].dialog => Attached(i)
    /\ profile' = "whole"
    /\ acts' = [acts EXCEPT ![i].saves = @ - 1, ![i].dialog = FALSE]
    /\ run' = Handler(i, {"first", "logged", "start", "finish"}, "main")
    /\ UNCHANGED <<session, task, shown, user, adrift>>

(* Only success is looked at: the dialog stays. *)
SaveFails(i) ==
    /\ Idle
    /\ acts[i].saves > 0
    /\ acts' = [acts EXCEPT ![i].saves = @ - 1, ![i].failed = TRUE]
    /\ UNCHANGED <<session, task, shown, run, firebase>>

EditProfileActivity ==
    \/ onSingleImageSelected \/ sendInfo
    \/ \E i \in Edits : \/ onAuthStateChanged(i) \/ onDataChange(i) \/ onCancelled(i)
                        \/ UploadSucceeds(i) \/ UploadFails(i) \/ SaveSucceeds(i) \/ SaveFails(i)
=============================================================================
