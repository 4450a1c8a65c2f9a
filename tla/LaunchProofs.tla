---------------------------- MODULE LaunchProofs ----------------------------
(* Proofs about Launch, for any number of activities, tries and copies. *)
EXTENDS Launch, TLAPS, WellFoundedInduction

(* A set of numbers below a bound has a greatest, which is what Top names. *)
LEMMA Greatest ==
    ASSUME NEW n \in Nat, NEW S \in SUBSET (1..n), S # {}
    PROVE  \E i \in S : \A j \in S : j <= i
<1> DEFINE T == {n - i : i \in S}
<1>1. T \subseteq Nat /\ T # {}
  <2>1. \A i \in S : n - i \in Nat
    OBVIOUS
  <2>2. PICK i \in S : TRUE
    OBVIOUS
  <2> QED
    BY <2>1, <2>2
<1>2. PICK t \in T : \A u \in T : ~(<<u, t>> \in OpToRel(<, Nat))
  <2> HIDE DEF T
  <2> QED
    BY <1>1, WFMin, NatLessThanWellFounded
<1>3. \A u \in T : ~(u < t)
  BY <1>1, <1>2 DEF OpToRel
<1>4. PICK i \in S : t = n - i
  OBVIOUS
<1>5. ASSUME NEW j \in S PROVE j <= i
  <2>1. n - j \in T
    OBVIOUS
  <2>2. ~(n - j < n - i)
    BY <1>3, <1>4, <2>1
  <2> QED
    BY <2>2
<1> QED
  BY <1>5

LEMMA TopInTask ==
    ASSUME task \subseteq 1..Len(acts), Len(acts) \in Nat, task # {}
    PROVE  Top \in task
  BY Greatest DEF Top

-----------------------------------------------------------------------------
(* The kinds of activity, and the invariant. *)
WelcomeType == [what : {"welcome"}, made : BOOLEAN, page : 0..(Slides - 1)]
MainType    == [what : {"main"}, made : BOOLEAN]
PhoneType   == [what : {"phone"}, made : BOOLEAN, form : {"ready", "waiting", "code"},
                sms : {"none", "asked", "sent"}, signIns : Nat, told : BOOLEAN, parted : BOOLEAN]
EditType    == [what : {"edit"}, made : BOOLEAN, listeners : Nat, calls : Nat, lookups : Nat,
                uploads : Nat, saves : Nat, image : BOOLEAN, dialog : BOOLEAN, failed : BOOLEAN]
Act         == WelcomeType \cup MainType \cup PhoneType \cup EditType

Profiles == {"none", "partial", "whole"}

(* What holds of the activity i when s is shown: answers are awaited by the one on
   the screen, or for a user there is; a message that was sent has its field; and a dialog that nothing takes down is
   there because a save failed. *)
Local(a, i, s, u) ==
    /\ a.what = "phone" => (a.signIns > 0 \/ a.sms # "none" => i = s)
                           /\ (a.sms = "sent" => a.form = "code")
    /\ a.what = "edit" => (a.lookups > 0 \/ a.saves > 0 => u)
    /\ StuckDialog(a) => a.failed

(* The variables apart from the handler. *)
Typed ==
    /\ firstTime \in BOOLEAN /\ loggedIn \in BOOLEAN
    /\ acts \in Seq(Act)
    /\ task \subseteq DOMAIN acts
    /\ shown \in {Nobody} \cup DOMAIN acts
    /\ user \in BOOLEAN /\ profile \in Profiles /\ adrift \in Nat
    /\ entry \in Entries /\ foreground \in BOOLEAN

(* Which kinds there are, by the way the application is opened. *)
Kinds ==
    /\ \A i \in DOMAIN acts : IF entry = "welcome" THEN acts[i].what \in {"welcome", "main"}
                                                   ELSE acts[i].what # "welcome"
    /\ \A i \in DOMAIN acts : acts[i].what = "main" => ~firstTime

(* There is one Welcome at most, in the task or on the screen. *)
OneWelcome ==
    /\ \A i, j \in task : acts[i].what = "welcome" /\ acts[j].what = "welcome" => i = j
    /\ \A j \in task : shown # Nobody /\ acts[shown].what = "welcome" /\ acts[j].what = "welcome"
                          => shown = j

ShownInFront == ~foreground => shown = Nobody

Locals == \A i \in DOMAIN acts : Local(acts[i], i, shown, user)

MainHasProfile ==
    entry # "welcome" =>
        \A i \in DOMAIN acts : acts[i].what = "main" => user /\ profile # "none"

(* A handler that starts something has what it needs, and one that forgets the
   slides finishes the Welcome there is. *)
Starts(what) == "start" \in run.ops /\ run.to = what

RunInv ==
    /\ run \in [me : {Nobody} \cup DOMAIN acts, ops : SUBSET Ops, to : {"main", "phone", "edit"}]
    /\ Starts("main") => "first" \in run.ops \/ ~firstTime
    /\ Starts("main") /\ entry # "welcome" => user /\ profile # "none"
    /\ "start" \in run.ops /\ entry = "welcome" => run.to = "main"
    /\ Starts("edit") => run.me = shown /\ shown # Nobody /\ acts[shown].what = "phone"

Leaving(i) == run.me = i /\ "finish" \in run.ops

PastSlides ==
    \A i \in task : acts[i].what = "welcome" /\ acts[i].made /\ (~firstTime \/ "first" \in run.ops)
                     => Leaving(i)

FormsMove == \A i \in task : StuckForm(acts[i]) => acts[i].told \/ acts[i].parted \/ Leaving(i)

LaunchInv ==
    /\ Typed /\ Kinds /\ OneWelcome /\ ShownInFront /\ Locals /\ MainHasProfile
    /\ RunInv /\ PastSlides /\ FormsMove

-----------------------------------------------------------------------------
LEMMA KindOf ==
    ASSUME NEW a \in Act
    PROVE  /\ a.what \in {"welcome", "main", "phone", "edit"} /\ a.made \in BOOLEAN
           /\ a.what = "welcome" => a \in WelcomeType
           /\ a.what = "main" => a \in MainType
           /\ a.what = "phone" => a \in PhoneType
           /\ a.what = "edit" => a \in EditType
<1>1. CASE a \in WelcomeType
  BY <1>1 DEF WelcomeType
<1>2. CASE a \in MainType
  BY <1>2 DEF MainType
<1>3. CASE a \in PhoneType
  BY <1>3 DEF PhoneType
<1>4. CASE a \in EditType
  BY <1>4 DEF EditType
<1> QED
  BY <1>1, <1>2, <1>3, <1>4 DEF Act

(* New activities, not yet made, wait for nothing. *)
LEMMA NewAct ==
    ASSUME NEW w \in {"welcome", "main", "phone", "edit"}
    PROVE  /\ New[w] \in Act /\ New[w].what = w /\ ~New[w].made
           /\ \A i, s, u : Local(New[w], i, s, u)
           /\ ~StuckForm(New[w])
<1>1. CASE w = "welcome"
  <2>1. New[w] = Welcome
    BY <1>1 DEF New
  <2>2. Welcome \in WelcomeType
    BY DEF Welcome, WelcomeType, Slides
  <2> QED
    BY <1>1, <2>1, <2>2 DEF Welcome, Act, Local, StuckDialog, StuckForm
<1>2. CASE w = "main"
  <2>1. New[w] = Main
    BY <1>2 DEF New
  <2>2. Main \in MainType
    BY DEF Main, MainType
  <2> QED
    BY <1>2, <2>1, <2>2 DEF Main, Act, Local, StuckDialog, StuckForm
<1>3. CASE w = "phone"
  <2>1. New[w] = Phone
    BY <1>3 DEF New
  <2>2. Phone \in PhoneType
    BY DEF Phone, PhoneType
  <2> QED
    BY <1>3, <2>1, <2>2 DEF Phone, Act, Local, StuckDialog, StuckForm
<1>4. CASE w = "edit"
  <2>1. New[w] = Edit
    BY <1>4 DEF New
  <2>2. Edit \in EditType
    BY DEF Edit, EditType
  <2> QED
    BY <1>4, <2>1, <2>2 DEF Edit, Act, Local, StuckDialog, StuckForm
<1> QED
  BY <1>1, <1>2, <1>3, <1>4

LEMMA LaunchInit == Init => LaunchInv
<1> SUFFICES ASSUME Init PROVE LaunchInv
  OBVIOUS
<1>e. acts = <<>> /\ acts \in Seq(Act) /\ DOMAIN acts = {} /\ task = {}
  BY DEF Init
<1>t. Typed
  BY <1>e DEF Init, Typed, Profiles, Nobody
<1>1. Typed /\ Kinds /\ OneWelcome /\ ShownInFront /\ Locals /\ MainHasProfile
  BY <1>t, <1>e DEF Init, Kinds, OneWelcome, ShownInFront, Locals, MainHasProfile
<1>2. RunInv /\ PastSlides /\ FormsMove
  BY DEF Init, RunInv, PastSlides, FormsMove, NoHandler, Nobody, Starts
<1> QED
  BY <1>1, <1>2 DEF LaunchInv

-----------------------------------------------------------------------------
(* Steps of the activities: the main thread is idle, and afterwards it is idle
   still or has a handler to run.  No activity comes, goes or changes its kind. *)
Stays ==
    /\ UNCHANGED <<session, task, shown, entry, foreground>>
    /\ user' \in BOOLEAN /\ (user => user')
    /\ profile' \in Profiles /\ (profile # "none" => profile' # "none")
    /\ adrift' \in Nat

Alike ==
    /\ acts' \in Seq(Act) /\ DOMAIN acts' = DOMAIN acts
    /\ \A j \in DOMAIN acts : acts'[j].what = acts[j].what /\ acts'[j].made = acts[j].made

LEMMA AlikeKeeps ==
    ASSUME LaunchInv, Stays, Alike, Locals', FormsMove', RunInv', PastSlides'
    PROVE  LaunchInv'
<1>1. /\ firstTime' = firstTime /\ loggedIn' = loggedIn /\ task' = task /\ shown' = shown
      /\ entry' = entry /\ foreground' = foreground
  BY DEF Stays, session
<1>2. Typed'
  BY <1>1 DEF LaunchInv, Typed, Stays, Alike
<1>3. Kinds'
  BY <1>1 DEF LaunchInv, Kinds, Alike
<1>4. OneWelcome'
  <2>1. task \subseteq DOMAIN acts /\ shown \in {Nobody} \cup DOMAIN acts
    BY DEF LaunchInv, Typed
  <2> QED
    BY <1>1, <2>1 DEF LaunchInv, OneWelcome, Alike
<1>5. ShownInFront'
  BY <1>1 DEF LaunchInv, ShownInFront
<1>6. MainHasProfile'
  BY <1>1 DEF LaunchInv, MainHasProfile, Alike, Stays
<1> QED
  BY <1>2, <1>3, <1>4, <1>5, <1>6 DEF LaunchInv

LEMMA SameHandler ==
    ASSUME LaunchInv, Stays, Alike, UNCHANGED run
    PROVE  RunInv' /\ PastSlides'
<1>1. /\ firstTime' = firstTime /\ task' = task /\ shown' = shown /\ entry' = entry
      /\ DOMAIN acts' = DOMAIN acts /\ task \subseteq DOMAIN acts
      /\ shown \in {Nobody} \cup DOMAIN acts
  BY DEF Stays, session, Alike, LaunchInv, Typed
<1>2. RunInv'
  BY <1>1 DEF LaunchInv, RunInv, Starts, Stays, Alike
<1>3. PastSlides'
  BY <1>1 DEF LaunchInv, PastSlides, Leaving, Alike
<1> QED
  BY <1>2, <1>3

(* What the handlers have in common. *)
Fits(i, ops, to) ==
    /\ ops \in SUBSET Ops /\ to \in {"main", "phone", "edit"}
    /\ "start" \in ops /\ to = "main" => "first" \in ops
    /\ "start" \in ops /\ to = "main" /\ entry # "welcome" => user' /\ profile' # "none"
    /\ "start" \in ops /\ entry = "welcome" => to = "main"
    /\ "start" \in ops /\ to = "edit" => i = shown /\ acts[i].what = "phone"
    /\ "first" \in ops => \A j \in task : acts[j].what = "welcome" => i = j /\ "finish" \in ops

LEMMA NewHandler ==
    ASSUME LaunchInv, Idle, Stays, Alike, NEW i \in DOMAIN acts, NEW ops, NEW to,
           Fits(i, ops, to), run' = Handler(i, ops, to)
    PROVE  RunInv' /\ PastSlides'
<1>1. /\ firstTime' = firstTime /\ task' = task /\ shown' = shown /\ entry' = entry
      /\ DOMAIN acts' = DOMAIN acts /\ task \subseteq DOMAIN acts
      /\ shown \in {Nobody} \cup DOMAIN acts
  BY DEF Stays, session, Alike, LaunchInv, Typed
<1>2. run'.me = i /\ run'.ops = ops /\ run'.to = to
      /\ run' \in [me : {Nobody} \cup DOMAIN acts, ops : SUBSET Ops, to : {"main", "phone", "edit"}]
  BY DEF Handler, Fits
<1>n. i # Nobody
  BY DEF LaunchInv, Typed, Nobody
<1>3. RunInv'
  BY <1>1, <1>2, <1>n DEF RunInv, Starts, Fits, Alike
<1>4. PastSlides'
  <2> SUFFICES ASSUME NEW j \in task, acts[j].what = "welcome", acts[j].made,
                      ~firstTime \/ "first" \in ops
               PROVE  i = j /\ "finish" \in ops
    BY <1>1, <1>2 DEF PastSlides, Leaving, Alike
  <2>1. firstTime
    BY DEF LaunchInv, PastSlides, Leaving, Idle
  <2> QED
    BY <2>1 DEF Fits
<1> QED
  BY <1>3, <1>4

(* One activity changes. *)
LEMMA PutAct ==
    ASSUME LaunchInv, Idle, Stays, NEW i \in DOMAIN acts, NEW g \in Act,
           acts' = [acts EXCEPT ![i] = g], g.what = acts[i].what, g.made = acts[i].made,
           Local(g, i, shown, user'), StuckForm(g) => g.told \/ g.parted \/ Leaving(i)'
    PROVE  Alike /\ Locals' /\ FormsMove'
<1>1. acts \in Seq(Act) /\ task' = task /\ shown' = shown
  BY DEF LaunchInv, Typed, Stays
<1>2. /\ acts' \in Seq(Act) /\ DOMAIN acts' = DOMAIN acts /\ acts'[i] = g
      /\ \A j \in DOMAIN acts : j # i => acts'[j] = acts[j]
  BY <1>1
<1>3. Alike
  BY <1>2 DEF Alike
<1>4. Locals'
  <2> SUFFICES ASSUME NEW j \in DOMAIN acts' PROVE Local(acts'[j], j, shown, user')
    BY <1>1 DEF Locals
  <2>1. CASE j = i
    BY <1>2, <2>1
  <2>2. CASE j # i
    <3>1. Local(acts[j], j, shown, user) /\ acts'[j] = acts[j]
      BY <1>2, <2>2 DEF LaunchInv, Locals
    <3> QED
      BY <3>1 DEF Local, Stays
  <2> QED
    BY <2>1, <2>2
<1>5. FormsMove'
  <2> SUFFICES ASSUME NEW j \in task, StuckForm(acts'[j])
               PROVE  acts'[j].told \/ acts'[j].parted \/ Leaving(j)'
    BY <1>1 DEF FormsMove
  <2>1. CASE j = i
    BY <1>2, <2>1
  <2>2. CASE j # i
    <3>1. acts'[j] = acts[j] /\ ~Leaving(j)
      BY <1>2, <2>2 DEF LaunchInv, Typed, Leaving, Idle
    <3> QED
      BY <3>1 DEF LaunchInv, FormsMove
  <2> QED
    BY <2>1, <2>2
<1> QED
  BY <1>3, <1>4, <1>5

(* What these steps keep. *)
Kept == LaunchInv' /\ Stays /\ Alike

(* ... and nothing else does. *)
LEMMA PutQuietly ==
    ASSUME LaunchInv, Idle, Stays, UNCHANGED run, NEW i \in DOMAIN acts, NEW g \in Act,
           acts' = [acts EXCEPT ![i] = g], g.what = acts[i].what, g.made = acts[i].made,
           Local(g, i, shown, user'), StuckForm(g) => g.told \/ g.parted
    PROVE  Kept
<1>1. Alike /\ Locals' /\ FormsMove'
  BY PutAct
<1>2. RunInv' /\ PastSlides'
  BY <1>1, SameHandler
<1> QED
  BY <1>1, <1>2, AlikeKeeps DEF Kept

(* ... and a handler begins. *)
LEMMA PutAndRun ==
    ASSUME LaunchInv, Idle, Stays, NEW i \in DOMAIN acts, NEW g \in Act, NEW ops, NEW to,
           Fits(i, ops, to), run' = Handler(i, ops, to),
           acts' = [acts EXCEPT ![i] = g], g.what = acts[i].what, g.made = acts[i].made,
           Local(g, i, shown, user'), StuckForm(g) => g.told \/ g.parted \/ "finish" \in ops
    PROVE  Kept
<1>0. StuckForm(g) => g.told \/ g.parted \/ Leaving(i)'
  BY DEF Leaving, Handler
<1>1. Alike /\ Locals' /\ FormsMove'
  BY <1>0, PutAct
<1>2. RunInv' /\ PastSlides'
  BY <1>1, NewHandler
<1> QED
  BY <1>1, <1>2, AlikeKeeps DEF Kept

-----------------------------------------------------------------------------
(* What a handler of an activity starts from. *)
LEMMA OneOf ==
    ASSUME LaunchInv, NEW i \in DOMAIN acts
    PROVE  /\ acts[i] \in Act /\ Local(acts[i], i, shown, user)
           /\ acts[i].what = "welcome" => acts[i] \in WelcomeType
           /\ acts[i].what = "phone" => acts[i] \in PhoneType
           /\ acts[i].what = "edit" => acts[i] \in EditType
<1>1. acts[i] \in Act
  BY DEF LaunchInv, Typed
<1> QED
  BY <1>1, KindOf DEF LaunchInv, Locals

LEMMA FrontOne ==
    ASSUME LaunchInv, NEW what, Front(what)
    PROVE  shown \in DOMAIN acts /\ acts[shown].what = what /\ Idle
  BY DEF LaunchInv, Typed, Front

LEMMA NothingElse ==
    ASSUME LaunchInv, UNCHANGED <<session, task, shown, firebase, entry, foreground>>
    PROVE  Stays
  BY DEF LaunchInv, Typed, Stays, firebase

LEMMA KeepsSend ==
    ASSUME LaunchInv, sendButton, UNCHANGED <<entry, foreground>>
    PROVE  Kept
<1> DEFINE g == [acts[shown] EXCEPT !.form = "waiting", !.sms = "asked"]
<1>1. shown \in DOMAIN acts /\ acts[shown].what = "phone" /\ Idle /\ UNCHANGED run
  BY FrontOne DEF sendButton, Tapped, Form
<1>2. acts[shown] \in PhoneType /\ Local(acts[shown], shown, shown, user)
  BY <1>1, OneOf
<1>3. acts' = [acts EXCEPT ![shown] = g]
  BY <1>1, <1>2 DEF sendButton, PhoneType, LaunchInv, Typed
<1>4. g \in PhoneType /\ g.what = acts[shown].what /\ g.made = acts[shown].made
  BY <1>2 DEF sendButton, PhoneType
<1>5. Stays
  BY NothingElse DEF sendButton
<1>6. Local(g, shown, shown, user') /\ (StuckForm(g) => g.told \/ g.parted)
  BY <1>1, <1>2, <1>5 DEF sendButton, PhoneType, Local, StuckDialog, StuckForm, Stays
<1> HIDE DEF g
<1> QED
  BY <1>1, <1>3, <1>4, <1>5, <1>6, PutQuietly DEF Act

LEMMA KeepsCodeSent ==
    ASSUME LaunchInv, NEW i \in Phones, onCodeSent(i), UNCHANGED <<entry, foreground>>
    PROVE  Kept
<1> DEFINE g == [acts[i] EXCEPT !.form = "code", !.sms = "sent"]
<1>1. i \in DOMAIN acts /\ acts[i].what = "phone" /\ Idle /\ UNCHANGED run
  BY DEF onCodeSent, Phones
<1>2. acts[i] \in PhoneType /\ Local(acts[i], i, shown, user)
  BY <1>1, OneOf
<1>3. acts' = [acts EXCEPT ![i] = g]
  BY <1>1, <1>2 DEF onCodeSent, PhoneType, LaunchInv, Typed
<1>4. g \in PhoneType /\ g.what = acts[i].what /\ g.made = acts[i].made
  BY <1>2 DEF onCodeSent, PhoneType
<1>5. Stays
  BY NothingElse DEF onCodeSent
<1>6. Local(g, i, shown, user') /\ (StuckForm(g) => g.told \/ g.parted)
  BY <1>1, <1>2, <1>5 DEF onCodeSent, PhoneType, Local, StuckDialog, StuckForm, Stays
<1> HIDE DEF g
<1> QED
  BY <1>1, <1>3, <1>4, <1>5, <1>6, PutQuietly DEF Act

LEMMA KeepsCompleted ==
    ASSUME LaunchInv, NEW i \in Phones, onVerificationCompleted(i), UNCHANGED <<entry, foreground>>
    PROVE  Kept
<1> DEFINE g == [acts[i] EXCEPT !.sms = "none", !.signIns = @ + 1]
<1>1. i \in DOMAIN acts /\ acts[i].what = "phone" /\ Idle /\ UNCHANGED run
  BY DEF onVerificationCompleted, Phones
<1>2. acts[i] \in PhoneType /\ Local(acts[i], i, shown, user)
  BY <1>1, OneOf
<1>3. acts' = [acts EXCEPT ![i] = g]
  BY <1>1, <1>2 DEF onVerificationCompleted, PhoneType, LaunchInv, Typed
<1>n. acts[i].signIns + 1 \in Nat
  BY <1>2 DEF onVerificationCompleted, PhoneType
<1>4. g \in PhoneType /\ g.what = acts[i].what /\ g.made = acts[i].made
  BY <1>2, <1>n DEF onVerificationCompleted, PhoneType
<1>5. Stays
  BY NothingElse DEF onVerificationCompleted
<1>6. Local(g, i, shown, user') /\ (StuckForm(g) => g.told \/ g.parted)
  BY <1>1, <1>2, <1>5 DEF onVerificationCompleted, PhoneType, Local, StuckDialog, StuckForm, Stays
<1> HIDE DEF g
<1> QED
  BY <1>1, <1>3, <1>4, <1>5, <1>6, PutQuietly DEF Act

LEMMA KeepsFailed ==
    ASSUME LaunchInv, NEW i \in Phones, onVerificationFailed(i), UNCHANGED <<entry, foreground>>
    PROVE  Kept
<1> DEFINE g == [acts[i] EXCEPT !.sms = "none", !.told = TRUE]
<1>1. i \in DOMAIN acts /\ acts[i].what = "phone" /\ Idle /\ UNCHANGED run
  BY DEF onVerificationFailed, Phones
<1>2. acts[i] \in PhoneType /\ Local(acts[i], i, shown, user)
  BY <1>1, OneOf
<1>3. acts' = [acts EXCEPT ![i] = g]
  BY <1>1, <1>2 DEF onVerificationFailed, PhoneType, LaunchInv, Typed
<1>4. g \in PhoneType /\ g.what = acts[i].what /\ g.made = acts[i].made
  BY <1>2 DEF onVerificationFailed, PhoneType
<1>5. Stays
  BY NothingElse DEF onVerificationFailed
<1>6. Local(g, i, shown, user') /\ (StuckForm(g) => g.told \/ g.parted)
  BY <1>1, <1>2, <1>5 DEF onVerificationFailed, PhoneType, Local, StuckDialog, StuckForm, Stays
<1> HIDE DEF g
<1> QED
  BY <1>1, <1>3, <1>4, <1>5, <1>6, PutQuietly DEF Act

LEMMA KeepsTimeout ==
    ASSUME LaunchInv, NEW i \in Phones, RetrievalTimesOut(i), UNCHANGED <<entry, foreground>>
    PROVE  Kept
<1> DEFINE g == [acts[i] EXCEPT !.sms = "none"]
<1>1. i \in DOMAIN acts /\ acts[i].what = "phone" /\ Idle /\ UNCHANGED run
  BY DEF RetrievalTimesOut, Phones
<1>2. acts[i] \in PhoneType /\ Local(acts[i], i, shown, user)
  BY <1>1, OneOf
<1>3. acts' = [acts EXCEPT ![i] = g]
  BY <1>1, <1>2 DEF RetrievalTimesOut, PhoneType, LaunchInv, Typed
<1>4. g \in PhoneType /\ g.what = acts[i].what /\ g.made = acts[i].made
  BY <1>2 DEF RetrievalTimesOut, PhoneType
<1>5. Stays
  BY NothingElse DEF RetrievalTimesOut
<1>6. Local(g, i, shown, user') /\ (StuckForm(g) => g.told \/ g.parted)
  BY <1>1, <1>2, <1>5 DEF RetrievalTimesOut, PhoneType, Local, StuckDialog, StuckForm, Stays
<1> HIDE DEF g
<1> QED
  BY <1>1, <1>3, <1>4, <1>5, <1>6, PutQuietly DEF Act

LEMMA KeepsVerify ==
    ASSUME LaunchInv, verifyButton, UNCHANGED <<entry, foreground>>
    PROVE  Kept
<1> DEFINE g == [acts[shown] EXCEPT !.signIns = @ + 1]
<1>1. shown \in DOMAIN acts /\ acts[shown].what = "phone" /\ Idle /\ UNCHANGED run
  BY FrontOne DEF verifyButton, Tapped, Form
<1>2. acts[shown] \in PhoneType /\ Local(acts[shown], shown, shown, user)
  BY <1>1, OneOf
<1>3. acts' = [acts EXCEPT ![shown] = g]
  BY <1>1, <1>2 DEF verifyButton, PhoneType, LaunchInv, Typed
<1>4. g \in PhoneType /\ g.what = acts[shown].what /\ g.made = acts[shown].made
  BY <1>2 DEF verifyButton, PhoneType
<1>5. Stays
  BY NothingElse DEF verifyButton
<1>6. Local(g, shown, shown, user') /\ (StuckForm(g) => g.told \/ g.parted)
  BY <1>1, <1>2, <1>5 DEF verifyButton, PhoneType, Local, StuckDialog, StuckForm, Stays
<1> HIDE DEF g
<1> QED
  BY <1>1, <1>3, <1>4, <1>5, <1>6, PutQuietly DEF Act

LEMMA KeepsSignInFails ==
    ASSUME LaunchInv, NEW i \in Phones, SignInFails(i), UNCHANGED <<entry, foreground>>
    PROVE  Kept
<1> DEFINE g == [acts[i] EXCEPT !.signIns = @ - 1, !.told = TRUE]
<1>1. i \in DOMAIN acts /\ acts[i].what = "phone" /\ Idle /\ UNCHANGED run
  BY DEF SignInFails, Phones
<1>2. acts[i] \in PhoneType /\ Local(acts[i], i, shown, user)
  BY <1>1, OneOf
<1>3. acts' = [acts EXCEPT ![i] = g]
  BY <1>1, <1>2 DEF SignInFails, PhoneType, LaunchInv, Typed
<1>n. acts[i].signIns - 1 \in Nat
  BY <1>2 DEF SignInFails, PhoneType
<1>4. g \in PhoneType /\ g.what = acts[i].what /\ g.made = acts[i].made
  BY <1>2, <1>n DEF SignInFails, PhoneType
<1>5. Stays
  BY NothingElse DEF SignInFails
<1>6. Local(g, i, shown, user') /\ (StuckForm(g) => g.told \/ g.parted)
  BY <1>1, <1>2, <1>5 DEF SignInFails, PhoneType, Local, StuckDialog, StuckForm, Stays
<1> HIDE DEF g
<1> QED
  BY <1>1, <1>3, <1>4, <1>5, <1>6, PutQuietly DEF Act

LEMMA KeepsPicture ==
    ASSUME LaunchInv, onSingleImageSelected, UNCHANGED <<entry, foreground>>
    PROVE  Kept
<1> DEFINE g == [acts[shown] EXCEPT !.uploads = @ + 1]
<1>1. shown \in DOMAIN acts /\ acts[shown].what = "edit" /\ Idle /\ UNCHANGED run
  BY FrontOne DEF onSingleImageSelected, Tapped, Form
<1>2. acts[shown] \in EditType /\ Local(acts[shown], shown, shown, user)
  BY <1>1, OneOf
<1>3. acts' = [acts EXCEPT ![shown] = g]
  BY <1>1, <1>2 DEF onSingleImageSelected, EditType, LaunchInv, Typed
<1>4. g \in EditType /\ g.what = acts[shown].what /\ g.made = acts[shown].made
  BY <1>2 DEF onSingleImageSelected, EditType
<1>5. Stays
  BY NothingElse DEF onSingleImageSelected
<1>6. Local(g, shown, shown, user') /\ (StuckForm(g) => g.told \/ g.parted)
  BY <1>1, <1>2, <1>5 DEF onSingleImageSelected, EditType, Local, StuckDialog, StuckForm, Stays, Form
<1> HIDE DEF g
<1> QED
  BY <1>1, <1>3, <1>4, <1>5, <1>6, PutQuietly DEF Act

LEMMA KeepsUpload ==
    ASSUME LaunchInv, NEW i \in Edits, UploadSucceeds(i), UNCHANGED <<entry, foreground>>
    PROVE  Kept
<1> DEFINE g == [acts[i] EXCEPT !.uploads = @ - 1, !.image = TRUE]
<1>1. i \in DOMAIN acts /\ acts[i].what = "edit" /\ Idle /\ UNCHANGED run
  BY DEF UploadSucceeds, Edits
<1>2. acts[i] \in EditType /\ Local(acts[i], i, shown, user)
  BY <1>1, OneOf
<1>3. acts' = [acts EXCEPT ![i] = g]
  BY <1>1, <1>2 DEF UploadSucceeds, EditType, LaunchInv, Typed
<1>n. acts[i].uploads - 1 \in Nat
  BY <1>2 DEF UploadSucceeds, EditType
<1>4. g \in EditType /\ g.what = acts[i].what /\ g.made = acts[i].made
  BY <1>2, <1>n DEF UploadSucceeds, EditType
<1>5. Stays
  BY DEF UploadSucceeds, Stays, LaunchInv, Typed, Profiles
<1>6. Local(g, i, shown, user') /\ (StuckForm(g) => g.told \/ g.parted)
  BY <1>1, <1>2, <1>5 DEF UploadSucceeds, EditType, Local, StuckDialog, StuckForm, Stays
<1> HIDE DEF g
<1> QED
  BY <1>1, <1>3, <1>4, <1>5, <1>6, PutQuietly DEF Act

LEMMA KeepsUploadFails ==
    ASSUME LaunchInv, NEW i \in Edits, UploadFails(i), UNCHANGED <<entry, foreground>>
    PROVE  Kept
<1> DEFINE g == [acts[i] EXCEPT !.uploads = @ - 1, !.dialog = FALSE]
<1>1. i \in DOMAIN acts /\ acts[i].what = "edit" /\ Idle /\ UNCHANGED run
  BY DEF UploadFails, Edits
<1>2. acts[i] \in EditType /\ Local(acts[i], i, shown, user)
  BY <1>1, OneOf
<1>3. acts' = [acts EXCEPT ![i] = g]
  BY <1>1, <1>2 DEF UploadFails, EditType, LaunchInv, Typed
<1>n. acts[i].uploads - 1 \in Nat
  BY <1>2 DEF UploadFails, EditType
<1>4. g \in EditType /\ g.what = acts[i].what /\ g.made = acts[i].made
  BY <1>2, <1>n DEF UploadFails, EditType
<1>5. Stays
  BY NothingElse DEF UploadFails
<1>6. Local(g, i, shown, user') /\ (StuckForm(g) => g.told \/ g.parted)
  BY <1>1, <1>2, <1>5 DEF UploadFails, EditType, Local, StuckDialog, StuckForm, Stays
<1> HIDE DEF g
<1> QED
  BY <1>1, <1>3, <1>4, <1>5, <1>6, PutQuietly DEF Act

LEMMA KeepsSendInfo ==
    ASSUME LaunchInv, sendInfo, UNCHANGED <<entry, foreground>>
    PROVE  Kept
<1> DEFINE g == [acts[shown] EXCEPT !.dialog = TRUE, !.saves = @ + 1]
<1>1. shown \in DOMAIN acts /\ acts[shown].what = "edit" /\ Idle /\ UNCHANGED run
  BY FrontOne DEF sendInfo, Tapped, Form
<1>2. acts[shown] \in EditType /\ Local(acts[shown], shown, shown, user)
  BY <1>1, OneOf
<1>3. acts' = [acts EXCEPT ![shown] = g]
  BY <1>1, <1>2 DEF sendInfo, EditType, LaunchInv, Typed
<1>n. acts[shown].saves + 1 \in Nat
  BY <1>2 DEF sendInfo, EditType
<1>4. g \in EditType /\ g.what = acts[shown].what /\ g.made = acts[shown].made
  BY <1>2, <1>n DEF sendInfo, EditType
<1>5. Stays
  BY NothingElse DEF sendInfo
<1>6. Local(g, shown, shown, user') /\ (StuckForm(g) => g.told \/ g.parted)
  BY <1>1, <1>2, <1>5 DEF sendInfo, EditType, Local, StuckDialog, StuckForm, Stays, Form
<1> HIDE DEF g
<1> QED
  BY <1>1, <1>3, <1>4, <1>5, <1>6, PutQuietly DEF Act

LEMMA KeepsSaveFails ==
    ASSUME LaunchInv, NEW i \in Edits, SaveFails(i), UNCHANGED <<entry, foreground>>
    PROVE  Kept
<1> DEFINE g == [acts[i] EXCEPT !.saves = @ - 1, !.failed = TRUE]
<1>1. i \in DOMAIN acts /\ acts[i].what = "edit" /\ Idle /\ UNCHANGED run
  BY DEF SaveFails, Edits
<1>2. acts[i] \in EditType /\ Local(acts[i], i, shown, user)
  BY <1>1, OneOf
<1>3. acts' = [acts EXCEPT ![i] = g]
  BY <1>1, <1>2 DEF SaveFails, EditType, LaunchInv, Typed
<1>n. acts[i].saves - 1 \in Nat
  BY <1>2 DEF SaveFails, EditType
<1>4. g \in EditType /\ g.what = acts[i].what /\ g.made = acts[i].made
  BY <1>2, <1>n DEF SaveFails, EditType
<1>5. Stays
  BY NothingElse DEF SaveFails
<1>6. Local(g, i, shown, user') /\ (StuckForm(g) => g.told \/ g.parted)
  BY <1>1, <1>2, <1>5 DEF SaveFails, EditType, Local, StuckDialog, StuckForm, Stays
<1> HIDE DEF g
<1> QED
  BY <1>1, <1>3, <1>4, <1>5, <1>6, PutQuietly DEF Act
LEMMA KeepsAuth ==
    ASSUME LaunchInv, NEW i \in Edits, onAuthStateChanged(i), UNCHANGED <<entry, foreground>>
    PROVE  Kept
<1> DEFINE g == [acts[i] EXCEPT !.calls = @ - 1]
<1>1. i \in DOMAIN acts /\ acts[i].what = "edit" /\ Idle
  BY DEF onAuthStateChanged, Edits
<1>2. acts[i] \in EditType /\ Local(acts[i], i, shown, user)
  BY <1>1, OneOf
<1>n. acts[i].calls - 1 \in Nat /\ acts[i].lookups + 1 \in Nat
  BY <1>2 DEF onAuthStateChanged, EditType
<1>4. g \in EditType /\ g.what = acts[i].what /\ g.made = acts[i].made
  BY <1>2, <1>n DEF EditType
<1>5. Stays
  BY NothingElse DEF onAuthStateChanged
<1>6. CASE user
  <2> DEFINE h == [acts[i] EXCEPT !.calls = @ - 1, !.lookups = @ + 1]
  <2>1. acts' = [acts EXCEPT ![i] = h] /\ UNCHANGED run
    BY <1>1, <1>2, <1>6 DEF onAuthStateChanged, EditType, LaunchInv, Typed
  <2>2. h \in EditType /\ h.what = acts[i].what /\ h.made = acts[i].made
    BY <1>2, <1>n DEF EditType
  <2>3. Local(h, i, shown, user') /\ ~StuckForm(h)
    BY <1>1, <1>2, <1>5, <1>6 DEF EditType, Local, StuckDialog, StuckForm, Stays
  <2> HIDE DEF h
  <2> QED
    BY <1>1, <1>5, <2>1, <2>2, <2>3, PutQuietly DEF Act
<1>7. CASE ~user
  <2>1. acts' = [acts EXCEPT ![i] = g] /\ run' = Handler(i, {"start", "finish"}, "phone")
    BY <1>1, <1>2, <1>7 DEF onAuthStateChanged, EditType, LaunchInv, Typed
  <2>2. Local(g, i, shown, user') /\ ~StuckForm(g)
    BY <1>1, <1>2, <1>5 DEF EditType, Local, StuckDialog, StuckForm, Stays
  <2>3. Fits(i, {"start", "finish"}, "phone")
    BY <1>1 DEF Fits, Ops, LaunchInv, Kinds
  <2> HIDE DEF g
  <2> QED
    BY <1>1, <1>4, <1>5, <2>1, <2>2, <2>3, PutAndRun DEF Act
<1> QED
  BY <1>6, <1>7

LEMMA KeepsFound ==
    ASSUME LaunchInv, NEW i \in Edits, onDataChange(i), UNCHANGED <<entry, foreground>>
    PROVE  Kept
<1> DEFINE g == [acts[i] EXCEPT !.lookups = @ - 1]
<1>1. i \in DOMAIN acts /\ acts[i].what = "edit" /\ Idle
  BY DEF onDataChange, Edits
<1>2. acts[i] \in EditType /\ Local(acts[i], i, shown, user)
  BY <1>1, OneOf
<1>n. acts[i].lookups - 1 \in Nat
  BY <1>2 DEF onDataChange, EditType
<1>4. g \in EditType /\ g.what = acts[i].what /\ g.made = acts[i].made
  BY <1>2, <1>n DEF EditType
<1>5. Stays
  BY NothingElse DEF onDataChange
<1>6. acts' = [acts EXCEPT ![i] = g]
  BY <1>1, <1>2 DEF onDataChange, EditType, LaunchInv, Typed
<1>7. Local(g, i, shown, user') /\ ~StuckForm(g)
  BY <1>1, <1>2, <1>5, <1>n DEF EditType, Local, StuckDialog, StuckForm, Stays
<1>8. CASE profile = "none"
  <2>1. UNCHANGED run
    BY <1>8 DEF onDataChange
  <2> HIDE DEF g
  <2> QED
    BY <1>1, <1>4, <1>5, <1>6, <1>7, <2>1, PutQuietly DEF Act
<1>9. CASE profile # "none"
  <2>1. run' = Handler(i, {"first", "logged", "start"}, "main")
    BY <1>9 DEF onDataChange
  <2>2. user' /\ profile' # "none" /\ entry # "welcome"
    BY <1>1, <1>2, <1>5, <1>9 DEF onDataChange, Local, Stays, LaunchInv, Kinds
  <2>3. \A j \in task : acts[j].what # "welcome"
    BY <2>2 DEF LaunchInv, Kinds, Typed
  <2>4. Fits(i, {"first", "logged", "start"}, "main")
    BY <2>2, <2>3 DEF Fits, Ops
  <2> HIDE DEF g
  <2> QED
    BY <1>1, <1>4, <1>5, <1>6, <1>7, <2>1, <2>4, PutAndRun DEF Act
<1> QED
  BY <1>8, <1>9

LEMMA KeepsCancelled ==
    ASSUME LaunchInv, NEW i \in Edits, onCancelled(i), UNCHANGED <<entry, foreground>>
    PROVE  Kept
<1> DEFINE g == [acts[i] EXCEPT !.lookups = @ - 1]
<1>1. i \in DOMAIN acts /\ acts[i].what = "edit" /\ Idle
  BY DEF onCancelled, Edits
<1>2. acts[i] \in EditType /\ Local(acts[i], i, shown, user)
  BY <1>1, OneOf
<1>n. acts[i].lookups - 1 \in Nat
  BY <1>2 DEF onCancelled, EditType
<1>4. g \in EditType /\ g.what = acts[i].what /\ g.made = acts[i].made
  BY <1>2, <1>n DEF EditType
<1>5. Stays
  BY NothingElse DEF onCancelled
<1>6. acts' = [acts EXCEPT ![i] = g] /\ run' = Handler(i, {"start", "finish"}, "phone")
  BY <1>1, <1>2 DEF onCancelled, EditType, LaunchInv, Typed
<1>7. Local(g, i, shown, user') /\ ~StuckForm(g)
  BY <1>1, <1>2, <1>5, <1>n DEF onCancelled, EditType, Local, StuckDialog, StuckForm, Stays
<1>8. Fits(i, {"start", "finish"}, "phone")
  BY <1>1 DEF Fits, Ops, LaunchInv, Kinds
<1> HIDE DEF g
<1> QED
  BY <1>1, <1>4, <1>5, <1>6, <1>7, <1>8, PutAndRun DEF Act

LEMMA KeepsSaved ==
    ASSUME LaunchInv, NEW i \in Edits, SaveSucceeds(i), UNCHANGED <<entry, foreground>>
    PROVE  Kept
<1> DEFINE g == [acts[i] EXCEPT !.saves = @ - 1, !.dialog = FALSE]
<1>1. i \in DOMAIN acts /\ acts[i].what = "edit" /\ Idle
  BY DEF SaveSucceeds, Edits
<1>2. acts[i] \in EditType /\ Local(acts[i], i, shown, user)
  BY <1>1, OneOf
<1>n. acts[i].saves - 1 \in Nat
  BY <1>2 DEF SaveSucceeds, EditType
<1>4. g \in EditType /\ g.what = acts[i].what /\ g.made = acts[i].made
  BY <1>2, <1>n DEF EditType
<1>5. Stays
  BY DEF SaveSucceeds, Stays, LaunchInv, Typed, Profiles
<1>6. acts' = [acts EXCEPT ![i] = g]
  BY <1>1, <1>2 DEF SaveSucceeds, EditType, LaunchInv, Typed
<1>7. Local(g, i, shown, user') /\ ~StuckForm(g)
  BY <1>1, <1>2, <1>5, <1>n DEF SaveSucceeds, EditType, Local, StuckDialog, StuckForm, Stays
<1>8. user' /\ profile' # "none" /\ entry # "welcome"
  BY <1>1, <1>2, <1>5 DEF SaveSucceeds, Local, Stays, LaunchInv, Kinds
<1>9. \A j \in task : acts[j].what # "welcome"
  BY <1>8 DEF LaunchInv, Kinds, Typed
<1>10. Fits(i, {"first", "logged", "start", "finish"}, "main")
  BY <1>8, <1>9 DEF Fits, Ops
<1>11. run' = Handler(i, {"first", "logged", "start", "finish"}, "main")
  BY DEF SaveSucceeds
<1> HIDE DEF g
<1> QED
  BY <1>1, <1>4, <1>5, <1>6, <1>7, <1>10, <1>11, PutAndRun DEF Act

LEMMA KeepsRefocus ==
    ASSUME LaunchInv, Refocus
    PROVE  Kept
<1> DEFINE g == [acts[shown] EXCEPT !.listeners = @ + 1, !.calls = @ + 1]
<1>1. shown \in DOMAIN acts /\ acts[shown].what = "edit" /\ Idle
  BY FrontOne DEF Refocus
<1>2. acts[shown] \in EditType /\ Local(acts[shown], shown, shown, user)
  BY <1>1, OneOf
<1>n. acts[shown].listeners + 1 \in Nat /\ acts[shown].calls + 1 \in Nat
  BY <1>2 DEF Refocus, EditType
<1>4. g \in EditType /\ g.what = acts[shown].what /\ g.made = acts[shown].made
  BY <1>2, <1>n DEF EditType
<1>5. Stays /\ UNCHANGED run
  BY NothingElse DEF Refocus
<1>6. acts' = [acts EXCEPT ![shown] = g]
  BY <1>1, <1>2 DEF Refocus, EditType, LaunchInv, Typed
<1>7. Local(g, shown, shown, user') /\ ~StuckForm(g)
  BY <1>1, <1>2, <1>5 DEF EditType, Local, StuckDialog, StuckForm, Stays
<1> HIDE DEF g
<1> QED
  BY <1>1, <1>4, <1>5, <1>6, <1>7, PutQuietly DEF Act

(* The pager of a Welcome. *)
LEMMA PutPage ==
    ASSUME LaunchInv, Front("welcome"), Stays, UNCHANGED run, NEW p \in 0..(Slides - 1),
           acts' = [acts EXCEPT ![shown].page = p]
    PROVE  Kept
<1> DEFINE g == [acts[shown] EXCEPT !.page = p]
<1>1. shown \in DOMAIN acts /\ acts[shown].what = "welcome" /\ Idle
  BY FrontOne
<1>2. acts[shown] \in WelcomeType
  BY <1>1, OneOf
<1>3. acts' = [acts EXCEPT ![shown] = g]
  BY <1>1, <1>2 DEF WelcomeType, LaunchInv, Typed
<1>4. g \in WelcomeType /\ g.what = "welcome" /\ g.made = acts[shown].made
  BY <1>2 DEF WelcomeType
<1>5. Local(g, shown, shown, user') /\ ~StuckForm(g)
  BY <1>4 DEF Local, StuckDialog, StuckForm
<1> HIDE DEF g
<1> QED
  BY <1>1, <1>3, <1>4, <1>5, PutQuietly DEF Act

(* A handler begins and nothing else happens. *)
LEMMA OnlyRun ==
    ASSUME LaunchInv, Idle, Stays, NEW i \in DOMAIN acts, NEW ops, NEW to,
           Fits(i, ops, to), run' = Handler(i, ops, to), UNCHANGED acts, UNCHANGED user
    PROVE  Kept
<1>1. acts[i] \in Act /\ Local(acts[i], i, shown, user)
  BY OneOf
<1>2. Alike
  BY DEF LaunchInv, Typed, Alike
<1>3. Locals'
  BY DEF LaunchInv, Locals, Stays
<1>4. FormsMove'
  BY DEF LaunchInv, FormsMove, Leaving, Idle, Stays
<1>5. RunInv' /\ PastSlides'
  BY <1>2, NewHandler
<1> QED
  BY <1>2, <1>3, <1>4, <1>5, AlikeKeeps DEF Kept

(* Past the slides: the Welcome on the screen is the only one there is. *)
LEMMA KeepsLaunch ==
    ASSUME LaunchInv, Front("welcome"), Stays, launchHomeScreen(shown), UNCHANGED <<acts, user>>
    PROVE  Kept
<1>1. shown \in DOMAIN acts /\ acts[shown].what = "welcome" /\ Idle /\ shown # Nobody
  BY FrontOne DEF Front
<1>2. entry = "welcome"
  BY <1>1 DEF LaunchInv, Kinds
<1>3. \A j \in task : acts[j].what = "welcome" => shown = j
  BY <1>1 DEF LaunchInv, OneWelcome
<1>4. Fits(shown, {"first", "start", "finish"}, "main")
  BY <1>2, <1>3 DEF Fits, Ops
<1> QED
  BY <1>1, <1>4, OnlyRun DEF launchHomeScreen

LEMMA KeepsWelcome ==
    ASSUME LaunchInv, WelcomeActivity
    PROVE  Kept
<1>1. CASE btnSkip
  <2>1. Front("welcome") /\ Stays /\ UNCHANGED <<acts, user>> /\ launchHomeScreen(shown)
    BY <1>1, NothingElse DEF btnSkip, Tapped, firebase
  <2> QED
    BY <2>1, KeepsLaunch
<1>2. CASE btnNext
  <2>1. Front("welcome") /\ Stays /\ UNCHANGED user
    BY <1>2, NothingElse DEF btnNext, Tapped, firebase
  <2>2. acts[shown].page \in 0..(Slides - 1)
    BY <2>1, FrontOne, OneOf DEF WelcomeType
  <2>3. CASE acts[shown].page + 1 < Slides
    <3>1. acts' = [acts EXCEPT ![shown].page = acts[shown].page + 1] /\ UNCHANGED run
      BY <1>2, <2>3 DEF btnNext
    <3>2. acts[shown].page + 1 \in 0..(Slides - 1)
      BY <2>2, <2>3 DEF Slides
    <3> QED
      BY <2>1, <3>1, <3>2, PutPage
  <2>4. CASE ~(acts[shown].page + 1 < Slides)
    <3>1. launchHomeScreen(shown) /\ UNCHANGED acts
      BY <1>2, <2>4 DEF btnNext
    <3> QED
      BY <2>1, <3>1, KeepsLaunch
  <2> QED
    BY <2>3, <2>4
<1>3. CASE Swipe
  <2>1. Front("welcome") /\ Stays /\ UNCHANGED run
    BY <1>3, NothingElse DEF Swipe
  <2>2. PICK p \in 0..(Slides - 1) : acts' = [acts EXCEPT ![shown].page = p]
    BY <1>3 DEF Swipe
  <2> QED
    BY <2>1, <2>2, PutPage
<1> QED
  BY <1>1, <1>2, <1>3 DEF WelcomeActivity

LEMMA KeepsBack ==
    ASSUME LaunchInv, Back
    PROVE  Kept
<1>1. Idle /\ shown \in DOMAIN acts /\ UNCHANGED acts /\ run' = Handler(shown, {"finish"}, "main")
  BY DEF Back, LaunchInv, Typed
<1>2. Stays /\ UNCHANGED user
  BY NothingElse DEF Back, firebase
<1>3. Fits(shown, {"finish"}, "main")
  BY DEF Fits, Ops
<1> QED
  BY <1>1, <1>2, <1>3, OnlyRun
-----------------------------------------------------------------------------
(* A new user posts calls and changes nothing else. *)
LEMMA NotifiedAlike ==
    ASSUME NEW lst, lst \in Seq(Act)
    PROVE  /\ Notified(lst) \in Seq(Act) /\ DOMAIN Notified(lst) = DOMAIN lst
           /\ \A j \in DOMAIN lst :
                /\ Notified(lst)[j].what = lst[j].what /\ Notified(lst)[j].made = lst[j].made
                /\ StuckForm(Notified(lst)[j]) => Notified(lst)[j] = lst[j]
                /\ \A s, u : Local(lst[j], j, s, u) => Local(Notified(lst)[j], j, s, u)
<1>0. ASSUME NEW j \in DOMAIN lst PROVE lst[j] \in Act
  OBVIOUS
<1>s. DOMAIN lst = 1..Len(lst) /\ Len(lst) \in Nat
  OBVIOUS
<1> DEFINE to(j) == [lst[j] EXCEPT !.calls = @ + lst[j].listeners]
           e(j)  == IF lst[j].what = "edit" /\ ~user THEN to(j) ELSE lst[j]
<1>1. Notified(lst) = [j \in DOMAIN lst |-> e(j)]
  BY DEF Notified
<1>2. ASSUME NEW j \in DOMAIN lst
      PROVE  /\ e(j) \in Act /\ e(j).what = lst[j].what /\ e(j).made = lst[j].made
             /\ StuckForm(e(j)) => e(j) = lst[j]
             /\ \A s, u : Local(lst[j], j, s, u) => Local(e(j), j, s, u)
  <2>1. CASE lst[j].what = "edit" /\ ~user
    <3>1. e(j) = to(j)
      BY <2>1
    <3>2. lst[j] \in EditType
      BY <1>0, <2>1, KindOf
    <3>3. lst[j].calls + lst[j].listeners \in Nat
      <4>1. lst[j].calls \in Nat /\ lst[j].listeners \in Nat
        BY <3>2 DEF EditType
      <4> QED
        BY <4>1
    <3>4. to(j) = [lst[j] EXCEPT !.calls = lst[j].calls + lst[j].listeners]
      OBVIOUS
    <3> HIDE DEF e, to
    <3>5. to(j) \in EditType
      BY <3>2, <3>3, <3>4 DEF EditType
    <3> QED
      BY <2>1, <3>1, <3>2, <3>4, <3>5 DEF Act, EditType, Local, StuckDialog, StuckForm
  <2>2. CASE ~(lst[j].what = "edit" /\ ~user)
    BY <1>0, <2>2
  <2> QED
    BY <2>1, <2>2
<1> HIDE DEF e
<1>3. Notified(lst) \in [1..Len(lst) -> Act]
  BY <1>1, <1>2, <1>s
<1>4. Notified(lst) \in Seq(Act)
  BY <1>3, <1>s
<1> QED
  BY <1>1, <1>2, <1>4

(* A sign-in that nobody waits for leaves the handler alone. *)
LEMMA KeepsAdrift ==
    ASSUME LaunchInv, SignInAdrift, UNCHANGED <<entry, foreground>>
    PROVE  Kept
<1>1. Idle /\ UNCHANGED <<session, task, shown, run, profile>> /\ adrift' \in Nat
  BY DEF SignInAdrift, LaunchInv, Typed
<1>2. acts \in Seq(Act) /\ user \in BOOLEAN /\ task \subseteq DOMAIN acts
  BY DEF LaunchInv, Typed
<1>3. Stays
  <2>1. user' \in BOOLEAN /\ (user => user')
    BY <1>2 DEF SignInAdrift
  <2> QED
    BY <1>1, <2>1 DEF Stays, LaunchInv, Typed
<1>4. CASE UNCHANGED <<user, acts>>
  <2>1. Alike /\ Locals' /\ FormsMove'
    BY <1>1, <1>2, <1>4 DEF Alike, LaunchInv, Locals, FormsMove, Leaving
  <2> QED
    BY <1>1, <1>3, <2>1, SameHandler, AlikeKeeps DEF Kept
<1>5. CASE user' = TRUE /\ acts' = Notified(acts)
  <2>1. Alike
    BY <1>2, <1>5, NotifiedAlike DEF Alike
  <2>2. Locals'
    <3> SUFFICES ASSUME NEW j \in DOMAIN acts PROVE Local(Notified(acts)[j], j, shown, TRUE)
      BY <1>1, <1>5, <2>1 DEF Locals, Alike
    <3>1. Local(acts[j], j, shown, user)
      BY DEF LaunchInv, Locals
    <3>2. Local(acts[j], j, shown, TRUE)
      BY <3>1 DEF Local
    <3> QED
      BY <1>2, <3>2, NotifiedAlike
  <2>3. FormsMove'
    BY <1>1, <1>2, <1>5, NotifiedAlike DEF LaunchInv, FormsMove, Leaving
  <2> QED
    BY <1>1, <1>3, <2>1, <2>2, <2>3, SameHandler, AlikeKeeps DEF Kept
<1> QED
  BY <1>4, <1>5 DEF SignInAdrift

(* The form of one that signed in may be stuck, but it is on its way out. *)
LEMMA KeepsSignIn ==
    ASSUME LaunchInv, NEW i \in Phones, SignInSucceeds(i), UNCHANGED <<entry, foreground>>
    PROVE  Kept
<1> DEFINE g  == [acts[i] EXCEPT !.signIns = @ - 1]
           lst == [acts EXCEPT ![i] = g]
<1>1. /\ i \in DOMAIN acts /\ acts[i].what = "phone" /\ Idle /\ acts[i].signIns > 0
      /\ user' = TRUE /\ run' = Handler(i, {"start", "finish"}, "edit")
  BY DEF SignInSucceeds, Phones
<1>2. acts[i] \in PhoneType /\ Local(acts[i], i, shown, user)
  BY <1>1, OneOf
<1>3. acts \in Seq(Act) /\ user \in BOOLEAN /\ task \subseteq DOMAIN acts
  BY DEF LaunchInv, Typed
<1>n. acts[i].signIns - 1 \in Nat /\ i = shown
  BY <1>1, <1>2 DEF PhoneType, Local
<1>4. g \in PhoneType /\ g.what = "phone" /\ g.made = acts[i].made
  BY <1>1, <1>2, <1>n DEF PhoneType
<1>5. Local(g, i, shown, TRUE)
  BY <1>2, <1>n, <1>4 DEF PhoneType, Local, StuckDialog
<1>6. [acts EXCEPT ![i].signIns = @ - 1] = lst
  BY <1>1, <1>2, <1>3 DEF PhoneType
<1>7. acts' = Notified(lst)
  BY <1>6 DEF SignInSucceeds
<1> HIDE DEF g
<1>8. /\ lst \in Seq(Act) /\ DOMAIN lst = DOMAIN acts
      /\ \A j \in DOMAIN acts : lst[j] = IF j = i THEN g ELSE acts[j]
  BY <1>1, <1>3, <1>4 DEF Act
<1> HIDE DEF lst
<1>9. Stays
  BY DEF SignInSucceeds, Stays, LaunchInv, Typed
<1>10. Alike
  <2>1. \A j \in DOMAIN acts : lst[j].what = acts[j].what /\ lst[j].made = acts[j].made
    BY <1>1, <1>4, <1>8
  <2> QED
    BY <1>7, <1>8, <2>1, NotifiedAlike DEF Alike
<1>11. Locals'
  <2> SUFFICES ASSUME NEW j \in DOMAIN acts PROVE Local(Notified(lst)[j], j, shown, TRUE)
    BY <1>1, <1>7, <1>9, <1>10 DEF Locals, Alike, Stays
  <2>1. Local(acts[j], j, shown, user)
    BY DEF LaunchInv, Locals
  <2>2. Local(acts[j], j, shown, TRUE)
    BY <2>1 DEF Local
  <2>3. Local(lst[j], j, shown, TRUE)
    BY <1>5, <1>8, <2>2
  <2> QED
    BY <1>8, <2>3, NotifiedAlike
<1>12. FormsMove'
  <2> SUFFICES ASSUME NEW j \in task, StuckForm(Notified(lst)[j])
               PROVE  Notified(lst)[j].told \/ Notified(lst)[j].parted \/ Leaving(j)'
    BY <1>7, <1>9 DEF FormsMove, Stays
  <2>1. Notified(lst)[j] = lst[j]
    BY <1>3, <1>8, NotifiedAlike
  <2>2. CASE j = i
    BY <1>1, <2>2 DEF Leaving, Handler
  <2>3. CASE j # i
    BY <1>1, <1>3, <1>8, <2>1, <2>3 DEF LaunchInv, FormsMove, Leaving, Idle
  <2> QED
    BY <2>2, <2>3
<1>13. Fits(i, {"start", "finish"}, "edit")
  BY <1>1, <1>n DEF Fits, Ops, LaunchInv, Kinds
<1> QED
  BY <1>1, <1>9, <1>10, <1>11, <1>12, <1>13, NewHandler, AlikeKeeps DEF Kept

(* Every step of the two sign-in screens. *)
LEMMA KeepsLogin ==
    ASSUME LaunchInv, Login
    PROVE  Kept
<1> USE DEF Login
<1>1. CASE PhoneActivity
  BY <1>1, KeepsSend, KeepsVerify, KeepsAdrift, KeepsCodeSent, KeepsCompleted, KeepsFailed,
     KeepsTimeout, KeepsSignIn, KeepsSignInFails DEF PhoneActivity
<1>2. CASE EditProfileActivity
  BY <1>2, KeepsPicture, KeepsSendInfo, KeepsAuth, KeepsFound, KeepsCancelled, KeepsUpload,
     KeepsUploadFails, KeepsSaved, KeepsSaveFails DEF EditProfileActivity
<1> QED
  BY <1>1, <1>2
-----------------------------------------------------------------------------
(* The steps of a handler. *)
LEMMA KeepsFirst ==
    ASSUME LaunchInv, setFirstTimeLaunch, UNCHANGED <<firebase, entry, foreground>>
    PROVE  LaunchInv'
<1>1. /\ firstTime' = FALSE /\ UNCHANGED <<loggedIn, acts, task, shown, entry, foreground>>
      /\ UNCHANGED <<user, profile, adrift>> /\ "first" \in run.ops
  BY DEF setFirstTimeLaunch, firebase
<1>2. /\ run'.me = run.me /\ run'.to = run.to /\ run'.ops = run.ops \ {"first"}
      /\ run' \in [me : {Nobody} \cup DOMAIN acts, ops : SUBSET Ops, to : {"main", "phone", "edit"}]
  BY DEF setFirstTimeLaunch, Done, LaunchInv, RunInv
<1>b. firstTime' \in BOOLEAN
  BY <1>1
<1>t. Typed'
  BY <1>1, <1>b DEF LaunchInv, Typed
<1>3. Typed' /\ Kinds' /\ OneWelcome' /\ ShownInFront' /\ Locals' /\ MainHasProfile'
  BY <1>1, <1>t DEF LaunchInv, Kinds, OneWelcome, ShownInFront, Locals, MainHasProfile
<1>4. RunInv'
  BY <1>1, <1>2 DEF LaunchInv, RunInv, Starts
<1>5. PastSlides' /\ FormsMove'
  BY <1>1, <1>2 DEF LaunchInv, PastSlides, FormsMove, Leaving
<1> QED
  BY <1>3, <1>4, <1>5 DEF LaunchInv

LEMMA KeepsLogged ==
    ASSUME LaunchInv, setLoggedIn, UNCHANGED <<firebase, entry, foreground>>
    PROVE  LaunchInv'
<1>1. /\ loggedIn' = FALSE /\ UNCHANGED <<firstTime, acts, task, shown, entry, foreground>>
      /\ UNCHANGED <<user, profile, adrift>>
  BY DEF setLoggedIn, firebase
<1>2. /\ run'.me = run.me /\ run'.to = run.to /\ run'.ops = run.ops \ {"logged"}
      /\ run' \in [me : {Nobody} \cup DOMAIN acts, ops : SUBSET Ops, to : {"main", "phone", "edit"}]
  BY DEF setLoggedIn, Done, LaunchInv, RunInv
<1>b. loggedIn' \in BOOLEAN
  BY <1>1
<1>t. Typed'
  BY <1>1, <1>b DEF LaunchInv, Typed
<1>3. Typed' /\ Kinds' /\ OneWelcome' /\ ShownInFront' /\ Locals' /\ MainHasProfile'
  BY <1>1, <1>t DEF LaunchInv, Kinds, OneWelcome, ShownInFront, Locals, MainHasProfile
<1>4. RunInv'
  BY <1>1, <1>2 DEF LaunchInv, RunInv, Starts
<1>5. PastSlides' /\ FormsMove'
  BY <1>1, <1>2 DEF LaunchInv, PastSlides, FormsMove, Leaving
<1> QED
  BY <1>3, <1>4, <1>5 DEF LaunchInv

(* The activity that finishes is gone, and nobody else was on the way out. *)
LEMMA KeepsFinish ==
    ASSUME LaunchInv, finish, UNCHANGED <<firebase, entry, foreground>>
    PROVE  LaunchInv'
<1>1. /\ UNCHANGED <<firstTime, loggedIn, acts, shown, entry, foreground>>
      /\ UNCHANGED <<user, profile, adrift>>
      /\ run.ops = {"finish"} /\ task' = task \ {run.me}
  BY DEF finish, firebase, session
<1>2. /\ run'.ops = {}
      /\ run' \in [me : {Nobody} \cup DOMAIN acts, ops : SUBSET Ops, to : {"main", "phone", "edit"}]
  BY <1>1 DEF finish, Done, LaunchInv, RunInv
<1>3. Typed' /\ Kinds' /\ OneWelcome' /\ ShownInFront' /\ Locals' /\ MainHasProfile'
  BY <1>1 DEF LaunchInv, Typed, Kinds, OneWelcome, ShownInFront, Locals, MainHasProfile
<1>4. RunInv'
  BY <1>1, <1>2 DEF LaunchInv, RunInv, Starts
<1>5. PastSlides' /\ FormsMove'
  BY <1>1, <1>2 DEF LaunchInv, PastSlides, FormsMove, Leaving
<1> QED
  BY <1>3, <1>4, <1>5 DEF LaunchInv

(* An activity is added. *)
LEMMA AddAct ==
    ASSUME LaunchInv, NEW w \in {"welcome", "main", "phone", "edit"},
           acts' = Append(acts, New[w])
    PROVE  /\ acts' \in Seq(Act) /\ DOMAIN acts' = DOMAIN acts \cup {Len(acts) + 1}
           /\ \A j \in DOMAIN acts : acts'[j] = acts[j] /\ j # Len(acts) + 1
           /\ acts'[Len(acts) + 1] = New[w] /\ Len(acts) + 1 # Nobody
<1>1. acts \in Seq(Act) /\ New[w] \in Act
  BY NewAct DEF LaunchInv, Typed
<1>2. Len(acts) \in Nat /\ DOMAIN acts = 1..Len(acts)
  BY <1>1
<1>3. Len(acts') = Len(acts) + 1 /\ acts' \in Seq(Act) /\ acts'[Len(acts) + 1] = New[w]
      /\ \A j \in 1..Len(acts) : acts'[j] = acts[j]
  BY <1>1, <1>2
<1>4. DOMAIN acts' = 1..(Len(acts) + 1)
  BY <1>3
<1> QED
  BY <1>2, <1>3, <1>4 DEF Nobody

LEMMA KeepsStart ==
    ASSUME LaunchInv, startActivity, UNCHANGED <<firebase, entry, foreground>>
    PROVE  LaunchInv'
<1> DEFINE n == Len(acts) + 1
<1>1. /\ UNCHANGED <<firstTime, loggedIn, shown, entry, foreground>>
      /\ UNCHANGED <<user, profile, adrift>>
      /\ "start" \in run.ops /\ "first" \notin run.ops
      /\ acts' = Append(acts, New[run.to]) /\ task' = task \cup {n}
  BY DEF startActivity, firebase, session
<1>2. /\ run.to \in {"main", "phone", "edit"} /\ run.me \in {Nobody} \cup DOMAIN acts
      /\ run'.me = run.me /\ run'.to = run.to /\ run'.ops = run.ops \ {"start"}
      /\ run' \in [me : {Nobody} \cup DOMAIN acts, ops : SUBSET Ops, to : {"main", "phone", "edit"}]
  BY DEF startActivity, Done, LaunchInv, RunInv
<1>3. /\ acts' \in Seq(Act) /\ DOMAIN acts' = DOMAIN acts \cup {n}
      /\ \A j \in DOMAIN acts : acts'[j] = acts[j] /\ j # n
      /\ acts'[n] = New[run.to]
  BY <1>1, <1>2, AddAct
<1>4. /\ New[run.to].what = run.to /\ ~New[run.to].made /\ ~StuckForm(New[run.to])
      /\ \A i, s, u : Local(New[run.to], i, s, u)
  BY <1>2, NewAct
<1>5. task \subseteq DOMAIN acts /\ shown \in {Nobody} \cup DOMAIN acts
  BY DEF LaunchInv, Typed
<1> HIDE DEF n
<1>6. Typed' /\ ShownInFront'
  BY <1>1, <1>3, <1>5 DEF LaunchInv, Typed, ShownInFront
<1>7. Kinds'
  BY <1>1, <1>2, <1>3, <1>4 DEF LaunchInv, RunInv, Kinds, Starts
<1>8. OneWelcome'
  BY <1>1, <1>2, <1>3, <1>4, <1>5 DEF LaunchInv, OneWelcome
<1>9. Locals'
  BY <1>1, <1>3, <1>4 DEF LaunchInv, Locals
<1>10. MainHasProfile'
  BY <1>1, <1>2, <1>3, <1>4 DEF LaunchInv, RunInv, MainHasProfile, Starts
<1>11. RunInv'
  BY <1>2, <1>3 DEF RunInv, Starts
<1>12. PastSlides' /\ FormsMove'
  BY <1>1, <1>2, <1>3, <1>4, <1>5 DEF LaunchInv, PastSlides, FormsMove, Leaving
<1> QED
  BY <1>6, <1>7, <1>8, <1>9, <1>10, <1>11, <1>12 DEF LaunchInv

LEMMA KeepsScreens ==
    ASSUME LaunchInv, Screens
    PROVE  LaunchInv'
  BY KeepsFirst, KeepsLogged, KeepsStart, KeepsFinish DEF Screens, Continue
-----------------------------------------------------------------------------
(* The system.  A stopped activity waits for nobody, whatever is shown. *)
LEMMA StoppedAct ==
    ASSUME NEW a \in Act, NEW i, NEW s, NEW u, Local(a, i, s, u)
    PROVE  /\ Stopped(a) \in Act /\ Stopped(a).what = a.what /\ Stopped(a).made = a.made
           /\ \A t : Local(Stopped(a), i, t, u)
           /\ StuckForm(Stopped(a)) => Stopped(a).parted
<1>0. a.what \in {"welcome", "main", "phone", "edit"}
  BY KindOf
<1>1. CASE a.what = "phone"
  <2> DEFINE g == [a EXCEPT !.sms = "none", !.signIns = 0, !.parted = TRUE]
  <2>1. a \in PhoneType /\ Stopped(a) = g
    BY <1>1, KindOf DEF Stopped
  <2>2. g \in PhoneType /\ g.what = "phone" /\ g.made = a.made /\ g.parted
        /\ g.sms = "none" /\ g.signIns = 0
    BY <1>1, <2>1 DEF PhoneType
  <2> HIDE DEF g
  <2> QED
    BY <1>1, <2>1, <2>2 DEF Act, Local, StuckDialog
<1>2. CASE a.what = "edit"
  <2> DEFINE g == [a EXCEPT !.listeners = IF @ > 0 THEN @ - 1 ELSE 0]
  <2>1. a \in EditType /\ Stopped(a) = g
    BY <1>2, KindOf DEF Stopped
  <2>2. (IF a.listeners > 0 THEN a.listeners - 1 ELSE 0) \in Nat
    BY <2>1 DEF EditType
  <2>3. g \in EditType /\ g.what = "edit" /\ g.made = a.made /\ g.lookups = a.lookups
        /\ g.saves = a.saves /\ g.dialog = a.dialog /\ g.failed = a.failed
    BY <1>2, <2>1, <2>2 DEF EditType
  <2> HIDE DEF g
  <2> QED
    BY <1>2, <2>1, <2>3 DEF Act, Local, StuckDialog, StuckForm
<1>3. CASE a.what \in {"welcome", "main"}
  BY <1>3 DEF Stopped, Local, StuckDialog, StuckForm
<1> QED
  BY <1>0, <1>1, <1>2, <1>3

LEMMA StartedAct ==
    ASSUME NEW a \in Act, NEW i, NEW s, NEW u, Local(a, i, s, u),
           StuckForm(a) => a.told \/ a.parted
    PROVE  /\ Started(a) \in Act /\ Started(a).what = a.what /\ Started(a).made
           /\ Local(Started(a), i, s, u)
           /\ StuckForm(Started(a)) => Started(a).told \/ Started(a).parted
<1>0. a.what \in {"welcome", "main", "phone", "edit"}
  BY KindOf
<1>1. CASE a.what = "edit"
  <2> DEFINE g == [a EXCEPT !.made = TRUE, !.listeners = @ + 2, !.calls = @ + 2]
  <2>1. a \in EditType /\ Started(a) = g
    BY <1>1, KindOf DEF Started
  <2>2. a.listeners + 2 \in Nat /\ a.calls + 2 \in Nat
    BY <2>1 DEF EditType
  <2>3. g \in EditType /\ g.what = "edit" /\ g.made /\ g.lookups = a.lookups
        /\ g.saves = a.saves /\ g.dialog = a.dialog /\ g.failed = a.failed
    BY <1>1, <2>1, <2>2 DEF EditType
  <2> HIDE DEF g
  <2> QED
    BY <1>1, <2>1, <2>3 DEF Act, Local, StuckDialog, StuckForm
<1>2. CASE a.what = "phone"
  <2> DEFINE g == [a EXCEPT !.made = TRUE]
  <2>1. a \in PhoneType /\ Started(a) = g
    BY <1>2, KindOf DEF Started
  <2>2. g \in PhoneType /\ g.what = "phone" /\ g.made /\ g.form = a.form /\ g.sms = a.sms
        /\ g.signIns = a.signIns /\ g.told = a.told /\ g.parted = a.parted
    BY <1>2, <2>1 DEF PhoneType
  <2> HIDE DEF g
  <2> QED
    BY <1>2, <2>1, <2>2 DEF Act, Local, StuckDialog, StuckForm
<1>3. CASE a.what = "welcome"
  <2> DEFINE g == [a EXCEPT !.made = TRUE]
  <2>1. a \in WelcomeType /\ Started(a) = g
    BY <1>3, KindOf DEF Started
  <2>2. g \in WelcomeType /\ g.what = "welcome" /\ g.made
    BY <1>3, <2>1 DEF WelcomeType
  <2> HIDE DEF g
  <2> QED
    BY <1>3, <2>1, <2>2 DEF Act, Local, StuckDialog, StuckForm
<1>4. CASE a.what = "main"
  <2> DEFINE g == [a EXCEPT !.made = TRUE]
  <2>1. a \in MainType /\ Started(a) = g
    BY <1>4, KindOf DEF Started
  <2>2. g \in MainType /\ g.what = "main" /\ g.made
    BY <1>4, <2>1 DEF MainType
  <2> HIDE DEF g
  <2> QED
    BY <1>4, <2>1, <2>2 DEF Act, Local, StuckDialog, StuckForm
<1> QED
  BY <1>0, <1>1, <1>2, <1>3, <1>4

(* Without its window, nobody waits and no form is stuck for no reason. *)
LEMMA WindowGone ==
    ASSUME LaunchInv, Idle
    PROVE  /\ WithoutWindow \in Seq(Act) /\ DOMAIN WithoutWindow = DOMAIN acts
           /\ \A j \in DOMAIN acts :
                /\ WithoutWindow[j].what = acts[j].what /\ WithoutWindow[j].made = acts[j].made
                /\ \A t : Local(WithoutWindow[j], j, t, user)
           /\ \A j \in task : StuckForm(WithoutWindow[j])
                                => WithoutWindow[j].told \/ WithoutWindow[j].parted
<1>1. acts \in Seq(Act) /\ shown \in {Nobody} \cup DOMAIN acts /\ task \subseteq DOMAIN acts
  BY DEF LaunchInv, Typed
<1>2. ASSUME NEW j \in DOMAIN acts, j # shown PROVE \A t : Local(acts[j], j, t, user)
  <2>1. Local(acts[j], j, shown, user)
    BY DEF LaunchInv, Locals
  <2> QED
    BY <1>2, <2>1 DEF Local
<1>3. ASSUME NEW j \in task PROVE StuckForm(acts[j]) => acts[j].told \/ acts[j].parted
  BY DEF LaunchInv, FormsMove, Leaving, Idle
<1>4. CASE shown = Nobody
  <2>1. WithoutWindow = acts /\ \A j \in DOMAIN acts : j # shown
    BY <1>1, <1>4 DEF WithoutWindow, Nobody
  <2> QED
    BY <1>1, <1>2, <1>3, <2>1
<1>5. CASE shown # Nobody
  <2>1. acts[shown] \in Act /\ Local(acts[shown], shown, shown, user) /\ shown \in DOMAIN acts
    BY <1>1, <1>5, OneOf
  <2> DEFINE g == Stopped(acts[shown])
  <2>2. /\ g \in Act /\ g.what = acts[shown].what /\ g.made = acts[shown].made
        /\ (\A t : Local(g, shown, t, user)) /\ (StuckForm(g) => g.parted)
    BY <2>1, StoppedAct
  <2> HIDE DEF g
  <2>3. WithoutWindow = [acts EXCEPT ![shown] = g]
    BY <1>5, <2>1 DEF WithoutWindow, g
  <2>4. /\ WithoutWindow \in Seq(Act) /\ DOMAIN WithoutWindow = DOMAIN acts
        /\ \A j \in DOMAIN acts : WithoutWindow[j] = IF j = shown THEN g ELSE acts[j]
    BY <1>1, <2>1, <2>2, <2>3
  <2> QED
    BY <1>1, <1>2, <1>3, <2>2, <2>4
<1> QED
  BY <1>4, <1>5

LEMMA DroppedNat ==
    ASSUME LaunchInv
    PROVE  adrift + Dropped \in Nat
<1>1. adrift \in Nat /\ shown \in {Nobody} \cup DOMAIN acts
  BY DEF LaunchInv, Typed
<1>2. Dropped \in Nat
  BY <1>1, OneOf DEF Dropped, PhoneType
<1> QED
  BY <1>1, <1>2

LEMMA KeepsLeave ==
    ASSUME LaunchInv, Leave
    PROVE  LaunchInv'
<1>1. /\ Idle /\ acts' = WithoutWindow /\ shown' = Nobody /\ foreground' = FALSE
      /\ UNCHANGED <<firstTime, loggedIn, task, run, user, profile, entry>>
      /\ adrift' = adrift + Dropped
  BY DEF Leave, session
<1>n. adrift' \in Nat
  BY <1>1, DroppedNat
<1>2. /\ acts' \in Seq(Act) /\ DOMAIN acts' = DOMAIN acts
      /\ \A j \in DOMAIN acts : /\ acts'[j].what = acts[j].what /\ acts'[j].made = acts[j].made
                                /\ \A t : Local(acts'[j], j, t, user)
      /\ \A j \in task : StuckForm(acts'[j]) => acts'[j].told \/ acts'[j].parted
  BY <1>1, WindowGone
<1>3. task \subseteq DOMAIN acts
  BY DEF LaunchInv, Typed
<1>b. foreground' \in BOOLEAN /\ ~foreground'
  BY <1>1
<1>4. Typed'
  BY <1>1, <1>n, <1>2, <1>b DEF LaunchInv, Typed
<1>5. Kinds' /\ OneWelcome' /\ ShownInFront' /\ Locals' /\ MainHasProfile'
  BY <1>1, <1>2, <1>3 DEF LaunchInv, Kinds, OneWelcome, ShownInFront, Locals, MainHasProfile
<1>6. RunInv'
  BY <1>1, <1>2 DEF LaunchInv, RunInv, Starts, Idle
<1>7. PastSlides' /\ FormsMove'
  BY <1>1, <1>2, <1>3 DEF LaunchInv, PastSlides, FormsMove, Leaving
<1> QED
  BY <1>4, <1>5, <1>6, <1>7 DEF LaunchInv

(* What is on top gets a window, or, when it is a Welcome too late, a handler. *)
LEMMA ResumeActs ==
    ASSUME LaunchInv, Resume
    PROVE  /\ Top \in task /\ acts' \in Seq(Act) /\ DOMAIN acts' = DOMAIN acts
           /\ \A j \in DOMAIN acts :
                /\ acts'[j].what = acts[j].what
                /\ j # Top => acts'[j].made = acts[j].made
                /\ \A t : Local(acts'[j], j, t, user)
           /\ \A j \in task : StuckForm(acts'[j]) => acts'[j].told \/ acts'[j].parted
<1> DEFINE W == WithoutWindow
           g == Started(W[Top])
<1>1. Idle /\ task # {} /\ acts' = [W EXCEPT ![Top] = g]
  BY DEF Resume
<1>2. acts \in Seq(Act) /\ task \subseteq DOMAIN acts
  BY DEF LaunchInv, Typed
<1>3. Top \in task
  BY <1>1, <1>2, TopInTask
<1>4. /\ W \in Seq(Act) /\ DOMAIN W = DOMAIN acts
      /\ \A j \in DOMAIN acts : /\ W[j].what = acts[j].what /\ W[j].made = acts[j].made
                                /\ \A t : Local(W[j], j, t, user)
      /\ \A j \in task : StuckForm(W[j]) => W[j].told \/ W[j].parted
  BY <1>1, WindowGone
<1> HIDE DEF W
<1>5. W[Top] \in Act /\ (\A t : Local(W[Top], Top, t, user)) /\ W[Top].what = acts[Top].what
      /\ (StuckForm(W[Top]) => W[Top].told \/ W[Top].parted)
  BY <1>2, <1>3, <1>4
<1>6. /\ g \in Act /\ g.what = acts[Top].what
      /\ \A t : Local(g, Top, t, user)
      /\ StuckForm(g) => g.told \/ g.parted
  BY <1>5, StartedAct
<1> HIDE DEF g
<1>7. /\ acts' \in Seq(Act) /\ DOMAIN acts' = DOMAIN acts
      /\ \A j \in DOMAIN acts : acts'[j] = IF j = Top THEN g ELSE W[j]
  BY <1>1, <1>2, <1>3, <1>4, <1>6
<1> QED
  BY <1>2, <1>3, <1>4, <1>6, <1>7

LEMMA KeepsResume ==
    ASSUME LaunchInv, Resume
    PROVE  LaunchInv'
<1>1. /\ Idle /\ foreground /\ UNCHANGED <<firstTime, loggedIn, task, user, profile, entry, foreground>>
      /\ adrift' = adrift + Dropped
  BY DEF Resume, session
<1>n. adrift' \in Nat
  BY <1>1, DroppedNat
<1>2. task \subseteq DOMAIN acts
  BY DEF LaunchInv, Typed
<1>3. shown' \in {Nobody, Top}
  BY DEF Resume
<1>4. Typed'
  BY <1>1, <1>n, <1>2, <1>3, ResumeActs DEF LaunchInv, Typed
<1>5. Kinds' /\ MainHasProfile'
  BY <1>1, ResumeActs DEF LaunchInv, Kinds, MainHasProfile
<1>6. OneWelcome'
  BY <1>1, <1>2, <1>3, ResumeActs DEF LaunchInv, OneWelcome
<1>7. ShownInFront' /\ Locals'
  BY <1>1, ResumeActs DEF ShownInFront, Locals
<1>8. FormsMove'
  BY <1>1, ResumeActs DEF FormsMove
<1>9. RunInv' /\ PastSlides'
  <2>1. CASE acts[Top].what = "welcome" /\ ~acts[Top].made /\ ~firstTime
    <3>1. PICK ops \in SUBSET Ops : run' = Handler(Top, ops, "main") /\ {"first", "finish"} \subseteq ops
      BY <2>1 DEF Resume, onCreate, launchHomeScreen, Ops
    <3>2. /\ run'.me = Top /\ run'.ops = ops /\ run'.to = "main"
          /\ run' \in [me : {Nobody} \cup DOMAIN acts, ops : SUBSET Ops, to : {"main", "phone", "edit"}]
      BY <1>2, <3>1, ResumeActs DEF Handler
    <3>3. entry = "welcome"
      BY <1>2, <2>1, ResumeActs DEF LaunchInv, Kinds
    <3>4. RunInv'
      BY <1>1, <3>1, <3>2, <3>3, ResumeActs DEF RunInv, Starts
    <3>5. PastSlides'
      BY <1>1, <1>2, <2>1, <3>1, <3>2, ResumeActs DEF LaunchInv, OneWelcome, PastSlides, Leaving
    <3> QED
      BY <3>4, <3>5
  <2>2. CASE ~(acts[Top].what = "welcome" /\ ~acts[Top].made /\ ~firstTime)
    <3>1. UNCHANGED run
      BY <2>2 DEF Resume
    <3>2. RunInv'
      BY <1>1, <3>1, ResumeActs DEF LaunchInv, RunInv, Starts, Idle
    <3>3. PastSlides'
      BY <1>1, <1>2, <2>2, <3>1, ResumeActs DEF LaunchInv, PastSlides, Leaving, Idle
    <3> QED
      BY <3>2, <3>3
  <2> QED
    BY <2>1, <2>2
<1> QED
  BY <1>4, <1>5, <1>6, <1>7, <1>8, <1>9 DEF LaunchInv
LEMMA KeepsOpen ==
    ASSUME LaunchInv, Open
    PROVE  LaunchInv'
<1>1. /\ UNCHANGED <<firstTime, loggedIn, shown, run, user, profile, adrift, entry>>
      /\ ~foreground /\ foreground' = TRUE
  BY DEF Open, session, firebase
<1>b. foreground' \in BOOLEAN /\ foreground'
  BY <1>1
<1>2. shown = Nobody
  BY <1>1 DEF LaunchInv, ShownInFront
<1>3. CASE task # {}
  <2>1. UNCHANGED <<acts, task>>
    BY <1>3 DEF Open
  <2>2. Typed'
    BY <1>1, <1>b, <2>1 DEF LaunchInv, Typed
  <2>3. Kinds' /\ OneWelcome' /\ ShownInFront' /\ Locals' /\ MainHasProfile'
    BY <1>1, <1>2, <2>1 DEF LaunchInv, Kinds, OneWelcome, ShownInFront, Locals, MainHasProfile
  <2>4. RunInv' /\ PastSlides' /\ FormsMove'
    BY <1>1, <2>1 DEF LaunchInv, RunInv, Starts, PastSlides, FormsMove, Leaving
  <2> QED
    BY <2>2, <2>3, <2>4 DEF LaunchInv
<1>4. CASE task = {}
  <2> DEFINE n == Len(acts) + 1
  <2>1. acts' = Append(acts, New[entry]) /\ task' = {n}
    BY <1>4 DEF Open
  <2>2. entry \in {"welcome", "phone", "edit"}
    BY EntryAssumption DEF LaunchInv, Typed
  <2>3. /\ acts' \in Seq(Act) /\ DOMAIN acts' = DOMAIN acts \cup {n}
        /\ \A j \in DOMAIN acts : acts'[j] = acts[j] /\ j # n
        /\ acts'[n] = New[entry]
    BY <2>1, <2>2, AddAct
  <2>4. /\ New[entry].what = entry /\ ~New[entry].made /\ ~StuckForm(New[entry])
        /\ \A i, s, u : Local(New[entry], i, s, u)
    BY <2>2, NewAct
  <2> HIDE DEF n
  <2>5. Typed'
    BY <1>1, <1>b, <2>1, <2>3 DEF LaunchInv, Typed
  <2>6. Kinds' /\ MainHasProfile'
    BY <1>1, <2>2, <2>3, <2>4 DEF LaunchInv, Kinds, MainHasProfile
  <2>7. OneWelcome' /\ ShownInFront' /\ Locals'
    BY <1>1, <1>2, <2>1, <2>3, <2>4 DEF LaunchInv, OneWelcome, ShownInFront, Locals
  <2>8. RunInv'
    BY <1>1, <1>2, <2>3 DEF LaunchInv, RunInv, Starts
  <2>9. PastSlides' /\ FormsMove'
    BY <2>1, <2>3, <2>4 DEF PastSlides, FormsMove
  <2> QED
    BY <2>5, <2>6, <2>7, <2>8, <2>9 DEF LaunchInv
<1> QED
  BY <1>3, <1>4

(* Nothing the objects knew survives, and nothing is pending. *)
LEMMA DeadActs ==
    ASSUME LaunchInv, ProcessDies
    PROVE  /\ acts' \in Seq(Act) /\ DOMAIN acts' = DOMAIN acts
           /\ \A j \in DOMAIN acts :
                /\ acts'[j].what = acts[j].what /\ ~acts'[j].made /\ ~StuckForm(acts'[j])
                /\ \A s, u : Local(acts'[j], j, s, u)
<1>1. acts \in Seq(Act)
  BY DEF LaunchInv, Typed
<1>s. Len(acts) \in Nat /\ DOMAIN acts = 1..Len(acts)
  BY <1>1
<1>2. PICK saved \in BOOLEAN :
          acts' = [i \in DOMAIN acts |->
                      IF acts[i].what = "welcome" /\ saved
                        THEN [acts[i] EXCEPT !.made = FALSE]
                        ELSE New[acts[i].what]]
  BY DEF ProcessDies
<1> DEFINE e(j) == IF acts[j].what = "welcome" /\ saved
                     THEN [acts[j] EXCEPT !.made = FALSE]
                     ELSE New[acts[j].what]
<1>3. ASSUME NEW j \in DOMAIN acts
      PROVE  /\ e(j) \in Act /\ e(j).what = acts[j].what /\ ~e(j).made /\ ~StuckForm(e(j))
             /\ \A s, u : Local(e(j), j, s, u)
  <2>0. acts[j] \in Act /\ acts[j].what \in {"welcome", "main", "phone", "edit"}
    BY <1>1, KindOf
  <2>1. CASE acts[j].what = "welcome" /\ saved
    <3> DEFINE g == [acts[j] EXCEPT !.made = FALSE]
    <3>1. acts[j] \in WelcomeType /\ e(j) = g
      BY <2>0, <2>1, KindOf
    <3>2. g \in WelcomeType /\ g.what = "welcome" /\ g.made = FALSE
      BY <2>1, <3>1 DEF WelcomeType
    <3> HIDE DEF g, e
    <3> QED
      BY <2>1, <3>1, <3>2 DEF Act, Local, StuckDialog, StuckForm
  <2>2. CASE ~(acts[j].what = "welcome" /\ saved)
    <3>1. e(j) = New[acts[j].what]
      BY <2>2
    <3> HIDE DEF e
    <3> QED
      BY <2>0, <3>1, NewAct
  <2> QED
    BY <2>1, <2>2
<1>4. acts' = [j \in DOMAIN acts |-> e(j)]
  BY <1>2
<1> HIDE DEF e
<1>5. acts' \in [1..Len(acts) -> Act]
  BY <1>3, <1>4, <1>s
<1>6. acts' \in Seq(Act)
  BY <1>5, <1>s
<1> QED
  BY <1>3, <1>4, <1>6

LEMMA KeepsDeath ==
    ASSUME LaunchInv, ProcessDies
    PROVE  LaunchInv'
<1>1. /\ UNCHANGED <<firstTime, loggedIn, task, user, entry>>
      /\ shown' = Nobody /\ run' = NoHandler /\ adrift' = 0 /\ foreground' = FALSE
      /\ profile' \in {profile, "whole"}
  BY DEF ProcessDies, session
<1>b. foreground' \in BOOLEAN /\ ~foreground'
  BY <1>1
<1>2. task \subseteq DOMAIN acts
  BY DEF LaunchInv, Typed
<1>3. Typed'
  BY <1>1, <1>b, <1>2, DeadActs DEF LaunchInv, Typed, Profiles
<1>4. Kinds' /\ MainHasProfile'
  BY <1>1, DeadActs DEF LaunchInv, Kinds, MainHasProfile
<1>5. OneWelcome' /\ ShownInFront' /\ Locals'
  BY <1>1, <1>2, DeadActs DEF LaunchInv, OneWelcome, ShownInFront, Locals
<1>6. RunInv'
  BY <1>1 DEF RunInv, Starts, NoHandler
<1>7. PastSlides' /\ FormsMove'
  BY <1>1, <1>2, DeadActs DEF PastSlides, FormsMove
<1> QED
  BY <1>3, <1>4, <1>5, <1>6, <1>7 DEF LaunchInv

LEMMA LaunchStep == LaunchInv /\ [Next]_vars => LaunchInv'
<1> SUFFICES ASSUME LaunchInv, [Next]_vars PROVE LaunchInv'
  OBVIOUS
<1>1. CASE Screens
  BY <1>1, KeepsScreens
<1>2. CASE WelcomeActivity
  BY <1>2, KeepsWelcome DEF Kept
<1>3. CASE Login
  BY <1>3, KeepsLogin DEF Kept
<1>4. CASE System
  BY <1>4, KeepsResume, KeepsLeave, KeepsRefocus, KeepsBack, KeepsOpen, KeepsDeath
  DEF System, Kept, Kill, HideTooLate
<1>5. CASE UNCHANGED vars
  BY <1>5 DEF vars, session, firebase, LaunchInv, Typed, Kinds, OneWelcome, ShownInFront, Locals,
              MainHasProfile, RunInv, Starts, PastSlides, FormsMove, Leaving
<1> QED
  BY <1>1, <1>2, <1>3, <1>4, <1>5 DEF Next

LEMMA LaunchAlways == Spec => []LaunchInv
  BY LaunchInit, LaunchStep, PTL DEF Spec
-----------------------------------------------------------------------------
(* The state is well typed, whatever the application is opened with. *)
THEOREM TypeCorrect == Spec => []TypeOK
<1>1. LaunchInv => TypeOK
  BY DEF LaunchInv, Typed, RunInv, TypeOK, Act, WelcomeType, MainType, PhoneType, EditType, Profiles
<1> QED
  BY <1>1, LaunchAlways, PTL

(* Whichever handler started MainActivity, and wherever the process died since,
   the first launch is recorded on disk. *)
THEOREM HomeIsRemembered == Spec => []HomeRemembered
<1>1. LaunchInv => HomeRemembered
  BY DEF LaunchInv, Typed, Kinds, HomeRemembered, Has
<1> QED
  BY <1>1, LaunchAlways, PTL

(* The sign-in screens start MainActivity only for a user with a profile, by
   whichever of a lookup and a save, and with whatever other answers pending. *)
THEOREM ProfileBeforeHome == Spec => []HomeHasProfile
<1>1. LaunchInv => HomeHasProfile
  BY DEF LaunchInv, Typed, MainHasProfile, HomeHasProfile, Has
<1> QED
  BY <1>1, LaunchAlways, PTL

(* A form of PhoneActivity whose buttons are disabled for good showed an error or
   was left, and a dialog that stays up is one whose save failed. *)
THEOREM StuckOnlyForAReason == Spec => []StuckForAReason
<1>1. LaunchInv => StuckForAReason
  <2> SUFFICES ASSUME LaunchInv, Idle, NEW i \in task
               PROVE  /\ StuckForm(acts[i]) => acts[i].told \/ acts[i].parted
                      /\ StuckDialog(acts[i]) => acts[i].failed
    BY DEF StuckForAReason
  <2>1. ~Leaving(i)
    BY DEF Leaving, Idle
  <2>2. i \in DOMAIN acts
    BY DEF LaunchInv, Typed
  <2>3. StuckForm(acts[i]) => acts[i].told \/ acts[i].parted
    BY <2>1 DEF LaunchInv, FormsMove
  <2>4. Local(acts[i], i, shown, user)
    BY <2>2 DEF LaunchInv, Locals
  <2> QED
    BY <2>3, <2>4 DEF Local
<1> QED
  BY <1>1, LaunchAlways, PTL

(* What a step does to the activities there are: only startActivity and Open add
   one. *)
LEMMA NewActs ==
    ASSUME LaunchInv, [Next]_vars, ~startActivity, ~Open
    PROVE  DOMAIN acts' = DOMAIN acts
<1>1. CASE Screens
  BY <1>1 DEF Screens, Continue, setFirstTimeLaunch, setLoggedIn, finish
<1>2. CASE WelcomeActivity
  BY <1>2, KeepsWelcome DEF Kept, Alike
<1>3. CASE Login
  BY <1>3, KeepsLogin DEF Kept, Alike
<1>4. CASE Resume
  BY <1>4, ResumeActs
<1>5. CASE Leave
  BY <1>5, WindowGone DEF Leave
<1>6. CASE Refocus \/ Back
  BY <1>6, KeepsRefocus, KeepsBack DEF Kept, Alike
<1>7. CASE ProcessDies
  BY <1>7, DeadActs
<1>8. CASE UNCHANGED vars
  BY <1>8 DEF vars
<1> QED
  BY <1>1, <1>2, <1>3, <1>4, <1>5, <1>6, <1>7, <1>8 DEF Next, System, Kill, HideTooLate

(* EditProfileActivity is started by a PhoneActivity that is on the screen. *)
THEOREM SignInIsPrompt == Spec => NoLateSignIn
<1> DEFINE Prompt ==
        \A i \in DOMAIN acts' \ DOMAIN acts :
          acts'[i].what = "edit" => task = {} \/ (run.me = shown /\ acts[shown].what = "phone")
<1>1. LaunchInv /\ [Next]_vars => Prompt
  <2> SUFFICES ASSUME LaunchInv, [Next]_vars PROVE Prompt
    OBVIOUS
  <2>1. CASE ~startActivity /\ ~Open
    BY <2>1, NewActs
  <2>2. CASE startActivity
    <3>1. /\ "start" \in run.ops /\ acts' = Append(acts, New[run.to])
          /\ run.to \in {"main", "phone", "edit"}
      BY <2>2 DEF startActivity, LaunchInv, RunInv
    <3>2. /\ DOMAIN acts' = DOMAIN acts \cup {Len(acts) + 1}
          /\ acts'[Len(acts) + 1].what = run.to
      BY <3>1, AddAct, NewAct
    <3>3. run.to = "edit" => run.me = shown /\ acts[shown].what = "phone"
      BY <3>1 DEF LaunchInv, RunInv, Starts
    <3> QED
      BY <3>2, <3>3
  <2>3. CASE Open
    BY <2>3 DEF Open
  <2> QED
    BY <2>1, <2>2, <2>3
<1>2. LaunchInv /\ [Next]_vars => [Prompt]_vars
  BY <1>1
<1> QED
  BY <1>2, LaunchAlways, PTL DEF Spec, NoLateSignIn

(* A step that leaves the window alone leaves the promise alone. *)
LEMMA SameScreen ==
    ASSUME LaunchInv, UNCHANGED <<firstTime, shown>>,
           shown \in DOMAIN acts => acts'[shown].what = acts[shown].what
    PROVE  UNCHANGED Promise!vars
<1>1. shown = Nobody \/ shown \in DOMAIN acts
  BY DEF LaunchInv, Typed
<1>2. Screen' = Screen
  BY <1>1 DEF Screen
<1> QED
  BY <1>2 DEF Promise!vars

(* The launch keeps its promise: the slides are for one who has not been past
   them, home for one who has, and no death of the process makes it forget. *)
THEOREM LaunchKeepsPromise == Spec => OnboardingOnce
<1>1. Init => Promise!Init
  BY DEF Init, Promise!Init, Screen, Nobody
<1>2. LaunchInv /\ [Next]_vars => [Promise!Next]_(Promise!vars)
  <2> SUFFICES ASSUME LaunchInv, [Next]_vars PROVE [Promise!Next]_(Promise!vars)
    OBVIOUS
  <2>0. shown = Nobody \/ shown \in DOMAIN acts
    BY DEF LaunchInv, Typed
  <2>1. CASE setFirstTimeLaunch
    <3>1. firstTime' = FALSE /\ UNCHANGED <<acts, shown>>
      BY <2>1 DEF setFirstTimeLaunch
    <3>2. Screen' = Screen
      BY <3>1 DEF Screen
    <3> QED
      BY <3>1, <3>2 DEF Promise!Next, Promise!Remember
  <2>2. CASE setLoggedIn \/ finish
    BY <2>2, SameScreen DEF setLoggedIn, finish, session
  <2>3. CASE startActivity
    <3>1. UNCHANGED <<firstTime, shown>> /\ acts' = Append(acts, New[run.to])
          /\ run.to \in {"main", "phone", "edit"}
      BY <2>3 DEF startActivity, session, LaunchInv, RunInv
    <3> QED
      BY <3>1, AddAct, SameScreen
  <2>4. CASE WelcomeActivity \/ Login \/ Refocus \/ Back
    <3>1. Kept
      BY <2>4, KeepsWelcome, KeepsLogin, KeepsRefocus, KeepsBack
    <3> QED
      BY <3>1, SameScreen DEF Kept, Stays, Alike, session
  <2>5. CASE Open
    <3>1. UNCHANGED <<firstTime, shown>> /\ shown = Nobody
      BY <2>5 DEF Open, session, LaunchInv, ShownInFront
    <3>2. Screen' = Screen
      BY <3>1 DEF Screen
    <3> QED
      BY <3>1, <3>2 DEF Promise!vars
  <2>6. CASE Leave \/ ProcessDies
    <3>1. UNCHANGED firstTime /\ shown' = Nobody
      BY <2>6 DEF Leave, ProcessDies, session
    <3>2. Screen' = "none"
      BY <3>1 DEF Screen
    <3> QED
      BY <3>1, <3>2 DEF Promise!Next, Promise!Vanish
  <2>7. CASE Resume
    <3>1. UNCHANGED firstTime /\ Idle
      BY <2>7 DEF Resume, session
    <3>2. CASE shown' = Nobody
      <4>1. Screen' = "none"
        BY <3>2 DEF Screen
      <4> QED
        BY <3>1, <4>1 DEF Promise!Next, Promise!Vanish
    <3>3. CASE shown' # Nobody
      <4>1. shown' = Top /\ ~(acts[Top].what = "welcome" /\ ~acts[Top].made /\ ~firstTime)
        BY <2>7, <3>3 DEF Resume
      <4>2. Top \in task /\ Top \in DOMAIN acts /\ acts'[Top].what = acts[Top].what
        BY <2>7, ResumeActs DEF LaunchInv, Typed
      <4>3. CASE acts[Top].what = "welcome"
        <5>1. firstTime
          BY <3>1, <4>1, <4>2, <4>3 DEF LaunchInv, PastSlides, Leaving, Idle
        <5>2. Screen' = "slides"
          BY <3>3, <4>1, <4>2, <4>3 DEF Screen
        <5> QED
          BY <3>1, <5>1, <5>2 DEF Promise!Next, Promise!ShowSlides
      <4>4. CASE acts[Top].what = "main"
        <5>1. ~firstTime
          BY <4>2, <4>4 DEF LaunchInv, Kinds
        <5>2. Screen' = "home"
          BY <3>3, <4>1, <4>2, <4>4 DEF Screen
        <5> QED
          BY <3>1, <5>1, <5>2 DEF Promise!Next, Promise!ShowHome
      <4>5. CASE acts[Top].what # "welcome" /\ acts[Top].what # "main"
        <5>1. Screen' = "none"
          BY <3>3, <4>1, <4>2, <4>5 DEF Screen
        <5> QED
          BY <3>1, <5>1 DEF Promise!Next, Promise!Vanish
      <4> QED
        BY <4>3, <4>4, <4>5
    <3> QED
      BY <3>2, <3>3
  <2>8. CASE UNCHANGED vars
    BY <2>8, SameScreen DEF vars, session
  <2> QED
    BY <2>1, <2>2, <2>3, <2>4, <2>5, <2>6, <2>7, <2>8
    DEF Next, Screens, Continue, System, Kill, HideTooLate
<1> QED
  BY <1>1, <1>2, LaunchAlways, PTL DEF Spec, OnboardingOnce, Promise!Spec
=============================================================================
