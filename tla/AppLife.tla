------------------------------- MODULE AppLife -------------------------------
(***************************************************************************)
(* What the screens of the iOS application share: the application, which    *)
(* ends when one of them unwraps nil by force or reads past an array.       *)
(***************************************************************************)
VARIABLE crash     \* what ended the application

Running == crash = "nothing"
=============================================================================
