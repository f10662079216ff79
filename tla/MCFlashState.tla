---------------------------- MODULE MCFlashState ----------------------------
(***************************************************************************)
(* FlashState for TLC: two configurations of the application, so that      *)
(* buffer and statics are used again, and a second init_ex in a session.   *)
(***************************************************************************)
EXTENDS FlashState
=============================================================================
