-------------------------- MODULE MCSpeakingClock --------------------------
(* The speaking clock on small instances. *)
EXTENDS SpeakingClock
=============================================================================
