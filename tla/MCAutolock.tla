----------------------------- MODULE MCAutolock -----------------------------
(* Sleeps of at most 2 ticks; timeouts below, at and above that. *)
EXTENDS Autolock
=============================================================================
