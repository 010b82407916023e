------------------------------- MODULE MCTray -------------------------------
(* The tray with a login that asks for the master password and one that    *)
(* does not.                                                               *)
EXTENDS Tray

CONSTANTS open, gated
=============================================================================
