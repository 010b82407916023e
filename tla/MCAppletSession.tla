-------------------------- MODULE MCAppletSession --------------------------
(* The vault window or the panel applet beside an agent that other clients *)
(* lock, unlock, sync and send deep links to.                              *)
EXTENDS AppletSession
=============================================================================
