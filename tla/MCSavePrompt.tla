---------------------------- MODULE MCSavePrompt ----------------------------
(* One tab, a login that is stored with another password and one that is   *)
(* not.                                                                    *)
EXTENDS SavePrompt
CONSTANTS u1, u2, p1, p2
MCStored == <<<<u1, p1>>>>
MCSubmitted == {<<u1, p2>>, <<u2, p1>>}
=============================================================================
