----------------------------- MODULE MCSshSign ------------------------------
(* Two sign requests, the second for a key of another account. *)
EXTENDS SshSign, TLC

CONSTANTS a1, a2, s1, s2

MCKeyOf == (s1 :> a1) @@ (s2 :> a2)
=============================================================================
