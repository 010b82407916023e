---------------------------- MODULE MCGenerator -----------------------------
(* A login form and a sign-up form; entries live for one second.           *)
EXTENDS Generator
CONSTANTS login, signup, lower
=============================================================================
