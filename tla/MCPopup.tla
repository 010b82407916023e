------------------------------- MODULE MCPopup ------------------------------
(* Two sites with a login each, a secure note.                             *)
EXTENDS Popup
CONSTANTS a, b, n
=============================================================================
