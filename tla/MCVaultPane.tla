---------------------------- MODULE MCVaultPane ----------------------------
(* The vault window with a login and a secure note, one of them behind a   *)
(* master-password reprompt.                                               *)
EXTENDS VaultPane
=============================================================================
