--------------------------- MODULE MCVaultSession ---------------------------
(* One account and two requests in flight, with fairness.                  *)
EXTENDS VaultSession
=============================================================================
