SPECIFICATION SwitchSpec
CONSTANTS
  a1 = a1
  a2 = a2
  t1 = t1
  t2 = t2
  None = None
  Accounts = {a1, a2}
  Tasks = {t1, t2}
  TokIds = {1, 2, 3, 4, 5, 6}
  EpochMod = 2
  Tpm = TRUE
  Faults = {"config", "vault"}
  Switcher = {t2}
SYMMETRY Symmetry
ACTION_CONSTRAINT InOneInstance
INVARIANTS
  SessionMatchesKeys
  LockedHoldsNoPlaintext
  KeysBelongToConfig
  SshIdentitiesOfAccount
  BlobSealsOwnKeys
