SPECIFICATION FairSpec
CONSTANTS
  a1 = a1
  t1 = t1
  t2 = t2
  None = None
  Accounts = {a1}
  Tasks = {t1, t2}
  TokIds = {1, 2, 3, 4, 5}
  EpochMod = 2
  Tpm = FALSE
  Faults = {"unlock"}
INVARIANTS
  RefreshSerialized
  LogoutLeavesNoEnvelope
  EnvelopeTracksSession
PROPERTIES
  EpochTracksTransitions
  RequestsFinish
