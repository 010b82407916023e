SPECIFICATION FairSpec
CONSTANTS
  a1 = a1
  a2 = a2
  s1 = s1
  s2 = s2
  None = None
  Accounts = {a1, a2}
  Signers = {s1, s2}
  Clients = {c1}
  c1 = c1
  KeyOf <- MCKeyOf
  TokIds = {1}
  EpochMod = 2
INVARIANTS
  PromptedOnce
PROPERTIES
  SignRequestsFinish
  WakeupNotLost
