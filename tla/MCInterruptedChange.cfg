SPECIFICATION Spec
CONSTANTS
  e1 = e1
  e2 = e2
  p1 = p1
  p2 = p2
  p3 = p3
  weak = weak
  m1 = m1
  m2 = m2
  None = None
  Emails <- MCEmails
  Strong <- MCStrong
  Weak <- MCWeak
  MasterKeys <- MCMasterKeys
  CURRENT_SCHEMA = 3
  MaxFaults = 2
INVARIANTS InterruptedChangeStillOpens
