SPECIFICATION Spec
SYMMETRY SecretSymmetry
CONSTANTS
  s1 = s1
  s2 = s2
  None = None
  Zero = Zero
  Secrets <- MCSecrets
  Tokenless <- MCTokenless
  NChains = 2
  MaxId = 2
  MaxSeq = 2
  MaxRefresh = 2
  MaxFaults = 1
INVARIANTS TypeOK AddressesAreOwn BalancesAreOwn SeqsInOrder UnlockedIsComplete PendingWillCome

