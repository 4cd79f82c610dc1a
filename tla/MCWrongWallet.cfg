SPECIFICATION Spec
SYMMETRY SecretSymmetry
CONSTANTS
  s1 = s1
  s2 = s2
  None = None
  Zero = Zero
  Secrets <- MCSecrets
  Tokenless <- MCTokenless
  NChains = 1
  MaxId = 2
  MaxSeq = 3
  MaxRefresh = 2
  MaxFaults = 0
INVARIANTS BalancesStayOwn

