SPECIFICATION LiveSpec
CONSTANTS
  tron = tron
  solana = solana
  p1 = p1
  p2 = p2
  None = None
  Accounts <- MCAccounts
  OnSolana <- MCOnSolana
  Payees <- MCPayees
  ReqIds <- MCReqIds
INVARIANTS TypeOK SessionBehindScreens QuoteIsForRequest ShownBelongsHere
PROPERTIES SignsOnlyApproved SolanaHashFresh SpinnerStops
