SPECIFICATION Spec
CONSTANTS
  None = None
  U64 = 1000000000
  Kinds <- MCAllKinds
  Texts <- MCTexts
  Amounts <- MCAmounts
  Decimals = 2
  BALANCE_FRAC = 1
  I128 = 2000000000
  Balances <- MCBalances
  Fees <- MCFees
  FALLBACK_SUN_PER_ENERGY = 1
  FALLBACK_SUN_PER_BANDWIDTH = 1
  TX_OVERHEAD = 1
  LAMPORTS_PER_SIGNATURE = 1
  TOKEN_ACCOUNT_RENT = 2
  COMPUTE_UNITS_SOL = 1
  COMPUTE_UNITS_TOKEN = 2
  COMPUTE_UNITS_TOKEN_WITH_ATA = 3
  MICRO = 2
  FEE_TRANSFER = 1
  JETTON_TRANSFER_ATTACHED = 2
  MAX_GAS_TRANSFER = 2
  GAS_BUDGET_TRANSFER = 2
  Coins <- MCCoins
  MaxCoins = 3
  Rates <- MCRates
  MaxMoves = 1
INVARIANTS PaidFor MaxIsExact NeverRewritten CoinsAccounted FewestConfirmed LessIsPayable WhatIsReadIsMeant
