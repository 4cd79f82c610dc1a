CONSTANTS
    None = None
    I64 = 1000000
    U64 = 2000000
    InPlay <- MCInPlay
    Amounts <- MCAmounts
    Numbers <- MCNumbers
    Coins <- MCCoins
SPECIFICATION Spec
CHECK_DEADLOCK FALSE
INVARIANTS
    PaysWhatWasAsked
    SignatureCoversIt
    FreshIsSigned
    PaysItsRate
