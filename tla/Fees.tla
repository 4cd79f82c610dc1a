-------------------------------- MODULE Fees --------------------------------
(***************************************************************************)
(* What a transfer costs on the chains that keep accounts: the figures the *)
(* nodes answer (client.rs of each chain, chain.rs) and what the screen    *)
(* makes of them (FeeQuote in send.rs, on_quoted in app.rs).  Some readings *)
(* that fail stop the quote, some are done without.                        *)
(*                                                                         *)
(* A cost is [cost, hold, asks]: what is shown, what is held back, and     *)
(* what the network will ask of the account on the same figures, or 0      *)
(* where the program had to make one of them up.                           *)
(***************************************************************************)
EXTENDS BitcoinCoins

CONSTANTS Fees,                   \* bound: any one figure of a node
          FALLBACK_SUN_PER_ENERGY, FALLBACK_SUN_PER_BANDWIDTH,
          TX_OVERHEAD,            \* bytes a TRON signature and result add
          LAMPORTS_PER_SIGNATURE, TOKEN_ACCOUNT_RENT,
          COMPUTE_UNITS_SOL, COMPUTE_UNITS_TOKEN, COMPUTE_UNITS_TOKEN_WITH_ATA,
          MICRO,                  \* micro-lamports of a lamport
          FEE_TRANSFER, JETTON_TRANSFER_ATTACHED,
          MAX_GAS_TRANSFER, GAS_BUDGET_TRANSFER

ASSUME FeeAssumption ==
    /\ Fees \subseteq Nat
    /\ {FALLBACK_SUN_PER_ENERGY, FALLBACK_SUN_PER_BANDWIDTH, TX_OVERHEAD,
        LAMPORTS_PER_SIGNATURE, TOKEN_ACCOUNT_RENT, COMPUTE_UNITS_SOL,
        COMPUTE_UNITS_TOKEN, COMPUTE_UNITS_TOKEN_WITH_ATA, FEE_TRANSFER,
        JETTON_TRANSFER_ATTACHED, MAX_GAS_TRANSFER, GAS_BUDGET_TRANSFER} \subseteq Nat
    /\ MICRO \in Nat \ {0}

Figures == Fees \cup {0}

\* (a - b).max(0)
Less(a, b) == IF a > b THEN a - b ELSE 0

\* A figure that could not be read counts as none.
IfRead(read, figure) == IF read THEN figure ELSE 0

Cost(cost, hold, asks) == [cost |-> cost, hold |-> hold, asks |-> asks]

---------------------------------------------------------------------------
(* TRON: energy and bandwidth, of which the account's own are used first.  *)

\* What the network would charge for the call, the part of it that is the
\* surcharge, the size of the transaction, what the account has, the prices.
TronNodes(coin) ==
    [charged  : IF coin THEN {0} ELSE Figures,
     penalty  : IF coin THEN {0} ELSE Figures,
     raw_len  : Fees,
     limits   : [energy : Figures, energy_used : Fees, free : Figures, staked : Figures,
                 net_used : Figures],
     prices   : Fees \X Fees]

account_resources(n) ==
    [energy    |-> Less(n.limits.energy, n.limits.energy_used),
     bandwidth |-> Less(n.limits.free, n.limits.net_used) + n.limits.staked]

\* EnergyEstimate::base: the surcharge is a part of what is charged.
base(n) == Less(n.charged, n.penalty)

bandwidth_needed(n) == n.raw_len + TX_OVERHEAD

\* TronFee: what could not be read of the account counts as nothing, and the
\* prices have a fallback.
TronFee(n, known, priced) ==
    [energy_needed    |-> base(n) + n.penalty,
     bandwidth_needed |-> bandwidth_needed(n),
     available        |-> IF known THEN account_resources(n) ELSE [energy |-> 0, bandwidth |-> 0],
     prices           |-> IF priced THEN n.prices
                          ELSE <<FALLBACK_SUN_PER_ENERGY, FALLBACK_SUN_PER_BANDWIDTH>>]

energy_burn(f)    == Less(f.energy_needed, f.available.energy) * f.prices[1]
bandwidth_burn(f) == Less(f.bandwidth_needed, f.available.bandwidth) * f.prices[2]
total_burn(f)     == energy_burn(f) + bandwidth_burn(f)

\* The network burns what the account lacks, at its own prices.
Burned(n) == Less(n.charged, account_resources(n).energy) * n.prices[1]
             + Less(bandwidth_needed(n), account_resources(n).bandwidth) * n.prices[2]

\* verify_usdt, the estimate and the block to refer to must be had.
TronCosts(coin) ==
    {LET burn == total_burn(TronFee(n, known, priced))
     IN Cost(burn, burn, IfRead(priced, Burned(n))) :
       known \in BOOLEAN, priced \in BOOLEAN,
       n \in {m \in TronNodes(coin) : m.penalty <= m.charged}}

---------------------------------------------------------------------------
(* EVM: gas at a price, or under a ceiling, and a rollup's posting.        *)

EvmNodes == [estimate : Fees, base_fee : Figures, tip : Figures, legacy : BOOLEAN, l1 : Figures]

gas_limit(n) == n.estimate + n.estimate \div 5

\* Fees::Legacy or Fees::Eip1559; a tip that cannot be read is none.
max_per_gas(n, tip) == IF n.legacy THEN n.base_fee ELSE 2 * n.base_fee + tip

expected_per_gas(n, tip) == IF n.legacy THEN n.base_fee ELSE n.base_fee + tip

EvmFee(n, tip, l1_fee) ==
    [cost |-> gas_limit(n) * expected_per_gas(n, tip) + l1_fee,
     hold |-> gas_limit(n) * max_per_gas(n, tip) + l1_fee]

\* The network asks for the ceiling, and for the posting.  A posting whose price
\* cannot be read counts as none.
EvmCosts ==
    {LET bid == IfRead(tipped, n.tip)
         fee == EvmFee(n, bid, IfRead(posted, n.l1))
     IN Cost(fee.cost, fee.hold, IfRead(posted, gas_limit(n) * max_per_gas(n, bid) + n.l1)) :
       tipped \in BOOLEAN, posted \in BOOLEAN, n \in EvmNodes}

---------------------------------------------------------------------------
(* Solana: a signature, compute at a bid, and the rent of an account.      *)

\* fee_lamports rounds the bid up.
fee_lamports(units, price) == LAMPORTS_PER_SIGNATURE + (units * price + MICRO - 1) \div MICRO

Budget(coin, exists) == IF coin THEN COMPUTE_UNITS_SOL
                        ELSE IF exists THEN COMPUTE_UNITS_TOKEN
                        ELSE COMPUTE_UNITS_TOKEN_WITH_ATA

\* The rent that is asked for, or assumed; whether the account is there must be
\* known.  What recent blocks took, or nothing, is bid.
SolanaCosts(coin) ==
    {LET rent == IF coin \/ exists THEN 0 ELSE IF read THEN r ELSE TOKEN_ACCOUNT_RENT
         fee  == fee_lamports(Budget(coin, exists), price) + rent
     IN Cost(fee, fee, IfRead(read, fee)) :
       exists \in BOOLEAN, read \in BOOLEAN, r \in Fees, price \in Figures}

---------------------------------------------------------------------------
(* TON, Aptos and Sui: allowances.                                         *)

\* TonFee: the coin that travels with a token is held back and not a cost.
TonCosts(coin) ==
    LET attached == IF coin THEN 0 ELSE JETTON_TRANSFER_ATTACHED
    IN {Cost(FEE_TRANSFER, FEE_TRANSFER + attached, FEE_TRANSFER + attached)}

\* AptosFee::max_fee_octas
AptosCosts == {Cost(MAX_GAS_TRANSFER * price, MAX_GAS_TRANSFER * price, MAX_GAS_TRANSFER * price) :
                 price \in Fees}

\* DryRun::net: storage is charged and then partly given back, and the chain
\* will not run what the gas coins cannot cover the whole budget of.
SuiCosts == {Cost(Less(computation + storage, rebate), GAS_BUDGET_TRANSFER, GAS_BUDGET_TRANSFER) :
               computation \in Fees, storage \in Figures, rebate \in Figures}

\* All of them, worked out once.
CoinCosts  == [tron |-> TronCosts(TRUE), evm |-> EvmCosts, solana |-> SolanaCosts(TRUE),
               ton |-> TonCosts(TRUE), aptos |-> AptosCosts, sui |-> SuiCosts]
TokenCosts == [tron |-> TronCosts(FALSE), evm |-> EvmCosts, solana |-> SolanaCosts(FALSE),
               ton |-> TonCosts(FALSE), aptos |-> AptosCosts, sui |-> SuiCosts]

Costs(k, coin) == IF coin THEN CoinCosts[k] ELSE TokenCosts[k]
=============================================================================
