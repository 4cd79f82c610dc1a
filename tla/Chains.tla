------------------------------- MODULE Chains -------------------------------
(***************************************************************************)
(* The chains of the wallet, what differs between them, and the assets and *)
(* addresses that belong to one of them: neko-core/src/chain.rs and        *)
(* neko-evm/src/chain_consts.rs.  An address is its chain and its bytes,   *)
(* an asset is its chain and whether it is the coin or the token there.    *)
(***************************************************************************)
EXTENDS Integers, Sequences, SequencesExt

CONSTANT None

\* [chain_id, native, stable_decimals, stable_label, type2, router, oracle,
\*  prices_on, index]: index is the set of the indexes that know the chain.
Evm(chain_id, native, stable_decimals, label, type2, router, oracle, prices_on, index) ==
    [chain_id |-> chain_id, native_symbol |-> native, native_decimals |-> 18,
     stable_decimals |-> stable_decimals, stable_label |-> label, eip1559 |-> type2,
     router |-> router, l1_fee_oracle |-> oracle, prices_on |-> prices_on, index |-> index]

BSC        == Evm(56,     "BNB",  18, "USDT", FALSE, TRUE,  FALSE, None, {"NodeReal", "Etherscan"})
ETHEREUM   == Evm(1,      "ETH",  6,  "USDT", TRUE,  TRUE,  FALSE, None, {"NodeReal", "Etherscan"})
POLYGON    == Evm(137,    "POL",  6,  "USDT", TRUE,  TRUE,  FALSE, None, {"Blockscout", "Etherscan"})
BASE       == Evm(8453,   "ETH",  6,  "USDC", TRUE,  FALSE, TRUE,  1,    {"Blockscout", "Etherscan"})
ARBITRUM   == Evm(42161,  "ETH",  6,  "USDT", TRUE,  FALSE, FALSE, 1,    {"Blockscout", "Etherscan"})
OPTIMISM   == Evm(10,     "ETH",  6,  "USDT", TRUE,  FALSE, TRUE,  1,    {"Blockscout", "Etherscan"})
AVALANCHE  == Evm(43114,  "AVAX", 6,  "USDT", TRUE,  TRUE,  FALSE, None, {"Routescan", "Etherscan"})
HYPER_EVM  == Evm(999,    "HYPE", 6,  "USDT", TRUE,  FALSE, FALSE, None, {"Etherscan"})
MANTLE     == Evm(5000,   "MNT",  6,  "USDC", TRUE,  FALSE, TRUE,  None, {"Routescan", "Etherscan"})
LINEA      == Evm(59144,  "ETH",  6,  "USDC", TRUE,  FALSE, FALSE, 1,    {"Blockscout", "Etherscan"})
ZKSYNC_ERA == Evm(324,    "ETH",  6,  "USDC", TRUE,  FALSE, FALSE, 1,    {"Blockscout"})
SCROLL     == Evm(534352, "ETH",  6,  "USDT", TRUE,  FALSE, TRUE,  1,    {"Blockscout"})

CHAINS == <<"Tron", "Bsc", "Solana", "Bitcoin", "Ethereum", "Ton", "Polygon", "Base", "Arbitrum",
            "Optimism", "Avalanche", "HyperEvm", "Mantle", "Linea", "ZkSyncEra", "Scroll",
            "Aptos", "Sui">>

ChainId == ToSet(CHAINS)

EvmChains == [Bsc |-> BSC, Ethereum |-> ETHEREUM, Polygon |-> POLYGON, Base |-> BASE,
              Arbitrum |-> ARBITRUM, Optimism |-> OPTIMISM, Avalanche |-> AVALANCHE,
              HyperEvm |-> HYPER_EVM, Mantle |-> MANTLE, Linea |-> LINEA,
              ZkSyncEra |-> ZKSYNC_ERA, Scroll |-> SCROLL]

evm(c) == IF c \in DOMAIN EvmChains THEN EvmChains[c] ELSE None

from_evm_chain_id(id) ==
    LET of == {c \in DOMAIN EvmChains : EvmChains[c].chain_id = id}
    IN IF of = {} THEN None ELSE CHOOSE c \in of : TRUE

\* The chain whose pool prices this one's coin.
price_chain(c) == IF evm(c).prices_on = None THEN c ELSE from_evm_chain_id(evm(c).prices_on)

Others == [Tron |-> [symbol |-> "TRX", decimals |-> 6, token |-> 6],
           Solana |-> [symbol |-> "SOL", decimals |-> 9, token |-> 6],
           Bitcoin |-> [symbol |-> "BTC", decimals |-> 8, token |-> None],
           Ton |-> [symbol |-> "GRAM", decimals |-> 9, token |-> 6],
           Aptos |-> [symbol |-> "APT", decimals |-> 8, token |-> 6],
           Sui |-> [symbol |-> "SUI", decimals |-> 9, token |-> 6]]

COIN_TYPE_EVM == 60

\* Chain by chain, as the code has it: a chain forgotten here has no key.
CoinTypes == [Tron |-> 195, Bsc |-> COIN_TYPE_EVM, Solana |-> 501, Bitcoin |-> 0,
              Ethereum |-> COIN_TYPE_EVM, Polygon |-> COIN_TYPE_EVM, Base |-> COIN_TYPE_EVM,
              Arbitrum |-> COIN_TYPE_EVM, Optimism |-> COIN_TYPE_EVM, Avalanche |-> COIN_TYPE_EVM,
              HyperEvm |-> COIN_TYPE_EVM, Mantle |-> COIN_TYPE_EVM, Linea |-> COIN_TYPE_EVM,
              ZkSyncEra |-> COIN_TYPE_EVM, Scroll |-> COIN_TYPE_EVM,
              Ton |-> 607, Aptos |-> 637, Sui |-> 784]

coin_type(c)       == CoinTypes[c]
native_symbol(c)   == IF evm(c) = None THEN Others[c].symbol ELSE evm(c).native_symbol
native_decimals(c) == IF evm(c) = None THEN Others[c].decimals ELSE evm(c).native_decimals

---------------------------------------------------------------------------
Asset(c, token) == [chain |-> c, token |-> token]

native(c) == Asset(c, FALSE)

\* Bitcoin is the one chain without a token.
stable(c) == IF c = "Bitcoin" THEN None ELSE Asset(c, TRUE)

assets(c) == <<native(c)>> \o (IF stable(c) = None THEN <<>> ELSE <<stable(c)>>)

is_native(a) == a = native(a.chain)

\* What Asset calls each of them: sign_transfer goes by these.
NativeVariants ==
    [Tron |-> "Trx", Bsc |-> "Bnb", Solana |-> "Sol", Bitcoin |-> "Btc", Ethereum |-> "Eth",
     Polygon |-> "Pol", Base |-> "BaseEth", Arbitrum |-> "ArbitrumEth", Optimism |-> "OptimismEth",
     Avalanche |-> "AvalancheNative", HyperEvm |-> "HyperEvmNative", Mantle |-> "MantleNative",
     Linea |-> "LineaNative", ZkSyncEra |-> "ZkSyncEraNative", Scroll |-> "ScrollNative",
     Ton |-> "Gram", Aptos |-> "Apt", Sui |-> "Sui"]

StableVariants ==
    [Tron |-> "Trc20", Bsc |-> "Bep20", Solana |-> "SplToken", Ethereum |-> "Erc20",
     Polygon |-> "PolygonErc20", Base |-> "BaseErc20", Arbitrum |-> "ArbitrumErc20",
     Optimism |-> "OptimismErc20", Avalanche |-> "AvalancheErc20", HyperEvm |-> "HyperEvmErc20",
     Mantle |-> "MantleErc20", Linea |-> "LineaErc20", ZkSyncEra |-> "ZkSyncEraErc20",
     Scroll |-> "ScrollErc20", Ton |-> "Jetton", Aptos |-> "AptosFa", Sui |-> "SuiCoin"]

variant(a) == IF a.token THEN StableVariants[a.chain] ELSE NativeVariants[a.chain]

decimals(a) == IF ~a.token THEN native_decimals(a.chain)
               ELSE IF evm(a.chain) = None THEN Others[a.chain].token
               ELSE evm(a.chain).stable_decimals

\* The chain's label on the four that carry the other dollar, and on Sui.
symbol(a) == IF ~a.token THEN native_symbol(a.chain)
             ELSE IF a.chain \in {"Base", "Mantle", "Linea", "ZkSyncEra"} THEN evm(a.chain).stable_label
             ELSE IF a.chain = "Sui" THEN "USDC" ELSE "USDT"

\* TRON's, and no other chain's; a contract call needs one above zero.
FEE_LIMIT_TRC20 == 100000000

tron_fee_limit(a) == IF a.chain # "Tron" THEN None ELSE IF a.token THEN FEE_LIMIT_TRC20 ELSE 0

---------------------------------------------------------------------------
ChainAddress(c, bytes) == [chain |-> c, bytes |-> bytes]

Families == [Tron |-> "tron", Bsc |-> "evm", Solana |-> "solana", Bitcoin |-> "bitcoin",
             Ethereum |-> "evm", Polygon |-> "evm", Base |-> "evm", Arbitrum |-> "evm",
             Optimism |-> "evm", Avalanche |-> "evm", HyperEvm |-> "evm", Mantle |-> "evm",
             Linea |-> "evm", ZkSyncEra |-> "evm", Scroll |-> "evm",
             Ton |-> "ton", Aptos |-> "aptos", Sui |-> "sui"]

Family(c) == Families[c]

\* as_tron, as_evm and the others: the bytes, for a caller that wants this family.
as(family, address) == IF Family(address.chain) = family THEN address.bytes ELSE None
=============================================================================
