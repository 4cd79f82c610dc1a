------------------------------ MODULE Signing ------------------------------
(***************************************************************************)
(* From an approved request and its quote's parameters to the bytes that   *)
(* are broadcast: Session::sign_transfer (neko-core/src/transfer.rs), over *)
(* the builders in Transactions and TonMessages.                           *)
(*                                                                         *)
(* The parameters are those of a fresh quote, of one that was made for     *)
(* another request of the same kind, or of one for another chain, which    *)
(* came late (SendFlow shows how).  What the bytes mean is not asked of    *)
(* the builders but of ChainReaders, which read them as the networks do.   *)
(***************************************************************************)
EXTENDS ChainReaders

INSTANCE Chains

CONSTANTS
    InPlay,        \* bound: the chains
    I64, U64,      \* the largest i64 and u64
    Amounts,       \* bound: amounts, in minimal units
    Numbers,       \* bound: nonces, sequence numbers, fees and versions
    Coins          \* bound: what the coins of a Bitcoin address may be worth

ASSUME BoundAssumption == /\ InPlay \subseteq ChainId /\ I64 \in Nat /\ U64 \in Nat /\ I64 < U64
                          /\ Amounts \subseteq Nat \ {0} /\ Numbers \subseteq Nat
                          /\ Coins \subseteq Nat \ {0}

VARIABLES
    req, params,
    quoted,        \* the chain the parameters were made for
    result

vars == <<req, params, quoted, result>>

B == INSTANCE BitcoinCoins

---------------------------------------------------------------------------
(* Keys.  A key is what it was derived from; two derivations, two keys.    *)

Seed     == "seed"          \* a wallet with a phrase
Imported == "imported"      \* a wallet with one private key, the same on every chain

Bip32(purpose, coin) == <<"bip32", purpose, coin>>
Slip10(coin)         == <<"slip10", 44, coin>>

\* The key a transfer is signed with, by the chains the code names.
private_key_for(w, c) ==
    IF w = Imported THEN <<"raw">>
    ELSE CASE c = "Solana"  -> Slip10(501)
           [] c = "Ton"     -> Slip10(607)
           [] c = "Aptos"   -> Slip10(637)
           [] c = "Sui"     -> Slip10(784)
           [] c = "Bitcoin" -> Bip32(84, 0)
           [] c \in {"Tron", "Bsc", "Ethereum", "Polygon", "Base", "Arbitrum", "Optimism", "Avalanche",
                     "HyperEvm", "Mantle", "Linea", "ZkSyncEra", "Scroll"} -> Bip32(44, coin_type(c))

\* The key the wallet's address on a chain was made from.
KeyOfAddress(w, c) ==
    IF w = Imported THEN <<"raw">>
    ELSE CASE c = "Tron"    -> Bip32(44, 195)
           [] c \in {"Bsc", "Ethereum", "Polygon", "Base", "Arbitrum", "Optimism", "Avalanche",
                     "HyperEvm", "Mantle", "Linea", "ZkSyncEra", "Scroll"} -> Bip32(44, COIN_TYPE_EVM)
           [] c = "Aptos"   -> Slip10(637)
           [] c = "Sui"     -> Slip10(784)
           [] c = "Solana"  -> Slip10(501)
           [] c = "Bitcoin" -> Bip32(84, 0)
           [] c = "Ton"     -> Slip10(607)

\* A byte that stands for a key, and is no other key's.
Mark(key) == IF key = <<"raw">> THEN 7
             ELSE 16 + (key[3] % 97) + IF key[1] = "slip10" THEN 110 ELSE 0

PublicKey(key) == Fill(32, Mark(key))

\* Addresses made of a public key, or of anything else that holds money.
AddressBy(c, mark) ==
    CASE Family(c) = "tron"    -> <<65>> \o Fill(20, mark)
      [] Family(c) = "evm"     -> Fill(20, mark)
      [] Family(c) = "bitcoin" -> P2wpkhScript(Fill(20, mark))
      [] Family(c) = "ton"     -> [workchain |-> 0, hash |-> Fill(32, mark), bounceable |-> FALSE]
      [] OTHER                 -> Fill(32, mark)

AddressOf(c, key) == AddressBy(c, Mark(key))

address_of(w, c) == ChainAddress(c, AddressOf(c, KeyOfAddress(w, c)))

---------------------------------------------------------------------------
(* Requests, and what their quotes answered.                               *)

Contract(c, n) == AddressBy(c, 240 + n)      \* a token's contract, mint, object or master

\* Where a transfer may go: to a stranger, to a contract, or back to the sender.
Payees(w, c) ==
    {AddressBy(c, 200), address_of(w, c).bytes}
        \cup (IF c = "Bitcoin" THEN {<<118, 169, 20>> \o Fill(20, 200) \o <<136, 172>>} ELSE {})
        \cup (IF c = "Ton" THEN {[AddressBy(c, 200) EXCEPT !.workchain = -1, !.bounceable = TRUE]}
              ELSE {})

\* TransferRequest::parse: both addresses are the asset's chain's, the amount positive.
Requested(c, w, to, a, amount) ==
    [wallet |-> w, from |-> address_of(w, c), to |-> ChainAddress(c, to), asset |-> a,
     contract |-> IF a.token THEN Contract(c, 1) ELSE Native, amount |-> amount]

JettonWallet(owner, master) == [workchain |-> 0, bounceable |-> TRUE,
                                hash |-> Fill(30, 239) \o <<Head(owner.hash), Head(master.hash)>>]

Object(n) == [id |-> Fill(32, n), version |-> 256 * n, digest |-> Fill(32, 100 + n)]

Shape(script) == [len |-> Len(script), witness |-> script[1] = 0]

\* A quote for Bitcoin chose its coins for an amount, which was the request's.
BtcParams(r, amount, rate, values) ==
    LET coins  == [i \in DOMAIN values |->
                      [value |-> values[i], confirmed |-> TRUE, script |-> r.from.bytes,
                       prev |-> [txid |-> Fill(32, i), vout |-> i - 1]]]
        chosen == B!select([to |-> Shape(r.to.bytes), change_to |-> B!P2WPKH,
                            amount |-> amount, rate |-> rate], coins)
    IN IF ~chosen.ok THEN {}
       ELSE {[inputs |-> chosen.inputs, change |-> chosen.change, change_to |-> r.from.bytes,
              fee |-> chosen.fee, rate |-> rate, der |-> der] : der \in {71, 72}}

Rates == {B!from_milli(1000 * n) : n \in {1, 7}}

\* Parameters a quote may have answered; fresh for this very request, or not.
ParamsFor(r) ==
    CASE Family(r.asset.chain) = "tron" ->
           {[ref_block_num |-> n, ref_block_hash |-> Fill(16, 5), timestamp |-> 1000 + n,
             expiration |-> 70000, fee_limit |-> tron_fee_limit(r.asset)] : n \in Numbers}
      [] Family(r.asset.chain) = "evm" ->
           {[nonce |-> n, gas_limit |-> 21000 + n, chain_id |-> evm(r.asset.chain).chain_id,
             eip1559 |-> evm(r.asset.chain).eip1559, price |-> 1 + n, tip |-> tip] :
               n \in Numbers, tip \in {0, 128}}
      [] Family(r.asset.chain) = "solana" ->
           {[recent_blockhash |-> Fill(32, 9), compute_unit_limit |-> limit,
             compute_unit_price |-> price, create_recipient_account |-> opens] :
               limit \in {0, 70000}, price \in {0, 255},
               opens \in IF r.asset.token /\ r.to # r.from THEN BOOLEAN ELSE {FALSE}}
      [] Family(r.asset.chain) = "aptos" ->
           {[sequence_number |-> n, max_gas_amount |-> 2000, gas_unit_price |-> 100 + n,
             expiration |-> 70000, chain_id |-> 1] : n \in Numbers}
      [] Family(r.asset.chain) = "sui" ->
           {[gas |-> gas, coins |-> coins, price |-> 750 + n, budget |-> 5000] :
               n \in Numbers, gas \in {<<Object(1)>>, <<Object(1), Object(2)>>},
               coins \in IF r.asset.token THEN {<<Object(3)>>, <<Object(3), Object(4), Object(5)>>}
                         ELSE {<<>>}}
      [] Family(r.asset.chain) = "ton" ->
           {[seqno |-> n, valid_until |-> 1800000000, deploy |-> n = 0, jetton_wallet |-> jw] :
               n \in Numbers,
               jw \in IF r.asset.token
                      THEN {[master |-> m, wallet |-> JettonWallet(r.from.bytes, m)] :
                              m \in {Contract("Ton", 1), Contract("Ton", 2)}} \cup {None}
                      ELSE {None}}
      [] Family(r.asset.chain) = "bitcoin" ->
           UNION {BtcParams(r, amount, rate, values) :
                     amount \in {r.amount, 2 * r.amount, r.amount \div 2}, rate \in Rates,
                     values \in {<<v>> : v \in Coins} \cup {<<v, v>> : v \in Coins}}

\* A quote for another chain that is still in hand: on_quoted does not ask which
\* transfer screen it has reached.  One for each chain that can be quoted at all.
Strays(w, c, amount) ==
    {p \in {[chain |-> d, of |-> ParamsFor(Requested(d, w, address_of(w, d).bytes, native(d), amount))] :
              d \in InPlay \ {c}} : p.of # {}}

\* A signature: anything of its length, with zeros in front or not.
Signatures(c) == IF Family(c) \in {"evm", "tron"}
                 THEN [r : {Fill(32, 200), <<0>> \o Fill(31, 200)},
                       s : {Fill(32, 100), <<0, 0>> \o Fill(30, 100)}, parity : {0, 1}]
                 ELSE {Fill(64, 201)}

---------------------------------------------------------------------------
(* sign_transfer.                                                          *)

Refused(why) == [ok |-> FALSE, why |-> why]

Key == private_key_for(req.wallet, req.asset.chain)

From == req.from.bytes
To   == req.to.bytes

EvmCoins  == {"Bnb", "Eth", "Pol", "BaseEth", "ArbitrumEth", "OptimismEth", "AvalancheNative",
              "HyperEvmNative", "MantleNative", "LineaNative", "ZkSyncEraNative", "ScrollNative"}
EvmTokens == {"Bep20", "Erc20", "PolygonErc20", "BaseErc20", "ArbitrumErc20", "OptimismErc20",
              "AvalancheErc20", "HyperEvmErc20", "MantleErc20", "LineaErc20", "ZkSyncEraErc20",
              "ScrollErc20"}

\* Mutant: Optimism's two assets are in no arm, as they once were not.
Arms_NoOptimism(family) ==
    CASE family = "evm"     -> (EvmCoins \cup EvmTokens) \ {"OptimismEth", "OptimismErc20"}
      [] family = "tron"    -> {"Trx", "Trc20"}
      [] family = "aptos"   -> {"Apt", "AptosFa"}
      [] family = "sui"     -> {"Sui", "SuiCoin"}
      [] family = "solana"  -> {"Sol", "SplToken"}
      [] family = "ton"     -> {"Gram", "Jetton"}
      [] family = "bitcoin" -> {"Btc"}

\* The assets that the arms of sign_transfer sign with parameters of a family.
Arms(family) ==
    CASE family = "tron"    -> {"Trx", "Trc20"}
      [] family = "evm"     -> EvmCoins \cup EvmTokens
      [] family = "aptos"   -> {"Apt", "AptosFa"}
      [] family = "sui"     -> {"Sui", "SuiCoin"}
      [] family = "solana"  -> {"Sol", "SplToken"}
      [] family = "ton"     -> {"Gram", "Jetton"}
      [] family = "bitcoin" -> {"Btc"}

\* The arm that matches the asset and the parameters.
Ready(family) == /\ result = None
                 /\ variant(req.asset) \in Arms(family)
                 /\ Family(quoted) = family

Done(outcome) == result' = outcome /\ UNCHANGED <<req, params, quoted>>

\* The last arm: no other matches the asset together with the parameters.
sign_wrong_chain ==
    /\ result = None
    /\ variant(req.asset) \notin Arms(Family(quoted))
    /\ Done(Refused("WrongChain"))

\* One build for the coin and one for the token; both recover the signer.
sign_tron ==
    /\ Ready("tron")
    /\ \E sig \in Signatures("Tron") :
         Done(IF ~req.asset.token /\ req.amount > I64 THEN Refused("AmountTooLarge")
              ELSE IF BadTimes(params) THEN Refused("BadTimes")
              ELSE IF req.asset.token /\ params.fee_limit <= 0 THEN Refused("MissingFeeLimit")
              ELSE IF AddressOf("Tron", Key) # From THEN Refused("SelfCheck")
              ELSE SignTron(IF req.asset.token
                            THEN build_trc20_transfer(From, req.contract, To, req.amount, params)
                            ELSE build_trx_transfer(From, To, req.amount, params), sig))

\* TransferRequest::calldata: what a token transfer calls its contract with.
calldata == IF req.asset.token THEN abi_transfer(To, req.amount) ELSE <<>>

\* The amount of a token is in the call, and the transaction moves no coin.
sign_evm ==
    /\ Ready("evm")
    /\ \E sig \in Signatures(req.asset.chain) :
         Done(SignEvm(params, [to    |-> IF req.asset.token THEN req.contract ELSE To,
                               value |-> IF req.asset.token THEN 0 ELSE req.amount,
                               data  |-> calldata], sig))

\* Left out where they would say nothing.
compute_budget ==
    (IF params.compute_unit_limit > 0 THEN <<set_compute_unit_limit(params.compute_unit_limit)>> ELSE <<>>)
        \o (IF params.compute_unit_price > 0 THEN <<set_compute_unit_price(params.compute_unit_price)>> ELSE <<>>)

\* A token goes to the account derived from the recipient and the mint.
Instructions ==
    LET mint == req.contract
    IN compute_budget \o
       IF ~req.asset.token THEN <<transfer_sol(From, To, req.amount)>>
       ELSE (IF params.create_recipient_account
             THEN <<create_associated_token_account(From, To, mint)>> ELSE <<>>)
            \o <<transfer_token_checked(associated_token_address(From, mint), mint,
                    associated_token_address(To, mint), From, req.amount, decimals(req.asset))>>

sign_solana ==
    /\ Ready("solana")
    /\ \E sig \in Signatures("Solana") :
         LET signed == SignSolana(compile(From, Instructions, params.recent_blockhash), sig)
         IN Done(IF req.amount > U64 THEN Refused("AmountTooLarge")
                 ELSE IF AddressOf("Solana", Key) # From THEN Refused("BadReply")
                 ELSE IF Len(signed.raw) > MAX_TX_BYTES THEN Refused("MessageTooLong")
                 ELSE signed)

sign_aptos ==
    /\ Ready("aptos")
    /\ \E sig \in Signatures("Aptos") :
         Done(IF req.amount > U64 THEN Refused("AmountTooLarge")
              ELSE IF AddressOf("Aptos", Key) # From THEN Refused("BadReply")
              ELSE SignAptos(RawTransaction(From,
                      IF req.asset.token THEN transfer_fungible_asset(req.contract, To, req.amount)
                      ELSE transfer_apt(To, req.amount), params), PublicKey(Key), sig))

sign_sui ==
    /\ Ready("sui")
    /\ \E sig \in Signatures("Sui") :
         Done(IF req.amount > U64 THEN Refused("AmountTooLarge")
              ELSE IF req.asset.token /\ params.coins = <<>> THEN Refused("NoCoins")
              ELSE IF AddressOf("Sui", Key) # From THEN Refused("BadReply")
              ELSE SignSui(IF req.asset.token THEN pay_token(From, To, req.amount, params)
                           ELSE pay_sui(From, To, req.amount, params), PublicKey(Key), sig))

\* A stand-in for the wallet contract's code: it ends within a byte, and holds a cell.
code == Cell(Fill(13, 1), <<Cell(Fill(8, 1), <<>>)>>)

StateInit(key) == state_init_of(code, initial_data(PublicKey(key)))

\* Wraps the message in a signed one; the code travels while it is not deployed.
SignTon(inner, sig) ==
    LET body == signing_body(params.valid_until, params.seqno, MODE_ORDINARY, inner)
        ext  == external_message(From, IF params.deploy THEN StateInit(Key) ELSE None,
                                 signed_body(body, sig))
    IN IF AddressOf("Ton", Key) # From THEN Refused("WrongSigningKey")
       ELSE IF ~Fits(inner) \/ ~Fits(signed_body(body, sig)) \/ ~Fits(ext) THEN Refused("CellOverflow")
       ELSE Accepted(boc_serialize(ext), body)

\* How the destination was written says whether a failure brings the coins back.
sign_gram ==
    /\ Ready("ton") /\ ~req.asset.token
    /\ \E sig \in Signatures("Ton") :
         Done(SignTon(internal_message(To, req.amount, To.bounceable, None), sig))

\* The body goes to the sender's own wallet of this very token.
sign_jetton ==
    /\ Ready("ton") /\ req.asset.token
    /\ \E sig \in Signatures("Ton") :
         Done(IF params.jetton_wallet = None THEN Refused("NoJettonWallet")
              ELSE IF params.jetton_wallet.master # req.contract THEN Refused("WrongToken")
              ELSE SignTon(internal_message(params.jetton_wallet.wallet, JETTON_TRANSFER_ATTACHED,
                      TRUE, transfer_body(req.amount, To, From, JETTON_FORWARD_AMOUNT)), sig))

\* The fee nothing declares is checked against what was quoted.
sign_btc ==
    /\ Ready("bitcoin")
    /\ LET outputs == <<[value |-> req.amount, script |-> To]>> \o
              IF params.change = None THEN <<>>
              ELSE <<[value |-> params.change, script |-> params.change_to]>>
           paid == FoldSeq(LAMBDA i, v : i.value + v, 0, params.inputs)
                     - FoldSeq(LAMBDA o, v : o.value + v, 0, outputs)
           tx == [outputs |-> outputs,
                  inputs  |-> [i \in DOMAIN params.inputs |->
                      [prev |-> params.inputs[i].prev, value |-> params.inputs[i].value,
                       script |-> params.inputs[i].script, witness |-> <<>>]]]
           mine == AddressOf("Bitcoin", Key)
       IN Done(IF req.amount > U64 THEN Refused("AmountTooLarge")
               ELSE IF paid < 0 THEN Refused("WrongChain")
               ELSE IF paid # params.fee THEN Refused("FeeMismatch")
               ELSE IF \E i \in DOMAIN tx.inputs : tx.inputs[i].script # mine
                 THEN Refused("UnsignableInput")
               ELSE sign_p2wpkh(tx, Fill(20, Mark(Key)), <<2>> \o PublicKey(Key), params.der))

Init == /\ \E c \in InPlay, w \in {Seed, Imported}, amount \in Amounts :
              \E to \in Payees(w, c), a \in ToSet(assets(c)) : req = Requested(c, w, to, a, amount)
        /\ \/ params \in ParamsFor(req) /\ quoted = req.asset.chain
           \/ \E stray \in Strays(req.wallet, req.asset.chain, req.amount) :
                 params = (CHOOSE p \in stray.of : TRUE) /\ quoted = stray.chain
        /\ result = None

Next == sign_tron \/ sign_evm \/ sign_solana \/ sign_aptos \/ sign_sui \/ sign_gram
            \/ sign_jetton \/ sign_btc \/ sign_wrong_chain

Spec == Init /\ [][Next]_vars

---------------------------------------------------------------------------
(* Properties.                                                             *)

Chain  == req.asset.chain
Signed == result # None /\ result.ok

\* What the network makes of the bytes; the signer is whoever holds the key.
Signer == AddressOf(Chain, Key)

Reading ==
    CASE Family(Chain) = "tron"    -> TronReads(result.raw, result.over)
      [] Family(Chain) = "evm"     -> EvmReads(Signer, evm(Chain).chain_id, result.raw, result.over)
      [] Family(Chain) = "solana"  ->
           SolanaReads(result.raw, result.over,
                       {associated_token_address(From, req.contract)} \cup
                           IF params.create_recipient_account THEN {}
                           ELSE {associated_token_address(To, req.contract)})
      [] Family(Chain) = "aptos"   -> AptosReads(1, result.raw, result.over)
      [] Family(Chain) = "sui"     -> SuiReads(result.raw, result.over)
      [] Family(Chain) = "ton"     -> TonReads(result.raw, result.over, ~params.deploy)
      [] Family(Chain) = "bitcoin" -> BitcoinReads(result.raw, result.over, params.inputs)

\* The move that was asked for.
Asked(covered) ==
    CASE Family(Chain) = "bitcoin" ->
           [inputs  |-> [i \in DOMAIN params.inputs |->
                            <<params.inputs[i].prev.txid, params.inputs[i].prev.vout>>],
            outputs |-> <<[value |-> req.amount, script |-> To]>> \o
                IF params.change = None THEN <<>> ELSE <<[value |-> params.change, script |-> From]>>,
            covered |-> covered]
      [] Family(Chain) = "ton" ->
           LET own == JettonWallet(From, Contract("Ton", 1))
           IN [payer |-> From.hash, seqno |-> store_uint(params.seqno, 32), covered |-> covered,
               to     |-> IF req.asset.token THEN own.hash ELSE To.hash,
               amount |-> IF req.asset.token THEN JETTON_TRANSFER_ATTACHED ELSE req.amount,
               bounce |-> req.asset.token \/ To.bounceable,
               init   |-> IF params.deploy THEN StateInit(KeyOfAddress(req.wallet, Chain)) ELSE None,
               body   |-> IF req.asset.token
                          THEN [to |-> To.hash, amount |-> req.amount, back |-> From.hash] ELSE None]
      [] OTHER ->
           Move(From,
                IF Chain # "Sui" THEN req.contract
                ELSE IF ~req.asset.token THEN Native
                ELSE {params.coins[i].id : i \in DOMAIN params.coins},
                IF Chain = "Solana" /\ req.asset.token
                THEN associated_token_address(To, req.contract) ELSE To,
                req.amount, covered)

\* The token call inside a TON message is read as the token's contract reads it.
WithCall(reading) == IF Family(Chain) = "ton" /\ reading # None
                     THEN [reading EXCEPT !.body = IF @ = None THEN None ELSE JettonReads(@)]
                     ELSE reading

Understood == WithCall(Reading)

\* Whatever quote is in hand, what the network executes is the asset, the amount
\* and the recipient of the request, paid by the account it names, and nothing else:
\* the builders and encoders of neko-tron, neko-evm, neko-solana, neko-aptos,
\* neko-sui, neko-ton and neko-btc against the formats of their networks.  With a
\* quote for another chain, which one EVM chain takes from another, the transfer's
\* own network makes nothing of the bytes.
PaysWhatWasAsked ==
    Signed => IF quoted = Chain THEN \E covered \in BOOLEAN : Understood = Asked(covered)
              ELSE Understood = None

\* The signature is made over the transaction the network reads, every field that
\* says where, what and on which chain: it is good for no other.  transfer.rs signs
\* one form of it and sends another on most of the chains.
SignatureCoversIt == Signed => \A move \in {Understood} : move # None => move.covered

\* What the quote was made for, with the wallet's own address, is signed, by the key
\* of that address: each of the assets of every chain has an arm in sign_transfer and
\* each chain its key, as nobody would find out before the password was typed.
\* Optimism's two assets once had no arm (transfer.rs:519).
FreshIsSigned ==
    LET limit == CASE Family(Chain) = "tron" /\ ~req.asset.token -> I64
                   [] Family(Chain) \in {"solana", "aptos", "sui", "bitcoin"} -> U64
                   [] OTHER -> req.amount
        fresh == CASE Family(Chain) = "bitcoin" ->
                        LET sum == FoldSeq(LAMBDA i, v : i.value + v, 0, params.inputs)
                        IN sum = req.amount + params.fee + IF params.change = None THEN 0 ELSE params.change
                   [] Family(Chain) = "ton" /\ req.asset.token ->
                        params.jetton_wallet # None /\ params.jetton_wallet.master = req.contract
                   [] OTHER -> TRUE
    IN result # None /\ quoted = Chain /\ fresh /\ req.amount <= limit =>
           /\ result.ok
           /\ AddressOf(Chain, Key) = From

\* A Bitcoin transaction pays at least the quoted rate for its real size, signatures
\* and all, or no node would relay it: the sizes coins.rs reckons with are not below
\* the ones tx.rs serializes.
PaysItsRate ==
    Signed /\ Chain = "Bitcoin" =>
        LET tx == [outputs |-> Asked(TRUE).outputs,
                   inputs  |-> [i \in DOMAIN params.inputs |->
                      [prev |-> params.inputs[i].prev, value |-> 0, script |-> <<>>,
                       witness |-> <<Fill(params.der, 1), Fill(33, 1)>>]]]
        IN params.fee * 1000 >= vsize(tx) * params.rate
=============================================================================
