---------------------------- MODULE Transactions ----------------------------
(***************************************************************************)
(* The bytes of a transfer on six of the seven families, and the bytes a   *)
(* signature is made over: tx.rs of neko-evm, neko-tron, neko-solana,      *)
(* neko-aptos, neko-sui and neko-btc.  TON builds cells: see TonMessages.  *)
(*                                                                         *)
(* A hash is its preimage, so that two hashes are equal only where the     *)
(* bytes are; a name of a module or a contract type is bytes of its length.*)
(***************************************************************************)
EXTENDS Encodings

Accepted(raw, over) == [ok |-> TRUE, raw |-> raw, over |-> over]

---------------------------------------------------------------------------
(* EVM.  tx is [to, value, data] with the parameters of the quote          *)
(* [nonce, gas_limit, chain_id, eip1559, price, tip]; price is the legacy  *)
(* gas price or the ceiling.                                               *)

TYPE_EIP1559 == 2
SEL_TRANSFER == <<169, 5, 156, 187>>

word_address(a) == Fill(12, 0) \o a
word_u256(v)    == Fill(16, 0) \o to_be_bytes(v, 16)

abi_transfer(to, amount) == SEL_TRANSFER \o word_address(to) \o word_u256(amount)

Called(p, tx) == rlp_uint(p.gas_limit) \o rlp_bytes(tx.to) \o rlp_uint(tx.value) \o rlp_bytes(tx.data)

LegacyBody(p, tx) == rlp_uint(p.nonce) \o rlp_uint(p.price) \o Called(p, tx)

TypedBody(p, tx) ==
    rlp_uint(p.chain_id) \o rlp_uint(p.nonce) \o rlp_uint(p.tip) \o rlp_uint(p.price)
        \o Called(p, tx) \o rlp_list(<<>>)

\* Mutant: without the chain id, as before EIP-155.
signing_payload_AnyChain(p, tx) ==
    IF p.eip1559 THEN <<TYPE_EIP1559>> \o rlp_list(TypedBody(p, tx))
    ELSE rlp_list(LegacyBody(p, tx))

signing_payload(p, tx) ==
    IF p.eip1559 THEN <<TYPE_EIP1559>> \o rlp_list(TypedBody(p, tx))
    ELSE rlp_list(LegacyBody(p, tx) \o rlp_uint(p.chain_id) \o rlp_uint(0) \o rlp_uint(0))

encode_signed(p, tx, sig) ==
    IF p.eip1559
    THEN <<TYPE_EIP1559>> \o rlp_list(TypedBody(p, tx) \o rlp_uint(sig.parity)
                                        \o rlp_bytes(trim(sig.r)) \o rlp_bytes(trim(sig.s)))
    ELSE rlp_list(LegacyBody(p, tx) \o rlp_uint(sig.parity + 35 + 2 * p.chain_id)
                                    \o rlp_bytes(trim(sig.r)) \o rlp_bytes(trim(sig.s)))

SignEvm(p, tx, sig) == Accepted(encode_signed(p, tx, sig), signing_payload(p, tx))

---------------------------------------------------------------------------
(* TRON.  The parameters are [ref_block_num, ref_block_hash, timestamp,    *)
(* expiration, fee_limit].                                                 *)

Transfer             == [type |-> 1, url |-> Fill(45, 84)]
TriggerSmartContract == [type |-> 31, url |-> Fill(49, 83)]

ref_block_bytes(p) == SubSeq(to_be_bytes(p.ref_block_num, 8), 7, 8)
ref_hash(p)        == SubSeq(p.ref_block_hash, 9, 16)

wrap_contract(kind, body) ==
    uint64(1, kind.type) \o bytes(2, bytes(1, kind.url) \o bytes(2, body))

BadTimes(p) == p.timestamp <= 0 \/ p.expiration <= p.timestamp

build_raw(p, contract) ==
    bytes(1, ref_block_bytes(p)) \o bytes(4, ref_hash(p)) \o uint64(8, p.expiration)
        \o bytes(11, contract) \o uint64(14, p.timestamp)
        \o (IF p.fee_limit > 0 THEN uint64(18, p.fee_limit) ELSE <<>>)

build_trx_transfer(from, to, amount, p) ==
    build_raw(p, wrap_contract(Transfer, bytes(1, from) \o bytes(2, to) \o uint64(3, amount)))

\* The argument is the address without its 0x41.
encode_trc20_transfer(to, amount) ==
    SEL_TRANSFER \o Fill(12, 0) \o Tail(to) \o word_u256(amount)

build_trc20_transfer(from, contract, to, amount, p) ==
    build_raw(p, wrap_contract(TriggerSmartContract,
        bytes(1, from) \o bytes(2, contract) \o bytes(4, encode_trc20_transfer(to, amount))))

SignTron(raw, sig) ==
    Accepted(bytes(1, raw) \o bytes(2, sig.r \o sig.s \o <<sig.parity>>), raw)

---------------------------------------------------------------------------
(* Solana.                                                                 *)

MAX_TX_BYTES == 1232

system_program           == Fill(32, 0)
token_program            == Fill(32, 250)
associated_token_program == Fill(32, 251)
compute_budget_program   == Fill(32, 252)

\* The account of a mint an owner has: one for each pair, and nobody's key.
associated_token_address(owner, mint) == Fill(30, 253) \o <<Head(owner), Head(mint)>>

Meta(pubkey, signer, writable) == [pubkey |-> pubkey, signer |-> signer, writable |-> writable]

Instruction(program, accounts, data) ==
    [program_id |-> program, accounts |-> accounts, data |-> data]

transfer_sol(from, to, lamports) ==
    Instruction(system_program, <<Meta(from, TRUE, TRUE), Meta(to, FALSE, TRUE)>>,
                to_le_bytes(2, 4) \o to_le_bytes(lamports, 8))

transfer_token_checked(source, mint, destination, owner, amount, decimals) ==
    Instruction(token_program,
                <<Meta(source, FALSE, TRUE), Meta(mint, FALSE, FALSE),
                  Meta(destination, FALSE, TRUE), Meta(owner, TRUE, FALSE)>>,
                <<12>> \o to_le_bytes(amount, 8) \o <<decimals>>)

create_associated_token_account(funder, owner, mint) ==
    Instruction(associated_token_program,
                <<Meta(funder, TRUE, TRUE),
                  Meta(associated_token_address(owner, mint), FALSE, TRUE),
                  Meta(owner, FALSE, FALSE), Meta(mint, FALSE, FALSE),
                  Meta(system_program, FALSE, FALSE), Meta(token_program, FALSE, FALSE)>>,
                <<1>>)

set_compute_unit_limit(units) ==
    Instruction(compute_budget_program, <<>>, <<2>> \o to_le_bytes(units, 4))
set_compute_unit_price(price) ==
    Instruction(compute_budget_program, <<>>, <<3>> \o to_le_bytes(price, 8))

\* An account seen before takes on the flags it is seen with now.
See(keys, m) ==
    LET i == SelectInSeq(keys, LAMBDA k : k.pubkey = m.pubkey)
    IN IF i = 0 THEN Append(keys, m)
       ELSE [keys EXCEPT ![i].signer = @ \/ m.signer, ![i].writable = @ \/ m.writable]

Group(keys, signer, writable) ==
    SelectSeq(keys, LAMBDA k : k.signer = signer /\ k.writable = writable)

\* Mutant: in the order they were seen.
Ordered_AsSeen(keys) == keys

\* Signers before the others, in each the writable ones first.
Ordered(keys) == Group(keys, TRUE, TRUE) \o Group(keys, TRUE, FALSE)
                     \o Group(keys, FALSE, TRUE) \o Group(keys, FALSE, FALSE)

\* The accounts of the instructions, then the programs.
compile(payer, instructions, blockhash) ==
    LET metas    == FlattenSeq([i \in DOMAIN instructions |-> instructions[i].accounts])
        programs == [i \in DOMAIN instructions |-> Meta(instructions[i].program_id, FALSE, FALSE)]
        keys     == Ordered(FoldLeft(See, <<Meta(payer, TRUE, TRUE)>>, metas \o programs))
        Index(k) == SelectInSeq(keys, LAMBDA m : m.pubkey = k) - 1
    IN [signatures      |-> Len(SelectSeq(keys, LAMBDA k : k.signer)),
        readonly_signed |-> Len(Group(keys, TRUE, FALSE)),
        readonly_others |-> Len(Group(keys, FALSE, FALSE)),
        account_keys    |-> [i \in DOMAIN keys |-> keys[i].pubkey],
        blockhash       |-> blockhash,
        instructions    |-> [i \in DOMAIN instructions |->
            [program_id |-> Index(instructions[i].program_id),
             accounts   |-> [j \in DOMAIN instructions[i].accounts |->
                                 Index(instructions[i].accounts[j].pubkey)],
             data       |-> instructions[i].data]]]

serialize_message(m) ==
    <<m.signatures, m.readonly_signed, m.readonly_others>>
        \o shortvec(Len(m.account_keys)) \o FlattenSeq(m.account_keys) \o m.blockhash
        \o shortvec(Len(m.instructions))
        \o FlattenSeq([i \in DOMAIN m.instructions |->
               LET ix == m.instructions[i]
               IN <<ix.program_id>> \o shortvec(Len(ix.accounts)) \o ix.accounts
                      \o shortvec(Len(ix.data)) \o ix.data])

SignSolana(message, sig) ==
    LET msg == serialize_message(message) IN Accepted(shortvec(1) \o sig \o msg, msg)

---------------------------------------------------------------------------
(* Aptos.  The parameters are [sequence_number, max_gas_amount,            *)
(* gas_unit_price, expiration, chain_id].                                  *)

framework              == Fill(31, 0) \o <<1>>
aptos_account          == Fill(13, 97)
primary_fungible_store == Fill(22, 112)
fungible_asset         == Fill(14, 102)
Metadata               == Fill(8, 77)
transfer               == Fill(8, 116)
signing_prefix         == Fill(32, 254)

struct_tag == uleb(7) \o framework \o bcs_bytes(fungible_asset) \o bcs_bytes(Metadata) \o uleb(0)

EntryFunction(module, types, args) ==
    framework \o bcs_bytes(module) \o bcs_bytes(transfer)
        \o uleb(Len(types)) \o FlattenSeq(types)
        \o uleb(Len(args)) \o FlattenSeq([i \in DOMAIN args |-> bcs_bytes(args[i])])

transfer_apt(to, octas) ==
    EntryFunction(aptos_account, <<>>, <<to, to_le_bytes(octas, 8)>>)

transfer_fungible_asset(metadata, to, amount) ==
    EntryFunction(primary_fungible_store, <<struct_tag>>,
                  <<metadata, to, to_le_bytes(amount, 8)>>)

RawTransaction(sender, payload, p) ==
    sender \o to_le_bytes(p.sequence_number, 8) \o uleb(2) \o payload
        \o to_le_bytes(p.max_gas_amount, 8) \o to_le_bytes(p.gas_unit_price, 8)
        \o to_le_bytes(p.expiration, 8) \o <<p.chain_id>>

SignAptos(raw, pk, sig) ==
    Accepted(raw \o uleb(0) \o bcs_bytes(pk) \o bcs_bytes(sig), signing_prefix \o raw)

---------------------------------------------------------------------------
(* Sui.  A coin object is [id, version, digest]; the parameters are        *)
(* [gas, coins, price, budget].                                            *)

INTENT_TRANSACTION_DATA == <<0, 0, 0>>
SCHEME_ED25519 == 0

GasCoin         == uleb(0)
Input(i)        == uleb(1) \o to_le_bytes(i, 2)
NestedResult(c, i) == uleb(3) \o to_le_bytes(c, 2) \o to_le_bytes(i, 2)

ObjectRef(o)   == o.id \o to_le_bytes(o.version, 8) \o bcs_bytes(o.digest)
Pure(b)        == uleb(0) \o bcs_bytes(b)
OwnedObject(o) == uleb(1) \o uleb(0) \o ObjectRef(o)

TransferObjects(objects, address) == uleb(1) \o uleb(Len(objects)) \o FlattenSeq(objects) \o address
SplitCoins(coin, amounts)   == uleb(2) \o coin \o uleb(Len(amounts)) \o FlattenSeq(amounts)
MergeCoins(dest, sources)   == uleb(3) \o dest \o uleb(Len(sources)) \o FlattenSeq(sources)

TransactionData(sender, inputs, commands, p) ==
    uleb(0) \o uleb(0) \o uleb(Len(inputs)) \o FlattenSeq(inputs)
        \o uleb(Len(commands)) \o FlattenSeq(commands) \o sender
        \o uleb(Len(p.gas)) \o FlattenSeq([i \in DOMAIN p.gas |-> ObjectRef(p.gas[i])])
        \o sender \o to_le_bytes(p.price, 8) \o to_le_bytes(p.budget, 8) \o uleb(0)

pay_sui(sender, to, amount, p) ==
    TransactionData(sender, <<Pure(to_le_bytes(amount, 8)), Pure(to)>>,
        <<SplitCoins(GasCoin, <<Input(0)>>), TransferObjects(<<NestedResult(0, 0)>>, Input(1))>>, p)

\* Several coins are folded into the first before it is split.
pay_token(sender, to, amount, p) ==
    LET n        == Len(p.coins)
        merge    == IF n = 1 THEN <<>>
                    ELSE <<MergeCoins(Input(0), [i \in 1..(n - 1) |-> Input(i)])>>
        split_at == Len(merge)
    IN TransactionData(sender,
         [i \in 1..n |-> OwnedObject(p.coins[i])] \o <<Pure(to_le_bytes(amount, 8)), Pure(to)>>,
         merge \o <<SplitCoins(Input(0), <<Input(n)>>),
                    TransferObjects(<<NestedResult(split_at, 0)>>, Input(n + 1))>>, p)

\* The transaction and its signature travel joined.
SignSui(data, pk, sig) ==
    Accepted(data \o <<SCHEME_ED25519>> \o sig \o pk, INTENT_TRANSACTION_DATA \o data)

---------------------------------------------------------------------------
(* Bitcoin.  A transaction is its inputs [prev, value, script, witness],   *)
(* where prev is [txid, vout], and its outputs [value, script].            *)

VERSION        == to_le_bytes(2, 4)
SEQUENCE_FINAL == Fill(4, 255)
LOCKTIME       == Fill(4, 0)
SIGHASH_ALL    == 1

Prev(i)   == i.prev.txid \o to_le_bytes(i.prev.vout, 4)
Output(o) == to_le_bytes(o.value, 8) \o encode_bytes(o.script)

Each(Write(_), s) == FlattenSeq([i \in DOMAIN s |-> Write(s[i])])

Inputs(tx)  == compact_size(Len(tx.inputs))
                   \o Each(LAMBDA e : Prev(e) \o encode_bytes(<<>>) \o SEQUENCE_FINAL, tx.inputs)
Outputs(tx) == compact_size(Len(tx.outputs)) \o Each(Output, tx.outputs)
Witness(i)  == compact_size(Len(i.witness)) \o Each(encode_bytes, i.witness)

serialize_legacy(tx) == VERSION \o Inputs(tx) \o Outputs(tx) \o LOCKTIME

serialize(tx) ==
    IF \A i \in DOMAIN tx.inputs : tx.inputs[i].witness = <<>> THEN serialize_legacy(tx)
    ELSE VERSION \o <<0, 1>> \o Inputs(tx) \o Outputs(tx) \o Each(Witness, tx.inputs) \o LOCKTIME

vsize(tx) == (3 * Len(serialize_legacy(tx)) + Len(serialize(tx)) + 3) \div 4

P2wpkhScript(key_hash) == <<0, 20>> \o key_hash

\* BIP-143, the three inner hashes as the bytes that are hashed.
sighash_p2wpkh(tx, i, key_hash) ==
    [prevouts  |-> Each(Prev, tx.inputs),
     sequences |-> Each(LAMBDA e : SEQUENCE_FINAL, tx.inputs),
     outputs   |-> Each(Output, tx.outputs),
     rest      |-> VERSION \o Prev(tx.inputs[i])
                       \o <<25, 118, 169, 20>> \o key_hash \o <<136, 172>>
                       \o to_le_bytes(tx.inputs[i].value, 8) \o SEQUENCE_FINAL
                       \o LOCKTIME \o to_le_bytes(SIGHASH_ALL, 4)]

\* Every input, with one signature each: der is its length with the sighash byte.
sign_p2wpkh(tx, key_hash, pubkey, der) ==
    LET signed == [tx EXCEPT !.inputs = [i \in DOMAIN @ |->
                      [@[i] EXCEPT !.witness = <<Fill(der - 1, 203) \o <<SIGHASH_ALL>>, pubkey>>]]]
    IN Accepted(serialize(signed), [i \in DOMAIN tx.inputs |-> sighash_p2wpkh(tx, i, key_hash)])
=============================================================================
