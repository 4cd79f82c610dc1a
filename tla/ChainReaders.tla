---------------------------- MODULE ChainReaders ----------------------------
(***************************************************************************)
(* How the networks read what is broadcast to them.  None of this is code  *)
(* of the wallet: each reader follows the rules of its chain, takes bytes  *)
(* apart from the front and believes nothing it was not told by a byte it  *)
(* has read.  What a reader makes of a transaction is one move             *)
(*     [payer, asset, to, amount, covered]                                 *)
(* where `covered` says that what was signed is this very transaction, or  *)
(* None for bytes that are no such transaction.                            *)
(***************************************************************************)
EXTENDS Transactions, TonMessages

Native == <<>>

\* Numbers are read as far as the models count.
ReadBE(b) == FoldLeft(LAMBDA v, x : IF v > 4194303 THEN v ELSE 256 * v + x, 0, b)
ReadLE(b) == ReadBE(Reverse(b))

Move(payer, asset, to, amount, covered) ==
    [payer |-> payer, asset |-> asset, to |-> to, amount |-> amount, covered |-> covered]

---------------------------------------------------------------------------
(* A cursor: [vals, at, ok].  A layout is a sequence of field widths, or   *)
(* of the ways a field says its own.                                       *)

Count == 0        \* a number, seven bits to a byte
Text  == -1       \* bytes behind such a number
CompactCount == -2
CompactText  == -3

\* The number whose last byte is at `stop`: the first below 128, and not a needless zero.
LebUpTo(b, at, stop) ==
    IF stop = 0 \/ stop > at + 3 \/ (stop > at /\ b[stop] = 0) THEN [ok |-> FALSE]
    ELSE [ok |-> TRUE, next |-> stop + 1,
          val |-> FoldRight(LAMBDA x, v : 128 * v + (x % 128), SubSeq(b, at, stop), 0)]

LebAt(b, at) == LebUpTo(b, at, SelectInSubSeq(b, at, Len(b), LAMBDA x : x < 128))

\* One byte, or two or four behind a mark, and never more than the number needs.
CompactWide(b, at, wide) ==
    IF at + wide > Len(b)
         \/ ReadLE(SubSeq(b, at + 1, at + wide)) < (IF wide = 2 THEN 253 ELSE 65536)
    THEN [ok |-> FALSE]
    ELSE [ok |-> TRUE, next |-> at + 1 + wide, val |-> ReadLE(SubSeq(b, at + 1, at + wide))]

CompactAt(b, at) ==
    IF b[at] < 253 THEN [ok |-> TRUE, next |-> at + 1, val |-> b[at]]
    ELSE IF b[at] < 255 THEN CompactWide(b, at, 2 * (b[at] - 252)) ELSE [ok |-> FALSE]

Number(b, at, how) == IF at > Len(b) THEN [ok |-> FALSE]
                      ELSE IF how \in {Count, Text} THEN LebAt(b, at) ELSE CompactAt(b, at)

Stuck(c) == [c EXCEPT !.ok = FALSE]

Take(b, c, n) == IF c.at + n - 1 > Len(b) THEN Stuck(c)
                 ELSE [c EXCEPT !.vals = Append(@, SubSeq(b, c.at, c.at + n - 1)), !.at = @ + n]

\* The number n read at the cursor is the value, or the length of it.
Counted(b, c, how, n) ==
    IF ~n.ok THEN Stuck(c)
    ELSE IF how \in {Count, CompactCount} THEN [c EXCEPT !.vals = Append(@, n.val), !.at = n.next]
    ELSE Take(b, [c EXCEPT !.at = n.next], n.val)

Step(b, c, how) == IF ~c.ok THEN c
                   ELSE IF how > 0 THEN Take(b, c, how)
                   ELSE Counted(b, c, how, Number(b, c.at, how))

Start == [vals |-> <<>>, at |-> 1, ok |-> TRUE]

Scan(b, c, layout) == FoldLeft(LAMBDA acc, how : Step(b, acc, how), c, layout)

Fresh(c) == [c EXCEPT !.vals = <<>>]

\* What was read after c, as one value behind the ones of c.
Nested(c, one) == [one EXCEPT !.vals = Append(c.vals, one.vals)]

\* As many values as the cursor n has just read, each read by Read.
Repeat(b, c, n, Read(_, _)) ==
    IF ~n.ok THEN n
    ELSE Nested(c, FoldLeft(LAMBDA acc, k : IF acc.ok THEN Read(b, acc) ELSE acc,
                            Fresh(n), [k \in 1..Last(n.vals) |-> k]))

\* A list behind its count is one value.
ScanMany(b, c, how, Read(_, _)) == Repeat(b, c, Scan(b, Fresh(c), <<how>>), Read)

ScanList(b, c, how, layout) ==
    ScanMany(b, c, how, LAMBDA bb, acc : Nested(acc, Scan(bb, Fresh(acc), layout)))

AtEnd(b, c) == c.ok /\ c.at = Len(b) + 1

---------------------------------------------------------------------------
(* EVM: a list of items, each in its one shortest form.                    *)

RlpBytes(b, i, ll, n) ==
    IF i + ll + n > Len(b) \/ (ll > 0 /\ n <= 55) \/ (b[i] = 129 /\ b[i + 1] < 128)
    THEN [ok |-> FALSE, next |-> Len(b) + 1, data |-> <<>>, list |-> FALSE]
    ELSE [ok |-> TRUE, next |-> i + ll + n + 1, list |-> b[i] >= 192,
          data |-> IF b[i] < 128 THEN <<b[i]>> ELSE SubSeq(b, i + ll + 1, i + ll + n)]

\* Above base are the lengths up to 55, then the lengths of lengths.
RlpSized(b, i, base) ==
    IF b[i] - base <= 55 THEN RlpBytes(b, i, 0, b[i] - base)
    ELSE RlpBytes(b, i, b[i] - base - 55, ReadBE(SubSeq(b, i + 1, i + b[i] - base - 55)))

RlpItem(b, i) == IF b[i] < 128 THEN RlpBytes(b, i, 0, 0)
                 ELSE RlpSized(b, i, IF b[i] >= 192 THEN 192 ELSE 128)

RlpItems(b) ==
    LET Items[i \in 1..(Len(b) + 1)] ==
            IF i > Len(b) THEN <<>>
            ELSE <<RlpItem(b, i)>> \o Items[RlpItem(b, i).next]
    IN Items[1]

\* The fields of a transaction, or none of them.
EvmList(outer, size, items) ==
    IF outer.ok /\ outer.list /\ outer.next = size + 1 /\ \A i \in DOMAIN items : items[i].ok
    THEN [i \in DOMAIN items |-> items[i].data] ELSE <<>>

EvmOuter(outer, size) == EvmList(outer, size, RlpItems(outer.data))

EvmFields(b) == IF b[1] = TYPE_EIP1559 THEN EvmOuter(RlpItem(b, 2), Len(b))
                ELSE EvmOuter(RlpItem(b, 1), Len(b))

IsWord(w, width) == Len(w) = 32 /\ \A i \in 1..(32 - width) : w[i] = 0

\* A token call: the selector and two words, the first an address without its mark.
TokenCall(payer, mark, asset, data, covered) ==
    IF Len(data) = 68 /\ SubSeq(data, 1, 4) = SEL_TRANSFER
         /\ IsWord(SubSeq(data, 5, 36), 20) /\ IsWord(SubSeq(data, 37, 68), 16)
    THEN Move(payer, asset, mark \o SubSeq(data, 17, 36), ReadBE(SubSeq(data, 37, 68)), covered)
    ELSE None

\* Fields f with three of a signature behind, and the fields o that were signed.
\* From `call` on there are the destination, the value and the data.
EvmCall(payer, f, call, covered) ==
    IF \E i \in {Len(f) - 1, Len(f)} : f[i] # <<>> /\ f[i][1] = 0 THEN None
    ELSE IF f[call + 2] = <<>> THEN Move(payer, Native, f[call], ReadBE(f[call + 1]), covered)
    ELSE IF f[call + 1] = <<>> THEN TokenCall(payer, <<>>, f[call], f[call + 2], covered)
    ELSE None

EvmTyped(payer, chain, f, over) ==
    IF Len(f) # 12 \/ ReadBE(f[1]) # chain \/ f[9] # <<>> THEN None
    ELSE EvmCall(payer, f, 6, over[1] = TYPE_EIP1559 /\ EvmFields(over) = SubSeq(f, 1, 9))

EvmLegacy(payer, chain, f, over) ==
    IF Len(f) # 9 \/ ReadBE(f[7]) \notin {35 + 2 * chain, 36 + 2 * chain} THEN None
    ELSE EvmCall(payer, f, 4, EvmFields(over) = SubSeq(f, 1, 6) \o <<be_bytes(chain), <<>>, <<>>>>)

EvmReads(payer, chain, raw, over) ==
    IF raw[1] = TYPE_EIP1559 THEN EvmTyped(payer, chain, EvmFields(raw), over)
    ELSE EvmLegacy(payer, chain, EvmFields(raw), over)

---------------------------------------------------------------------------
(* TRON: protobuf fields, by number.                                       *)

PbValue(b, t) == IF ~t.ok THEN [ok |-> FALSE]
                 ELSE Scan(b, [Start EXCEPT !.at = t.next], <<IF t.val % 8 = 0 THEN Count ELSE Text>>)

\* The value of the first field f; bytes that are no fields have none.
RECURSIVE FieldAt(_, _, _, _)
FieldAt(b, t, f, default) ==
    LET Found(v) == IF ~v.ok THEN default
                    ELSE IF t.val \div 8 = f THEN v.vals[1]
                    ELSE IF v.at > Len(b) THEN default
                    ELSE FieldAt(b, LebAt(b, v.at), f, default)
    IN Found(PbValue(b, t))

Field(b, f, default) == IF b = <<>> THEN default ELSE FieldAt(b, LebAt(b, 1), f, default)

TronCall(type, any, value, pays, covered) ==
    IF type = 1 /\ Field(any, 1, <<>>) = Transfer.url
      THEN Move(Field(value, 1, <<>>), Native, Field(value, 2, <<>>), Field(value, 3, 0), covered)
    ELSE IF type = 31 /\ Field(any, 1, <<>>) = TriggerSmartContract.url /\ pays
      THEN TokenCall(Field(value, 1, <<>>), <<65>>, Field(value, 2, <<>>), Field(value, 4, <<>>), covered)
    ELSE None

TronContract(data, contract, covered) ==
    TronCall(Field(contract, 1, 0), Field(contract, 2, <<>>), Field(Field(contract, 2, <<>>), 2, <<>>),
             Field(data, 18, 0) > 0, covered)

\* In time, and anchored to a block.
TronData(data, covered) ==
    IF /\ 0 < Field(data, 14, 0) /\ Field(data, 14, 0) < Field(data, 8, 0)
       /\ Len(Field(data, 1, <<>>)) = 2 /\ Len(Field(data, 4, <<>>)) = 8
    THEN TronContract(data, Field(data, 11, <<>>), covered) ELSE None

TronReads(raw, over) ==
    TronData(Field(raw, 1, <<>>), over = Field(raw, 1, <<>>) /\ Len(Field(raw, 2, <<>>)) = 65)

---------------------------------------------------------------------------
(* Solana: accounts by their position; `held` are the token accounts there *)
(* are before the transaction.                                             *)

KeyAt(m, i)      == m.keys[i + 1][1]
IsSigner(m, i)  == i < m.signers
Writable(m, i)  == i < m.signers - m.readonly_signed
                     \/ i \in m.signers..(Len(m.keys) - m.readonly_unsigned - 1)
ProgramOf(m, ix) == KeyAt(m, ix[1][1])
Account(m, ix, i) == KeyAt(m, ix[2][i])

\* The account of a token is opened for its owner.
Opens(m, ix) ==
    /\ ProgramOf(m, ix) = associated_token_program /\ ix[3] = <<1>>
    /\ IsSigner(m, ix[2][1]) /\ Writable(m, ix[2][1]) /\ Writable(m, ix[2][2])
    /\ Account(m, ix, 2) = associated_token_address(Account(m, ix, 3), Account(m, ix, 4))

PaysLamports(m, ix) ==
    /\ ProgramOf(m, ix) = system_program /\ SubSeq(ix[3], 1, 4) = <<2, 0, 0, 0>>
    /\ Len(ix[3]) = 12 /\ IsSigner(m, ix[2][1])
    /\ Writable(m, ix[2][1]) /\ Writable(m, ix[2][2])

\* Between two accounts of the mint, the second there or just opened.
PaysTokens(m, ix, held) ==
    /\ ProgramOf(m, ix) = token_program /\ ix[3][1] = 12 /\ Len(ix[3]) = 10
    /\ Writable(m, ix[2][1]) /\ Writable(m, ix[2][3]) /\ IsSigner(m, ix[2][4])
    /\ Account(m, ix, 1) = associated_token_address(Account(m, ix, 4), Account(m, ix, 2))
    /\ Account(m, ix, 3) \in held

\* One instruction pays, from the account that pays the fee.
SolanaMove(m, does, opened, held, covered) ==
    IF Len(does) # 1 THEN None
    ELSE IF PaysLamports(m, does[1]) /\ opened = {} /\ Account(m, does[1], 1) = KeyAt(m, 0)
      THEN Move(KeyAt(m, 0), Native, Account(m, does[1], 2), ReadLE(SubSeq(does[1][3], 5, 12)), covered)
    ELSE IF PaysTokens(m, does[1], held \cup opened) /\ opened \subseteq {Account(m, does[1], 3)}
              /\ Account(m, does[1], 4) = KeyAt(m, 0)
      THEN Move(KeyAt(m, 0), Account(m, does[1], 2), Account(m, does[1], 3),
                ReadLE(SubSeq(does[1][3], 2, 9)), covered)
    ELSE None

SolanaMessage(m, held, covered) ==
    IF \E ix \in ToSet(m.ixs) : \E a \in {ix[1][1]} \cup ToSet(ix[2]) : a >= Len(m.keys) THEN None
    ELSE SolanaMove(m, SelectSeq(m.ixs, LAMBDA ix : ProgramOf(m, ix) # compute_budget_program /\ ~Opens(m, ix)),
                    {Account(m, ix, 2) : ix \in {x \in ToSet(m.ixs) : Opens(m, x)}}, held, covered)

SolanaParts(msg) ==
    ScanList(msg, Scan(msg, ScanList(msg, Scan(msg, Start, <<1, 1, 1>>), Count, <<32>>), <<32>>),
             Count, <<1, Text, Text>>)

SolanaBehind(sigs, msg, c, held, over) ==
    IF ~AtEnd(msg, c) \/ Len(sigs) # c.vals[1][1] THEN None
    ELSE SolanaMessage([signers |-> c.vals[1][1], readonly_signed |-> c.vals[2][1],
                        readonly_unsigned |-> c.vals[3][1], keys |-> c.vals[4], ixs |-> c.vals[6]],
                       held, over = msg)

SolanaSigned(sigs, msg, held, over) ==
    IF ~sigs.ok THEN None ELSE SolanaBehind(sigs.vals[1], msg, SolanaParts(msg), held, over)

SolanaFrom(raw, sigs, held, over) == SolanaSigned(sigs, SubSeq(raw, sigs.at, Len(raw)), held, over)

SolanaReads(raw, over, held) ==
    IF Len(raw) > MAX_TX_BYTES THEN None
    ELSE SolanaFrom(raw, ScanList(raw, Start, Count, <<64>>), held, over)

---------------------------------------------------------------------------
(* Aptos: one entry function, its arguments as byte strings.               *)

\* The sender, the sequence number, the kind of payload, the module's account, its
\* name and the function's; the types, the arguments; then the gas and the chain.
AptosParts(raw) ==
    Scan(raw, ScanList(raw, ScanList(raw, Scan(raw, Start, <<32, 8, Count, 32, Text, Text>>),
                                     Count, <<Count, 32, Text, Text, Count>>),
                       Count, <<Text>>), <<8, 8, 8, 1>>)

AptosCall(payer, module, types, args, covered) ==
    IF /\ module = aptos_account /\ types = <<>>
       /\ Len(args) = 2 /\ Len(args[1][1]) = 32 /\ Len(args[2][1]) = 8
    THEN Move(payer, Native, args[1][1], ReadLE(args[2][1]), covered)
    ELSE IF /\ module = primary_fungible_store
            /\ types = <<<<7, framework, fungible_asset, Metadata, 0>>>>
            /\ Len(args) = 3 /\ Len(args[2][1]) = 32 /\ Len(args[3][1]) = 8
    THEN Move(payer, args[1][1], args[2][1], ReadLE(args[3][1]), covered)
    ELSE None

\* Behind it the kind of signature, the public key and the signature.
AptosSigned(chain, raw, p, auth, over) ==
    IF \/ ~AtEnd(raw, auth) \/ auth.vals[1] # 0 \/ Len(auth.vals[2]) # 32 \/ Len(auth.vals[3]) # 64
       \/ p.vals[3] # 2 \/ p.vals[4] # framework \/ p.vals[6] # transfer \/ p.vals[12] # <<chain>>
    THEN None
    ELSE AptosCall(p.vals[1], p.vals[5], p.vals[7], p.vals[8],
                   over = signing_prefix \o SubSeq(raw, 1, p.at - 1))

AptosFrom(chain, raw, p, over) ==
    AptosSigned(chain, raw, p, Scan(raw, Fresh(p), <<Count, Text, Text>>), over)

AptosReads(chain, raw, over) == AptosFrom(chain, raw, AptosParts(raw), over)

---------------------------------------------------------------------------
(* Sui: inputs, and commands that refer to them and to one another.  The   *)
(* reading of a token names the coin objects that went into it.            *)

\* What follows the kind of a thing, as one value with it.
SuiAfter(b, c, k, layout) == IF k.ok THEN Nested(c, Scan(b, k, layout[Last(k.vals)])) ELSE k

ArgLayout   == 0 :> <<>> @@ 1 :> <<2>> @@ 2 :> <<2>> @@ 3 :> <<2, 2>>
InputLayout == 0 :> <<Text>> @@ 1 :> <<Count, 32, 8, Text>>

SuiArg(b, c)   == SuiAfter(b, c, Scan(b, Fresh(c), <<Count>>), ArgLayout)
SuiInput(b, c) == SuiAfter(b, c, Scan(b, Fresh(c), <<Count>>), InputLayout)

GasArg         == <<0>>
ResultArg(i, j) == <<3, to_le_bytes(i, 2), to_le_bytes(j, 2)>>
IsInput(arg)    == arg[1] = 1

\* A command is its kind and its operands, in the order they come.
SuiOperands(b, c, k) ==
    IF ~k.ok THEN k
    ELSE Nested(c, IF k.vals[1] = 1 THEN SuiArg(b, ScanMany(b, k, Count, SuiArg))
                   ELSE ScanMany(b, SuiArg(b, k), Count, SuiArg))

SuiCommand(b, c) == SuiOperands(b, c, Scan(b, Fresh(c), <<Count>>))

SuiParts(data) ==
    Scan(data, ScanList(data, Scan(data, ScanMany(data, ScanMany(data,
            Scan(data, Start, <<Count, Count>>), Count, SuiInput), Count, SuiCommand), <<32>>),
         Count, <<32, 8, Text>>), <<32, 8, 8, Count>>)

InputOf(ins, arg) == ins[ReadLE(arg[2]) + 1]

PureOf(ins, arg) == IF IsInput(arg) /\ InputOf(ins, arg)[1] = 0 THEN InputOf(ins, arg)[2] ELSE <<>>

\* The coin a payment is taken from: the gas, or one that others may be merged into.
SuiCoin(ins, merged, one) ==
    IF one = GasArg THEN Native
    ELSE {InputOf(ins, arg)[3] : arg \in {one} \cup
             UNION {ToSet(cmd[3]) : cmd \in {m \in ToSet(merged) : m[2] = one}}}

\* One coin is split from another, and sent.
SuiPays(ins, cmds, split, send, payer, covered) ==
    IF \/ split[1] # 2 \/ Len(split[3]) # 1 \/ Len(PureOf(ins, split[3][1])) # 8
       \/ send[1] # 1 \/ send[2] # <<ResultArg(Len(cmds) - 2, 0)>> \/ Len(PureOf(ins, send[3])) # 32
       \/ Len(cmds) > 3 \/ \E i \in 1..(Len(cmds) - 2) : cmds[i][1] # 3
    THEN None
    ELSE Move(payer, SuiCoin(ins, SubSeq(cmds, 1, Len(cmds) - 2), split[2]),
              PureOf(ins, send[3]), ReadLE(PureOf(ins, split[3][1])), covered)

SuiData(data, c, covered) ==
    IF ~AtEnd(data, c) \/ SubSeq(c.vals, 1, 2) # <<0, 0>> \/ c.vals[7] # c.vals[5]
         \/ c.vals[10] # 0 \/ Len(c.vals[4]) < 2
    THEN None
    ELSE SuiPays(c.vals[3], c.vals[4], c.vals[4][Len(c.vals[4]) - 1], Last(c.vals[4]),
                 c.vals[5], covered)

SuiSigned(data, over) == SuiData(data, SuiParts(data), over = INTENT_TRANSACTION_DATA \o data)

SuiReads(raw, over) == IF raw[Len(raw) - 96] # SCHEME_ED25519 THEN None
                       ELSE SuiSigned(SubSeq(raw, 1, Len(raw) - 97), over)

---------------------------------------------------------------------------
(* Bitcoin: the outputs, and whether each witness signs for the whole.     *)
(* Its reading has no single payee: it is the outputs in their order.      *)

BitcoinOpening(raw) ==
    ScanList(raw, ScanList(raw, Scan(raw, Start, <<4, 2>>), CompactCount, <<32, 4, CompactText, 4>>),
             CompactCount, <<8, CompactText>>)

\* A witness for every input, with no count before them.
BitcoinParts(raw, c) ==
    IF ~c.ok THEN c
    ELSE Scan(raw, Repeat(raw, c, [c EXCEPT !.vals = <<Len(c.vals[3])>>],
                 LAMBDA bb, acc : ScanList(bb, acc, CompactCount, <<CompactText>>)), <<4>>)

\* What BIP-143 signs for input i, which spends `spent`.
Bip143(v, i, spent) ==
    [prevouts  |-> FlattenSeq([k \in DOMAIN v[3] |-> v[3][k][1] \o v[3][k][2]]),
     sequences |-> FlattenSeq([k \in DOMAIN v[3] |-> v[3][k][4]]),
     outputs   |-> FlattenSeq([k \in DOMAIN v[4] |-> v[4][k][1] \o encode_bytes(v[4][k][2])]),
     rest      |-> v[1] \o v[3][i][1] \o v[3][i][2]
                     \o <<25, 118, 169, 20>> \o SubSeq(spent.script, 3, 22) \o <<136, 172>>
                     \o to_le_bytes(spent.value, 8) \o v[3][i][4] \o v[6] \o <<SIGHASH_ALL, 0, 0, 0>>]

WitnessCovers(v, i, spent, over) ==
    /\ Len(v[5][i]) = 2 /\ Last(v[5][i][1][1]) = SIGHASH_ALL
    /\ over = Bip143(v, i, spent)

BitcoinMove(v, over, spent) ==
    IF v[2] # <<0, 1>> \/ Len(v[3]) # Len(spent) THEN None
    ELSE [inputs  |-> [i \in DOMAIN v[3] |-> <<v[3][i][1], ReadLE(v[3][i][2])>>],
          outputs |-> [i \in DOMAIN v[4] |-> [value |-> ReadLE(v[4][i][1]), script |-> v[4][i][2]]],
          covered |-> \A i \in DOMAIN spent : WitnessCovers(v, i, spent[i], over[i])]

BitcoinWhole(raw, c, over, spent) == IF AtEnd(raw, c) THEN BitcoinMove(c.vals, over, spent) ELSE None

BitcoinReads(raw, over, spent) == BitcoinWhole(raw, BitcoinParts(raw, BitcoinOpening(raw)), over, spent)

---------------------------------------------------------------------------
(* TON: the message in the bag, and the message inside it.  A wallet that  *)
(* is not deployed yet is deployed by it.                                  *)

Grams  == -1
Address == -2

\* A number of 32 bits or more stays the bits it is.
LoadOne(s, how) == IF how = Grams THEN load_coins(s)
                   ELSE IF how = Address THEN load_address(s)
                   ELSE IF how < 32 THEN load_uint(s, how)
                   ELSE [val |-> SubSeq(s.bits, 1, how), rest |-> After(s, how)]

Loaded(vals, read) == [vals |-> Append(vals, read.val), slice |-> read.rest]

Load(cell, layout) == FoldLeft(LAMBDA acc, how : Loaded(acc.vals, LoadOne(acc.slice, how)),
                               [vals |-> <<>>, slice |-> cell], layout)

\* The inner message: no instant routing, to bounce or not, from nobody yet, no
\* extra currencies and no state; a body of its own or none.
TonInner(m, cell, outer) ==
    IF \/ <<m.vals[1], m.vals[3], m.vals[4]>> # <<1, 0, 0>> \/ m.vals[5] = None
       \/ SubSeq(m.vals, 7, 9) # <<0, 0, 0>> \/ m.vals[12] # 0
       \/ m.slice.bits # <<>> \/ Len(cell.refs) # m.vals[13]
    THEN None
    ELSE [outer EXCEPT !.to = m.vals[5].hash, !.amount = m.vals[6], !.bounce = (m.vals[2] = 1),
                       !.body = IF m.vals[13] = 1 THEN cell.refs[1] ELSE None]

TonMessage(cell, outer) ==
    TonInner(Load(cell, <<2, 1, 1, 2, Address, Grams, 1, Grams, Grams, 64, 32, 1, 1>>), cell, outer)

\* What the wallet contract takes apart: for its own subwallet, a simple send.
TonBody(b, body, outer, over) ==
    IF b.vals[2] # store_uint(DEFAULT_SUBWALLET_ID, 32) \/ b.vals[5] # 0 \/ b.vals[6] # MODE_ORDINARY
         \/ b.slice.bits # <<>> \/ Len(body.refs) # 1
    THEN None
    ELSE TonMessage(body.refs[1], [outer EXCEPT !.seqno = b.vals[4], !.covered = (over = After(body, 512))])

\* Not from a wallet, no import fee; with the wallet's code while it is needed.
TonExternal(e, ext, over, deployed) ==
    IF \/ e.vals[1] # 8 \/ e.vals[2] = None \/ e.vals[3] # 0
       \/ SubSeq(e.vals, 4, 5) # (IF deployed THEN <<0, 1>> ELSE <<1, 3>>)
       \/ Len(ext.refs) # (IF deployed THEN 1 ELSE 2)
    THEN None
    ELSE TonBody(Load(Last(ext.refs), <<512, 32, 32, 32, 8, 8>>), Last(ext.refs),
                 [payer |-> e.vals[2].hash, to |-> None, amount |-> 0, bounce |-> FALSE,
                  seqno |-> None, init |-> IF deployed THEN None ELSE ext.refs[1],
                  body |-> None, covered |-> FALSE], over)

TonParsed(ext, over, deployed) ==
    IF ext = None THEN None
    ELSE TonExternal(Load(ext, <<4, Address, Grams, 1, IF deployed THEN 1 ELSE 2>>), ext, over, deployed)

TonReads(raw, over, deployed) == TonParsed(boc_parse(raw), over, deployed)

\* What a jetton wallet makes of a body: where to, how much, and who gets the rest.
JettonCall(c) ==
    IF c.vals[1] # store_uint(OP_TRANSFER, 32) \/ None \in {c.vals[4], c.vals[5]}
         \/ c.vals[6] # 0 \/ c.slice.bits # <<0>>
    THEN None
    ELSE [to |-> c.vals[4].hash, amount |-> c.vals[3], back |-> c.vals[5].hash]

JettonReads(body) == JettonCall(Load(body, <<32, 64, Grams, Address, Address, 1, Grams>>))
=============================================================================
