---------------------------- MODULE TonMessages ----------------------------
(***************************************************************************)
(* TON: cells, the messages made of them, and bags of cells (neko-ton:     *)
(* cell.rs, message.rs, jetton.rs, wallet.rs, boc.rs, and the reading of   *)
(* cells in dict.rs).                                                      *)
(*                                                                         *)
(* A cell is its bits and the cells it refers to.  Its hash stands for it: *)
(* two cells have one hash when they are the same cell.  A failure is None.*)
(***************************************************************************)
EXTENDS Encodings

CONSTANT None

MAX_BITS == 1023
MAX_REFS == 4

Cell(bits, refs) == [bits |-> bits, refs |-> refs]

\* CellBuilder refuses the bit and the reference that do not fit.
Fits(c) == Len(c.bits) <= MAX_BITS /\ Len(c.refs) <= MAX_REFS

store_uint(v, n) == [i \in 1..n |-> IF n - i > 30 THEN 0 ELSE (v \div 2^(n - i)) % 2]

store_bytes(b) == FlattenSeq([i \in DOMAIN b |-> store_uint(b[i], 8)])

\* Zero is a zero nibble and no byte.
store_coins(v) == store_uint(Len(be_bytes(v)), 4) \o store_bytes(be_bytes(v))

\* The tag, no anycast, the workchain and the account.
store_address(a) == <<1, 0>> \o <<0>> \o store_uint(a.workchain % 256, 8) \o store_bytes(a.hash)

---------------------------------------------------------------------------
(* Messages.                                                               *)

MODE_ORDINARY            == 3
OP_SIMPLE_SEND           == 0
DEFAULT_SUBWALLET_ID     == 698983191
OP_TRANSFER              == 260734629
JETTON_FORWARD_AMOUNT    == 1
JETTON_TRANSFER_ATTACHED == 50000000

internal_message(to, value, bounce, body) ==
    Cell(<<0, 1, IF bounce THEN 1 ELSE 0, 0>> \o store_uint(0, 2) \o store_address(to)
             \o store_coins(value) \o <<0>> \o store_coins(0) \o store_coins(0)
             \o store_uint(0, 64) \o store_uint(0, 32) \o <<0>>
             \o (IF body = None THEN <<0>> ELSE <<1>>),
         IF body = None THEN <<>> ELSE <<body>>)

\* The body of a token transfer, for the sender's own jetton wallet.
transfer_body(amount, to_owner, response_to, forward) ==
    Cell(store_uint(OP_TRANSFER, 32) \o store_uint(0, 64) \o store_coins(amount)
             \o store_address(to_owner) \o store_address(response_to)
             \o <<0>> \o store_coins(forward) \o <<0>>,
         <<>>)

signing_body(valid_until, seqno, mode, message) ==
    Cell(store_uint(DEFAULT_SUBWALLET_ID, 32) \o store_uint(valid_until, 32)
             \o store_uint(seqno, 32) \o store_uint(OP_SIMPLE_SEND, 8) \o store_uint(mode, 8),
         <<message>>)

signed_body(body, sig) == Cell(store_bytes(sig) \o body.bits, body.refs)

external_message(wallet, state_init, body) ==
    Cell(<<1, 0>> \o store_uint(0, 2) \o store_address(wallet) \o store_coins(0)
             \o (IF state_init = None THEN <<0>> ELSE <<1, 1>>) \o <<1>>,
         (IF state_init = None THEN <<>> ELSE <<state_init>>) \o <<body>>)

initial_data(public_key) ==
    Cell(store_uint(0, 32) \o store_uint(DEFAULT_SUBWALLET_ID, 32) \o store_bytes(public_key) \o <<0>>,
         <<>>)

state_init_of(code, data) == Cell(<<0, 0, 1, 1, 0>>, <<code, data>>)

---------------------------------------------------------------------------
(* Bags of cells.                                                          *)

MAGIC      == <<181, 238, 156, 114>>
HAS_CRC32C == 64
Crc32c     == Fill(4, 0)     \* a checksum the reader in boc.rs does not look at

ToBytes(bits) ==
    [i \in 1..(Len(bits) \div 8) |->
        FoldLeft(LAMBDA v, b : 2 * v + b, 0, SubSeq(bits, 8 * i - 7, 8 * i))]

\* Data that ends within a byte is closed by a one and zeros.
padded(bits) ==
    IF Len(bits) % 8 = 0 THEN ToBytes(bits)
    ELSE ToBytes(bits \o <<1>> \o Fill(7 - (Len(bits) % 8), 0))

descriptors(c) == <<Len(c.refs), Len(c.bits) \div 8 + (Len(c.bits) + 7) \div 8>>

\* A cell before the ones it refers to, each once.
RECURSIVE walk(_, _)
walk(order, c) ==
    IF Contains(order, c) THEN order ELSE FoldLeft(walk, Append(order, c), c.refs)

bytes_for(n) == IF n < 256 THEN 1 ELSE IF n < 65536 THEN 2 ELSE 3

boc_serialize(root) ==
    LET order    == walk(<<>>, root)
        ref_size == bytes_for(Len(order))
        At(c)    == SelectInSeq(order, LAMBDA o : o = c) - 1
        Body(c)  == descriptors(c) \o padded(c.bits)
                       \o FlattenSeq([i \in DOMAIN c.refs |-> to_be_bytes(At(c.refs[i]), ref_size)])
        body     == FlattenSeq([i \in DOMAIN order |-> Body(order[i])])
        off_size == bytes_for(Len(body))
    IN MAGIC \o <<HAS_CRC32C + ref_size, off_size>>
         \o to_be_bytes(Len(order), ref_size) \o to_be_bytes(1, ref_size) \o to_be_bytes(0, ref_size)
         \o to_be_bytes(Len(body), off_size) \o to_be_bytes(0, ref_size) \o body \o Crc32c

BigEndian(b) == FoldLeft(LAMBDA v, x : 256 * v + x, 0, b)
BitsOf(b)    == store_bytes(b)

\* How many bits of a cell's data are content: an odd d2 says the last byte is tagged.
ContentBits(d2, data) ==
    IF d2 % 2 = 0 THEN 4 * d2
    ELSE SelectLastInSeq(BitsOf(data), LAMBDA b : b = 1) - 1

\* The cell at offset i: its descriptors, its data and the places of its references.
RawCell(b, i, ref_size) ==
    LET n    == (b[i + 1] + 1) \div 2
        data == SubSeq(b, i + 2, i + 1 + n)
        Ref(k) == BigEndian(SubSeq(b, i + 2 + n + (k - 1) * ref_size, i + 1 + n + k * ref_size))
    IN [bits |-> SubSeq(BitsOf(data), 1, ContentBits(b[i + 1], data)),
        refs |-> [k \in 1..(b[i] % 8) |-> Ref(k)],
        next |-> i + 2 + n + (b[i] % 8) * ref_size]

\* None for a bag whose references do not all point forward.
boc_parse(b) ==
    LET ref_size == b[5] % 8
        off_size == b[6]
        count    == BigEndian(SubSeq(b, 7, 6 + ref_size))
        root     == BigEndian(SubSeq(b, 7 + 3 * ref_size + off_size, 6 + 4 * ref_size + off_size))
        start    == 7 + 4 * ref_size + off_size
        raw      == FoldLeft(LAMBDA acc, k :
                        LET c == RawCell(b, acc.at, ref_size)
                        IN [cells |-> Append(acc.cells, c), at |-> c.next],
                    [cells |-> <<>>, at |-> start], [k \in 1..count |-> k]).cells
        Forward  == \A k \in 1..count : \A j \in DOMAIN raw[k].refs :
                        raw[k].refs[j] \in k..(count - 1)
        built[k \in 1..count] ==
            Cell(raw[k].bits, [j \in DOMAIN raw[k].refs |-> built[raw[k].refs[j] + 1]])
    IN IF SubSeq(b, 1, 4) = MAGIC /\ Forward THEN built[root + 1] ELSE None

---------------------------------------------------------------------------
(* Reading a cell: a slice is what is left of its bits and its references, *)
(* and a reading is the value and the slice after it.                      *)

Slice(c) == c

Value(bits) == FoldLeft(LAMBDA v, b : 2 * v + b, 0, bits)

After(s, n) == [s EXCEPT !.bits = SubSeq(@, n + 1, Len(@))]

load_uint(s, n) == [val |-> Value(SubSeq(s.bits, 1, n)), rest |-> After(s, n)]

load_coins(s) ==
    LET len == load_uint(s, 4)
    IN [val |-> Value(SubSeq(len.rest.bits, 1, 8 * len.val)), rest |-> After(len.rest, 8 * len.val)]

\* No address at all is None; any other tag than a plain address's fails.
load_address(s) ==
    IF SubSeq(s.bits, 1, 2) = <<0, 0>> THEN [val |-> None, rest |-> After(s, 2)]
    ELSE [val |-> [workchain |-> Value(SubSeq(s.bits, 4, 11)),
                   hash      |-> ToBytes(SubSeq(s.bits, 12, 267))],
          rest |-> After(s, 267)]

load_ref(s) == [val |-> Head(s.refs), rest |-> [s EXCEPT !.refs = Tail(@)]]
=============================================================================
