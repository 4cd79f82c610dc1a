----------------------------- MODULE Encodings -----------------------------
(***************************************************************************)
(* How the transaction builders write numbers, lengths and byte strings:   *)
(* RLP (neko-evm: rlp.rs), protobuf (neko-tron: pb.rs), compact-u16        *)
(* (neko-solana: shortvec.rs), BCS (neko-aptos and neko-sui: bcs.rs) and   *)
(* CompactSize (neko-btc: varint.rs).                                      *)
(*                                                                         *)
(* A byte string is a sequence of 0..255.  The models count in numbers     *)
(* below 2^31, so the fifth byte of a wide number and the ones above it    *)
(* are zero.                                                               *)
(***************************************************************************)
EXTENDS Integers, Sequences, SequencesExt

Byte == 0..255

Fill(n, b) == [i \in 1..n |-> b]

to_le_bytes(v, w) == [i \in 1..w |-> IF i > 4 THEN 0 ELSE (v \div 256^(i - 1)) % 256]

to_be_bytes(v, w) == Reverse(to_le_bytes(v, w))

\* Without the leading zeros.
trim(b) == LET first == SelectInSeq(b, LAMBDA e : e # 0)
           IN IF first = 0 THEN <<>> ELSE SubSeq(b, first, Len(b))

---------------------------------------------------------------------------
(* RLP.  Zero is the empty string, and an integer has no leading zeros.    *)

be_bytes(v) == trim(to_be_bytes(v, 16))

rlp_bytes(v) ==
    IF Len(v) = 1 /\ v[1] <= 127 THEN v
    ELSE IF Len(v) <= 55 THEN <<128 + Len(v)>> \o v
    ELSE <<183 + Len(be_bytes(Len(v)))>> \o be_bytes(Len(v)) \o v

rlp_uint(v) == rlp_bytes(be_bytes(v))

rlp_list(payload) ==
    (IF Len(payload) <= 55 THEN <<192 + Len(payload)>>
     ELSE <<247 + Len(be_bytes(Len(payload)))>> \o be_bytes(Len(payload))) \o payload

---------------------------------------------------------------------------
(* Seven bits to a byte, the low ones first, the high bit on all but the   *)
(* last.                                                                   *)

varint[n \in Nat] == IF n < 128 THEN <<n>> ELSE <<128 + (n % 128)>> \o varint[n \div 128]

shortvec(n) == varint[n]

uleb(n) == varint[n]

\* Protobuf: a default value is not written at all.
tag(f, wire) == varint[(f * 8) + wire]

uint64(f, v) == IF v = 0 THEN <<>> ELSE tag(f, 0) \o varint[v]

bytes(f, v) == IF v = <<>> THEN <<>> ELSE tag(f, 2) \o varint[Len(v)] \o v

\* BCS: a byte string and an enum's variant both begin with a uleb.
bcs_bytes(b) == uleb(Len(b)) \o b

compact_size(n) ==
    IF n <= 252 THEN <<n>>
    ELSE IF n <= 65535 THEN <<253>> \o to_le_bytes(n, 2)
    ELSE <<254>> \o to_le_bytes(n, 4)

encode_bytes(b) == compact_size(Len(b)) \o b
=============================================================================
