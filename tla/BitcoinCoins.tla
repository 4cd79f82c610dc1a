---------------------------- MODULE BitcoinCoins ----------------------------
(***************************************************************************)
(* Choosing the coins of a Bitcoin payment: neko-btc/src/coins.rs.         *)
(*                                                                         *)
(* A coin is its value and whether it is in a block.  Sums and differences *)
(* are those of u64 in a release build: saturating where the source says   *)
(* so, wrapping elsewhere.                                                 *)
(***************************************************************************)
EXTENDS Integers, SequencesExt

CONSTANTS U64,      \* the largest u64
          None

ASSUME U64Assumption == U64 \in Nat /\ U64 >= 1000

\* Mutant: without the witness.
INPUT_VBYTES_Bare == 41

INPUT_VBYTES    == 68
OVERHEAD_VBYTES == 11
DUST_RELAY_FEE  == 3000

\* Output scripts: their length, and whether they begin with a witness version.
P2WPKH == [len |-> 22, witness |-> TRUE]
P2PKH  == [len |-> 25, witness |-> FALSE]

Saturate(n) == IF n > U64 THEN U64 ELSE n
Wrap(n)     == n % (U64 + 1)
DivCeil(n, d) == (n + d - 1) \div d

\* varint::len, of a length below 2^16.
VarintLen(n) == IF n <= 252 THEN 1 ELSE 3

from_milli(milli) == IF milli < 1000 THEN 1000 ELSE milli

fee_for(rate, vbytes) == DivCeil(Saturate(vbytes * rate), 1000)

spend_vbytes(s)   == IF s.witness /\ s.len \in {22, 34} THEN 67 ELSE 148
output_vbytes(s)  == 8 + VarintLen(s.len) + s.len
dust_threshold(s) == ((output_vbytes(s) + spend_vbytes(s)) * DUST_RELAY_FEE) \div 1000

estimate_vbytes(inputs, outputs) ==
    OVERHEAD_VBYTES + inputs * INPUT_VBYTES
        + FoldSeq(LAMBDA s, v : output_vbytes(s) + v, 0, outputs)

ValueOf(coins) == Saturate(FoldSeq(LAMBDA c, v : c.value + v, 0, coins))

\* Mutant: only the value counts.
Ahead_Smallest(c, d) == IF c.confirmed = d.confirmed THEN c.value < d.value ELSE c.confirmed

\* Confirmed coins ahead of the others, the largest of each first.
Ahead(c, d) == IF c.confirmed = d.confirmed THEN c.value > d.value ELSE c.confirmed

\* pool.sort_by is stable: of two coins neither of which is ahead, the first stays
\* the first.  Each goes behind those that come before it.
Earlier(coins, i, j) == \/ Ahead(coins[i], coins[j])
                        \/ ~Ahead(coins[j], coins[i]) /\ i < j

PlaceIn(coins) == [j \in DOMAIN coins |-> 1 + Cardinality({i \in DOMAIN coins : Earlier(coins, i, j)})]

Pool(coins) ==
    LET place == PlaceIn(coins)
    IN [k \in DOMAIN coins |-> coins[CHOOSE j \in DOMAIN coins : place[j] = k]]

Chosen(pool, k) == SubSeq(pool, 1, k)

---------------------------------------------------------------------------
\* p is a payment: [to, change_to, amount, rate].  What the first k coins of the
\* pool, worth `total`, do for it: a selection, or None when they do not do.
Plain(p, k)      == estimate_vbytes(k, <<p.to>>)
WithChange(p, k) == estimate_vbytes(k, <<p.to, p.change_to>>)

\* Change above dust is an output; a remainder below it goes to the fee, which
\* the smaller transaction then needs less of.
Selecting(p, total, vb_change, vb_plain, dust) ==
    LET with_change    == fee_for(p.rate, vb_change)
        without_change == fee_for(p.rate, vb_plain)
        change == Wrap(total - p.amount - with_change)
    IN IF total < Wrap(p.amount + with_change) THEN None
       ELSE IF change >= dust
         THEN [change |-> change, fee |-> with_change, vbytes |-> vb_change]
       ELSE IF total >= Wrap(p.amount + without_change)
         THEN [change |-> None, fee |-> Wrap(total - p.amount), vbytes |-> vb_plain]
       ELSE None

\* Mutant: any change at all is worth an output.
Selected_AnyChange(p, k, total) ==
    Selecting(p, total, WithChange(p, k), Plain(p, k), 1)

Selected(p, k, total) ==
    Selecting(p, total, WithChange(p, k), Plain(p, k), dust_threshold(p.change_to))

\* The prefixes of the pool that do.
Enough(p, pool) == {k \in DOMAIN pool : Selected(p, k, ValueOf(Chosen(pool, k))) # None}

\* The shortfall that is reported, for all the coins together.
Needed(p, coins) ==
    Wrap(p.amount + fee_for(p.rate, WithChange(p, IF coins = <<>> THEN 1 ELSE Len(coins))))

Failure(why) == [ok |-> FALSE, why |-> why]

\* Mutant: change that would be dust refuses the payment.
select_RefusesDust(p, coins) ==
    LET pool   == Pool(coins)
        enough == Enough(p, pool)
        k == Min(enough)
        s == Selected(p, k, ValueOf(Chosen(pool, k)))
    IN IF p.amount < dust_threshold(p.to) THEN Failure("Dust")
       ELSE IF enough = {} \/ s.change = None THEN Failure("NotEnough")
       ELSE [ok |-> TRUE, inputs |-> Chosen(pool, k), change |-> s.change,
             fee |-> s.fee, vbytes |-> s.vbytes]

\* The fewest coins from the front of the pool that do.
select(p, coins) ==
    LET pool   == Pool(coins)
        enough == Enough(p, pool)
        k == Min(enough)
        s == Selected(p, k, ValueOf(Chosen(pool, k)))
    IN IF p.amount < dust_threshold(p.to) THEN Failure("Dust")
       ELSE IF enough = {} THEN Failure("NotEnough")
       ELSE [ok |-> TRUE, inputs |-> Chosen(pool, k), change |-> s.change,
             fee |-> s.fee, vbytes |-> s.vbytes]

\* What is left of all the coins once they have paid for a transaction that
\* spends them, or None when that is nothing an output may hold.
select_all(p, coins) ==
    LET amount == ValueOf(coins) - fee_for(p.rate, Plain(p, Len(coins)))
    IN IF coins # <<>> /\ amount >= dust_threshold(p.to) THEN amount ELSE None
=============================================================================
