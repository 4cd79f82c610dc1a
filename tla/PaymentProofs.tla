--------------------------- MODULE PaymentProofs ---------------------------
(***************************************************************************)
(* Theorems about Payment and the coins of BitcoinCoins, for every chain,  *)
(* balance, amount and rate, and any number of coins.                      *)
(*                                                                         *)
(* First what a selection of coins is, worked out from the sizes of the    *)
(* scripts up; then what a fee holds back; then the screen, by induction   *)
(* over its steps, with what a review shows as the invariant.              *)
(***************************************************************************)
EXTENDS Payment, Reckoning, TLAPS

---------------------------------------------------------------------------
(* One weighing of coins against an amount.                                *)

\* Whatever coins and rate: what Selecting returns accounts for every satoshi,
\* pays no less than the rate for its size, makes no dust, and gives the miners
\* less than the output it saves would have cost and had to hold.
THEOREM SelectingAccounts ==
    ASSUME NEW p, NEW total \in 0..U64, NEW vb_change, NEW vb_plain, NEW dust \in Nat,
           p.amount \in 0..U64,
           fee_for(p.rate, vb_change) \in Nat, fee_for(p.rate, vb_plain) \in Nat,
           fee_for(p.rate, vb_plain) <= fee_for(p.rate, vb_change),
           p.amount + fee_for(p.rate, vb_change) <= U64,
           None \notin Int,
           Selecting(p, total, vb_change, vb_plain, dust) # None
    PROVE  LET s == Selecting(p, total, vb_change, vb_plain, dust) IN
             /\ total = p.amount + ChangeOf(s) + s.fee
             /\ s.fee >= fee_for(p.rate, s.vbytes)
             /\ s.change # None => s.change >= dust
             /\ s.change = None => s.fee < fee_for(p.rate, vb_change) + dust
<1> DEFINE with    == fee_for(p.rate, vb_change)
           without == fee_for(p.rate, vb_plain)
<1>0. U64 \in Nat
  BY U64Assumption
<1>1. ASSUME NEW n \in 0..U64 PROVE Wrap(n) = n
  BY <1>0, <1>1, SMTT(30) DEF Wrap
<1>2. Wrap(p.amount + with) = p.amount + with /\ Wrap(p.amount + without) = p.amount + without
  BY <1>0, <1>1
<1>3. total >= p.amount + with
  BY <1>2 DEF Selecting
<1>4. /\ Wrap(total - p.amount - with) = total - p.amount - with
      /\ Wrap(total - p.amount) = total - p.amount
  BY <1>0, <1>1, <1>3
<1>5. CASE total - p.amount - with >= dust
  <2>1. Selecting(p, total, vb_change, vb_plain, dust)
          = [change |-> total - p.amount - with, fee |-> with, vbytes |-> vb_change]
    BY <1>2, <1>3, <1>4, <1>5 DEF Selecting
  <2> QED
    BY <1>0, <2>1, <1>3, <1>5 DEF ChangeOf
<1>6. CASE total - p.amount - with < dust
  <2>1. Selecting(p, total, vb_change, vb_plain, dust)
          = [change |-> None, fee |-> total - p.amount, vbytes |-> vb_plain]
    BY <1>2, <1>3, <1>4, <1>6 DEF Selecting
  <2> QED
    BY <1>0, <2>1, <1>3, <1>6 DEF ChangeOf
<1> QED
  BY <1>0, <1>3, <1>5, <1>6

\* Of two numbers the greater makes the greater product.
LEMMA Products == \A a, b, c \in Nat : /\ a * b \in Nat
                                      /\ a >= b => a * c >= b * c
<1> SUFFICES ASSUME NEW a \in Nat, NEW b \in Nat, NEW c \in Nat
    PROVE a * b \in Nat /\ (a >= b => a * c >= b * c)
  OBVIOUS
<1>1. a * b \in Nat
  OBVIOUS
<1>2. ASSUME a >= b PROVE a * c >= b * c
  <2>1. (a - b) * c \in Nat /\ a * c = b * c + (a - b) * c
    BY <1>2
  <2> QED
    BY <2>1
<1> QED
  BY <1>1, <1>2

---------------------------------------------------------------------------
(* Sums of coins and of outputs.                                           *)

\* The coins of the model, and what each is worth.
Values(coins) == [i \in DOMAIN coins |-> coins[i].value]

CoinType == [value : 1..U64, confirmed : BOOLEAN]

\* Coins are finitely many and worth whole numbers.
LEMMA ValuesAreNatural ==
    ASSUME NEW coins \in Seq(CoinType)
    PROVE  /\ DOMAIN coins = 1..Len(coins) /\ IsFiniteSet(DOMAIN coins)
           /\ Len(coins) \in Nat /\ Cardinality(DOMAIN coins) = Len(coins)
           /\ Values(coins) \in [DOMAIN coins -> Nat]
<1>1. DOMAIN coins = 1..Len(coins) /\ Len(coins) \in Nat
  OBVIOUS
<1>2. ASSUME NEW i \in DOMAIN coins PROVE coins[i].value \in Nat
  <2>1. coins[i] \in CoinType
    OBVIOUS
  <2> QED
    BY <2>1, U64Assumption DEF CoinType
<1> QED
  BY <1>1, <1>2, FS_Interval DEF Values

\* The fold of coins.rs is a sum of values, over any of the coins.
LEMMA CoinsAdd ==
    ASSUME NEW coins, IsFiniteSet(DOMAIN coins), Values(coins) \in [DOMAIN coins -> Nat],
           NEW S \in SUBSET DOMAIN coins
    PROVE  FoldFunctionOnSet(LAMBDA c, v : c.value + v, 0, coins, S)
             = SumFunctionOnSet(Values(coins), S)
<1> DEFINE w == [i \in S |-> coins[i].value]
           G == CHOOSE h : h = [s \in SUBSET S |-> IF s = {} THEN 0
                    ELSE coins[CHOOSE x \in s : TRUE].value + h[s \ {CHOOSE x \in s : TRUE}]]
<1>1. FoldFunctionOnSet(LAMBDA c, v : c.value + v, 0, coins, S) = G[S]
  BY DEF FoldFunctionOnSet, MapThenFoldSet
<1>2. PICK g : Adds(g, S, w)
  BY AddsExists, FS_Subset
<1>3. g = [s \in SUBSET S |-> IF s = {} THEN 0
                    ELSE coins[CHOOSE x \in s : TRUE].value + g[s \ {CHOOSE x \in s : TRUE}]]
  <2>1. \A s \in SUBSET S : s # {} => w[Pick(s)] = coins[Pick(s)].value
    BY PickIsIn
  <2>2. g = [s \in SUBSET S |-> IF s = {} THEN 0 ELSE w[Pick(s)] + g[s \ {Pick(s)}]]
    BY <1>2 DEF Adds
  <2>3. g = [s \in SUBSET S |-> IF s = {} THEN 0 ELSE coins[Pick(s)].value + g[s \ {Pick(s)}]]
    BY <2>1, <2>2
  <2> QED
    BY <2>3 DEF Pick
<1>4. G = [s \in SUBSET S |-> IF s = {} THEN 0
                    ELSE coins[CHOOSE x \in s : TRUE].value + G[s \ {CHOOSE x \in s : TRUE}]]
  BY <1>3
<1>5. Adds(G, S, w)
  <2>1. \A s \in SUBSET S : s # {} => w[Pick(s)] = coins[Pick(s)].value
    BY PickIsIn
  <2> HIDE DEF G, w
  <2>2. G = [s \in SUBSET S |-> IF s = {} THEN 0 ELSE coins[Pick(s)].value + G[s \ {Pick(s)}]]
    BY <1>4 DEF Pick
  <2> QED
    BY <2>1, <2>2 DEF Adds
<1> HIDE DEF G
<1>6. w \in [S -> Nat] /\ \A i \in S : w[i] = Values(coins)[i]
  BY DEF Values
<1> HIDE DEF w
<1>7. IsFiniteSet(S)
  BY FS_Subset
<1>8. SumFunctionOnSet(w, S) = G[S]
  BY <1>5, <1>6, <1>7, SumIs
<1>9. SumFunctionOnSet(w, S) = SumFunctionOnSet(Values(coins), S)
  BY <1>6, <1>7, SumSame
<1> QED
  BY <1>1, <1>8, <1>9

\* What coins are worth together is their sum, saturated.
LEMMA ValueOfCoins ==
    ASSUME NEW coins \in Seq(CoinType)
    PROVE  /\ ValueOf(coins) = Saturate(SumFunctionOnSet(Values(coins), DOMAIN coins))
           /\ SumFunctionOnSet(Values(coins), DOMAIN coins) \in Nat
           /\ ValueOf(coins) \in 0..U64
<1>1. FoldSeq(LAMBDA c, v : c.value + v, 0, coins) = SumFunctionOnSet(Values(coins), DOMAIN coins)
  <2>1. FoldSeq(LAMBDA c, v : c.value + v, 0, coins)
          = FoldFunctionOnSet(LAMBDA c, v : c.value + v, 0, coins, DOMAIN coins)
    BY DEF FoldSeq, FoldFunction
  <2> QED
    BY <2>1, ValuesAreNatural, CoinsAdd
<1>2. SumFunctionOnSet(Values(coins), DOMAIN coins) \in Nat
  BY ValuesAreNatural, SumType
<1>3. ValueOf(coins) = Saturate(SumFunctionOnSet(Values(coins), DOMAIN coins))
  BY <1>1 DEF ValueOf
<1> QED
  BY <1>2, <1>3, U64Assumption DEF Saturate

---------------------------------------------------------------------------
(* Sizes and fees.                                                         *)

\* The scripts a payment goes to and its change.
Scripts == {P2WPKH, P2PKH}

\* Their sizes as outputs, and the least they are allowed to hold.
LEMMA ScriptSizes ==
    ASSUME NEW s \in Scripts
    PROVE  output_vbytes(s) \in {31, 34} /\ dust_threshold(s) \in {294, 546}
<1>1. CASE s = P2WPKH
  <2>1. output_vbytes(s) = 31 /\ spend_vbytes(s) = 67
    BY <1>1 DEF P2WPKH, output_vbytes, VarintLen, spend_vbytes
  <2>2. (31 + 67) * 3000 = 294000 /\ 294000 \div 1000 = 294
    OBVIOUS
  <2> QED
    BY <2>1, <2>2 DEF dust_threshold, DUST_RELAY_FEE
<1>2. CASE s = P2PKH
  <2>1. output_vbytes(s) = 34 /\ spend_vbytes(s) = 148
    BY <1>2 DEF P2PKH, output_vbytes, VarintLen, spend_vbytes
  <2>2. (34 + 148) * 3000 = 546000 /\ 546000 \div 1000 = 546
    OBVIOUS
  <2> QED
    BY <2>1, <2>2 DEF dust_threshold, DUST_RELAY_FEE
<1> QED
  BY <1>1, <1>2 DEF Scripts

\* The size of some outputs is a sum too.
LEMMA OutputsAdd ==
    ASSUME NEW outs \in Seq(Scripts)
    PROVE  FoldSeq(LAMBDA s, v : output_vbytes(s) + v, 0, outs)
             = SumFunctionOnSet([i \in DOMAIN outs |-> output_vbytes(outs[i])], DOMAIN outs)
<1> DEFINE S == DOMAIN outs
           w == [i \in S |-> output_vbytes(outs[i])]
           G == CHOOSE h : h = [s \in SUBSET S |-> IF s = {} THEN 0
                    ELSE output_vbytes(outs[CHOOSE x \in s : TRUE]) + h[s \ {CHOOSE x \in s : TRUE}]]
<1>1. FoldSeq(LAMBDA s, v : output_vbytes(s) + v, 0, outs) = G[S]
  BY DEF FoldSeq, FoldFunction, FoldFunctionOnSet, MapThenFoldSet
<1>0. IsFiniteSet(S) /\ w \in [S -> Nat]
  <2>1. S = 1..Len(outs) /\ Len(outs) \in Nat
    OBVIOUS
  <2>2. \A i \in S : output_vbytes(outs[i]) \in Nat
    BY ScriptSizes
  <2> QED
    BY <2>1, <2>2, FS_Interval
<1>2. PICK g : Adds(g, S, w)
  BY <1>0, AddsExists
<1>3. \A s \in SUBSET S : s # {} => w[Pick(s)] = output_vbytes(outs[Pick(s)])
  BY PickIsIn
<1>4. g = [s \in SUBSET S |-> IF s = {} THEN 0
                    ELSE output_vbytes(outs[CHOOSE x \in s : TRUE]) + g[s \ {CHOOSE x \in s : TRUE}]]
  <2> HIDE DEF w
  <2>1. g = [s \in SUBSET S |-> IF s = {} THEN 0 ELSE w[Pick(s)] + g[s \ {Pick(s)}]]
    BY <1>2 DEF Adds
  <2>2. g = [s \in SUBSET S |-> IF s = {} THEN 0 ELSE output_vbytes(outs[Pick(s)]) + g[s \ {Pick(s)}]]
    BY <1>3, <2>1
  <2> QED
    BY <2>2 DEF Pick
<1>5. G = [s \in SUBSET S |-> IF s = {} THEN 0
                    ELSE output_vbytes(outs[CHOOSE x \in s : TRUE]) + G[s \ {CHOOSE x \in s : TRUE}]]
  BY <1>4
<1>6. Adds(G, S, w)
  <2> HIDE DEF G, w
  <2>2. G = [s \in SUBSET S |-> IF s = {} THEN 0 ELSE output_vbytes(outs[Pick(s)]) + G[s \ {Pick(s)}]]
    BY <1>5 DEF Pick
  <2> QED
    BY <1>3, <2>2 DEF Adds
<1>7. SumFunctionOnSet(w, S) = G[S]
  <2> HIDE DEF G, w, S
  <2> QED
    BY <1>0, <1>6, SumIs
<1> HIDE DEF G
<1> QED
  BY <1>1, <1>7

\* A transaction of so many inputs, with and without the output for the change.
LEMMA Sizes ==
    ASSUME NEW p, p.to \in Scripts, p.change_to \in Scripts, NEW k \in Nat
    PROVE  /\ Plain(p, k) = 11 + k * 68 + output_vbytes(p.to)
           /\ WithChange(p, k) = 11 + k * 68 + (output_vbytes(p.change_to) + output_vbytes(p.to))
<1>1. output_vbytes(p.to) \in Nat /\ output_vbytes(p.change_to) \in Nat
  BY ScriptSizes
<1>2. FoldSeq(LAMBDA s, v : output_vbytes(s) + v, 0, <<p.to>>) = output_vbytes(p.to)
  <2> DEFINE outs == <<p.to>>
             w == [i \in DOMAIN outs |-> output_vbytes(outs[i])]
  <2>1. outs \in Seq(Scripts) /\ DOMAIN outs = {1} /\ outs[1] = p.to
    OBVIOUS
  <2> HIDE DEF outs
  <2>2. IsFiniteSet({1}) /\ w \in [{1} -> Nat] /\ w[1] = output_vbytes(p.to)
    BY <1>1, <2>1, FS_Singleton
  <2>3. FoldSeq(LAMBDA s, v : output_vbytes(s) + v, 0, outs) = SumFunctionOnSet(w, {1})
    BY <2>1, OutputsAdd
  <2> HIDE DEF w
  <2>4. SumFunctionOnSet(w, {1}) = w[1] + SumFunctionOnSet(w, {1} \ {1})
    BY <2>2, SumLess
  <2>5. SumFunctionOnSet(w, {1} \ {1}) = 0
    <3>1. {1} \ {1} = {}
      OBVIOUS
    <3> QED
      BY <2>2, <3>1, SumEmpty
  <2> QED
    <3>1. SumFunctionOnSet(w, {1}) = output_vbytes(p.to)
      BY <1>1, <2>2, <2>4, <2>5
    <3> QED
      BY <2>3, <3>1, Zenon DEF outs
<1>3. FoldSeq(LAMBDA s, v : output_vbytes(s) + v, 0, <<p.to, p.change_to>>)
        = output_vbytes(p.change_to) + output_vbytes(p.to)
  <2> DEFINE outs == <<p.to, p.change_to>>
             w == [i \in DOMAIN outs |-> output_vbytes(outs[i])]
  <2>1. outs \in Seq(Scripts) /\ DOMAIN outs = {1, 2} /\ outs[1] = p.to /\ outs[2] = p.change_to
    OBVIOUS
  <2> HIDE DEF outs
  <2>2. /\ IsFiniteSet({1, 2}) /\ w \in [{1, 2} -> Nat]
        /\ w[1] = output_vbytes(p.to) /\ w[2] = output_vbytes(p.change_to)
    <3>1. IsFiniteSet({1, 2})
      <4>1. IsFiniteSet({1} \cup {2})
        BY FS_Singleton, FS_AddElement
      <4>2. {1} \cup {2} = {1, 2}
        OBVIOUS
      <4> QED
        BY <4>1, <4>2, Zenon
    <3> QED
      BY <1>1, <2>1, <3>1
  <2>3. FoldSeq(LAMBDA s, v : output_vbytes(s) + v, 0, outs) = SumFunctionOnSet(w, {1, 2})
    BY <2>1, OutputsAdd
  <2> HIDE DEF w
  <2>4. SumFunctionOnSet(w, {1, 2}) = w[2] + SumFunctionOnSet(w, {1})
    <3>1. {1, 2} \ {2} = {1}
      OBVIOUS
    <3>2. SumFunctionOnSet(w, {1, 2}) = w[2] + SumFunctionOnSet(w, {1, 2} \ {2})
      BY <2>2, SumLess
    <3> QED
      BY <3>1, <3>2
  <2>5. SumFunctionOnSet(w, {1}) = w[1] + SumFunctionOnSet(w, {})
    <3>1. {1} \ {1} = {}
      OBVIOUS
    <3>2. SumFunctionOnSet(w, {1}) = w[1] + SumFunctionOnSet(w, {1} \ {1})
      BY <2>2, SumLess
    <3> QED
      BY <3>1, <3>2
  <2>6. SumFunctionOnSet(w, {}) = 0
    BY <2>2, SumEmpty
  <2> QED
    <3>1. SumFunctionOnSet(w, {1, 2}) = output_vbytes(p.change_to) + output_vbytes(p.to)
      BY <1>1, <2>2, <2>4, <2>5, <2>6
    <3> QED
      BY <2>3, <3>1, Zenon DEF outs
<1> QED
  BY <1>2, <1>3 DEF Plain, WithChange, estimate_vbytes, OVERHEAD_VBYTES, INPUT_VBYTES

\* No fee is more than a thousandth of what saturates.
MaxFee == (U64 + 999) \div 1000

\* ... and a fee is a number.
LEMMA FeeBounds ==
    ASSUME NEW rate \in Nat, NEW a \in Nat
    PROVE  fee_for(rate, a) \in Nat /\ fee_for(rate, a) <= MaxFee
<1> DEFINE x == Saturate(a * rate)
<1>0. U64 \in Nat
  BY U64Assumption
<1>1. a * rate \in Nat
  BY Products
<1>2. x \in 0..U64
  BY <1>0, <1>1 DEF Saturate
<1> HIDE DEF x
<1>3. (x + 1000 - 1) \div 1000 \in Nat /\ (x + 1000 - 1) \div 1000 <= (U64 + 999) \div 1000
  BY <1>0, <1>2
<1> QED
  BY <1>3 DEF fee_for, DivCeil, MaxFee, x

\* A larger transaction never asks for less.
LEMMA FeesGrow ==
    ASSUME NEW rate \in Nat, NEW a \in Nat, NEW b \in Nat, a <= b
    PROVE  fee_for(rate, a) <= fee_for(rate, b)
<1> DEFINE x == Saturate(a * rate)
           y == Saturate(b * rate)
<1>0. U64 \in Nat
  BY U64Assumption
<1>1. a * rate \in Nat /\ b * rate \in Nat /\ a * rate <= b * rate
  BY Products
<1>2. x \in 0..U64 /\ y \in 0..U64 /\ x <= y
  BY <1>0, <1>1 DEF Saturate
<1> HIDE DEF x, y
<1>3. (x + 1000 - 1) \div 1000 <= (y + 1000 - 1) \div 1000
  BY <1>0, <1>2
<1> QED
  BY <1>3 DEF fee_for, DivCeil, x, y

---------------------------------------------------------------------------
(* The pool.                                                               *)

\* Which of two coins goes first in the pool is settled for every two of them.
Ordering(coins) == {ij \in (DOMAIN coins) \X (DOMAIN coins) : Earlier(coins, ij[1], ij[2])}

\* Membership in it, said of two positions.
LEMMA InOrdering ==
    ASSUME NEW coins, NEW i \in DOMAIN coins, NEW j \in DOMAIN coins
    PROVE  <<i, j>> \in Ordering(coins) <=> Earlier(coins, i, j)
<1>1. <<i, j>> \in (DOMAIN coins) \X (DOMAIN coins)
  OBVIOUS
<1>2. <<i, j>>[1] = i /\ <<i, j>>[2] = j
  OBVIOUS
<1>3. <<i, j>> \in Ordering(coins) <=> Earlier(coins, <<i, j>>[1], <<i, j>>[2])
  BY <1>1, Zenon DEF Ordering
<1> QED
  BY <1>2, <1>3, Zenon

\* It orders them strictly.
LEMMA EarlierIsAnOrder ==
    ASSUME NEW coins \in Seq(CoinType)
    PROVE  /\ \A i \in DOMAIN coins : <<i, i>> \notin Ordering(coins)
           /\ \A i, j \in DOMAIN coins :
                 i # j => <<i, j>> \in Ordering(coins) \/ <<j, i>> \in Ordering(coins)
           /\ \A i, j, k \in DOMAIN coins :
                 <<i, j>> \in Ordering(coins) /\ <<j, k>> \in Ordering(coins)
                 => <<i, k>> \in Ordering(coins)
<1>1. \A i, j \in DOMAIN coins : <<i, j>> \in Ordering(coins) <=> Earlier(coins, i, j)
  BY InOrdering
<1>2. ASSUME NEW i \in DOMAIN coins
      PROVE i \in Nat /\ coins[i].value \in Nat /\ coins[i].confirmed \in BOOLEAN
  <2>1. coins[i] \in CoinType /\ i \in Nat
    OBVIOUS
  <2> QED
    BY <2>1, U64Assumption DEF CoinType
<1>3. ASSUME NEW i \in DOMAIN coins PROVE ~Earlier(coins, i, i)
  BY <1>2 DEF Earlier, Ahead
<1>4. ASSUME NEW i \in DOMAIN coins, NEW j \in DOMAIN coins, i # j
      PROVE  Earlier(coins, i, j) \/ Earlier(coins, j, i)
  BY <1>2, <1>4 DEF Earlier, Ahead
<1>5. ASSUME NEW i \in DOMAIN coins, NEW j \in DOMAIN coins, NEW k \in DOMAIN coins,
             Earlier(coins, i, j), Earlier(coins, j, k)
      PROVE  Earlier(coins, i, k)
  BY <1>2, <1>5 DEF Earlier, Ahead
<1> QED
  BY <1>1, <1>3, <1>4, <1>5

\* The pool is the coins in another order, in which none is ahead of an earlier one.
THEOREM PoolIsSorted ==
    ASSUME NEW coins \in Seq(CoinType)
    PROVE  \E f \in Bijection(DOMAIN coins, DOMAIN coins) :
              /\ Pool(coins) = [k \in DOMAIN coins |-> coins[f[k]]]
              /\ \A k, l \in DOMAIN coins : k < l => ~Ahead(coins[f[l]], coins[f[k]])
<1> DEFINE D == DOMAIN coins
           place == PlaceIn(coins)
           f == [k \in D |-> CHOOSE j \in D : place[j] = k]
<1>0. /\ D = 1..Len(coins) /\ IsFiniteSet(D) /\ Len(coins) \in Nat
      /\ Cardinality(D) = Len(coins)
  BY ValuesAreNatural
<1>1. place = [j \in D |-> 1 + Cardinality({i \in D : <<i, j>> \in Ordering(coins)})]
  <2>1. ASSUME NEW j \in D
        PROVE {i \in D : <<i, j>> \in Ordering(coins)} = {i \in D : Earlier(coins, i, j)}
    <3>1. \A i \in D : <<i, j>> \in Ordering(coins) <=> Earlier(coins, i, j)
      BY InOrdering, Zenon
    <3> QED
      BY <3>1, Zenon
  <2> QED
    BY <2>1, Zenon DEF PlaceIn
<1>2. /\ place \in Bijection(D, 1..Cardinality(D))
      /\ \A i, j \in D : <<i, j>> \in Ordering(coins) => place[i] < place[j]
  BY <1>0, <1>1, EarlierIsAnOrder, Places
<1> HIDE DEF place
<1>3. /\ \A k \in D : \E j \in D : place[j] = k
      /\ \A i, j \in D : place[i] = place[j] => i = j
      /\ \A j \in D : place[j] \in D
  BY <1>0, <1>2 DEF Bijection, Injection, Surjection, IsInjective
<1>4. \A k \in D : f[k] \in D /\ place[f[k]] = k
  BY <1>3
<1>5. f \in Bijection(D, D)
  <2>1. f \in [D -> D]
    BY <1>4
  <2>2. \A k, l \in D : f[k] = f[l] => k = l
    BY <1>4
  <2>3. ASSUME NEW j \in D PROVE \E k \in D : f[k] = j
    <3>1. place[j] \in D /\ f[place[j]] \in D /\ place[f[place[j]]] = place[j]
      BY <1>3, <1>4
    <3>2. f[place[j]] = j
      BY <1>3, <3>1, Zenon
    <3> QED
      BY <3>1, <3>2, Zenon
  <2> HIDE DEF f
  <2>4. f \in Injection(D, D)
    BY <2>1, <2>2 DEF Injection, IsInjective
  <2>5. f \in Surjection(D, D)
    BY <2>1, <2>3 DEF Surjection
  <2> QED
    BY <2>4, <2>5 DEF Bijection
<1>6. Pool(coins) = [k \in D |-> coins[f[k]]]
  BY DEF Pool, place
<1>7. ASSUME NEW k \in D, NEW l \in D, k < l, Ahead(coins[f[l]], coins[f[k]])
      PROVE  FALSE
  <2>1. Earlier(coins, f[l], f[k])
    BY <1>7 DEF Earlier
  <2>2. <<f[l], f[k]>> \in Ordering(coins)
    <3>1. f[l] \in DOMAIN coins /\ f[k] \in DOMAIN coins
      BY <1>4
    <3> QED
      BY <2>1, <3>1, InOrdering, Zenon
  <2>3. l < k
    BY <1>2, <1>4, <2>2
  <2> QED
    BY <1>0, <1>7, <2>3
<1> HIDE DEF f
<1> QED
  BY <1>5, <1>6, <1>7

\* The pool is as many coins.
LEMMA PoolIsCoins ==
    ASSUME NEW coins \in Seq(CoinType)
    PROVE  /\ Pool(coins) \in Seq(CoinType) /\ Len(Pool(coins)) = Len(coins)
           /\ DOMAIN Pool(coins) = DOMAIN coins
<1> DEFINE n == Len(coins)
<1>1. DOMAIN coins = 1..n /\ n \in Nat /\ \A i \in 1..n : coins[i] \in CoinType
  OBVIOUS
<1>2. PICK f \in [1..n -> 1..n] : Pool(coins) = [k \in 1..n |-> coins[f[k]]]
  <2>1. PICK f \in Bijection(DOMAIN coins, DOMAIN coins) :
           Pool(coins) = [k \in DOMAIN coins |-> coins[f[k]]]
    BY PoolIsSorted
  <2>2. f \in [1..n -> 1..n]
    BY <1>1, <2>1 DEF Bijection, Injection
  <2> QED
    BY <1>1, <2>1, <2>2
<1> HIDE DEF n
<1>3. Pool(coins) \in [1..n -> CoinType]
  BY <1>1, <1>2
<1>4. Pool(coins) \in Seq(CoinType) /\ Len(Pool(coins)) = n /\ DOMAIN Pool(coins) = 1..n
  BY <1>1, <1>3
<1> QED
  BY <1>1, <1>4 DEF n

\* The worth of the first coins of a pool.
LEMMA ChosenValue ==
    ASSUME NEW pool \in Seq(CoinType), NEW k \in 1..Len(pool)
    PROVE  /\ Chosen(pool, k) \in Seq(CoinType) /\ Len(Chosen(pool, k)) = k
           /\ \A i \in 1..k : Chosen(pool, k)[i] = pool[i]
           /\ ValueOf(Chosen(pool, k)) = Saturate(SumFunctionOnSet(Values(pool), 1..k))
           /\ SumFunctionOnSet(Values(pool), 1..k) \in Nat
<1> DEFINE c == Chosen(pool, k)
<1>1. /\ c \in Seq(CoinType) /\ Len(c) = k
      /\ \A i \in 1..k : c[i] = pool[i]
  BY DEF Chosen
<1> HIDE DEF c
<1>2. /\ DOMAIN c = 1..k /\ IsFiniteSet(DOMAIN c) /\ Values(c) \in [DOMAIN c -> Nat]
  BY <1>1, ValuesAreNatural
<1>3. /\ IsFiniteSet(DOMAIN pool) /\ Values(pool) \in [DOMAIN pool -> Nat]
      /\ DOMAIN pool = 1..Len(pool) /\ 1..k \subseteq DOMAIN pool
  <2>1. 1..k \subseteq 1..Len(pool)
    OBVIOUS
  <2> QED
    BY <2>1, ValuesAreNatural
<1>4. \A i \in 1..k : Values(c)[i] = Values(pool)[i]
  BY <1>1, <1>2, <1>3 DEF Values
<1>5. SumFunctionOnSet(Values(c), 1..k) = SumFunctionOnSet(Values(pool), 1..k)
  <2>1. 1..k \subseteq DOMAIN c
    BY <1>2
  <2> QED
    BY <1>2, <1>3, <1>4, <2>1, SumSame
<1>6. ValueOf(c) = Saturate(SumFunctionOnSet(Values(c), 1..k))
  BY <1>1, <1>2, ValueOfCoins
<1>7. SumFunctionOnSet(Values(pool), 1..k) \in Nat
  BY <1>3, SumType
<1> QED
  BY <1>1, <1>5, <1>6, <1>7 DEF c

\* What the first k of the pool do for a payment.
FrontOf(p, coins, k) == Selected(p, k, ValueOf(Chosen(Pool(coins), k)))

\* A selection is made when some front of the pool does, and is the shortest that does.
THEOREM SelectIsFirst ==
    ASSUME NEW p, NEW coins \in Seq(CoinType)
    PROVE  /\ select(p, coins).ok =>
                 \E k \in 1..Len(coins) :
                    /\ FrontOf(p, coins, k) # None
                    /\ \A j \in 1..Len(coins) : FrontOf(p, coins, j) # None => k <= j
                    /\ select(p, coins) =
                         [ok |-> TRUE, inputs |-> Chosen(Pool(coins), k),
                          change |-> FrontOf(p, coins, k).change,
                          fee |-> FrontOf(p, coins, k).fee,
                          vbytes |-> FrontOf(p, coins, k).vbytes]
                    /\ ~(p.amount < dust_threshold(p.to))
           /\ (/\ ~(p.amount < dust_threshold(p.to))
               /\ \E k \in 1..Len(coins) : FrontOf(p, coins, k) # None)
              => select(p, coins).ok
<1> DEFINE pool == Pool(coins)
           enough == Enough(p, pool)
           k == Min(enough)
           s == Selected(p, k, ValueOf(Chosen(pool, k)))
<1>1. select(p, coins) =
        IF p.amount < dust_threshold(p.to) THEN Failure("Dust")
        ELSE IF enough = {} THEN Failure("NotEnough")
        ELSE [ok |-> TRUE, inputs |-> Chosen(pool, k), change |-> s.change,
              fee |-> s.fee, vbytes |-> s.vbytes]
  BY DEF select
<1>2. DOMAIN pool = 1..Len(coins)
  BY PoolIsCoins
<1>3. enough = {j \in 1..Len(coins) : FrontOf(p, coins, j) # None}
  BY <1>2 DEF Enough, FrontOf
<1>4. s = FrontOf(p, coins, k)
  BY DEF FrontOf
<1>5. enough # {} => k \in enough /\ \A j \in enough : k <= j
  <2> SUFFICES ASSUME enough # {} PROVE k \in enough /\ \A j \in enough : k <= j
    OBVIOUS
  <2>1. enough \in SUBSET Nat
    BY <1>3
  <2>2. \E x \in enough : \A y \in enough : x <= y
    <3> HIDE DEF enough
    <3> QED
      BY <2>1, Least
  <2> HIDE DEF enough
  <2> QED
    BY <2>2 DEF Min
<1>6. /\ Failure("Dust").ok = FALSE /\ Failure("NotEnough").ok = FALSE
  BY DEF Failure
<1> HIDE DEF pool, enough, s, k
<1>7. ASSUME select(p, coins).ok
      PROVE  enough # {} /\ ~(p.amount < dust_threshold(p.to))
  BY <1>1, <1>6, <1>7
<1>8. ASSUME enough # {}, ~(p.amount < dust_threshold(p.to))
      PROVE  /\ k \in 1..Len(coins) /\ FrontOf(p, coins, k) # None
             /\ \A j \in 1..Len(coins) : FrontOf(p, coins, j) # None => k <= j
             /\ select(p, coins) =
                         [ok |-> TRUE, inputs |-> Chosen(Pool(coins), k),
                          change |-> FrontOf(p, coins, k).change,
                          fee |-> FrontOf(p, coins, k).fee,
                          vbytes |-> FrontOf(p, coins, k).vbytes]
  <2>1. k \in enough /\ \A j \in enough : k <= j
    BY <1>5, <1>8
  <2>2. k \in 1..Len(coins) /\ FrontOf(p, coins, k) # None
    BY <1>3, <2>1
  <2>3. \A j \in 1..Len(coins) : FrontOf(p, coins, j) # None => k <= j
    BY <1>3, <2>1
  <2> QED
    BY <1>1, <1>4, <1>8, <2>2, <2>3 DEF pool
<1>9. (\E j \in 1..Len(coins) : FrontOf(p, coins, j) # None) => enough # {}
  BY <1>3
<1> QED
  <2>1. select(p, coins).ok =>
                 \E j \in 1..Len(coins) :
                    /\ FrontOf(p, coins, j) # None
                    /\ \A i \in 1..Len(coins) : FrontOf(p, coins, i) # None => j <= i
                    /\ select(p, coins) =
                         [ok |-> TRUE, inputs |-> Chosen(Pool(coins), j),
                          change |-> FrontOf(p, coins, j).change,
                          fee |-> FrontOf(p, coins, j).fee,
                          vbytes |-> FrontOf(p, coins, j).vbytes]
                    /\ ~(p.amount < dust_threshold(p.to))
    BY <1>7, <1>8, Zenon
  <2>2. (/\ ~(p.amount < dust_threshold(p.to))
         /\ \E j \in 1..Len(coins) : FrontOf(p, coins, j) # None)
              => select(p, coins).ok
    BY <1>8, <1>9
  <2> QED
    BY <2>1, <2>2, Zenon

---------------------------------------------------------------------------
(* Selections.                                                             *)

\* The payments of the model, for any amount and rate.
PaymentType == [to : Scripts, change_to : Scripts, amount : 0..U64, rate : Nat]

\* An output more makes a transaction larger.
LEMMA SizesAreNatural ==
    ASSUME NEW p \in PaymentType, NEW k \in Nat
    PROVE  Plain(p, k) \in Nat /\ WithChange(p, k) \in Nat /\ Plain(p, k) <= WithChange(p, k)
<1>1. p.to \in Scripts /\ p.change_to \in Scripts
  BY DEF PaymentType
<1>2. output_vbytes(p.to) \in {31, 34} /\ output_vbytes(p.change_to) \in {31, 34}
  BY <1>1, ScriptSizes
<1> QED
  BY <1>1, <1>2, Sizes

\* A transaction with change asks for no less than one without it.
LEMMA FeesOfSizes ==
    ASSUME NEW p \in PaymentType, NEW k \in Nat
    PROVE  /\ fee_for(p.rate, WithChange(p, k)) \in Nat
           /\ fee_for(p.rate, Plain(p, k)) \in Nat
           /\ fee_for(p.rate, Plain(p, k)) <= fee_for(p.rate, WithChange(p, k))
           /\ fee_for(p.rate, WithChange(p, k)) <= MaxFee
           /\ dust_threshold(p.to) \in {294, 546} /\ dust_threshold(p.change_to) \in {294, 546}
<1>1. p.to \in Scripts /\ p.change_to \in Scripts /\ p.rate \in Nat
  BY DEF PaymentType
<1>3. Plain(p, k) \in Nat /\ WithChange(p, k) \in Nat /\ Plain(p, k) <= WithChange(p, k)
  BY SizesAreNatural
<1>4. dust_threshold(p.to) \in {294, 546} /\ dust_threshold(p.change_to) \in {294, 546}
  BY <1>1, ScriptSizes
<1>5. ASSUME NEW a \in Nat
      PROVE  fee_for(p.rate, a) \in Nat /\ fee_for(p.rate, a) <= MaxFee
  BY <1>1, FeeBounds, Zenon
<1>6. ASSUME NEW a \in Nat, NEW b \in Nat, a <= b
      PROVE  fee_for(p.rate, a) <= fee_for(p.rate, b)
  BY <1>1, <1>6, FeesGrow, Zenon
<1>7. /\ fee_for(p.rate, WithChange(p, k)) \in Nat /\ fee_for(p.rate, Plain(p, k)) \in Nat
      /\ fee_for(p.rate, WithChange(p, k)) <= MaxFee
  BY <1>3, <1>5, Zenon
<1>8. fee_for(p.rate, Plain(p, k)) <= fee_for(p.rate, WithChange(p, k))
  BY <1>3, <1>6, Zenon
<1> QED
  BY <1>4, <1>7, <1>8

\* The sum of two amounts of u64 wraps once at the most, and a difference too.
LEMMA Wrapping ==
    ASSUME NEW n \in Int, -(U64 + 1) <= n, n <= 2 * U64 + 1
    PROVE  Wrap(n) = IF n < 0 THEN n + (U64 + 1) ELSE IF n <= U64 THEN n ELSE n - (U64 + 1)
<1> DEFINE m == U64 + 1
<1>0. m \in Nat /\ m > 0
  BY U64Assumption
<1>1. -m <= n /\ n < 2 * m
  BY U64Assumption
<1> HIDE DEF m
<1>2. (n % m) \in 0..(m - 1) /\ n = m * (n \div m) + (n % m) /\ (n \div m) \in Int
  BY <1>0
<1>3. n \div m \in {-1, 0, 1}
  <2> DEFINE q == n \div m
  <2>1. q \in Int /\ -m <= m * q + (n % m) /\ m * q + (n % m) < 2 * m /\ n % m \in 0..m-1
    BY <1>1, <1>2
  <2> HIDE DEF q
  <2>2. ASSUME q >= 2 PROVE FALSE
    <3>1. m * q >= m * 2
      BY <1>0, <2>1, <2>2
    <3> QED
      BY <1>0, <2>1, <3>1
  <2>3. ASSUME q <= -2 PROVE FALSE
    <3>1. m * q <= m * (-2)
      BY <1>0, <2>1, <2>3
    <3> QED
      BY <1>0, <2>1, <3>1
  <2> QED
    BY <2>1, <2>2, <2>3 DEF q
<1>4. (n % m) = IF n < 0 THEN n + m ELSE IF n < m THEN n ELSE n - m
  BY <1>0, <1>1, <1>2, <1>3
<1> QED
  BY <1>4, U64Assumption DEF Wrap, m

\* If the fee that comes out fits, nothing wrapped on the way to it.
LEMMA FitsUnwrapped ==
    ASSUME NEW p, NEW total \in 0..U64, NEW vb_change, NEW vb_plain, NEW dust \in {294, 546},
           p.amount \in 0..U64,
           fee_for(p.rate, vb_change) \in Nat, fee_for(p.rate, vb_plain) \in Nat,
           fee_for(p.rate, vb_plain) <= fee_for(p.rate, vb_change),
           fee_for(p.rate, vb_change) <= MaxFee,
           Selecting(p, total, vb_change, vb_plain, dust) # None,
           p.amount + Selecting(p, total, vb_change, vb_plain, dust).fee <= U64
    PROVE  p.amount + fee_for(p.rate, vb_change) <= U64
<1> DEFINE with    == fee_for(p.rate, vb_change)
           without == fee_for(p.rate, vb_plain)
           a == p.amount
           s == Selecting(p, total, vb_change, vb_plain, dust)
<1>0. /\ U64 \in Nat /\ U64 >= 1000 /\ MaxFee \in Nat /\ MaxFee + 546 <= U64
  BY U64Assumption DEF MaxFee
<1>1. /\ with \in Nat /\ without \in Nat /\ without <= with /\ with + 546 <= U64
      /\ a \in Nat /\ a <= U64 /\ total \in Nat /\ total <= U64
  BY <1>0
<1>2. s.fee = with \/ s.fee = Wrap(total - a)
  BY DEF Selecting
<1> SUFFICES ASSUME a + with > U64 PROVE FALSE
  BY <1>0, <1>1
<1>3. s.fee # with
  BY <1>0, <1>1
<1>4. /\ ~(total < Wrap(a + with))
      /\ ~(Wrap(total - a - with) >= dust)
      /\ s.fee = Wrap(total - a)
  <2>1. ASSUME Wrap(total - a - with) >= dust PROVE FALSE
    BY <1>3, <2>1 DEF Selecting
  <2> QED
    BY <1>2, <1>3, <2>1 DEF Selecting
<1> HIDE DEF with, without, a, s
<1>5. Wrap(a + with) = a + with - (U64 + 1)
  BY <1>0, <1>1, Wrapping
<1>6. total - a - with < 0 /\ total - a - with >= -(U64 + 1)
  BY <1>0, <1>1, <1>4, <1>5
<1>7. Wrap(total - a - with) = total - a - with + (U64 + 1)
  BY <1>0, <1>1, <1>6, Wrapping
<1>8. total - a < 0
  BY <1>0, <1>1, <1>4, <1>7
<1>9. Wrap(total - a) = total - a + (U64 + 1)
  BY <1>0, <1>1, <1>8, Wrapping
<1>10. a + s.fee <= U64
  BY DEF a, s
<1> QED
  BY <1>0, <1>1, <1>4, <1>9, <1>10

\* Coins worth an amount and its fee with change do for it, whether or not the sum
\* is more than saturates.
LEMMA EnoughIsSelected ==
    ASSUME NEW p, NEW sum \in Nat, NEW vb_change, NEW vb_plain, NEW dust \in {294, 546},
           p.amount \in 0..U64,
           fee_for(p.rate, vb_change) \in Nat, fee_for(p.rate, vb_plain) \in Nat,
           fee_for(p.rate, vb_plain) <= fee_for(p.rate, vb_change),
           fee_for(p.rate, vb_change) <= MaxFee,
           vb_change \in Int, vb_plain \in Int,
           sum >= p.amount + fee_for(p.rate, vb_change)
    PROVE  Selecting(p, Saturate(sum), vb_change, vb_plain, dust) # None
<1> DEFINE with    == fee_for(p.rate, vb_change)
           without == fee_for(p.rate, vb_plain)
           a == p.amount
           total == Saturate(sum)
<1>0. /\ U64 \in Nat /\ U64 >= 1000 /\ MaxFee \in Nat /\ MaxFee + 546 <= U64
  BY U64Assumption DEF MaxFee
<1>1. /\ with \in Nat /\ without \in Nat /\ without <= with /\ with + 546 <= U64
      /\ a \in Nat /\ a <= U64 /\ sum >= a + with
  BY <1>0
<1>2. ~(total < Wrap(a + with)) /\ total >= Wrap(a + without)
  <2> HIDE DEF with, without, a
  <2>1. CASE sum > U64
    <3>1. total = U64
      BY <2>1 DEF Saturate
    <3>2. Wrap(a + with) <= U64 /\ Wrap(a + without) <= U64
          /\ Wrap(a + with) \in Int /\ Wrap(a + without) \in Int
      BY <1>0, <1>1, Wrapping
    <3> QED
      BY <1>0, <3>1, <3>2
  <2>2. CASE sum <= U64
    <3>1. total = sum
      BY <1>0, <2>2 DEF Saturate
    <3>2. Wrap(a + with) = a + with /\ Wrap(a + without) = a + without
      BY <1>0, <1>1, <2>2, Wrapping
    <3> QED
      BY <1>0, <1>1, <2>2, <3>1, <3>2
  <2> QED
    BY <1>0, <2>1, <2>2
<1>w. Wrap(total - a - with) \in Int /\ Wrap(total - a) \in Int
  <2>1. total \in 0..U64
    BY <1>0 DEF Saturate
  <2> HIDE DEF total, a, with
  <2>2. total - a - with \in Int /\ total - a \in Int
    BY <1>0, <1>1, <2>1
  <2> QED
    BY <1>0, <2>2 DEF Wrap
<1>3. /\ None # [change |-> Wrap(total - a - with), fee |-> with, vbytes |-> vb_change]
      /\ None # [change |-> None, fee |-> Wrap(total - a), vbytes |-> vb_plain]
  <2> HIDE DEF total, a, with
  <2> QED
    BY <1>1, <1>w, NoneAssumption
<1> QED
  BY <1>2, <1>3 DEF Selecting

\* Places of the pool are worth what the coins in them are.
LEMMA PoolValue ==
    ASSUME NEW coins \in Seq(CoinType), NEW f \in Bijection(DOMAIN coins, DOMAIN coins),
           Pool(coins) = [k \in DOMAIN coins |-> coins[f[k]]],
           NEW S \in SUBSET DOMAIN coins
    PROVE  SumFunctionOnSet(Values(Pool(coins)), S) = SumFunctionOnSet(Values(coins), ImageOf(f, S))
<1> DEFINE D == DOMAIN coins
           w == Values(coins)
<1>1. IsFiniteSet(D) /\ w \in [D -> Nat]
  BY ValuesAreNatural
<1>2. f \in Injection(D, D) /\ \A a \in D : f[a] \in D
  BY DEF Bijection, Injection
<1>3. Values(Pool(coins)) = Along(w, f, D)
  BY <1>2 DEF Values, Along
<1>4. S \in SUBSET D
  OBVIOUS
<1> HIDE DEF D, w
<1>5. SumFunctionOnSet(Values(Pool(coins)), S) = SumFunctionOnSet(w, ImageOf(f, S))
  <2>1. SumFunctionOnSet(Along(w, f, D), S) = SumFunctionOnSet(w, ImageOf(f, S))
    BY <1>1, <1>2, <1>4, SumImage
  <2> QED
    BY <1>3, <2>1
<1> QED
  BY <1>5 DEF w

\* The front of the pool is worth no more than all the coins.
LEMMA FrontIsPart ==
    ASSUME NEW coins \in Seq(CoinType), NEW k \in 1..Len(coins)
    PROVE  ValueOf(Chosen(Pool(coins), k)) <= ValueOf(coins)
<1> DEFINE D == DOMAIN coins
           w == Values(coins)
           part == SumFunctionOnSet(Values(Pool(coins)), 1..k)
           all  == SumFunctionOnSet(w, D)
<1>1. PICK f \in Bijection(D, D) : Pool(coins) = [j \in D |-> coins[f[j]]]
  BY PoolIsSorted
<1>2. /\ D = 1..Len(coins) /\ IsFiniteSet(D) /\ w \in [D -> Nat] /\ 1..k \subseteq D
  <2>1. 1..k \subseteq 1..Len(coins)
    OBVIOUS
  <2> QED
    BY <2>1, ValuesAreNatural
<1>3. part = SumFunctionOnSet(w, ImageOf(f, 1..k))
  BY <1>1, <1>2, PoolValue
<1>4. ImageOf(f, 1..k) \in SUBSET D
  BY <1>1, <1>2 DEF Bijection, Injection, ImageOf
<1> HIDE DEF D, w, part
<1>5. part <= all
  BY <1>2, <1>3, <1>4, SumMore
<1>6. part \in Nat /\ all \in Nat
  BY <1>2, <1>3, <1>4, SumType
<1>7. ValueOf(Chosen(Pool(coins), k)) = Saturate(part)
  <2>1. Pool(coins) \in Seq(CoinType) /\ k \in 1..Len(Pool(coins))
    BY PoolIsCoins
  <2> QED
    BY <2>1, ChosenValue DEF part
<1>8. ValueOf(coins) = Saturate(all)
  BY ValueOfCoins DEF D, w
<1> HIDE DEF all
<1> QED
  BY <1>5, <1>6, <1>7, <1>8, U64Assumption DEF Saturate

\* The first k of the pool are k coins, worth what their sum saturates to, and are
\* weighed as such.
LEMMA FrontIs ==
    ASSUME NEW p \in PaymentType, NEW coins \in Seq(CoinType), NEW k \in 1..Len(coins)
    PROVE  /\ k \in Nat
           /\ SumFunctionOnSet(Values(Pool(coins)), 1..k) \in Nat
           /\ ValueOf(Chosen(Pool(coins), k))
                 = Saturate(SumFunctionOnSet(Values(Pool(coins)), 1..k))
           /\ ValueOf(Chosen(Pool(coins), k)) \in 0..U64
           /\ Len(Chosen(Pool(coins), k)) = k
           /\ FrontOf(p, coins, k) = Selecting(p, ValueOf(Chosen(Pool(coins), k)),
                                       WithChange(p, k), Plain(p, k), dust_threshold(p.change_to))
<1> DEFINE pool == Pool(coins)
<1>1. pool \in Seq(CoinType) /\ k \in 1..Len(pool) /\ k \in Nat
  <2>1. pool \in Seq(CoinType) /\ Len(pool) = Len(coins)
    BY PoolIsCoins
  <2> QED
    BY <2>1
<1> HIDE DEF pool
<1>2. /\ Len(Chosen(pool, k)) = k
      /\ ValueOf(Chosen(pool, k)) = Saturate(SumFunctionOnSet(Values(pool), 1..k))
      /\ SumFunctionOnSet(Values(pool), 1..k) \in Nat
  BY <1>1, ChosenValue
<1>3. ValueOf(Chosen(pool, k)) \in 0..U64
  BY <1>2, U64Assumption DEF Saturate
<1> QED
  BY <1>1, <1>2, <1>3 DEF pool, FrontOf, Selected

\* Of a selection whose fee fits: every satoshi of the inputs is accounted for, and
\* nothing wrapped when they were weighed.
LEMMA SelectionAccounts ==
    ASSUME NEW p \in PaymentType, NEW coins \in Seq(CoinType),
           select(p, coins).ok, p.amount + select(p, coins).fee <= U64
    PROVE  LET s == select(p, coins) IN
             /\ ValueOf(s.inputs) = p.amount + ChangeOf(s) + s.fee
             /\ s.fee >= fee_for(p.rate, s.vbytes)
             /\ s.change # None => s.change >= dust_threshold(p.change_to)
             /\ s.change = None =>
                  s.fee < fee_for(p.rate, WithChange(p, Len(s.inputs))) + dust_threshold(p.change_to)
<1> DEFINE s == select(p, coins)
<1>1. PICK k \in 1..Len(coins) :
         /\ FrontOf(p, coins, k) # None
         /\ s = [ok |-> TRUE, inputs |-> Chosen(Pool(coins), k),
                 change |-> FrontOf(p, coins, k).change,
                 fee |-> FrontOf(p, coins, k).fee,
                 vbytes |-> FrontOf(p, coins, k).vbytes]
  BY SelectIsFirst
<1> DEFINE total == ValueOf(Chosen(Pool(coins), k))
           full  == WithChange(p, k)
           plain == Plain(p, k)
           dust  == dust_threshold(p.change_to)
           f == Selecting(p, total, full, plain, dust)
<1>2. /\ s.inputs = Chosen(Pool(coins), k) /\ s.change = f.change
      /\ s.fee = f.fee /\ s.vbytes = f.vbytes /\ f # None
  <2>1. FrontOf(p, coins, k) = f
    BY FrontIs
  <2> QED
    BY <1>1, <2>1
<1>3. total \in 0..U64 /\ Len(s.inputs) = k /\ k \in Nat
  BY <1>2, FrontIs
<1>4. /\ fee_for(p.rate, full) \in Nat /\ fee_for(p.rate, plain) \in Nat
      /\ fee_for(p.rate, plain) <= fee_for(p.rate, full)
      /\ fee_for(p.rate, full) <= MaxFee
      /\ dust \in {294, 546} /\ p.amount \in 0..U64
  <2>1. p.amount \in 0..U64
    BY DEF PaymentType
  <2>2. /\ fee_for(p.rate, WithChange(p, k)) \in Nat /\ fee_for(p.rate, Plain(p, k)) \in Nat
        /\ fee_for(p.rate, Plain(p, k)) <= fee_for(p.rate, WithChange(p, k))
        /\ fee_for(p.rate, WithChange(p, k)) <= MaxFee
        /\ dust_threshold(p.change_to) \in {294, 546}
    BY <1>3, FeesOfSizes
  <2> QED
    BY <2>1, <2>2
<1>5. p.amount + f.fee <= U64
  BY <1>2
<1> HIDE DEF s, total, full, plain, dust
<1>6. p.amount + fee_for(p.rate, full) <= U64
  BY <1>2, <1>3, <1>4, <1>5, FitsUnwrapped
<1>7. /\ total = p.amount + ChangeOf(f) + f.fee
      /\ f.fee >= fee_for(p.rate, f.vbytes)
      /\ f.change # None => f.change >= dust
      /\ f.change = None => f.fee < fee_for(p.rate, full) + dust
  <2>1. dust \in Nat
    BY <1>4
  <2> QED
    BY <1>2, <1>3, <1>4, <1>6, <2>1, NoneAssumption, SelectingAccounts
<1>8. ChangeOf(s) = ChangeOf(f)
  BY <1>2 DEF ChangeOf
<1> HIDE DEF f
<1>9. /\ ValueOf(s.inputs) = p.amount + ChangeOf(s) + s.fee
      /\ s.fee >= fee_for(p.rate, s.vbytes)
      /\ s.change # None => s.change >= dust
      /\ s.change = None => s.fee < fee_for(p.rate, WithChange(p, Len(s.inputs))) + dust
  BY <1>2, <1>3, <1>7, <1>8 DEF total, full
<1> QED
  BY <1>9 DEF s, dust

\* The figures of any selection, fitting or not.
LEMMA SelectionType ==
    ASSUME NEW p \in PaymentType, NEW coins \in Seq(CoinType), select(p, coins).ok
    PROVE  /\ select(p, coins).fee \in Nat
           /\ select(p, coins).change # None => select(p, coins).change \in Nat
           /\ select(p, coins).inputs \in Seq(CoinType)
           /\ ValueOf(select(p, coins).inputs) <= ValueOf(coins)
<1> DEFINE s == select(p, coins)
<1>1. PICK k \in 1..Len(coins) :
         /\ FrontOf(p, coins, k) # None
         /\ s = [ok |-> TRUE, inputs |-> Chosen(Pool(coins), k),
                 change |-> FrontOf(p, coins, k).change,
                 fee |-> FrontOf(p, coins, k).fee,
                 vbytes |-> FrontOf(p, coins, k).vbytes]
  BY SelectIsFirst
<1> DEFINE total == ValueOf(Chosen(Pool(coins), k))
           full  == WithChange(p, k)
           plain == Plain(p, k)
           dust  == dust_threshold(p.change_to)
           f == Selecting(p, total, full, plain, dust)
<1>2. /\ s.inputs = Chosen(Pool(coins), k) /\ s.change = f.change
      /\ s.fee = f.fee /\ f # None
  <2>1. FrontOf(p, coins, k) = f
    BY FrontIs
  <2> QED
    BY <1>1, <2>1
<1>3. total \in 0..U64 /\ k \in Nat
  BY FrontIs
<1>4. fee_for(p.rate, full) \in Nat /\ p.amount \in 0..U64
  <2>1. k \in Nat
    BY <1>3
  <2> QED
    BY <2>1, FeesOfSizes DEF PaymentType
<1>5. f.fee \in Nat /\ (f.change # None => f.change \in Nat)
  <2> HIDE DEF total, full, plain, dust
  <2>1. ASSUME NEW n \in Int PROVE Wrap(n) \in Nat
    BY U64Assumption DEF Wrap
  <2>2. Wrap(total - p.amount) \in Nat /\ Wrap(total - p.amount - fee_for(p.rate, full)) \in Nat
    <3>1. total - p.amount \in Int /\ total - p.amount - fee_for(p.rate, full) \in Int
      BY <1>3, <1>4, U64Assumption
    <3> QED
      BY <2>1, <3>1
  <2>3. \/ f = [change |-> Wrap(total - p.amount - fee_for(p.rate, full)),
                fee |-> fee_for(p.rate, full), vbytes |-> full]
        \/ f = [change |-> None, fee |-> Wrap(total - p.amount), vbytes |-> plain]
    BY <1>2 DEF Selecting
  <2> QED
    BY <1>4, <2>2, <2>3
<1>6. s.inputs \in Seq(CoinType)
  <2>1. Pool(coins) \in Seq(CoinType) /\ k \in 1..Len(Pool(coins))
    BY PoolIsCoins
  <2> QED
    BY <1>2, <2>1, ChosenValue
<1>7. total <= ValueOf(coins)
  BY FrontIsPart
<1> QED
  BY <1>2, <1>5, <1>6, <1>7 DEF s, total

\* Confirmed coins come first in the pool, and their values fall.
LEMMA ConfirmedFirst ==
    ASSUME NEW coins \in Seq(CoinType), NEW c \in Nat,
           c = Cardinality({i \in DOMAIN coins : Pool(coins)[i].confirmed})
    PROVE  /\ c <= Len(coins)
           /\ {i \in DOMAIN coins : Pool(coins)[i].confirmed} = 1..c
           /\ \A i, j \in 1..c : i <= j => Values(Pool(coins))[i] >= Values(Pool(coins))[j]
<1> DEFINE pool == Pool(coins)
           n == Len(coins)
           C == {i \in 1..n : pool[i].confirmed}
<1>1. pool \in Seq(CoinType) /\ DOMAIN pool = 1..n /\ n \in Nat /\ DOMAIN coins = 1..n
  BY PoolIsCoins
<1>2. ASSUME NEW i \in 1..n PROVE pool[i].value \in Nat /\ pool[i].confirmed \in BOOLEAN
  <2>1. pool[i] \in CoinType
    BY <1>1
  <2> QED
    BY <2>1, U64Assumption DEF CoinType
<1>3. ASSUME NEW i \in 1..n, NEW j \in 1..n, i < j PROVE ~Ahead(pool[j], pool[i])
  <2>1. PICK f \in Bijection(DOMAIN coins, DOMAIN coins) :
           /\ pool = [k \in DOMAIN coins |-> coins[f[k]]]
           /\ \A k, l \in DOMAIN coins : k < l => ~Ahead(coins[f[l]], coins[f[k]])
    BY PoolIsSorted
  <2>2. i \in DOMAIN coins /\ j \in DOMAIN coins
    BY <1>1
  <2>3. pool[i] = coins[f[i]] /\ pool[j] = coins[f[j]]
    BY <2>1, <2>2
  <2> QED
    BY <1>3, <2>1, <2>2, <2>3
<1> HIDE DEF pool, n
<1>4. ASSUME NEW i \in 1..n, NEW j \in C, i < j PROVE i \in C
  BY <1>2, <1>3, <1>4 DEF Ahead
<1>5. c = Cardinality(C) /\ C \in SUBSET (1..n)
  BY <1>1 DEF pool
<1>6. C = 1..c /\ c <= n
  <2> HIDE DEF C
  <2>2. CASE C = {}
    <3>1. c = 0
      BY <1>5, <2>2, FS_EmptySet
    <3>2. 1..0 = {}
      OBVIOUS
    <3>3. C = 1..c
      BY <2>2, <3>1, <3>2, Zenon
    <3>4. c <= n
      BY <1>1, <3>1
    <3> QED
      BY <3>3, <3>4, Zenon
  <2>3. CASE C # {}
    <3>1. PICK m \in C : \A x \in C : x <= m
      BY <1>1, <1>5, <2>3, Greatest
    <3>2. m \in 1..n
      BY <1>5
    <3>3. C = 1..m
      <4>1. ASSUME NEW i \in 1..m PROVE i \in C
        <5>1. i \in 1..n
          BY <1>1, <3>2
        <5> QED
          BY <1>1, <1>4, <3>1, <3>2, <5>1
      <4>2. ASSUME NEW i \in C PROVE i \in 1..m
        BY <1>5, <3>1
      <4> QED
        BY <4>1, <4>2
    <3>4. Cardinality(1..m) = m
      BY <3>2, <1>1, FS_Interval
    <3>5. c = m
      BY <1>5, <3>3, <3>4
    <3> QED
      BY <1>1, <3>2, <3>3, <3>5
  <2> QED
    BY <2>2, <2>3
<1>7. ASSUME NEW i \in 1..c, NEW j \in 1..c, i <= j
      PROVE  Values(pool)[i] >= Values(pool)[j]
  <2>1. i \in C /\ j \in C /\ i \in 1..n /\ j \in 1..n
    BY <1>6
  <2>2. Values(pool)[i] = pool[i].value /\ Values(pool)[j] = pool[j].value
    BY <1>1, <2>1 DEF Values
  <2>3. CASE i = j
    BY <1>2, <2>1, <2>2, <2>3
  <2>4. CASE i < j
    BY <1>2, <1>3, <2>1, <2>2, <2>4 DEF Ahead
  <2> QED
    BY <1>1, <1>7, <2>1, <2>3, <2>4
<1> QED
  BY <1>1, <1>6, <1>7 DEF pool, n

\* Any of the confirmed coins come to no more than as many of the first of the pool.
LEMMA FirstConfirmedAreMost ==
    ASSUME NEW coins \in Seq(CoinType),
           NEW S \in SUBSET {i \in DOMAIN coins : coins[i].confirmed}, S # {}
    PROVE  /\ Cardinality(S) \in 1..Len(coins)
           /\ \A i \in 1..Cardinality(S) : Pool(coins)[i].confirmed
           /\ SumFunctionOnSet(Values(coins), S)
                 <= SumFunctionOnSet(Values(Pool(coins)), 1..Cardinality(S))
<1> DEFINE pool == Pool(coins)
           D == DOMAIN coins
           C == {i \in D : pool[i].confirmed}
           c == Cardinality(C)
           v == Values(pool)
<1>1. PICK f \in Bijection(D, D) : pool = [k \in D |-> coins[f[k]]]
  BY PoolIsSorted
<1> DEFINE T == {k \in D : f[k] \in S}
<1>2. IsFiniteSet(D) /\ D = 1..Len(coins) /\ Len(coins) \in Nat
  BY ValuesAreNatural
<1>3. /\ f \in [D -> D] /\ \A a, b \in D : f[a] = f[b] => a = b
      /\ \A j \in D : \E k \in D : f[k] = j
  BY <1>1 DEF Bijection, Injection, Surjection, IsInjective
<1>4. T \subseteq C /\ T \subseteq D /\ S \subseteq D
  BY <1>1, <1>3
<1>5. ImageOf(f, T) = S
  BY <1>3, <1>4 DEF ImageOf
<1>6. IsFiniteSet(C) /\ c \in Nat /\ IsFiniteSet(T)
  BY <1>2, <1>4, FS_Subset, FS_CardinalityType
<1>7. C = 1..c /\ c <= Len(coins) /\ \A i, j \in 1..c : i <= j => v[i] >= v[j]
  BY <1>6, ConfirmedFirst
<1>8. SumFunctionOnSet(v, T) = SumFunctionOnSet(Values(coins), S)
  <2> HIDE DEF T, v
  <2>1. SumFunctionOnSet(v, T) = SumFunctionOnSet(Values(coins), ImageOf(f, T))
    BY <1>1, <1>4, PoolValue DEF v
  <2> QED
    BY <1>5, <2>1
<1>9. Cardinality(T) = Cardinality(S)
  <2> DEFINE g == [k \in T |-> f[k]]
  <2>1. g \in Bijection(T, S)
    <3>1. g \in [T -> S]
      OBVIOUS
    <3>2. \A a, b \in T : g[a] = g[b] => a = b
      BY <1>3, <1>4
    <3>3. \A j \in S : \E k \in T : g[k] = j
      BY <1>3, <1>4
    <3> HIDE DEF g, T
    <3> QED
      BY <3>1, <3>2, <3>3 DEF Bijection, Injection, Surjection, IsInjective
  <2> HIDE DEF T, g
  <2>2. ExistsBijection(T, S)
    BY <2>1 DEF ExistsBijection
  <2> QED
    BY <1>6, <2>2, FS_Bijection
<1>10. FallingTo(v, D, c)
  <2>1. pool \in Seq(CoinType) /\ DOMAIN pool = D
    BY PoolIsCoins
  <2>2. v \in [D -> Nat]
    BY <2>1, ValuesAreNatural
  <2> QED
    BY <1>7, <2>2 DEF FallingTo
<1> DEFINE m == Cardinality(S)
<1> HIDE DEF T, C, c, v, D, pool
<1>12. m \in 0..c /\ SumFunctionOnSet(v, T) <= SumFunctionOnSet(v, 1..m)
  <2>1. T \in SUBSET (1..c)
    BY <1>4, <1>7
  <2> QED
    BY <1>2, <1>6, <1>9, <1>10, <2>1, FirstOfAllAreMost
<1>13. m # 0
  <2>1. IsFiniteSet(S)
    BY <1>2, <1>4, FS_Subset
  <2> QED
    BY <2>1, FS_EmptySet
<1>14. 1..m \subseteq 1..c
  BY <1>6, <1>12
<1>17. SumFunctionOnSet(Values(coins), S) <= SumFunctionOnSet(v, 1..m)
  BY <1>8, <1>12
<1>18. m \in 1..Len(coins)
  BY <1>2, <1>6, <1>7, <1>12, <1>13
<1>19. \A i \in 1..m : pool[i].confirmed
  BY <1>7, <1>14 DEF C
<1> QED
  BY <1>17, <1>18, <1>19 DEF m, v, pool

\* If confirmed coins can pay and make change, no more coins are taken than that,
\* and none that is not confirmed.
LEMMA SelectionIsFewest ==
    ASSUME NEW p \in PaymentType, NEW coins \in Seq(CoinType), select(p, coins).ok,
           NEW S \in SUBSET {i \in DOMAIN coins : coins[i].confirmed}, S # {},
           SumFunctionOnSet(Values(coins), S)
              >= p.amount + fee_for(p.rate, WithChange(p, Cardinality(S)))
    PROVE  /\ Len(select(p, coins).inputs) <= Cardinality(S)
           /\ \A c \in Range(select(p, coins).inputs) : c.confirmed
<1> DEFINE m == Cardinality(S)
           sum == SumFunctionOnSet(Values(Pool(coins)), 1..m)
           full == WithChange(p, m)
           plain == Plain(p, m)
           dust == dust_threshold(p.change_to)
<1>1. /\ m \in 1..Len(coins) /\ \A i \in 1..m : Pool(coins)[i].confirmed
      /\ SumFunctionOnSet(Values(coins), S) <= sum
  BY FirstConfirmedAreMost
<1>2. /\ m \in Nat /\ sum \in Nat /\ ValueOf(Chosen(Pool(coins), m)) = Saturate(sum)
      /\ FrontOf(p, coins, m) = Selecting(p, ValueOf(Chosen(Pool(coins), m)), full, plain, dust)
  BY <1>1, FrontIs
<1>3. /\ fee_for(p.rate, full) \in Nat /\ fee_for(p.rate, plain) \in Nat
      /\ fee_for(p.rate, plain) <= fee_for(p.rate, full)
      /\ fee_for(p.rate, full) <= MaxFee
      /\ dust \in {294, 546}
  BY <1>2, FeesOfSizes
<1>4. p.amount \in 0..U64 /\ full \in Int /\ plain \in Int
  BY <1>2, SizesAreNatural DEF PaymentType
<1>5. SumFunctionOnSet(Values(coins), S) \in Nat
  <2>1. S \in SUBSET DOMAIN coins
    OBVIOUS
  <2> QED
    BY <2>1, ValuesAreNatural, SumType
<1>6. sum >= p.amount + fee_for(p.rate, full)
  <2>1. SumFunctionOnSet(Values(coins), S) >= p.amount + fee_for(p.rate, full)
    OBVIOUS
  <2> HIDE DEF sum, full
  <2> QED
    BY <1>1, <1>2, <1>3, <1>4, <1>5, <2>1
<1> HIDE DEF m, sum, full, plain, dust
<1>7. FrontOf(p, coins, m) # None
  BY <1>2, <1>3, <1>4, <1>6, EnoughIsSelected
<1>8. PICK k \in 1..Len(coins) :
         /\ \A j \in 1..Len(coins) : FrontOf(p, coins, j) # None => k <= j
         /\ select(p, coins).inputs = Chosen(Pool(coins), k)
  BY SelectIsFirst
<1>9. k <= m
  BY <1>1, <1>7, <1>8
<1>10. /\ Pool(coins) \in Seq(CoinType) /\ k \in 1..Len(Pool(coins))
  BY PoolIsCoins
<1>11. /\ Len(Chosen(Pool(coins), k)) = k /\ Chosen(Pool(coins), k) \in Seq(CoinType)
       /\ \A i \in 1..k : Chosen(Pool(coins), k)[i] = Pool(coins)[i]
  BY <1>10, ChosenValue
<1>12. ASSUME NEW x \in Range(Chosen(Pool(coins), k)) PROVE x.confirmed
  <2>1. PICK i \in 1..k : x = Chosen(Pool(coins), k)[i]
    BY <1>11 DEF Range
  <2>2. i \in 1..m
    BY <1>2, <1>9
  <2> QED
    BY <1>1, <1>11, <2>1, <2>2
<1> QED
  BY <1>8, <1>9, <1>11, <1>12 DEF m

\* What fits for an amount does for a smaller one.
LEMMA LessIsSelected ==
    ASSUME NEW p, NEW q, NEW total \in 0..U64, NEW vb_change, NEW vb_plain,
           NEW dust \in {294, 546},
           p.amount \in 0..U64, q.amount \in 0..p.amount, q.rate = p.rate,
           vb_change \in Int, vb_plain \in Int,
           fee_for(p.rate, vb_change) \in Nat, fee_for(p.rate, vb_plain) \in Nat,
           fee_for(p.rate, vb_plain) <= fee_for(p.rate, vb_change),
           fee_for(p.rate, vb_change) <= MaxFee,
           Selecting(p, total, vb_change, vb_plain, dust) # None,
           p.amount + fee_for(p.rate, vb_change) <= U64
    PROVE  Selecting(q, total, vb_change, vb_plain, dust) # None
<1>1. U64 \in Nat
  BY U64Assumption
<1>2. Wrap(p.amount + fee_for(p.rate, vb_change)) = p.amount + fee_for(p.rate, vb_change)
  BY <1>1, Wrapping
<1>3. ~(total < p.amount + fee_for(p.rate, vb_change))
  BY <1>2 DEF Selecting
<1>4. total >= q.amount + fee_for(q.rate, vb_change)
  BY <1>1, <1>3
<1>5. Saturate(total) = total /\ total \in Nat /\ q.amount \in 0..U64
  BY <1>1 DEF Saturate
<1> QED
  BY <1>4, <1>5, EnoughIsSelected

\* Nor does a selection need more than the same coins for a smaller amount.
LEMMA LessIsEnough ==
    ASSUME NEW p \in PaymentType, NEW coins \in Seq(CoinType),
           select(p, coins).ok, p.amount + select(p, coins).fee <= U64,
           NEW a \in dust_threshold(p.to)..p.amount
    PROVE  select([p EXCEPT !.amount = a], coins).ok
<1> DEFINE q == [p EXCEPT !.amount = a]
<1>1. PICK k \in 1..Len(coins) :
         FrontOf(p, coins, k) # None /\ select(p, coins).fee = FrontOf(p, coins, k).fee
  BY SelectIsFirst
<1> DEFINE total == ValueOf(Chosen(Pool(coins), k))
           full  == WithChange(p, k)
           plain == Plain(p, k)
           dust  == dust_threshold(p.change_to)
<1>2. /\ k \in Nat /\ total \in 0..U64
      /\ FrontOf(p, coins, k) = Selecting(p, total, full, plain, dust)
  BY FrontIs
<1>3. /\ fee_for(p.rate, full) \in Nat /\ fee_for(p.rate, plain) \in Nat
      /\ fee_for(p.rate, plain) <= fee_for(p.rate, full)
      /\ fee_for(p.rate, full) <= MaxFee
      /\ dust \in {294, 546} /\ dust_threshold(p.to) \in {294, 546}
  BY <1>2, FeesOfSizes
<1>4. /\ p.amount \in 0..U64 /\ a \in 0..p.amount /\ a \in 0..U64
      /\ full \in Int /\ plain \in Int
  <2>1. p.amount \in 0..U64
    BY DEF PaymentType
  <2>2. full \in Int /\ plain \in Int
    BY <1>2, SizesAreNatural
  <2>3. a \in 0..p.amount /\ a \in 0..U64
    BY <1>3, <2>1, U64Assumption
  <2> QED
    BY <2>1, <2>2, <2>3
<1>5. /\ q \in PaymentType /\ q.amount = a /\ q.to = p.to /\ q.change_to = p.change_to
      /\ q.rate = p.rate
  BY <1>4 DEF PaymentType
<1>6. WithChange(q, k) = full /\ Plain(q, k) = plain /\ dust_threshold(q.change_to) = dust
  BY <1>5 DEF WithChange, Plain
<1> HIDE DEF q, total, full, plain, dust
<1>7. p.amount + fee_for(p.rate, full) <= U64
  <2>1. p.amount + Selecting(p, total, full, plain, dust).fee <= U64
    BY <1>1, <1>2
  <2> QED
    BY <1>1, <1>2, <1>3, <1>4, <2>1, FitsUnwrapped
<1>8. Selecting(q, total, full, plain, dust) # None
  <2>1. Selecting(p, total, full, plain, dust) # None
    BY <1>1, <1>2
  <2>2. q.amount \in 0..p.amount
    BY <1>4, <1>5
  <2>3. total \in 0..U64 /\ dust \in {294, 546}
    BY <1>2, <1>3
  <2>4. /\ fee_for(p.rate, full) \in Nat /\ fee_for(p.rate, plain) \in Nat
        /\ fee_for(p.rate, plain) <= fee_for(p.rate, full)
        /\ fee_for(p.rate, full) <= MaxFee
        /\ q.rate = p.rate /\ p.amount \in 0..U64 /\ full \in Int /\ plain \in Int
    BY <1>3, <1>4, <1>5
  <2> QED
    BY <1>7, <2>1, <2>2, <2>3, <2>4, LessIsSelected
<1>9. FrontOf(q, coins, k) # None
  <2>1. FrontOf(q, coins, k)
          = Selecting(q, total, WithChange(q, k), Plain(q, k), dust_threshold(q.change_to))
    BY <1>5, FrontIs DEF total
  <2> QED
    BY <1>6, <1>8, <2>1
<1>10. ~(q.amount < dust_threshold(q.to))
  BY <1>3, <1>4, <1>5
<1>11. select(q, coins).ok
  BY <1>9, <1>10, SelectIsFirst
<1> QED
  BY <1>11 DEF q

---------------------------------------------------------------------------
(* What is reviewed is what was asked for.                                 *)

\* Until a quote is in nothing is held back, and while it is awaited the field is
\* the amount it was asked for; a request for everything ends with the first edit.
Untouched == /\ byHand => ~max_requested
             /\ step \in {"EnterAmount", "Quoting"} => held_back = None
             /\ step = "Quoting" => amount = asked
             /\ step = "Review" => \/ held_back = None /\ req = asked
                                   \/ held_back # None /\ max_requested

\* Nothing has been asked for at the start.
LEMMA UntouchedInit == Init => Untouched
  BY DEF Init, Opened, Untouched

\* Held back is the reserve of a quote, and a reserve is a number.
LEMMA UntouchedNext ==
    ASSUME Untouched, [Next]_vars, \A q \in Quotes : q.hold # None
    PROVE  Untouched'
<1>1. ASSUME NEW t \in Texts, Type(t) PROVE Untouched'
  BY <1>1 DEF Untouched, Type
<1>2. CASE request_max
  BY <1>2 DEF Untouched, request_max
<1>3. CASE Ask
  BY <1>3 DEF Untouched, Ask, field
<1>4. CASE PurseChanges
  BY <1>4 DEF Untouched, PurseChanges, field, review
<1>5. ASSUME NEW q \in Quotes, OnQuoted(q) PROVE Untouched'
  <2>1. CASE HoldsBack(q)
    <3>1. q.hold # None
      OBVIOUS
    <3> QED
      BY <1>5, <2>1, <3>1 DEF Untouched, OnQuoted, HoldsBack, reserve
  <2>2. CASE ~HoldsBack(q)
    BY <1>5, <2>2 DEF Untouched, OnQuoted
  <2> QED
    BY <2>1, <2>2
<1>6. ASSUME NEW r \in Refused, OnQuoteFailed(r) PROVE Untouched'
  BY <1>6 DEF Untouched, OnQuoteFailed, field
<1>7. CASE Confirm
  BY <1>7 DEF Untouched, Confirm, field, review
<1>8. CASE Sign
  BY <1>8 DEF Untouched, Sign, field
<1>9. CASE Reopen
  BY <1>9 DEF Untouched, Reopen
<1>10. CASE UNCHANGED vars
  BY <1>10 DEF Untouched, vars, field, review
<1> QED
  BY <1>1, <1>2, <1>3, <1>4, <1>5, <1>6, <1>7, <1>8, <1>9, <1>10 DEF Next

---------------------------------------------------------------------------
(* What is held back is what the network will ask, or more.                *)

\* A cost with figures that are numbers, which holds back what will be asked.
Covering(c) == /\ c.hold \in Nat /\ c.asks \in Nat
               /\ c.hold >= c.asks

\* TRON's surcharge is already a part of what is charged, and resources that were
\* not read are reckoned as none: what is burnt is never underestimated.
LEMMA TronCovers == ASSUME NEW coin \in BOOLEAN, NEW c \in TronCosts(coin) PROVE Covering(c)
<1> USE FeeAssumption
<1>1. PICK known \in BOOLEAN, priced \in BOOLEAN, n \in TronNodes(coin) :
        /\ n.penalty <= n.charged
        /\ c = LET burn == total_burn(TronFee(n, known, priced))
               IN Cost(burn, burn, IfRead(priced, Burned(n)))
  BY DEF TronCosts
<1> DEFINE f == TronFee(n, known, priced)
           r == account_resources(n)
           E == Less(f.energy_needed, f.available.energy)
           B == Less(f.bandwidth_needed, f.available.bandwidth)
           e == Less(n.charged, r.energy)
           b == Less(bandwidth_needed(n), r.bandwidth)
<1>2. /\ n.charged \in Nat /\ n.penalty \in Nat /\ n.raw_len \in Nat
      /\ n.limits.energy \in Nat /\ n.limits.energy_used \in Nat
      /\ n.limits.free \in Nat /\ n.limits.staked \in Nat /\ n.limits.net_used \in Nat
      /\ n.prices[1] \in Nat /\ n.prices[2] \in Nat
  <2>1. /\ Figures \subseteq Nat /\ Fees \subseteq Nat
    BY DEF Figures
  <2>2. n.charged \in Figures /\ n.penalty \in Figures
    BY DEF TronNodes, Figures
  <2>3. n.raw_len \in Fees /\ n.prices \in Fees \X Fees
    BY DEF TronNodes
  <2>4. n.limits \in [energy : Figures, energy_used : Fees, free : Figures, staked : Figures,
                     net_used : Figures]
    BY DEF TronNodes
  <2> HIDE FeeAssumption
  <2> QED
    BY <2>1, <2>2, <2>3, <2>4
<1>3. r.energy \in Nat /\ r.bandwidth \in Nat /\ bandwidth_needed(n) \in Nat
  BY <1>2 DEF account_resources, Less, bandwidth_needed
<1>4. /\ f.energy_needed = n.charged /\ f.bandwidth_needed = bandwidth_needed(n)
      /\ f.available.energy \in {0, r.energy} /\ f.available.bandwidth \in {0, r.bandwidth}
      /\ f.prices[1] \in Nat /\ f.prices[2] \in Nat
      /\ priced => f.prices = n.prices
  <2>1. base(n) + n.penalty = n.charged
    BY <1>1, <1>2 DEF base, Less
  <2> QED
    BY <1>2, <2>1 DEF TronFee
<1>5. E \in Nat /\ B \in Nat /\ e \in Nat /\ b \in Nat /\ E >= e /\ B >= b
  BY <1>2, <1>3, <1>4 DEF Less
<1> HIDE DEF f, r, E, B, e, b
<1>6. total_burn(f) = E * f.prices[1] + B * f.prices[2]
  BY DEF total_burn, energy_burn, bandwidth_burn, E, B
<1>7. Burned(n) = e * n.prices[1] + b * n.prices[2]
  BY DEF Burned, e, b, r
<1>8. total_burn(f) \in Nat /\ Burned(n) \in Nat
  <2>1. /\ E * f.prices[1] \in Nat /\ B * f.prices[2] \in Nat
        /\ e * n.prices[1] \in Nat /\ b * n.prices[2] \in Nat
    BY <1>2, <1>4, <1>5, Products
  <2> QED
    BY <1>6, <1>7, <2>1
<1>9. priced => total_burn(f) >= Burned(n)
  <2> SUFFICES ASSUME priced PROVE total_burn(f) >= Burned(n)
    OBVIOUS
  <2>1. E * n.prices[1] >= e * n.prices[1] /\ B * n.prices[2] >= b * n.prices[2]
    BY <1>2, <1>5, Products
  <2>2. /\ E * n.prices[1] \in Nat /\ B * n.prices[2] \in Nat
        /\ e * n.prices[1] \in Nat /\ b * n.prices[2] \in Nat
    BY <1>2, <1>5, Products
  <2> QED
    BY <1>4, <1>6, <1>7, <2>1, <2>2
<1>10. c = Cost(total_burn(f), total_burn(f), IfRead(priced, Burned(n)))
  BY <1>1 DEF f
<1> QED
  BY <1>8, <1>9, <1>10 DEF Covering, Cost, IfRead

\* Under EIP-1559 the ceiling is held back and not what the gas will likely cost.
LEMMA EvmCovers == ASSUME NEW c \in EvmCosts PROVE Covering(c)
<1> USE FeeAssumption
<1>1. PICK tipped \in BOOLEAN, posted \in BOOLEAN, n \in EvmNodes :
        LET bid == IfRead(tipped, n.tip)
            fee == EvmFee(n, bid, IfRead(posted, n.l1))
        IN c = Cost(fee.cost, fee.hold,
                    IfRead(posted, gas_limit(n) * max_per_gas(n, bid) + n.l1))
  BY DEF EvmCosts
<1> DEFINE bid == IfRead(tipped, n.tip)
           gas == gas_limit(n) * max_per_gas(n, bid)
<1>2. gas_limit(n) \in Nat /\ max_per_gas(n, bid) \in Nat /\ n.l1 \in Nat
  <2>1. /\ n.estimate \in Nat /\ n.base_fee \in Nat /\ n.tip \in Nat /\ n.l1 \in Nat
        /\ n.legacy \in BOOLEAN
    <3>1. Figures \subseteq Nat
      BY DEF Figures
    <3>2. /\ n.estimate \in Fees /\ n.base_fee \in Figures /\ n.tip \in Figures
          /\ n.l1 \in Figures
      BY DEF EvmNodes
    <3>3. n.legacy \in BOOLEAN
      BY DEF EvmNodes
    <3> QED
      BY <3>1, <3>2, <3>3
  <2>2. bid \in Nat
    BY <2>1 DEF IfRead
  <2>3. gas_limit(n) \in Nat
    BY <2>1 DEF gas_limit
  <2>4. max_per_gas(n, bid) \in Nat
    <3> HIDE DEF bid
    <3> QED
      BY <2>1, <2>2 DEF max_per_gas
  <2> QED
    BY <2>1, <2>3, <2>4
<1>3. gas \in Nat
  BY <1>2, Products
<1>4. /\ c.hold = gas + IF posted THEN n.l1 ELSE 0
      /\ c.asks = IF posted THEN gas + n.l1 ELSE 0
  BY <1>1 DEF EvmFee, Cost, IfRead
<1> QED
  BY <1>2, <1>3, <1>4 DEF Covering

\* Rent that was asked for is in it; what is assumed was not asked.
LEMMA SolanaCovers == ASSUME NEW coin \in BOOLEAN, NEW c \in SolanaCosts(coin) PROVE Covering(c)
<1> USE FeeAssumption
<1>1. PICK exists \in BOOLEAN, read \in BOOLEAN, r \in Fees, price \in Figures :
        LET rent == IF coin \/ exists THEN 0 ELSE IF read THEN r ELSE TOKEN_ACCOUNT_RENT
            fee  == fee_lamports(Budget(coin, exists), price) + rent
        IN c = Cost(fee, fee, IfRead(read, fee))
  BY DEF SolanaCosts
<1> DEFINE rent == IF coin \/ exists THEN 0 ELSE IF read THEN r ELSE TOKEN_ACCOUNT_RENT
           units == Budget(coin, exists)
<1>2. units \in Nat /\ price \in Nat /\ rent \in Nat
  BY DEF Budget, Figures
<1>3. fee_lamports(units, price) \in Nat
  <2>1. units * price \in Nat
    BY <1>2, Products
  <2>2. (units * price + MICRO - 1) \div MICRO \in Nat
    BY <2>1
  <2> QED
    BY <2>2 DEF fee_lamports
<1> QED
  BY <1>1, <1>2, <1>3 DEF Cost, Covering, IfRead

\* An allowance is all that can be asked.
LEMMA AllowancesCover ==
    ASSUME NEW coin \in BOOLEAN, NEW c \in TonCosts(coin) \cup AptosCosts \cup SuiCosts
    PROVE  Covering(c)
<1> USE FeeAssumption
<1>1. ASSUME c \in TonCosts(coin) PROVE Covering(c)
  BY <1>1 DEF TonCosts, Cost, Covering
<1>2. ASSUME c \in AptosCosts PROVE Covering(c)
  <2>1. PICK price \in Fees : c.hold = MAX_GAS_TRANSFER * price /\ c.asks = c.hold
    BY <1>2 DEF AptosCosts, Cost
  <2> QED
    BY <2>1, Products DEF Covering
<1>3. ASSUME c \in SuiCosts PROVE Covering(c)
  BY <1>3 DEF SuiCosts, Cost, Covering
<1> QED
  BY <1>1, <1>2, <1>3

\* On every chain that keeps accounts, no less is held back than will be asked.
LEMMA CostsCover ==
    ASSUME NEW k \in AllKinds \ {"bitcoin"}, NEW coin \in BOOLEAN, NEW c \in Costs(k, coin)
    PROVE  Covering(c)
<1>1. CASE coin
  <2>1. \/ c \in TronCosts(TRUE) \/ c \in EvmCosts \/ c \in SolanaCosts(TRUE)
        \/ c \in TonCosts(TRUE) \cup AptosCosts \cup SuiCosts
    <3>1. c \in CoinCosts[k]
      BY <1>1 DEF Costs
    <3>2. CASE k = "tron"
      BY <3>1, <3>2 DEF CoinCosts
    <3>3. CASE k = "evm"
      BY <3>1, <3>3 DEF CoinCosts
    <3>4. CASE k = "solana"
      BY <3>1, <3>4 DEF CoinCosts
    <3>5. CASE k = "ton"
      BY <3>1, <3>5 DEF CoinCosts
    <3>6. CASE k = "aptos"
      BY <3>1, <3>6 DEF CoinCosts
    <3>7. CASE k = "sui"
      BY <3>1, <3>7 DEF CoinCosts
    <3> QED
      BY <3>2, <3>3, <3>4, <3>5, <3>6, <3>7 DEF AllKinds
  <2> QED
    BY <2>1, TronCovers, EvmCovers, SolanaCovers, AllowancesCover
<1>2. CASE ~coin
  <2>1. \/ c \in TronCosts(FALSE) \/ c \in EvmCosts \/ c \in SolanaCosts(FALSE)
        \/ c \in TonCosts(FALSE) \cup AptosCosts \cup SuiCosts
    <3>1. c \in TokenCosts[k]
      BY <1>2 DEF Costs
    <3>2. CASE k = "tron"
      BY <3>1, <3>2 DEF TokenCosts
    <3>3. CASE k = "evm"
      BY <3>1, <3>3 DEF TokenCosts
    <3>4. CASE k = "solana"
      BY <3>1, <3>4 DEF TokenCosts
    <3>5. CASE k = "ton"
      BY <3>1, <3>5 DEF TokenCosts
    <3>6. CASE k = "aptos"
      BY <3>1, <3>6 DEF TokenCosts
    <3>7. CASE k = "sui"
      BY <3>1, <3>7 DEF TokenCosts
    <3> QED
      BY <3>2, <3>3, <3>4, <3>5, <3>6, <3>7 DEF AllKinds
  <2> QED
    BY <2>1, TronCovers, EvmCovers, SolanaCovers, AllowancesCover
<1> QED
  BY <1>1, <1>2

---------------------------------------------------------------------------
(* The inductive invariant.                                                *)

Typed == /\ kind \in Kinds /\ native \in BOOLEAN
         /\ kind = "bitcoin" => native /\ purse \in Seq(CoinType)
         /\ kind # "bitcoin" => purse \in Nat
         /\ shown \in Nat \cup {None}
         /\ amount \in Nat /\ asked \in Nat

\* A quote of Bitcoin is a selection of the coins there are, for the amount asked.
CoinsChosen(q) == /\ q.payment \in PaymentType /\ q.payment.amount = asked
                  /\ q.selection = select(q.payment, purse) /\ q.selection.ok
                  /\ q.cost = q.selection.fee /\ q.hold = q.cost
                  /\ q.balance = Holding

\* What a quote for the amount asked is, before anything is held back.
Quoted(q) == /\ q.amount = asked /\ Covering(q) /\ q.balance \in Nat \cup {None}
             /\ kind = "bitcoin" => CoinsChosen(q)
             /\ kind # "bitcoin" => \E c, balance : q = Quote(c, balance)
             /\ kind = "tron" => q.balance = None
             /\ kind = "sui" => q.balance # None /\ q.balance >= needed(q)

\* A quote under review: its figures, the amount it was told and the one that will
\* be signed; Sui's and Bitcoin's stay with the amount their coins were chosen for.
Reviewed == /\ quote.amount \in Nat /\ req \in Nat
            /\ Covering(quote) /\ quote.balance \in Nat \cup {None}
            /\ kind \notin {"tron", "sui", "bitcoin"} => quote.amount = req
            /\ kind = "tron" => quote.balance = None
            /\ kind = "sui" => /\ quote.balance # None
                               /\ quote.balance >= needed(quote)
                               /\ quote.balance >= quote.hold + IF native THEN req ELSE 0
            /\ kind = "bitcoin" => CoinsChosen(quote)
            /\ held_back = None => req = asked
            /\ held_back # None => /\ native /\ held_back = quote.hold
                                   /\ HoldFrom(quote) \in Nat
                                   /\ req = HoldFrom(quote) - held_back

IInv == /\ Typed /\ Untouched
        /\ step \in {"Review", "Authorize", "Broadcasting"} => Reviewed
        /\ Approved => affordable(quote) # "no"

\* Whatever is typed, what goes on is a number.
LEMMA TypedIsNumber == ASSUME NEW t PROVE AmountOf(t) \in Nat
<1>1. A!parse(t, Decimals) \in 1..I128 \cup {None}
  BY SMT DEF A!parse
<1>2. CASE A!parse(t, Decimals) = None
  BY <1>2 DEF AmountOf
<1>3. CASE A!parse(t, Decimals) # None
  BY <1>1, <1>3 DEF AmountOf
<1> QED
  BY <1>2, <1>3

\* What the address holds is a number, of coins or of an account.
LEMMA HoldingIsNumber == Typed => Holding \in Nat
<1> SUFFICES ASSUME Typed PROVE Holding \in Nat
  OBVIOUS
<1>1. CASE kind = "bitcoin"
  <2>1. ValueOf(purse) \in 0..U64
    BY <1>1, ValueOfCoins DEF Typed
  <2> QED
    BY <1>1, <2>1, U64Assumption DEF Holding
<1>2. CASE kind # "bitcoin"
  BY <1>2 DEF Holding, Typed
<1> QED
  BY <1>1, <1>2

\* A quote of a chain that keeps accounts carries the figures of a cost.
LEMMA AccountsQuote ==
    ASSUME Typed, kind # "bitcoin", NEW q \in Quotes
    PROVE  Quoted(q)
<1>0. kind \in AllKinds \ {"bitcoin"} /\ native \in BOOLEAN /\ asked \in Nat
      /\ purse \in Nat
  BY KindAssumption DEF Typed
<1>1. PICK c \in Costs(kind, native), balance \in MayRead :
        /\ q = Quote(c, balance)
        /\ kind = "tron" => balance = None
        /\ kind = "sui" => /\ balance = purse
                           /\ purse >= c.hold + IF native THEN asked ELSE 0
  BY <1>0 DEF AllKinds, Quotes, MayRead, TronQuotes, EvmQuotes, SolanaQuotes, TonQuotes,
              AptosQuotes, SuiQuotes
<1>2. Covering(c)
  BY <1>0, <1>1, CostsCover
<1>3. Covering(q) /\ q.amount = asked /\ q.balance = balance /\ q.hold = c.hold
  BY <1>1, <1>2 DEF Quote, Covering
<1>4. kind = "sui" => q.balance # None /\ q.balance >= needed(q)
  BY <1>0, <1>1, <1>3, NoneAssumption DEF needed
<1> QED
  BY <1>0, <1>1, <1>3, <1>4 DEF Quoted, MayRead

\* A quote of Bitcoin is made of a selection that was made.
LEMMA BitcoinQuote ==
    ASSUME Typed, kind = "bitcoin", NEW q \in Quotes
    PROVE  Quoted(q)
<1>1. PICK t \in Tried :
         /\ t.selection.ok
         /\ q = [Quote(Cost(t.selection.fee, t.selection.fee, t.selection.fee), Holding)
                   EXCEPT !.payment = t.payment, !.selection = t.selection]
  BY DEF Quotes, BitcoinQuotes
<1>2. PICK p \in Payments : ~TooLarge /\ t = [payment |-> p, selection |-> select(p, purse)]
  BY DEF Tried
<1>3. p \in PaymentType /\ p.amount = asked
  <2>1. p.amount = asked /\ p.to \in Scripts /\ p.change_to \in Scripts
    BY DEF Payments, Scripts
  <2>2. asked \in 0..U64
    BY <1>2, U64Assumption DEF TooLarge, Typed
  <2>3. p.rate \in Nat
    BY AmountAssumption DEF Payments, from_milli
  <2>4. p = [to |-> p.to, change_to |-> p.change_to, amount |-> p.amount, rate |-> p.rate]
    BY DEF Payments
  <2> QED
    BY <2>1, <2>2, <2>3, <2>4 DEF PaymentType
<1>4. select(p, purse).fee \in Nat
  BY <1>1, <1>2, <1>3, SelectionType DEF Typed
<1>5. /\ q.amount = asked /\ q.payment = p /\ q.selection = select(p, purse)
      /\ q.cost = select(p, purse).fee /\ q.hold = q.cost /\ q.asks = q.cost
      /\ q.balance = Holding
  BY <1>1, <1>2 DEF Quote, Cost
<1>6. select(p, purse).ok
  BY <1>1, <1>2
<1> QED
  BY <1>3, <1>4, <1>5, <1>6, HoldingIsNumber DEF Quoted, Covering, CoinsChosen

\* So every quote is what is said of it.
LEMMA QuotesAreNumbers == ASSUME Typed, NEW q \in Quotes PROVE Quoted(q)
  BY AccountsQuote, BitcoinQuote

\* What an address may hold to begin with, and what may arrive.
LEMMA CoinsAreCoins == /\ \A k : k # "bitcoin" => Purses(k) \subseteq Nat
                       /\ Purses("bitcoin") \subseteq Seq(CoinType)
                       /\ Coins \subseteq CoinType
<1>1. Coins \subseteq CoinType
  BY AmountAssumption DEF CoinType
<1>2. Purses("bitcoin") \subseteq Seq(CoinType)
  <2> SUFFICES ASSUME NEW s \in Purses("bitcoin") PROVE s \in Seq(CoinType)
    OBVIOUS
  <2>1. PICK n \in 0..MaxCoins : s \in [1..n -> Coins]
    BY DEF Purses
  <2>2. n \in Nat /\ s \in [1..n -> CoinType]
    BY <1>1, <2>1, BoundAssumption
  <2> QED
    BY <2>2
<1> QED
  BY <1>1, <1>2, AmountAssumption DEF Purses

\* The invariant holds of a screen just opened.
LEMMA IInvInit == Init => IInv
<1> SUFFICES ASSUME Init PROVE IInv
  OBVIOUS
<1>1. /\ kind \in Kinds /\ native \in BOOLEAN /\ amount = 0 /\ asked = 0
      /\ kind = "bitcoin" => native
  BY DEF Init, Opened
<1>2. /\ kind = "bitcoin" => purse \in Seq(CoinType)
      /\ kind # "bitcoin" => purse \in Nat
  BY CoinsAreCoins DEF Init
<1>3. Holding \in Nat
  <2>1. CASE kind = "bitcoin"
    <3>1. ValueOf(purse) \in 0..U64
      BY <1>2, <2>1, ValueOfCoins
    <3> QED
      BY <2>1, <3>1, U64Assumption DEF Holding
  <2> QED
    BY <1>2, <2>1 DEF Holding
<1>4. shown \in {Holding, None} \cup Amounts
  BY DEF Init, Opened
<1>5. shown \in Nat \cup {None}
  BY <1>3, <1>4, AmountAssumption, U64Assumption
<1>6. Typed
  BY <1>1, <1>2, <1>5 DEF Typed
<1> QED
  BY <1>6, UntouchedInit DEF IInv, Init, Opened, Approved

\* The quote is reduced to what the reserve leaves, or taken as it is.
LEMMA QuoteIsReviewed ==
    ASSUME IInv, NEW q \in Quotes, OnQuoted(q)
    PROVE  Reviewed' /\ amount' \in Nat
<1>1. Quoted(q) /\ Typed /\ Untouched /\ step = "Quoting"
  BY QuotesAreNumbers DEF IInv, OnQuoted
<1>2. /\ kind' = kind /\ native' = native /\ shown' = shown /\ purse' = purse /\ asked' = asked
      /\ req' = amount'
  BY DEF OnQuoted
<1>3. kind = "bitcoin" /\ quote' = q => CoinsChosen(quote)'
  BY <1>1, <1>2 DEF Quoted, CoinsChosen, Holding
<1>4. CASE HoldsBack(q)
  <2>1. /\ HoldFrom(q) \in Nat /\ q.hold \in Nat /\ HoldFrom(q) > q.hold /\ native
        /\ amount' = HoldFrom(q) - q.hold
        /\ held_back' = q.hold
        /\ quote' = set_amount(q, amount')
    BY <1>1, <1>4 DEF OnQuoted, HoldsBack, HoldFrom, reserve, Quoted, Covering, Typed
  <2>2. amount' \in Nat
    BY <2>1
  <2>3. kind \in {"tron", "bitcoin", "sui"} => quote' = q
    BY <2>1 DEF set_amount
  <2>4. kind \notin {"tron", "bitcoin", "sui"} =>
           /\ quote' = [q EXCEPT !.amount = amount']
           /\ \E c, balance : q = Quote(c, balance)
    BY <1>1, <2>1 DEF set_amount, Quoted
  <2>5. quote'.hold = q.hold /\ quote'.asks = q.asks /\ quote'.balance = q.balance
    BY <2>3, <2>4 DEF Quote
  <2>6. kind \notin {"tron", "bitcoin", "sui"} => quote'.amount = amount'
    BY <2>4 DEF Quote
  <2>7. HoldFrom(quote)' = HoldFrom(q)
    BY <1>2, <2>5 DEF HoldFrom
  <2>8. quote'.amount \in Nat
    BY <1>1, <2>2, <2>3, <2>6 DEF Quoted, Typed
  <2>9. kind = "sui" => /\ quote'.balance # None
                        /\ quote'.balance >= needed(quote)'
                        /\ quote'.balance >= quote'.hold + IF native' THEN req' ELSE 0
    <3> SUFFICES ASSUME kind = "sui" PROVE /\ quote'.balance # None
                        /\ quote'.balance >= needed(quote)'
                        /\ quote'.balance >= quote'.hold + IF native' THEN req' ELSE 0
      OBVIOUS
    <3>1. quote' = q /\ HoldFrom(q) = q.balance
      BY <1>1, <2>3 DEF Quoted, HoldFrom
    <3> QED
      BY <1>1, <1>2, <2>1, <3>1 DEF Quoted, needed
  <2>10. Covering(quote)' /\ quote'.balance \in Nat \cup {None} /\ held_back' # None
         /\ (kind = "tron" => quote'.balance = None)
    BY <1>1, <2>1, <2>5, NoneAssumption DEF Quoted, Covering
  <2> QED
    BY <1>2, <1>3, <2>1, <2>2, <2>3, <2>5, <2>6, <2>7, <2>8, <2>9, <2>10 DEF Reviewed
<1>5. CASE ~HoldsBack(q)
  <2>1. quote' = q /\ amount' = amount /\ held_back' = held_back
    BY <1>5 DEF OnQuoted
  <2>2. held_back' = None /\ amount' = asked' /\ amount' \in Nat
    BY <1>1, <1>2, <2>1 DEF Untouched, Typed
  <2> QED
    BY <1>1, <1>2, <1>3, <2>1, <2>2 DEF Quoted, Covering, Reviewed, needed
<1> QED
  BY <1>4, <1>5

\* Nothing of a review changes as long as it lasts.
LEMMA ReviewedStays ==
    ASSUME Reviewed, affordable(quote) # "no",
           UNCHANGED <<kind, native, purse, shown, quote, req, asked, held_back>>
    PROVE  Reviewed' /\ affordable(quote)' # "no"
<1>1. Holding' = Holding /\ HoldFrom(quote)' = HoldFrom(quote) /\ needed(quote)' = needed(quote)
      /\ affordable(quote)' = affordable(quote)
  BY DEF Holding, HoldFrom, needed, affordable
<1>2. kind' = "bitcoin" => CoinsChosen(quote)'
  BY <1>1 DEF Reviewed, CoinsChosen
<1>3. Covering(quote)'
  BY DEF Reviewed, Covering
<1> QED
  BY <1>1, <1>2, <1>3 DEF Reviewed

\* Every step keeps the invariant.
LEMMA IInvNext == IInv /\ [Next]_vars => IInv'
<1> SUFFICES ASSUME IInv, [Next]_vars PROVE IInv'
  OBVIOUS
<1>0. Typed /\ Untouched
  BY DEF IInv
<1>a. Untouched'
  <2>1. ASSUME NEW q \in Quotes PROVE q.hold # None
    BY <1>0, <2>1, QuotesAreNumbers, NoneAssumption DEF Quoted, Covering
  <2> QED
    BY <1>0, <2>1, UntouchedNext
<1>1. ASSUME NEW t \in Texts, Type(t) PROVE IInv'
  <2>1. AmountOf(t) \in Nat
    BY TypedIsNumber
  <2>2. Typed'
    BY <1>0, <1>1, <2>1 DEF Type, Typed, review
  <2>3. step' = "EnterAmount"
    BY <1>1 DEF Type
  <2> QED
    BY <1>a, <2>2, <2>3 DEF IInv, Approved
<1>2. CASE request_max
  <2>1. Typed'
    BY <1>0, <1>2 DEF request_max, Typed, review
  <2>2. step' = "EnterAmount"
    BY <1>2 DEF request_max
  <2> QED
    BY <1>a, <2>1, <2>2 DEF IInv, Approved
<1>3. CASE Ask
  BY <1>0, <1>3, <1>a DEF IInv, Ask, Typed, field, Approved
<1>4. CASE PurseChanges
  <2>1. kind' = kind /\ (kind # "bitcoin" => purse' \in Nat)
    <3>1. Balances \subseteq Nat
      <4>1. Balances \subseteq 0..I128 /\ I128 \in Nat
        BY AmountAssumption, RangeAssumption
      <4>2. 0..I128 \subseteq Nat
        BY <4>1
      <4> QED
        BY <4>1, <4>2
    <3>2. kind' = kind /\ (kind # "bitcoin" => purse' \in Balances)
      BY <1>4 DEF PurseChanges
    <3> QED
      BY <3>1, <3>2
  <2>2. kind = "bitcoin" => purse' \in Seq(CoinType)
    <3> SUFFICES ASSUME kind = "bitcoin" PROVE purse' \in Seq(CoinType)
      OBVIOUS
    <3>1. purse \in Seq(CoinType)
      BY <1>0 DEF Typed
    <3>2. \/ \E c \in Coins : purse' = Append(purse, c)
          \/ purse # <<>> /\ purse' = Tail(purse)
      BY <1>4 DEF PurseChanges
    <3> QED
      BY <3>1, <3>2, CoinsAreCoins
  <2>3. Typed'
    BY <1>0, <1>4, <2>1, <2>2 DEF PurseChanges, Typed, field, review
  <2>4. step' = step /\ step \in {"EnterAmount", "Quoting"}
    BY <1>4 DEF PurseChanges
  <2> QED
    BY <1>a, <2>3, <2>4 DEF IInv, Approved
<1>5. ASSUME NEW q \in Quotes, OnQuoted(q) PROVE IInv'
  <2>1. Reviewed' /\ amount' \in Nat
    BY <1>5, QuoteIsReviewed
  <2>2. Typed' /\ step' = "Review"
    BY <1>0, <1>5, <2>1 DEF OnQuoted, Typed
  <2> QED
    BY <1>a, <2>1, <2>2 DEF IInv, Approved
<1>6. ASSUME NEW r \in Refused, OnQuoteFailed(r) PROVE IInv'
  BY <1>0, <1>6, <1>a DEF IInv, OnQuoteFailed, Typed, field, Approved
<1>7. CASE Confirm
  <2>1. Reviewed /\ affordable(quote) # "no"
    BY <1>7 DEF IInv, Confirm
  <2>2. /\ UNCHANGED <<kind, native, purse, shown, quote, req, asked, held_back>>
        /\ Typed'
    BY <1>0, <1>7 DEF Confirm, Typed, field, review
  <2> QED
    BY <1>a, <2>1, <2>2, ReviewedStays DEF IInv
<1>8. CASE Sign
  <2>1. Reviewed /\ affordable(quote) # "no"
    BY <1>8 DEF IInv, Sign, Approved
  <2>2. /\ UNCHANGED <<kind, native, purse, shown, quote, req, asked, held_back>>
        /\ Typed'
    BY <1>0, <1>8 DEF Sign, Typed, field
  <2> QED
    BY <1>a, <2>1, <2>2, ReviewedStays DEF IInv
<1>9. CASE Reopen
  <2>1. shown' \in Nat \cup {None}
    <3>1. shown' \in {Holding, None} \cup Amounts
      BY <1>9 DEF Reopen
    <3>2. Holding \in Nat
      BY <1>0, HoldingIsNumber
    <3> QED
      BY <3>1, <3>2, AmountAssumption, U64Assumption
  <2>2. Typed'
    BY <1>0, <1>9, <2>1 DEF Reopen, Typed
  <2>3. step' = "EnterAmount"
    BY <1>9 DEF Reopen
  <2> QED
    BY <1>a, <2>2, <2>3 DEF IInv, Approved
<1>10. CASE UNCHANGED vars
  <2>1. /\ UNCHANGED <<kind, native, purse, shown, quote, req, asked, held_back, step>>
        /\ Typed'
    BY <1>0, <1>10 DEF vars, Typed, field, review
  <2>2. step \in {"Review", "Authorize", "Broadcasting"} => Reviewed'
    <3>1. Holding' = Holding /\ HoldFrom(quote)' = HoldFrom(quote) /\ needed(quote)' = needed(quote)
      BY <2>1 DEF Holding, HoldFrom, needed
    <3> QED
      BY <2>1, <3>1 DEF IInv, Reviewed, Covering, CoinsChosen
  <2>3. Approved' => affordable(quote)' # "no"
    BY <2>1 DEF IInv, Approved, affordable, needed
  <2> QED
    BY <1>a, <2>1, <2>2, <2>3 DEF IInv
<1> QED
  BY <1>1, <1>2, <1>3, <1>4, <1>5, <1>6, <1>7, <1>8, <1>9, <1>10 DEF Next

\* The inductive invariant, on every chain.
THEOREM IInvHolds == Spec => []IInv
<1>1. Init => IInv
  BY IInvInit
<1>2. IInv /\ [Next]_vars => IInv'
  BY IInvNext
<1> QED
  BY <1>1, <1>2, PTL DEF Spec

\* Whatever the chain, the amounts, the balances and the fees: no amount is
\* rewritten that everything was not asked of, and none typed by hand.
THEOREM WhatWasAskedIsReviewed == Spec => []NeverRewritten
<1>1. IInv => NeverRewritten
  BY DEF IInv, Untouched, NeverRewritten, Reviewed
<1> QED
  BY <1>1, IInvHolds, PTL

\* Everything leaves nothing but what the chain will check the balance against, or
\* the miners were promised, and can be confirmed.
THEOREM EverythingIsExact == Spec => []MaxIsExact
<1>1. IInv => MaxIsExact
  <2> SUFFICES ASSUME IInv, step = "Review", held_back # None
      PROVE req + held_back = HoldFrom(quote) /\ affordable(quote) # "no"
    BY DEF MaxIsExact
  <2>1. Reviewed
    BY DEF IInv
  <2>2. req + held_back = HoldFrom(quote)
    BY <2>1 DEF Reviewed, Covering
  <2>3. affordable(quote) # "no"
    BY <2>1, <2>2 DEF Reviewed, Covering, affordable, needed, HoldFrom
  <2> QED
    BY <2>2, <2>3
<1> QED
  BY <1>1, IInvHolds, PTL

---------------------------------------------------------------------------
(* The coins of a review.                                                  *)

\* A Bitcoin review shows a selection of the coins there still are, for the amount
\* that was asked.
LEMMA ChosenForReview ==
    ASSUME Typed, Reviewed, kind = "bitcoin", Fits
    PROVE  /\ quote.payment \in PaymentType /\ purse \in Seq(CoinType)
           /\ quote.payment.amount = asked
           /\ quote.selection = select(quote.payment, purse)
           /\ select(quote.payment, purse).ok
           /\ quote.payment.amount + select(quote.payment, purse).fee <= U64
           /\ quote.cost = select(quote.payment, purse).fee
           /\ quote.hold = quote.cost /\ quote.balance = ValueOf(purse)
  BY DEF Typed, Reviewed, CoinsChosen, Fits, Holding

\* Nothing is signed that the balance the chain reported does not cover, and nothing
\* less is reserved than the network will ask.
THEOREM SignedIsPaidFor == Spec => []PaidFor
<1>1. IInv => PaidFor
  <2> SUFFICES ASSUME IInv, Approved, Fits
      PROVE /\ quote.balance # None =>
                 quote.balance >= quote.hold + IF native THEN req ELSE 0
            /\ quote.hold >= quote.asks
    BY DEF PaidFor
  <2>1. Typed /\ Reviewed /\ affordable(quote) # "no"
    BY DEF IInv, Approved
  <2>2. CASE kind = "sui"
    BY <2>1, <2>2 DEF Reviewed, Covering
  <2>3. CASE kind = "bitcoin" /\ held_back # None
    BY <2>1, <2>3 DEF Reviewed, Covering, HoldFrom
  <2>4. CASE kind = "bitcoin" /\ held_back = None
    <3> DEFINE p == quote.payment
               s == select(p, purse)
    <3>1. /\ p \in PaymentType /\ purse \in Seq(CoinType) /\ p.amount = asked
          /\ s.ok /\ p.amount + s.fee <= U64
          /\ quote.hold = s.fee /\ quote.balance = ValueOf(purse)
      BY <2>1, <2>4, ChosenForReview
    <3>2. req = asked /\ asked \in Nat /\ quote.hold >= quote.asks
      BY <2>1, <2>4 DEF Reviewed, Typed, Covering
    <3> HIDE DEF p, s
    <3>3. ValueOf(s.inputs) = p.amount + ChangeOf(s) + s.fee
      BY <3>1, SelectionAccounts DEF s
    <3>4. /\ s.fee \in Nat /\ ChangeOf(s) \in Nat
          /\ s.inputs \in Seq(CoinType) /\ ValueOf(s.inputs) <= ValueOf(purse)
      BY <3>1, SelectionType DEF s, ChangeOf
    <3>5. ValueOf(purse) \in Nat /\ ValueOf(s.inputs) \in Nat
      BY <3>1, <3>4, ValueOfCoins, U64Assumption
    <3>6. ValueOf(purse) >= s.fee + asked
      BY <3>1, <3>2, <3>3, <3>4, <3>5
    <3>7. quote.balance >= quote.hold + req
      BY <3>1, <3>2, <3>6
    <3> QED
      BY <2>1, <2>4, <3>2, <3>7 DEF Typed
  <2>5. CASE kind \notin {"sui", "tron", "bitcoin"}
    BY <2>1, <2>5 DEF Reviewed, Covering, affordable, needed, Typed
  <2>6. CASE kind = "tron"
    BY <2>1, <2>6 DEF Reviewed, Covering
  <2> QED
    BY <2>2, <2>3, <2>4, <2>5, <2>6
<1> QED
  BY <1>1, IInvHolds, PTL

\* Whatever the coins, the rate and the amount: every satoshi of the inputs is the
\* payment, the change or the fee, no less is paid than the rate asks, no change is
\* dust, and no more is left to the miners than an output would have cost.
THEOREM CoinsAreAccounted == Spec => []CoinsAccounted
<1>1. IInv => CoinsAccounted
  <2> SUFFICES ASSUME IInv, Chose
      PROVE LET s == quote.selection IN
             /\ ValueOf(s.inputs) = req + ChangeOf(s) + s.fee
             /\ s.fee >= fee_for(quote.payment.rate, s.vbytes)
             /\ s.change # None => s.change >= dust_threshold(quote.payment.change_to)
             /\ s.change = None =>
                   s.fee < fee_for(quote.payment.rate, WithChange(quote.payment, Len(s.inputs)))
                             + dust_threshold(quote.payment.change_to)
    BY DEF CoinsAccounted
  <2>1. Typed /\ Reviewed /\ kind = "bitcoin" /\ Fits /\ req = asked
    BY DEF IInv, Chose, Reviewed
  <2> DEFINE p == quote.payment
             s == quote.selection
  <2>2. /\ p \in PaymentType /\ purse \in Seq(CoinType) /\ p.amount = asked
        /\ s = select(p, purse)
        /\ select(p, purse).ok /\ p.amount + select(p, purse).fee <= U64
    BY <2>1, ChosenForReview
  <2> HIDE DEF p, s
  <2>3. /\ ValueOf(s.inputs) = p.amount + ChangeOf(s) + s.fee
        /\ s.fee >= fee_for(p.rate, s.vbytes)
        /\ s.change # None => s.change >= dust_threshold(p.change_to)
        /\ s.change = None =>
             s.fee < fee_for(p.rate, WithChange(p, Len(s.inputs))) + dust_threshold(p.change_to)
    BY <2>2, SelectionAccounts
  <2> QED
    BY <2>1, <2>2, <2>3 DEF p, s
<1> QED
  BY <1>1, IInvHolds, PTL

\* If confirmed coins could pay and make change, as few of them are spent as any
\* choice of them needs and no unconfirmed one: of any so many confirmed coins the
\* first of the pool are worth the most.
THEOREM ConfirmedAreFewest == Spec => []FewestConfirmed
<1>1. IInv => FewestConfirmed
  <2> SUFFICES ASSUME IInv, Chose,
                      NEW S \in SUBSET {i \in DOMAIN purse : purse[i].confirmed}, S # {},
                      FoldFunctionOnSet(LAMBDA c, v : c.value + v, 0, purse, S)
                        >= asked + fee_for(quote.payment.rate,
                                           WithChange(quote.payment, Cardinality(S)))
      PROVE  /\ Len(quote.selection.inputs) <= Cardinality(S)
             /\ \A c \in Range(quote.selection.inputs) : c.confirmed
    BY DEF FewestConfirmed, CanPay
  <2>1. Typed /\ Reviewed /\ kind = "bitcoin" /\ Fits
    BY DEF IInv, Chose
  <2>2. /\ quote.payment \in PaymentType /\ purse \in Seq(CoinType)
        /\ quote.payment.amount = asked
        /\ quote.selection = select(quote.payment, purse) /\ select(quote.payment, purse).ok
    BY <2>1, ChosenForReview
  <2>3. FoldFunctionOnSet(LAMBDA c, v : c.value + v, 0, purse, S)
          = SumFunctionOnSet(Values(purse), S)
    <3>1. IsFiniteSet(DOMAIN purse) /\ Values(purse) \in [DOMAIN purse -> Nat]
      BY <2>2, ValuesAreNatural
    <3>2. S \in SUBSET DOMAIN purse
      OBVIOUS
    <3> QED
      BY <3>1, <3>2, CoinsAdd
  <2>4. SumFunctionOnSet(Values(purse), S)
          >= quote.payment.amount + fee_for(quote.payment.rate,
                                            WithChange(quote.payment, Cardinality(S)))
    BY <2>2, <2>3
  <2> QED
    BY <2>2, <2>4, SelectionIsFewest
<1> QED
  BY <1>1, IInvHolds, PTL

\* Whoever is shown a payment that fits can pay any smaller amount that is not dust.
THEOREM LessCanBePaid == Spec => []LessIsPayable
<1>1. IInv => LessIsPayable
  <2> SUFFICES ASSUME IInv, Chose, NEW a \in Amounts,
                      a \in dust_threshold(quote.payment.to)..asked
      PROVE  select([quote.payment EXCEPT !.amount = a], purse).ok
    BY DEF LessIsPayable
  <2>1. Typed /\ Reviewed /\ kind = "bitcoin" /\ Fits
    BY DEF IInv, Chose
  <2>2. /\ quote.payment \in PaymentType /\ purse \in Seq(CoinType)
        /\ quote.payment.amount = asked /\ select(quote.payment, purse).ok
        /\ quote.payment.amount + select(quote.payment, purse).fee <= U64
    BY <2>1, ChosenForReview
  <2>3. a \in dust_threshold(quote.payment.to)..quote.payment.amount
    BY <2>2
  <2> QED
    BY <2>2, <2>3, LessIsEnough
<1> QED
  BY <1>1, IInvHolds, PTL

---------------------------------------------------------------------------
(* Reading what was written.                                               *)

\* Amounts reads with the operators that Numerals writes with.
LEMMA SameText ==
    /\ \A s, marks : A!Without(s, marks) = Without(s, marks)
    /\ \A s : A!IntPart(s) = IntPart(s)
    /\ \A s : A!FracPart(s) = FracPart(s)
    /\ \A c : A!is_ascii_digit(c) <=> c \in Digits
    /\ \A c : A!DigitOf(c) = DigitOf(c)
    /\ \A s : A!Number(s) = Number(s)
    /\ \A n : A!pow10(n) = pow10(n)
    /\ A!Comma = Comma
<1>1. \A s, c, marks : A!Keep(s, c, marks) = Keep(s, c, marks)
  BY DEF A!Keep, Keep
<1>2. \A s, marks : A!Without(s, marks) = Without(s, marks)
  BY DEF A!Without, Without, A!Keep, Keep
<1>3. \A s : A!IntPart(s) = IntPart(s) /\ A!FracPart(s) = FracPart(s)
  BY DEF A!IntPart, IntPart, A!FracPart, FracPart, A!Points, Points, A!Dot, Dot
<1>4. \A c : A!is_ascii_digit(c) <=> c \in Digits
  BY DEF A!is_ascii_digit, A!Figure, Digits, Figure, A!ToSet, ToSet
<1>5. \A c : A!DigitOf(c) = DigitOf(c)
  BY DEF A!DigitOf, DigitOf, A!Figure, Figure
<1>6. \A s : A!Number(s) = Number(s)
  BY DEF A!Number, Number, A!DigitOf, DigitOf, A!Figure, Figure
<1>7. \A n : A!pow10(n) = pow10(n)
  BY DEF A!pow10, pow10
<1>8. A!Comma = Comma
  BY DEF A!Comma, Comma
<1> QED
  BY <1>2, <1>3, <1>4, <1>5, <1>6, <1>7, <1>8

\* A text with no blank is not trimmed.
LEMMA TrimmedIs ==
    ASSUME NEW C, NEW t \in Seq(C), t # <<>>, \A c \in C : ~A!Blank(c)
    PROVE  A!trim(t) = t
<1>n. PICK n \in Nat : n = Len(t) /\ n # 0
  OBVIOUS
<1> DEFINE inked == {i \in DOMAIN t : ~A!Blank(t[i])}
<1>1. inked = 1..n
  BY <1>n
<1> HIDE DEF inked
<1>2. A!Min(inked) = 1 /\ A!Max(inked) = n
  <2>1. \A S : A!Min(S) = CHOOSE x \in S : \A y \in S : x <= y
    BY DEF A!Min
  <2>2. \A S : A!Max(S) = CHOOSE x \in S : \A y \in S : x >= y
    BY DEF A!Max
  <2>3. 1 \in inked /\ n \in inked /\ \A y \in inked : y \in Nat /\ 1 <= y /\ y <= n
    BY <1>1, <1>n
  <2>4. (CHOOSE x \in inked : \A y \in inked : x <= y) = 1
    <3>1. \A x \in inked : (\A y \in inked : x <= y) => x = 1
      BY <2>3
    <3>2. \A y \in inked : 1 <= y
      BY <2>3
    <3> QED
      BY <2>3, <3>1, <3>2
  <2>5. (CHOOSE x \in inked : \A y \in inked : x >= y) = n
    <3>1. \A x \in inked : (\A y \in inked : x >= y) => x = n
      <4> SUFFICES ASSUME NEW x \in inked, \A y \in inked : x >= y PROVE x = n
        OBVIOUS
      <4>1. x >= n /\ x <= n /\ x \in Nat
        BY <2>3
      <4> QED
        BY <1>n, <4>1
    <3>2. \A y \in inked : n >= y
      BY <1>n, <2>3
    <3> QED
      BY <2>3, <3>1, <3>2
  <2> QED
    BY <2>1, <2>2, <2>4, <2>5
<1>3. A!trim(t) = SubSeq(t, 1, n)
  <2>1. inked # {}
    BY <1>1, <1>n
  <2> QED
    BY <1>2, <2>1 DEF A!trim, inked
<1>4. SubSeq(t, 1, n) = t
  BY <1>n
<1> QED
  BY <1>3, <1>4

\* None is not a number of i128.
LEMMA NoneIsNone == None \notin Nat /\ I128 \in Nat
  BY NoneAssumption, RangeAssumption

\* Checked arithmetic is a number or None, and the number where it fits an i128.
LEMMA CheckedAre ==
    /\ \A a \in Nat \cup {None}, b \in Nat \ {0} : A!checked_mul(a, b) \in Nat \cup {None}
    /\ \A a \in Nat \cup {None}, b \in Nat : A!checked_add(a, b) \in Nat \cup {None}
    /\ \A a, b \in Nat : a + b <= I128 => A!checked_add(a, b) = a + b
    /\ \A a \in Nat, b \in Nat \ {0} : a * b <= I128 => A!checked_mul(a, b) = a * b
<1>1. \A a, b \in Nat : a * b \in Nat
  OBVIOUS
<1>2. \A a \in Nat \cup {None}, b \in Nat \ {0} : A!checked_mul(a, b) \in Nat \cup {None}
  BY <1>1, NoneIsNone DEF A!checked_mul
<1>3. \A a \in Nat \cup {None}, b \in Nat : A!checked_add(a, b) \in Nat \cup {None}
  BY NoneIsNone DEF A!checked_add
<1>4. \A a, b \in Nat : a + b <= I128 => A!checked_add(a, b) = a + b
  BY NoneIsNone DEF A!checked_add
<1>5. ASSUME NEW a \in Nat, NEW b \in Nat \ {0}, a * b <= I128
      PROVE  A!checked_mul(a, b) = a * b
  <2>1. a <= I128 \div b
    BY <1>5, NoneIsNone
  <2>2. a # None /\ ~(a > I128 \div b)
    BY <2>1, NoneIsNone
  <2> QED
    BY <2>2 DEF A!checked_mul
<1> QED
  BY <1>2, <1>3, <1>4, <1>5

\* Digits of a number that is not too large are read as it, and nothing overflows.
LEMMA WholeReads ==
    ASSUME NEW d \in Seq(Digits), Number(d) <= I128
    PROVE  A!Whole(d) = Number(d)
<1>n. PICK n \in Nat : n = Len(d)
  OBVIOUS
<1>0. PICK h \in [0..n -> Nat] :
         /\ h[0] = 0 /\ \A k \in 1..n : h[k] = h[k - 1] * 10 + DigitOf(d[k])
         /\ Number(d) = h[n]
  BY <1>n, NumberIs
<1> DEFINE Adds10(v, k) == A!checked_add(A!checked_mul(v, 10), A!DigitOf(d[k]))
           R(p) == p = [k \in 0..n |-> IF k = 0 THEN 0 ELSE Adds10(p[k - 1], k)]
           g == CHOOSE p : R(p)
           V == Nat \cup {None}
           G == [k \in 1..n |-> [v \in V |-> Adds10(v, k)]]
<1>a. ASSUME NEW k \in 1..n PROVE A!DigitOf(d[k]) = DigitOf(d[k]) /\ DigitOf(d[k]) \in Nat
  <2>1. d[k] \in Digits
    BY <1>n
  <2>2. DigitOf(d[k]) \in 0..9
    BY <2>1, FiguresAre
  <2> QED
    BY <2>2, SameText
<1>b. ASSUME NEW k \in 1..n, NEW v \in V PROVE Adds10(v, k) \in V
  <2>1. A!checked_mul(v, 10) \in V
    BY CheckedAre
  <2> QED
    BY <1>a, <2>1, CheckedAre
<1>1. Stays(G, n, V) /\ 0 \in V
  <2> HIDE DEF Adds10, V
  <2>1. 0 \in V
    BY DEF V
  <2> QED
    BY <1>b, <2>1 DEF Stays
<1>6. A!Whole(d) = g[n]
  BY <1>n DEF A!Whole
<1> HIDE DEF V, Adds10
<1>2. PICK f \in [0..n -> V] : f[0] = 0 /\ \A k \in 1..n : f[k] = G[k][f[k - 1]]
  <2> HIDE DEF G
  <2>1. \E f : Follows(f, G, n, 0, V)
    BY <1>1, Recursion
  <2> QED
    BY <2>1 DEF Follows
<1>3. \A k \in 1..n : f[k] = Adds10(f[k - 1], k)
  <2> SUFFICES ASSUME NEW k \in 1..n PROVE f[k] = Adds10(f[k - 1], k)
    OBVIOUS
  <2>1. f[k - 1] \in V
    OBVIOUS
  <2> QED
    BY <1>2, <2>1
<1>4. R(f)
  BY <1>2, <1>3
<1>5. R(g)
  <2> HIDE DEF R
  <2> QED
    BY <1>4
<1> HIDE DEF g, G
<1>7. g[0] = 0 /\ \A k \in 1..n : g[k] = Adds10(g[k - 1], k)
  BY <1>5
<1> HIDE DEF R
<1> DEFINE T == {k \in 0..n : h[k] <= I128 => g[k] = h[k]}
<1>8. T \in SUBSET (0..n) /\ 0 \in T
  BY <1>0, <1>7
<1>9. ASSUME NEW k \in 1..n, k - 1 \in T PROVE k \in T
  <2> SUFFICES ASSUME h[k] <= I128 PROVE g[k] = h[k]
    OBVIOUS
  <2>1. h[k] = h[k - 1] * 10 + DigitOf(d[k]) /\ h[k - 1] \in Nat /\ h[k] \in Nat
    BY <1>0
  <2>2. A!DigitOf(d[k]) = DigitOf(d[k]) /\ DigitOf(d[k]) \in Nat
    BY <1>a
  <2>3. h[k - 1] * 10 <= I128 /\ h[k - 1] <= I128 /\ 10 \in Nat \ {0} /\ h[k - 1] * 10 \in Nat
    BY <2>1, <2>2, NoneIsNone
  <2>4. g[k - 1] = h[k - 1]
    BY <1>9, <2>3
  <2>5. A!checked_mul(h[k - 1], 10) = h[k - 1] * 10
    BY <2>1, <2>3, CheckedAre
  <2>6. A!checked_add(h[k - 1] * 10, DigitOf(d[k])) = h[k - 1] * 10 + DigitOf(d[k])
    BY <2>1, <2>2, <2>3, CheckedAre
  <2>7. g[k] = Adds10(g[k - 1], k)
    BY <1>7
  <2> QED
    BY <2>1, <2>2, <2>4, <2>5, <2>6, <2>7 DEF Adds10
<1>10. n \in T
  <2> HIDE DEF T
  <2>1. T = 0..n
    BY <1>8, <1>9, InductionTo
  <2> QED
    BY <2>1
<1> QED
  BY <1>0, <1>6, <1>10

\* What is written as an amount is read as it.
LEMMA WrittenReads ==
    ASSUME NEW a \in 0..I128, NEW t, NEW d, NEW f, Writes(t, d, f, a, Decimals)
    PROVE  A!Formed(A!Bare(t), Decimals) /\ A!RawOf(A!Bare(t), Decimals) = a
<1> DEFINE D == Decimals
           P == pow10(D)
           q == a \div P
           x == a % P
           g == Grouped(d)
           s == A!Bare(t)
<1>1. /\ t = Joined(g, f) /\ d \in Seq(Digits) /\ d # <<>> /\ f \in Seq(Digits) /\ Len(f) \in 0..D
      /\ Number(d) = q /\ Number(f) * pow10(D - Len(f)) = x
  BY DEF Writes
<1>2. D \in Nat /\ P \in Nat \ {0} /\ a \in Nat /\ I128 \in Nat
  BY TextAssumption, NoneIsNone, Tens
<1>3. q \in Nat /\ x \in Nat /\ a = q * P + x
  <2> HIDE DEF P, D
  <2>1. a \div P \in Nat /\ a % P \in 0..P - 1 /\ a = (a \div P) * P + (a % P)
    BY <1>2, Divides
  <2>2. a % P \in Nat
    BY <1>2, <2>1
  <2> QED
    BY <2>1, <2>2
<1> DEFINE marks == {A!Comma, "_"}
<1>4. Comma \in marks /\ marks \subseteq Marks /\ "." \notin marks
  <2>1. Comma \in marks
    BY SameText
  <2>2. marks \subseteq Marks /\ "." \notin marks
    BY SameText DEF Marks, Comma
  <2> QED
    BY <2>1, <2>2
<1>5. s = A!Without(A!trim(t), marks)
  BY DEF A!Bare
<1> HIDE DEF marks, s, q, x, P, D
<1>6. g \in Seq(Signs) /\ Without(g, marks) = d
  <2>1. g \in Seq(Grouping) /\ Without(g, marks) = d
    BY <1>1, <1>4, GroupedIs
  <2>2. Grouping \subseteq Signs
    BY DEF Grouping, Signs
  <2> QED
    BY <2>1, <2>2
<1> HIDE DEF g
<1>7. A!trim(t) = t
  <2> DEFINE C == Signs \cup {"."}
  <2>1. \A c \in C : ~A!Blank(c)
    <3>1. \A c \in Digits : ~A!Blank(c)
      BY FiguresAre, FigureIs DEF Marks, A!Blank
    <3>2. ~A!Blank(Comma) /\ ~A!Blank("<") /\ ~A!Blank(".")
      BY DEF Comma, A!Blank
    <3> QED
      BY <3>1, <3>2 DEF Signs
  <2>2. t \in Seq(C) /\ t # <<>>
    <3>1. g \in Seq(C) /\ f \in Seq(C) /\ <<".">> \in Seq(C)
      BY <1>1, <1>6 DEF Signs
    <3>2. g # <<>>
      BY <1>1, <1>6, WithoutNone
    <3> DEFINE u == <<".">> \o f
    <3>3. u \in Seq(C)
      BY <3>1
    <3> HIDE DEF C, u
    <3>4. t = g \/ t = g \o u
      BY <1>1 DEF Joined, u
    <3>5. g \o u \in Seq(C) /\ g \o u # <<>>
      BY <3>1, <3>2, <3>3, ConcatProperties
    <3> QED
      BY <3>1, <3>2, <3>4, <3>5
  <2> HIDE DEF C
  <2> QED
    BY <2>1, <2>2, TrimmedIs
<1>8. s = Joined(d, f)
  <2>1. Without(Joined(g, f), marks) = Joined(d, f)
    BY <1>1, <1>4, <1>6, WithoutSigns
  <2> QED
    BY <1>1, <1>5, <1>7, <2>1, SameText
<1>9. A!IntPart(s) = d /\ A!FracPart(s) = f
  <2>1. IntPart(s) = d /\ FracPart(s) = f
    BY <1>1, <1>8, PartsAre DEF Joined
  <2> QED
    BY <2>1, SameText
<1>10. A!Formed(s, D)
  <2> DEFINE u == d \o f
  <2>1. u \in Seq(Digits) /\ u # <<>>
    BY <1>1
  <2> HIDE DEF u
  <2>2. \A i \in DOMAIN u : A!is_ascii_digit(u[i])
    <3>1. \A i \in DOMAIN u : u[i] \in Digits
      BY <2>1
    <3> QED
      BY <3>1, SameText
  <2>3. Len(f) <= D
    BY <1>1, <1>2
  <2> QED
    BY <1>9, <2>1, <2>2, <2>3 DEF A!Formed, u
<1>11. A!Fraction(f, D) = x
  BY <1>1, SameText DEF A!Fraction
<1>12. q * P \in Nat /\ q * P <= I128 /\ q <= I128
  <2>1. q * P \in Nat /\ q <= q * P
    BY <1>2, <1>3
  <2> QED
    BY <1>2, <1>3, <2>1
<1>13. A!Whole(d) = q
  BY <1>1, <1>12, WholeReads
<1>14. A!checked_mul(q, P) = q * P
  BY <1>2, <1>3, <1>12, CheckedAre
<1>15. A!checked_add(q * P, x) = q * P + x
  BY <1>2, <1>3, <1>12, CheckedAre
<1>16. A!pow10(D) = P
  BY SameText DEF P
<1>17. A!RawOf(s, D) = a
  BY <1>3, <1>9, <1>11, <1>13, <1>14, <1>15, <1>16 DEF A!RawOf
<1> QED
  BY <1>10, <1>17 DEF s, D

\* The field reads back what was written to it, and nothing is no amount.
LEMMA ReadsBack == (\A a \in 0..I128 : AmountOf(Written(a)) = a) /\ AmountOf(<<>>) = 0
<1>1. ASSUME NEW a \in 0..I128 PROVE AmountOf(Written(a)) = a
  <2>1. PICK d, f : Writes(Written(a), d, f, a, Decimals)
    <3>1. a \in Nat /\ Decimals \in Nat /\ Decimals <= Decimals
      BY NoneIsNone, TextAssumption
    <3> QED
      BY <3>1, UncutIs DEF Written, to_display_string_full
  <2>2. A!Formed(A!Bare(Written(a)), Decimals) /\ A!RawOf(A!Bare(Written(a)), Decimals) = a
    BY <2>1, WrittenReads
  <2>3. A!parse(Written(a), Decimals) = IF a \in 1..I128 THEN a ELSE None
    BY <2>2 DEF A!parse
  <2>4. a \notin 1..I128 => a = 0
    BY NoneIsNone
  <2>5. a # None
    BY NoneIsNone
  <2> QED
    BY <2>3, <2>4, <2>5 DEF AmountOf
<1>2. AmountOf(<<>>) = 0
  <2>1. A!trim(<<>>) = <<>>
    <3>1. DOMAIN <<>> = {}
      OBVIOUS
    <3> QED
      BY <3>1 DEF A!trim
  <2>2. A!Bare(<<>>) = <<>>
    BY <2>1, WithoutNone, SameText DEF A!Bare
  <2>3. IntPart(<<>>) = <<>> /\ FracPart(<<>>) = <<>>
    BY NoDigits, PartsAre
  <2>4. ~A!Formed(<<>>, Decimals)
    <3>1. <<>> \o <<>> = <<>>
      OBVIOUS
    <3> QED
      BY <2>3, <3>1, SameText DEF A!Formed
  <2>5. A!parse(<<>>, Decimals) = None
    BY <2>2, <2>4 DEF A!parse
  <2> QED
    BY <2>5 DEF AmountOf
<1> QED
  BY <1>1, <1>2

---------------------------------------------------------------------------
(* The amount field.                                                       *)

\* The amount is what the field is read as, and no amount is larger than i128.
Fielded == /\ amount = AmountOf(text) /\ amount \in 0..I128
           /\ shown \in 0..I128 \cup {None}
           /\ kind # "bitcoin" => purse \in 0..I128

\* Whatever is typed is no larger than i128.
LEMMA TypedInRange == ASSUME NEW t PROVE AmountOf(t) \in 0..I128
<1>1. A!parse(t, Decimals) \in 1..I128 \cup {None}
  BY SMT DEF A!parse
<1>2. I128 \in Nat /\ 1..I128 \subseteq 0..I128 /\ 0 \in 0..I128
  BY RangeAssumption
<1>3. CASE A!parse(t, Decimals) = None
  BY <1>2, <1>3 DEF AmountOf
<1>4. CASE A!parse(t, Decimals) # None
  BY <1>1, <1>2, <1>4 DEF AmountOf
<1> QED
  BY <1>3, <1>4

\* Nor is what an address holds, of coins or of an account.
LEMMA HoldingInRange ==
    ASSUME kind = "bitcoin" => purse \in Seq(CoinType), kind # "bitcoin" => purse \in 0..I128
    PROVE  Holding \in 0..I128
<1>1. CASE kind = "bitcoin"
  <2>1. ValueOf(purse) \in 0..U64
    BY <1>1, ValueOfCoins
  <2> QED
    BY <1>1, <2>1, U64Assumption, RangeAssumption DEF Holding
<1>2. CASE kind # "bitcoin"
  BY <1>2 DEF Holding
<1> QED
  BY <1>1, <1>2

\* The field of a screen just opened.
LEMMA FieldedInit == Init => Fielded
<1> SUFFICES ASSUME Init PROVE Fielded
  OBVIOUS
<1>1. amount = 0 /\ text = <<>> /\ shown \in {Holding, None} \cup Amounts
  BY DEF Init, Opened
<1>2. kind = "bitcoin" => purse \in Seq(CoinType)
  BY CoinsAreCoins DEF Init
<1>3. kind # "bitcoin" => purse \in 0..I128
  BY AmountAssumption DEF Init, Purses
<1>4. Holding \in 0..I128
  BY <1>2, <1>3, HoldingInRange
<1>5. Amounts \subseteq 0..I128 /\ 0 \in 0..I128
  BY AmountAssumption, U64Assumption, RangeAssumption
<1> QED
  BY <1>1, <1>3, <1>4, <1>5, ReadsBack DEF Fielded

\* What a quote knows of the balance is no larger than i128.
LEMMA QuotesInRange ==
    ASSUME Typed, Fielded, NEW q \in Quotes
    PROVE  q.balance \in 0..I128 \cup {None}
<1>1. CASE kind = "bitcoin"
  <2>1. q.balance = Holding
    BY <1>1, QuotesAreNumbers DEF Quoted, CoinsChosen
  <2> QED
    BY <1>1, <2>1, HoldingInRange DEF Typed, Fielded
<1>2. CASE kind # "bitcoin"
  <2>0. kind \in AllKinds \ {"bitcoin"} /\ purse \in 0..I128
    BY <1>2, KindAssumption DEF Typed, Fielded
  <2>1. PICK c \in Costs(kind, native), balance \in MayRead : q = Quote(c, balance)
    BY <2>0 DEF AllKinds, Quotes, MayRead, TronQuotes, EvmQuotes, SolanaQuotes, TonQuotes,
                AptosQuotes, SuiQuotes
  <2>2. q.balance = balance
    BY <2>1 DEF Quote
  <2> QED
    BY <2>0, <2>1, <2>2 DEF MayRead
<1> QED
  BY <1>1, <1>2

\* Every step leaves the field as it is, or writes or reads the amount into it.
LEMMA FieldedNext == IInv /\ Fielded /\ [Next]_vars => Fielded'
<1> SUFFICES ASSUME IInv, Fielded, [Next]_vars PROVE Fielded'
  OBVIOUS
<1>0. Typed
  BY DEF IInv
<1>1. ASSUME NEW t \in Texts, Type(t) PROVE Fielded'
  <2>1. AmountOf(t) \in 0..I128
    BY TypedInRange
  <2>2. text' = t /\ amount' = AmountOf(t) /\ UNCHANGED <<kind, purse, shown>>
    BY <1>1 DEF Type
  <2>3. AmountOf(text)' = AmountOf(t)
    BY <2>2 DEF AmountOf
  <2> QED
    BY <2>1, <2>2, <2>3 DEF Fielded
<1>2. CASE request_max
  <2>1. /\ shown # None /\ text' = Written(shown) /\ amount' = shown
        /\ UNCHANGED <<kind, purse, shown>>
    BY <1>2 DEF request_max
  <2>2. shown \in 0..I128
    BY <2>1 DEF Fielded
  <2>3. AmountOf(text)' = AmountOf(Written(shown))
    BY <2>1 DEF AmountOf
  <2> QED
    BY <2>1, <2>2, <2>3, ReadsBack DEF Fielded
<1>3. ASSUME UNCHANGED <<kind, shown, text, amount>>, kind # "bitcoin" => purse' \in 0..I128
      PROVE  Fielded'
  <2>1. AmountOf(text)' = AmountOf(text)
    BY <1>3 DEF AmountOf
  <2> QED
    BY <1>3, <2>1 DEF Fielded
<1>4. CASE Ask
  BY <1>3, <1>4 DEF Ask, field, Fielded
<1>5. CASE PurseChanges
  <2>1. kind # "bitcoin" => purse' \in 0..I128
    BY <1>5, AmountAssumption DEF PurseChanges
  <2> QED
    BY <1>3, <1>5, <2>1 DEF PurseChanges, field
<1>6. ASSUME NEW q \in Quotes, OnQuoted(q) PROVE Fielded'
  <2>1. CASE HoldsBack(q)
    <3>1. /\ amount' = HoldFrom(q) - reserve(q) /\ text' = Written(amount')
          /\ UNCHANGED <<kind, purse, shown>>
          /\ HoldFrom(q) # None /\ HoldFrom(q) > reserve(q)
      BY <1>6, <2>1 DEF OnQuoted, HoldsBack
    <3>2. HoldFrom(q) \in 0..I128
      BY <1>0, <3>1, QuotesInRange DEF HoldFrom, Fielded
    <3>3. reserve(q) \in Nat
      BY <1>0, QuotesAreNumbers DEF Quoted, Covering, reserve
    <3>4. amount' \in 0..I128
      BY <3>1, <3>2, <3>3, RangeAssumption
    <3>5. AmountOf(text)' = AmountOf(Written(amount'))
      BY <3>1 DEF AmountOf
    <3> QED
      BY <3>1, <3>4, <3>5, ReadsBack DEF Fielded
  <2>2. CASE ~HoldsBack(q)
    BY <1>3, <1>6, <2>2 DEF OnQuoted, Fielded
  <2> QED
    BY <2>1, <2>2
<1>7. ASSUME NEW r \in Refused, OnQuoteFailed(r) PROVE Fielded'
  BY <1>3, <1>7 DEF OnQuoteFailed, field, Fielded
<1>8. CASE Confirm
  BY <1>3, <1>8 DEF Confirm, field, Fielded
<1>9. CASE Sign
  BY <1>3, <1>9 DEF Sign, field, Fielded
<1>10. CASE Reopen
  <2>1. amount' = 0 /\ text' = <<>> /\ shown' \in {Holding, None} \cup Amounts /\ UNCHANGED <<kind, purse>>
    BY <1>10 DEF Reopen
  <2>2. Holding \in 0..I128
    BY <1>0, HoldingInRange DEF Typed, Fielded
  <2>3. Amounts \subseteq 0..I128 /\ 0 \in 0..I128
    BY AmountAssumption, U64Assumption, RangeAssumption
  <2>4. AmountOf(text)' = AmountOf(<<>>)
    BY <2>1 DEF AmountOf
  <2> QED
    BY <2>1, <2>2, <2>3, <2>4, ReadsBack DEF Fielded
<1>11. CASE UNCHANGED vars
  BY <1>3, <1>11 DEF vars, field, Fielded
<1> QED
  BY <1>1, <1>2, <1>4, <1>5, <1>6, <1>7, <1>8, <1>9, <1>10, <1>11 DEF Next

\* Whatever is typed, asked for or held back, of every amount there is: the field reads
\* back to the amount, what is written says it, and no column says more than there is.
THEOREM WhatIsWrittenIsRead == Spec => []WhatIsReadIsMeant
<1>1. Fielded => WhatIsReadIsMeant
  <2> SUFFICES ASSUME Fielded PROVE WhatIsReadIsMeant
    OBVIOUS
  <2>1. amount = AmountOf(text) /\ amount \in Nat /\ (shown # None => shown \in Nat)
    BY RangeAssumption DEF Fielded
  <2>2. Says(Written(amount), Decimals) = amount
    BY <2>1, TextAssumption, FullSays DEF Written
  <2>3. shown # None =>
          Short(to_display_string_trim(shown, Decimals, BALANCE_FRAC),
                Says(to_display_string_trim(shown, Decimals, BALANCE_FRAC), Decimals), shown)
    BY <2>1, TextAssumption, ColumnSays
  <2> QED
    BY <2>1, <2>2, <2>3 DEF WhatIsReadIsMeant, Short
<1>2. Init => Fielded
  BY FieldedInit
<1>3. IInv /\ Fielded /\ [Next]_vars => Fielded'
  BY FieldedNext
<1> QED
  BY <1>1, <1>2, <1>3, IInvHolds, PTL DEF Spec

=============================================================================
