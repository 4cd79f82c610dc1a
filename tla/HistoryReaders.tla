--------------------------- MODULE HistoryReaders ---------------------------
(***************************************************************************)
(* What the wallet makes of the lists the providers send: the history      *)
(* readers of neko-evm, neko-tron, neko-solana, neko-aptos, neko-sui,      *)
(* neko-btc and neko-ton.  A row that lacks a field is left out by all of  *)
(* them, and none of the lists here has one.                               *)
(***************************************************************************)
EXTENDS Ledger

CONSTANTS BATCH,         \* transactions in one request to Solana
          Units(_)       \* minimal units of a whole token, of so many decimals

Entry(txid, ts, symbol_, decimals_, amount, direction, counterparty, status) ==
    [txid |-> txid, block_ts |-> ts, symbol |-> symbol_, decimals |-> decimals_, amount |-> amount,
     direction |-> direction, counterparty |-> counterparty, status |-> status]

Status(worked) == IF worked THEN "Success" ELSE "Failed"

Abs(n) == IF n < 0 THEN -n ELSE n

Each(rows, Make(_)) == [k \in DOMAIN rows |-> Make(rows[k])]

\* Stable, and `dedup_by`: only neighbours are compared.
SortBy(rows, Before(_, _)) ==
    FoldLeft(LAMBDA done, e :
                 InsertAt(done, Cardinality({k \in DOMAIN done : ~Before(e, done[k])}) + 1, e),
             <<>>, rows)

dedup_by(rows, Same(_, _)) ==
    FoldLeft(LAMBDA done, e : IF done # <<>> /\ Same(e, Last(done)) THEN done ELSE Append(done, e),
             <<>>, rows)

---------------------------------------------------------------------------
(* The dust of address poisoning.                                          *)

DUST_FRACTION_DENOMINATOR == 1000

dust_threshold(d) == Units(d) \div DUST_FRACTION_DENOMINATOR

is_dust(e) == e.direction = "In" /\ e.amount < dust_threshold(e.decimals)

---------------------------------------------------------------------------
(* Days from civil: the year begins in March, so the leap day is its last. *)

days_from_civil(date) ==
    LET y   == IF date[2] <= 2 THEN date[1] - 1 ELSE date[1]
        era == y \div 400
        yoe == y - era * 400
        doy == (153 * ((date[2] + 9) % 12) + 2) \div 5 + date[3] - 1
    IN era * 146097 + yoe * 365 + yoe \div 4 - yoe \div 100 + doy - 719468

epoch_secs(date) == days_from_civil(date)

iso_to_millis(date) == days_from_civil(date) * 1000

---------------------------------------------------------------------------
(* EVM.                                                                    *)

Transfer(hash, from, to, amount, coin, c, decimals_, ts, success) ==
    [hash |-> hash, from |-> from, to |-> to, amount |-> amount, block_ts |-> ts,
     symbol |-> IF coin THEN evm(c).native_symbol ELSE evm(c).stable_label,
     decimals |-> decimals_, success |-> success]

\* The coin, or the one token by its contract; the name is our own.
parse_one(r, c) ==
    IF r.category # "external" /\ r.contract # "token" THEN <<>>
    ELSE <<Transfer(r.hash, r.from, r.to, r.value, r.category = "external", c,
                    IF r.category = "external" THEN evm(c).native_decimals ELSE evm(c).stable_decimals,
                    r.ts * 1000, r.ok)>>

parse_nodereal(rows, c) == FlattenSeq(Each(rows, LAMBDA r : parse_one(r, c)))

\* Nothing sent is no transfer of ours; nothing received stays.
parse_direction(rows, c, outgoing) ==
    SelectSeq(parse_nodereal(rows, c), LAMBDA t : ~outgoing \/ t.amount # 0)

NewestByHash(a, b) == a.block_ts > b.block_ts \/ (a.block_ts = b.block_ts /\ a.hash > b.hash)

SameTransfer(a, b) == a.hash = b.hash /\ a.from = b.from /\ a.to = b.to

\* Blockscout's word for it is "ok", Etherscan's of the contrary is "1".
CoinMove(r, c, ms) == Transfer(r.hash, r.from, r.to, r.value, TRUE, c, evm(c).native_decimals, ms, r.ok)

blockscout_parse_coins(rows, c) ==
    Each(SelectSeq(rows, LAMBDA r : r.value # 0), LAMBDA r : CoinMove(r, c, epoch_secs(r.date) * 1000))

etherscan_parse_coins(rows, c) ==
    Each(SelectSeq(rows, LAMBDA r : r.value # 0), LAMBDA r : CoinMove(r, c, r.secs * 1000))

blockscout_parse_tokens(rows, c) ==
    Each(SelectSeq(rows, LAMBDA r : r.contract = "token"),
         LAMBDA r : Transfer(r.hash, r.from, r.to, r.value, FALSE, c, r.decimals,
                             epoch_secs(r.date) * 1000, TRUE))

etherscan_parse_tokens(rows, c) ==
    Each(rows, LAMBDA r : Transfer(r.hash, r.from, r.to, r.value, FALSE, c, r.decimals,
                                   r.secs * 1000, TRUE))

\* What a request comes to: rows, or nothing of it.
Got(rows) == [ok |-> TRUE, rows |-> rows]
Lost      == [ok |-> FALSE, rows |-> <<>>]

\* A list is an answer however it is labelled.
result_of(reply) == IF reply.status = "1" \/ reply.result # None THEN Got(reply.result) ELSE Lost

Rows(leg, Parse(_)) == IF leg.ok THEN Parse(leg.rows) ELSE <<>>

\* Any list that is lost loses all.
Both_OrNone(rows, legs) == IF \E k \in DOMAIN legs : ~legs[k].ok THEN Lost ELSE Got(rows)

\* Half a history beats none: an error is for a list that is empty because of it.
Both(rows, legs) == IF rows = <<>> /\ \E k \in DOMAIN legs : ~legs[k].ok THEN Lost ELSE Got(rows)

\* The two directions of NodeReal are asked one after the other.
bsctrace_transfers(sent, received, c, limit) ==
    Both(Page(dedup_by(SortBy(Rows(sent, LAMBDA rows : parse_direction(rows, c, TRUE))
                                \o Rows(received, LAMBDA rows : parse_direction(rows, c, FALSE)),
                              NewestByHash), SameTransfer), limit), <<sent, received>>)

Newer(a, b) == a.block_ts > b.block_ts

blockscout_transfers(coins, tokens, c, limit) ==
    Both(Page(SortBy(Rows(coins, LAMBDA rows : blockscout_parse_coins(rows, c))
                        \o Rows(tokens, LAMBDA rows : blockscout_parse_tokens(rows, c)), Newer), limit),
         <<coins, tokens>>)

\* Etherscan's, and Routescan's in the same words.
etherscan_transfers(coins, tokens, c, limit) ==
    Both(Page(SortBy(Rows(coins, LAMBDA rows : etherscan_parse_coins(rows, c))
                        \o Rows(tokens, LAMBDA rows : etherscan_parse_tokens(rows, c)), Newer), limit),
         <<coins, tokens>>)

\* The direction is decided from the address that was asked about.
EvmEntry(t) ==
    Entry(t.hash, t.block_ts, t.symbol, t.decimals, t.amount,
          IF t.to = Me THEN "In" ELSE "Out", IF t.to = Me THEN t.from ELSE t.to, Status(t.success))

---------------------------------------------------------------------------
(* TRON.                                                                   *)

\* An entry for each side that is ours.
classify(row, m, symbol_, decimals_, status) ==
    LET mk(direction, other) ==
            Entry(row.txID, row.ts, symbol_, decimals_, m.amount, direction, other, status)
    IN (IF m.to = Me THEN <<mk("In", m.from)>> ELSE <<>>)
           \o (IF m.from = Me THEN <<mk("Out", m.to)>> ELSE <<>>)

TrxStatus(row) == IF row.ret = None THEN "Pending" ELSE Status(row.ret = "SUCCESS")

\* The calls of contracts are in this list too; what they move is in the other.
parse_trx(rows) ==
    FlattenSeq(Each(rows, LAMBDA row : FlattenSeq(
        Each(SelectSeq(row.contracts, LAMBDA m : m.type = "TransferContract"),
             LAMBDA m : classify(row, m, "TRX", 6, TrxStatus(row))))))

parse_trc20(rows) ==
    FlattenSeq(Each(SelectSeq(rows, LAMBDA row : row.type = "Transfer"),
                    LAMBDA row : classify(row, [from |-> row.from, to |-> row.to, amount |-> row.value],
                                          row.symbol, row.decimals, "Success")))

NewestById(a, b) == a.block_ts > b.block_ts \/ (a.block_ts = b.block_ts /\ a.txid < b.txid)

merge(entries) ==
    dedup_by(SortBy(entries, NewestById),
             LAMBDA a, b : /\ a.txid = b.txid /\ a.direction = b.direction
                           /\ a.symbol = b.symbol /\ a.amount = b.amount)

---------------------------------------------------------------------------
(* Solana: what changed, not what was done.                                *)

Way(delta) == IF delta > 0 THEN "In" ELSE "Out"

\* By exactly the opposite amount; or who paid the fee of what came in; or who gained
\* the most of what went out; or nobody.
other_party(tx, mine, delta) ==
    LET moved(k) == tx.post[k] - tx.pre[k]
        others == DOMAIN tx.keys \ {mine}
        exact == {k \in others : moved(k) = -delta}
        gained == {k \in others : moved(k) > 0}
    IN CASE exact # {} -> tx.keys[CHOOSE k \in exact : \A j \in exact : k <= j]
         [] exact = {} /\ delta > 0 /\ mine # 1 -> tx.keys[1]
         [] exact = {} /\ delta < 0 /\ gained # {} ->
              tx.keys[CHOOSE k \in gained : \A j \in gained :
                          moved(j) < moved(k) \/ (moved(j) = moved(k) /\ j <= k)]
         [] OTHER -> Nobody

\* The drop of the fee payer includes the fee.
SolDelta(tx, mine) == tx.post[mine] - tx.pre[mine] + IF mine = 1 THEN tx.fee ELSE 0

SolRow(sig, tx, mine) ==
    IF mine = 0 \/ tx.err \/ SolDelta(tx, mine) = 0 THEN <<>>
    ELSE <<Entry(sig, tx.blockTime * 1000, "SOL", 9, Abs(SolDelta(tx, mine)), Way(SolDelta(tx, mine)),
                 other_party(tx, mine, SolDelta(tx, mine)), "Success")>>

\* The first entry of an owner for the token; none is nothing held.
Side(entries, owner) ==
    LET own == SelectSeq(entries, LAMBDA e : e.owner = owner /\ e.mint = "token")
    IN IF own = <<>> THEN 0 ELSE own[1].amount

TokenDelta(tx, owner) == Side(tx.postTokens, owner) - Side(tx.preTokens, owner)

token_other_party(tx, delta) ==
    LET owners == {e.owner : e \in ToSet(tx.preTokens) \cup ToSet(tx.postTokens)} \ {Me}
        exact == {o \in owners : TokenDelta(tx, o) = -delta}
        against == {o \in owners : TokenDelta(tx, o) # 0 /\ (TokenDelta(tx, o) < 0) = (delta > 0)}
    IN IF exact # {} THEN CHOOSE o \in exact : TRUE
       ELSE IF against # {}
            THEN CHOOSE o \in against : \A q \in against : Abs(TokenDelta(tx, q)) <= Abs(TokenDelta(tx, o))
            ELSE Nobody

TokenRow(sig, tx, delta) ==
    IF tx.err \/ delta = 0 THEN <<>>
    ELSE <<Entry(sig, tx.blockTime * 1000, "USDT", 6, Abs(delta), Way(delta),
                 token_other_party(tx, delta), "Success")>>

extract_solana(sig, tx) ==
    SolRow(sig, tx, SelectInSeq(tx.keys, LAMBDA key : key = Me)) \o TokenRow(sig, tx, TokenDelta(tx, Me))

\* The signatures in batches; a batch that is refused loses its page.
Batches(sigs) == [k \in 1 .. (Len(sigs) + BATCH - 1) \div BATCH |->
                    SubSeq(sigs, BATCH * (k - 1) + 1,
                           IF BATCH * k < Len(sigs) THEN BATCH * k ELSE Len(sigs))]

solana_transfers(sigs, batches, txs) ==
    IF ~sigs.ok THEN Lost
    ELSE Both(FlattenSeq(Each(batches, LAMBDA b : Rows(b, LAMBDA ids : FlattenSeq(
                  Each(ids, LAMBDA sig : extract_solana(sig, txs[sig])))))), batches)

---------------------------------------------------------------------------
(* Aptos.                                                                  *)

\* Compared as an address, which the indexer pads.
known_asset(name) == IF name \in {"coin", "padded"} THEN "APT" ELSE IF name = "token" THEN "USDT" ELSE None

aptos_direction(kind) == IF kind = "Withdraw" THEN "Out" ELSE IF kind = "Deposit" THEN "In" ELSE None

parse_aptos(rows) ==
    Each(SelectSeq(rows, LAMBDA r : /\ r.success /\ known_asset(r.asset) # None /\ r.amount # 0
                               /\ aptos_direction(r.type) # None /\ r.owner = Me),
         LAMBDA r : Entry(r.version, iso_to_millis(r.date), known_asset(r.asset),
                          IF known_asset(r.asset) = "APT" THEN 8 ELSE 6, r.amount,
                          aptos_direction(r.type), None, "Success"))

---------------------------------------------------------------------------
(* Sui.                                                                    *)

known_coin(type) == IF type = "coin" THEN "SUI" ELSE IF type = "token" THEN "USDC" ELSE None

parse_sui(rows) ==
    FlattenSeq(Each(SelectSeq(rows, LAMBDA tx : tx.success), LAMBDA tx :
        Each(SelectSeq(tx.changes, LAMBDA ch : ch.owner = Me /\ known_coin(ch.coinType) # None /\ ch.amount # 0),
             LAMBDA ch : Entry(tx.digest, tx.ts, known_coin(ch.coinType),
                               IF known_coin(ch.coinType) = "SUI" THEN 9 ELSE 6,
                               Abs(ch.amount), Way(ch.amount), None, "Success"))))

NewestByDigest(a, b) == a.block_ts > b.block_ts \/ (a.block_ts = b.block_ts /\ a.txid < b.txid)

\* The same transaction can be in both lists.
sui_transfers(sent, received, limit) ==
    Both(Page(dedup_by(SortBy(Rows(sent, parse_sui) \o Rows(received, parse_sui), NewestByDigest),
                       LAMBDA a, b : a.txid = b.txid /\ a.symbol = b.symbol /\ a.amount = b.amount),
              limit), <<sent, received>>)

---------------------------------------------------------------------------
(* Bitcoin: the change is on both sides, so only the difference counts; of *)
(* what was sent, what others were paid, and the fee if nobody was.        *)

Value(coins) == FoldLeft(LAMBDA sum, v : sum + v.value, 0, coins)

Mine(coins)   == Value(SelectSeq(coins, LAMBDA v : v.addr = Me))
ToOthers(coins) == Value(SelectSeq(coins, LAMBDA v : v.addr # Me))

FirstOther(coins) ==
    LET others == SelectSeq(coins, LAMBDA v : v.addr \notin {Me, None})
    IN IF others = <<>> THEN None ELSE others[1].addr

BtcEntry(tx, amount, direction, other) ==
    Entry(tx.txid, tx.block_time * 1000, "BTC", 8, amount, direction, other,
          IF tx.confirmed THEN "Success" ELSE "Pending")

extract_btc(tx, delta, paid_out) ==
    CASE delta = 0 -> <<>>
      [] delta > 0 -> <<BtcEntry(tx, delta, "In", FirstOther(tx.vin))>>
      [] delta < 0 /\ paid_out > 0 -> <<BtcEntry(tx, paid_out, "Out", FirstOther(tx.vout))>>
      [] OTHER -> <<BtcEntry(tx, -delta, "Out", None)>>

parse_btc(rows) ==
    FlattenSeq(Each(rows, LAMBDA tx :
        extract_btc(tx, Mine(tx.vout) - Mine(tx.vin), ToOthers(tx.vout))))

---------------------------------------------------------------------------
(* TON.                                                                    *)

TonRow(t, symbol_, decimals_, amount, direction, other) ==
    <<Entry(t.hash, t.utime * 1000, symbol_, decimals_, amount, direction, other, "Success")>>

\* What came in, unless it came with tokens.
Arrived(t, plumbing) ==
    LET m == t.in_msg
    IN IF m.value > 0 /\ m.source \notin {"", plumbing}
       THEN TonRow(t, "GRAM", 9, m.value, "In", m.source) ELSE <<>>

\* What the reader once did: whatever was sent counts.
Went_Bounced(t, plumbing) ==
    FlattenSeq(Each(SelectSeq(t.out_msgs, LAMBDA m : m.value > 0 /\ m.destination \notin {Me, plumbing}),
                    LAMBDA m : TonRow(t, "GRAM", 9, m.value, "Out", m.destination)))

\* What went out because we said so; what is sent back is nothing we said.
Went(t, plumbing) ==
    IF t.in_msg.source # "" THEN <<>>
    ELSE FlattenSeq(Each(SelectSeq(t.out_msgs, LAMBDA m : m.value > 0 /\ m.destination \notin {Me, plumbing}),
                         LAMBDA m : TonRow(t, "GRAM", 9, m.value, "Out", m.destination)))

parse_ton(rows, plumbing) == FlattenSeq(Each(rows, LAMBDA t : Arrived(t, plumbing) \o Went(t, plumbing)))

\* The body says what moved: to whom if we sent it, from whom if not.
parse_move(body) ==
    IF body.op \notin {"transfer", "internal_transfer"} THEN <<>>
    ELSE <<[amount |-> body.amount, counterparty |-> body.party, outgoing |-> body.op = "transfer"]>>

parse_jetton(rows) ==
    FlattenSeq(Each(rows, LAMBDA t : FlattenSeq(
        Each(SelectSeq(parse_move(t.in_msg.body), LAMBDA mv : mv.amount # 0),
             LAMBDA mv : TonRow(t, "USDT", 6, mv.amount, IF mv.outgoing THEN "Out" ELSE "In",
                                mv.counterparty)))))
=============================================================================
