------------------------------- MODULE Ledger -------------------------------
(***************************************************************************)
(* What really happened to an account, and how each provider tells it.     *)
(* None of this is code of the wallet: the replies have the fields the     *)
(* readers of the wallet take, with the meaning the providers give them.   *)
(*                                                                         *)
(* A ledger is a sequence of transactions, the oldest first.  The place of *)
(* one in it is its id and says on what day it happened.                   *)
(***************************************************************************)
EXTENDS Integers, Sequences, SequencesExt, FiniteSets, Chains

CONSTANTS Dates,   \* the day of each transaction: <<year, month, day>>
          Me, Peer, Third, Shop   \* the account, two others, a contract that pays

\* Our own token contract on TON, and a place no address names.
MyTokens == "mytokens"
Nobody   == "nobody"

---------------------------------------------------------------------------
(* A transaction: who pays for it, whether it worked, whether it is in a   *)
(* block yet, and what it moved.                                           *)

Did(payer, moves) == [payer |-> payer, ok |-> TRUE, mined |-> TRUE, moves |-> moves]
Moved(asset, from, to, amount) == [asset |-> asset, from |-> from, to |-> to, amount |-> amount]

Fee == 3

\* Our side of a move: what came in less what went out.
Delta(m, who) == (IF m.to = who THEN m.amount ELSE 0) - (IF m.from = who THEN m.amount ELSE 0)

Net(t, asset, who) ==
    IF ~t.ok THEN 0
    ELSE FoldLeft(LAMBDA sum, m : sum + IF m.asset = asset THEN Delta(m, who) ELSE 0, 0, t.moves)

FeeOf(t, who) == IF t.payer = who THEN Fee ELSE 0

Touched(t) == {t.payer} \cup UNION {{m.from, m.to} : m \in ToSet(t.moves)}

Newest(ledger) == Reverse([i \in DOMAIN ledger |-> i])

\* Of the transactions chosen, the newest first, those made by Row from their ids.
Listing(ledger, Chosen(_), Row(_)) ==
    FlattenSeq(FoldLeft(LAMBDA rows, i : IF Chosen(i) THEN Append(rows, Row(i)) ELSE rows,
                        <<>>, Newest(ledger)))

\* No more of a list than was asked for.
Page(s, limit) == SubSeq(s, 1, IF Len(s) < limit THEN Len(s) ELSE limit)

MovesOf(t, asset) == SelectSeq(t.moves, LAMBDA m : m.asset = asset)

---------------------------------------------------------------------------
(* The calendar, counted day by day.                                       *)

Leap(y)      == y % 4 = 0 /\ (y % 100 # 0 \/ y % 400 = 0)
MonthDays(y) == <<31, IF Leap(y) THEN 29 ELSE 28, 31, 30, 31, 30, 31, 31, 30, 31, 30, 31>>

DayOf(date) ==
    FoldLeft(+, 0, [k \in 1 .. date[1] - 1970 |-> IF Leap(1969 + k) THEN 366 ELSE 365])
        + FoldLeft(+, 0, SubSeq(MonthDays(date[1]), 1, date[2] - 1)) + date[3] - 1

Days == [i \in DOMAIN Dates |-> DayOf(Dates[i])]

\* A second is a day here, or TLC's integers would not hold the milliseconds.
Secs(i)   == Days[i]
Millis(i) == 1000 * Days[i]

---------------------------------------------------------------------------
(* EVM.  Every transaction is a call with some coin or none; a token moves *)
(* by an event of its contract, which a failed one does not leave.  What a *)
(* contract pays in coin is in neither list.                               *)

CallOf(t) ==
    LET paid == SelectSeq(MovesOf(t, "coin"), LAMBDA m : m.from = t.payer)
    IN IF paid # <<>> THEN paid[1] ELSE Moved("coin", t.payer, Shop, 0)

Events(t) == IF t.ok THEN SelectSeq(t.moves, LAMBDA m : m.asset # "coin") ELSE <<>>

Between(m) == Me \in {m.from, m.to}

NodeRealRow(i, t, m) ==
    [category |-> IF m.asset = "coin" THEN "external" ELSE "20", contract |-> m.asset, hash |-> i,
     from |-> m.from, to |-> m.to, value |-> m.amount, ts |-> Secs(i), ok |-> t.ok]

NodeRealSays(ledger, direction) ==
    Listing(ledger, LAMBDA i : TRUE,
            LAMBDA i : LET all == <<CallOf(ledger[i])>> \o Events(ledger[i])
                           own == SelectSeq(all, LAMBDA m : m[direction] = Me)
                       IN [k \in DOMAIN own |-> NodeRealRow(i, ledger[i], own[k])])

ListRow(i, t, m) ==
    [hash |-> i, from |-> m.from, to |-> m.to, value |-> m.amount, contract |-> m.asset,
     secs |-> Secs(i), date |-> Dates[i], ok |-> t.ok, decimals |-> None]

CallsSay(ledger) ==
    Listing(ledger, LAMBDA i : Between(CallOf(ledger[i])),
            LAMBDA i : <<ListRow(i, ledger[i], CallOf(ledger[i]))>>)

\* With its decimals, and of one token only if the request names it.
EventsSay(ledger, named, tokenDecimals) ==
    Listing(ledger, LAMBDA i : TRUE,
            LAMBDA i : LET own == SelectSeq(Events(ledger[i]), LAMBDA m :
                                       Between(m) /\ (named => m.asset = "token"))
                       IN [k \in DOMAIN own |->
                              [ListRow(i, ledger[i], own[k]) EXCEPT !.decimals = tokenDecimals]])

\* Etherscan's envelope; an empty list comes labelled as an error.
Envelope(list) == [status |-> IF list = <<>> THEN "0" ELSE "1", result |-> list]

---------------------------------------------------------------------------
(* TRON.                                                                   *)

TrxSays(ledger) ==
    Listing(ledger, LAMBDA i : \E m \in ToSet(ledger[i].moves) :
                                  Between(m) /\ (m.asset = "coin" \/ ledger[i].payer = Me),
            LAMBDA i : <<[txID |-> i, ts |-> Millis(i),
                          ret |-> IF ledger[i].ok THEN "SUCCESS" ELSE "REVERT",
                          contracts |-> [k \in DOMAIN ledger[i].moves |->
                              LET m == ledger[i].moves[k]
                              IN [type |-> IF m.asset = "coin" THEN "TransferContract"
                                           ELSE "TriggerSmartContract",
                                  from |-> m.from, to |-> m.to, amount |-> m.amount]]]>>)

Trc20Says(ledger, tokenSymbol, tokenDecimals) ==
    Listing(ledger, LAMBDA i : TRUE,
            LAMBDA i : LET own == SelectSeq(Events(ledger[i]), LAMBDA m :
                                               Between(m) /\ m.asset = "token")
                       IN [k \in DOMAIN own |->
                              [txID |-> i, ts |-> Millis(i), type |-> "Transfer",
                               from |-> own[k].from, to |-> own[k].to, value |-> own[k].amount,
                               symbol |-> tokenSymbol, decimals |-> tokenDecimals]])

---------------------------------------------------------------------------
(* Solana.  An account is listed under what names it: the tokens sent to a *)
(* token account that is there already do not name its owner.              *)

HadTokens(ledger, i) == \E j \in 1 .. i - 1 : \E m \in ToSet(Events(ledger[j])) :
                            m.asset = "token" /\ Me \in {m.from, m.to}

NamesMe(ledger, i) ==
    \/ ledger[i].payer = Me
    \/ \E m \in ToSet(ledger[i].moves) :
           \/ m.asset = "coin" /\ Between(m)
           \/ m.from = Me
           \/ m.asset = "token" /\ m.to = Me /\ ~HadTokens(ledger, i)

SignaturesSay(ledger, limit) ==
    Page(Listing(ledger, LAMBDA i : NamesMe(ledger, i), LAMBDA i : <<i>>), limit)

Held == 100     \* what every account holds at first

Keys(t) == <<t.payer>> \o SetToSeq(Touched(t) \ {t.payer})

TokenSide(ledger, i, after) ==
    LET t == ledger[i]
        entry(who, asset) ==
            [owner |-> who, mint |-> asset,
             amount |-> (IF who = Me /\ ~HadTokens(ledger, i) /\ Net(t, asset, Me) > 0 THEN 0 ELSE Held)
                            + IF after THEN Net(t, asset, who) ELSE 0]
        all == FoldLeft(LAMBDA rows, m : rows \o <<entry(m.from, m.asset), entry(m.to, m.asset)>>,
                        <<>>, Events(t))
    IN SelectSeq(all, LAMBDA e : after \/ e.amount # 0)

TransactionSays(ledger, i) ==
    LET t == ledger[i]
        keys == Keys(t)
    IN [err |-> ~t.ok, blockTime |-> Secs(i), fee |-> Fee, keys |-> keys,
        pre  |-> [k \in DOMAIN keys |-> Held],
        post |-> [k \in DOMAIN keys |-> Held + Net(t, "coin", keys[k]) - FeeOf(t, keys[k])],
        preTokens  |-> TokenSide(ledger, i, FALSE),
        postTokens |-> TokenSide(ledger, i, TRUE)]

---------------------------------------------------------------------------
(* Aptos: two events of a move, and one of the fee.  A row names the coin  *)
(* by its type or by its padded address.                                   *)

Activity(i, t, kind, m, asset) ==
    [success |-> t.ok, asset |-> asset, amount |-> m.amount, type |-> kind, owner |-> Me,
     date |-> Dates[i], version |-> i]

ActivitiesOf(i, t) ==
    LET name(m) == IF m.asset = "coin" THEN (IF i % 2 = 0 THEN "coin" ELSE "padded") ELSE m.asset
        events(m) == (IF m.from = Me THEN <<Activity(i, t, "Withdraw", m, name(m))>> ELSE <<>>)
                        \o (IF m.to = Me THEN <<Activity(i, t, "Deposit", m, name(m))>> ELSE <<>>)
        gas == IF t.payer = Me
               THEN <<Activity(i, t, "GasFee", Moved("coin", Me, Nobody, Fee), "coin")>> ELSE <<>>
    IN gas \o IF t.ok THEN FlattenSeq([k \in DOMAIN t.moves |-> events(t.moves[k])]) ELSE <<>>

ActivitiesSay(ledger, limit) ==
    Page(Listing(ledger, LAMBDA i : TRUE, LAMBDA i : ActivitiesOf(i, ledger[i])), limit)

---------------------------------------------------------------------------
(* Sui: how the holdings of an address changed, the gas of it included.    *)

ChangesOf(t) ==
    LET coin == Net(t, "coin", Me) - FeeOf(t, Me)
        change(asset, amount) == [owner |-> Me, coinType |-> asset, amount |-> amount]
        peer == [owner |-> Peer, coinType |-> "coin", amount |-> Net(t, "coin", Peer)]
    IN <<peer, change("coin", coin), change("token", Net(t, "token", Me)),
         change("fake", Net(t, "fake", Me))>>

BlocksSay(ledger, filter) ==
    Listing(ledger,
            LAMBDA i : IF filter = "FromAddress" THEN ledger[i].payer = Me
                       ELSE \E m \in ToSet(ledger[i].moves) : m.to = Me,
            LAMBDA i : <<[digest |-> i, ts |-> Millis(i), success |-> ledger[i].ok,
                          changes |-> ChangesOf(ledger[i])]>>)

---------------------------------------------------------------------------
(* Bitcoin: the inputs and outputs, what is not in a block yet before the  *)
(* rest.  A payment spends a coin and sends what is left of it back.       *)

Left == 20

BitcoinSays(ledger) ==
    LET row(i) ==
            LET t == ledger[i]
                m == t.moves[1]
            IN [txid |-> i, confirmed |-> t.mined, block_time |-> IF t.mined THEN Secs(i) ELSE 0,
                vin  |-> <<[addr |-> m.from, value |-> m.amount + Fee + Left]>>,
                vout |-> <<[addr |-> IF m.to = Nobody THEN None ELSE m.to, value |-> m.amount],
                           [addr |-> m.from, value |-> Left]>>]
        mined(want) == Listing(ledger, LAMBDA i : ledger[i].mined = want /\ Me \in Touched(ledger[i]),
                               LAMBDA i : <<row(i)>>)
    IN mined(FALSE) \o mined(TRUE)

---------------------------------------------------------------------------
(* TON: what an account was told and what it sent then.  A payment of      *)
(* tokens is a message with a little coin to our token contract, and what  *)
(* was not used of the coin comes back from it or from the other one.  A   *)
(* payment that cannot be delivered is sent back.                          *)

Carried == 5
Excess  == 1
Message(source, destination, value, body) ==
    [source |-> source, destination |-> destination, value |-> value, body |-> body]
Signed    == Message("", Me, 0, None)       \* from outside, which is how a wallet is told to act
Ran(i, in, out) == [hash |-> i, utime |-> Secs(i), in_msg |-> in, out_msgs |-> out]

WalletRan(i, m, ok) ==
    CASE m.asset = "coin" /\ m.from = Me /\ ok ->
           (IF m.to = Me THEN <<Ran(i, Message(Me, Me, m.amount, None), <<>>)>> ELSE <<>>)
               \o <<Ran(i, Signed, <<Message(Me, m.to, m.amount, None)>>)>>
      [] m.asset = "coin" /\ m.from = Me /\ ~ok -> <<Ran(i, Signed, <<>>)>>
      [] m.asset = "coin" /\ m.from # Me /\ m.to = Me ->
           <<Ran(i, Message(m.from, Me, m.amount, None),
                 IF ok THEN <<>> ELSE <<Message(Me, m.from, m.amount - 1, None)>>)>>
      [] m.asset = "token" /\ m.from = Me /\ ok ->
           <<Ran(i, Message(IF i % 2 = 0 THEN MyTokens ELSE Shop, Me, Excess, "excesses"), <<>>),
             Ran(i, Signed, <<Message(Me, MyTokens, Carried, "transfer")>>)>>
      [] OTHER -> <<>>

WalletSays(ledger, limit) ==
    Page(Listing(ledger, LAMBDA i : TRUE, LAMBDA i : FlattenSeq(
             [k \in DOMAIN ledger[i].moves |-> WalletRan(i, ledger[i].moves[k], ledger[i].ok)])), limit)

\* The token contract: told to send by its owner, or that tokens came by another.
TokensRan(i, m) ==
    LET body == [op |-> IF m.from = Me THEN "transfer" ELSE "internal_transfer",
                 amount |-> m.amount, party |-> IF m.from = Me THEN m.to ELSE m.from]
    IN <<Ran(i, Message(IF m.from = Me THEN Me ELSE Shop, MyTokens, Carried, body), <<>>)>>

TokenWalletSays(ledger, limit) ==
    LET all == Listing(ledger, LAMBDA i : TRUE, LAMBDA i : FlattenSeq(
                   [k \in DOMAIN Events(ledger[i]) |->
                       LET m == Events(ledger[i])[k]
                       IN IF m.asset = "token" /\ Between(m) THEN TokensRan(i, m) ELSE <<>>]))
        noise == <<Ran(Len(ledger), Message(Shop, MyTokens, 1, [op |-> "excesses"]), <<>>)>>
    IN Page(noise \o all, limit)
=============================================================================
