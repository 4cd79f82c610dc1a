------------------------------ MODULE Payment ------------------------------
(***************************************************************************)
(* From an amount, or "everything", to a transfer the balance covers:      *)
(* the amount field, the quote and the checks on it of the transfer screen *)
(* (neko-tui: send.rs, app.rs, keys.rs, chain.rs) and what is checked at   *)
(* signing (neko-core: transfer.rs).                                       *)
(*                                                                         *)
(* The screen offers the balance it was opened with.  Coins come and go    *)
(* while the user types, and the quote reads the chain again.  An amount   *)
(* is a number of minimal units, and the field a text that is read as one  *)
(* (Amounts); typing is one step.  Request ids, late answers and           *)
(* the password are the business of SendFlow.                              *)
(***************************************************************************)
EXTENDS Fees, Numerals

CONSTANTS Kinds,       \* the variants of FeeQuote in play
          Texts,       \* bound: what may be typed
          Amounts,     \* bound: amounts of a token, and smaller amounts to compare with
          Decimals,    \* of the asset
          BALANCE_FRAC,\* decimals of a balance on screen, at most
          I128,
          Balances,    \* bound: what an account may hold
          Coins,       \* bound: what a coin may be
          MaxCoins,    \* bound: coins of the address
          Rates,       \* fee rates an estimator may answer, in thousandths
          MaxMoves     \* bound: times the balance changes under the screen

AllKinds == {"tron", "evm", "solana", "bitcoin", "ton", "aptos", "sui"}

ASSUME KindAssumption == Kinds \subseteq AllKinds
ASSUME AmountAssumption == /\ Amounts \subseteq 1..U64
                           /\ Balances \subseteq 0..I128 /\ Rates \subseteq Nat
                           /\ Coins \subseteq [value : 1..U64, confirmed : BOOLEAN]
ASSUME TextAssumption == Decimals \in Nat /\ BALANCE_FRAC \in Nat \ {0}
\* scale: what one of an asset comes to is an i128.
ASSUME ScaleAssumption == pow10(Decimals) <= I128
ASSUME BoundAssumption == MaxCoins \in Nat /\ MaxMoves \in Nat
\* Amounts are i128, and u64 is none too large for one.
ASSUME RangeAssumption == I128 \in Nat /\ U64 <= I128
\* None is no number, and no selection.
ASSUME NoneAssumption == /\ None \notin Int
                         /\ None \notin [change : Int \cup {None}, fee : Int, vbytes : Int]

A == INSTANCE Amounts

VARIABLES
    kind, native,    \* the asset: its family, and whether it is the coin fees are paid in
    purse,           \* what the address holds of that coin: coins, or a number
    shown,           \* SendState.balance: what the screen was opened with, or None
    text,            \* the amount field
    amount,          \* what it is read as; 0 where it is no amount
    max_requested,
    held_back,
    step,
    asked,           \* the amount the quote was asked for
    quote,           \* the quote under review
    req,             \* the amount of the request under review
    reason,          \* why the transfer failed
    byHand,          \* history: the amount was last edited by hand
    moves

field  == <<shown, text, amount, max_requested, held_back, byHand>>
review == <<asked, quote, req, reason>>
vars   == <<kind, native, purse, field, step, review, moves>>

Holding == IF kind = "bitcoin" THEN ValueOf(purse) ELSE purse

Purses(k) == IF k = "bitcoin" THEN UNION {[1..n -> Coins] : n \in 0..MaxCoins} ELSE Balances

\* App::open_send: the balance the assets screen has, when it has one.  Of a
\* token it is any, and nothing here depends on it.
Opened(k, n, holds) ==
    /\ shown \in IF n THEN {holds, None} ELSE Amounts \cup {None}
    /\ text = <<>> /\ amount = 0 /\ max_requested = FALSE /\ held_back = None /\ byHand = FALSE
    /\ step = "EnterAmount"
    /\ asked = 0 /\ quote = None /\ req = 0 /\ reason = None

Init == /\ kind \in Kinds
        /\ native \in IF kind = "bitcoin" THEN {TRUE} ELSE BOOLEAN
        /\ purse \in Purses(kind)
        /\ Opened(kind, native, Holding)
        /\ moves = 0

---------------------------------------------------------------------------
(* The amount.                                                             *)

\* Enter goes no further with what is no amount.
AmountOf(t) == IF A!parse(t, Decimals) = None THEN 0 ELSE A!parse(t, Decimals)

\* SendState::set_amount
Written(a) == to_display_string_full(a, Decimals)

\* Mutant: the request for everything outlives the edit.
Type_KeepsRequest(t) ==
    /\ step = "EnterAmount"
    /\ text' = t /\ amount' = AmountOf(t) /\ byHand' = TRUE
    /\ UNCHANGED <<kind, native, purse, shown, max_requested, held_back, step, review, moves>>

\* Editing by hand withdraws the request.
Type(t) ==
    /\ step = "EnterAmount"
    /\ text' = t /\ amount' = AmountOf(t) /\ byHand' = TRUE
    /\ max_requested' = FALSE /\ held_back' = None
    /\ UNCHANGED <<kind, native, purse, shown, step, review, moves>>

request_max ==
    /\ step = "EnterAmount" /\ shown # None
    /\ max_requested' = TRUE /\ held_back' = None
    /\ text' = Written(shown) /\ amount' = shown /\ byHand' = FALSE
    /\ UNCHANGED <<kind, native, purse, shown, step, review, moves>>

Ask == /\ step = "EnterAmount" /\ amount > 0
       /\ step' = "Quoting" /\ asked' = amount
       /\ UNCHANGED <<kind, native, purse, field, quote, req, reason, moves>>

\* Money arrives, or is spent from elsewhere.
PurseChanges ==
    /\ step \in {"EnterAmount", "Quoting"} /\ moves < MaxMoves
    /\ moves' = moves + 1
    /\ IF kind # "bitcoin" THEN purse' \in Balances \ {purse}
       ELSE \/ /\ Len(purse) < MaxCoins
               /\ \E c \in Coins : purse' = Append(purse, c)
            \/ /\ purse # <<>>
               /\ purse' = Tail(purse)
    /\ UNCHANGED <<kind, native, field, step, review>>

---------------------------------------------------------------------------
(* The quotes.  `cost` is what FeeQuote::total shows, `hold` what           *)
(* FeeQuote::reserve holds back, `asks` what the network will ask as far as  *)
(* its figures were read; `balance` is the chain's, or None.                *)

Quote(c, balance) ==
    [amount |-> asked, cost |-> c.cost, hold |-> c.hold, asks |-> c.asks,
     balance |-> balance, payment |-> None, selection |-> None]

\* rpc.balance(from).await.ok()
MayRead == {purse, None}

TronQuotes   == {Quote(c, None) : c \in Costs("tron", native)}
EvmQuotes    == {Quote(c, r) : c \in Costs("evm", native), r \in MayRead}
SolanaQuotes == {Quote(c, r) : c \in Costs("solana", native), r \in MayRead}
TonQuotes    == {Quote(c, purse) : c \in Costs("ton", native)}
AptosQuotes  == {Quote(c, r) : c \in Costs("aptos", native), r \in MayRead}

\* The dry run must succeed, for which the coins have to cover the budget.
SuiQuotes == {Quote(c, purse) : c \in {d \in Costs("sui", native) :
                                        purse >= d.hold + IF native THEN asked ELSE 0}}

Payments == [to : {P2WPKH, P2PKH}, change_to : {P2WPKH}, amount : {asked},
             rate : {from_milli(r) : r \in Rates}]

\* u64::try_from(req.amount.raw): the amount is too large for the transaction.
TooLarge == kind \in {"solana", "bitcoin", "aptos", "sui"} /\ asked > U64

Tried == {[payment |-> p, selection |-> select(p, purse)] :
            p \in {q \in Payments : kind = "bitcoin" /\ ~TooLarge}}

BitcoinQuotes == {[Quote(Cost(t.selection.fee, t.selection.fee, t.selection.fee), Holding)
                     EXCEPT !.payment = t.payment, !.selection = t.selection] :
                    t \in {u \in Tried : u.selection.ok}}

Quotes == IF TooLarge THEN {}
          ELSE CASE kind = "tron"    -> TronQuotes
                 [] kind = "evm"     -> EvmQuotes
                 [] kind = "solana"  -> SolanaQuotes
                 [] kind = "ton"     -> TonQuotes
                 [] kind = "aptos"   -> AptosQuotes
                 [] kind = "sui"     -> SuiQuotes
                 [] kind = "bitcoin" -> BitcoinQuotes

\* FeeQuote::set_amount: TRON's quote carries no amount; Bitcoin's and Sui's
\* coins were chosen for theirs.
set_amount(q, a) == IF kind \in {"tron", "bitcoin", "sui"} THEN q ELSE [q EXCEPT !.amount = a]

\* Mutant: what the transfer is expected to cost.
reserve_Expected(q) == q.cost

reserve(q) == q.hold

needed(q) == q.hold + IF native THEN q.amount ELSE 0

\* FeeQuote::affordable, where "unknown" is None.
affordable(q) == CASE kind = "bitcoin" -> "yes"
                   [] kind = "tron" \/ q.balance = None -> "unknown"
                   [] OTHER -> IF q.balance >= needed(q) THEN "yes" ELSE "no"

\* fee.native_balance().or(s.balance)
HoldFrom(q) == IF kind # "tron" /\ q.balance # None THEN q.balance ELSE shown

HoldsBack(q) == max_requested /\ native /\ HoldFrom(q) # None /\ HoldFrom(q) > reserve(q)

\* on_quoted, and the reading of the chain before it: hold_back_fee takes what
\* the chain will check the balance against off "everything", unless nothing
\* would be left, and the request is built from the field after that.
OnQuoted(q) ==
    /\ step = "Quoting" /\ step' = "Review"
    /\ IF HoldsBack(q)
         THEN /\ amount' = HoldFrom(q) - reserve(q)
              /\ text' = Written(amount')
              /\ held_back' = reserve(q)
              /\ quote' = set_amount(q, amount')
         ELSE /\ quote' = q
              /\ UNCHANGED <<text, amount, held_back>>
    /\ req' = amount'
    /\ UNCHANGED <<kind, native, purse, shown, max_requested, byHand, asked, reason, moves>>

\* Anything the network may say instead, an amount that is too large, the coins not
\* being enough, or a dry run that fails: the transfer ends there.
Refused == {[why |-> "Network"]}
    \cup {[why |-> t.selection.why, payment |-> t.payment,
           needed |-> Needed(t.payment, purse), available |-> ValueOf(purse)] :
            t \in {u \in Tried : ~u.selection.ok}}
    \cup {[why |-> "DryRun"] : c \in {d \in Costs("sui", native) :
                kind = "sui" /\ purse < d.hold + IF native THEN asked ELSE 0}}

OnQuoteFailed(r) ==
    /\ step = "Quoting" /\ step' = "Failed"
    /\ reason' = r
    /\ UNCHANGED <<kind, native, purse, field, asked, quote, req, moves>>

---------------------------------------------------------------------------
(* The review, and the signature.                                          *)

\* Mutant: the chain's own figures are not asked.
Confirm_Unchecked ==
    /\ step = "Review"
    /\ step' = "Authorize"
    /\ UNCHANGED <<kind, native, purse, field, review, moves>>

\* Enter on the review (the retyped tail is SendFlow's).
Confirm == /\ step = "Review" /\ affordable(quote) # "no"
           /\ step' = "Authorize"
           /\ UNCHANGED <<kind, native, purse, field, review, moves>>

\* What the transaction's outputs leave of its inputs, or None.
ChangeOf(s) == IF s.change = None THEN 0 ELSE s.change
ActualFee(q) ==
    LET outputs == Wrap(req + ChangeOf(q.selection))
    IN IF outputs > ValueOf(q.selection.inputs) THEN None
       ELSE ValueOf(q.selection.inputs) - outputs

\* Session::sign_transfer: a Bitcoin fee must be the one that was quoted.
Sign == /\ step = "Authorize"
        /\ IF kind = "bitcoin" /\ ActualFee(quote) # quote.cost
             THEN step' = "Failed" /\ reason' = [why |-> "FeeMismatch"]
             ELSE step' = "Broadcasting" /\ UNCHANGED reason
        /\ UNCHANGED <<kind, native, purse, field, asked, quote, req, moves>>

\* Esc, and the screen opened anew.
Reopen == /\ step # "EnterAmount"
          /\ shown' \in IF native THEN {Holding, None} ELSE Amounts \cup {None}
          /\ text' = <<>> /\ amount' = 0 /\ max_requested' = FALSE /\ held_back' = None /\ byHand' = FALSE
          /\ step' = "EnterAmount"
          /\ asked' = 0 /\ quote' = None /\ req' = 0 /\ reason' = None
          /\ UNCHANGED <<kind, native, purse, moves>>

Next == \/ \E t \in Texts : Type(t)
        \/ request_max \/ Ask \/ PurseChanges
        \/ \E q \in Quotes : OnQuoted(q)
        \/ \E r \in Refused : OnQuoteFailed(r)
        \/ Confirm \/ Sign \/ Reopen

Spec == Init /\ [][Next]_vars

---------------------------------------------------------------------------
(* Properties.                                                             *)

\* Two amounts near the end of u64 would wrap where coins.rs adds them.
Fits == kind = "bitcoin" => asked + quote.cost <= U64

Approved == step \in {"Authorize", "Broadcasting"}

\* Nothing is signed that the chain's own figures, where they could be read, say
\* cannot be paid for: the balance covers what is reserved and, where they come
\* out of the same coin, the amount that is really signed - which is not the
\* amount the quote was asked for (keys.rs: unaffordable, app.rs: on_quoted).  And
\* what is reserved is what the network will ask, or more: what could not be read
\* was reckoned with as if there were none (send.rs: total_burn, max_fee_wei).
PaidFor == Approved /\ Fits =>
    /\ quote.balance # None => quote.balance >= quote.hold + IF native THEN req ELSE 0
    /\ quote.hold >= quote.asks

\* "Everything" leaves nothing but the reserve: the reduced amount and what is
\* held back are the balance to the unit, and the review can be confirmed
\* (send.rs: hold_back_fee, set_amount).
MaxIsExact == step = "Review" /\ held_back # None =>
                  /\ req + held_back = HoldFrom(quote)
                  /\ affordable(quote) # "no"

\* The amount reviewed is the amount asked for, unless everything was asked for
\* and the screen says what was held back; what was typed by hand is never
\* rewritten, whatever was pressed before (keys.rs: EnterAmount).
NeverRewritten == step = "Review" =>
                      /\ req # asked => held_back # None
                      /\ byHand => req = asked /\ held_back = None

\* What is read is what is meant, wherever the amount has just changed: the field
\* holds the amount that everything came to, after the fee was held back too, and no
\* other; the review will show it to the last unit; and the balance in a column is
\* never more than there is, nor nothing where there is something (amount.rs;
\* send.rs: "parses back to exactly raw").
WhatIsReadIsMeant == step = "EnterAmount" \/ (step = "Review" /\ held_back # None) =>
    /\ amount = AmountOf(text)
    /\ Says(Written(amount), Decimals) = amount
    /\ shown # None =>
         LET column == to_display_string_trim(shown, Decimals, BALANCE_FRAC)
             said   == Says(column, Decimals)
         IN IF Contains(column, "<") THEN shown \in 1..said - 1
            ELSE said <= shown /\ (said = 0 => shown = 0)

\* A Bitcoin transfer under review whose amount is the one its coins were chosen
\* for, and whose sum does not wrap.
Chose == step = "Review" /\ kind = "bitcoin" /\ held_back = None /\ Fits

\* Every satoshi of the inputs is the payment, the change or the fee; the fee is
\* no less than the rate asks for that size; change is never dust; and what is
\* left to the miners instead is less than an output for it would have cost and
\* been refused for (coins.rs: "Change that falls under it cannot be created,
\* and has to go to the fee instead").
CoinsAccounted == Chose =>
    LET s == quote.selection IN
      /\ ValueOf(s.inputs) = req + ChangeOf(s) + s.fee
      /\ s.fee >= fee_for(quote.payment.rate, s.vbytes)
      /\ s.change # None => s.change >= dust_threshold(quote.payment.change_to)
      /\ s.change = None =>
            s.fee < fee_for(quote.payment.rate, WithChange(quote.payment, Len(s.inputs)))
                      + dust_threshold(quote.payment.change_to)

\* Coins of the purse, by their places, that could pay what was asked and make change.
CanPay(S) ==
    /\ S # {}
    /\ FoldFunctionOnSet(LAMBDA c, v : c.value + v, 0, purse, S)
          >= asked + fee_for(quote.payment.rate, WithChange(quote.payment, Cardinality(S)))

\* If confirmed coins could pay and make change, as few of them are spent as any
\* choice of them needs, and no unconfirmed one.  That is what the sort of coins.rs
\* comes to, which puts every confirmed coin, however small, before every unconfirmed
\* one; its comments say "the fewest inputs", and "confirmed coins ahead of unconfirmed
\* ones of the same size", and of all the coins neither is so.
FewestConfirmed == Chose =>
    \A S \in SUBSET {i \in DOMAIN purse : purse[i].confirmed} :
        CanPay(S) => /\ Len(quote.selection.inputs) <= Cardinality(S)
                     /\ \A c \in Range(quote.selection.inputs) : c.confirmed

\* Whoever can pay an amount can pay a smaller one that is not dust.
LessIsPayable == Chose =>
    \A a \in Amounts : a \in dust_threshold(quote.payment.to)..asked =>
        select([quote.payment EXCEPT !.amount = a], purse).ok

\* What the amount screen offers (en.toml: "press m to send it all"): if all the
\* coins leave something after their fee, asking for everything does not fail.
MaxSendsAll == step = "Failed" /\ max_requested /\ reason.why = "NotEnough" =>
    select_all(reason.payment, purse) = None
=============================================================================
