------------------------------ MODULE History ------------------------------
(***************************************************************************)
(* The history of an address: chain::history of neko-tui, which asks the   *)
(* provider of the chain and puts its lists together, and the screen that  *)
(* shows the rows: HistoryState of nav.rs, App::open_history,              *)
(* fetch_history, set_viewport and on_key_history.                         *)
(*                                                                         *)
(* Two accounts can be opened.  "this" has the ledger and the chain that   *)
(* Init picks, "other" has OtherLedger on TRON: what is late for one must  *)
(* not be shown as the other's.                                            *)
(***************************************************************************)
EXTENDS HistoryReaders

CONSTANTS InPlay, Ledgers, OtherLedger,
          Heights,                             \* of the terminal
          MIN_PAGE, DEFAULT_PAGE, HISTORY_CHROME,
          LIMIT,                               \* rows asked for
          MaxReq                               \* bound: requests of a behaviour

ASSUME NoneAssumption == None \notin Nat
ASSUME PageAssumption == /\ MIN_PAGE \in Nat \ {0} /\ DEFAULT_PAGE \in Nat /\ MIN_PAGE <= DEFAULT_PAGE
                         /\ HISTORY_CHROME \in Nat /\ Heights \subseteq Nat

VARIABLES chain, ledger, keys,     \* of "this": its chain, what happened, the keys that are set
          screen,                  \* an assets screen, or a HistoryState above it
          inflight, next_req,      \* the request whose answer is awaited
          asked,                   \* the requests under way
          height,
          heard                    \* how the lists of the answer on screen came in
vars == <<chain, ledger, keys, screen, inflight, next_req, asked, height, heard>>

---------------------------------------------------------------------------
(* chain::history.                                                         *)

\* Which list is asked: a key the user chose comes before what needs none.
index(c, ks) ==
    LET has(i) == i \in evm(c).index
    IN IF "etherscan" \in ks THEN "Etherscan"
       ELSE IF "nodereal" \in ks /\ has("NodeReal") THEN "NodeReal"
       ELSE IF has("Blockscout") THEN "Blockscout"
       ELSE IF has("Routescan") THEN "Routescan"
       ELSE IF has("NodeReal") THEN "NeedsIndexer"
       ELSE IF has("Etherscan") THEN "NeedsEtherscanKey" ELSE "NoIndexer"

Index(c, ks) == IF evm(c) = None THEN Family(c) ELSE index(c, ks)

\* How a list comes in: at once, at the third try, or refused.
Outcomes(i) == {"ok", "no"} \cup IF i = "Blockscout" THEN {"late"} ELSE {}

get_Once(outcome) == outcome = "ok"

\* Three attempts, unless it is refused.
get(outcome) == outcome \in {"ok", "late"}

Reply(outcome, rows) == IF outcome = "ok" THEN Got(rows) ELSE Lost

Enveloped(outcome, c, rows) ==
    result_of(IF outcome = "ok" /\ "Etherscan" \in evm(c).index THEN Envelope(rows)
              ELSE [status |-> "0", result |-> None])

Tried(outcome, rows) == IF get(outcome) THEN Got(rows) ELSE Lost

EvmTransfers(i, c, l, o) ==
    CASE i = "Etherscan" ->
           etherscan_transfers(Enveloped(o[1], c, CallsSay(l)),
                               Enveloped(o[2], c, EventsSay(l, TRUE, evm(c).stable_decimals)), c, LIMIT)
      [] i = "NodeReal" ->
           bsctrace_transfers(Reply(o[1], NodeRealSays(l, "from")),
                              Reply(o[2], NodeRealSays(l, "to")), c, LIMIT)
      [] i = "Blockscout" ->
           blockscout_transfers(Tried(o[1], CallsSay(l)),
                                Tried(o[2], EventsSay(l, FALSE, evm(c).stable_decimals)), c, LIMIT)
      [] i = "Routescan" ->
           etherscan_transfers(Reply(o[1], CallsSay(l)),
                               Reply(o[2], EventsSay(l, TRUE, evm(c).stable_decimals)), c, LIMIT)
      [] OTHER -> Lost

EvmHistory(transfers) ==
    IF transfers.ok THEN Got(Each(transfers.rows, EvmEntry)) ELSE Lost

\* Without the coin half nothing, without the token half what the other has.
TronMerged(trx, tokens) ==
    IF ~trx.ok \/ (~tokens.ok /\ parse_trx(trx.rows) = <<>>) THEN Lost
    ELSE Got(merge(parse_trx(trx.rows) \o Rows(tokens, parse_trc20)))

TronHistory(l, o) == TronMerged(Reply(o[1], TrxSays(l)), Reply(o[2], Trc20Says(l, "USDT", 6)))

SolanaHistory(l, o, batches) ==
    solana_transfers(Reply(o[1], batches),
                     [k \in DOMAIN batches |-> Reply(o[1 + k], batches[k])],
                     [sig \in DOMAIN l |-> TransactionSays(l, sig)])

\* Two lists, neither of which has the other's rows, and each in its own order.
TonMerged(rows, tokens) ==
    Got(Page(SortBy(rows \o tokens, Newer), LIMIT))

TonHistory(l, o) ==
    IF o[2] = "no" THEN Lost
    ELSE TonMerged(parse_ton(WalletSays(l, LIMIT), IF o[1] = "ok" THEN MyTokens ELSE None),
                   IF o[1] = "ok" /\ o[3] = "ok" THEN parse_jetton(TokenWalletSays(l, LIMIT)) ELSE <<>>)

history(i, c, l, o) ==
    CASE i = "sui" -> sui_transfers(Reply(o[1], BlocksSay(l, "FromAddress")),
                                    Reply(o[2], BlocksSay(l, "ToAddress")), LIMIT)
      [] i = "aptos" -> IF o[1] = "ok" THEN Got(parse_aptos(ActivitiesSay(l, LIMIT))) ELSE Lost
      [] i = "tron" -> TronHistory(l, o)
      [] i = "solana" -> SolanaHistory(l, o, Batches(SignaturesSay(l, LIMIT)))
      [] i = "ton" -> TonHistory(l, o)
      [] i = "bitcoin" -> IF o[1] = "ok" THEN Got(Page(parse_btc(BitcoinSays(l)), LIMIT)) ELSE Lost
      [] OTHER -> EvmHistory(EvmTransfers(i, c, l, o))

\* How many lists, or pages of one, an answer is put together from.
Legs(i, l) == CASE i \in {"aptos", "bitcoin"} -> 1
                [] i = "ton" -> 3
                [] i = "solana" -> 1 + Len(Batches(SignaturesSay(l, LIMIT)))
                [] OTHER -> 2

---------------------------------------------------------------------------
(* The screen.                                                             *)

ChainOf(who)  == IF who = "this" THEN chain ELSE "Tron"
LedgerOf(who) == IF who = "this" THEN ledger ELSE OtherLedger
IndexOf(who)  == Index(ChainOf(who), keys)

Clamp(n, low, high) == IF n < low THEN low ELSE IF n > high THEN high ELSE n

history_page_for(h) == Clamp(h - HISTORY_CHROME, MIN_PAGE, DEFAULT_PAGE)

Assets(who) == [at |-> "Assets", who |-> who]

NewHistory(who) == [at |-> "History", who |-> who, entries |-> None, error |-> FALSE,
                    show_dust |-> FALSE, selected |-> 0, page |-> history_page_for(height), offset |-> 0]

OnHistory == screen.at = "History"

visible(h) == IF h.entries = None THEN <<>>
              ELSE SelectSeq(h.entries, LAMBDA e : h.show_dust \/ ~is_dust(e))

\* App::fetch_history, on the screen h.
Fetching(h) ==
    /\ next_req <= MaxReq
    /\ screen' = [h EXCEPT !.entries = None, !.error = FALSE]
    /\ inflight' = next_req
    /\ next_req' = next_req + 1
    /\ asked' = asked \cup {[req |-> next_req, who |-> h.who]}
    /\ heard' = None

open_history == /\ screen.at = "Assets"
                /\ Fetching(NewHistory(screen.who))
                /\ UNCHANGED <<chain, ledger, keys, height>>

fetch_history == /\ OnHistory
                 /\ Fetching(screen)
                 /\ UNCHANGED <<chain, ledger, keys, height>>

\* Esc; nothing that is under way is forgotten.
Leave == /\ OnHistory
         /\ screen' = Assets(screen.who)
         /\ heard' = None
         /\ UNCHANGED <<chain, ledger, keys, inflight, next_req, asked, height>>

\* By way of the list of wallets, or of the chains.
OpenOther == /\ screen.at = "Assets"
             /\ screen' = Assets(IF screen.who = "this" THEN "other" ELSE "this")
             /\ UNCHANGED <<chain, ledger, keys, inflight, next_req, asked, height, heard>>

Shown(h, res) == IF res.ok THEN [h EXCEPT !.entries = res.rows, !.error = FALSE]
                 ELSE [h EXCEPT !.error = TRUE]

\* The code without the id.
Awaited_Any(ask) == inflight # None

\* AppEvent::History: an answer that is not the one awaited is dropped.
Awaited(ask) == inflight = ask.req

Answered(ask, outcomes) ==
    /\ inflight' = None
    /\ IF OnHistory
       THEN /\ screen' = Shown(screen, history(IndexOf(ask.who), ChainOf(ask.who),
                                               LedgerOf(ask.who), outcomes))
            /\ heard' = [who |-> ask.who, outcomes |-> outcomes]
       ELSE UNCHANGED <<screen, heard>>

OnAnswer == \E ask \in asked :
    /\ asked' = asked \ {ask}
    /\ IF Awaited(ask)
       THEN \E outcomes \in [1 .. Legs(IndexOf(ask.who), LedgerOf(ask.who)) -> Outcomes(IndexOf(ask.who))] :
                Answered(ask, outcomes)
       ELSE UNCHANGED <<screen, inflight, heard>>
    /\ UNCHANGED <<chain, ledger, keys, next_req, height>>

---------------------------------------------------------------------------
\* The cursor by so many rows, and the window after it.
move_by(h, delta) ==
    LET n  == Len(visible(h))
        to == Clamp(h.selected + delta, 0, n - 1)
    IN IF n = 0 THEN h
       ELSE [h EXCEPT !.selected = to,
                      !.offset = IF to < @ THEN to
                                 ELSE IF to >= @ + h.page THEN to + 1 - h.page ELSE @]

Move == /\ OnHistory
        /\ \E delta \in {1, -1, screen.page, -screen.page} : screen' = move_by(screen, delta)
        /\ UNCHANGED <<chain, ledger, keys, inflight, next_req, asked, height, heard>>

\* Toggling changes how many rows there are, so the cursor is brought back.
toggled(h, n) ==
    LET to == IF h.selected < n THEN h.selected ELSE IF n = 0 THEN 0 ELSE n - 1
    IN [h EXCEPT !.selected = to, !.offset = IF @ < to THEN @ ELSE to]

toggle_dust ==
    /\ OnHistory
    /\ LET h == [screen EXCEPT !.show_dust = ~@] IN screen' = toggled(h, Len(visible(h)))
    /\ UNCHANGED <<chain, ledger, keys, inflight, next_req, asked, height, heard>>

\* Only the page: the cursor may be below it.
Resized_PageOnly(h, page) == [h EXCEPT !.page = page]

Resized(h, page) ==
    [h EXCEPT !.page = page,
              !.offset = IF h.selected >= @ + page THEN h.selected + 1 - page ELSE @]

set_viewport ==
    /\ \E to \in Heights \ {height} :
          /\ height' = to
          /\ screen' = IF OnHistory THEN Resized(screen, history_page_for(to)) ELSE screen
    /\ UNCHANGED <<chain, ledger, keys, inflight, next_req, asked, heard>>

---------------------------------------------------------------------------
\* Bitcoin pays from what it pays with, and moves one coin in the models; on Sui and TON
\* nobody but its owner can send a token.
Possible(c, l) ==
    IF c = "Bitcoin"
    THEN \A t \in ToSet(l) : /\ t.ok /\ Len(t.moves) = 1
                             /\ t.moves[1].asset = "coin" /\ t.moves[1].from = t.payer
    ELSE \A t \in ToSet(l) :
            /\ t.mined /\ Nobody \notin Touched(t)
            /\ c \in {"Sui", "Ton"} => \A m \in ToSet(t.moves) : m.from = Me => t.payer = Me

\* A key of NodeReal or none, and Etherscan's or none.
KeysFor(c) == IF evm(c) = None THEN {{}} ELSE SUBSET {"etherscan", "nodereal"}

Init == /\ \E c \in InPlay : \E l \in {m \in Ledgers : Possible(c, m)} :
              /\ chain = c /\ ledger = l /\ keys \in KeysFor(c)
        /\ screen = Assets("this")
        /\ inflight = None /\ next_req = 1 /\ asked = {}
        /\ height \in Heights
        /\ heard = None

Next == open_history \/ fetch_history \/ Leave \/ OpenOther \/ OnAnswer \/ Move \/ toggle_dust
            \/ set_viewport

Spec == Init /\ [][Next]_vars

---------------------------------------------------------------------------
(* Properties.                                                             *)

Here == OnHistory /\ heard # None /\ heard.who = "this" /\ screen.who = "this"

OnScreen == IF screen.entries = None THEN {} ELSE ToSet(screen.entries)

AssetOf(e) == CHOOSE a \in ToSet(assets(chain)) : symbol(a) = e.symbol
Kind(e)    == IF AssetOf(e).token THEN "token" ELSE "coin"

Sign(e) == IF e.direction = "In" THEN 1 ELSE -1

\* What a row can be made of: a move of ours, the sum of them, and besides: Sui's
\* with its gas, the fee Bitcoin shows when nobody was paid, and the coin that travels
\* with tokens on TON.
IsReal(e, t) ==
    \/ \E m \in ToSet(MovesOf(t, Kind(e))) :
          /\ e.amount = m.amount
          /\ Me = IF e.direction = "In" THEN m.to ELSE m.from
          /\ e.counterparty \in {None, Nobody} \cup {IF e.direction = "In" THEN m.from ELSE m.to}
    \/ /\ Sign(e) * e.amount = Net(t, Kind(e), Me)
       /\ e.counterparty \in {None, Nobody} \cup (Touched(t) \ {Me})
    \/ chain = "Sui" /\ Kind(e) = "coin" /\ Sign(e) * e.amount = Net(t, "coin", Me) - FeeOf(t, Me)
    \/ chain = "Bitcoin" /\ t.moves[1].to = Me /\ e.direction = "Out" /\ e.amount = Fee
    \/ chain = "Ton" /\ MovesOf(t, "token") # <<>> /\ e.amount \in {Excess, Carried}

\* Every row is something that happened to this address: an asset of ours and not one
\* that calls itself so, the direction, the amount, the day in milliseconds, whether it
\* worked, and nobody named who had no part in it; whatever list was lost.
ShownHappened ==
    Here => \A e \in OnScreen :
        /\ e.txid \in DOMAIN ledger
        /\ \E a \in ToSet(assets(chain)) : e.symbol = symbol(a) /\ e.decimals = decimals(a)
        /\ IsReal(e, ledger[e.txid])
        /\ e.block_ts = IF ledger[e.txid].mined THEN Millis(e.txid) ELSE 0
        /\ e.status = IF ~ledger[e.txid].mined THEN "Pending"
                      ELSE Status(ledger[e.txid].ok \/ chain = "Ton")

\* Whoever is asked has an index of the chain.
Knows == evm(chain) # None => IndexOf("this") \in evm(chain).index

Room == 2 * Len(ledger) < LIMIT

AllCame == \A k \in DOMAIN heard.outcomes : heard.outcomes[k] # "no"

\* What the lists a provider has can tell: coin out of a contract is in none of the EVM
\* ones, and Solana lists what names the address.
Told(i, kind) ==
    /\ chain = "Solana" => NamesMe(ledger, i)
    /\ evm(chain) # None /\ kind = "coin" =>
          \A m \in ToSet(MovesOf(ledger[i], "coin")) : m.from = ledger[i].payer

\* On Sui, in the list of what was sent and in the one of what was received.
InBoth(t) == chain = "Sui" /\ t.payer = Me /\ \E m \in ToSet(t.moves) : m.to = Me

RowsOf(i, a) ==
    SelectSeq(screen.entries, LAMBDA e :
        /\ e.txid = i /\ e.symbol = symbol(a)
        /\ ~(chain = "Ton" /\ e.counterparty = Shop /\ e.amount = Excess))

\* NodeReal's rows of one transaction between the same two are taken for one: what moved
\* of one asset is not shown where the other is.
TakenForOther(i, kind) ==
    /\ IndexOf("this") = "NodeReal"
    /\ \A m \in ToSet(MovesOf(ledger[i], kind)) :
          \E e \in OnScreen : \E n \in ToSet(MovesOf(ledger[i], Kind(e))) :
             e.txid = i /\ Kind(e) # kind /\ n.from = m.from /\ n.to = m.to

IsTold(i, a, kind) ==
    LET net   == Net(ledger[i], kind, Me)
        rows  == RowsOf(i, a)
        moves == MovesOf(ledger[i], kind)
    IN net # 0 /\ Told(i, kind) /\ ~(rows = <<>> /\ TakenForOther(i, kind)) =>
          /\ Len(rows) \in 1 .. Len(moves) * IF InBoth(ledger[i]) THEN 2 ELSE 1
          /\ evm(chain) # None /\ IndexOf("this") # "NodeReal" => Len(rows) = Len(moves)
          /\ \A k \in DOMAIN rows : (rows[k].direction = "In") = (net > 0)
          /\ Len(moves) = 1 /\ chain # "Sui" => rows[1].amount = moves[1].amount

\* When every list came in, what came or went is shown: a row for each transaction and
\* asset, the right way round; one and no more for a single move (two on Sui for what is in
\* both lists, see ShownOnce), with its amount but on Sui, where it includes the gas.
\* On the EVM chains every move has its row, but not from NodeReal: there the rows of one
\* transaction between the same two are taken for duplicates whatever they moved
\* (neko-evm/src/history.rs:174, against its comment), and one of two assets that went
\* the same way is missing where the other is shown; no other is.  Whatever came in, the newest is first, after what is in no block yet.
HappenedIsShown ==
    Here =>
        /\ AllCame /\ Knows => ~screen.error
        /\ AllCame /\ Room /\ ~screen.error =>
              \A i \in DOMAIN ledger, a \in ToSet(assets(chain)) :
                  IsTold(i, a, IF a.token THEN "token" ELSE "coin")
        /\ screen.entries # None => \A j, k \in DOMAIN screen.entries :
              j < k /\ screen.entries[j].status # "Pending" =>
                  screen.entries[k].block_ts <= screen.entries[j].block_ts

\* A transaction that is in both of Sui's lists is shown once: neko-sui/src/client.rs
\* says "The same transaction can appear in both legs" where it drops the second.
ShownOnce ==
    Here /\ chain = "Sui" /\ screen.entries # None =>
        Cardinality(OnScreen) = Len(screen.entries)

\* The lists a row is in, by their number, and the ones nothing is read without.
ListsOf(e, i) ==
    CASE i = "sui" -> (IF ledger[e.txid].payer = Me THEN {1} ELSE {})
                         \cup (IF \E m \in ToSet(ledger[e.txid].moves) : m.to = Me THEN {2} ELSE {})
      [] i = "NodeReal" -> (IF e.direction = "Out" \/ e.counterparty = Me THEN {1} ELSE {})
                              \cup (IF e.direction = "In" THEN {2} ELSE {})
      [] i = "ton" -> IF Kind(e) = "token" THEN {3} ELSE {2}
      [] i = "solana" -> {1 + k : k \in {n \in DOMAIN Batches(SignaturesSay(ledger, LIMIT)) :
                                           e.txid \in ToSet(Batches(SignaturesSay(ledger, LIMIT))[n])}}
      [] i \in {"aptos", "bitcoin"} -> {1}
      [] OTHER -> IF Kind(e) = "token" THEN {2} ELSE {1}

Needed(e, i) == CASE i \in {"tron", "solana"} -> {1}
                  [] i = "ton" -> {2} \cup IF Kind(e) = "token" THEN {1} ELSE {}
                  [] OTHER -> {}

\* A list that did not come takes its own rows with it and no others, and there is an
\* error in the place of rows only if no list that came has one.
HalfIsKept ==
    Here /\ Room =>
        LET i     == IndexOf("this")
            came  == {k \in DOMAIN heard.outcomes : heard.outcomes[k] # "no"}
            whole == history(i, chain, ledger, [k \in DOMAIN heard.outcomes |-> "ok"])
        IN \A e \in ToSet(whole.rows) :
               ListsOf(e, i) \cap came # {} /\ Needed(e, i) \subseteq came => e \in OnScreen

\* The rows on screen are the answer for the account on screen, however late the answer
\* for one that was left comes in.
RowsBelongHere == OnHistory /\ screen.entries # None => heard.who = screen.who

\* The cursor is in the window, through any moving, toggling, resizing and reading again
\* (nav.rs: "Keep the cursor inside the visible window").
CursorOnScreen == OnHistory => screen.selected \in screen.offset .. screen.offset + screen.page - 1
=============================================================================
