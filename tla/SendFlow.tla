------------------------------ MODULE SendFlow ------------------------------
(***************************************************************************)
(* The terminal application (neko-tui: app.rs, keys.rs, run.rs): its        *)
(* screens, the session behind them, and a transfer from the first key to  *)
(* the network's answer.                                                   *)
(*                                                                         *)
(* One thread owns the App.  Whatever it asks of the network or of Argon2   *)
(* runs elsewhere and comes back as an event that carries the request's    *)
(* id; meanwhile the user goes on pressing keys, and the clock locks.      *)
(*                                                                         *)
(* An account stands for a wallet on a chain.  What the user types is a    *)
(* payee, which stands for a destination and an amount.  Request ids: the  *)
(* code counts them up for ever; only whether two are equal is ever asked, *)
(* so an id nothing refers to any more may come back.                      *)
(***************************************************************************)
EXTENDS Naturals, Sequences

CONSTANTS Accounts,
          OnSolana,     \* those whose transfers are signed over a blockhash
          Payees,
          ReqIds,       \* bound: requests outstanding at the same time
          None

Requests == [from : Accounts, to : Payees]
Params   == [about : Requests, fresh : BOOLEAN]

ASSUME AccountAssumption == OnSolana \subseteq Accounts

VARIABLES
    screen,      \* the screen shown
    nav,         \* the screens Esc goes back to
    session,     \* whether the vault is unlocked
    vault,       \* whether the vault file exists
    account,     \* the account of the assets screen
    balances,    \* the account the balances shown were read from, or None
    balancesReq, \* the request for them that is awaited
    history,     \* the account the history shown was read from, or None
    send,        \* the transfer screen
    inflight,    \* the request the transfer and history screens await
    deriving,    \* the request the unlock screen awaits
    pending,     \* requests whose events have not been handled
    mine,        \* history: the pending requests the present screen made
    strayed      \* history: an event of another screen touched this transfer

shell == <<screen, nav, session, vault, account>>
vars  == <<shell, balances, balancesReq, history, send, inflight, deriving,
           pending, mine, strayed>>

Outer == {"FirstRun", "Login", "Locked", "Deriving"}
Inner == {"Wallets", "Chains", "Assets", "Send", "History", "Settings",
          "Gate", "Words"}
Kinds == {"Unlocked", "Quoted", "Authorized", "Blockhash", "Broadcast",
          "History", "Balances"}
Tasks == [kind : Kinds, about : Requests \cup Accounts \cup {None}, right : BOOLEAN]

Task(kind, about) == [kind |-> kind, about |-> about, right |-> TRUE]

Steps == {"Recipient", "EnterAmount", "Quoting", "Review", "Authorize",
          "Broadcasting", "Done", "Failed"}

\* SendState.  `retyped` and `proven` are history: the request whose tail was
\* retyped, and the one the right password was given for, on this screen.
Sends == [from : Accounts, to : Payees \cup {None}, amount : BOOLEAN,
          balance : Accounts \cup {None}, step : Steps,
          req : Requests \cup {None}, params : Params \cup {None},
          payable : BOOLEAN, checking : BOOLEAN,
          retyped : Requests \cup {None}, proven : Requests \cup {None}]

ASSUME NoneAssumption == /\ None \notin Accounts \cup Payees \cup ReqIds
                         /\ None \notin Requests \cup Params \cup Tasks \cup Sends

NewSend(a) == [from |-> a, to |-> None, amount |-> FALSE,
               balance |-> balances, step |-> "Recipient",
               req |-> None, params |-> None, payable |-> FALSE, checking |-> FALSE,
               retyped |-> None, proven |-> None]

Step(s) == send # None /\ send.step = s

Init == /\ vault \in BOOLEAN
        /\ screen = IF vault THEN "Login" ELSE "FirstRun"
        /\ nav = <<>> /\ session = FALSE /\ account = None
        /\ balances = None /\ balancesReq = None /\ history = None
        /\ send = None /\ inflight = None /\ deriving = None
        /\ pending = [i \in ReqIds |-> None] /\ mine = {} /\ strayed = FALSE

---------------------------------------------------------------------------
(* Requests and navigation.                                                *)

Unused == {i \in ReqIds : pending[i] = None /\ i \notin {inflight, balancesReq, deriving}}

next_req == CHOOSE i \in Unused : TRUE

\* A task is spawned; its event will carry next_req.
Spawn(task) == /\ Unused # {}
               /\ pending' = [pending EXCEPT ![next_req] = task]

\* The handler of event i spawns a task in turn, under the id it has just freed,
\* and the screen awaits that.
Continue(i, task) == /\ pending' = [pending EXCEPT ![i] = task]
                     /\ inflight' = i
                     /\ mine' = mine \cup {i}

Handled(i) == pending' = [pending EXCEPT ![i] = None]

\* Whatever replaces the screen drops the state the old one held.
Leave == send' = None /\ history' = None /\ mine' = {} /\ strayed' = FALSE

Push(s) == screen' = s /\ nav' = Append(nav, screen)

Pop == /\ nav # <<>>
       /\ screen' = nav[Len(nav)]
       /\ nav' = SubSeq(nav, 1, Len(nav) - 1)
       /\ Leave
       /\ UNCHANGED <<session, vault, account>>

\* Mutant: the session survives the lock.
Lock_KeepsSession ==
    /\ session
    /\ screen' = "Locked" /\ Leave
    /\ UNCHANGED <<nav, session, vault, account, balances, balancesReq, inflight, deriving, pending>>

\* App::lock, by Ctrl-L or by the idle clock, whatever screen is shown.  It
\* forgets neither the stack nor the requests under way.
Lock ==
    /\ session
    /\ session' = FALSE
    /\ screen' = "Locked" /\ Leave
    /\ UNCHANGED <<nav, vault, account, balances, balancesReq, inflight, deriving, pending>>

---------------------------------------------------------------------------
(* Unlocking.                                                              *)

\* Mutant: the form is pushed under the unlock screen.
BeginUnlock_Pushes ==
    /\ screen \in {"FirstRun", "Login", "Locked"}
    /\ Spawn(Task("Unlocked", None))
    /\ deriving' = next_req /\ mine' = {next_req}
    /\ Push("Deriving")
    /\ UNCHANGED <<session, vault, account, balances, balancesReq, history,
                   send, inflight, strayed>>

\* App::begin_unlock from the three screens that have a password field.
BeginUnlock ==
    /\ screen \in {"FirstRun", "Login", "Locked"}
    /\ Spawn(Task("Unlocked", None))
    /\ deriving' = next_req /\ mine' = {next_req}
    /\ screen' = "Deriving"
    /\ UNCHANGED <<nav, session, vault, account, balances, balancesReq, history,
                   send, inflight, strayed>>

\* A vault is opened or created - or not: a weak password goes back to the
\* form, anything else to whichever form the file on disk calls for.
OnUnlocked(i) ==
    /\ pending[i] # None /\ pending[i].kind = "Unlocked"
    /\ Handled(i) /\ mine' = mine \ {i}
    /\ screen = "Deriving" /\ deriving = i
    /\ deriving' = None
    /\ \/ /\ session' = TRUE /\ vault' = TRUE
          /\ screen' = "Wallets" /\ nav' = <<>>
       \/ /\ vault' \in {vault, TRUE}
          /\ screen' = IF vault' THEN "Login" ELSE "FirstRun"
          /\ UNCHANGED <<session, nav>>
    /\ UNCHANGED <<account, balances, balancesReq, history, send, inflight, strayed>>

---------------------------------------------------------------------------
(* Screens other than the transfer.                                        *)

OpenChains == /\ screen = "Wallets"
              /\ Push("Chains") /\ Leave
              /\ UNCHANGED <<session, vault, account, balances, balancesReq,
                             inflight, deriving, pending>>

OpenSettings == /\ screen = "Wallets"
                /\ Push("Settings") /\ Leave
                /\ UNCHANGED <<session, vault, account, balances, balancesReq,
                               inflight, deriving, pending>>

\* open_assets and fetch_balances.
OpenAssets(a) ==
    /\ screen = "Chains"
    /\ Push("Assets") /\ send' = None /\ history' = None /\ strayed' = FALSE
    /\ account' = a
    /\ Spawn(Task("Balances", a))
    /\ balances' = None /\ balancesReq' = next_req /\ mine' = {next_req}
    /\ UNCHANGED <<session, vault, inflight, deriving>>

RefreshBalances ==
    /\ screen = "Assets"
    /\ Spawn(Task("Balances", account))
    /\ balances' = None /\ balancesReq' = next_req /\ mine' = mine \cup {next_req}
    /\ UNCHANGED <<shell, history, send, inflight, deriving, strayed>>

\* Mutant: whichever reply arrives is shown.
OnBalances_AnyReply(i) ==
    /\ pending[i] # None /\ pending[i].kind = "Balances"
    /\ Handled(i) /\ mine' = mine \ {i}
    /\ balancesReq' = None
    /\ balances' \in {pending[i].about, None}
    /\ UNCHANGED <<shell, history, send, inflight, deriving, strayed>>

OnBalances(i) ==
    /\ pending[i] # None /\ pending[i].kind = "Balances"
    /\ Handled(i) /\ mine' = mine \ {i}
    /\ \/ /\ balancesReq = i /\ balancesReq' = None
          /\ balances' \in {pending[i].about, None}
       \/ /\ balancesReq # i
          /\ UNCHANGED <<balances, balancesReq>>
    /\ UNCHANGED <<shell, history, send, inflight, deriving, strayed>>

\* open_history and fetch_history; R asks again.
OpenHistory ==
    /\ screen \in {"Assets", "History"}
    /\ IF screen = "Assets" THEN Push("History") ELSE UNCHANGED <<screen, nav>>
    /\ send' = None /\ history' = None /\ strayed' = FALSE
    /\ Spawn(Task("History", account))
    /\ inflight' = next_req /\ mine' = {next_req}
    /\ UNCHANGED <<session, vault, account, balances, balancesReq, deriving>>

OnHistory(i) ==
    /\ pending[i] # None /\ pending[i].kind = "History"
    /\ Handled(i) /\ mine' = mine \ {i}
    /\ IF inflight = i
         THEN /\ inflight' = None
              /\ IF screen = "History"
                   THEN history' \in {pending[i].about, None}
                   ELSE UNCHANGED history
         ELSE UNCHANGED <<inflight, history>>
    /\ UNCHANGED <<shell, balances, balancesReq, send, deriving, strayed>>

\* The phrase: a gate, and the words only behind the right password.  The whole
\* derivation runs in the key handler, so nothing comes between.
OpenReveal == /\ screen \in {"Wallets", "Chains"}
              /\ Push("Gate") /\ Leave
              /\ UNCHANGED <<session, vault, account, balances, balancesReq,
                             inflight, deriving, pending>>

RevealWords == /\ screen = "Gate" /\ session
               /\ screen' = "Words"
               /\ UNCHANGED <<nav, session, vault, account, balances, balancesReq, history,
                              send, inflight, deriving, pending, mine, strayed>>

\* Esc, and on the words also the clock (on_tick).
Back == /\ screen \in Inner \ {"Wallets"}
        /\ Pop
        /\ UNCHANGED <<balances, balancesReq, inflight, deriving, pending>>

---------------------------------------------------------------------------
(* The transfer: on_key_send up to the password.                           *)

\* A key on the transfer screen that asks nothing of anybody else.
OnSendScreen == UNCHANGED <<shell, balances, balancesReq, history, inflight,
                            deriving, pending, mine, strayed>>

OpenSend == /\ screen = "Assets"
            /\ Push("Send")
            /\ send' = NewSend(account) /\ history' = None
            /\ mine' = {} /\ strayed' = FALSE
            /\ UNCHANGED <<session, vault, account, balances, balancesReq,
                           inflight, deriving, pending>>

\* The fields.  Tab goes from the amount back to the recipient.
TypePayee(p) == /\ Step("Recipient")
                /\ send' = [send EXCEPT !.to = p]
                /\ OnSendScreen

ToAmount == /\ Step("Recipient") /\ send.to # None
            /\ send' = [send EXCEPT !.step = "EnterAmount"]
            /\ OnSendScreen

TypeAmount == /\ Step("EnterAmount") /\ ~send.amount
              /\ send' = [send EXCEPT !.amount = TRUE]
              /\ OnSendScreen

ToRecipient == /\ Step("EnterAmount")
               /\ send' = [send EXCEPT !.step = "Recipient"]
               /\ OnSendScreen

Filled == send.to # None /\ send.amount

\* SendState::build_request, from the fields as they are now.
Built == [from |-> send.from, to |-> send.to]

RequestQuote ==
    /\ Step("EnterAmount") /\ Filled
    /\ send' = [send EXCEPT !.step = "Quoting"]
    /\ Spawn(Task("Quoted", Built))
    /\ inflight' = next_req /\ mine' = mine \cup {next_req}
    /\ UNCHANGED <<shell, balances, balancesReq, history, deriving, strayed>>

\* Whether event i was asked for by an earlier screen, yet reaches this one.
Stray(i) == strayed' = (strayed \/ (send # None /\ inflight = i /\ i \notin mine))

\* Mutant: the quote is never compared with the request awaited.
OnQuoted_AnyReply(i) ==
    /\ pending[i] # None /\ pending[i].kind = "Quoted"
    /\ Handled(i) /\ mine' = mine \ {i} /\ Stray(i)
    /\ inflight' = None
    /\ IF send # None /\ Filled
         THEN \E pays \in BOOLEAN :
                send' = [send EXCEPT !.step = "Review", !.req = Built, !.payable = pays,
                                     !.params = [about |-> pending[i].about, fresh |-> TRUE]]
         ELSE UNCHANGED send
    /\ UNCHANGED <<shell, balances, balancesReq, history, deriving>>

\* The quote's parameters meet a request built from the fields of the screen
\* that is shown - which need not be the screen the quote was asked for.
OnQuoted(i) ==
    /\ pending[i] # None /\ pending[i].kind = "Quoted"
    /\ Handled(i) /\ mine' = mine \ {i} /\ Stray(i)
    /\ IF inflight # i THEN UNCHANGED <<inflight, send>>
       ELSE /\ inflight' = None
            /\ IF send = None THEN UNCHANGED send
               ELSE \/ send' = [send EXCEPT !.step = "Failed"]
                    \/ /\ Filled
                       /\ \E pays \in BOOLEAN :
                            send' = [send EXCEPT !.step = "Review",
                                        !.req = Built, !.payable = pays,
                                        !.params = [about |-> pending[i].about, fresh |-> TRUE]]
    /\ UNCHANGED <<shell, balances, balancesReq, history, deriving>>

\* Enter on the review, with the tail of payee p typed below it: the tail must
\* be the destination's and the quote must not say the transfer cannot be paid.
Confirm(p) ==
    /\ Step("Review") /\ send.payable
    /\ p = send.req.to
    /\ send' = [send EXCEPT !.step = "Authorize",
                            !.retyped = [from |-> send.from, to |-> p]]
    /\ OnSendScreen

\* The password is tried on another thread, against the file.
EnterPassword(right) ==
    /\ Step("Authorize") /\ ~send.checking
    /\ send' = [send EXCEPT !.checking = TRUE]
    /\ Spawn([kind |-> "Authorized", about |-> send.req, right |-> right])
    /\ inflight' = next_req /\ mine' = mine \cup {next_req}
    /\ UNCHANGED <<shell, balances, balancesReq, history, deriving, strayed>>

---------------------------------------------------------------------------
(* The transfer: from the password to the network's answer.                *)

\* Chain parameters go stale while the user reads, types, or is away: every
\* account of the model is on a chain whose parameters expire, as Solana's
\* blockhash, TRON's expiration (60 s) and TON's (120 s) do.
Expire == /\ Step("Review") \/ Step("Authorize")
          /\ send.params.fresh
          /\ send' = [send EXCEPT !.params.fresh = FALSE]
          /\ OnSendScreen

FailSend(s) == [s EXCEPT !.step = "Failed"]

\* Session::sign_transfer takes parameters of the request's own family of
\* chains, and may still refuse them.
SignRefused(s) == (s.params.about.from \in OnSolana) # (s.req.from \in OnSolana)

\* finish_signing of screen state s, continuing event i: signed here, handed to
\* the network elsewhere.
FinishSigning(i, s) ==
    \/ /\ session /\ ~SignRefused(s)
       /\ send' = [s EXCEPT !.step = "Broadcasting"]
       /\ Continue(i, Task("Broadcast", s.req))
    \/ /\ send' = FailSend(s) /\ inflight' = None
       /\ Handled(i) /\ mine' = mine \ {i}

\* Mutant: the hash of the quote is signed over.
SignOrFetch_OldHash(i, s) == FinishSigning(i, s)

\* sign_and_broadcast: Solana's hash is fetched anew first.
SignOrFetch(i, s) ==
    \/ /\ s.params.about.from \in OnSolana
       /\ send' = s
       /\ Continue(i, Task("Blockhash", s.req))
    \/ /\ s.params.about.from \notin OnSolana
       /\ FinishSigning(i, s)

\* Mutant: the answer to any question about a password is taken.
OnAuthorized_AnyReply(i) ==
    /\ pending[i] # None /\ pending[i].kind = "Authorized"
    /\ Stray(i)
    /\ IF pending[i].right /\ Step("Authorize")
         THEN SignOrFetch(i, [send EXCEPT !.proven = pending[i].about])
         ELSE /\ inflight' = None /\ Handled(i) /\ mine' = mine \ {i}
              /\ UNCHANGED send
    /\ UNCHANGED <<shell, balances, balancesReq, history, deriving>>

\* Mutant: a right password that finds nothing to sign is not reported.
OnAuthorized_Silent(i) ==
    /\ pending[i] # None /\ pending[i].kind = "Authorized"
    /\ Handled(i) /\ mine' = mine \ {i} /\ Stray(i)
    /\ inflight' = IF inflight = i THEN None ELSE inflight
    /\ send' = IF Step("Authorize") /\ inflight = i /\ ~pending[i].right
                 THEN [send EXCEPT !.checking = FALSE] ELSE send
    /\ UNCHANGED <<shell, balances, balancesReq, history, deriving>>

\* The password was right or wrong.  A wrong one leaves the gate where it was;
\* a right one that finds another step says so instead of hanging.
OnAuthorized(i) ==
    /\ pending[i] # None /\ pending[i].kind = "Authorized"
    /\ Stray(i)
    /\ LET s == [send EXCEPT !.proven = pending[i].about] IN
         IF inflight = i /\ pending[i].right /\ Step("Authorize")
           THEN SignOrFetch(i, s)
           ELSE /\ Handled(i) /\ mine' = mine \ {i}
                /\ inflight' = IF inflight = i THEN None ELSE inflight
                /\ send' = IF inflight # i \/ send = None THEN send
                           ELSE IF pending[i].right THEN FailSend(send)
                           ELSE [send EXCEPT !.checking = FALSE]
    /\ UNCHANGED <<shell, balances, balancesReq, history, deriving>>

\* The fresh hash, or the failure to get one, which stops the transfer.
OnBlockhash(i) ==
    /\ pending[i] # None /\ pending[i].kind = "Blockhash"
    /\ Stray(i)
    /\ \/ /\ inflight = i /\ Step("Authorize")
          /\ pending[i].about.from \in OnSolana
          /\ FinishSigning(i, [send EXCEPT !.params.fresh = TRUE])
       \/ /\ Handled(i) /\ mine' = mine \ {i}
          /\ inflight' = IF inflight = i THEN None ELSE inflight
          /\ send' = IF inflight # i \/ send = None THEN send ELSE FailSend(send)
    /\ UNCHANGED <<shell, balances, balancesReq, history, deriving>>

OnBroadcast(i) ==
    /\ pending[i] # None /\ pending[i].kind = "Broadcast"
    /\ Handled(i) /\ mine' = mine \ {i} /\ Stray(i)
    /\ IF inflight # i THEN UNCHANGED <<inflight, send>>
       ELSE /\ inflight' = None
            /\ IF send = None THEN UNCHANGED send
               ELSE \/ send' = [send EXCEPT !.step = "Done"]
                    \/ send' = FailSend(send)
    /\ UNCHANGED <<shell, balances, balancesReq, history, deriving>>

---------------------------------------------------------------------------
Keys == \/ BeginUnlock \/ OpenChains \/ OpenSettings \/ OpenReveal \/ RevealWords
        \/ \E a \in Accounts : OpenAssets(a)
        \/ RefreshBalances \/ OpenHistory \/ OpenSend \/ Back
        \/ \E p \in Payees : TypePayee(p) \/ Confirm(p)
        \/ ToAmount \/ TypeAmount \/ ToRecipient \/ RequestQuote
        \/ \E right \in BOOLEAN : EnterPassword(right)

HandleEvent(i) == \/ OnUnlocked(i) \/ OnQuoted(i) \/ OnAuthorized(i) \/ OnBlockhash(i)
                  \/ OnBroadcast(i) \/ OnHistory(i) \/ OnBalances(i)

Next == \/ Keys \/ Lock \/ Expire
        \/ \E i \in ReqIds : HandleEvent(i)

Spec == Init /\ [][Next]_vars

\* Every task reports: HTTP clients time out, Argon2 ends, and the event loop
\* handles events before keys (run.rs: biased).
LiveSpec == Spec /\ \A i \in ReqIds : WF_vars(HandleEvent(i))

---------------------------------------------------------------------------
(* Properties.                                                             *)

TypeOK == /\ screen \in Outer \cup Inner
          /\ nav \in Seq(Inner)
          /\ session \in BOOLEAN /\ vault \in BOOLEAN
          /\ account \in Accounts \cup {None}
          /\ balances \in Accounts \cup {None}
          /\ history \in Accounts \cup {None}
          /\ {balancesReq, inflight, deriving} \subseteq ReqIds \cup {None}
          /\ send \in Sends \cup {None}
          /\ pending \in [ReqIds -> Tasks \cup {None}]
          /\ mine \subseteq {i \in ReqIds : pending[i] # None}
          /\ strayed \in BOOLEAN

\* An unlocked session and the screens behind the unlock go together, whatever
\* locks; Esc stays among those screens and leads back to the wallet list of
\* this session in at most three steps, whatever the stack held when an earlier
\* session was locked (App::lock, Unlocked, pop).
SessionBehindScreens ==
    /\ session <=> screen \in Inner
    /\ (send # None) <=> (screen = "Send")
    /\ session => /\ Len(nav) <= 3
                  /\ \A n \in 1..Len(nav) : nav[n] \in {"Wallets", "Chains", "Assets"}
                  /\ screen = "Wallets" <=> nav = <<>>
                  /\ screen # "Wallets" => nav[1] = "Wallets"

\* A transaction is signed: the step the signature is made in.
Signing == Step("Authorize") /\ send' # None /\ send'.step = "Broadcasting"

\* Nothing is signed unless, on this very screen, the tail of this very
\* request's destination was retyped and then the right password given for it,
\* and the session was open - whatever answers arrive late (on_authorized,
\* on_blockhash, finish_signing).
SignsOnlyApproved ==
    [][Signing =>
          /\ session /\ screen = "Send"
          /\ send'.req = send.req
          /\ send'.retyped = send.req
          /\ send'.proven = send.req
          /\ inflight \in mine
          /\ pending[inflight].kind \in {"Authorized", "Blockhash"}]_vars

\* The hash a Solana transfer is signed over was fetched after the password was
\* accepted (keys.rs, sign_and_broadcast), however long the user took.
SolanaHashFresh ==
    [][Signing /\ send.req.from \in OnSolana => send'.params.fresh]_vars

\* The parameters under review were quoted for the request under review, unless
\* an event of an earlier screen reached this one.
QuoteIsForRequest ==
    send # None /\ send.req # None /\ ~strayed => send.params.about = send.req

\* What is shown of an address was read from that address, whatever replies to
\* earlier questions are still under way (balances_req, inflight).
ShownBelongsHere ==
    /\ balances # None /\ screen \in {"Assets", "Send", "History"} => balances = account
    /\ history # None => screen = "History" /\ history = account
    /\ send # None => send.from = account /\ send.balance \in {account, None}

Waiting == send # None /\ (send.step \in {"Quoting", "Broadcasting"}
                           \/ (send.step = "Authorize" /\ send.checking))

\* No spinner turns for ever (keys.rs: "a spinner that never resolves tells the
\* user nothing").
SpinnerStops == /\ Waiting ~> ~Waiting
                /\ (screen = "Deriving") ~> (screen # "Deriving")

=============================================================================
