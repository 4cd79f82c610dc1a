# neko-wallet in TLA+

neko-wallet is a self-custody wallet for the terminal: one encrypted file holds
the phrases of any number of wallets, and one process shows their balances and
signs transfers on eighteen chains of seven families.  This directory holds
TLA+ models of its logic, TLC configurations that check them on small
instances, and TLAPS proofs for instances of any size.

Paths below are relative to `crates/` of the repository.

## The system

| Part | Code | State it keeps | Operations |
|---|---|---|---|
| Vault file | neko-core (session.rs), neko-store (open.rs, migrate.rs, vault_row.rs), neko-vault | the SQLCipher file: its key, its schema version, the vault row with one or two wraps of the master key; in memory a `Session` | create, unlock, verify password, change password, lock |
| Wallets and cache | neko-core (wallets.rs), neko-store/repo | tables wallets, accounts, addresses, balances; in memory the list shown and a counter of awaited balances | create, import, register addresses, backfill, delete, refresh, cache an answer |
| Transfer | neko-tui (app.rs, keys.rs, send.rs), neko-core (transfer.rs) | the screen and the stack below it, the request ids awaited, the transfer's step | type, quote, review, retype, password, fetch a hash, sign, broadcast |
| Money | neko-btc (coins.rs), neko-tui (send.rs, chain.rs), neko-core (amount.rs) | the amount field, whether everything was asked for, what was held back, the quote under review | read and write amounts, choose coins, quote, hold back the fee of "everything", refuse what cannot be paid |
| Encodings | neko-evm, -btc, -tron, -solana, -ton, -sui, -aptos (tx.rs, message.rs and what they write with), neko-core (transfer.rs) | none | the bytes of a transfer, the bytes signed over, the key that signs |
| History | the `history.rs` of each family, neko-evm (etherscan, blockscout, routescan), neko-tui (chain.rs, nav.rs) | the rows on screen, the request awaited, cursor, window and filter | ask, join lists, retry, cut, show, move, filter, resize |
| Settings | neko-tui (app.rs, keys.rs), neko-store/repo/settings.rs | 21 text rows, language, lock timeout: in memory, in the vault, some from the environment | load at unlock, edit, cycle, give to the client of a chain |
| Configuration | neko-wallet (config.rs, paths.rs, main.rs) | one small file, replaced by rename | `set db`, `unset db`, launch |
| Event loop | neko-tui (run.rs, event.rs) | the event queue | handle one event or one key at a time, tick, lock when idle |
| Keys, primitives | neko-hd, neko-crypto | none | derive, seal, open |
| Drawing, prices, translations | neko-tui (render.rs, theme.rs, ui/), the `price.rs` files, neko-i18n | none that anything relies on | draw |

How they interact.  One thread owns `App`.  It calls the vault and the tables
directly, so those calls are atomic with respect to keys and events, but each
SQL statement commits alone and the process can die between two of them.  What
it asks of the network or of Argon2 runs on other threads and comes back as an
`AppEvent`, most with a request id; in between the user goes on pressing keys,
and the clock may lock the session.  `verify_password` and `reveal_mnemonic`
open the file a second time while the first connection lives.

What is hard in it:

* crashes: `change_password` is three statements over two independent keys, the
  migrations are one transaction each, a wallet is committed before its
  addresses are, the configuration is written aside and renamed;
* late answers: a quote, a password check, a blockhash, a balance or a history
  can come back after the screen that asked was left, locked, or replaced by
  another one of the same kind;
* ids: wallet ids are `MAX(id) + 1` and so are given out again after a deletion;
* money: "everything" minus the fee must be payable on figures of which some
  could not be read, and Bitcoin's fee is implicit in the coins chosen;
* formats: seven ways to write a transfer, most of them signed in one form and
  sent in another;
* providers: an answer is joined from up to three lists, each of which may fail,
  repeat what another has, or leave out what it does not know;
* tables by hand: 21 settings go through four of them.

What makes each part correct is stated with each module, and `PROJECT.json`
lists the hazards one by one with the line where each bites.

## Modules

| Module | Models | Run / proof |
|---|---|---|
| `VaultPromise` | the abstract vault: who can open it, which master key, who holds it | refined by `VaultFile` |
| `VaultFile` | the file and its process, statement by statement | `vault_file`, `VaultFileProofs` |
| `SendFlow` | screens, request ids, a transfer from the first key to the broadcast | `send_flow`, `SendFlowProofs` |
| `WalletStore` | the tables of wallets, addresses and balances, and the cache's late answers | `wallet_store`, `WalletStoreProofs` |
| `BitcoinCoins` | the choice of coins, fee and dust arithmetic of u64 | through `Payment` |
| `Reckoning` | no code: induction over the naturals, functions defined step by step, sums and orders of finite sets, and what `Numerals` writes | lemmas for `PaymentProofs` |
| `Fees` | what a transfer costs on the six families that keep accounts | through `Payment` |
| `Numerals` | how an amount is written: exact, grouped, capped, trimmed | through `Payment` |
| `Amounts` | how what is typed is read as an amount | through `Payment` |
| `Payment` | from what is typed, or "everything", to a transfer the balance covers | `payment`, `PaymentProofs` |
| `ConfigFile` | the configuration replaced by rename, and what a launch opens | `config_file`, `ConfigFileProofs` |
| `Settings` | the settings through their four tables | `settings`, `SettingsProofs` |
| `Chains` | the chains, their assets, their addresses: constant tables | through `Signing`, `History` |
| `Encodings`, `Transactions`, `TonMessages` | numbers, lengths, transactions and cells as the builders write them | through `Signing` |
| `ChainReaders` | how the networks read those bytes (external) | through `Signing` |
| `Signing` | `sign_transfer`: key, asset, parameters, bytes | `signing` |
| `Ledger` | what happened to an account and how each provider tells it (external) | through `History` |
| `HistoryReaders` | the ten readers of those replies | through `History` |
| `History` | lists put together, and the screen that shows them | `history`, `HistoryProofs` |

The `MC...` modules give the constants of a run; definitions named
`Operator_Slip` beside an operator are what a plausible mistake would make of it
and are used by no specification.

`Payment` composes `BitcoinCoins`, `Fees`, `Numerals` and `Amounts`; `Signing` composes the
builders with `ChainReaders` over `Chains`; `History` composes `HistoryReaders`,
`Ledger` and the screen over the same `Chains`.  `SendFlow` leaves amounts and
bytes abstract, and `Payment` and `Signing` are the two halves it leaves out:
what may be reviewed and approved, and what an approved request becomes.

### VaultFile and VaultPromise

A credential is an email and a password.  Cryptography is ideal: `keys::stretch`
is injective, so the file key and the key-encryption key of a credential are
that credential, a wrap `[kek, mk]` opens for `kek` alone, and the file opens
for `fileKey` alone.  The database is `file` (absent, the empty file that
`create` claims, or keyed), `version`, and the vault row: `wrapped`, `prev`,
`rewrap`, `verifier`.  `pc` says between which two statements the call in
progress is.  `CreateBegin ... CreateInsert` are the statements of
`VaultFile::create`; `UnlockBegin`, one `Migrate` per migration and
`UnlockFinish` those of `unlock`; `StageRewrap`, `Rekey`, `FinishRewrap` those
of `change_password`.  `Fail` makes the statement at hand return an error,
`Crash` ends the process; `MaxFaults` bounds the two together.  Some vaults of
the initial states were made before, by an older build, this one, or a newer
one.

`Openers` is what `unlock` would answer "ok" to.  `VaultPromise` says the rest
with no file at all: at most one credential opens; a change moves from the old
one to the new one in a single step; the master key is for ever; a session
belongs to somebody who presented the credential.  `KeepsPromise` is the
refinement, with `opener <- Openers`: the step at which a password change takes
effect is `Rekey`, neither the staging before nor the clearing after.  It is a
promise of safety: that a `create` gets anywhere is no part of it, and one that
dies half-way does leave a path that neither `create` nor `unlock` takes.

Where the code does less than its comment says: `change_password` staged over a
staged change that failed at its rekey drops the only wrap the file is keyed
with (`interrupted_change`).  The history variable `restaged` marks it;
`StillOpens` and the promise are stated up to it, and `forfeit` of
`VaultPromise` is where the abstraction admits it.  (Nothing in the terminal
application calls `change_password` yet.)

### SendFlow

State: `screen` and `nav`, whether a session exists, the request ids the
screens await (`inflight`, `balancesReq`, `deriving`), the events that will
still arrive (`pending`), and the transfer: what was typed, its step, the
request and the parameters under review.  A payee stands for a destination and
an amount; a request is an account and a payee; parameters remember the request
they were quoted for and whether they are still fresh.  Each event handler is
an action, with every early return; `FinishSigning` and `SignOrFetch` are the
functions the handlers call.  Two history variables, `mine` and `strayed`, tell
which pending requests the present screen made; `retyped` and `proven` remember
for which request the tail was typed and the password given.

Request ids count up for ever in the code.  Only equality is ever asked, so the
model reuses an id once nothing refers to it.

`inflight` survives the screen, so an answer for an earlier transfer screen can
reach a later one, against the comment of event.rs:7-10; `strayed` marks it and
`QuoteIsForRequest` is stated up to it.  Signing still needs the retyping and
the password of the present screen, which `SignsOnlyApproved` shows.  The same
answer may hold the parameters of another family, which transfer.rs:519 calls
"unreachable through the interface": only its last arm refuses them, after the
password has been given.  `Signing` takes that up.

`SolanaHashFresh` is about Solana alone, because nowhere else does the code
fetch again.  An approval that outlasts a TRON or TON expiration is signed as it
was quoted, and it is the network that refuses it.

### WalletStore

The tables, as the repository's SQL leaves them: foreign keys cascade, an
address is inserted unless it is there, `wallets::create` is one transaction
and the registration after it is one statement per account and per address.
`todo` is what is left to register, in the order the code goes.  The balance
requests of `refresh_wallet_assets` are `asked`; `OnWalletAssets` stores an
answer under the wallet id it was asked for, whatever wallet has that id now,
the coin's figure and the token's in two statements.  A figure is the address
it was read from, or `Zero` for a token lookup that failed.  Left out: labels
and `rename`.

Where the code does less than its tests say: an answer for a deleted wallet
lands in the cache of the wallet that got its id (`wrong_wallet`).  The history
variable `haunted` marks it and `BalancesAreOwn` is stated up to it.

### BitcoinCoins, Fees, Numerals, Amounts and Payment

`BitcoinCoins` translates `coins.rs` function by function.  A coin is its value
and whether it is in a block; a script is its length and whether it begins with
a witness version, which is all that sizes and dust depend on.  `Selecting` is
the body of one round of `select`, `Enough` the rounds that return, `select` the
first of them.  `Pool` is `sort_by` as what a stable sort comes to: each coin
stands behind those that come before it, of which there are so many
(`PlaceIn`).  Sums saturate where the code saturates and wrap where a release
build wraps; `U64` is any limit of 1000 or more, which is what the dust limits
and the overhead of a transaction need to fit.

`Fees` gives, for each family, the set of costs that the nodes' figures may
lead to: energy, bandwidth, burn and fallback prices on TRON, gas, ceilings and
the rollups' L1 fee on EVM, signatures, compute units and rent on Solana, gas
budgets and simulations on Sui and Aptos, the attached coin on TON.  Each
reading may fail, and the failure either stops the quote or is done without, as
in the code.  A cost also says what the network will `ask` on the same figures,
which is what the reserve has to be compared with.  The staked bandwidth of
TRON pays for a part of a transaction, as `account_resources` has it; the
external side (`Burned`) follows that reading.

`Numerals` writes amounts and `Amounts` reads them, character by character and
without a sign; the loops of `amount.rs` are recursive functions over the places
of a text.  The whole part and the fraction are kept apart from `to_exact_string`
to the end, where the code prints the point and splits at it again.  Reading
checks every product and sum against `I128`, as the code does; `pow10` is not
checked, nor is it in the code, so the assets are those of which one is an i128
(`ScaleAssumption`: every precision the application sends at is 18 or less).
`Says` is the one definition that is not the code's: what a person reads, each
digit by its place.

`Payment`'s actions: `Type` (any edit by hand), `request_max` (the key m), `Ask`
(Enter), `OnQuoted` (the reading of the chain, then `App::on_quoted` with
`hold_back_fee` and `set_amount`), `OnQuoteFailed`, `Confirm` (with the gate
`unaffordable`), `Sign` (with the fee check of `sign_transfer`) and `Reopen`.
An amount above u64 ends the quote of a chain that counts in u64 (`TooLarge`).
`PurseChanges` is the outside world: the balance may move after the screen has
read it and before the quote does.

Where the code does less than it says: on Bitcoin, asking for everything fails
(`max_fails`): the quote chooses coins for the whole balance, which leaves
nothing for the fee.  `select_all` computes the right answer and nothing calls
it.  If money arrives between the two readings, selection succeeds after all,
and then the amount is rewritten away from the coins chosen for it; the check at
signing refuses it, so nothing is lost but the transfer, and the properties of
the selection are stated for a transfer whose amount is the one its coins were
chosen for (`Chose`).

Nor does a selection use the fewest inputs, as coins.rs:154 says.  The comment on
the sort (coins.rs:172) wants the largest coins first "and confirmed coins ahead
of unconfirmed ones of the same size"; what is sorted by first is whether a coin
is confirmed, whatever its size.  Of 600 confirmed and 1400 unconfirmed, a payment
of 1000 spends both, where 1400 would do.  The one test (coins.rs:458) has coins
of one size and cannot tell.  `FewestConfirmed` states what the sort does give:
confirmed coins alone where they suffice, and then as few of them as can be.

### ConfigFile and Settings

A configuration file is an inode with what was written to it; a name is the
inode it stands for, so a rename moves a name and whoever has the file open
keeps it.  A command is at one of its statements; any number run, and each may
die at any of them.  A launch reads the configuration twice: for the path, then
for the warning.  Two saves at once share the temporary name; `overlapped` marks
that, and the properties are stated up to it, as the code has no lock.

`Settings` keeps the four tables of the source apart (`RowKey`, `RowField`,
`LoadKey`, `UrlField` and `KeyField`), so that a slip in one is a slip in the
model.  The environment may give keys, a statement may fail, and what failed is
in memory only.  BorderStyle, which is kept in memory alone, is left out.

### Encodings, Transactions, TonMessages, ChainReaders and Signing

The builders write real structure: lengths, tags, compact numbers, field order,
padding, cells and references.  A hash is its preimage, so two hashes are equal
only where the bytes are; a key is one byte that stands for it and no other.
Numbers are below 2^31 and the bytes above them zero.  Nothing about the meaning
of the bytes is taken from the builders: `ChainReaders` reads them from the
front as each network does and says who pays what to whom and whether the
signature is over that.  The parameters are those of a fresh quote, of one
made for another request of the same kind, since the code accepts either, or of
one for another chain (`quoted`), since a late quote may be one.

All eighteen chains are in play.  Which assets an arm of `sign_transfer` names
(`Arms`), and which key a chain has (`private_key_for`, `KeyOfAddress`), is
written out asset by asset and chain by chain, as it is in the code, so that one
left out is one missing here: once Optimism's two assets had no arm
(transfer.rs:519), which is the mutant of `FreshIsSigned`.  What no arm takes is
`sign_wrong_chain`.  Every refusal of a builder is in its action, that the
address of the key is not the sender's among them.  One EVM chain does take
another's parameters, and signs; `PaysWhatWasAsked` shows that the transfer's own
network then makes nothing of the bytes.

### Ledger, HistoryReaders and History

A ledger is a sequence of transactions: who paid for it, whether it worked,
whether it is in a block, and what it moved.  `Ledger` tells it as each provider
does, with the fields the readers take; `HistoryReaders` translates the readers;
`History` chooses the provider by chain and keys, lets every list come in, come
in at the third attempt, or fail, joins and cuts them as `chain::history` does,
and shows the result on a screen while answers for other screens are under way.
The properties compare the screen with the ledger, never with the replies.

Where the code does less than it says: a swap on Sui is shown twice
(`shown_twice`).

So does NodeReal's reader on BNB Chain.  It drops a row that has the hash, the
sender and the recipient of its neighbour (neko-evm/history.rs:174), whatever
asset and amount either has, though the comment above says that only exact
duplicates go.  A transaction that pays coin and token to the same party is in
the ledgers of the run (`Paired`), and one of its two assets is not on screen.
`HappenedIsShown` is stated up to exactly that (`TakenForOther`): an asset may be
missing only where the row of the other one, between the same two, is shown.  The
other EVM readers must show a row for every move.

What the properties do not say.  A row on TON is not compared with whether its
transaction worked, as that reader does not ask.  On Sui and TON a row may also
be the gas, or the coin that travels with tokens.  The caller of NodeReal is to
be "told nothing is missing only when nothing is" (neko-evm/history.rs:134), but
the reader returns nothing to tell it by: half a history is shown like a whole
one, and `HalfIsKept` says only which half.  `CursorOnScreen` keeps the cursor in
its window; after a shorter re-read there may be no row where it stands, and the
next arrow key brings it back.

## Runs

| Run | Bounds | Shows |
|---|---|---|
| `vault_file` | 2 emails, 3+1 passwords, 2 master keys, 3 migrations, 2 faults | every vault property, the refinement, and that the owner gets in |
| `interrupted_change` | same | violation: a vault nothing opens |
| `send_flow` | 2 accounts (one on Solana), 2 payees, 2 requests at a time | the transfer's safety and that no spinner turns for ever |
| `wallet_store` | 2 secrets (symmetric), 2 chains (one without a token), 2 ids, 2 creations, 2 refreshes, 1 fault | the tables through deaths, failures and late answers |
| `wrong_wallet` | 1 chain, 3 creations, no faults | violation: a balance under another wallet |
| `payment` | 7 families, 14 texts around dust and the coins' limits, one near the end of u64 and one above, balances 0, 2, 5, figures of nodes 1 and 2, up to 3 coins of 600 or 1400, 2 rates, 1 move of the balance | what is signed is covered; what a selection does with every satoshi; what is read is what is meant |
| `max_fails` | Bitcoin of the same | violation: everything cannot be sent |
| `config_file` | 2 commands, 2 paths, 1 file moved by hand | a save is whole or not at all, and a launch opens what was saved |
| `settings` | 1 vault, all 21 rows, 1 URL, 1 key, 2 languages, 1 key from the environment, 2 edits, 2 launches, 1 fault | what was set is shown, kept and given to its own chains |
| `signing` | all 18 chains, every asset, with a quote of its own or of any other chain, amounts and numbers either side of the byte boundaries and of the limits, Bitcoin coins of 700 to 70000 | the network reads the request out of the bytes, the signature covers it, and every asset has its arm and its key |
| `history` | 11 chains with every provider, 15 ledgers of 1 to 4 transactions, limit 7, batches of 2, pages of 1 or 2, 2 requests, every list refused, late or fine | rows are what happened, what happened is in the rows, halves are kept, the cursor stays on screen |
| `shown_twice` | Sui of the same | violation: one transaction listed twice |

Why the bounds are enough.  Two faults let an interrupted change be interrupted
again, and a third password is what a second change needs to differ from both
others.  Two requests at a time let an answer of a left screen meet the request
of the present one.  Two wallet rows and two creations let an id come back while
requests for its first wallet are under way, two chains let a registration stop
half-way, one fault makes it stop.  At the relay floor a coin of 600 pays 459 to
the satoshi with nothing left for change, is passed over for 460, and 1400 makes
change; 293 and 294 are either side of dust; balances of 2 and 5 are less than,
equal to and more than what is held back.  The chains' constants in `Payment`
(rent, overhead, fallback prices) are scaled to 1 to 3, so that figures of 1 and
2 fall on both sides of each; the proofs take them at any value.  `U64` is 10^9
there and 2 * 10^6 in `signing`, and nothing else depends on where u64 ends.
Two commands are what an overlap needs; a third adds no new pair.  Two edits are
a value and its removal, or two rows that could be mixed up; two launches carry
a value over a restart.  Dates in `history` are chosen around leap days and the
end of a year; the units of a token are scaled so that an amount of 1 is dust
and the others are not; four transactions and a limit of 7 let the three-list joins fill,
be cut, and batch.

Fairness.  `SendFlow!LiveSpec` has weak fairness of each event handler: HTTP
clients time out after 30 to 60 s, Argon2 ends, and `run.rs` polls events before
keys (`biased`), so an answer is neither lost nor starved.  No key is fair: a
user may walk away.  `VaultFile!LiveSpec` lets calls run to their end unless the
process dies (faults are bounded), and has an owner who keeps presenting the
credential; `OwnerGetsIn` is about exactly that owner.  The other specifications
state safety only and no fairness.

Every property has a mutant: a definition named after the one it changes
(`Rekey` and `Rekey_...`), which is a plausible slip in that code, and which
makes the property fail under the same configuration.

## Proofs

Every theorem holds for any values of the constants that satisfy the named
assumptions of its module (mostly that `None` is no value of the model, that
bounds are numbers, and of constants of the code what it relies on: a page of
the history screen has a row, a u64 holds the dust limits and an i128 a u64, a
balance column has a decimal).

**The vault** (`VaultFileProofs`): every safety property of the run and the
refinement of `VaultPromise`.  None is inductive.  `IInv` adds what each stage
of a call has established on disk (`Stages`), what a file without a row looks
like (`NoRowYet`), that one of the row's two wraps is the one the file is keyed
with unless a change was staged over another (`RowKept`), that only a keyed file
has anything in it (`Keying`), and that a file from the future never gets beyond
`open` (`FutureIdle`).  `RowKept` is the heart: the staging keeps the file's
wrap as the previous one, the rekey makes the new one the file's, and only then
does finishing drop the other.

**The transfer** (`SendFlowProofs`): every safety property of the run.  `IInv`
says which screens may lie on which (`Screens`: a session behind all but the
first ones, what Esc returns to, and where a review has its request), whom each
request under way was made for and which one the present screen awaits
(`Booked`), that what is shown is the account's on screen (`Shown`), and what
each step of a transfer has had approved (`Stage`).  `SignsOnlyApproved` and
`SolanaHashFresh` are action properties and follow from the step before: the
answer that signs is in `mine`, and `Stage` knows what it answers.

**The tables** (`WalletStoreProofs`): every property of the run.  `IInv` adds
that what is left to register belongs to wallets on record and is nothing once a
call is over (`TodoIsReal`), that an unlocked vault in which no statement failed
lacks only what is left to register (`MissingIsTodo`), and that what is listed
and asked is finite, so that the counter can be compared with it (`Counts`).

**Payments** (`PaymentProofs`): every property of the run, on all seven families.  `IInv`: figures are numbers;
until a quote is in nothing is held back and an edit has withdrawn the request
for everything (`Untouched`); a quote under review has been told the amount that
will be signed, what is held back is its reserve (`Reviewed`), and on Bitcoin it
is the selection of the coins there are for the amount that was asked
(`CoinsChosen`: the purse does not move during a review); what is authorized it
does not call unaffordable.  `CostsCover` goes once through the figures of every
family that keeps accounts, those that could not be read included, and shows
that no less is reserved than the network will ask.

What a selection promises is worked out from the sizes up, for any number of
coins, any values, rates and scripts.  `Sizes`: a script adds what it weighs, so
a transaction with change is larger than one without.  `FeesGrow`: more costs no
less.  `PoolIsSorted`: the pool is the coins, each once, in an order in which
none is ahead of an earlier one.  `SelectIsFirst`: what is selected is the
shortest front of the pool that does.  `FitsUnwrapped`: if the amount and the fee
that comes out fit in a u64, no sum on the way to them was wrapped - a fee is
too small to wrap a sum twice, and where one wrapped once, what comes out as the
fee is a difference wrapped from below zero, which with the amount does not fit;
so the accounts of one weighing (`SelectingAccounts`) hold of the selection.  `FirstConfirmedAreMost`: of as many confirmed coins none
are worth more than the first in the pool, which makes the selection the fewest
of the confirmed coins (`ConfirmedAreFewest`).  A smaller amount does with the front a larger one
chose (`LessIsEnough`).

The amount field (`WhatIsWrittenIsRead`): for any texts, any amounts up to an
i128 and any precision, what the screen wrote is read back as the amount it
stands for.  The invariant is `Fielded`: the amount is what the text is read as,
and it, what the screen was opened with and what an account holds are all
between nothing and the largest i128.  It is needed because a request for
everything rewrites the field from `shown` and from the reserve, and only a
number that fits is read back at all.  The step that rewrites is `ReadsBack`: what
`to_display_string_full` writes, `parse` reads as the same number.  It goes by
what a writing consists of (`Writes`): digits of the whole part, and a fraction
that has lost no more than zeros; `UncutIs` shows that the formatter produces
one, `WholeReads` and `WrittenReads` that the parser reads one back without any
of its checks failing, since no number on the way is larger than the one that
comes out.  Commas go where `replace` takes them out again (`Without` undoes
`Grouped`), and digits by their places sum to the same number as digits one
after the other.  What is said on screen is the same argument against `Says`
(`FullSays`), and the column is the writing cut short (`ColumnSays`), where the
case that matters is the number that would be cut to nothing.

Sums over coins are folds, positions are cardinalities and texts are read by
recursive functions, so all of this is by induction, and no installed prover
takes the library's induction theorems, which have an operator for a parameter.
`Reckoning` does without them: the numbers that have a property are a set, and if
that is not all of the naturals a least one is missing (`Least`, from the
well-foundedness of `<`).  A recursive function is a CHOOSE, of which nothing is
known until some function satisfies its equation; that one does, step by step
from the first place on, is `Recursion`, and everything about a loop of
`amount.rs` starts from there.  From `Least` come sums over sets as the one
function that adds up (`SumIs`), that they are monotone and do not depend on the
order (`SumMore`, `SumImage`), that the first in a falling order are worth the
most (`FirstAreMost`), that counting who comes before puts everyone in a place
of their own (`Places`), and the arithmetic of powers of ten.

**The configuration** (`ConfigFileProofs`): `SavedIsWhole` and `OpensTheSaved`,
for any number of commands.  Until two saves overlap there is one at most, it
has the temporary file, that file is not the configuration, and what it renames
is what it wanted to save; so wherever it dies the configuration is the last one
saved, and the next save starts by emptying what the dead one left.

**The settings** (`SettingsProofs`): `SetIsUsed` and `NobodyElses`, for any
vaults and values (the run has one of each).  The tables are looked at row by
row, once: no two rows share a key or a field, each field is loaded from its own
key, and a client reads the fields of the rows that serve its chain and no
others.  `IInv` then says that every vault has what was last set in it, whichever
process wrote it, and that memory has what the vault has once unlocked; while
locked a key may be there from before or not at all, which is why an unlock may
keep what it finds.

**The history screen** (`HistoryProofs`): `RowsBelongHere` and `CursorOnScreen`,
for any providers, readers and sizes.  The slot of the awaited id is not emptied
when a screen is left; what keeps a late answer out is that every screen asks
when it opens, and ids only grow.  The cursor stays in its window because every
key and every resize moves the one after the other (`InWindow`); new rows, fewer
or none, move neither.  That a list has a length, and that it is a number, is
what the provers know of `Len`; what the rows are does not matter there.

### Only model-checked

* `OwnerGetsIn` and `SpinnerStops`: liveness.
* `Signing`: the bytes of seven formats, read back by `ChainReaders` and
  `TonMessages`, which hold RECURSIVE operators and so are used by no module with
  a theorem.
* The properties of `History` about what the readers make of a list
  (`ShownHappened`, `HappenedIsShown`, `HalfIsKept`): chains of `SelectSeq`,
  folds and sorts, and the provers neither know `SelectSeq` nor expand it.

## Divergences seen, without a run of their own

* The balances of an account that answer while the chain list or the assets of a
  wallet are on top update that screen's copy only; Esc puts the older copy back
  on screen, though app.rs says "what is displayed is exactly what a restart
  would show".
* A TRON broadcast is posted up to three times (neko-tron/client.rs:171, 459): if
  the first answer is lost, the rejection of the duplicate reads as a failure.
* A movement of gas alone is in Sui's history, with the gas in the amount, though
  the comment of neko-sui/history.rs says that it is dropped.
* A transfer to oneself is in both NodeReal lists; the comment says both are
  kept, and the removal of duplicates keeps one (neko-evm/history.rs:167-175).
  TRON's removal drops equal repeats.
* The same removal takes coin and token paid to one party in one transaction for
  one row, though the comment says "exact duplicates" (neko-evm/history.rs:174).
  `HappenedIsShown` excepts it.
* Half of a NodeReal history is returned as if it were whole, though the comment
  promises otherwise (neko-evm/history.rs:133).
* Bitcoin coins are not taken largest first, nor the fewest of them, where coins
  are unconfirmed (neko-btc/coins.rs:153 and 172).  `FewestConfirmed` says what
  holds instead.
* An asset can meet the parameters of another family at signing, by way of a late
  quote (neko-tui/app.rs:812), though neko-core/transfer.rs:519 calls that
  unreachable.  It is refused there, after the password.
* A `create` that dies half-way leaves a path that neither `create` nor `unlock`
  takes.
* The transaction link uses TRON's explorer for every chain (keys.rs).
* The look-alike warning compares with an empty list (app.rs:1303).
* A configured Etherscan key is used on zkSync Era and Scroll too, which that
  index does not serve (chain.rs:1170).
* A rollup's L1 fee that cannot be read counts as zero (chain.rs:806), and so does
  a token balance (chain.rs:964).
* Coins that cover the amount and the fee of a transaction without change, but
  not of one with change, are passed over (neko-btc/coins.rs:195).
* Beyond 252 inputs the input count of a Bitcoin transaction takes three bytes, and
  `OVERHEAD_VBYTES` (neko-btc/coins.rs:30) counts one; only signatures that all have
  their longest form would let the fee fall short of the rate.
* The histories asked for on EVM do not list coin paid out by contracts; Solana's
  lists what names the address; on TON the plumbing of token transfers counts
  against the limit.

## Not modelled

* HTTP, JSON, rate limits, prices: stateless parsing of answers for figures, the
  prices only displayed.
* The look-alike and contract checks of the recipient, and the drawing: no state
  that another part reads.
* Key derivation, address checksums and cryptography: pure, with published
  vectors in the repository; taken as injections.  The header's cost profile is
  abstracted to whether this build accepts it.
* `rename`, `reveal_mnemonic`, labels: they change nothing another step reads.
* Encodings the application never produces: staking messages, other transaction
  kinds, wallet versions of TON it does not deploy.
* Translations: generated tables.
* A second transfer after a broadcast whose answer was lost, and which of two
  balance answers is the newer: the code keeps nothing that could tell, as the
  notes of those hazards in `PROJECT.json` say.

## What could come next

1. `Payment` and `SendFlow` in one module, so that the retyping and the quote
   meet in one state.
2. `PaysItsRate` for any transaction: the sizes that `coins.rs` reckons with
   against the ones that `tx.rs` serializes, with the lemmas on sizes that
   `PaymentProofs` has; first the two RECURSIVE readers have to become recursive
   functions.
3. The confirmation rules of the recipient (look-alikes, contracts).
