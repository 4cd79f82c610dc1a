---------------------------- MODULE WalletStore ----------------------------
(***************************************************************************)
(* The wallets of an unlocked vault, their addresses and the cache of      *)
(* their balances: neko-core/src/wallets.rs over neko-store/src/repo, and  *)
(* the part of neko-tui/src/app.rs that fills the cache from the network.  *)
(*                                                                         *)
(* A wallet is its secret, and its address on a chain is that secret: two  *)
(* secrets have different addresses.  One thread does everything here but  *)
(* the network's work, and each of its statements commits alone, except    *)
(* for the transaction of wallets::create.  Labels are left out.           *)
(***************************************************************************)
EXTENDS Integers, FiniteSets

CONSTANTS Secrets,
          NChains,       \* CHAINS, in their order
          Tokenless,     \* the chains with a coin and no token
          None, Zero,
          MaxId,         \* bound: wallet rows
          MaxSeq,        \* bound: wallets ever created
          MaxRefresh,    \* bound: refreshes of the list
          MaxFaults      \* bound: deaths and failed statements

Ids    == 1..MaxId
CHAINS == 1..NChains
Rows   == Ids \X CHAINS                    \* accounts: UNIQUE (wallet_id, chain_id)
Wallet == [seq : 0..MaxSeq, secret : Secrets]
Assets == {"coin", "token"}                \* table assets, of one chain
Asked  == [refresh : 1..MaxRefresh, id : Ids, chain : CHAINS,
           address : Secrets]

ASSUME BoundAssumption == /\ {NChains, MaxId, MaxSeq, MaxRefresh, MaxFaults} \subseteq Nat
                          /\ MaxId # 0 /\ MaxSeq # 0
ASSUME NoneAssumption  == None \notin Secrets \cup Wallet \cup {Zero} /\ Zero \notin Secrets
ASSUME TokenAssumption == Tokenless \subseteq CHAINS

VARIABLES
    wallets,     \* table wallets, by id
    wallet_seq,  \* vault.wallet_seq
    accounts,    \* table accounts
    addresses,   \* table addresses, by account
    balances,    \* table balances, by account and asset: whose figure it is
    session,     \* whether the vault is unlocked
    pc,          \* the call in progress
    todo,        \* the accounts that call has still to register
    items,       \* the wallet list on screen, as it was last read
    asked,       \* balance requests under way
    assets_pending,
    assets_stale,
    refreshes,   \* how many refreshes were started
    broken,      \* history: a statement failed since the vault was unlocked
    haunted,     \* history: an answer for a deleted wallet's address was cached
    faults

tables  == <<wallets, wallet_seq, accounts, addresses, balances>>
refresh == <<asked, assets_pending, assets_stale, refreshes>>
history == <<broken, haunted, faults>>
vars == <<tables, session, pc, todo, items, refresh, history>>

Exists(w)  == wallets[w] # None
Existing   == {w \in Ids : Exists(w)}
Complete(w) == \A c \in CHAINS : addresses[<<w, c>>] # None

\* COALESCE(MAX(id), 0) + 1.
IsNextId(w) == /\ \A v \in Existing : v < w
               /\ w = 1 \/ w - 1 \in Existing

\* wallets::list: every wallet, with the addresses its secret derives.
Listed == {<<w, wallets[w].secret>> : w \in Existing}

\* Mutant: only a wallet without any address is adopted.
Missing_NewWalletsOnly ==
    {r \in Rows : Exists(r[1]) /\ \A c \in CHAINS : addresses[<<r[1], c>>] = None}

\* What backfill_addresses finds to register.
Missing == {r \in Rows : Exists(r[1]) /\ addresses[r] = None}

\* Registration goes wallet by wallet, and chain by chain in one.
Before(q, r) == \/ wallets[q[1]].seq < wallets[r[1]].seq
                \/ q[1] = r[1] /\ q[2] < r[2]

Head(r) == r \in todo /\ \A q \in todo \ {r} : Before(r, q)

\* No row in the table for any asset.
Unread == [a \in Assets |-> None]

\* A vault with no wallet yet, or with one from before the last chain existed.
Init == /\ \/ /\ wallets = [w \in Ids |-> None] /\ wallet_seq = 0
              /\ accounts = {} /\ addresses = [r \in Rows |-> None]
           \/ \E s \in Secrets :
              /\ wallets = [w \in Ids |-> IF w = 1 THEN [seq |-> 0, secret |-> s] ELSE None]
              /\ wallet_seq = 1
              /\ accounts = {<<1, c>> : c \in 1..NChains - 1}
              /\ addresses = [r \in Rows |-> IF r \in accounts THEN s ELSE None]
        /\ balances = [r \in Rows |-> Unread]
        /\ session = FALSE /\ pc = "idle" /\ todo = {} /\ items = {}
        /\ asked = {} /\ assets_pending = 0 /\ assets_stale = FALSE
        /\ refreshes = 0
        /\ broken = FALSE /\ haunted = FALSE /\ faults = 0

Ready == session /\ pc = "idle"

---------------------------------------------------------------------------
(* Unlock, and the backfill it ends with.                                  *)

Unlock == /\ ~session
          /\ session' = TRUE /\ broken' = FALSE
          /\ pc' = "backfill" /\ todo' = Missing
          /\ UNCHANGED <<tables, items, refresh, haunted, faults>>

BackfillEnds == /\ pc = "backfill" /\ todo = {}
                /\ pc' = "idle"
                /\ items' = Listed /\ assets_stale' = TRUE
                /\ UNCHANGED <<tables, session, todo, asked, assets_pending, refreshes,
                               history>>

Lock == /\ Ready
        /\ session' = FALSE /\ items' = {}
        /\ UNCHANGED <<tables, pc, todo, refresh, history>>

---------------------------------------------------------------------------
(* Wallets.                                                                *)

\* wallets::create is one transaction; the registration that follows is not
\* part of it.  Importing may bring a secret the vault already has.
CreateWallet(w, s) ==
    /\ Ready /\ IsNextId(w) /\ wallet_seq < MaxSeq
    /\ wallets' = [wallets EXCEPT ![w] = [seq |-> wallet_seq, secret |-> s]]
    /\ wallet_seq' = wallet_seq + 1
    /\ pc' = "create" /\ todo' = {w} \X CHAINS
    /\ UNCHANGED <<accounts, addresses, balances, session, items, refresh, history>>

\* addresses::ensure, first statement.
EnsureAccount(r) ==
    /\ Head(r) /\ r \notin accounts
    /\ accounts' = accounts \cup {r}
    /\ UNCHANGED <<wallets, wallet_seq, addresses, balances, session, pc, todo, items,
                   refresh, history>>

\* And the second: INSERT OR IGNORE leaves an address that is there alone.
EnsureAddress(r) ==
    /\ Head(r) /\ r \in accounts
    /\ addresses' = IF addresses[r] # None THEN addresses
                    ELSE [addresses EXCEPT ![r] = wallets[r[1]].secret]
    /\ todo' = todo \ {r}
    /\ UNCHANGED <<wallets, wallet_seq, accounts, balances, session, pc, items,
                   refresh, history>>

\* The form closes and the list is read again.
CreateEnds == /\ pc = "create" /\ todo = {}
              /\ pc' = "idle" /\ items' = Listed
              /\ UNCHANGED <<tables, session, todo, refresh, history>>

\* A statement fails.  The backfill ignores that and unlocks; the form shows the
\* error over the list as it was, and the wallet stays.
RegistrationFails ==
    /\ todo # {} /\ faults < MaxFaults
    /\ faults' = faults + 1 /\ broken' = TRUE
    /\ todo' = {} /\ pc' = "idle"
    /\ IF pc = "backfill" THEN items' = Listed /\ assets_stale' = TRUE
                          ELSE UNCHANGED <<items, assets_stale>>
    /\ UNCHANGED <<tables, session, asked, assets_pending, refreshes, haunted>>

\* Mutant: foreign keys are not enforced.
DeleteWallet_NoCascade(w) ==
    /\ Ready /\ w \in {i[1] : i \in items}
    /\ wallets' = [wallets EXCEPT ![w] = None]
    /\ items' = {i \in items : i[1] # w}
    /\ UNCHANGED <<wallet_seq, accounts, addresses, balances, session, pc, todo,
                   refresh, history>>

\* Mutant: the balances table does not reference addresses.
DeleteWallet_KeepsBalances(w) ==
    /\ Ready /\ w \in {i[1] : i \in items}
    /\ wallets'   = [wallets EXCEPT ![w] = None]
    /\ accounts'  = accounts \ ({w} \X CHAINS)
    /\ addresses' = [r \in Rows |-> IF r[1] = w THEN None ELSE addresses[r]]
    /\ items' = {i \in items : i[1] # w}
    /\ UNCHANGED <<wallet_seq, balances, session, pc, todo, refresh, history>>

\* Mutant: the sequence number is given back.
DeleteWallet_GivesSeqBack(w) ==
    /\ Ready /\ w \in {i[1] : i \in items}
    /\ wallets'   = [wallets EXCEPT ![w] = None]
    /\ wallet_seq' = wallet_seq - 1
    /\ accounts'  = accounts \ ({w} \X CHAINS)
    /\ addresses' = [r \in Rows |-> IF r[1] = w THEN None ELSE addresses[r]]
    /\ balances'  = [r \in Rows |-> IF r[1] = w THEN Unread ELSE balances[r]]
    /\ items' = {<<v, wallets[v].secret>> : v \in Existing \ {w}}
    /\ UNCHANGED <<session, pc, todo, refresh, history>>

\* ON DELETE CASCADE takes the accounts, addresses and balances along; the list
\* is read again.  The requests under way are not called back.
DeleteWallet(w) ==
    /\ Ready /\ w \in {i[1] : i \in items}
    /\ wallets'   = [wallets EXCEPT ![w] = None]
    /\ accounts'  = accounts \ ({w} \X CHAINS)
    /\ addresses' = [r \in Rows |-> IF r[1] = w THEN None ELSE addresses[r]]
    /\ balances'  = [r \in Rows |-> IF r[1] = w THEN Unread ELSE balances[r]]
    /\ items' = {<<v, wallets[v].secret>> : v \in Existing \ {w}}
    /\ UNCHANGED <<wallet_seq, session, pc, todo, refresh, history>>

---------------------------------------------------------------------------
(* The balance cache.                                                      *)

\* refresh_wallet_assets: a request for every listed wallet on every chain.
Targets == {[refresh |-> refreshes + 1, id |-> i[1], chain |-> c,
             address |-> i[2]] : i \in items, c \in CHAINS}

Refresh == /\ refreshes < MaxRefresh /\ items # {}
           /\ asked' = asked \cup Targets
           /\ assets_pending' = Cardinality(Targets)
           /\ refreshes' = refreshes + 1

\* R on the list.
RefreshKey == /\ Ready /\ Refresh
              /\ UNCHANGED <<tables, session, pc, todo, items, assets_stale, history>>

\* The first tick after an unlock; if another screen is shown by then, nothing
\* is asked and the flag is gone all the same.
Tick == /\ pc = "idle" /\ assets_stale
        /\ assets_stale' = FALSE
        /\ Refresh \/ UNCHANGED <<asked, assets_pending, refreshes>>
        /\ UNCHANGED <<tables, session, pc, todo, items, history>>

\* Mutant: the subtraction does not saturate.
Counted_BelowZero == assets_pending - 1

\* saturating_sub: two refreshes may be answered for one count.
Counted == IF assets_pending = 0 THEN 0 ELSE assets_pending - 1

\* Mutant: a failed request is not counted off.
OnWalletAssets_ErrorFirst(q, figures) ==
    /\ pc = "idle"
    /\ asked' = asked \ {q}
    /\ assets_pending' = IF figures # None THEN Counted ELSE assets_pending
    /\ UNCHANGED <<tables, session, pc, todo, items, assets_stale, refreshes, history>>

\* What a node may answer of an address, asset by asset, or None where the coin could
\* not be read.  A token that could not be is no error: it reads as zero, as one the
\* address never held does.  On Bitcoin the coins are summed, and there is no token.
wallet_assets(a, c) ==
    {None} \cup IF c \in Tokenless THEN [coin : {a}]
               ELSE [coin : {a}, token : {a, Zero}]

\* INSERT ... ON CONFLICT DO UPDATE, an asset at a time.
upsert(row, figures, stored) ==
    [a \in Assets |-> IF a \in stored THEN figures[a] ELSE row[a]]

\* cache_assets: a missing address is registered first, and when there is no such
\* wallet it fails.  A statement of its own for every asset, in order: one may fail
\* after the coin, and nobody looks.
cache_assets(r, figures) ==
    /\ accounts' = accounts \cup {r}
    /\ addresses' = IF addresses[r] # None THEN addresses
                    ELSE [addresses EXCEPT ![r] = wallets[r[1]].secret]
    /\ \/ /\ balances' = [balances EXCEPT ![r] = upsert(@, figures, DOMAIN figures)]
          /\ UNCHANGED faults
       \/ /\ "token" \in DOMAIN figures /\ faults < MaxFaults
          /\ balances' = [balances EXCEPT ![r] = upsert(@, figures, {"coin"})]
          /\ faults' = faults + 1

\* An answer is stored under the wallet's id, whatever wallet has that id now.
OnWalletAssets(q, figures) ==
    /\ pc = "idle"
    /\ asked' = asked \ {q}
    /\ assets_pending' = Counted
    /\ IF figures # None /\ session /\ Exists(q.id)
         THEN /\ cache_assets(<<q.id, q.chain>>, figures)
              /\ haunted' = (haunted \/ q.address # wallets[q.id].secret)
         ELSE UNCHANGED <<accounts, addresses, balances, haunted, faults>>
    /\ UNCHANGED <<wallets, wallet_seq, session, pc, todo, items, assets_stale, refreshes,
                   broken>>

---------------------------------------------------------------------------
\* The process dies: the tables stay, the requests under way go.
Crash == /\ faults < MaxFaults
         /\ faults' = faults + 1
         /\ session' = FALSE /\ pc' = "idle" /\ todo' = {} /\ items' = {}
         /\ asked' = {} /\ assets_pending' = 0 /\ assets_stale' = FALSE
         /\ broken' = FALSE
         /\ UNCHANGED <<tables, refreshes, haunted>>

Next == \/ Unlock \/ BackfillEnds \/ Lock
        \/ \E w \in Ids, s \in Secrets : CreateWallet(w, s)
        \/ \E r \in Rows : EnsureAccount(r) \/ EnsureAddress(r)
        \/ CreateEnds \/ RegistrationFails
        \/ \E w \in Ids : DeleteWallet(w)
        \/ RefreshKey \/ Tick \/ Crash
        \/ \E q \in asked : \E figures \in wallet_assets(q.address, q.chain) :
              OnWalletAssets(q, figures)

Spec == Init /\ [][Next]_vars

---------------------------------------------------------------------------
(* Properties.                                                             *)

TypeOK == /\ wallets \in [Ids -> Wallet \cup {None}]
          /\ wallet_seq \in 0..MaxSeq
          /\ accounts \subseteq Rows
          /\ addresses \in [Rows -> Secrets \cup {None}]
          /\ balances \in [Rows -> [Assets -> Secrets \cup {None, Zero}]]
          /\ session \in BOOLEAN
          /\ pc \in {"idle", "backfill", "create"}
          /\ todo \subseteq Rows
          /\ items \subseteq Ids \X Secrets
          /\ asked \subseteq Asked
          /\ assets_pending \in Nat
          /\ assets_stale \in BOOLEAN
          /\ refreshes \in 0..MaxRefresh
          /\ broken \in BOOLEAN /\ haunted \in BOOLEAN /\ faults \in 0..MaxFaults

\* An address on record is one its wallet's own secret derives, although ids
\* are given out again and a registration may have stopped half-way
\* (addresses.rs: "the user is shown one address while the software watches
\* another").
AddressesAreOwn ==
    \A r \in Rows : addresses[r] # None =>
        r \in accounts /\ Exists(r[1]) /\ addresses[r] = wallets[r[1]].secret

\* A cached figure hangs off an address on record and is that address's own, or was
\* stored as zero when only the token could not be read - unless an answer for a deleted
\* wallet has been cached; a token is cached where there is one, and never before the
\* coin (wallet_assets, cache_assets).
BalancesAreOwn ==
    \A r \in Rows :
        LET row == balances[r] IN
        /\ row # Unread => addresses[r] # None /\ row["coin"] \notin {None, Zero}
        /\ row["token"] # None => r[2] \notin Tokenless
        /\ haunted \/ \A a \in Assets : row[a] \in {addresses[r], None, Zero}

\* The list's order is the order of creation, for ever: no two wallets share a
\* sequence number, and the next wallet comes after all of them, whichever were
\* deleted (wallets::create).
SeqsInOrder ==
    \A v, w \in Existing : /\ wallets[w].seq < wallet_seq
                           /\ v # w => wallets[v].seq # wallets[w].seq
                           /\ v < w => wallets[v].seq < wallets[w].seq

\* However an earlier process left the tables, an unlocked wallet list has every
\* address of every wallet on record, unless a statement failed since
\* (backfill_addresses).
UnlockedIsComplete ==
    Ready /\ ~broken => \A w \in Existing : Complete(w)

\* The spinner counts no more answers than are still to come, whatever was
\* refreshed, deleted or locked in between (assets_pending).
PendingWillCome == assets_pending <= Cardinality(asked)

\* What a test says: "balance landed on the wrong wallet" must not happen, and
\* "Each wallet's balances stay its own".
BalancesStayOwn ==
    \A r \in Rows, a \in Assets : balances[r][a] \in {addresses[r], None, Zero}
=============================================================================
