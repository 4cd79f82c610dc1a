------------------------- MODULE WalletStoreProofs -------------------------
(***************************************************************************)
(* Theorems about WalletStore, for any set of secrets, any number of       *)
(* chains and any bounds.                                                  *)
(*                                                                         *)
(* Registration is several statements, so what is on record is not enough: *)
(* the strengthening says what a call in progress has still to do.         *)
(***************************************************************************)
EXTENDS WalletStore, FiniteSetTheorems, TLAPS

\* A call in progress registers accounts of wallets there are, and an idle vault
\* has none to register.
TodoIsReal == /\ \A r \in todo : Exists(r[1])
              /\ pc = "idle" => todo = {}

\* Unless a statement failed, what an unlocked vault lacks is still to be registered.
MissingIsTodo == session /\ ~broken => Missing \subseteq todo

\* The spinner's count, which needs what is listed and asked to be finite.
Counts == /\ IsFiniteSet(items) /\ IsFiniteSet(asked)
          /\ PendingWillCome

IInv == /\ TypeOK
        /\ Counts
        /\ TodoIsReal
        /\ AddressesAreOwn
        /\ BalancesAreOwn
        /\ SeqsInOrder
        /\ MissingIsTodo

---------------------------------------------------------------------------
(* Types.                                                                  *)

LEMMA Constants ==
    /\ NChains \in Nat /\ MaxId \in Nat \ {0} /\ MaxSeq \in Nat \ {0}
    /\ MaxRefresh \in Nat /\ MaxFaults \in Nat
    /\ None # Zero /\ None \notin Secrets /\ Zero \notin Secrets
    /\ \A w \in Wallet : w # None
  BY BoundAssumption, NoneAssumption

LEMMA ListedType == TypeOK => Listed \subseteq Ids \X Secrets
  BY DEF TypeOK, Listed, Existing, Exists, Wallet

LEMMA TargetsType ==
    TypeOK /\ refreshes < MaxRefresh => Targets \subseteq Asked
  BY Constants DEF TypeOK, Targets, Asked

\* The image of a finite set under a function is finite.
LEMMA ImageIsFinite ==
    ASSUME NEW S, NEW T, NEW f \in [S -> T], IsFiniteSet(S)
    PROVE  IsFiniteSet({f[x] : x \in S})
<1> DEFINE I == {f[x] : x \in S}
<1>1. f \in Surjection(S, I)
  BY DEF Surjection
<1> QED
  BY <1>1, FS_Surjection

LEMMA TargetsAreFinite ==
    IsFiniteSet(items) => IsFiniteSet(Targets)
<1> SUFFICES ASSUME IsFiniteSet(items) PROVE IsFiniteSet(Targets)
  OBVIOUS
<1> DEFINE S == items \X CHAINS
           T(p) == [refresh |-> refreshes + 1, id |-> p[1][1], chain |-> p[2],
                    address |-> p[1][2]]
           f == [p \in S |-> T(p)]
           I == {f[p] : p \in S}
<1>1. IsFiniteSet(S)
  <2>1. 1 \in Int /\ NChains \in Int
    BY Constants
  <2>2. IsFiniteSet(CHAINS)
    BY <2>1, FS_Interval DEF CHAINS
  <2> QED
    BY <2>2, FS_Product
<1>2. f \in [S -> I]
  OBVIOUS
<1>3. ASSUME NEW i \in items, NEW c \in CHAINS
      PROVE  /\ <<i, c>> \in S
             /\ f[<<i, c>>]
                  = [refresh |-> refreshes + 1, id |-> i[1], chain |-> c, address |-> i[2]]
  OBVIOUS
<1> HIDE DEF S, f
<1>4. IsFiniteSet(I)
  <2>1. \A J : f \in [S -> J] => IsFiniteSet({f[p] : p \in S})
    BY <1>1, ImageIsFinite
  <2> QED
    BY <1>2, <2>1
<1>5. Targets \subseteq {f[p] : p \in S}
  <2>1. ASSUME NEW i \in items, NEW c \in CHAINS
        PROVE  [refresh |-> refreshes + 1, id |-> i[1], chain |-> c, address |-> i[2]]
                 \in I
    BY <1>3
  <2> QED
    BY <2>1 DEF Targets
<1> QED
  BY <1>4, <1>5, FS_Subset

\* What the list shows of a set of wallets.
LEMMA ListIsFinite ==
    ASSUME NEW W \in SUBSET Ids
    PROVE  IsFiniteSet({<<v, wallets[v].secret>> : v \in W})
<1> DEFINE f == [v \in W |-> <<v, wallets[v].secret>>]
<1>1. IsFiniteSet(W)
  <2>1. 1 \in Int /\ MaxId \in Int
    BY Constants
  <2>2. IsFiniteSet(Ids)
    BY <2>1, FS_Interval DEF Ids
  <2> QED
    BY <2>2, FS_Subset
<1>2. {<<v, wallets[v].secret>> : v \in W} = {f[v] : v \in W}
  OBVIOUS
<1>3. f \in [W -> {f[v] : v \in W}]
  OBVIOUS
<1> HIDE DEF f
<1>4. IsFiniteSet({f[v] : v \in W})
  BY <1>1, <1>3, ImageIsFinite
<1> QED
  BY <1>2, <1>4

---------------------------------------------------------------------------
(* The steps, one lemma for each part of the invariant.                    *)

LEMMA TypeInit == Init => TypeOK
<1> SUFFICES ASSUME Init PROVE TypeOK
  OBVIOUS
<1>1. /\ balances \in [Rows -> [Assets -> Secrets \cup {None, Zero}]]
      /\ session \in BOOLEAN /\ pc \in {"idle", "backfill", "create"}
      /\ todo \subseteq Rows /\ items \subseteq Ids \X Secrets /\ asked \subseteq Asked
      /\ assets_pending \in Nat /\ assets_stale \in BOOLEAN
      /\ broken \in BOOLEAN /\ haunted \in BOOLEAN
  BY DEF Init, Unread
<1>2. refreshes \in 0..MaxRefresh /\ faults \in 0..MaxFaults
  BY Constants DEF Init
<1>3. CASE /\ wallets = [w \in Ids |-> None] /\ wallet_seq = 0
           /\ accounts = {} /\ addresses = [r \in Rows |-> None]
  <2>1. wallet_seq \in 0..MaxSeq
    BY <1>3, Constants
  <2> QED
    BY <1>1, <1>2, <1>3, <2>1 DEF TypeOK
<1>4. ASSUME NEW s \in Secrets,
             wallets = [w \in Ids |-> IF w = 1 THEN [seq |-> 0, secret |-> s] ELSE None],
             wallet_seq = 1,
             accounts = {<<1, c>> : c \in 1..NChains - 1},
             addresses = [r \in Rows |-> IF r \in accounts THEN s ELSE None]
      PROVE  TypeOK
  <2>1. [seq |-> 0, secret |-> s] \in Wallet /\ wallet_seq \in 0..MaxSeq
    BY <1>4, Constants DEF Wallet
  <2>2. accounts \subseteq Rows
    BY <1>4, Constants DEF Rows, Ids, CHAINS
  <2>3. wallets \in [Ids -> Wallet \cup {None}]
    BY <1>4, <2>1
  <2>4. addresses \in [Rows -> Secrets \cup {None}]
    BY <1>4
  <2> QED
    BY <1>1, <1>2, <2>1, <2>2, <2>3, <2>4 DEF TypeOK
<1> QED
  BY <1>3, <1>4 DEF Init

\* An answer leaves what is under way and is counted off, if anything was counted.
LEMMA Answered ==
    ASSUME TypeOK, Counts, NEW q \in asked, asked' = asked \ {q}, assets_pending' = Counted
    PROVE  IsFiniteSet(asked') /\ PendingWillCome'
<1>1. IsFiniteSet(asked') /\ Cardinality(asked') = Cardinality(asked) - 1
  BY FS_RemoveElement DEF Counts
<1>2. Cardinality(asked) \in Nat
  BY FS_CardinalityType DEF Counts
<1>3. assets_pending \in Nat /\ assets_pending <= Cardinality(asked)
  BY DEF TypeOK, Counts, PendingWillCome
<1>4. Cardinality(asked') \in Nat
  BY <1>1, FS_CardinalityType
<1>5. Counted <= Cardinality(asked')
  BY <1>1, <1>2, <1>3, <1>4 DEF Counted
<1> QED
  BY <1>1, <1>5 DEF PendingWillCome

LEMMA CountsNext == TypeOK /\ Counts /\ [Next]_vars => Counts'
<1> SUFFICES ASSUME TypeOK, Counts, [Next]_vars PROVE Counts'
  OBVIOUS
<1> USE DEF refresh, history, tables
<1>1. CASE UNCHANGED <<items, asked, assets_pending>>
  BY <1>1 DEF Counts, PendingWillCome
<1>2. IsFiniteSet(Listed)
  BY ListIsFinite DEF Listed, Existing
<1>3. ASSUME UNCHANGED <<asked, assets_pending>>, IsFiniteSet(items') PROVE Counts'
  BY <1>3 DEF Counts, PendingWillCome
<1>4. CASE BackfillEnds \/ CreateEnds
  BY <1>2, <1>3, <1>4 DEF BackfillEnds, CreateEnds
<1>5. CASE Lock
  BY <1>3, <1>5, FS_EmptySet DEF Lock
<1>6. CASE RegistrationFails
  BY <1>1, <1>2, <1>3, <1>6 DEF RegistrationFails
<1>7. ASSUME NEW w \in Ids, DeleteWallet(w) PROVE Counts'
  <2>1. Existing \ {w} \in SUBSET Ids
    BY DEF Existing
  <2>2. IsFiniteSet(items')
    BY <1>7, <2>1, ListIsFinite DEF DeleteWallet
  <2> QED
    BY <1>3, <1>7, <2>2 DEF DeleteWallet
<1>8. ASSUME Refresh, UNCHANGED items PROVE Counts'
  <2>1. IsFiniteSet(Targets)
    BY TargetsAreFinite DEF Counts
  <2>2. IsFiniteSet(asked \cup Targets)
    BY <2>1, FS_Union DEF Counts
  <2>3. Cardinality(Targets) <= Cardinality(asked \cup Targets)
    BY <2>2, FS_Subset
  <2> QED
    BY <1>8, <2>2, <2>3 DEF Refresh, Counts, PendingWillCome
<1>9. CASE RefreshKey
  BY <1>8, <1>9 DEF RefreshKey
<1>10. CASE Tick
  BY <1>1, <1>8, <1>10 DEF Tick
<1>11. CASE Crash
  BY <1>11, FS_EmptySet DEF Crash, Counts, PendingWillCome
<1>12. ASSUME NEW q \in asked, NEW figures \in wallet_assets(q.address, q.chain),
              OnWalletAssets(q, figures)
       PROVE  Counts'
  BY <1>12, Answered DEF OnWalletAssets, Counts
<1>13. CASE Unlock \/ UNCHANGED vars
  BY <1>1, <1>13 DEF Unlock, vars
<1>14. ASSUME NEW w \in Ids, NEW s \in Secrets, CreateWallet(w, s) PROVE Counts'
  BY <1>1, <1>14 DEF CreateWallet
<1>15. ASSUME NEW r \in Rows, EnsureAccount(r) \/ EnsureAddress(r) PROVE Counts'
  BY <1>1, <1>15 DEF EnsureAccount, EnsureAddress
<1> QED
  BY <1>4, <1>5, <1>6, <1>7, <1>9, <1>10, <1>11, <1>12, <1>13, <1>14, <1>15 DEF Next

LEMMA TypeNext == TypeOK /\ TodoIsReal /\ Counts /\ [Next]_vars => TypeOK'
<1> SUFFICES ASSUME TypeOK, TodoIsReal, Counts, [Next]_vars PROVE TypeOK'
  OBVIOUS
<1> USE DEF TypeOK, refresh, history, tables
<1>1. CASE Unlock
  BY <1>1 DEF Unlock, Missing
<1>2. CASE BackfillEnds
  BY <1>2, ListedType DEF BackfillEnds
<1>3. CASE Lock
  BY <1>3 DEF Lock, Ready
<1>4. ASSUME NEW w \in Ids, NEW s \in Secrets, CreateWallet(w, s) PROVE TypeOK'
  <2>1. [seq |-> wallet_seq, secret |-> s] \in Wallet /\ wallet_seq + 1 \in 0..MaxSeq
    BY <1>4, Constants DEF CreateWallet, Wallet
  <2>2. {w} \X CHAINS \subseteq Rows
    BY DEF Rows
  <2> QED
    BY <1>4, <2>1, <2>2 DEF CreateWallet, Ready
<1>5. ASSUME NEW r \in Rows, EnsureAccount(r) PROVE TypeOK'
  BY <1>5 DEF EnsureAccount
<1>6. ASSUME NEW r \in Rows, EnsureAddress(r) PROVE TypeOK'
  <2>1. wallets[r[1]].secret \in Secrets
    BY <1>6 DEF EnsureAddress, Head, TodoIsReal, Exists, Rows, Wallet
  <2>2. addresses' \in [Rows -> Secrets \cup {None}]
    BY <1>6, <2>1 DEF EnsureAddress
  <2> QED
    BY <1>6, <2>2 DEF EnsureAddress
<1>7. CASE CreateEnds
  BY <1>7, ListedType DEF CreateEnds
<1>8. CASE RegistrationFails
  <2>1. items' \subseteq Ids \X Secrets /\ assets_stale' \in BOOLEAN
    BY <1>8, ListedType DEF RegistrationFails
  <2>2. faults' \in 0..MaxFaults
    BY <1>8, Constants DEF RegistrationFails
  <2> QED
    BY <1>8, <2>1, <2>2 DEF RegistrationFails
<1>9. ASSUME NEW w \in Ids, DeleteWallet(w) PROVE TypeOK'
  <2>1. \A v \in Existing : wallets[v].secret \in Secrets
    BY DEF Existing, Exists, Wallet
  <2>2. items' \subseteq Ids \X Secrets
    BY <1>9, <2>1 DEF DeleteWallet, Existing
  <2>3. /\ wallets' \in [Ids -> Wallet \cup {None}]
        /\ accounts' \subseteq Rows
        /\ addresses' \in [Rows -> Secrets \cup {None}]
    BY <1>9 DEF DeleteWallet
  <2>4. balances' \in [Rows -> [Assets -> Secrets \cup {None, Zero}]]
    BY <1>9 DEF DeleteWallet, Unread
  <2> QED
    BY <1>9, <2>2, <2>3, <2>4 DEF DeleteWallet
<1>10. Refresh => /\ asked' \subseteq Asked /\ assets_pending' \in Nat
                  /\ refreshes' \in 0..MaxRefresh
  <2>1. Cardinality(Targets) \in Nat
    BY TargetsAreFinite, FS_CardinalityType DEF Counts
  <2>2. refreshes < MaxRefresh => refreshes + 1 \in 0..MaxRefresh
    BY Constants
  <2> QED
    BY <2>1, <2>2, TargetsType DEF Refresh
<1>11. CASE RefreshKey
  BY <1>10, <1>11 DEF RefreshKey
<1>12. CASE Tick
  BY <1>10, <1>12 DEF Tick
<1>13. CASE Crash
  <2>1. faults' \in 0..MaxFaults
    BY <1>13, Constants DEF Crash
  <2> QED
    BY <1>13, <2>1 DEF Crash
<1>14. ASSUME NEW q \in asked, NEW figures \in wallet_assets(q.address, q.chain),
              OnWalletAssets(q, figures)
       PROVE  TypeOK'
  <2>1. q \in Asked
    OBVIOUS
  <2>2. asked' \subseteq Asked /\ assets_pending' \in Nat
    BY <1>14 DEF OnWalletAssets, Counted
  <2>3. CASE figures # None /\ session /\ Exists(q.id)
    <3> DEFINE r == <<q.id, q.chain>>
    <3>1. r \in Rows /\ wallets[r[1]].secret \in Secrets
      BY <2>1, <2>3 DEF Asked, Rows, Exists, Wallet
    <3>2. \A a \in DOMAIN figures : a \in Assets /\ figures[a] \in Secrets \cup {Zero}
      BY <2>1, <2>3 DEF wallet_assets, Asked, Assets
    <3>3. ASSUME NEW S, S \subseteq DOMAIN figures
          PROVE  upsert(balances[r], figures, S) \in [Assets -> Secrets \cup {None, Zero}]
      BY <3>1, <3>2, <3>3 DEF upsert
    <3>4. "coin" \in DOMAIN figures
      BY <2>3 DEF wallet_assets
    <3>5. accounts' \subseteq Rows /\ addresses' \in [Rows -> Secrets \cup {None}]
      BY <1>14, <2>3, <3>1 DEF OnWalletAssets, cache_assets
    <3>6. faults' \in 0..MaxFaults /\ haunted' \in BOOLEAN
      BY <1>14, <2>3, Constants DEF OnWalletAssets, cache_assets
    <3>7. PICK S : /\ S \subseteq DOMAIN figures
                   /\ balances' = [balances EXCEPT ![r] = upsert(@, figures, S)]
      BY <1>14, <2>3, <3>4 DEF OnWalletAssets, cache_assets
    <3>8. upsert(balances[r], figures, S) \in [Assets -> Secrets \cup {None, Zero}]
      BY <3>3, <3>7
    <3>9. balances' \in [Rows -> [Assets -> Secrets \cup {None, Zero}]]
      BY <3>1, <3>7, <3>8
    <3> QED
      BY <1>14, <2>2, <3>5, <3>6, <3>9 DEF OnWalletAssets
  <2>4. CASE ~(figures # None /\ session /\ Exists(q.id))
    BY <1>14, <2>2, <2>4 DEF OnWalletAssets
  <2> QED
    BY <2>3, <2>4
<1>15. CASE UNCHANGED vars
  BY <1>15 DEF vars
<1> QED
  BY <1>1, <1>2, <1>3, <1>4, <1>5, <1>6, <1>7, <1>8, <1>9, <1>11, <1>12, <1>13, <1>14, <1>15
     DEF Next

LEMMA TodoNext == TypeOK /\ TodoIsReal /\ [Next]_vars => TodoIsReal'
<1> SUFFICES ASSUME TypeOK, TodoIsReal, [Next]_vars PROVE TodoIsReal'
  OBVIOUS
<1> USE DEF TodoIsReal, refresh, history, tables
<1>1. CASE UNCHANGED <<wallets, todo, pc>>
  BY <1>1 DEF Exists
<1>2. CASE Unlock
  BY <1>2 DEF Unlock, Missing, Exists
<1>3. CASE BackfillEnds \/ CreateEnds \/ RegistrationFails \/ Crash
  BY <1>3 DEF BackfillEnds, CreateEnds, RegistrationFails, Crash
<1>4. ASSUME NEW w \in Ids, NEW s \in Secrets, CreateWallet(w, s) PROVE TodoIsReal'
  <2>1. wallets'[w] # None
    BY <1>4, Constants DEF CreateWallet, TypeOK, Wallet
  <2>2. \A r \in todo' : r[1] = w
    BY <1>4 DEF CreateWallet
  <2> QED
    BY <1>4, <2>1, <2>2 DEF CreateWallet, Exists
<1>5. ASSUME NEW r \in Rows, EnsureAddress(r) PROVE TodoIsReal'
  BY <1>5 DEF EnsureAddress, Head, Exists
<1>6. ASSUME NEW w \in Ids, DeleteWallet(w) PROVE TodoIsReal'
  BY <1>6 DEF DeleteWallet, Ready
<1>7. ASSUME NEW r \in Rows, EnsureAccount(r) PROVE TodoIsReal'
  BY <1>1, <1>7 DEF EnsureAccount
<1>8. CASE Lock \/ RefreshKey \/ Tick \/ UNCHANGED vars
  BY <1>1, <1>8 DEF Lock, RefreshKey, Tick, vars
<1>9. ASSUME NEW q \in asked, NEW figures \in wallet_assets(q.address, q.chain),
             OnWalletAssets(q, figures)
      PROVE  TodoIsReal'
  BY <1>1, <1>9 DEF OnWalletAssets
<1> QED
  BY <1>2, <1>3, <1>4, <1>5, <1>6, <1>7, <1>8, <1>9 DEF Next

LEMMA AddressesNext ==
    TypeOK /\ TodoIsReal /\ AddressesAreOwn /\ [Next]_vars => AddressesAreOwn'
<1> SUFFICES ASSUME TypeOK, TodoIsReal, AddressesAreOwn, [Next]_vars
             PROVE  AddressesAreOwn'
  OBVIOUS
<1> USE DEF refresh, history, tables
<1>1. CASE UNCHANGED <<wallets, accounts, addresses>>
  BY <1>1 DEF AddressesAreOwn, Exists
<1>2. CASE \/ Unlock \/ BackfillEnds \/ Lock \/ CreateEnds \/ RegistrationFails \/ RefreshKey
           \/ Tick \/ Crash \/ UNCHANGED vars
  BY <1>1, <1>2 DEF Unlock, BackfillEnds, Lock, CreateEnds, RegistrationFails, RefreshKey, Tick,
                    Crash, vars
<1>3. ASSUME NEW w \in Ids, NEW s \in Secrets, CreateWallet(w, s) PROVE AddressesAreOwn'
  <2>1. w \notin Existing
    BY <1>3 DEF CreateWallet, IsNextId, Ids
  <2>2. ASSUME NEW r \in Rows, addresses[r] # None PROVE r[1] \in Ids /\ r[1] # w
    BY <2>1, <2>2 DEF AddressesAreOwn, Rows, Existing
  <2> QED
    BY <1>3, <2>2 DEF CreateWallet, AddressesAreOwn, Exists, TypeOK
<1>4. ASSUME NEW r \in Rows, EnsureAccount(r) PROVE AddressesAreOwn'
  BY <1>4 DEF EnsureAccount, AddressesAreOwn, Exists
<1>5. ASSUME NEW r \in Rows, EnsureAddress(r) PROVE AddressesAreOwn'
  BY <1>5 DEF EnsureAddress, Head, TodoIsReal, AddressesAreOwn, Exists, TypeOK
<1>6. ASSUME NEW w \in Ids, DeleteWallet(w) PROVE AddressesAreOwn'
  <2>1. ASSUME NEW r \in Rows, addresses'[r] # None
        PROVE  r[1] # w /\ addresses'[r] = addresses[r] /\ r[1] \in Ids
    BY <1>6, <2>1 DEF DeleteWallet, Rows
  <2>2. ASSUME NEW r \in Rows, r[1] # w, r \in accounts PROVE r \in accounts'
    BY <1>6, <2>2 DEF DeleteWallet
  <2> QED
    BY <1>6, <2>1, <2>2 DEF DeleteWallet, AddressesAreOwn, Exists, TypeOK
<1>7. ASSUME NEW q \in asked, NEW figures \in wallet_assets(q.address, q.chain),
             OnWalletAssets(q, figures)
      PROVE  AddressesAreOwn'
  <2>1. <<q.id, q.chain>> \in Rows
    BY DEF TypeOK, Asked, Rows
  <2>2. CASE figures # None /\ session /\ Exists(q.id)
    <3>1. /\ accounts' = accounts \cup {<<q.id, q.chain>>} /\ wallets' = wallets
          /\ addresses' = IF addresses[<<q.id, q.chain>>] # None THEN addresses
                          ELSE [addresses EXCEPT ![<<q.id, q.chain>>] = wallets[q.id].secret]
      BY <1>7, <2>2 DEF OnWalletAssets, cache_assets
    <3>2. ASSUME NEW r \in Rows
          PROVE  \/ addresses'[r] = addresses[r]
                 \/ r = <<q.id, q.chain>> /\ addresses'[r] = wallets[r[1]].secret
      BY <2>1, <3>1 DEF TypeOK
    <3> QED
      BY <2>2, <3>1, <3>2 DEF AddressesAreOwn, Exists
  <2>3. CASE ~(figures # None /\ session /\ Exists(q.id))
    BY <1>1, <1>7, <2>3 DEF OnWalletAssets
  <2> QED
    BY <2>2, <2>3
<1> QED
  BY <1>2, <1>3, <1>4, <1>5, <1>6, <1>7 DEF Next

LEMMA BalancesNext ==
    TypeOK /\ TodoIsReal /\ AddressesAreOwn /\ BalancesAreOwn /\ [Next]_vars => BalancesAreOwn'
<1> SUFFICES ASSUME TypeOK, TodoIsReal, AddressesAreOwn, BalancesAreOwn, [Next]_vars
             PROVE  BalancesAreOwn'
  OBVIOUS
<1> USE DEF refresh, history, tables
<1>1. CASE UNCHANGED <<addresses, balances, haunted>>
  BY <1>1 DEF BalancesAreOwn
<1>2. CASE \/ Unlock \/ BackfillEnds \/ Lock \/ CreateEnds \/ RegistrationFails \/ RefreshKey
           \/ Tick \/ Crash \/ UNCHANGED vars
  BY <1>1, <1>2 DEF Unlock, BackfillEnds, Lock, CreateEnds, RegistrationFails, RefreshKey, Tick,
                    Crash, vars
<1>3. ASSUME NEW w \in Ids, NEW s \in Secrets, CreateWallet(w, s) PROVE BalancesAreOwn'
  BY <1>1, <1>3 DEF CreateWallet
<1>4. ASSUME NEW r \in Rows, EnsureAccount(r) PROVE BalancesAreOwn'
  BY <1>1, <1>4 DEF EnsureAccount
\* An account without an address has no balance either.
<1>5. ASSUME NEW r \in Rows, EnsureAddress(r) PROVE BalancesAreOwn'
  <2>1. CASE addresses[r] # None
    BY <1>1, <1>5, <2>1 DEF EnsureAddress
  <2>2. CASE addresses[r] = None
    <3>1. balances[r] = Unread
      BY <2>2 DEF BalancesAreOwn
    <3>2. ASSUME NEW q \in Rows, q # r PROVE addresses'[q] = addresses[q]
      BY <1>5, <3>2 DEF EnsureAddress, TypeOK
    <3> QED
      BY <1>5, <3>1, <3>2 DEF EnsureAddress, BalancesAreOwn, Unread, Assets
  <2> QED
    BY <2>1, <2>2
<1>6. ASSUME NEW w \in Ids, DeleteWallet(w) PROVE BalancesAreOwn'
  <2>1. ASSUME NEW r \in Rows
        PROVE  \/ balances'[r] = Unread
               \/ balances'[r] = balances[r] /\ addresses'[r] = addresses[r]
    BY <1>6 DEF DeleteWallet
  <2>2. Unread["token"] = None /\ \A a \in Assets : Unread[a] = None
    BY DEF Unread, Assets
  <2>3. haunted' = haunted
    BY <1>6 DEF DeleteWallet
  <2> QED
    BY <2>1, <2>2, <2>3 DEF BalancesAreOwn
<1>7. ASSUME NEW q \in asked, NEW figures \in wallet_assets(q.address, q.chain),
             OnWalletAssets(q, figures)
      PROVE  BalancesAreOwn'
  <2> DEFINE r == <<q.id, q.chain>>
  <2>1. r \in Rows /\ q.address \in Secrets
    BY DEF TypeOK, Asked, Rows
  <2>2. CASE figures # None /\ session /\ Exists(q.id)
    <3>1. /\ "coin" \in DOMAIN figures /\ DOMAIN figures \subseteq Assets
          /\ figures["coin"] = q.address
          /\ "token" \in DOMAIN figures => /\ figures["token"] \in {q.address, Zero}
                                           /\ q.chain \notin Tokenless
      BY <2>2 DEF wallet_assets, Assets
    <3>2. PICK S : /\ "coin" \in S /\ S \subseteq DOMAIN figures
                   /\ balances' = [balances EXCEPT ![r] = upsert(@, figures, S)]
      BY <1>7, <2>2, <3>1 DEF OnWalletAssets, cache_assets
    <3>3. balances'[r] = upsert(balances[r], figures, S)
      BY <2>1, <3>2 DEF TypeOK
    <3>4. /\ balances'[r]["coin"] = q.address
          /\ \/ balances'[r]["token"] = balances[r]["token"]
             \/ balances'[r]["token"] \in {q.address, Zero} /\ q.chain \notin Tokenless
      BY <3>1, <3>2, <3>3 DEF upsert, Assets
    <3>5. addresses'[r] = wallets[r[1]].secret /\ addresses'[r] # None
      <4>1. wallets[r[1]].secret \in Secrets
        BY <2>1, <2>2 DEF TypeOK, Exists, Rows, Wallet
      <4>2. addresses'[r] = IF addresses[r] # None THEN addresses[r] ELSE wallets[r[1]].secret
        BY <1>7, <2>1, <2>2 DEF OnWalletAssets, cache_assets, TypeOK
      <4> QED
        BY <2>1, <4>1, <4>2, Constants DEF AddressesAreOwn
    <3>6. haunted' = (haunted \/ q.address # wallets[q.id].secret)
      BY <1>7, <2>2 DEF OnWalletAssets
    <3>7. ASSUME NEW p \in Rows, p # r
          PROVE  balances'[p] = balances[p] /\ addresses'[p] = addresses[p]
      BY <1>7, <2>1, <2>2, <3>2, <3>7 DEF OnWalletAssets, cache_assets, TypeOK
    <3>8. haunted' \/ balances[r]["token"] \in {addresses'[r], None, Zero}
      <4>1. CASE addresses[r] # None
        BY <2>1, <3>5, <3>6, <4>1 DEF BalancesAreOwn, AddressesAreOwn, Assets
      <4>2. CASE addresses[r] = None
        BY <2>1, <4>2 DEF BalancesAreOwn, Unread, Assets
      <4> QED
        BY <4>1, <4>2
    <3>9. ASSUME NEW p \in Rows
          PROVE  /\ balances'[p] # Unread => /\ addresses'[p] # None
                                             /\ balances'[p]["coin"] \notin {None, Zero}
                 /\ balances'[p]["token"] # None => p[2] \notin Tokenless
                 /\ haunted' \/ \A a \in Assets : balances'[p][a] \in {addresses'[p], None, Zero}
      <4>1. CASE p = r
        <5>1. balances[r]["token"] # None => q.chain \notin Tokenless
          BY <2>1 DEF BalancesAreOwn
        <5>2. \A a \in Assets : a = "coin" \/ a = "token"
          BY DEF Assets
        <5> QED
          BY <2>1, <3>4, <3>5, <3>6, <3>8, <4>1, <5>1, <5>2, Constants
      <4>2. CASE p # r
        BY <3>6, <3>7, <4>2 DEF BalancesAreOwn
      <4> QED
        BY <4>1, <4>2
    <3> QED
      BY <3>9 DEF BalancesAreOwn
  <2>3. CASE ~(figures # None /\ session /\ Exists(q.id))
    BY <1>1, <1>7, <2>3 DEF OnWalletAssets
  <2> QED
    BY <2>2, <2>3
<1> QED
  BY <1>2, <1>3, <1>4, <1>5, <1>6, <1>7 DEF Next

\* A wallet that is created comes after all there are, in both orders.
LEMMA SeqsNext == TypeOK /\ SeqsInOrder /\ [Next]_vars => SeqsInOrder'
<1> SUFFICES ASSUME TypeOK, SeqsInOrder, [Next]_vars PROVE SeqsInOrder'
  OBVIOUS
<1> USE DEF refresh, history, tables
<1>1. CASE UNCHANGED <<wallets, wallet_seq>>
  BY <1>1 DEF SeqsInOrder, Existing, Exists
<1>2. CASE \/ Unlock \/ BackfillEnds \/ Lock \/ CreateEnds \/ RegistrationFails \/ RefreshKey
           \/ Tick \/ Crash \/ UNCHANGED vars
  BY <1>1, <1>2 DEF Unlock, BackfillEnds, Lock, CreateEnds, RegistrationFails, RefreshKey, Tick,
                    Crash, vars
<1>3. ASSUME NEW w \in Ids, NEW s \in Secrets, CreateWallet(w, s) PROVE SeqsInOrder'
  <2>1. /\ wallet_seq' = wallet_seq + 1 /\ wallet_seq \in Nat
        /\ wallets'[w].seq = wallet_seq
        /\ \A v \in Ids \ {w} : wallets'[v] = wallets[v]
    BY <1>3, Constants DEF CreateWallet, TypeOK
  <2>2. \A v \in Existing' : v = w \/ v \in Existing
    BY <2>1 DEF Existing, Exists
  <2>3. \A v \in Existing : v < w /\ v # w /\ v \in Ids
    BY <1>3 DEF CreateWallet, IsNextId, Existing, Ids
  <2>4. \A v \in Existing : wallets[v].seq \in Nat /\ wallets[v].seq < wallet_seq
    BY DEF SeqsInOrder, Existing, Exists, TypeOK, Wallet
  <2>5. ASSUME NEW v \in Existing', NEW u \in Existing'
        PROVE  /\ wallets'[u].seq < wallet_seq'
               /\ v # u => wallets'[u].seq # wallets'[v].seq
               /\ v < u => wallets'[v].seq < wallets'[u].seq
    <3>1. CASE v \in Existing /\ u \in Existing
      BY <2>1, <2>3, <2>4, <3>1 DEF SeqsInOrder
    <3>2. CASE v = w /\ u = w
      BY <2>1, <3>2 DEF Ids
    <3>3. CASE v \in Existing /\ u = w
      BY <2>1, <2>3, <2>4, <3>3
    <3>4. CASE v = w /\ u \in Existing
      BY <2>1, <2>3, <2>4, <3>4 DEF Ids
    <3> QED
      BY <2>2, <3>1, <3>2, <3>3, <3>4
  <2> QED
    BY <2>5 DEF SeqsInOrder
<1>4. ASSUME NEW r \in Rows, EnsureAccount(r) \/ EnsureAddress(r) PROVE SeqsInOrder'
  BY <1>1, <1>4 DEF EnsureAccount, EnsureAddress
<1>5. ASSUME NEW w \in Ids, DeleteWallet(w) PROVE SeqsInOrder'
  <2>1. \A v \in Existing' : v \in Existing /\ wallets'[v] = wallets[v]
    BY <1>5 DEF DeleteWallet, Existing, Exists, TypeOK
  <2> QED
    BY <1>5, <2>1 DEF DeleteWallet, SeqsInOrder
<1>6. ASSUME NEW q \in asked, NEW figures \in wallet_assets(q.address, q.chain),
             OnWalletAssets(q, figures)
      PROVE  SeqsInOrder'
  BY <1>1, <1>6 DEF OnWalletAssets
<1> QED
  BY <1>2, <1>3, <1>4, <1>5, <1>6 DEF Next

LEMMA MissingNext == TypeOK /\ TodoIsReal /\ MissingIsTodo /\ [Next]_vars => MissingIsTodo'
<1> SUFFICES ASSUME TypeOK, TodoIsReal, MissingIsTodo, [Next]_vars PROVE MissingIsTodo'
  OBVIOUS
<1> USE DEF MissingIsTodo, refresh, history, tables
<1>1. CASE UNCHANGED <<wallets, addresses, session, broken, todo>>
  BY <1>1 DEF Missing, Exists
<1>2. CASE Unlock
  BY <1>2 DEF Unlock, Missing, Exists
<1>3. CASE BackfillEnds \/ CreateEnds \/ RefreshKey \/ Tick \/ UNCHANGED vars
  BY <1>1, <1>3 DEF BackfillEnds, CreateEnds, RefreshKey, Tick, vars
<1>4. CASE Lock \/ RegistrationFails \/ Crash
  BY <1>4 DEF Lock, RegistrationFails, Crash
<1>5. ASSUME NEW w \in Ids, NEW s \in Secrets, CreateWallet(w, s) PROVE MissingIsTodo'
  <2>1. todo = {} /\ todo' = {w} \X CHAINS
    BY <1>5 DEF CreateWallet, Ready, TodoIsReal
  <2>2. ASSUME NEW r \in Missing' PROVE r[1] = w \/ r \in Missing
    BY <1>5, <2>2 DEF CreateWallet, Missing, Exists, Rows, TypeOK
  <2>3. ASSUME NEW r \in Missing', r[1] = w PROVE r \in {w} \X CHAINS
    BY <2>3 DEF Missing, Rows
  <2> QED
    BY <1>5, <2>1, <2>2, <2>3 DEF CreateWallet
<1>6. ASSUME NEW r \in Rows, EnsureAccount(r) PROVE MissingIsTodo'
  BY <1>1, <1>6 DEF EnsureAccount
<1>7. ASSUME NEW r \in Rows, EnsureAddress(r) PROVE MissingIsTodo'
  <2>1. wallets[r[1]].secret # None
    BY <1>7, Constants DEF EnsureAddress, Head, TodoIsReal, Exists, TypeOK, Rows, Wallet
  <2>2. addresses'[r] # None /\ \A q \in Rows \ {r} : addresses'[q] = addresses[q]
    BY <1>7, <2>1 DEF EnsureAddress, TypeOK
  <2> QED
    BY <1>7, <2>2 DEF EnsureAddress, Missing, Exists
<1>8. ASSUME NEW w \in Ids, DeleteWallet(w) PROVE MissingIsTodo'
  <2>1. \A r \in Rows : wallets'[r[1]] # None => r[1] # w /\ wallets[r[1]] # None
    BY <1>8 DEF DeleteWallet, TypeOK, Rows
  <2>2. \A r \in Rows : r[1] # w => addresses'[r] = addresses[r]
    BY <1>8 DEF DeleteWallet
  <2> QED
    BY <1>8, <2>1, <2>2 DEF DeleteWallet, Missing, Exists
<1>9. ASSUME NEW q \in asked, NEW figures \in wallet_assets(q.address, q.chain),
             OnWalletAssets(q, figures)
      PROVE  MissingIsTodo'
  <2>1. \A r \in Rows : addresses[r] # None => addresses'[r] # None
    BY <1>9 DEF OnWalletAssets, cache_assets, TypeOK
  <2> QED
    BY <1>9, <2>1 DEF OnWalletAssets, Missing, Exists
<1> QED
  BY <1>2, <1>3, <1>4, <1>5, <1>6, <1>7, <1>8, <1>9 DEF Next

---------------------------------------------------------------------------
(* The theorems.                                                           *)

LEMMA InvInit == Init => IInv
<1> SUFFICES ASSUME Init PROVE IInv
  OBVIOUS
<1>1. TypeOK
  BY TypeInit
<1>2. Counts
  BY FS_EmptySet DEF Init, Counts, PendingWillCome
<1>3. TodoIsReal /\ MissingIsTodo
  BY DEF Init, TodoIsReal, MissingIsTodo
<1>4. BalancesAreOwn
  BY DEF Init, BalancesAreOwn, Unread, Assets
<1>5. AddressesAreOwn /\ SeqsInOrder
  <2>1. CASE wallets = [w \in Ids |-> None] /\ addresses = [r \in Rows |-> None]
    BY <2>1 DEF AddressesAreOwn, SeqsInOrder, Existing, Exists
  <2>2. ASSUME NEW s \in Secrets,
               wallets = [w \in Ids |-> IF w = 1 THEN [seq |-> 0, secret |-> s] ELSE None],
               wallet_seq = 1,
               accounts = {<<1, c>> : c \in 1..NChains - 1},
               addresses = [r \in Rows |-> IF r \in accounts THEN s ELSE None]
        PROVE  AddressesAreOwn /\ SeqsInOrder
    <3>1. [seq |-> 0, secret |-> s] # None /\ 1 \in Ids
      BY Constants DEF Wallet, Ids
    <3>2. \A r \in accounts : r[1] = 1
      BY <2>2
    <3>3. AddressesAreOwn
      BY <2>2, <3>1, <3>2 DEF AddressesAreOwn, Exists
    <3>4. \A v \in Existing : v = 1 /\ wallets[v].seq = 0
      BY <2>2, <3>1 DEF Existing, Exists
    <3> QED
      BY <2>2, <3>3, <3>4 DEF SeqsInOrder
  <2> QED
    BY <2>1, <2>2 DEF Init
<1> QED
  BY <1>1, <1>2, <1>3, <1>4, <1>5 DEF IInv

\* The inductive invariant: with every part there, each lemma has what it needs.
THEOREM Invariance == Spec => []IInv
<1>1. IInv /\ [Next]_vars => IInv'
  BY TypeNext, CountsNext, TodoNext, AddressesNext, BalancesNext, SeqsNext, MissingNext DEF IInv
<1> QED
  BY InvInit, <1>1, PTL DEF Spec

\* Every variable keeps its type.
THEOREM TypeCorrect == Spec => []TypeOK
<1>1. IInv => TypeOK
  BY DEF IInv
<1> QED
  BY Invariance, <1>1, PTL

\* An address on record is its wallet's own, whatever stopped half-way or had the
\* wallet's id before.
THEOREM AddressesStayOwn == Spec => []AddressesAreOwn
<1>1. IInv => AddressesAreOwn
  BY DEF IInv
<1> QED
  BY Invariance, <1>1, PTL

\* A cached figure is the address's own, until an answer for a deleted wallet is
\* stored; no token where there is none, and none before the coin.
THEOREM BalancesHold == Spec => []BalancesAreOwn
<1>1. IInv => BalancesAreOwn
  BY DEF IInv
<1> QED
  BY Invariance, <1>1, PTL

\* The list keeps the order of creation through deletions.
THEOREM OrderIsKept == Spec => []SeqsInOrder
<1>1. IInv => SeqsInOrder
  BY DEF IInv
<1> QED
  BY Invariance, <1>1, PTL

\* Nothing is to be registered once a vault is idle, so what an unlocked vault has is
\* complete unless a statement failed.
THEOREM UnlockedHasAll == Spec => []UnlockedIsComplete
<1>1. IInv => UnlockedIsComplete
  <2> SUFFICES ASSUME IInv, Ready, ~broken, NEW w \in Existing, NEW c \in CHAINS
               PROVE  addresses[<<w, c>>] # None
    BY DEF UnlockedIsComplete, Complete
  <2>1. Missing = {}
    BY DEF IInv, MissingIsTodo, TodoIsReal, Ready
  <2>2. <<w, c>> \in Rows /\ Exists(w)
    BY DEF Rows, Existing
  <2> QED
    BY <2>1, <2>2 DEF Missing
<1> QED
  BY Invariance, <1>1, PTL

\* The count of answers awaited never exceeds the answers under way.
THEOREM PendingIsBounded == Spec => []PendingWillCome
<1>1. IInv => PendingWillCome
  BY DEF IInv, Counts
<1> QED
  BY Invariance, <1>1, PTL
=============================================================================
