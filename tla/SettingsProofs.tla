--------------------------- MODULE SettingsProofs ---------------------------
(***************************************************************************)
(* Theorems about Settings, for any vaults, rows that are edited, values   *)
(* that are typed, keys the environment gives and numbers of edits, starts *)
(* and faults.                                                             *)
(*                                                                         *)
(* The four tables agree: they are looked at row by row, once.  Then the   *)
(* vault always has what was last set (Recorded), sealed or in the clear   *)
(* (Sealed), whatever process wrote it; and the memory of an unlocked      *)
(* process has what its vault has, but for what a statement failed on and  *)
(* what the environment gave (InMemory, Spoken).  While locked a key may   *)
(* be there from before or not at all, and a node may be anything, which   *)
(* the next unlock replaces.                                               *)
(***************************************************************************)
EXTENDS Settings, TLAPS

---------------------------------------------------------------------------
(* The tables.                                                             *)

AllRows == {"NodeUrl", "SolanaRpc", "BitcoinApi", "EthRpc", "PolygonRpc", "BaseRpc",
    "ArbitrumRpc", "OptimismRpc", "AvalancheRpc", "HyperEvmRpc", "MantleRpc", "LineaRpc",
    "ZkSyncEraRpc", "ScrollRpc", "AptosApi", "SuiApi", "TonApi",
    "ApiKey", "BscApiKey", "EtherscanKey", "TonApiKey"}

LEMMA Rows == DOMAIN RowKey = AllRows /\ DOMAIN RowField = AllRows
  BY DEF RowKey, RowField, AllRows

LEMMA Edited == EditRows \subseteq AllRows
  BY Rows, RowAssumption

\* No two rows are stored under one key, or under those of the other two settings.
LEMMA KeysDiffer ==
  /\ \A r, s \in AllRows : RowKey[r] = RowKey[s] => r = s
  /\ \A r \in AllRows : RowKey[r] \notin {"language", "autolock_secs"}
<1>1. \A r, s \in AllRows : RowKey[r] = RowKey[s] => r = s
  BY DEF RowKey, AllRows
<1>2. \A r \in AllRows : RowKey[r] \notin {"language", "autolock_secs"}
  BY DEF RowKey, AllRows
<1> QED
  BY <1>1, <1>2

LEMMA FieldsDiffer == \A r, s \in AllRows : RowField[r] = RowField[s] => r = s
  BY KeysDiffer, Rows DEF RowField, RowKey, AllRows

LEMMA LoadsItsKey == \A r \in AllRows : LoadKey[RowField[r]] = RowKey[r] /\ RowField[r] \in Fields
<1>1. \A r \in AllRows : LoadKey[RowField[r]] = RowKey[r]
  BY Rows DEF RowKey, AllRows, LoadKey, RowField, Fields
<1> QED
  BY <1>1, Rows DEF Fields

LEMMA KeysOfRows ==
  /\ \A r \in AllRows : KeyOf(r) = RowKey[r] /\ RowKey[r] \in SettingKeys
  /\ {"language", "autolock_secs"} \subseteq SettingKeys
  /\ KeyOf("Language") = "language" /\ KeyOf("AutoLock") = "autolock_secs"
<1>1. \A r \in AllRows : KeyOf(r) = RowKey[r]
  BY DEF AllRows, KeyOf
<1> QED
  BY <1>1, Rows DEF SettingKeys, KeyOf

LEMMA RowKinds ==
  /\ KeyRows \subseteq AllRows /\ UrlRows = AllRows \ KeyRows
  /\ \A r \in AllRows : RowField[r] \in KeyFields <=> r \in KeyRows
  /\ \A r \in AllRows : Secret(RowKey[r]) <=> r \in KeyRows
  /\ ~Secret("language") /\ ~Secret("autolock_secs")
<1>1. KeyRows \subseteq AllRows /\ UrlRows = AllRows \ KeyRows
  BY Rows DEF KeyRows, AllRows, UrlRows
<1> QED
  BY <1>1, FieldsDiffer, KeysDiffer DEF KeyFields, Secret

\* A client reads the fields of the rows that serve its chain,
LEMMA ServedRead ==
  /\ \A r \in UrlRows : \A c \in Serves[r] : c \in DOMAIN UrlField /\ UrlField[c] = RowField[r]
  /\ \A r \in KeyRows \ {"EtherscanKey"} : \A c \in Serves[r] :
        c \in DOMAIN KeyField /\ KeyField[c] = RowField[r] /\ c \in Evm \cup {"Tron", "Ton"}
  /\ Serves["EtherscanKey"] = Evm /\ RowField["EtherscanKey"] = "etherscan_key"
<1>1. \A r \in UrlRows : \A c \in Serves[r] : c \in DOMAIN UrlField /\ UrlField[c] = RowField[r]
  BY Rows DEF RowField, RowKey, AllRows, UrlRows, KeyRows, UrlField, Serves
<1>2. \A r \in KeyRows \ {"EtherscanKey"} : \A c \in Serves[r] :
        c \in DOMAIN KeyField /\ KeyField[c] = RowField[r]
  BY Rows DEF RowField, RowKey, AllRows, KeyRows, KeyField, Serves
<1>3. {"Bsc", "Ethereum"} \subseteq Evm
  BY DEF Evm, ChainIds, UrlField
<1>4. \A r \in KeyRows \ {"EtherscanKey"} : \A c \in Serves[r] : c \in Evm \cup {"Tron", "Ton"}
  BY <1>3 DEF KeyRows, Serves
<1>5. Serves["EtherscanKey"] = Evm
  BY DEF Serves
<1>6. RowField["EtherscanKey"] = "etherscan_key"
  BY Rows DEF RowField, RowKey, AllRows
<1> QED
  BY <1>1, <1>2, <1>4, <1>5, <1>6

\* and no others.
LEMMA ReadServed ==
  /\ \A r \in AllRows : \A c \in DOMAIN UrlField : UrlField[c] = RowField[r] => c \in Serves[r]
  /\ \A r \in AllRows : \A c \in DOMAIN KeyField : KeyField[c] = RowField[r] => c \in Serves[r]
<1>1. \A r \in AllRows : \A c \in DOMAIN UrlField : UrlField[c] = RowField[r] => c \in Serves[r]
  BY Rows DEF RowField, RowKey, AllRows, UrlField, Serves
<1>2. \A r \in AllRows : \A c \in DOMAIN KeyField : KeyField[c] = RowField[r] => c \in Serves[r]
  BY Rows DEF RowField, RowKey, AllRows, KeyField, Serves
<1> QED
  BY <1>1, <1>2

---------------------------------------------------------------------------
(* The invariant.                                                          *)

Clear(v)   == [secret |-> FALSE, value |-> v]
Sealing(v) == IF v \in {None, Empty} THEN NoRow ELSE [secret |-> TRUE, value |-> v]
Kept(r, v) == IF r \in KeyRows THEN Sealing(v) ELSE Clear(v)

Durations == {60, 300, 900, 1800, 3600}

Shaped == /\ DOMAIN vault = Paths /\ \A p \in Paths : DOMAIN vault[p] = SettingKeys
          /\ DOMAIN used = Paths
          /\ \A p \in Paths : DOMAIN used[p] = EditRows \cup {"Language", "AutoLock"}
          /\ DOMAIN mem = Fields

Seated == /\ path # None => path \in Paths
          /\ unlocked \in BOOLEAN /\ (unlocked => path # None)
          /\ editing # None => unlocked /\ editing \in EditRows

Recorded == \A p \in Paths :
    /\ \A r \in EditRows : vault[p][RowKey[r]] = Kept(r, used[p][r])
    /\ vault[p]["language"] = Clear(used[p]["Language"])
    /\ vault[p]["autolock_secs"] = Clear(used[p]["AutoLock"])
    /\ used[p]["AutoLock"] \in Durations \cup {None}

Sealed == \A p \in Paths, k \in SettingKeys :
    vault[p][k] # NoRow => vault[p][k].secret = Secret(k)

\* What row r is about is in memory.
Here(r) == mem[RowField[r]] = NonEmpty(used[path][r])

InMemory == path # None =>
    \A r \in EditRows \ unsaved : RowField[r] \notin fromEnv =>
        Here(r) \/ (~unlocked /\ (r \in UrlRows \/ mem[RowField[r]] = None))

Spoken == /\ path # None => shown_in = locale
          /\ unlocked => /\ \/ used[path]["Language"] = None \/ "Language" \in unsaved
                            \/ locale = used[path]["Language"]
                         /\ \/ used[path]["AutoLock"] = None \/ "AutoLock" \in unsaved
                            \/ autolock = used[path]["AutoLock"]

Durable == Shaped /\ Recorded /\ Sealed
IInv    == Durable /\ Seated /\ InMemory /\ Spoken

LEMMA Initially == Init => IInv
<1> SUFFICES ASSUME Init PROVE IInv
  OBVIOUS
<1>1. Shaped
  BY DEF Init, Shaped, Row0, Unset
<1>2. Seated /\ InMemory /\ Spoken
  BY DEF Init, Seated, InMemory, Spoken
<1>3. \A p \in Paths, k \in SettingKeys : vault[p][k] = NoRow
  BY DEF Init, Row0
<1>4. \A p \in Paths, r \in EditRows \cup {"Language", "AutoLock"} : used[p][r] = None
  BY DEF Init, Unset
<1>5. Recorded
  <2>1. ASSUME NEW p \in Paths, NEW r \in EditRows
        PROVE  vault[p][RowKey[r]] = Kept(r, used[p][r])
    <3>1. RowKey[r] \in SettingKeys
      BY KeysOfRows, Edited
    <3>2. vault[p][RowKey[r]] = NoRow /\ used[p][r] = None
      BY <1>3, <1>4, <3>1
    <3> QED
      BY <3>2 DEF Kept, Sealing, Clear, NoRow
  <2>2. ASSUME NEW p \in Paths
        PROVE  /\ vault[p]["language"] = Clear(used[p]["Language"])
               /\ vault[p]["autolock_secs"] = Clear(used[p]["AutoLock"])
               /\ used[p]["AutoLock"] \in Durations \cup {None}
    <3>1. /\ vault[p]["language"] = NoRow /\ vault[p]["autolock_secs"] = NoRow
          /\ used[p]["Language"] = None /\ used[p]["AutoLock"] = None
      BY <1>3, <1>4, KeysOfRows, Zenon
    <3> QED
      BY <3>1 DEF Clear, NoRow
  <2> QED
    BY <2>1, <2>2 DEF Recorded
<1>6. Sealed
  BY <1>3 DEF Sealed
<1> QED
  BY <1>1, <1>2, <1>5, <1>6 DEF IInv, Durable

---------------------------------------------------------------------------
(* The steps.                                                              *)

LEMMA StartKeeps == ASSUME IInv, NEW p \in Paths, Start(p) PROVE IInv'
<1> USE DEF Start
<1>1. Durable'
  BY DEF IInv, Durable, Shaped, Recorded, Sealed, Fields
<1>2. ~unlocked' /\ editing' = None
  BY DEF IInv, Seated
<1>3. Seated'
  BY <1>2 DEF IInv, Seated
<1>4. Spoken'
  BY <1>2 DEF Spoken
<1>5. ASSUME NEW r \in EditRows, RowField[r] \notin fromEnv' PROVE mem'[RowField[r]] = None
  BY <1>5, LoadsItsKey, Edited
<1>6. InMemory'
  BY <1>2, <1>5 DEF InMemory
<1> QED
  BY <1>1, <1>3, <1>4, <1>6 DEF IInv

LEMMA UnlockedKeeps == ASSUME IInv, NEW b, Unlocked(b) PROVE IInv'
<1> USE DEF Unlocked, load_settings
<1>1. Durable'
  BY DEF IInv, Durable, Shaped, Recorded, Sealed, Fields
<1>2. unlocked' /\ path \in Paths /\ path' = path /\ UNCHANGED <<vault, used, editing, fromEnv>>
  BY DEF IInv, Seated
<1>3. Seated'
  BY <1>2 DEF IInv, Seated
<1>4. /\ get("language") = used[path]["Language"]
      /\ get("autolock_secs") = used[path]["AutoLock"]
      /\ \A r \in EditRows \ KeyRows : get(RowKey[r]) = used[path][r]
      /\ \A r \in EditRows \cap KeyRows : get_secret(RowKey[r]) = NonEmpty(used[path][r])
  <2> Recorded
    BY DEF IInv, Durable
  <2>1. \A v : Clear(v).value = v /\ Clear(v).secret = FALSE
    BY DEF Clear
  <2>2. \A r \in EditRows \ KeyRows : vault[path][RowKey[r]] = Clear(used[path][r])
    BY <1>2 DEF Recorded, Kept
  <2>3. /\ vault[path]["language"] = Clear(used[path]["Language"])
        /\ vault[path]["autolock_secs"] = Clear(used[path]["AutoLock"])
    BY <1>2 DEF Recorded
  <2>4. ASSUME NEW r \in EditRows \cap KeyRows
        PROVE  get_secret(RowKey[r]) = NonEmpty(used[path][r])
    <3>1. vault[path][RowKey[r]] = Sealing(used[path][r])
      BY <1>2 DEF Recorded, Kept
    <3> QED
      BY <3>1 DEF get_secret, Stored, Sealing, NoRow, NonEmpty
  <2> QED
    BY <2>1, <2>2, <2>3, <2>4 DEF get, Stored
<1>5. InMemory'
  <2> SUFFICES ASSUME NEW r \in EditRows \ unsaved', RowField[r] \notin fromEnv PROVE Here(r)'
    BY <1>2 DEF InMemory
  <2>1. LoadKey[RowField[r]] = RowKey[r] /\ RowField[r] \in Fields /\ (RowField[r] \in KeyFields <=> r \in KeyRows)
    BY LoadsItsKey, RowKinds, Edited
  <2>2. RowKey[r] # b
    BY KeysOfRows, Edited DEF Unset
  <2>3. mem'[RowField[r]] = loads(RowField[r], b)
    BY <2>1
  <2>4. CASE r \notin KeyRows
    BY <1>2, <1>4, <2>1, <2>2, <2>3, <2>4 DEF loads, Here
  <2>5. CASE r \in KeyRows /\ mem[RowField[r]] = None
    BY <1>2, <1>4, <2>1, <2>2, <2>3, <2>5 DEF loads, Here
  <2>6. CASE r \in KeyRows /\ mem[RowField[r]] # None
    <3>1. r \notin unsaved
      BY <2>6
    <3>2. Here(r)
      BY <1>2, <2>6, <3>1, RowKinds DEF IInv, InMemory
    <3> QED
      BY <1>2, <2>1, <2>2, <2>3, <2>6, <3>2 DEF loads, Here
  <2> QED
    BY <2>4, <2>5, <2>6
<1>6. Spoken'
  <2>1. shown_in' = locale'
    BY <1>2 DEF IInv, Spoken
  <2>2. "Language" \notin unsaved' /\ used[path]["Language"] # None => locale' = used[path]["Language"]
    BY <1>4, KeysOfRows DEF Unset
  <2>3. "AutoLock" \notin unsaved' /\ used[path]["AutoLock"] # None => autolock' = used[path]["AutoLock"]
    <3>1. used[path]["AutoLock"] \in Durations \cup {None}
      BY <1>2 DEF IInv, Durable, Recorded
    <3> QED
      BY <1>4, <3>1, KeysOfRows DEF Unset, Durations
  <2> QED
    BY <1>2, <2>1, <2>2, <2>3 DEF Spoken
<1> QED
  BY <1>1, <1>3, <1>5, <1>6 DEF IInv

LEMMA LockKeeps == IInv /\ (Lock \/ Quit) => IInv'
<1> SUFFICES ASSUME IInv, Lock \/ Quit PROVE IInv'
  OBVIOUS
<1>1. /\ UNCHANGED <<vault, mem, used, unsaved, fromEnv, locale, shown_in>>
      /\ ~unlocked' /\ editing' = None /\ path' \in {path, None}
  BY DEF Lock, Quit, hist
<1>2. Durable'
  BY <1>1 DEF IInv, Durable, Shaped, Recorded, Sealed
<1>3. Seated' /\ Spoken'
  BY <1>1, Zenon DEF IInv, Seated, Spoken, Lock, Quit
<1>4. InMemory'
  BY <1>1 DEF IInv, InMemory, Here, Seated
<1> QED
  BY <1>2, <1>3, <1>4 DEF IInv

\* A statement about row r that succeeds.
LEMMA StoredIsRecorded ==
  ASSUME Durable, path \in Paths, NEW r \in EditRows \cup {"Language", "AutoLock"}, NEW v,
         r = "AutoLock" => v \in Durations,
         vault' = [vault EXCEPT ![path][KeyOf(r)] = Kept(r, v)],
         used' = [used EXCEPT ![path][r] = v], DOMAIN mem' = DOMAIN mem
  PROVE  Durable'
<1> Shaped /\ Recorded /\ Sealed
  BY DEF Durable
<1>1. KeyOf(r) \in SettingKeys
  BY KeysOfRows, Edited
<1>2. Shaped'
  BY <1>1 DEF Shaped
<1>3. \A p \in Paths, k \in SettingKeys :
          vault'[p][k] = IF p = path /\ k = KeyOf(r) THEN Kept(r, v) ELSE vault[p][k]
  BY <1>1 DEF Shaped
<1>4. \A p \in Paths, s \in EditRows \cup {"Language", "AutoLock"} :
          used'[p][s] = IF p = path /\ s = r THEN v ELSE used[p][s]
  BY DEF Shaped
<1>5. \A s \in EditRows \cup {"Language", "AutoLock"} :
          KeyOf(s) \in SettingKeys /\ (KeyOf(s) = KeyOf(r) => s = r)
  BY KeysOfRows, KeysDiffer, Edited
<1>6. "Language" \notin KeyRows /\ "AutoLock" \notin KeyRows
  BY DEF KeyRows
<1>7. ASSUME NEW p \in Paths, NEW s \in EditRows \cup {"Language", "AutoLock"},
             vault[p][KeyOf(s)] = Kept(s, used[p][s])
      PROVE  vault'[p][KeyOf(s)] = Kept(s, used'[p][s])
  BY <1>3, <1>4, <1>5, <1>7
<1>8. Recorded'
  <2> SUFFICES ASSUME NEW p \in Paths
               PROVE  /\ \A s \in EditRows : vault'[p][RowKey[s]] = Kept(s, used'[p][s])
                      /\ vault'[p]["language"] = Clear(used'[p]["Language"])
                      /\ vault'[p]["autolock_secs"] = Clear(used'[p]["AutoLock"])
                      /\ used'[p]["AutoLock"] \in Durations \cup {None}
    BY DEF Recorded
  <2>1. \A s \in EditRows : vault'[p][RowKey[s]] = Kept(s, used'[p][s])
    BY <1>7, KeysOfRows, Edited DEF Recorded
  <2>2. /\ vault'[p]["language"] = Clear(used'[p]["Language"])
        /\ vault'[p]["autolock_secs"] = Clear(used'[p]["AutoLock"])
    BY <1>6, <1>7, KeysOfRows DEF Recorded, Kept
  <2>3. used'[p]["AutoLock"] \in Durations \cup {None}
    BY <1>4 DEF Recorded
  <2> QED
    BY <2>1, <2>2, <2>3
<1>9. Sealed'
  <2>1. Kept(r, v) # NoRow => Kept(r, v).secret = Secret(KeyOf(r))
    <3>1. r \in KeyRows <=> Secret(KeyOf(r))
      BY <1>6, RowKinds, KeysOfRows, Edited
    <3>2. Secret(KeyOf(r)) \in BOOLEAN
      BY DEF Secret
    <3> QED
      BY <3>1, <3>2 DEF Kept, Sealing, Clear
  <2> QED
    BY <1>3, <2>1 DEF Sealed
<1> QED
  BY <1>2, <1>8, <1>9 DEF Durable

\* What a handler did with the store, either way.
LEMMA StoreKeeps ==
  ASSUME Durable, path \in Paths, NEW r \in EditRows \cup {"Language", "AutoLock"}, NEW v,
         r = "AutoLock" => v \in Durations, DOMAIN mem' = DOMAIN mem,
         Store(r, [vault EXCEPT ![path][KeyOf(r)] = Kept(r, v)], v)
  PROVE  /\ Durable'
         /\ \A s \in EditRows \cup {"Language", "AutoLock"} :
               s # r => used'[path][s] = used[path][s] /\ (s \in unsaved' <=> s \in unsaved)
         /\ r \in unsaved' \/ used'[path][r] = v
<1> Shaped
  BY DEF Durable
<1>1. CASE /\ vault' = [vault EXCEPT ![path][KeyOf(r)] = Kept(r, v)]
           /\ used' = [used EXCEPT ![path][r] = v]
           /\ unsaved' = unsaved \ {r}
  <2>1. Durable'
    BY <1>1, StoredIsRecorded
  <2> QED
    BY <1>1, <2>1 DEF Shaped
<1>2. CASE unsaved' = unsaved \cup {r} /\ UNCHANGED <<vault, used>>
  BY <1>2 DEF Durable, Shaped, Recorded, Sealed
<1> QED
  BY <1>1, <1>2 DEF Store

LEMMA ApplyKeeps == ASSUME IInv, NEW v, ApplyText(v) PROVE IInv'
<1> USE DEF ApplyText
<1>1. /\ editing \in EditRows /\ unlocked /\ path \in Paths /\ Durable /\ editing' = None
      /\ UNCHANGED <<path, unlocked, locale, shown_in, autolock>>
  BY DEF IInv, Seated
<1>2. CASE UNCHANGED <<vault, mem, used, unsaved, fromEnv>>
  <2>1. Durable' /\ Seated'
    BY <1>1, <1>2 DEF IInv, Durable, Shaped, Recorded, Sealed, Seated
  <2>2. InMemory' /\ Spoken'
    BY <1>1, <1>2 DEF IInv, InMemory, Here, Spoken
  <2> QED
    BY <2>1, <2>2 DEF IInv
<1>3. ASSUME mem' = [mem EXCEPT ![RowField[editing]] = NonEmpty(v)],
             Store(editing, [vault EXCEPT ![path][KeyOf(editing)] = Kept(editing, v)], v),
             fromEnv' \in {fromEnv, fromEnv \ {RowField[editing]}}
      PROVE  IInv'
  <2>1. DOMAIN mem' = DOMAIN mem /\ editing # "AutoLock" /\ editing # "Language"
    BY <1>1, <1>3, Edited DEF AllRows
  <2>2. /\ Durable'
        /\ \A s \in EditRows \cup {"Language", "AutoLock"} :
              s # editing => used'[path][s] = used[path][s] /\ (s \in unsaved' <=> s \in unsaved)
        /\ editing \in unsaved' \/ used'[path][editing] = v
    BY <1>1, <1>3, <2>1, StoreKeeps
  <2>3. Seated'
    BY <1>1 DEF IInv, Seated
  <2>4. Spoken'
    BY <1>1, <2>1, <2>2 DEF IInv, Spoken
  <2>5. InMemory'
    <3> SUFFICES ASSUME NEW r \in EditRows \ unsaved', RowField[r] \notin fromEnv' PROVE Here(r)'
      BY DEF InMemory
    <3>1. CASE r = editing
      <4>1. RowField[r] \in DOMAIN mem
        BY LoadsItsKey, Edited DEF IInv, Durable, Shaped
      <4> QED
        BY <1>1, <1>3, <2>2, <3>1, <4>1 DEF Here
    <3>2. CASE r # editing
      <4>1. RowField[r] # RowField[editing]
        BY <1>1, <3>2, FieldsDiffer, Edited
      <4>2. Here(r)
        BY <1>1, <1>3, <2>2, <3>2, <4>1 DEF IInv, InMemory, Seated
      <4> QED
        BY <1>1, <1>3, <2>2, <3>2, <4>1, <4>2 DEF Here
    <3> QED
      BY <3>1, <3>2
  <2> QED
    BY <2>2, <2>3, <2>4, <2>5 DEF IInv
<1>4. KeyOf(editing) = RowKey[editing]
  BY <1>1, KeysOfRows, Edited
<1>5. CASE editing \in UrlRows /\ set_node_url(editing, v) /\ UNCHANGED fromEnv
  <2>1. Kept(editing, v) = Clear(v)
    BY <1>5, RowKinds DEF Kept
  <2> QED
    BY <1>2, <1>3, <1>4, <1>5, <2>1 DEF set_node_url, set, Clear
<1>6. CASE /\ editing \in KeyRows /\ v \in Keys \cup {Empty} /\ set_api_key(editing, v)
           /\ fromEnv' = fromEnv \ {RowField[editing]}
  <2>1. Kept(editing, v) = IF v = Empty THEN NoRow ELSE [secret |-> TRUE, value |-> v]
    BY <1>6, TypedAssumption DEF Kept, Sealing
  <2> QED
    BY <1>3, <1>4, <1>6, <2>1 DEF set_api_key, set_secret
<1> QED
  BY <1>5, <1>6

\* The two settings that are stepped through.
LEMMA CycleKeeps ==
  ASSUME IInv, CycleAutoLock \/ \E forward \in BOOLEAN : CycleLanguage(forward)
  PROVE  IInv'
<1>1. /\ unlocked /\ path \in Paths /\ Durable
      /\ UNCHANGED <<path, mem, unlocked, editing, fromEnv>>
  BY DEF IInv, Seated, CycleAutoLock, CycleLanguage
<1>2. Seated'
  BY <1>1 DEF IInv, Seated
<1>3. \A v : Kept("Language", v) = Clear(v) /\ Kept("AutoLock", v) = Clear(v)
  BY DEF Kept, KeyRows
<1>4. ASSUME NEW r \in {"Language", "AutoLock"},
             \A s \in EditRows \cup {"Language", "AutoLock"} :
               s # r => used'[path][s] = used[path][s] /\ (s \in unsaved' <=> s \in unsaved)
      PROVE  InMemory'
  <2>1. \A s \in EditRows : s # r
    BY Edited DEF AllRows
  <2> QED
    BY <1>1, <1>4, <2>1 DEF IInv, InMemory, Here
<1>5. ASSUME NEW forward \in BOOLEAN, CycleLanguage(forward) PROVE IInv'
  <2>1. PICK v : /\ v = locale' /\ shown_in' = v /\ autolock' = autolock
                 /\ Store("Language", [vault EXCEPT ![path][KeyOf("Language")] = Kept("Language", v)], v)
    BY <1>3, <1>5, KeysOfRows DEF CycleLanguage, set, Clear
  <2>2. /\ Durable'
        /\ \A s \in EditRows \cup {"Language", "AutoLock"} :
              s # "Language" => used'[path][s] = used[path][s] /\ (s \in unsaved' <=> s \in unsaved)
        /\ "Language" \in unsaved' \/ used'[path]["Language"] = v
    BY <1>1, <2>1, StoreKeeps
  <2>3. Spoken'
    BY <1>1, <2>1, <2>2 DEF IInv, Spoken
  <2> QED
    BY <1>2, <1>4, <2>2, <2>3 DEF IInv
<1>6. CASE CycleAutoLock
  <2>1. PICK v \in Durations :
                 /\ v = autolock' /\ UNCHANGED <<locale, shown_in>>
                 /\ Store("AutoLock", [vault EXCEPT ![path][KeyOf("AutoLock")] = Kept("AutoLock", v)], v)
    <3>1. \A m : NextMinutes(m) * 60 \in Durations
      BY DEF NextMinutes, Durations
    <3> QED
      BY <1>3, <1>6, <3>1, KeysOfRows DEF CycleAutoLock, set, Clear
  <2>2. /\ Durable'
        /\ \A s \in EditRows \cup {"Language", "AutoLock"} :
              s # "AutoLock" => used'[path][s] = used[path][s] /\ (s \in unsaved' <=> s \in unsaved)
        /\ "AutoLock" \in unsaved' \/ used'[path]["AutoLock"] = v
    BY <1>1, <2>1, StoreKeeps
  <2>3. Spoken'
    BY <1>1, <2>1, <2>2 DEF IInv, Spoken
  <2> QED
    BY <1>2, <1>4, <2>2, <2>3 DEF IInv
<1> QED
  BY <1>5, <1>6

LEMMA StepKeeps == IInv /\ [Next]_vars => IInv'
<1> SUFFICES ASSUME IInv, [Next]_vars PROVE IInv'
  OBVIOUS
<1>1. ASSUME UNCHANGED <<path, vault, mem, locale, shown_in, autolock, unlocked, used, unsaved, fromEnv>>,
             editing' # None => unlocked /\ editing' \in EditRows
      PROVE  IInv'
  <2>1. Durable'
    BY <1>1 DEF IInv, Durable, Shaped, Recorded, Sealed
  <2>2. Seated' /\ Spoken'
    BY <1>1 DEF IInv, Seated, Spoken
  <2>3. InMemory'
    BY <1>1 DEF IInv, InMemory, Here
  <2> QED
    BY <2>1, <2>2, <2>3 DEF IInv
<1>2. CASE \E p \in Paths : Start(p)
  BY <1>2, StartKeeps
<1>3. CASE \E b : Unlocked(b)
  BY <1>3, UnlockedKeeps
<1>4. CASE Lock \/ Quit
  BY <1>4, LockKeeps
<1>5. CASE (\E r \in EditRows : BeginEdit(r)) \/ CancelEdit
  BY <1>1, <1>5 DEF BeginEdit, CancelEdit, hist
<1>6. CASE \E v : ApplyText(v)
  BY <1>6, ApplyKeeps
<1>7. CASE CycleAutoLock \/ \E forward \in BOOLEAN : CycleLanguage(forward)
  BY <1>7, CycleKeeps
<1>8. CASE UNCHANGED vars
  BY <1>1, <1>8 DEF vars, app, hist, IInv, Seated
<1> QED
  BY <1>2, <1>3, <1>4, <1>5, <1>6, <1>7, <1>8 DEF Next

---------------------------------------------------------------------------
(* Theorems.                                                               *)

\* The invariant is inductive.
THEOREM Invariance == Spec => []IInv
  BY Initially, StepKeeps, PTL DEF Spec

\* What a row was set to is shown, kept, sealed if it is a credential, and given to the
\* clients of its chains, for any vaults and values.
THEOREM WhatIsSetIsUsed == Spec => []SetIsUsed
<1> SUFFICES ASSUME IInv PROVE SetIsUsed
  BY Invariance, PTL
<1>1. ASSUME unlocked, NEW r \in EditRows \ unsaved, RowField[r] \notin fromEnv
      PROVE  /\ setting_value(r) = NonEmpty(used[path][r])
             /\ \A c \in Serves[r] : Given(r, c) = NonEmpty(used[path][r])
  <2>1. mem[RowField[r]] = NonEmpty(used[path][r])
    BY <1>1 DEF IInv, InMemory, Here, Seated
  <2>2. NonEmpty(mem[RowField[r]]) = mem[RowField[r]]
    BY <2>1, TypedAssumption DEF NonEmpty
  <2>3. ASSUME NEW c \in Serves[r] PROVE Given(r, c) = mem[RowField[r]]
    <3>1. CASE r \in UrlRows
      <4>1. r \notin KeyRows /\ r # "EtherscanKey"
        BY <3>1, RowKinds DEF KeyRows
      <4> QED
        BY <2>3, <3>1, <4>1, ServedRead DEF Given, chain_client, for_chain_with, Client
    <3>2. CASE r = "EtherscanKey"
      BY <2>2, <2>3, <3>2, ServedRead DEF Given, chain_client, for_chain_with, Client
    <3>3. CASE r \in KeyRows \ {"EtherscanKey"}
      BY <2>2, <2>3, <3>3, ServedRead DEF Given, chain_client, for_chain_with, Client
    <3> QED
      BY <3>1, <3>2, <3>3, RowKinds, Edited
  <2> QED
    BY <2>1, <2>3 DEF setting_value
<1>2. path # None => shown_in = locale
  BY DEF IInv, Spoken
<1>3. \A p \in Paths, k \in SettingKeys : vault[p][k] # NoRow => vault[p][k].secret = Secret(k)
  BY DEF IInv, Durable, Sealed
<1>4. unlocked => /\ \/ used[path]["Language"] = None \/ "Language" \in unsaved
                     \/ locale = used[path]["Language"]
                  /\ \/ used[path]["AutoLock"] = None \/ "AutoLock" \in unsaved
                     \/ autolock = used[path]["AutoLock"]
  BY DEF IInv, Spoken
<1> QED
  BY <1>1, <1>2, <1>3, <1>4 DEF SetIsUsed

\* Nothing that is typed on a row reaches the client of a chain the row is not for.
THEOREM TypedForItsChains == Spec => NobodyElses
<1>1. ASSUME IInv, [Next]_vars, NEW r \in EditRows, NEW c \in ChainIds, editing = r, c \notin Serves[r]
      PROVE  chain_client(c)' = chain_client(c)
  <2>1. editing # None /\ unlocked /\ path # None /\ r \in AllRows
    BY <1>1, RowAssumption, Edited DEF IInv, Seated
  <2>2. CASE UNCHANGED mem
    BY <2>2 DEF chain_client
  <2>3. CASE \E x : mem' = [mem EXCEPT ![RowField[r]] = x]
    <3>1. DOMAIN mem = Fields
      BY <1>1 DEF IInv, Durable, Shaped
    <3>2. c \in DOMAIN UrlField => mem'[UrlField[c]] = mem[UrlField[c]]
      BY <1>1, <2>1, <2>3, ReadServed
    <3>3. c \in DOMAIN KeyField => mem'[KeyField[c]] = mem[KeyField[c]]
      BY <1>1, <2>1, <2>3, ReadServed
    <3>4. c \in Evm => mem'["etherscan_key"] = mem["etherscan_key"]
      <4>1. "EtherscanKey" \in AllRows
        BY DEF AllRows
      <4>2. c \in Evm => RowField[r] # "etherscan_key"
        BY <1>1, <2>1, <4>1, FieldsDiffer, ServedRead
      <4> QED
        BY <2>3, <4>2
    <3> QED
      BY <3>2, <3>3, <3>4 DEF chain_client, for_chain_with, Client
  <2>4. CASE Next
    <3>1. CASE \E v : ApplyText(v)
      BY <1>1, <2>2, <2>3, <3>1 DEF ApplyText, set_node_url, set_api_key
    <3>2. CASE Lock \/ Quit \/ CancelEdit \/ \E b \in EditRows : BeginEdit(b)
      BY <2>2, <3>2 DEF Lock, Quit, CancelEdit, BeginEdit
    <3>3. CASE (\E p \in Paths : Start(p)) \/ \E b : Unlocked(b)
      BY <2>1, <3>3 DEF Start, Unlocked
    <3>4. CASE CycleAutoLock \/ \E forward \in BOOLEAN : CycleLanguage(forward)
      BY <1>1, <2>1, <3>4 DEF CycleAutoLock, CycleLanguage
    <3> QED
      BY <2>4, <3>1, <3>2, <3>3, <3>4 DEF Next
  <2>5. CASE UNCHANGED vars
    BY <2>2, <2>5 DEF vars, app
  <2> QED
    BY <1>1, <2>4, <2>5
<1>2. IInv /\ [Next]_vars =>
          [\A r \in EditRows, c \in ChainIds :
             /\ editing = r /\ c \notin Serves[r]
             => chain_client(c)' = chain_client(c)]_vars
  BY <1>1
<1> QED
  BY <1>2, Invariance, PTL DEF Spec, NobodyElses
=============================================================================
