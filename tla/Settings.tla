------------------------------ MODULE Settings ------------------------------
(***************************************************************************)
(* The settings screen and what it is for: values kept in memory by App,   *)
(* in the vault by neko-store/src/repo/settings.rs, and used by the client *)
(* of each chain (neko-tui/src/app.rs, keys.rs, nav.rs).                   *)
(*                                                                         *)
(* A row of the screen goes through four tables of the source: the key it  *)
(* is stored under, the field it is kept in and shown from, the key that   *)
(* field is loaded from, and the fields a chain's client reads.            *)
(***************************************************************************)
EXTENDS Integers

CONSTANTS Paths,       \* vaults
          EditRows,    \* the rows a run edits
          Urls, Keys,  \* what may be typed: node URLs, API keys
          None, Empty,
          Bad,         \* a URL without a scheme
          Locales,     \* how many LOCALES there are
          Vars,        \* API keys given in the environment, by field
          MaxEdits, MaxLaunches, MaxFaults

ASSUME BoundAssumption == {MaxEdits, MaxLaunches, MaxFaults} \subseteq Nat
ASSUME TypedAssumption == /\ {None, Empty, Bad} \cap (Urls \cup Keys) = {}
                          /\ None # Empty /\ Empty # Bad /\ Bad # None
                         /\ None \notin Int

KeyRows == {"ApiKey", "BscApiKey", "EtherscanKey", "TonApiKey"}

\* set_node_url and the set_..._key methods: the settings key of a row.
RowKey == [NodeUrl |-> "node_url", SolanaRpc |-> "solana_rpc",
    BitcoinApi |-> "bitcoin_api", EthRpc |-> "eth_rpc",
    PolygonRpc |-> "polygon_rpc", BaseRpc |-> "base_rpc",
    ArbitrumRpc |-> "arbitrum_rpc", OptimismRpc |-> "optimism_rpc",
    AvalancheRpc |-> "avalanche_rpc", HyperEvmRpc |-> "hyperevm_rpc",
    MantleRpc |-> "mantle_rpc", LineaRpc |-> "linea_rpc",
    ZkSyncEraRpc |-> "zksync_era_rpc", ScrollRpc |-> "scroll_rpc",
    AptosApi |-> "aptos_api", SuiApi |-> "sui_api", TonApi |-> "ton_api",
    ApiKey |-> "trongrid_api_key", BscApiKey |-> "bsc_api_key",
    EtherscanKey |-> "etherscan_key", TonApiKey |-> "ton_api_key"]

ASSUME RowAssumption == EditRows \subseteq DOMAIN RowKey /\ None \notin EditRows

SettingKeys == {RowKey[r] : r \in DOMAIN RowKey} \cup {"language", "autolock_secs"}

\* The field of App those functions leave the value in, which is named after
\* its key but for one.
RowField == [r \in DOMAIN RowKey |->
                IF r = "ApiKey" THEN "api_key" ELSE RowKey[r]]
Fields   == {RowField[r] : r \in DOMAIN RowKey}

\* load_settings: the key each field is read from.
LoadKey == [f \in Fields |-> IF f = "api_key" THEN "trongrid_api_key" ELSE f]

\* chain_client: the fields a chain's client takes its server and key from.
UrlField == [Tron |-> "node_url", Solana |-> "solana_rpc",
    Bitcoin |-> "bitcoin_api", Ethereum |-> "eth_rpc",
    Polygon |-> "polygon_rpc", Base |-> "base_rpc",
    Arbitrum |-> "arbitrum_rpc", Optimism |-> "optimism_rpc",
    Avalanche |-> "avalanche_rpc", HyperEvm |-> "hyperevm_rpc",
    Mantle |-> "mantle_rpc", Linea |-> "linea_rpc",
    ZkSyncEra |-> "zksync_era_rpc", Scroll |-> "scroll_rpc",
    Ton |-> "ton_api", Aptos |-> "aptos_api", Sui |-> "sui_api"]

KeyField == [Tron |-> "api_key", Bsc |-> "bsc_api_key",
    Ethereum |-> "bsc_api_key", Ton |-> "ton_api_key"]

ChainIds  == DOMAIN UrlField \cup {"Bsc"}
KeyFields == {RowField[r] : r \in KeyRows}

VARIABLES
    path,      \* the vault this process was started on
    vault,     \* table settings, by vault and key: [secret, value]; None: no row
    mem,       \* the fields of App
    locale,    \* App.locale, by its place in LOCALES, from 1
    shown_in,  \* the process-wide locale that t() reads
    autolock,  \* in seconds
    unlocked, editing,
    used,      \* history: by vault and row, what the user last set
    unsaved,   \* history: rows whose last write, or read, failed
    fromEnv,     \* history: fields that still hold what the environment gave
    edits, launches, faults

app  == <<mem, locale, shown_in, autolock, unlocked, editing>>
hist == <<used, unsaved, fromEnv, edits, launches, faults>>
vars == <<path, vault, app, hist>>

NoRow   == [secret |-> FALSE, value |-> None]
Stored(k) == vault[path][k]
UrlRows == DOMAIN RowKey \ KeyRows
KeyOf(r) == CASE r = "Language" -> "language"
              [] r = "AutoLock" -> "autolock_secs"
              [] OTHER          -> RowKey[r]

\* settings::set and set_secret: a row is one or the other, and an empty
\* credential is a deleted row.
set(k, v)        == [vault EXCEPT ![path][k] = [secret |-> FALSE, value |-> v]]
set_secret(k, v) == [vault EXCEPT ![path][k] =
                        IF v = Empty THEN NoRow ELSE [secret |-> TRUE, value |-> v]]

\* settings::get and get_secret.
get(k)        == IF Stored(k).secret THEN None ELSE Stored(k).value
get_secret(k) == IF Stored(k).secret THEN Stored(k).value ELSE None

NonEmpty(v) == IF v = Empty THEN None ELSE v

\* The chains of the EVM, as far as their clients go.
Evm == ChainIds \ {"Tron", "Solana", "Ton", "Bitcoin", "Sui", "Aptos"}

\* What a client talks to, and with which credentials; no URL is the chain's own
\* default.  Only an EVM chain's history asks Etherscan, and what the chain's coin is
\* worth is asked of a default node, whatever the settings are.
Client(c, url, key, etherscan) ==
    [chain |-> c, url |-> url, key |-> key, etherscan |-> etherscan]

for_chain_with(c, url, key, etherscan) ==
    Client(c, url,
           IF c \in Evm \cup {"Tron", "Ton"} THEN NonEmpty(key) ELSE None,
           IF c \in Evm THEN NonEmpty(etherscan) ELSE None)

\* Mutant: two chains are given one node.
chain_client_Shared(c) ==
    for_chain_with(c, IF c = "Linea" THEN mem["mantle_rpc"]
                      ELSE IF c \in DOMAIN UrlField THEN mem[UrlField[c]] ELSE None,
                   IF c \in DOMAIN KeyField THEN mem[KeyField[c]] ELSE None,
                   mem["etherscan_key"])

\* Each chain is given its own node and key, and the Etherscan key whatever it is.
chain_client(c) ==
    for_chain_with(c, IF c \in DOMAIN UrlField THEN mem[UrlField[c]] ELSE None,
                   IF c \in DOMAIN KeyField THEN mem[KeyField[c]] ELSE None,
                   mem["etherscan_key"])

setting_value(r) == mem[RowField[r]]
----------------------------------------------------------------------------
Row0     == [k \in SettingKeys |-> NoRow]
Unset    == [r \in EditRows \cup {"Language", "AutoLock"} |-> None]

Init ==
    /\ path = None
    /\ vault = [p \in Paths |-> Row0]
    /\ mem = [f \in Fields |-> None]
    /\ locale = 1 /\ shown_in = 1 /\ autolock = 300
    /\ unlocked = FALSE /\ editing = None
    /\ used = [p \in Paths |-> Unset]
    /\ unsaved = {} /\ fromEnv = {}
    /\ edits = 0 /\ launches = 0 /\ faults = 0

\* run_with: App::new reads the environment and the system's locale, and
\* main_loop makes t() follow (apply_locale).
Start(p) ==
    /\ path = None /\ launches < MaxLaunches
    /\ path' = p
    /\ launches' = launches + 1
    /\ mem' = [f \in Fields |-> IF f \in DOMAIN Vars THEN Vars[f] ELSE None]
    /\ fromEnv' = DOMAIN Vars
    /\ \E l \in 1..Locales : locale' = l /\ shown_in' = l     \* Locale::detect
    /\ autolock' = 300
    /\ unsaved' = {}
    /\ UNCHANGED <<vault, unlocked, editing, used, edits, faults>>

loads_Slip(f, broken) ==
    LET k == IF f = "scroll_rpc" THEN "linea_rpc" ELSE LoadKey[f]
    IN IF k = broken THEN mem[f]
       ELSE IF f \notin KeyFields THEN NonEmpty(get(k))
       ELSE IF mem[f] # None THEN mem[f] ELSE get_secret(k)

\* load_settings: an error leaves a field as it was, and a key in memory stays.
loads(f, broken) ==
    LET k == LoadKey[f]
    IN IF k = broken THEN mem[f]
       ELSE IF f \notin KeyFields THEN NonEmpty(get(k))
       ELSE IF mem[f] # None THEN mem[f] ELSE get_secret(k)

load_settings(broken) ==
    /\ mem' = [f \in Fields |-> loads(f, broken)]
    /\ LET l == get("language")
       IN locale' = IF l # None /\ broken # "language" THEN l ELSE locale
    /\ shown_in' = IF get("language") # None /\ broken # "language"
                   THEN locale' ELSE shown_in
    /\ LET secs == get("autolock_secs")
       IN autolock' = IF /\ secs # None /\ broken # "autolock_secs"
                         /\ 60 <= secs /\ secs <= 3600
                      THEN secs ELSE autolock

\* AppEvent::Unlocked with a session, of a vault that was opened or just made.
Unlocked(broken) ==
    /\ path # None /\ ~unlocked
    /\ unlocked' = TRUE
    /\ load_settings(broken)
    /\ faults' = IF broken = None THEN faults ELSE faults + 1
    /\ unsaved' = {r \in unsaved :
                      \/ (r \in KeyRows /\ mem[RowField[r]] # None)
                      \/ (r \in {"Language", "AutoLock"} /\ get(KeyOf(r)) = None)}
                  \cup {r \in DOMAIN Unset : KeyOf(r) = broken}
    /\ UNCHANGED <<path, vault, editing, used, fromEnv, edits, launches>>

\* App::lock: the fields stay as they are.
Lock == /\ unlocked
        /\ unlocked' = FALSE /\ editing' = None
        /\ UNCHANGED <<path, vault, mem, locale, shown_in, autolock, hist>>

Quit == /\ path # None
        /\ path' = None /\ unlocked' = FALSE /\ editing' = None
        /\ UNCHANGED <<vault, mem, locale, shown_in, autolock, hist>>

\* ---- on_key_settings ----
\* begin_edit (cycle_setting does the same on these rows); nothing else is
\* heard until the edit ends.
BeginEdit(r) ==
    /\ unlocked /\ editing = None /\ edits < MaxEdits
    /\ editing' = r
    /\ UNCHANGED <<path, vault, mem, locale, shown_in, autolock, unlocked, hist>>

CancelEdit == /\ editing # None
              /\ editing' = None
              /\ UNCHANGED <<path, vault, mem, locale, shown_in, autolock,
                             unlocked, hist>>

\* What a handler does with the store: the statement may fail, and nobody looks.
Store(r, statement, v) ==
    \/ /\ vault' = statement
       /\ used' = [used EXCEPT ![path][r] = v]
       /\ unsaved' = unsaved \ {r}
       /\ UNCHANGED faults
    \/ /\ faults < MaxFaults /\ faults' = faults + 1
       /\ unsaved' = unsaved \cup {r}
       /\ UNCHANGED <<vault, used>>

\* set_node_url: a URL without a scheme is refused, nothing typed is the default.
set_node_url(r, v) ==
    IF v = Bad THEN UNCHANGED <<vault, mem, used, unsaved, faults>>
    ELSE /\ mem' = [mem EXCEPT ![RowField[r]] = NonEmpty(v)]
         /\ Store(r, set(RowKey[r], v), v)

\* set_api_key and its three likes.
set_api_key(r, v) ==
    /\ mem' = [mem EXCEPT ![RowField[r]] = NonEmpty(v)]
    /\ Store(r, set_secret(RowKey[r], v), v)

\* apply_text_setting, on Enter.
ApplyText(v) ==
    /\ editing # None
    /\ \/ /\ editing \in UrlRows /\ v \in Urls \cup {Empty, Bad}
          /\ set_node_url(editing, v)
          /\ UNCHANGED fromEnv
       \/ /\ editing \in KeyRows /\ v \in Keys \cup {Empty}
          /\ set_api_key(editing, v)
          /\ fromEnv' = fromEnv \ {RowField[editing]}
    /\ editing' = None
    /\ edits' = edits + 1
    /\ UNCHANGED <<path, locale, shown_in, autolock, unlocked, launches>>

\* cycle_language and set_language.
CycleLanguage(forward) ==
    /\ unlocked /\ editing = None /\ edits < MaxEdits
    /\ locale' = IF forward THEN (locale % Locales) + 1
                 ELSE ((locale - 2 + Locales) % Locales) + 1
    /\ shown_in' = locale'
    /\ Store("Language", set("language", locale'), locale')
    /\ edits' = edits + 1
    /\ UNCHANGED <<path, mem, autolock, unlocked, editing, fromEnv, launches>>

\* The AutoLock arm of cycle_setting; either direction goes on to the next.
NextMinutes(m) == CASE m = 1 -> 5 [] m = 5 -> 15 [] m = 15 -> 30
                    [] m = 30 -> 60 [] OTHER -> 1

CycleAutoLock ==
    /\ unlocked /\ editing = None /\ edits < MaxEdits
    /\ autolock' = NextMinutes(autolock \div 60) * 60
    /\ Store("AutoLock", set("autolock_secs", autolock'), autolock')
    /\ edits' = edits + 1
    /\ UNCHANGED <<path, mem, locale, shown_in, unlocked, editing, fromEnv,
                   launches>>

Next ==
    \/ \E p \in Paths : Start(p)
    \/ Unlocked(None)
    \/ faults < MaxFaults /\ \E b \in SettingKeys : Unlocked(b)
    \/ Lock \/ Quit
    \/ \E r \in EditRows : BeginEdit(r)
    \/ CancelEdit
    \/ \E v \in Urls \cup Keys \cup {Empty, Bad} : ApplyText(v)
    \/ \E forward \in BOOLEAN : CycleLanguage(forward)
    \/ CycleAutoLock

Spec == Init /\ [][Next]_vars

----------------------------------------------------------------------------
Secret(k) == \E r \in KeyRows : RowKey[r] = k

\* The chains a row is labelled for.
Serves == [NodeUrl |-> {"Tron"}, SolanaRpc |-> {"Solana"},
    BitcoinApi |-> {"Bitcoin"}, EthRpc |-> {"Ethereum"},
    PolygonRpc |-> {"Polygon"}, BaseRpc |-> {"Base"},
    ArbitrumRpc |-> {"Arbitrum"}, OptimismRpc |-> {"Optimism"},
    AvalancheRpc |-> {"Avalanche"}, HyperEvmRpc |-> {"HyperEvm"},
    MantleRpc |-> {"Mantle"}, LineaRpc |-> {"Linea"},
    ZkSyncEraRpc |-> {"ZkSyncEra"}, ScrollRpc |-> {"Scroll"},
    AptosApi |-> {"Aptos"}, SuiApi |-> {"Sui"}, TonApi |-> {"Ton"},
    ApiKey |-> {"Tron"}, BscApiKey |-> {"Bsc", "Ethereum"},
    EtherscanKey |-> Evm, TonApiKey |-> {"Ton"}]

Given(r, c) == LET client == chain_client(c)
               IN IF r = "EtherscanKey" THEN client.etherscan
                  ELSE IF r \in KeyRows THEN client.key ELSE client.url

\* What the user set on a row is what the row shows and what the clients of
\* its chains are given, now and after any locks, restarts and changes of the
\* vault - unless a write failed, or the environment gave a key.  So are the
\* language, which every line is written in, and the lock timeout.  A credential
\* is only ever stored sealed, everything else in the clear (settings.rs).
SetIsUsed ==
    /\ path # None => shown_in = locale
    /\ \A p \in Paths, k \in SettingKeys :
         vault[p][k] # NoRow => vault[p][k].secret = Secret(k)
    /\ unlocked =>
         /\ \A r \in EditRows \ unsaved : RowField[r] \notin fromEnv =>
               LET v == NonEmpty(used[path][r])
               IN /\ setting_value(r) = v
                  /\ \A c \in Serves[r] : Given(r, c) = v
         /\ \/ used[path]["Language"] = None \/ "Language" \in unsaved
            \/ locale = used[path]["Language"]
         /\ \/ used[path]["AutoLock"] = None \/ "AutoLock" \in unsaved
            \/ autolock = used[path]["AutoLock"]

\* No client is given a credential or a node that was set for another chain.
NobodyElses ==
    [][\A r \in EditRows, c \in ChainIds :
         /\ editing = r /\ c \notin Serves[r]
         => chain_client(c)' = chain_client(c)]_vars

=============================================================================
