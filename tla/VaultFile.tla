----------------------------- MODULE VaultFile -----------------------------
(***************************************************************************)
(* The life of one vault file and of the process that uses it:             *)
(* neko-core/src/session.rs over neko-store (open.rs, vault_row.rs,        *)
(* migrate.rs).                                                            *)
(*                                                                         *)
(* Every database statement that commits on its own is a step of its own,  *)
(* so that the process may die, or the statement fail, between any two of  *)
(* them.  Cryptography is ideal: keys::stretch is injective in the         *)
(* credential, so the file key and the key-encryption key of a credential  *)
(* are the credential itself, and a wrap is opened by the credential that  *)
(* made it and by no other.                                                *)
(***************************************************************************)
EXTENDS Naturals

CONSTANTS Emails,
          Strong,        \* passwords password::estimate accepts
          Weak,          \* passwords it refuses
          MasterKeys,    \* what keys::new_mk may draw
          None,
          CURRENT_SCHEMA,
          MaxFaults     \* bound: how many deaths and failed statements

Passwords == Strong \cup Weak
Creds     == [email : Emails, pw : Passwords]
Wraps     == [kek : Creds, mk : MasterKeys]
Works     == [kek : Creds, mk : MasterKeys \cup {None}]
Sessions  == [mk : MasterKeys, email : Emails, conn : BOOLEAN]

ASSUME SchemaAssumption == CURRENT_SCHEMA \in Nat \ {0}
ASSUME BoundAssumption  == MaxFaults \in Nat
ASSUME NoneAssumption   == /\ None \notin Creds \cup Works \cup Sessions
                           /\ None \notin MasterKeys
ASSUME DisjointAssumption == Strong \cap Weak = {}

VARIABLES
    file,       \* what is at the path: "absent", "empty" or "keyed"
    fileKey,    \* the credential SQLCipher keyed the file with
    version,    \* PRAGMA user_version
    wrapped,    \* vault.wrapped_mk, None while the vault row does not exist
    prev,       \* vault.wrapped_mk_prev
    rewrap,     \* vault.rewrap_state
    verifier,   \* vault.verifier: pins the master key
    session,    \* the Session of this process
    pc,         \* the call in progress, and how far it is
    work,       \* the wrap that call works with: its credential, its master key
    reply,      \* how the last call ended: which call, which result
    restaged,   \* history: a wrap was staged over one that never took effect
    faults     \* how often the process died

row  == <<wrapped, prev, rewrap, verifier>>
disk == <<file, fileKey, version, row>>
vars == <<disk, session, pc, work, reply, restaged, faults>>

Calls   == {"none", "create", "unlock", "verify", "change"}
Results == {"ok", "WrongCredentials", "WeakPassword", "AlreadyExists", "NotFound",
            "TooSmall", "VaultBlobCorrupt", "Locked", "StoreError"}

Answer(call, result) == reply' = <<call, result>>

HasRow == wrapped # None

\* Mutant: the staged predecessor is never tried.
UnwrapMk_CurrentOnly(c) == IF wrapped.kek = c THEN wrapped.mk ELSE None

\* keys::unwrap_mk of wrapped_mk, and only if that fails of wrapped_mk_prev: the
\* master key credential c gets out of the row.
UnwrapMk(c) ==
    CASE wrapped.kek = c                                    -> wrapped.mk
      [] wrapped.kek # c /\ prev # None /\ prev.kek = c     -> prev.mk
      [] wrapped.kek # c /\ (prev # None => prev.kek # c)   -> None

\* Mutant: a version from the future is not refused.
Accepts_AnyVersion(c) == file = "keyed" /\ fileKey = c

\* SQLCipher accepts the key, and migrate::run does not refuse the version.
Accepts(c) == file = "keyed" /\ fileKey = c /\ version <= CURRENT_SCHEMA

\* Mutant: a row with a change under way is reported as damaged.
RowResult_RefusesRewrap(c) ==
    IF ~HasRow THEN "WrongCredentials"
    ELSE IF rewrap = 1 \/ UnwrapMk(c) = None THEN "VaultBlobCorrupt"
    ELSE "ok"

\* The row of an accepted file, with the migrations done.
RowResult(c) ==
    IF ~HasRow THEN "WrongCredentials"
    ELSE IF UnwrapMk(c) = None THEN "VaultBlobCorrupt"
    ELSE IF UnwrapMk(c) = verifier THEN "ok"
    ELSE "WrongCredentials"

\* Why read_header or open refuse; every error of `open` has one name.
RefusedResult == CASE file = "absent" -> "NotFound"
                   [] file = "empty"  -> "TooSmall"
                   [] file = "keyed"  -> "WrongCredentials"

\* The credentials this file opens for, whatever version it is at.
Openers == {c \in Creds : /\ file = "keyed" /\ fileKey = c /\ HasRow
                          /\ UnwrapMk(c) # None /\ UnwrapMk(c) = verifier}

Absent == /\ file = "absent" /\ fileKey = None /\ version = 0
          /\ wrapped = None /\ prev = None /\ rewrap = 0 /\ verifier = None

\* A vault some build wrote: this one, an older one or, once, a newer one.
Existing == \E c \in [email : Emails, pw : Strong], m \in MasterKeys,
               v \in 1..CURRENT_SCHEMA + 1 :
    /\ file = "keyed" /\ fileKey = c /\ version = v
    /\ wrapped = [kek |-> c, mk |-> m] /\ prev = None /\ rewrap = 0
    /\ verifier = m

Init == /\ Absent \/ Existing
        /\ session = None /\ pc = "idle" /\ work = None
        /\ reply = <<"none", "ok">> /\ restaged = FALSE /\ faults = 0

Idle == pc = "idle"

\* The call ends: nothing is in progress any more.
Return(call, result) == /\ Answer(call, result)
                        /\ pc' = "idle" /\ work' = None

---------------------------------------------------------------------------
(* VaultFile::create.                                                      *)

\* Weak passwords and existing files are refused before anything is written;
\* otherwise the path is claimed with an empty file.
CreateBegin(c) ==
    /\ Idle /\ session = None
    /\ \/ /\ c.pw \in Weak
          /\ Return("create", "WeakPassword")
          /\ UNCHANGED file
       \/ /\ c.pw \in Strong /\ file # "absent"
          /\ Return("create", "AlreadyExists")
          /\ UNCHANGED file
       \/ /\ c.pw \in Strong /\ file = "absent"
          /\ file' = "empty"
          /\ \E m \in MasterKeys : work' = [kek |-> c, mk |-> m]
          /\ pc' = "created"
          /\ UNCHANGED reply
    /\ UNCHANGED <<fileKey, version, row, session, restaged, faults>>

\* The first statement of 0001_init.sql writes page 1, header and all.
CreateFirstPage ==
    /\ pc = "created"
    /\ file' = "keyed" /\ fileKey' = work.kek
    /\ pc' = "schema"
    /\ UNCHANGED <<version, row, session, work, reply, restaged, faults>>

\* 0001 is not one transaction: its last statement sets the version.
CreateSchema ==
    /\ pc = "schema" /\ version = 0
    /\ version' = 1
    /\ UNCHANGED <<file, fileKey, row, session, pc, work, reply, restaged, faults>>

\* migrate::run brings the new schema up to date, then the row is inserted and
\* the session handed out.
CreateInsert ==
    /\ pc = "schema" /\ version = CURRENT_SCHEMA
    /\ wrapped' = work /\ prev' = None /\ rewrap' = 0 /\ verifier' = work.mk
    /\ session' = [mk |-> work.mk, email |-> work.kek.email, conn |-> TRUE]
    /\ Return("create", "ok")
    /\ UNCHANGED <<file, fileKey, version, restaged, faults>>

---------------------------------------------------------------------------
(* VaultFile::unlock.                                                      *)

\* read_header, the key, the schema version.
UnlockBegin(c) ==
    /\ Idle /\ session = None
    /\ \/ /\ Accepts(c)
          /\ pc' = "opening" /\ work' = [kek |-> c, mk |-> None]
          /\ UNCHANGED reply
       \/ /\ ~Accepts(c)
          /\ Return("unlock", RefusedResult)
    /\ UNCHANGED <<disk, session, restaged, faults>>

\* Mutant: the loop does not stop at the current schema.
Migrate_NoStop ==
    /\ pc \in {"schema", "opening"} /\ version # 0
    /\ version' = version + 1
    /\ UNCHANGED <<file, fileKey, row, session, pc, work, reply, restaged, faults>>

\* One migration: its own transaction, then the version is read back.
Migrate ==
    /\ pc \in {"schema", "opening"} /\ version \in 1..CURRENT_SCHEMA - 1
    /\ version' = version + 1
    /\ UNCHANGED <<file, fileKey, row, session, pc, work, reply, restaged, faults>>

\* Version 0 has nothing to migrate and no row; otherwise all is up to date.
UnlockFinish ==
    /\ pc = "opening" /\ version \notin 1..CURRENT_SCHEMA - 1
    /\ LET c == work.kek IN
         /\ session' = IF RowResult(c) = "ok"
                         THEN [mk |-> UnwrapMk(c), email |-> c.email, conn |-> TRUE]
                         ELSE None
         /\ Return("unlock", RowResult(c))
    /\ UNCHANGED <<disk, restaged, faults>>

\* verify_password and reveal_mnemonic prove a password by opening the file
\* again beside the session, whose email they use; any failure is one answer.
Verify(p) ==
    /\ Idle /\ session # None
    /\ LET c == [email |-> session.email, pw |-> p] IN
         Return("verify", IF Accepts(c) /\ RowResult(c) = "ok" THEN "ok"
                          ELSE "WrongCredentials")
    /\ UNCHANGED <<disk, session, restaged, faults>>

---------------------------------------------------------------------------
(* Session::change_password: three statements, each committing alone.      *)

ChangeRefused(p) ==
    /\ Idle /\ session # None
    /\ \/ p \in Weak /\ Return("change", "WeakPassword")
       \/ p \in Strong /\ ~session.conn /\ Return("change", "Locked")
    /\ UNCHANGED <<disk, session, restaged, faults>>

\* Mutant: the new wrap is made over a fresh master key.
StageRewrap_FreshMaster(p) ==
    /\ Idle /\ session # None
    /\ p \in Strong /\ session.conn
    /\ \E m \in MasterKeys :
         LET new == [kek |-> [email |-> session.email, pw |-> p], mk |-> m] IN
            wrapped' = new /\ work' = new
    /\ prev' = wrapped /\ rewrap' = 1
    /\ pc' = "staged"
    /\ restaged' = (restaged \/ wrapped.kek # fileKey)
    /\ UNCHANGED <<file, fileKey, version, verifier, session, reply, faults>>

\* Mutant: the new wrap replaces the old one instead of standing beside it.
StageRewrap_DropsOld(p) ==
    /\ Idle /\ session # None
    /\ p \in Strong /\ session.conn
    /\ LET new == [kek |-> [email |-> session.email, pw |-> p], mk |-> session.mk] IN
         wrapped' = new /\ work' = new
    /\ rewrap' = 1
    /\ pc' = "staged"
    /\ restaged' = (restaged \/ wrapped.kek # fileKey)
    /\ UNCHANGED <<file, fileKey, version, prev, verifier, session, reply, faults>>

\* vault_row::stage_rewrap: the current wrap becomes the previous one, whatever
\* it is and whatever rewrap_state says.
StageRewrap(p) ==
    /\ Idle /\ session # None
    /\ p \in Strong /\ session.conn
    /\ LET new == [kek |-> [email |-> session.email, pw |-> p], mk |-> session.mk] IN
         wrapped' = new /\ work' = new
    /\ prev' = wrapped /\ rewrap' = 1
    /\ pc' = "staged"
    /\ restaged' = (restaged \/ wrapped.kek # fileKey)
    /\ UNCHANGED <<file, fileKey, version, verifier, session, reply, faults>>

\* PRAGMA rekey is atomic: SQLCipher rewrites every page in one transaction.
Rekey ==
    /\ pc = "staged"
    /\ fileKey' = work.kek
    /\ pc' = "rekeyed"
    /\ UNCHANGED <<file, version, row, session, work, reply, restaged, faults>>

\* Mutant: the state column is left behind.
FinishRewrap_KeepsState ==
    /\ pc = "rekeyed"
    /\ prev' = None
    /\ Return("change", "ok")
    /\ UNCHANGED <<file, fileKey, version, wrapped, rewrap, verifier, session, restaged, faults>>

FinishRewrap ==
    /\ pc = "rekeyed"
    /\ prev' = None /\ rewrap' = 0
    /\ Return("change", "ok")
    /\ UNCHANGED <<file, fileKey, version, wrapped, verifier, session, restaged, faults>>

---------------------------------------------------------------------------
(* Failures, locking, death.                                               *)

CallInProgress == CASE pc \in {"created", "schema"} -> "create"
                    [] pc = "opening"               -> "unlock"
                    [] OTHER                        -> "change"

\* A statement fails (disk full, I/O error): the call returns early with what is
\* already committed left in place.  `open` maps every error to one answer.
Fail ==
    /\ ~Idle /\ faults < MaxFaults
    /\ faults' = faults + 1
    /\ Return(CallInProgress,
              IF pc = "opening" THEN "WrongCredentials" ELSE "StoreError")
    /\ UNCHANGED <<disk, session, restaged>>

Lock == /\ Idle /\ session # None /\ session.conn
        /\ session' = [session EXCEPT !.conn = FALSE]
        /\ UNCHANGED <<disk, pc, work, reply, restaged, faults>>

Drop == /\ Idle /\ session # None
        /\ session' = None
        /\ UNCHANGED <<disk, pc, work, reply, restaged, faults>>

\* The process dies and is started again: only the file remains.
Crash == /\ faults < MaxFaults
         /\ faults' = faults + 1
         /\ session' = None /\ pc' = "idle" /\ work' = None
         /\ reply' = <<"none", "ok">>
         /\ UNCHANGED <<disk, restaged>>

Create == \/ \E c \in Creds : CreateBegin(c)
          \/ CreateFirstPage \/ CreateSchema \/ CreateInsert

Unlock == \/ \E c \in Creds : UnlockBegin(c)
          \/ Migrate \/ UnlockFinish

ChangePassword == \/ \E p \in Passwords : ChangeRefused(p) \/ StageRewrap(p)
                  \/ Rekey \/ FinishRewrap

Next == \/ Create \/ Unlock \/ ChangePassword
        \/ \E p \in Passwords : Verify(p)
        \/ Fail \/ Lock \/ Drop \/ Crash

Spec == Init /\ [][Next]_vars


\* Calls run to their end unless the process dies, and a user whose vault would
\* not open tries the right credential again.
Fairness == /\ WF_vars(CreateFirstPage \/ CreateSchema \/ CreateInsert)
            /\ WF_vars(Migrate \/ UnlockFinish)
            /\ WF_vars(Rekey \/ FinishRewrap)
            /\ WF_vars(\E c \in Openers : UnlockBegin(c))

LiveSpec == Spec /\ Fairness

---------------------------------------------------------------------------
(* Properties.                                                             *)

TypeOK == /\ file \in {"absent", "empty", "keyed"}
          /\ fileKey \in Creds \cup {None}
          /\ version \in 0..CURRENT_SCHEMA + 1
          /\ wrapped \in Wraps \cup {None}
          /\ prev \in Wraps \cup {None}
          /\ rewrap \in {0, 1}
          /\ verifier \in MasterKeys \cup {None}
          /\ session \in Sessions \cup {None}
          /\ pc \in {"idle", "created", "schema", "opening", "staged", "rekeyed"}
          /\ work \in Works \cup {None}
          /\ reply \in Calls \X Results
          /\ restaged \in BOOLEAN
          /\ faults \in 0..MaxFaults

\* A vault that was ever completely created opens for exactly one credential,
\* the one the file is keyed with, wherever a password change was interrupted
\* and however often the process died - unless a change was started over one
\* that never took effect (session.rs, change_password and unlock).
StillOpens == HasRow /\ ~restaged => Openers = {fileKey}

\* Whatever happens to passwords, every wrap and every session holds the master
\* key the data is sealed under (session.rs: "MK is untouched").
MasterKept == HasRow => /\ wrapped.mk = verifier
                        /\ prev # None => prev.mk = verifier
                        /\ session # None => session.mk = verifier

\* A vault from a newer build is never written to (migrate.rs: "Refuses to open
\* a database from the future").
FutureUntouched == [][version > CURRENT_SCHEMA => UNCHANGED disk]_vars

\* The staged change shows in the row for exactly as long as both wraps are
\* kept, and only a row that shows it may hold a wrap the file is not keyed
\* with (stage_rewrap, finish_rewrap).
RewrapVisible == HasRow => /\ (rewrap = 1) <=> (prev # None)
                           /\ rewrap = 0 => wrapped.kek = fileKey

\* After any interruption - a half-done migration, a staged change - the owner
\* who keeps presenting the credential gets a session.
OwnerGetsIn == (HasRow /\ version <= CURRENT_SCHEMA) ~> (session # None \/ restaged)

\* The inductive invariant behind the theorems: what each stage of a call has
\* established on disk, and that one of the two wraps is the file's own.
Stages ==
    /\ pc \in {"created", "schema"} => work \in Wraps /\ ~HasRow
    /\ pc = "created" => file = "empty"
    /\ pc = "schema" => file = "keyed" /\ fileKey = work.kek
    /\ pc = "opening" => /\ work # None /\ session = None
                         /\ file = "keyed" /\ fileKey = work.kek
    /\ pc \in {"staged", "rekeyed"} => /\ session # None /\ HasRow
                                       /\ work = wrapped
                                       /\ rewrap = 1
                                       /\ wrapped.kek.email = session.email
    /\ pc = "rekeyed" => fileKey = work.kek

NoRowYet == ~HasRow => /\ prev = None /\ verifier = None /\ rewrap = 0
                       /\ session = None /\ ~restaged

RowKept == HasRow =>
    /\ file = "keyed" /\ verifier # None
    /\ session # None => session.email = fileKey.email
    /\ ~restaged => \/ wrapped.kek = fileKey
                    \/ prev # None /\ prev.kek = fileKey

Keying == /\ file = "keyed" => fileKey # None
          /\ file # "keyed" => fileKey = None /\ version = 0 /\ ~HasRow

\* No call goes beyond read_header and open with a file from the future.
FutureIdle == version > CURRENT_SCHEMA =>
    pc = "idle" /\ session = None /\ file = "keyed"

IInv == TypeOK /\ Stages /\ NoRowYet /\ RowKept /\ Keying /\ MasterKept /\ RewrapVisible
        /\ FutureIdle

\* What a comment says of change_password (session.rs: "An interruption at any
\* point leaves a vault that `VaultFile::unlock` can still open").
InterruptedChangeStillOpens == HasRow => Openers # {}

\* The file keeps the promise of the abstract specification.
Promise == INSTANCE VaultPromise WITH
    opener  <- Openers,
    master  <- verifier,
    holder  <- IF session = None THEN None ELSE session.mk,
    forfeit <- restaged

KeepsPromise == Promise!Spec
=============================================================================
