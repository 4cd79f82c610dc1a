-------------------------- MODULE VaultFileProofs --------------------------
(***************************************************************************)
(* Theorems about VaultFile, for any emails, passwords, master keys,       *)
(* schema and number of faults.                                            *)
(***************************************************************************)
EXTENDS VaultFile, TLAPS

USE DEF Creds, Passwords, Wraps, Works, Sessions

LEMMA NoneApart ==
    /\ None \notin Creds /\ None \notin Wraps /\ None \notin Works
    /\ None \notin Sessions /\ None \notin MasterKeys
BY NoneAssumption

\* Each step keeps the types; the version stays within what migrate.rs accepts
\* because every migration stops at the current schema.
THEOREM InitTypeOK == Init => TypeOK
<1> SUFFICES ASSUME Init PROVE TypeOK
  OBVIOUS
<1> USE SchemaAssumption, BoundAssumption DEF TypeOK, Calls, Results
<1>0. /\ 0 \in 0..CURRENT_SCHEMA + 1 /\ 0 \in 0..MaxFaults
      /\ <<"none", "ok">> \in Calls \X Results
  OBVIOUS
<1>1. CASE Absent
  BY <1>0, <1>1 DEF Init, Absent
<1>2. CASE Existing
  <2> PICK c \in [email : Emails, pw : Strong], m \in MasterKeys, v \in 1..CURRENT_SCHEMA + 1 :
         /\ file = "keyed" /\ fileKey = c /\ version = v
         /\ wrapped = [kek |-> c, mk |-> m] /\ prev = None /\ rewrap = 0
         /\ verifier = m
    BY <1>2 DEF Existing
  <2>1. c \in Creds
    OBVIOUS
  <2>2. wrapped \in Wraps /\ version \in 0..CURRENT_SCHEMA + 1
    BY <2>1
  <2> QED
    BY <1>0, <2>1, <2>2 DEF Init
<1> QED
  BY <1>1, <1>2 DEF Init

LEMMA StepTypeOK == TypeOK /\ Stages /\ [Next]_vars => TypeOK'
<1> SUFFICES ASSUME TypeOK, Stages, [Next]_vars PROVE TypeOK'
  OBVIOUS
<1> USE SchemaAssumption, BoundAssumption DEF TypeOK, Return, Answer, Calls, Results, row, disk, vars, Idle
<1>1. ASSUME NEW c \in Creds, CreateBegin(c) PROVE TypeOK'
  BY <1>1 DEF CreateBegin
<1>2. CASE CreateFirstPage
  BY <1>2 DEF CreateFirstPage, Stages, HasRow
<1>3. CASE CreateSchema
  BY <1>3 DEF CreateSchema
<1>4. CASE CreateInsert
  BY <1>4 DEF CreateInsert, Stages, HasRow
<1>5. ASSUME NEW c \in Creds, UnlockBegin(c) PROVE TypeOK'
  BY <1>5 DEF UnlockBegin, RefusedResult
<1>6. CASE Migrate
  BY <1>6 DEF Migrate
<1>7. CASE UnlockFinish
  BY <1>7 DEF UnlockFinish, RowResult, UnwrapMk, HasRow
<1>8. ASSUME NEW p \in Passwords, Verify(p) PROVE TypeOK'
  BY <1>8 DEF Verify
<1>9. ASSUME NEW p \in Passwords, ChangeRefused(p) PROVE TypeOK'
  BY <1>9 DEF ChangeRefused
<1>10. ASSUME NEW p \in Passwords, StageRewrap(p) PROVE TypeOK'
  BY <1>10 DEF StageRewrap
<1>11. CASE Rekey
  <2>1. work \in Wraps
    BY <1>11, NoneApart DEF Rekey, Stages, HasRow
  <2> QED
    BY <1>11, <2>1 DEF Rekey
<1>12. CASE FinishRewrap
  BY <1>12 DEF FinishRewrap
<1>13. CASE Fail
  BY <1>13 DEF Fail, CallInProgress
<1>14. CASE Lock
  <2>1. session \in Sessions /\ [session EXCEPT !.conn = FALSE] \in Sessions
    BY <1>14, NoneApart DEF Lock
  <2> QED
    BY <1>14, <2>1 DEF Lock
<1>15. CASE Drop
  BY <1>15 DEF Drop
<1>16. CASE Crash
  BY <1>16 DEF Crash
<1>17. CASE UNCHANGED vars
  BY <1>17
<1> QED
  BY <1>1, <1>2, <1>3, <1>4, <1>5, <1>6, <1>7, <1>8, <1>9, <1>10, <1>11, <1>12,
     <1>13, <1>14, <1>15, <1>16, <1>17 DEF Next, Create, Unlock, ChangePassword

\* What IInv adds to the types.
Frame == Stages /\ NoRowYet /\ RowKept /\ Keying /\ MasterKept /\ RewrapVisible
         /\ FutureIdle

LEMMA InitIInv == Init => IInv
<1> SUFFICES ASSUME Init PROVE IInv
  OBVIOUS
<1>1. TypeOK
  BY InitTypeOK
<1>2. CASE Absent
  BY <1>1, <1>2, NoneApart, SchemaAssumption
     DEF Init, Absent, IInv, Stages, NoRowYet, RowKept, Keying, MasterKept, RewrapVisible, FutureIdle, HasRow
<1>3. CASE Existing
  <2> PICK c \in [email : Emails, pw : Strong], m \in MasterKeys, v \in 1..CURRENT_SCHEMA + 1 :
         /\ file = "keyed" /\ fileKey = c /\ version = v
         /\ wrapped = [kek |-> c, mk |-> m] /\ prev = None /\ rewrap = 0
         /\ verifier = m
    BY <1>3 DEF Existing
  <2>1. c \in Creds
    OBVIOUS
  <2>2. wrapped \in Wraps /\ wrapped # None /\ fileKey # None /\ verifier # None
    BY <2>1, NoneApart
  <2> QED
    BY <1>1, <2>1, <2>2
       DEF Init, IInv, Stages, NoRowYet, RowKept, Keying, MasterKept, RewrapVisible, FutureIdle, HasRow
<1> QED
  BY <1>2, <1>3 DEF Init

LEMMA StepIInv == IInv /\ [Next]_vars => IInv'
<1> SUFFICES ASSUME IInv, [Next]_vars PROVE Frame'
  BY StepTypeOK DEF IInv, Frame
<1> USE NoneApart, SchemaAssumption
    DEF IInv, Frame, TypeOK, Stages, NoRowYet, RowKept, Keying, MasterKept, RewrapVisible,
        FutureIdle, HasRow, Return, row, disk, Idle
<1>1. ASSUME NEW c \in Creds, CreateBegin(c) PROVE Frame'
  BY <1>1 DEF CreateBegin
<1>2. CASE CreateFirstPage
  BY <1>2 DEF CreateFirstPage
<1>3. CASE CreateSchema
  BY <1>3 DEF CreateSchema
<1>4. CASE CreateInsert
  BY <1>4 DEF CreateInsert
<1>5. ASSUME NEW c \in Creds, UnlockBegin(c) PROVE Frame'
  BY <1>5 DEF UnlockBegin, Accepts
<1>6. CASE Migrate
  BY <1>6 DEF Migrate
<1>7. CASE UnlockFinish
  BY <1>7 DEF UnlockFinish, RowResult, UnwrapMk
<1>8. ASSUME NEW p \in Passwords, Verify(p) PROVE Frame'
  BY <1>8 DEF Verify
<1>9. ASSUME NEW p \in Passwords, ChangeRefused(p) PROVE Frame'
  BY <1>9 DEF ChangeRefused
<1>10. ASSUME NEW p \in Passwords, StageRewrap(p) PROVE Frame'
  BY <1>10 DEF StageRewrap
<1>11. CASE Rekey
  BY <1>11 DEF Rekey
<1>12. CASE FinishRewrap
  BY <1>12 DEF FinishRewrap
<1>13. CASE Fail
  BY <1>13 DEF Fail
<1>14. CASE Lock
  BY <1>14 DEF Lock
<1>15. CASE Drop
  BY <1>15 DEF Drop
<1>16. CASE Crash
  BY <1>16 DEF Crash
<1>17. CASE UNCHANGED vars
  BY <1>17 DEF vars
<1> QED
  BY <1>1, <1>2, <1>3, <1>4, <1>5, <1>6, <1>7, <1>8, <1>9, <1>10, <1>11, <1>12,
     <1>13, <1>14, <1>15, <1>16, <1>17 DEF Next, Create, Unlock, ChangePassword

\* The inductive invariant of the vault file holds in every reachable state.
THEOREM Invariant == Spec => []IInv
<1>1. Init => IInv
  BY InitIInv
<1>2. IInv /\ [Next]_vars => IInv'
  BY StepIInv
<1> QED
  BY <1>1, <1>2, PTL DEF Spec

\* The state of the file, the calls and the session keep their types.
THEOREM Typing == Spec => []TypeOK
BY Invariant, PTL DEF IInv

LEMMA OpenersAreFileKey == TypeOK => Openers \in {{}, {fileKey}}
BY DEF Openers

LEMMA IInvOpens == IInv => StillOpens
<1> SUFFICES ASSUME IInv, HasRow, ~restaged PROVE Openers = {fileKey}
  BY DEF StillOpens
<1> USE NoneApart DEF IInv
<1>1. /\ file = "keyed" /\ fileKey \in Creds
      /\ wrapped # None /\ verifier # None
      /\ wrapped.mk = verifier /\ (prev # None => prev.mk = verifier)
      /\ wrapped.kek = fileKey \/ (prev # None /\ prev.kek = fileKey)
  BY DEF TypeOK, RowKept, Keying, MasterKept, HasRow
<1>2. UnwrapMk(fileKey) = verifier
  BY <1>1 DEF UnwrapMk
<1> QED
  BY <1>1, <1>2 DEF Openers, HasRow

\* A vault once created opens for the credential it is keyed with, wherever a
\* password change was interrupted, unless a change was started over one that
\* never took effect (change_password, unlock).
THEOREM AlwaysOpens == Spec => []StillOpens
BY Invariant, IInvOpens, PTL

\* Every wrap and every session holds the master key the data is sealed under.
THEOREM MasterKeyKept == Spec => []MasterKept
BY Invariant, PTL DEF IInv

\* The row shows a change under way exactly while it keeps both wraps.
THEOREM RewrapShown == Spec => []RewrapVisible
BY Invariant, PTL DEF IInv

\* No step of any call writes to a vault of a newer build (migrate::run refuses
\* it before anything else is done with the open file).
THEOREM NewerBuildUntouched == Spec => FutureUntouched
<1>1. IInv /\ [Next]_vars => [version > CURRENT_SCHEMA => UNCHANGED disk]_vars
  <2> SUFFICES ASSUME IInv, Next, version > CURRENT_SCHEMA PROVE UNCHANGED disk
    OBVIOUS
  <2> USE SchemaAssumption DEF disk, row
  <2>1. pc = "idle" /\ session = None /\ file = "keyed"
    BY DEF IInv, FutureIdle
  <2>2. CASE Create
    BY <2>1, <2>2 DEF Create, CreateBegin, CreateFirstPage, CreateSchema, CreateInsert
  <2>3. CASE Unlock
    BY <2>1, <2>3 DEF Unlock, UnlockBegin, Migrate, UnlockFinish
  <2>4. CASE ChangePassword
    BY <2>1, <2>4 DEF ChangePassword, ChangeRefused, StageRewrap, Rekey, FinishRewrap
  <2>5. CASE (\E p \in Passwords : Verify(p)) \/ Fail \/ Lock \/ Drop \/ Crash
    BY <2>5 DEF Verify, Fail, Lock, Drop, Crash
  <2> QED
    BY <2>2, <2>3, <2>4, <2>5 DEF Next
<1> QED
  BY <1>1, Invariant, PTL DEF Spec, FutureUntouched

---------------------------------------------------------------------------
(* The file keeps VaultPromise.                                            *)

HolderIs == IF session = None THEN None ELSE session.mk

LEMMA InitPromise == Init => Promise!Init
<1> SUFFICES ASSUME Init PROVE Promise!Init
  OBVIOUS
<1>1. IInv
  BY InitIInv
<1>2. CASE Absent
  BY <1>2 DEF Init, Absent, Promise!Init, Openers, HasRow
<1>3. CASE Existing
  <2>1. HasRow /\ ~restaged /\ fileKey \in Creds /\ verifier \in MasterKeys
    BY <1>1, <1>3, NoneApart DEF Init, Existing, IInv, TypeOK, HasRow
  <2>2. Openers = {fileKey}
    BY <1>1, <2>1, IInvOpens DEF StillOpens
  <2> QED
    BY <2>1, <2>2 DEF Init, Promise!Init
<1> QED
  BY <1>2, <1>3 DEF Init

LEMMA StepPromise == IInv /\ IInv' /\ [Next]_vars => [Promise!Next]_(Promise!vars)
<1> SUFFICES ASSUME IInv, IInv', [Next]_vars PROVE [Promise!Next]_(Promise!vars)
  OBVIOUS
<1> DEFINE Same == UNCHANGED <<Openers, verifier, HolderIs, restaged>>
           Closed == UNCHANGED <<Openers, verifier, restaged>> /\ HolderIs' = None
<1>0. Same => UNCHANGED Promise!vars
  BY DEF Promise!vars, HolderIs
<1>q. Closed => [Promise!Next]_(Promise!vars)
  BY DEF Promise!vars, Promise!Next, Promise!Close, HolderIs
<1>d. UNCHANGED disk => Openers' = Openers
  BY DEF disk, row, Openers, HasRow, UnwrapMk
<1>n. ~HasRow => Openers = {}
  BY DEF Openers
<1>n2. ~HasRow' => Openers' = {}
  BY DEF Openers, HasRow
<1>k. ASSUME HasRow, wrapped.kek = fileKey PROVE Openers = {fileKey}
  BY <1>k, NoneApart
     DEF IInv, TypeOK, RowKept, Keying, MasterKept, HasRow, Openers, UnwrapMk
<1>k2. ASSUME HasRow', wrapped'.kek = fileKey' PROVE Openers' = {fileKey'}
  BY <1>k2, NoneApart
     DEF IInv, TypeOK, RowKept, Keying, MasterKept, HasRow, Openers, UnwrapMk
<1>v. StillOpens'
  BY IInvOpens, PTL
<1>s. Same => [Promise!Next]_(Promise!vars)
  BY <1>0
<1>1. CASE \/ \E c \in Creds : CreateBegin(c)
           \/ CreateFirstPage \/ CreateSchema
  <2>1. UNCHANGED <<verifier, session, restaged, wrapped>>
    BY <1>1 DEF CreateBegin, CreateFirstPage, CreateSchema, row
  <2>2. Openers' = Openers
    <3>1. CASE HasRow
      <4>1. UNCHANGED disk
        BY <1>1, <3>1 DEF CreateBegin, CreateFirstPage, CreateSchema, row, disk,
                          IInv, Keying, RowKept, Stages
      <4> QED
        BY <4>1, <1>d
    <3>2. CASE ~HasRow
      BY <3>2, <2>1, <1>n, <1>n2 DEF HasRow
    <3> QED
      BY <3>1, <3>2
  <2> QED
    BY <2>1, <2>2, <1>s DEF HolderIs
<1>2. CASE CreateInsert
  <2>1. /\ verifier = None /\ ~restaged /\ Openers = {}
    BY <1>2, <1>n DEF CreateInsert, IInv, Stages, NoRowYet
  <2>w. work \in Wraps /\ fileKey = work.kek
    BY <1>2 DEF CreateInsert, IInv, Stages
  <2>u. [mk |-> work.mk, email |-> work.kek.email, conn |-> TRUE] \in Sessions
    BY <2>w
  <2>x. session' \in Sessions /\ session'.mk = work.mk /\ session' # None
    BY <1>2, <2>u, NoneApart DEF CreateInsert
  <2>2. /\ HasRow' /\ fileKey' \in Creds /\ verifier' \in MasterKeys
        /\ wrapped'.kek = fileKey' /\ HolderIs' = verifier'
    BY <1>2, <2>w, <2>x, NoneApart DEF CreateInsert, HasRow, HolderIs
  <2>3. Openers' = {fileKey'}
    BY <2>2, <1>k2
  <2>4. Promise!Create
    BY <1>2, <2>1, <2>2, <2>3 DEF Promise!Create, CreateInsert, HolderIs
  <2> QED
    BY <2>4 DEF Promise!Next
<1>3. CASE (\E c \in Creds : UnlockBegin(c)) \/ Migrate
  <2>1. UNCHANGED <<verifier, session, restaged>> /\ Openers' = Openers
    BY <1>3, <1>d DEF UnlockBegin, Migrate, disk, row, Openers, HasRow, UnwrapMk
  <2> QED
    BY <2>1, <1>s DEF HolderIs
<1>4. CASE UnlockFinish
  <2> DEFINE c == work.kek
  <2>0. UNCHANGED <<verifier, restaged>> /\ Openers' = Openers
    BY <1>4, <1>d DEF UnlockFinish, disk, row
  <2>1. session = None /\ c \in Creds /\ file = "keyed" /\ fileKey = c
    BY <1>4, NoneApart DEF UnlockFinish, IInv, TypeOK, Stages
  <2>2. CASE RowResult(c) = "ok"
    <3>1. HasRow /\ UnwrapMk(c) # None /\ UnwrapMk(c) = verifier
      BY <2>2 DEF RowResult
    <3>2. c \in Openers
      BY <2>1, <3>1 DEF Openers
    <3>3. session' = [mk |-> verifier, email |-> c.email, conn |-> TRUE]
      BY <1>4, <2>2, <3>1 DEF UnlockFinish
    <3>4. session' # None
      <4>1. verifier \in MasterKeys /\ c.email \in Emails
        BY <3>1, <2>1, NoneApart DEF IInv, TypeOK
      <4>2. [mk |-> verifier, email |-> c.email, conn |-> TRUE] \in Sessions
        BY <4>1
      <4> QED
        BY <3>3, <4>2, NoneApart
    <3>5. Promise!Unlock
      BY <2>0, <2>1, <3>2, <3>3, <3>4 DEF Promise!Unlock
    <3> QED
      BY <3>5 DEF Promise!Next
  <2>3. CASE RowResult(c) # "ok"
    BY <1>4, <2>0, <2>1, <2>3, <1>s DEF UnlockFinish, HolderIs
  <2> QED
    BY <2>2, <2>3
<1>5. CASE \E p \in Passwords : Verify(p) \/ ChangeRefused(p)
  BY <1>5, <1>d, <1>s DEF Verify, ChangeRefused, disk, row, HolderIs
<1>6. ASSUME NEW p \in Passwords, StageRewrap(p) PROVE [Promise!Next]_(Promise!vars)
  <2>1. /\ UNCHANGED <<verifier, fileKey, session>> /\ HasRow /\ HasRow'
        /\ session # None /\ HolderIs' = HolderIs /\ HolderIs # None
        /\ fileKey \in Creds
    BY <1>6, NoneApart DEF StageRewrap, IInv, TypeOK, NoRowYet, RowKept, Keying, HasRow, HolderIs
  <2>2. Openers \in {{}, {fileKey}} /\ Openers' \in {{}, {fileKey}}
    BY <2>1, OpenersAreFileKey DEF IInv, Openers
  <2>3. restaged => restaged'
    BY <1>6 DEF StageRewrap
  <2>4. CASE ~restaged'
    <3>1. ~restaged
      BY <2>3, <2>4
    <3>2. Openers = {fileKey} /\ Openers' = {fileKey}
      BY <2>1, <2>4, <3>1, IInvOpens, <1>v DEF StillOpens
    <3> QED
      BY <2>1, <2>4, <3>1, <3>2, <1>s DEF IInv, TypeOK
  <2>5. CASE restaged' /\ Openers = {} /\ Openers' = {fileKey}
    <3>1. restaged
      BY <2>1, <2>5, IInvOpens DEF StillOpens, IInv, TypeOK
    <3>2. restaged' = restaged
      BY <2>5, <3>1 DEF IInv, TypeOK
    <3>3. Promise!ChangePassword
      BY <2>1, <2>5, <3>1, <3>2 DEF Promise!ChangePassword, HolderIs
    <3> QED
      BY <3>3 DEF Promise!Next
  <2>6. CASE restaged' /\ ~(Openers = {} /\ Openers' = {fileKey})
    <3>1. Openers' \in {Openers, {}}
      BY <2>2, <2>6
    <3>2. restaged' = TRUE
      BY <2>6 DEF IInv, TypeOK
    <3>3. Promise!Forfeit
      BY <2>1, <2>6, <3>1, <3>2 DEF Promise!Forfeit, HolderIs
    <3> QED
      BY <3>3 DEF Promise!Next
  <2> QED
    BY <2>2, <2>4, <2>5, <2>6
<1>7. CASE Rekey
  <2>1. /\ UNCHANGED <<verifier, session, restaged>> /\ HasRow /\ HasRow'
        /\ session # None /\ HolderIs' = HolderIs /\ HolderIs # None
        /\ fileKey \in Creds /\ fileKey' \in Creds
        /\ wrapped'.kek = fileKey' /\ fileKey'.email = fileKey.email
    BY <1>7, NoneApart
       DEF Rekey, IInv, TypeOK, Stages, RowKept, Keying, HasRow, HolderIs, row
  <2>2. Openers' = {fileKey'}
    BY <2>1, <1>k2
  <2>3. Openers = {fileKey} \/ (restaged /\ Openers = {})
    BY <2>1, IInvOpens, OpenersAreFileKey DEF StillOpens, IInv
  <2>4. Promise!ChangePassword
    BY <2>1, <2>2, <2>3 DEF Promise!ChangePassword, HolderIs
  <2> QED
    BY <2>4 DEF Promise!Next
<1>8. CASE FinishRewrap
  <2>1. /\ UNCHANGED <<verifier, session, restaged, wrapped, fileKey>> /\ HasRow
        /\ wrapped.kek = fileKey
    BY <1>8 DEF FinishRewrap, IInv, Stages
  <2>2. Openers = {fileKey} /\ Openers' = {fileKey}
    BY <2>1, <1>k, <1>k2 DEF HasRow
  <2> QED
    BY <2>1, <2>2, <1>s DEF HolderIs
<1>9. CASE Fail
  BY <1>9, <1>d, <1>s DEF Fail, disk, row, HolderIs
<1>10. CASE Lock
  <2>1. HolderIs' = HolderIs
    BY <1>10, NoneApart DEF Lock, HolderIs, IInv, TypeOK
  <2> QED
    BY <1>10, <2>1, <1>d, <1>s DEF Lock, disk, row
<1>11. CASE Drop \/ Crash
  BY <1>11, <1>d, <1>q DEF Drop, Crash, disk, row, HolderIs
<1>12. CASE UNCHANGED vars
  BY <1>12, <1>d, <1>s DEF vars, disk, row, HolderIs
<1> QED
  BY <1>1, <1>2, <1>3, <1>4, <1>5, <1>6, <1>7, <1>8, <1>9, <1>10, <1>11, <1>12
     DEF Next, Create, Unlock, ChangePassword

\* Every behaviour of the file and its calls, with any crashes and failures, is
\* a behaviour of the abstract vault: the password changes in one step, the
\* master key never, and only an opener gets a session.
THEOREM Refinement == Spec => KeepsPromise
<1>1. Init => Promise!Init
  BY InitPromise
<1>2. IInv /\ IInv' /\ [Next]_vars => [Promise!Next]_(Promise!vars)
  BY StepPromise
<1> QED
  BY <1>1, <1>2, Invariant, PTL DEF Spec, KeepsPromise, Promise!Spec
=============================================================================
