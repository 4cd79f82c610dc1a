--------------------------- MODULE VaultPromise ---------------------------
(***************************************************************************)
(* What neko-core/src/session.rs promises of a vault file, with nothing of *)
(* how it keeps the promise: at every moment at most one credential opens  *)
(* it, a change of password moves from the old credential to the new one   *)
(* in one step whatever interrupts it, the master key never changes, and a *)
(* session exists only for somebody who presented the credential.          *)
(*                                                                         *)
(* One clause is weaker than the source's comments: after a change has     *)
(* been started over an earlier change that never took effect, the vault   *)
(* may stop opening for good.                                              *)
(***************************************************************************)
CONSTANTS Creds,       \* what a user may type: an email and a password
          MasterKeys,
          None         \* no master key, no session

VARIABLES opener,      \* the credentials that open the vault
          master,      \* the master key everything in it is sealed under
          holder,      \* the master key held by the running session, or None
          forfeit      \* a change was started over one that never took effect

vars == <<opener, master, holder, forfeit>>

Init == /\ \/ opener = {} /\ master = None
           \/ \E c \in Creds, m \in MasterKeys : opener = {c} /\ master = m
        /\ holder = None /\ forfeit = FALSE

Create == /\ master = None
          /\ \E c \in Creds, m \in MasterKeys :
                opener' = {c} /\ master' = m /\ holder' = m
          /\ UNCHANGED forfeit

Unlock == /\ opener # {} /\ holder = None
          /\ holder' = master
          /\ UNCHANGED <<opener, master, forfeit>>

\* Only a session can change the password, and it keeps the email.
ChangePassword ==
    /\ holder # None
    /\ \E c, d \in Creds : /\ opener = {c} \/ (forfeit /\ opener = {})
                           /\ opener = {c} => d.email = c.email
                           /\ opener' = {d}
    /\ UNCHANGED <<master, holder, forfeit>>

\* A session starts a change over an earlier one that never took effect: from
\* here on nothing opens the vault until the change succeeds.
Forfeit == /\ holder # None
           /\ forfeit' = TRUE
           /\ opener' \in {opener, {}}
           /\ UNCHANGED <<master, holder>>

Close == /\ holder # None
         /\ holder' = None
         /\ UNCHANGED <<opener, master, forfeit>>

Next == Create \/ Unlock \/ ChangePassword \/ Forfeit \/ Close

Spec == Init /\ [][Next]_vars
=============================================================================
