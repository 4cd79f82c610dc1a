---------------------------- MODULE MCVaultFile ----------------------------
(* A small vault for TLC: two emails, two acceptable passwords and a third *)
(* when a second change must find one, a schema of three migrations.        *)
EXTENDS VaultFile, TLC

CONSTANTS e1, e2, p1, p2, p3, weak, m1, m2

MCEmails == {e1, e2}
MCStrong == {p1, p2, p3}
MCWeak   == {weak}
MCMasterKeys == {m1, m2}
=============================================================================
