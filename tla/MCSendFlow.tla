---------------------------- MODULE MCSendFlow ----------------------------
(* The transfer screens for TLC: one account on Solana and one elsewhere.  *)
EXTENDS SendFlow, TLC

CONSTANTS tron, solana, p1, p2

MCAccounts == {tron, solana}
MCOnSolana == {solana}
MCPayees   == {p1, p2}
MCReqIds   == 1..2
=============================================================================
