----------------------------- MODULE MCSigning -----------------------------
(* Amounts and numbers on both sides of a byte, of two, and of the limits. *)
EXTENDS Signing

MCInPlay  == ChainId
MCAmounts == {1, 128, 256, 65536, 2000001}
MCNumbers == {0, 127, 300}
MCCoins   == {700, 65700, 70000}
=============================================================================
