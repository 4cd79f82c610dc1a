----------------------------- MODULE MCPayment -----------------------------
(* Amounts and coins for TLC, around the thresholds of coins.rs: a coin of  *)
(* 600 at the relay floor pays 459 with nothing left for change, and 460    *)
(* only if it need not be reckoned with; 1400 makes change.  The texts are  *)
(* those amounts, written as somebody may, texts that are none, and one     *)
(* that is more than U64.                                                    *)
EXTENDS Payment

MCAllKinds == AllKinds
MCTexts    == {<<"0", ".", "0", "1">>,
               <<".", "0", "2">>,
               <<"2", ".", "9", "3">>,
               <<" ", "2", ".", "9", "4">>,
               <<"4", ".", "5", "9">>,
               <<"4", ".", "6">>,
               <<"1", "0">>,
               <<"9", ",", "9", "9", "9", ",", "9", "9", "9">>,
               <<"1", "9", "9", "9", "9", "9", "9", "9">>,
               <<>>,
               <<"0">>,
               <<"1", ".", "2", "3", "4">>,
               <<"2", "x">>,
               <<"9", "9", "_", "9", "9", "9", "_", "9", "9", "9">>}
MCAmounts  == {1, 2, 293, 294, 459, 460, 1000, U64 - 100}
MCBalances == {0, 2, 5}
MCFees     == {1, 2}
MCCoins    == [value : {600, 1400}, confirmed : BOOLEAN]
MCRates    == {360, 1120}
MCBitcoin  == {"bitcoin"}
=============================================================================
