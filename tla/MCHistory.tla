----------------------------- MODULE MCHistory -----------------------------
(* Ledgers of one to four transactions, chosen so that every kind of one  *)
(* meets the kinds it could be taken for.  Amounts of 1 are dust.          *)
EXTENDS History

MCDates == <<<<2024, 2, 29>>, <<2024, 12, 31>>, <<2025, 3, 1>>, <<2100, 3, 1>>>>

MCUnits(d) == CASE d = 6 -> 2000 [] d = 8 -> 3000 [] d = 9 -> 3500 [] OTHER -> 4000

Coin(from, to, amount)  == Did(from, <<Moved("coin", from, to, amount)>>)
Token(payer, from, to, amount) == Did(payer, <<Moved("token", from, to, amount)>>)
Failed(t) == [t EXCEPT !.ok = FALSE]

CoinIn   == Coin(Peer, Me, 9)
Dust     == Coin(Third, Me, 1)
CoinOut  == Coin(Me, Peer, 7)
Self     == Coin(Me, Me, 9)
TokenIn  == Token(Peer, Peer, Me, 8)
TokenOut == Token(Me, Me, Peer, 6)
Pulled   == Token(Shop, Me, Peer, 6)
Nothing  == Token(Third, Third, Me, 0)
Fake     == Did(Third, <<Moved("fake", Third, Me, 9)>>)
Swap     == Did(Me, <<Moved("token", Me, Shop, 8), Moved("coin", Shop, Me, 9)>>)
Twice    == Did(Peer, <<Moved("token", Peer, Me, 8), Moved("token", Peer, Me, 4)>>)
Paired   == Did(Me, <<Moved("coin", Me, Shop, 7), Moved("token", Me, Shop, 8)>>)
Called   == Did(Me, <<>>)
Burnt    == Coin(Me, Nobody, 7)
Unmined  == [Coin(Me, Peer, 7) EXCEPT !.mined = FALSE]

MCLedgers == {<<CoinIn, CoinOut>>, <<CoinIn, TokenIn, Dust>>, <<TokenOut, CoinOut>>,
              <<TokenIn, TokenIn>>, <<Self, CoinIn>>, <<Failed(CoinOut), Failed(CoinIn)>>,
              <<Pulled, Fake, Nothing>>, <<Swap, Twice>>, <<Called, TokenIn>>, <<Fake>>,
              <<Dust, CoinIn, Unmined>>, <<Burnt, Self>>, <<TokenOut, TokenOut, TokenIn>>,
              <<CoinOut, TokenOut, TokenOut, TokenOut>>, <<Paired, CoinIn>>}

MCOtherLedger == <<CoinIn, TokenOut>>
=============================================================================
