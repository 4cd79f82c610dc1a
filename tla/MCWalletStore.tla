--------------------------- MODULE MCWalletStore ---------------------------
(* Two secrets and two chains for TLC, and rows enough for an id to be given *)
(* out again while requests for its first wallet are under way.             *)
EXTENDS WalletStore, TLC

CONSTANTS s1, s2

MCSecrets   == {s1, s2}
MCTokenless == {1}
SecretSymmetry == Permutations(MCSecrets)
=============================================================================
