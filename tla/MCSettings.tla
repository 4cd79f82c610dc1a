----------------------------- MODULE MCSettings -----------------------------
(* One vault, every row of the screen, one key given in the environment.   *)
EXTENDS Settings

CONSTANTS p1, u1, k1

MCPaths    == {p1}
MCEditRows == DOMAIN RowKey
MCUrls     == {u1}
MCKeys     == {k1}
MCVars     == [f \in {"ton_api_key"} |-> k1]
=============================================================================
