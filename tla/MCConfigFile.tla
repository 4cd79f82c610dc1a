---------------------------- MODULE MCConfigFile ----------------------------
(* Two vault paths and two commands for TLC.                                *)
EXTENDS ConfigFile

CONSTANTS beside, data, c1, c2

MCPaths    == {beside, data}
MCCommands == {c1, c2}
=============================================================================
