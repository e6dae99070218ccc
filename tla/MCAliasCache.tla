--------------------------- MODULE MCAliasCache ---------------------------
(* AliasCache for TLC: a server with two callers and, where there is a     *)
(* second process, a run of the CLI.                                       *)
EXTENDS AliasCache, TLC

CONSTANTS server, cli, s1, s2, cl

TwoProcesses == s1 :> server @@ s2 :> server @@ cl :> cli

OneProcess == s1 :> server @@ s2 :> server
=============================================================================
