----------------------------- MODULE MCMcpOAuth -----------------------------
(***************************************************************************)
(* Small instances of McpOAuth.                                             *)
(***************************************************************************)
EXTENDS McpOAuth, TLC

CONSTANTS t1, t2

MCTasks    == {t1, t2}
MCClients  == {"a", "b"}
(* Operations differ in nothing but their names.                             *)
MCSymmetry == Permutations(MCTasks)
=============================================================================
