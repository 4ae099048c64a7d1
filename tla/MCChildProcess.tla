--------------------------- MODULE MCChildProcess ---------------------------
(***************************************************************************)
(* Small instances of ChildProcess.                                         *)
(***************************************************************************)
EXTENDS ChildProcess

MCKinds     == AllKinds
MCPlatforms == {"unix", "windows"}
=============================================================================
