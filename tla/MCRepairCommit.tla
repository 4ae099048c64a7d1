--------------------------- MODULE MCRepairCommit ---------------------------
(***************************************************************************)
(* Threads and processes for RepairCommit.                                  *)
(***************************************************************************)
EXTENDS RepairCommit, TLC

CONSTANTS t1, t2, p1, p2, e1

TwoProcesses == [t \in Threads |-> IF t = t1 THEN "desktop" ELSE "headless"]

PatchSymmetry == Permutations(Patches)
=============================================================================
