--------------------------- MODULE MCRunLifecycle ---------------------------
(***************************************************************************)
(* Every kind of fault for RunLifecycle.                                    *)
(***************************************************************************)
EXTENDS RunLifecycle

MCFaults == FaultKinds
=============================================================================
