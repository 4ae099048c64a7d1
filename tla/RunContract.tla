----------------------------- MODULE RunContract -----------------------------
(***************************************************************************)
(* What the stored record of a run promises to everyone who reads it: the   *)
(* list of runs, the update gate, a client that polls (storage/runs.rs).    *)
(* RunLifecycle implements it, with the interleavings of all who want the   *)
(* run.                                                                    *)
(***************************************************************************)
VARIABLE status

Absent   == "absent"
Deleted  == "deleted"
Ended    == {"succeeded", "cancelled"}
Statuses == {Absent, Deleted, "running", "waiting", "failed"} \union Ended

Init == status = Absent

Create  == status = Absent /\ status' = "running"
(* A checkpoint of an execution that is under way, or its end.              *)
Proceed == status = "running" /\ status' \in {"waiting", "failed"} \union Ended
(* An answer arrived, or a repair: the same run goes on.  A resumption may   *)
(* report its next failure or pause before any checkpoint says running.      *)
Resume  == /\ status \in {"waiting", "failed"}
           /\ status' \in {"running", "waiting", "failed"} \union Ended
Delete  == status \notin {Absent, "running"} /\ status' = Deleted

Next == Create \/ Proceed \/ Resume \/ (status # Deleted /\ Delete)

Spec == Init /\ [][Next]_status
=============================================================================
