---------------------------- MODULE RunLifecycle ----------------------------
(***************************************************************************)
(* Everyone who wants one run at once: executions and resumptions of the    *)
(* desktop application and of MCP processes, aborts, deletions.             *)
(*                                                                         *)
(* They meet in the run's record, in its lifecycle lock (a file lock, taken *)
(* without waiting, in storage/runs.rs) and, inside the desktop process, in *)
(* the registry of cancellations (app/engine.rs).  A task is one command of *)
(* the desktop or one MCP request.  Of the executor, only what the others   *)
(* see of it is kept: the checkpoints it writes and how it ends.            *)
(***************************************************************************)
EXTENDS Naturals, FiniteSets

CONSTANTS Tasks,      \* commands and requests
          NoTask,     \* not one of them
          Faults,     \* which of FaultKinds may happen
          MaxFaults   \* at most this many

FaultKinds == {"crash", "panic", "disconnect", "save"}

ASSUME TasksAssumption ==
    /\ NoTask \notin Tasks
    /\ Faults \subseteq FaultKinds
    /\ MaxFaults \in Nat

VARIABLES
    status,     \* RunStatus of the stored record, "absent", "deleted"
    working,    \* whether the record has a step that is Running
    owner,      \* the task that holds the lifecycle lock
    registry,   \* run_cancellations: "none", "active", "cancelling"
    sender,     \* whose cancel_tx the active entry holds
    signalled,  \* tasks whose cancel_rx has fired
    op,         \* what each task was asked
    pc,         \* where it is
    taken,      \* of an abort: the task whose cancel_tx it took out
    gone,       \* of an abort: its receiver_gone
    faults      \* faults so far

record == <<status, working>>
cancellations == <<registry, sender, signalled>>
abort  == <<taken, gone>>
vars   == <<status, working, owner, registry, sender, signalled, op, pc, taken, gone, faults>>

Record == INSTANCE RunContract

DesktopOps == {"run", "resume", "abort", "delete"}
McpOps     == {"mcp_run", "mcp_resume"}
Ops        == DesktopOps \union McpOps \union {"none"}
(* "claimed"    holds the lock, has loaded the record, may still refuse      *)
(* "unknown"    executes, its run id has not been announced yet             *)
(* "executing"  executes, registered when it is a task of the desktop       *)
(* "finished", "returning"  the executor ended; its entry is, was, removed  *)
(* "dropped"    the aborted executor is gone, the record still stands       *)
(* "marking"    holds the lock to mark the run Cancelled                    *)
(* "marked", "unmarked"  that was done, or the lock was refused             *)
(* "sending", "unsent", "inspecting", "locking"  an abort                   *)
(* "deleting"   a deletion with the lock and the registry's mutex           *)
(* "refused"    an aborted run that could not be marked; "dead" lost        *)
Busy   == {"claimed", "unknown", "executing", "finished", "returning", "dropped", "marking",
           "marked", "unmarked", "sending", "unsent", "inspecting", "locking", "deleting"}
Over   == {"done", "refused", "dead"}
Points == {"idle"} \union Busy \union Over

Desktop(t) == op[t] \in DesktopOps

Init ==
    /\ status    = "absent"
    /\ working   = FALSE
    /\ owner     = NoTask
    /\ registry  = "none"
    /\ sender    = NoTask
    /\ signalled = {}
    /\ op        = [t \in Tasks |-> "none"]
    /\ pc        = [t \in Tasks |-> "idle"]
    /\ taken     = [t \in Tasks |-> NoTask]
    /\ gone      = [t \in Tasks |-> FALSE]
    /\ faults    = 0

Goto(t, from, to) == pc[t] = from /\ pc' = [pc EXCEPT ![t] = to]
Ask(t, o)         == op' = [op EXCEPT ![t] = o]

(* try_lock_exclusive: nobody waits for the lock.                            *)
TryLock(t)   == owner = NoTask /\ owner' = t
Release(t)   == owner' = IF owner = t THEN NoTask ELSE owner

(* A deletion keeps the registry's mutex until it is done.                   *)
MutexFree == \A t \in Tasks : pc[t] # "deleting"

(* Removing an entry drops the sender in it, which wakes its receiver: the   *)
(* select takes that for an abort.                                           *)
RemoveEntry ==
    /\ MutexFree
    /\ registry'  = "none"
    /\ sender'    = NoTask
    /\ signalled' = IF registry = "active" THEN signalled \union {sender} ELSE signalled

(* Register a cancel_tx for t.                                               *)
Register(t) ==
    /\ MutexFree
    /\ registry' = "active"
    /\ sender'   = t
    /\ UNCHANGED signalled

-----------------------------------------------------------------------------
(* Executions                                                                *)

(* execute: a new record, locked before it is first saved.  An MCP request   *)
(* has no registry.                                                          *)
Create(t, o) ==
    /\ Goto(t, "idle", IF o = "run" THEN "unknown" ELSE "executing")
    /\ o \in {"run", "mcp_run"}
    /\ status = "absent"
    /\ TryLock(t)
    /\ Ask(t, o)
    /\ status'  = "running"
    /\ working' = FALSE
    /\ UNCHANGED <<cancellations, abort, faults>>

(* The first progress event tells run_plan_with_timeout the run's id.        *)
Announce(t) ==
    /\ Goto(t, "unknown", "executing")
    /\ Register(t)
    /\ UNCHANGED <<record, owner, op, abort, faults>>

(* load_run_for_execution: lock, then reload the record.                      *)
Claim(t, o) ==
    /\ Goto(t, "idle", "claimed")
    /\ o \in {"resume", "mcp_resume", "mcp_run"}
    /\ status \notin {"absent", "deleted"}
    /\ TryLock(t)
    /\ Ask(t, o)
    /\ UNCHANGED <<record, cancellations, abort, faults>>

(* Flawed form: whatever has stopped can go on.                              *)
LenientResumable(o) == status # "running"

(* A failed run that was repaired, or a run that waits for an answer.        *)
Resumable(o) == status = IF o = "mcp_run" THEN "waiting" ELSE "failed"

Refuse(t) ==
    /\ Goto(t, "claimed", "done")
    /\ Release(t)
    /\ UNCHANGED <<record, cancellations, op, abort, faults>>

ResumeDesktop(t) ==
    /\ Goto(t, "claimed", "executing")
    /\ op[t] = "resume" /\ Resumable(op[t])
    /\ registry = "none"
    /\ Register(t)
    /\ UNCHANGED <<record, owner, op, abort, faults>>

ResumeMcp(t) ==
    /\ Goto(t, "claimed", "executing")
    /\ op[t] \in McpOps /\ Resumable(op[t])
    /\ UNCHANGED <<record, owner, cancellations, op, abort, faults>>

(* The executor persists the run while it works.                             *)
Checkpoint(t) ==
    /\ pc[t] \in {"unknown", "executing"}
    /\ status'  = "running"
    /\ working' \in BOOLEAN
    /\ UNCHANGED <<owner, cancellations, op, pc, abort, faults>>

(* It returns, after a rejected approval with the run cancelled.  The lock   *)
(* goes with execute and with the MCP handlers; the resume_run of the        *)
(* desktop keeps it until it returns.                                        *)
Finish(t) ==
    /\ pc[t] \in {"unknown", "executing"}
    /\ status' \in {"succeeded", "failed", "waiting", "cancelled"}
    /\ working' = FALSE
    /\ pc' = [pc EXCEPT ![t] =
                 IF ~Desktop(t) THEN "done" ELSE IF pc[t] = "unknown" THEN "returning"
                 ELSE "finished"]
    /\ IF op[t] = "resume" THEN UNCHANGED owner ELSE Release(t)
    /\ UNCHANGED <<cancellations, op, abort, faults>>

(* Flawed form: the entry outlives its task.                                 *)
LeavingDeregister(t) ==
    /\ Goto(t, "finished", "returning")
    /\ UNCHANGED <<record, owner, cancellations, op, abort, faults>>

Deregister(t) ==
    /\ Goto(t, "finished", "returning")
    /\ RemoveEntry
    /\ UNCHANGED <<record, owner, op, abort, faults>>

(* Its receiver and the lock of a resumption go with it.                     *)
Return(t) ==
    /\ Goto(t, "returning", "done")
    /\ Release(t)
    /\ UNCHANGED <<record, cancellations, op, abort, faults>>

-----------------------------------------------------------------------------
(* Aborts                                                                    *)

(* The receiver fired: run_plan drops its execution, and the lock with it,   *)
(* while resume_run keeps its own.                                           *)
Abandon(t) ==
    /\ t \in signalled
    /\ Goto(t, "executing", IF op[t] = "resume" THEN "marking" ELSE "dropped")
    /\ IF op[t] = "resume" THEN UNCHANGED owner ELSE Release(t)
    /\ UNCHANGED <<record, cancellations, op, abort, faults>>

(* Flawed form: the record is marked without the lock.                       *)
UnlockedLockToMark(t) ==
    /\ Goto(t, "dropped", "marking")
    /\ UNCHANGED <<record, owner, cancellations, op, abort, faults>>

LockToMark(t) ==
    /\ Goto(t, "dropped", "marking")
    /\ TryLock(t)
    /\ UNCHANGED <<record, cancellations, op, abort, faults>>

MarkRefused(t) ==
    /\ Goto(t, "dropped", "unmarked")
    /\ owner # NoTask
    /\ UNCHANGED <<record, owner, cancellations, op, abort, faults>>

(* Flawed form: a run that says it runs is left to its executor.             *)
TimidMarkable(t) == status = "waiting" \/ (op[t] = "resume" /\ status = "failed")

(* mark_run_cancelled_inner: what is final stays, and a failure stays unless *)
(* it is a resumption that was aborted.                                      *)
Markable(t) == status \in {"running", "waiting"} \/ (op[t] = "resume" /\ status = "failed")

Mark(t) ==
    /\ Goto(t, "marking", IF op[t] = "abort" THEN "done" ELSE "marked")
    /\ IF Markable(t) THEN status' = "cancelled" /\ working' = FALSE ELSE UNCHANGED record
    /\ IF op[t] = "resume" THEN UNCHANGED owner ELSE Release(t)
    /\ UNCHANGED <<cancellations, op, abort, faults>>

(* Flawed form: Cancelling is left behind.                                    *)
LeavingSettle(t) ==
    /\ \/ Goto(t, "marked", "returning")
       \/ Goto(t, "unmarked", "refused")
    /\ UNCHANGED <<record, owner, cancellations, op, abort, faults>>

Settle(t) ==
    /\ \/ Goto(t, "marked", "returning")
       \/ Goto(t, "unmarked", "refused")
    /\ RemoveEntry
    /\ UNCHANGED <<record, owner, op, abort, faults>>

(* abort_run: take the sender out, leaving Cancelling; a second abort only   *)
(* repeats the first.                                                        *)
TakeSender(t) ==
    /\ Goto(t, "idle", "sending")
    /\ MutexFree /\ registry = "active"
    /\ Ask(t, "abort")
    /\ taken'    = [taken EXCEPT ![t] = sender]
    /\ registry' = "cancelling"
    /\ sender'   = NoTask
    /\ UNCHANGED <<record, owner, signalled, gone, faults>>

AlreadyCancelling(t) ==
    /\ Goto(t, "idle", "done")
    /\ MutexFree /\ registry = "cancelling"
    /\ Ask(t, "abort")
    /\ UNCHANGED <<record, owner, cancellations, abort, faults>>

Unregistered(t) ==
    /\ Goto(t, "idle", "inspecting")
    /\ MutexFree /\ registry = "none"
    /\ Ask(t, "abort")
    /\ UNCHANGED <<record, owner, cancellations, abort, faults>>

(* cancel.send: it fails once the task has returned or panicked.             *)
Send(t) ==
    /\ Goto(t, "sending", "done")
    /\ pc[taken[t]] \notin Over
    /\ signalled' = signalled \union {taken[t]}
    /\ UNCHANGED <<record, owner, registry, sender, op, abort, faults>>

SendFails(t) ==
    /\ Goto(t, "sending", "unsent")
    /\ pc[taken[t]] \in Over
    /\ gone' = [gone EXCEPT ![t] = TRUE]
    /\ UNCHANGED <<record, owner, cancellations, op, taken, faults>>

RemoveDead(t) ==
    /\ Goto(t, "unsent", "inspecting")
    /\ RemoveEntry
    /\ UNCHANGED <<record, owner, op, abort, faults>>

(* A run that says it runs and visibly does not: its task is gone, or no     *)
(* step of it is Running.                                                    *)
Abandoned(t) == status = "running" /\ (gone[t] \/ ~working)

Inspect(t) ==
    /\ Goto(t, "inspecting", IF Abandoned(t) THEN "locking" ELSE "done")
    /\ UNCHANGED <<record, owner, cancellations, op, abort, faults>>

LockToClean(t) ==
    /\ Goto(t, "locking", IF owner = NoTask THEN "marking" ELSE "done")
    /\ IF owner = NoTask THEN owner' = t ELSE UNCHANGED owner
    /\ UNCHANGED <<record, cancellations, op, abort, faults>>

-----------------------------------------------------------------------------
(* Deletion                                                                  *)

(* delete_run: not a registered run, and not one that someone holds.         *)
LockToDelete(t) ==
    /\ Goto(t, "idle", "deleting")
    /\ MutexFree /\ registry = "none"
    /\ status \notin {"absent", "deleted"}
    /\ TryLock(t)
    /\ Ask(t, "delete")
    /\ UNCHANGED <<record, cancellations, abort, faults>>

Delete(t) ==
    /\ Goto(t, "deleting", "done")
    /\ status' = IF status = "running" THEN status ELSE "deleted"
    /\ working' = (working /\ status = "running")
    /\ Release(t)
    /\ UNCHANGED <<cancellations, op, abort, faults>>

-----------------------------------------------------------------------------
(* Faults                                                                    *)

Fault(kind) == kind \in Faults /\ faults < MaxFaults /\ faults' = faults + 1

(* The client of an MCP request hangs up, or its process ends: the handler's *)
(* future is dropped where it stands.                                        *)
Disconnect(t) ==
    /\ Fault("disconnect")
    /\ pc[t] \in Busy /\ ~Desktop(t)
    /\ pc' = [pc EXCEPT ![t] = "dead"]
    /\ Release(t)
    /\ UNCHANGED <<record, cancellations, op, abort>>

(* A task of the desktop panics; the process lives on, with its registry.    *)
Panic(t) ==
    /\ Fault("panic")
    /\ pc[t] \in {"unknown", "executing"} /\ Desktop(t)
    /\ pc' = [pc EXCEPT ![t] = "dead"]
    /\ Release(t)
    /\ UNCHANGED <<record, cancellations, op, abort>>

(* The desktop application ends.                                             *)
Crash ==
    /\ Fault("crash")
    /\ pc' = [t \in Tasks |-> IF Desktop(t) /\ pc[t] \in Busy THEN "dead" ELSE pc[t]]
    /\ owner' = IF owner \in Tasks /\ Desktop(owner) THEN NoTask ELSE owner
    /\ registry' = "none" /\ sender' = NoTask /\ signalled' = {}
    /\ UNCHANGED <<record, op, abort>>

(* A checkpoint cannot be saved: the executor returns the error and leaves   *)
(* the older record.                                                         *)
FailSave(t) ==
    /\ Fault("save")
    /\ pc[t] \in {"unknown", "executing"}
    /\ pc' = [pc EXCEPT ![t] =
                 IF ~Desktop(t) THEN "done" ELSE IF pc[t] = "unknown" THEN "returning"
                 ELSE "finished"]
    /\ IF op[t] = "resume" THEN UNCHANGED owner ELSE Release(t)
    /\ UNCHANGED <<record, cancellations, op, abort>>

-----------------------------------------------------------------------------
Execute(t) ==
    \/ \E o \in {"run", "mcp_run"} : Create(t, o)
    \/ \E o \in {"resume", "mcp_resume", "mcp_run"} : Claim(t, o)
    \/ Announce(t) \/ Checkpoint(t) \/ Finish(t)
    \/ ResumeDesktop(t) \/ ResumeMcp(t) \/ Refuse(t)
    \/ Deregister(t) \/ Return(t)

Abort(t) ==
    \/ Abandon(t) \/ LockToMark(t) \/ MarkRefused(t) \/ Mark(t) \/ Settle(t)
    \/ TakeSender(t) \/ AlreadyCancelling(t) \/ Unregistered(t)
    \/ Send(t) \/ SendFails(t) \/ RemoveDead(t) \/ Inspect(t) \/ LockToClean(t)

Remove(t) == LockToDelete(t) \/ Delete(t)

Break(t) == Disconnect(t) \/ Panic(t) \/ FailSave(t)

Next == Crash \/ \E t \in Tasks : Execute(t) \/ Abort(t) \/ Remove(t) \/ Break(t)

(* What a task does next without waiting for a tool, a person or a request.  *)
Continue(t) ==
    \/ Refuse(t) \/ ResumeDesktop(t) \/ ResumeMcp(t) \/ Deregister(t) \/ Return(t)
    \/ Abandon(t) \/ LockToMark(t) \/ MarkRefused(t) \/ Mark(t) \/ Settle(t)
    \/ Send(t) \/ SendFails(t) \/ RemoveDead(t) \/ Inspect(t) \/ LockToClean(t)
    \/ Delete(t)

Spec == Init /\ [][Next]_vars /\ \A t \in Tasks : WF_vars(Continue(t))
-----------------------------------------------------------------------------
TypeOK ==
    /\ status \in Record!Statuses
    /\ working \in BOOLEAN
    /\ owner \in Tasks \union {NoTask}
    /\ registry \in {"none", "active", "cancelling"}
    /\ sender \in Tasks \union {NoTask}
    /\ signalled \subseteq Tasks
    /\ op \in [Tasks -> Ops]
    /\ pc \in [Tasks -> Points]
    /\ taken \in [Tasks -> Tasks \union {NoTask}]
    /\ gone \in [Tasks -> BOOLEAN]
    /\ faults \in 0..MaxFaults

(* Where a task writes or removes the record, or relies on what it has read. *)
Holding(t) == \/ pc[t] \in {"claimed", "unknown", "executing", "marking", "deleting"}
              \/ op[t] = "resume" /\ pc[t] \in Busy

(* Two tasks never work on the record at once: what one has loaded is never  *)
(* written over what another one saved (lock_lifecycle and its callers).     *)
WriterOwnsTheRun == \A t \in Tasks : Holding(t) => owner = t

(* A record that says running is being worked on, unless an executor was     *)
(* lost or an aborted run could not be marked: no sequence of commands just   *)
(* forgets a run (run_plan_with_timeout, resume_run, delete_run).            *)
RunningIsWorkedOn ==
    status = "running" =>
        \/ owner # NoTask
        \/ faults > 0
        \/ \E t \in Tasks : pc[t] \in {"dropped", "unmarked", "refused"}

(* A run the desktop executes and has announced can be aborted: its sender   *)
(* is registered, or in the hands of an abort, or it has fired.  And an entry *)
(* belongs to a task that will remove it, or to one that panicked: a run      *)
(* nobody executes is not refused as "already executing" (resume_run) or      *)
(* "still running" (delete_run).                                             *)
Reachable(t) == \/ t \in signalled
                \/ registry = "active" /\ sender = t
                \/ \E a \in Tasks : pc[a] = "sending" /\ taken[a] = t

Registered == {"executing", "finished", "dropped", "marking", "marked", "unmarked"}

RegistryMatchesExecution ==
    /\ \A t \in Tasks : pc[t] = "executing" /\ Desktop(t) => Reachable(t)
    /\ registry # "none" =>
          \E t \in Tasks : Desktop(t) /\ pc[t] \in Registered \union {"dead"}

(* The record keeps its contract, whatever interleaves: an ended run is not   *)
(* executed again, a deleted one does not come back, only a failed or waiting *)
(* one goes on.                                                              *)
RecordKeepsContract == Record!Spec

(* An accepted abort is carried out, or answered: the entry does not stay    *)
(* Cancelling, unless the task panics (abort_run, run_plan_with_timeout,      *)
(* resume_run).                                                              *)
AbortSettles ==
    registry = "cancelling" ~> registry # "cancelling" \/ \E t \in Tasks : pc[t] = "dead"

=============================================================================
