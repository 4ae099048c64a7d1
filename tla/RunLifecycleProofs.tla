-------------------------- MODULE RunLifecycleProofs --------------------------
(***************************************************************************)
(* What RunLifecycle guarantees for any number of commands and requests, and *)
(* any faults.                                                              *)
(***************************************************************************)
EXTENDS RunLifecycle, TLAPS

(***************************************************************************)
(* Invariants                                                              *)
(***************************************************************************)
(* A sender exists where one is used, and belongs to a task; whoever holds a  *)
(* sender is a command of the desktop.                                       *)
SendersExist ==
    /\ registry = "active" => sender \in Tasks
    /\ \A t \in Tasks : pc[t] = "sending" => taken[t] \in Tasks /\ Desktop(t)

(* An entry belongs to an execution: an abort that marks a run is not taken   *)
(* for its owner.                                                            *)
EntryHasOwner ==
    /\ \A t \in Tasks : pc[t] = "unknown" => op[t] = "run"
    /\ registry # "none" =>
        \E t \in Tasks : op[t] \in {"run", "resume"} /\ pc[t] \in Registered \union {"dead"}

ExecutorsAreReachable ==
    \A t \in Tasks : pc[t] = "executing" /\ Desktop(t) => Reachable(t)

(* What an executor has loaded is a run that can go on, and what a deletion   *)
(* has found is a run.                                                       *)
ExecutedIsOpen ==
    \A t \in Tasks :
        /\ pc[t] \in {"unknown", "executing"} => status \in {"running", "waiting", "failed"}
        /\ pc[t] = "deleting" => status # "absent"

(* A record that says running has an executor, or an abort that will mark it  *)
(* or could not.                                                             *)
RunningHasReason ==
    status = "running" =>
        \/ faults > 0
        \/ \E t \in Tasks :
              pc[t] \in {"unknown", "executing", "marking", "dropped", "unmarked", "refused"}

LifecycleInv ==
    /\ TypeOK
    /\ SendersExist
    /\ WriterOwnsTheRun
    /\ EntryHasOwner
    /\ ExecutorsAreReachable
    /\ ExecutedIsOpen
    /\ RunningHasReason

(***************************************************************************)
(* The initial states                                                      *)
(***************************************************************************)
LEMMA LifecycleInit == Init => LifecycleInv
<1> SUFFICES ASSUME Init PROVE LifecycleInv
  OBVIOUS
<1>1. TypeOK
  <2>1. /\ status \in Record!Statuses
        /\ op \in [Tasks -> Ops]
        /\ pc \in [Tasks -> Points]
        /\ taken \in [Tasks -> Tasks \union {NoTask}]
    BY DEF Init, Record!Statuses, Record!Absent, Ops, Points
  <2>2. gone \in [Tasks -> BOOLEAN] /\ working \in BOOLEAN
    BY Zenon DEF Init
  <2>3. faults \in 0..MaxFaults
    BY TasksAssumption DEF Init
  <2> QED
    BY <2>1, <2>2, <2>3 DEF Init, TypeOK
<1>2. WriterOwnsTheRun
  BY DEF Init, WriterOwnsTheRun, Holding, Busy
<1>3. SendersExist /\ EntryHasOwner /\ ExecutorsAreReachable /\ ExecutedIsOpen /\ RunningHasReason
  BY DEF Init, SendersExist, EntryHasOwner, ExecutorsAreReachable, ExecutedIsOpen,
         RunningHasReason
<1> QED
  BY <1>1, <1>2, <1>3 DEF LifecycleInv

(***************************************************************************)
(* Every step                                                              *)
(***************************************************************************)
(* Types.                                                                    *)
LEMMA TypeStep ==
    ASSUME TypeOK, SendersExist, [Next]_vars
    PROVE  TypeOK'
<1>1. ASSUME NEW t \in Tasks, NEW o, Create(t, o) PROVE TypeOK'
  BY <1>1, TasksAssumption
     DEF Create, TryLock, Ask, Goto, record, cancellations, abort, TypeOK, Record!Statuses,
         Record!Absent, Record!Deleted, Record!Ended, Ops, DesktopOps, McpOps, Points, Busy,
         Over, SendersExist
<1>2. ASSUME NEW t \in Tasks, NEW o, Claim(t, o) PROVE TypeOK'
  BY <1>2, TasksAssumption
     DEF Claim, TryLock, Ask, Goto, record, cancellations, abort, TypeOK, Record!Statuses,
         Record!Absent, Record!Deleted, Record!Ended, Ops, DesktopOps, McpOps, Points, Busy,
         Over, SendersExist
<1>3. ASSUME NEW t \in Tasks, Announce(t) PROVE TypeOK'
  BY <1>3, TasksAssumption
     DEF Announce, Register, Goto, record, cancellations, abort, TypeOK, Record!Statuses,
         Record!Absent, Record!Deleted, Record!Ended, Ops, DesktopOps, McpOps, Points, Busy,
         Over, SendersExist
<1>4. ASSUME NEW t \in Tasks, Checkpoint(t) PROVE TypeOK'
  BY <1>4, TasksAssumption
     DEF Checkpoint, Goto, record, cancellations, abort, TypeOK, Record!Statuses,
         Record!Absent, Record!Deleted, Record!Ended, Ops, DesktopOps, McpOps, Points, Busy,
         Over, SendersExist
<1>5. ASSUME NEW t \in Tasks, Finish(t) PROVE TypeOK'
  BY <1>5, TasksAssumption
     DEF Finish, Release, Desktop, Goto, record, cancellations, abort, TypeOK, Record!Statuses,
         Record!Absent, Record!Deleted, Record!Ended, Ops, DesktopOps, McpOps, Points, Busy,
         Over, SendersExist
<1>6. ASSUME NEW t \in Tasks, ResumeDesktop(t) PROVE TypeOK'
  BY <1>6, TasksAssumption
     DEF ResumeDesktop, Register, Resumable, Goto, record, cancellations, abort, TypeOK,
         Record!Statuses, Record!Absent, Record!Deleted, Record!Ended, Ops, DesktopOps, McpOps,
         Points, Busy, Over, SendersExist
<1>7. ASSUME NEW t \in Tasks, ResumeMcp(t) PROVE TypeOK'
  BY <1>7, TasksAssumption
     DEF ResumeMcp, Resumable, Goto, record, cancellations, abort, TypeOK, Record!Statuses,
         Record!Absent, Record!Deleted, Record!Ended, Ops, DesktopOps, McpOps, Points, Busy,
         Over, SendersExist
<1>8. ASSUME NEW t \in Tasks, Refuse(t) PROVE TypeOK'
  BY <1>8, TasksAssumption
     DEF Refuse, Release, Goto, record, cancellations, abort, TypeOK, Record!Statuses,
         Record!Absent, Record!Deleted, Record!Ended, Ops, DesktopOps, McpOps, Points, Busy,
         Over, SendersExist
<1>9. ASSUME NEW t \in Tasks, Deregister(t) PROVE TypeOK'
  BY <1>9, TasksAssumption
     DEF Deregister, RemoveEntry, Goto, record, cancellations, abort, TypeOK, Record!Statuses,
         Record!Absent, Record!Deleted, Record!Ended, Ops, DesktopOps, McpOps, Points, Busy,
         Over, SendersExist
<1>10. ASSUME NEW t \in Tasks, Return(t) PROVE TypeOK'
  BY <1>10, TasksAssumption
     DEF Return, Release, Goto, record, cancellations, abort, TypeOK, Record!Statuses,
         Record!Absent, Record!Deleted, Record!Ended, Ops, DesktopOps, McpOps, Points, Busy,
         Over, SendersExist
<1>11. ASSUME NEW t \in Tasks, Abandon(t) PROVE TypeOK'
  BY <1>11, TasksAssumption
     DEF Abandon, Release, Goto, record, cancellations, abort, TypeOK, Record!Statuses,
         Record!Absent, Record!Deleted, Record!Ended, Ops, DesktopOps, McpOps, Points, Busy,
         Over, SendersExist
<1>12. ASSUME NEW t \in Tasks, LockToMark(t) PROVE TypeOK'
  BY <1>12, TasksAssumption
     DEF LockToMark, TryLock, Goto, record, cancellations, abort, TypeOK, Record!Statuses,
         Record!Absent, Record!Deleted, Record!Ended, Ops, DesktopOps, McpOps, Points, Busy,
         Over, SendersExist
<1>13. ASSUME NEW t \in Tasks, MarkRefused(t) PROVE TypeOK'
  BY <1>13, TasksAssumption
     DEF MarkRefused, Goto, record, cancellations, abort, TypeOK, Record!Statuses,
         Record!Absent, Record!Deleted, Record!Ended, Ops, DesktopOps, McpOps, Points, Busy,
         Over, SendersExist
<1>14. ASSUME NEW t \in Tasks, Mark(t) PROVE TypeOK'
  BY <1>14, TasksAssumption
     DEF Mark, Markable, Release, Goto, record, cancellations, abort, TypeOK, Record!Statuses,
         Record!Absent, Record!Deleted, Record!Ended, Ops, DesktopOps, McpOps, Points, Busy,
         Over, SendersExist
<1>15. ASSUME NEW t \in Tasks, Settle(t) PROVE TypeOK'
  BY <1>15, TasksAssumption
     DEF Settle, RemoveEntry, Goto, record, cancellations, abort, TypeOK, Record!Statuses,
         Record!Absent, Record!Deleted, Record!Ended, Ops, DesktopOps, McpOps, Points, Busy,
         Over, SendersExist
<1>16. ASSUME NEW t \in Tasks, TakeSender(t) PROVE TypeOK'
  BY <1>16, TasksAssumption
     DEF TakeSender, Ask, Goto, record, cancellations, abort, TypeOK, Record!Statuses,
         Record!Absent, Record!Deleted, Record!Ended, Ops, DesktopOps, McpOps, Points, Busy,
         Over, SendersExist
<1>17. ASSUME NEW t \in Tasks, AlreadyCancelling(t) PROVE TypeOK'
  BY <1>17, TasksAssumption
     DEF AlreadyCancelling, Ask, Goto, record, cancellations, abort, TypeOK, Record!Statuses,
         Record!Absent, Record!Deleted, Record!Ended, Ops, DesktopOps, McpOps, Points, Busy,
         Over, SendersExist
<1>18. ASSUME NEW t \in Tasks, Unregistered(t) PROVE TypeOK'
  BY <1>18, TasksAssumption
     DEF Unregistered, Ask, Goto, record, cancellations, abort, TypeOK, Record!Statuses,
         Record!Absent, Record!Deleted, Record!Ended, Ops, DesktopOps, McpOps, Points, Busy,
         Over, SendersExist
<1>19. ASSUME NEW t \in Tasks, Send(t) PROVE TypeOK'
  BY <1>19, TasksAssumption
     DEF Send, Goto, record, cancellations, abort, TypeOK, Record!Statuses, Record!Absent,
         Record!Deleted, Record!Ended, Ops, DesktopOps, McpOps, Points, Busy, Over,
         SendersExist
<1>20. ASSUME NEW t \in Tasks, SendFails(t) PROVE TypeOK'
  BY <1>20, TasksAssumption
     DEF SendFails, Goto, record, cancellations, abort, TypeOK, Record!Statuses, Record!Absent,
         Record!Deleted, Record!Ended, Ops, DesktopOps, McpOps, Points, Busy, Over,
         SendersExist
<1>21. ASSUME NEW t \in Tasks, RemoveDead(t) PROVE TypeOK'
  BY <1>21, TasksAssumption
     DEF RemoveDead, RemoveEntry, Goto, record, cancellations, abort, TypeOK, Record!Statuses,
         Record!Absent, Record!Deleted, Record!Ended, Ops, DesktopOps, McpOps, Points, Busy,
         Over, SendersExist
<1>22. ASSUME NEW t \in Tasks, Inspect(t) PROVE TypeOK'
  BY <1>22, TasksAssumption
     DEF Inspect, Abandoned, Goto, record, cancellations, abort, TypeOK, Record!Statuses,
         Record!Absent, Record!Deleted, Record!Ended, Ops, DesktopOps, McpOps, Points, Busy,
         Over, SendersExist
<1>23. ASSUME NEW t \in Tasks, LockToClean(t) PROVE TypeOK'
  BY <1>23, TasksAssumption
     DEF LockToClean, Goto, record, cancellations, abort, TypeOK, Record!Statuses,
         Record!Absent, Record!Deleted, Record!Ended, Ops, DesktopOps, McpOps, Points, Busy,
         Over, SendersExist
<1>24. ASSUME NEW t \in Tasks, LockToDelete(t) PROVE TypeOK'
  BY <1>24, TasksAssumption
     DEF LockToDelete, TryLock, Ask, Goto, record, cancellations, abort, TypeOK,
         Record!Statuses, Record!Absent, Record!Deleted, Record!Ended, Ops, DesktopOps, McpOps,
         Points, Busy, Over, SendersExist
<1>25. ASSUME NEW t \in Tasks, Delete(t) PROVE TypeOK'
  BY <1>25, TasksAssumption
     DEF Delete, Release, Goto, record, cancellations, abort, TypeOK, Record!Statuses,
         Record!Absent, Record!Deleted, Record!Ended, Ops, DesktopOps, McpOps, Points, Busy,
         Over, SendersExist
<1>26. ASSUME NEW t \in Tasks, Disconnect(t) PROVE TypeOK'
  BY <1>26, TasksAssumption
     DEF Disconnect, Fault, Release, Desktop, Busy, Goto, record, cancellations, abort, TypeOK,
         Record!Statuses, Record!Absent, Record!Deleted, Record!Ended, Ops, DesktopOps, McpOps,
         Points, Over, SendersExist
<1>27. ASSUME NEW t \in Tasks, Panic(t) PROVE TypeOK'
  BY <1>27, TasksAssumption
     DEF Panic, Fault, Release, Desktop, Goto, record, cancellations, abort, TypeOK,
         Record!Statuses, Record!Absent, Record!Deleted, Record!Ended, Ops, DesktopOps, McpOps,
         Points, Busy, Over, SendersExist
<1>28. ASSUME NEW t \in Tasks, FailSave(t) PROVE TypeOK'
  BY <1>28, TasksAssumption
     DEF FailSave, Fault, Release, Desktop, Goto, record, cancellations, abort, TypeOK,
         Record!Statuses, Record!Absent, Record!Deleted, Record!Ended, Ops, DesktopOps, McpOps,
         Points, Busy, Over, SendersExist
<1>29. CASE Crash
  BY <1>29, TasksAssumption
     DEF Crash, Fault, Desktop, Busy, record, cancellations, abort, TypeOK, Record!Statuses,
         Record!Absent, Record!Deleted, Record!Ended, Ops, DesktopOps, McpOps, Points, Busy,
         Over, SendersExist
<1>30. CASE UNCHANGED vars
  BY <1>30
     DEF vars, TypeOK, Record!Statuses, Record!Absent, Record!Deleted, Record!Ended, Ops,
         DesktopOps, McpOps, Points, Busy, Over, SendersExist
<1> QED
  BY <1>1, <1>2, <1>3, <1>4, <1>5, <1>6, <1>7, <1>8, <1>9, <1>10, <1>11, <1>12, <1>13, <1>14, <1>15, <1>16, <1>17, <1>18, <1>19, <1>20, <1>21, <1>22, <1>23, <1>24, <1>25, <1>26, <1>27, <1>28, <1>29, <1>30
     DEF Next, Execute, Abort, Remove, Break

(* A sender is made by an execution and taken by an abort.                    *)
LEMMA SenderStep ==
    ASSUME TypeOK, SendersExist, [Next]_vars
    PROVE  SendersExist'
<1>1. ASSUME NEW t \in Tasks, NEW o, Create(t, o) PROVE SendersExist'
  BY <1>1, TasksAssumption
     DEF Create, TryLock, Ask, Goto, record, cancellations, abort, TypeOK, SendersExist,
         Desktop, DesktopOps, McpOps
<1>2. ASSUME NEW t \in Tasks, NEW o, Claim(t, o) PROVE SendersExist'
  BY <1>2, TasksAssumption
     DEF Claim, TryLock, Ask, Goto, record, cancellations, abort, TypeOK, SendersExist,
         Desktop, DesktopOps, McpOps
<1>3. ASSUME NEW t \in Tasks, Announce(t) PROVE SendersExist'
  BY <1>3, TasksAssumption
     DEF Announce, Register, Goto, record, cancellations, abort, TypeOK, SendersExist, Desktop,
         DesktopOps, McpOps
<1>4. ASSUME NEW t \in Tasks, Checkpoint(t) PROVE SendersExist'
  BY <1>4, TasksAssumption
     DEF Checkpoint, Goto, record, cancellations, abort, TypeOK, SendersExist, Desktop,
         DesktopOps, McpOps
<1>5. ASSUME NEW t \in Tasks, Finish(t) PROVE SendersExist'
  BY <1>5, TasksAssumption
     DEF Finish, Release, Desktop, Goto, record, cancellations, abort, TypeOK, SendersExist,
         DesktopOps, McpOps
<1>6. ASSUME NEW t \in Tasks, ResumeDesktop(t) PROVE SendersExist'
  BY <1>6, TasksAssumption
     DEF ResumeDesktop, Register, Resumable, Goto, record, cancellations, abort, TypeOK,
         SendersExist, Desktop, DesktopOps, McpOps
<1>7. ASSUME NEW t \in Tasks, ResumeMcp(t) PROVE SendersExist'
  BY <1>7, TasksAssumption
     DEF ResumeMcp, Resumable, Goto, record, cancellations, abort, TypeOK, SendersExist,
         Desktop, DesktopOps, McpOps
<1>8. ASSUME NEW t \in Tasks, Refuse(t) PROVE SendersExist'
  BY <1>8, TasksAssumption
     DEF Refuse, Release, Goto, record, cancellations, abort, TypeOK, SendersExist, Desktop,
         DesktopOps, McpOps
<1>9. ASSUME NEW t \in Tasks, Deregister(t) PROVE SendersExist'
  BY <1>9, TasksAssumption
     DEF Deregister, RemoveEntry, Goto, record, cancellations, abort, TypeOK, SendersExist,
         Desktop, DesktopOps, McpOps
<1>10. ASSUME NEW t \in Tasks, Return(t) PROVE SendersExist'
  BY <1>10, TasksAssumption
     DEF Return, Release, Goto, record, cancellations, abort, TypeOK, SendersExist, Desktop,
         DesktopOps, McpOps
<1>11. ASSUME NEW t \in Tasks, Abandon(t) PROVE SendersExist'
  BY <1>11, TasksAssumption
     DEF Abandon, Release, Goto, record, cancellations, abort, TypeOK, SendersExist, Desktop,
         DesktopOps, McpOps
<1>12. ASSUME NEW t \in Tasks, LockToMark(t) PROVE SendersExist'
  BY <1>12, TasksAssumption
     DEF LockToMark, TryLock, Goto, record, cancellations, abort, TypeOK, SendersExist,
         Desktop, DesktopOps, McpOps
<1>13. ASSUME NEW t \in Tasks, MarkRefused(t) PROVE SendersExist'
  BY <1>13, TasksAssumption
     DEF MarkRefused, Goto, record, cancellations, abort, TypeOK, SendersExist, Desktop,
         DesktopOps, McpOps
<1>14. ASSUME NEW t \in Tasks, Mark(t) PROVE SendersExist'
  BY <1>14, TasksAssumption
     DEF Mark, Markable, Release, Goto, record, cancellations, abort, TypeOK, SendersExist,
         Desktop, DesktopOps, McpOps
<1>15. ASSUME NEW t \in Tasks, Settle(t) PROVE SendersExist'
  BY <1>15, TasksAssumption
     DEF Settle, RemoveEntry, Goto, record, cancellations, abort, TypeOK, SendersExist,
         Desktop, DesktopOps, McpOps
<1>16. ASSUME NEW t \in Tasks, TakeSender(t) PROVE SendersExist'
  BY <1>16, TasksAssumption
     DEF TakeSender, Ask, Goto, record, cancellations, abort, TypeOK, SendersExist, Desktop,
         DesktopOps, McpOps
<1>17. ASSUME NEW t \in Tasks, AlreadyCancelling(t) PROVE SendersExist'
  BY <1>17, TasksAssumption
     DEF AlreadyCancelling, Ask, Goto, record, cancellations, abort, TypeOK, SendersExist,
         Desktop, DesktopOps, McpOps
<1>18. ASSUME NEW t \in Tasks, Unregistered(t) PROVE SendersExist'
  BY <1>18, TasksAssumption
     DEF Unregistered, Ask, Goto, record, cancellations, abort, TypeOK, SendersExist, Desktop,
         DesktopOps, McpOps
<1>19. ASSUME NEW t \in Tasks, Send(t) PROVE SendersExist'
  BY <1>19, TasksAssumption
     DEF Send, Goto, record, cancellations, abort, TypeOK, SendersExist, Desktop, DesktopOps,
         McpOps
<1>20. ASSUME NEW t \in Tasks, SendFails(t) PROVE SendersExist'
  BY <1>20, TasksAssumption
     DEF SendFails, Goto, record, cancellations, abort, TypeOK, SendersExist, Desktop,
         DesktopOps, McpOps
<1>21. ASSUME NEW t \in Tasks, RemoveDead(t) PROVE SendersExist'
  BY <1>21, TasksAssumption
     DEF RemoveDead, RemoveEntry, Goto, record, cancellations, abort, TypeOK, SendersExist,
         Desktop, DesktopOps, McpOps
<1>22. ASSUME NEW t \in Tasks, Inspect(t) PROVE SendersExist'
  BY <1>22, TasksAssumption
     DEF Inspect, Abandoned, Goto, record, cancellations, abort, TypeOK, SendersExist, Desktop,
         DesktopOps, McpOps
<1>23. ASSUME NEW t \in Tasks, LockToClean(t) PROVE SendersExist'
  BY <1>23, TasksAssumption
     DEF LockToClean, Goto, record, cancellations, abort, TypeOK, SendersExist, Desktop,
         DesktopOps, McpOps
<1>24. ASSUME NEW t \in Tasks, LockToDelete(t) PROVE SendersExist'
  BY <1>24, TasksAssumption
     DEF LockToDelete, TryLock, Ask, Goto, record, cancellations, abort, TypeOK, SendersExist,
         Desktop, DesktopOps, McpOps
<1>25. ASSUME NEW t \in Tasks, Delete(t) PROVE SendersExist'
  BY <1>25, TasksAssumption
     DEF Delete, Release, Goto, record, cancellations, abort, TypeOK, SendersExist, Desktop,
         DesktopOps, McpOps
<1>26. ASSUME NEW t \in Tasks, Disconnect(t) PROVE SendersExist'
  BY <1>26, TasksAssumption
     DEF Disconnect, Fault, Release, Desktop, Busy, Goto, record, cancellations, abort, TypeOK,
         SendersExist, DesktopOps, McpOps
<1>27. ASSUME NEW t \in Tasks, Panic(t) PROVE SendersExist'
  BY <1>27, TasksAssumption
     DEF Panic, Fault, Release, Desktop, Goto, record, cancellations, abort, TypeOK,
         SendersExist, DesktopOps, McpOps
<1>28. ASSUME NEW t \in Tasks, FailSave(t) PROVE SendersExist'
  BY <1>28, TasksAssumption
     DEF FailSave, Fault, Release, Desktop, Goto, record, cancellations, abort, TypeOK,
         SendersExist, DesktopOps, McpOps
<1>29. CASE Crash
  BY <1>29, TasksAssumption
     DEF Crash, Fault, Desktop, Busy, record, cancellations, abort, TypeOK, SendersExist,
         Desktop, DesktopOps, McpOps
<1>30. CASE UNCHANGED vars
  BY <1>30 DEF vars, TypeOK, SendersExist, Desktop, DesktopOps, McpOps
<1> QED
  BY <1>1, <1>2, <1>3, <1>4, <1>5, <1>6, <1>7, <1>8, <1>9, <1>10, <1>11, <1>12, <1>13, <1>14, <1>15, <1>16, <1>17, <1>18, <1>19, <1>20, <1>21, <1>22, <1>23, <1>24, <1>25, <1>26, <1>27, <1>28, <1>29, <1>30
     DEF Next, Execute, Abort, Remove, Break

(* Nobody waits for the lock, so nobody acts on what it read before it had it. *)
LEMMA OwnerStep ==
    ASSUME TypeOK, WriterOwnsTheRun, [Next]_vars
    PROVE  WriterOwnsTheRun'
<1>1. ASSUME NEW t \in Tasks, NEW o, Create(t, o) PROVE WriterOwnsTheRun'
  BY <1>1, TasksAssumption
     DEF Create, TryLock, Ask, Goto, record, cancellations, abort, TypeOK, WriterOwnsTheRun,
         Holding, Busy, Desktop, DesktopOps, McpOps
<1>2. ASSUME NEW t \in Tasks, NEW o, Claim(t, o) PROVE WriterOwnsTheRun'
  BY <1>2, TasksAssumption
     DEF Claim, TryLock, Ask, Goto, record, cancellations, abort, TypeOK, WriterOwnsTheRun,
         Holding, Busy, Desktop, DesktopOps, McpOps
<1>3. ASSUME NEW t \in Tasks, Announce(t) PROVE WriterOwnsTheRun'
  BY <1>3, TasksAssumption
     DEF Announce, Register, Goto, record, cancellations, abort, TypeOK, WriterOwnsTheRun,
         Holding, Busy, Desktop, DesktopOps, McpOps
<1>4. ASSUME NEW t \in Tasks, Checkpoint(t) PROVE WriterOwnsTheRun'
  BY <1>4, TasksAssumption
     DEF Checkpoint, Goto, record, cancellations, abort, TypeOK, WriterOwnsTheRun, Holding,
         Busy, Desktop, DesktopOps, McpOps
<1>5. ASSUME NEW t \in Tasks, Finish(t) PROVE WriterOwnsTheRun'
  BY <1>5, TasksAssumption
     DEF Finish, Release, Desktop, Goto, record, cancellations, abort, TypeOK,
         WriterOwnsTheRun, Holding, Busy, DesktopOps, McpOps
<1>6. ASSUME NEW t \in Tasks, ResumeDesktop(t) PROVE WriterOwnsTheRun'
  BY <1>6, TasksAssumption
     DEF ResumeDesktop, Register, Resumable, Goto, record, cancellations, abort, TypeOK,
         WriterOwnsTheRun, Holding, Busy, Desktop, DesktopOps, McpOps
<1>7. ASSUME NEW t \in Tasks, ResumeMcp(t) PROVE WriterOwnsTheRun'
  BY <1>7, TasksAssumption
     DEF ResumeMcp, Resumable, Goto, record, cancellations, abort, TypeOK, WriterOwnsTheRun,
         Holding, Busy, Desktop, DesktopOps, McpOps
<1>8. ASSUME NEW t \in Tasks, Refuse(t) PROVE WriterOwnsTheRun'
  BY <1>8, TasksAssumption
     DEF Refuse, Release, Goto, record, cancellations, abort, TypeOK, WriterOwnsTheRun,
         Holding, Busy, Desktop, DesktopOps, McpOps
<1>9. ASSUME NEW t \in Tasks, Deregister(t) PROVE WriterOwnsTheRun'
  BY <1>9, TasksAssumption
     DEF Deregister, RemoveEntry, Goto, record, cancellations, abort, TypeOK, WriterOwnsTheRun,
         Holding, Busy, Desktop, DesktopOps, McpOps
<1>10. ASSUME NEW t \in Tasks, Return(t) PROVE WriterOwnsTheRun'
  BY <1>10, TasksAssumption
     DEF Return, Release, Goto, record, cancellations, abort, TypeOK, WriterOwnsTheRun,
         Holding, Busy, Desktop, DesktopOps, McpOps
<1>11. ASSUME NEW t \in Tasks, Abandon(t) PROVE WriterOwnsTheRun'
  BY <1>11, TasksAssumption
     DEF Abandon, Release, Goto, record, cancellations, abort, TypeOK, WriterOwnsTheRun,
         Holding, Busy, Desktop, DesktopOps, McpOps
<1>12. ASSUME NEW t \in Tasks, LockToMark(t) PROVE WriterOwnsTheRun'
  BY <1>12, TasksAssumption
     DEF LockToMark, TryLock, Goto, record, cancellations, abort, TypeOK, WriterOwnsTheRun,
         Holding, Busy, Desktop, DesktopOps, McpOps
<1>13. ASSUME NEW t \in Tasks, MarkRefused(t) PROVE WriterOwnsTheRun'
  BY <1>13, TasksAssumption
     DEF MarkRefused, Goto, record, cancellations, abort, TypeOK, WriterOwnsTheRun, Holding,
         Busy, Desktop, DesktopOps, McpOps
<1>14. ASSUME NEW t \in Tasks, Mark(t) PROVE WriterOwnsTheRun'
  BY <1>14, TasksAssumption
     DEF Mark, Markable, Release, Goto, record, cancellations, abort, TypeOK, WriterOwnsTheRun,
         Holding, Busy, Desktop, DesktopOps, McpOps
<1>15. ASSUME NEW t \in Tasks, Settle(t) PROVE WriterOwnsTheRun'
  BY <1>15, TasksAssumption
     DEF Settle, RemoveEntry, Goto, record, cancellations, abort, TypeOK, WriterOwnsTheRun,
         Holding, Busy, Desktop, DesktopOps, McpOps
<1>16. ASSUME NEW t \in Tasks, TakeSender(t) PROVE WriterOwnsTheRun'
  BY <1>16, TasksAssumption
     DEF TakeSender, Ask, Goto, record, cancellations, abort, TypeOK, WriterOwnsTheRun,
         Holding, Busy, Desktop, DesktopOps, McpOps
<1>17. ASSUME NEW t \in Tasks, AlreadyCancelling(t) PROVE WriterOwnsTheRun'
  BY <1>17, TasksAssumption
     DEF AlreadyCancelling, Ask, Goto, record, cancellations, abort, TypeOK, WriterOwnsTheRun,
         Holding, Busy, Desktop, DesktopOps, McpOps
<1>18. ASSUME NEW t \in Tasks, Unregistered(t) PROVE WriterOwnsTheRun'
  BY <1>18, TasksAssumption
     DEF Unregistered, Ask, Goto, record, cancellations, abort, TypeOK, WriterOwnsTheRun,
         Holding, Busy, Desktop, DesktopOps, McpOps
<1>19. ASSUME NEW t \in Tasks, Send(t) PROVE WriterOwnsTheRun'
  BY <1>19, TasksAssumption
     DEF Send, Goto, record, cancellations, abort, TypeOK, WriterOwnsTheRun, Holding, Busy,
         Desktop, DesktopOps, McpOps
<1>20. ASSUME NEW t \in Tasks, SendFails(t) PROVE WriterOwnsTheRun'
  BY <1>20, TasksAssumption
     DEF SendFails, Goto, record, cancellations, abort, TypeOK, WriterOwnsTheRun, Holding,
         Busy, Desktop, DesktopOps, McpOps
<1>21. ASSUME NEW t \in Tasks, RemoveDead(t) PROVE WriterOwnsTheRun'
  BY <1>21, TasksAssumption
     DEF RemoveDead, RemoveEntry, Goto, record, cancellations, abort, TypeOK, WriterOwnsTheRun,
         Holding, Busy, Desktop, DesktopOps, McpOps
<1>22. ASSUME NEW t \in Tasks, Inspect(t) PROVE WriterOwnsTheRun'
  BY <1>22, TasksAssumption
     DEF Inspect, Abandoned, Goto, record, cancellations, abort, TypeOK, WriterOwnsTheRun,
         Holding, Busy, Desktop, DesktopOps, McpOps
<1>23. ASSUME NEW t \in Tasks, LockToClean(t) PROVE WriterOwnsTheRun'
  BY <1>23, TasksAssumption
     DEF LockToClean, Goto, record, cancellations, abort, TypeOK, WriterOwnsTheRun, Holding,
         Busy, Desktop, DesktopOps, McpOps
<1>24. ASSUME NEW t \in Tasks, LockToDelete(t) PROVE WriterOwnsTheRun'
  BY <1>24, TasksAssumption
     DEF LockToDelete, TryLock, Ask, Goto, record, cancellations, abort, TypeOK,
         WriterOwnsTheRun, Holding, Busy, Desktop, DesktopOps, McpOps
<1>25. ASSUME NEW t \in Tasks, Delete(t) PROVE WriterOwnsTheRun'
  BY <1>25, TasksAssumption
     DEF Delete, Release, Goto, record, cancellations, abort, TypeOK, WriterOwnsTheRun,
         Holding, Busy, Desktop, DesktopOps, McpOps
<1>26. ASSUME NEW t \in Tasks, Disconnect(t) PROVE WriterOwnsTheRun'
  BY <1>26, TasksAssumption
     DEF Disconnect, Fault, Release, Desktop, Busy, Goto, record, cancellations, abort, TypeOK,
         WriterOwnsTheRun, Holding, DesktopOps, McpOps
<1>27. ASSUME NEW t \in Tasks, Panic(t) PROVE WriterOwnsTheRun'
  BY <1>27, TasksAssumption
     DEF Panic, Fault, Release, Desktop, Goto, record, cancellations, abort, TypeOK,
         WriterOwnsTheRun, Holding, Busy, DesktopOps, McpOps
<1>28. ASSUME NEW t \in Tasks, FailSave(t) PROVE WriterOwnsTheRun'
  BY <1>28, TasksAssumption
     DEF FailSave, Fault, Release, Desktop, Goto, record, cancellations, abort, TypeOK,
         WriterOwnsTheRun, Holding, Busy, DesktopOps, McpOps
<1>29. CASE Crash
  BY <1>29, TasksAssumption
     DEF Crash, Fault, Desktop, Busy, record, cancellations, abort, TypeOK, WriterOwnsTheRun,
         Holding, Busy, Desktop, DesktopOps, McpOps
<1>30. CASE UNCHANGED vars
  BY <1>30 DEF vars, TypeOK, WriterOwnsTheRun, Holding, Busy, Desktop, DesktopOps, McpOps
<1> QED
  BY <1>1, <1>2, <1>3, <1>4, <1>5, <1>6, <1>7, <1>8, <1>9, <1>10, <1>11, <1>12, <1>13, <1>14, <1>15, <1>16, <1>17, <1>18, <1>19, <1>20, <1>21, <1>22, <1>23, <1>24, <1>25, <1>26, <1>27, <1>28, <1>29, <1>30
     DEF Next, Execute, Abort, Remove, Break

(* An entry is removed by the task it was made for, before it returns.        *)
LEMMA EntryStep ==
    ASSUME TypeOK, EntryHasOwner, [Next]_vars
    PROVE  EntryHasOwner'
<1>1. ASSUME NEW t \in Tasks, NEW o, Create(t, o) PROVE EntryHasOwner'
  BY <1>1, TasksAssumption
     DEF Create, TryLock, Ask, Goto, record, cancellations, abort, TypeOK, EntryHasOwner,
         Registered, Desktop, DesktopOps, McpOps
<1>2. ASSUME NEW t \in Tasks, NEW o, Claim(t, o) PROVE EntryHasOwner'
  BY <1>2, TasksAssumption
     DEF Claim, TryLock, Ask, Goto, record, cancellations, abort, TypeOK, EntryHasOwner,
         Registered, Desktop, DesktopOps, McpOps
<1>3. ASSUME NEW t \in Tasks, Announce(t) PROVE EntryHasOwner'
  BY <1>3, TasksAssumption
     DEF Announce, Register, Goto, record, cancellations, abort, TypeOK, EntryHasOwner,
         Registered, Desktop, DesktopOps, McpOps
<1>4. ASSUME NEW t \in Tasks, Checkpoint(t) PROVE EntryHasOwner'
  BY <1>4, TasksAssumption
     DEF Checkpoint, Goto, record, cancellations, abort, TypeOK, EntryHasOwner, Registered,
         Desktop, DesktopOps, McpOps
<1>5. ASSUME NEW t \in Tasks, Finish(t) PROVE EntryHasOwner'
  BY <1>5, TasksAssumption
     DEF Finish, Release, Desktop, Goto, record, cancellations, abort, TypeOK, EntryHasOwner,
         Registered, DesktopOps, McpOps
<1>6. ASSUME NEW t \in Tasks, ResumeDesktop(t) PROVE EntryHasOwner'
  BY <1>6, TasksAssumption
     DEF ResumeDesktop, Register, Resumable, Goto, record, cancellations, abort, TypeOK,
         EntryHasOwner, Registered, Desktop, DesktopOps, McpOps
<1>7. ASSUME NEW t \in Tasks, ResumeMcp(t) PROVE EntryHasOwner'
  BY <1>7, TasksAssumption
     DEF ResumeMcp, Resumable, Goto, record, cancellations, abort, TypeOK, EntryHasOwner,
         Registered, Desktop, DesktopOps, McpOps
<1>8. ASSUME NEW t \in Tasks, Refuse(t) PROVE EntryHasOwner'
  BY <1>8, TasksAssumption
     DEF Refuse, Release, Goto, record, cancellations, abort, TypeOK, EntryHasOwner,
         Registered, Desktop, DesktopOps, McpOps
<1>9. ASSUME NEW t \in Tasks, Deregister(t) PROVE EntryHasOwner'
  BY <1>9, TasksAssumption
     DEF Deregister, RemoveEntry, Goto, record, cancellations, abort, TypeOK, EntryHasOwner,
         Registered, Desktop, DesktopOps, McpOps
<1>10. ASSUME NEW t \in Tasks, Return(t) PROVE EntryHasOwner'
  BY <1>10, TasksAssumption
     DEF Return, Release, Goto, record, cancellations, abort, TypeOK, EntryHasOwner,
         Registered, Desktop, DesktopOps, McpOps
<1>11. ASSUME NEW t \in Tasks, Abandon(t) PROVE EntryHasOwner'
  BY <1>11, TasksAssumption
     DEF Abandon, Release, Goto, record, cancellations, abort, TypeOK, EntryHasOwner,
         Registered, Desktop, DesktopOps, McpOps
<1>12. ASSUME NEW t \in Tasks, LockToMark(t) PROVE EntryHasOwner'
  BY <1>12, TasksAssumption
     DEF LockToMark, TryLock, Goto, record, cancellations, abort, TypeOK, EntryHasOwner,
         Registered, Desktop, DesktopOps, McpOps
<1>13. ASSUME NEW t \in Tasks, MarkRefused(t) PROVE EntryHasOwner'
  BY <1>13, TasksAssumption
     DEF MarkRefused, Goto, record, cancellations, abort, TypeOK, EntryHasOwner, Registered,
         Desktop, DesktopOps, McpOps
<1>14. ASSUME NEW t \in Tasks, Mark(t) PROVE EntryHasOwner'
  BY <1>14, TasksAssumption
     DEF Mark, Markable, Release, Goto, record, cancellations, abort, TypeOK, EntryHasOwner,
         Registered, Desktop, DesktopOps, McpOps
<1>15. ASSUME NEW t \in Tasks, Settle(t) PROVE EntryHasOwner'
  BY <1>15, TasksAssumption
     DEF Settle, RemoveEntry, Goto, record, cancellations, abort, TypeOK, EntryHasOwner,
         Registered, Desktop, DesktopOps, McpOps
<1>16. ASSUME NEW t \in Tasks, TakeSender(t) PROVE EntryHasOwner'
  BY <1>16, TasksAssumption
     DEF TakeSender, Ask, Goto, record, cancellations, abort, TypeOK, EntryHasOwner,
         Registered, Desktop, DesktopOps, McpOps
<1>17. ASSUME NEW t \in Tasks, AlreadyCancelling(t) PROVE EntryHasOwner'
  BY <1>17, TasksAssumption
     DEF AlreadyCancelling, Ask, Goto, record, cancellations, abort, TypeOK, EntryHasOwner,
         Registered, Desktop, DesktopOps, McpOps
<1>18. ASSUME NEW t \in Tasks, Unregistered(t) PROVE EntryHasOwner'
  BY <1>18, TasksAssumption
     DEF Unregistered, Ask, Goto, record, cancellations, abort, TypeOK, EntryHasOwner,
         Registered, Desktop, DesktopOps, McpOps
<1>19. ASSUME NEW t \in Tasks, Send(t) PROVE EntryHasOwner'
  BY <1>19, TasksAssumption
     DEF Send, Goto, record, cancellations, abort, TypeOK, EntryHasOwner, Registered, Desktop,
         DesktopOps, McpOps
<1>20. ASSUME NEW t \in Tasks, SendFails(t) PROVE EntryHasOwner'
  BY <1>20, TasksAssumption
     DEF SendFails, Goto, record, cancellations, abort, TypeOK, EntryHasOwner, Registered,
         Desktop, DesktopOps, McpOps
<1>21. ASSUME NEW t \in Tasks, RemoveDead(t) PROVE EntryHasOwner'
  BY <1>21, TasksAssumption
     DEF RemoveDead, RemoveEntry, Goto, record, cancellations, abort, TypeOK, EntryHasOwner,
         Registered, Desktop, DesktopOps, McpOps
<1>22. ASSUME NEW t \in Tasks, Inspect(t) PROVE EntryHasOwner'
  BY <1>22, TasksAssumption
     DEF Inspect, Abandoned, Goto, record, cancellations, abort, TypeOK, EntryHasOwner,
         Registered, Desktop, DesktopOps, McpOps
<1>23. ASSUME NEW t \in Tasks, LockToClean(t) PROVE EntryHasOwner'
  BY <1>23, TasksAssumption
     DEF LockToClean, Goto, record, cancellations, abort, TypeOK, EntryHasOwner, Registered,
         Desktop, DesktopOps, McpOps
<1>24. ASSUME NEW t \in Tasks, LockToDelete(t) PROVE EntryHasOwner'
  BY <1>24, TasksAssumption
     DEF LockToDelete, TryLock, Ask, Goto, record, cancellations, abort, TypeOK, EntryHasOwner,
         Registered, Desktop, DesktopOps, McpOps
<1>25. ASSUME NEW t \in Tasks, Delete(t) PROVE EntryHasOwner'
  BY <1>25, TasksAssumption
     DEF Delete, Release, Goto, record, cancellations, abort, TypeOK, EntryHasOwner,
         Registered, Desktop, DesktopOps, McpOps
<1>26. ASSUME NEW t \in Tasks, Disconnect(t) PROVE EntryHasOwner'
  BY <1>26, TasksAssumption
     DEF Disconnect, Fault, Release, Desktop, Busy, Goto, record, cancellations, abort, TypeOK,
         EntryHasOwner, Registered, DesktopOps, McpOps
<1>27. ASSUME NEW t \in Tasks, Panic(t) PROVE EntryHasOwner'
  BY <1>27, TasksAssumption
     DEF Panic, Fault, Release, Desktop, Goto, record, cancellations, abort, TypeOK,
         EntryHasOwner, Registered, DesktopOps, McpOps
<1>28. ASSUME NEW t \in Tasks, FailSave(t) PROVE EntryHasOwner'
  BY <1>28, TasksAssumption
     DEF FailSave, Fault, Release, Desktop, Goto, record, cancellations, abort, TypeOK,
         EntryHasOwner, Registered, DesktopOps, McpOps
<1>29. CASE Crash
  BY <1>29, TasksAssumption
     DEF Crash, Fault, Desktop, Busy, record, cancellations, abort, TypeOK, EntryHasOwner,
         Registered, Desktop, DesktopOps, McpOps
<1>30. CASE UNCHANGED vars
  BY <1>30 DEF vars, TypeOK, EntryHasOwner, Registered, Desktop, DesktopOps, McpOps
<1> QED
  BY <1>1, <1>2, <1>3, <1>4, <1>5, <1>6, <1>7, <1>8, <1>9, <1>10, <1>11, <1>12, <1>13, <1>14, <1>15, <1>16, <1>17, <1>18, <1>19, <1>20, <1>21, <1>22, <1>23, <1>24, <1>25, <1>26, <1>27, <1>28, <1>29, <1>30
     DEF Next, Execute, Abort, Remove, Break

(* There is one executor, so a new entry does not hide another; an entry that *)
(* is removed early wakes it.                                                 *)
LEMMA ReachStep ==
    ASSUME TypeOK, SendersExist, WriterOwnsTheRun, ExecutorsAreReachable, [Next]_vars
    PROVE  ExecutorsAreReachable'
<1>1. ASSUME NEW t \in Tasks, NEW o, Create(t, o) PROVE ExecutorsAreReachable'
  BY <1>1, TasksAssumption
     DEF Create, TryLock, Ask, Goto, record, cancellations, abort, TypeOK, SendersExist,
         WriterOwnsTheRun, Holding, ExecutorsAreReachable, Reachable, Desktop, DesktopOps,
         McpOps, Over
<1>2. ASSUME NEW t \in Tasks, NEW o, Claim(t, o) PROVE ExecutorsAreReachable'
  BY <1>2, TasksAssumption
     DEF Claim, TryLock, Ask, Goto, record, cancellations, abort, TypeOK, SendersExist,
         WriterOwnsTheRun, Holding, ExecutorsAreReachable, Reachable, Desktop, DesktopOps,
         McpOps, Over
<1>3. ASSUME NEW t \in Tasks, Announce(t) PROVE ExecutorsAreReachable'
  BY <1>3, TasksAssumption
     DEF Announce, Register, Goto, record, cancellations, abort, TypeOK, SendersExist,
         WriterOwnsTheRun, Holding, ExecutorsAreReachable, Reachable, Desktop, DesktopOps,
         McpOps, Over
<1>4. ASSUME NEW t \in Tasks, Checkpoint(t) PROVE ExecutorsAreReachable'
  BY <1>4, TasksAssumption
     DEF Checkpoint, Goto, record, cancellations, abort, TypeOK, SendersExist,
         WriterOwnsTheRun, Holding, ExecutorsAreReachable, Reachable, Desktop, DesktopOps,
         McpOps, Over
<1>5. ASSUME NEW t \in Tasks, Finish(t) PROVE ExecutorsAreReachable'
  BY <1>5, TasksAssumption
     DEF Finish, Release, Desktop, Goto, record, cancellations, abort, TypeOK, SendersExist,
         WriterOwnsTheRun, Holding, ExecutorsAreReachable, Reachable, DesktopOps, McpOps, Over
<1>6. ASSUME NEW t \in Tasks, ResumeDesktop(t) PROVE ExecutorsAreReachable'
  BY <1>6, TasksAssumption
     DEF ResumeDesktop, Register, Resumable, Goto, record, cancellations, abort, TypeOK,
         SendersExist, WriterOwnsTheRun, Holding, ExecutorsAreReachable, Reachable, Desktop,
         DesktopOps, McpOps, Over
<1>7. ASSUME NEW t \in Tasks, ResumeMcp(t) PROVE ExecutorsAreReachable'
  BY <1>7, TasksAssumption
     DEF ResumeMcp, Resumable, Goto, record, cancellations, abort, TypeOK, SendersExist,
         WriterOwnsTheRun, Holding, ExecutorsAreReachable, Reachable, Desktop, DesktopOps,
         McpOps, Over
<1>8. ASSUME NEW t \in Tasks, Refuse(t) PROVE ExecutorsAreReachable'
  BY <1>8, TasksAssumption
     DEF Refuse, Release, Goto, record, cancellations, abort, TypeOK, SendersExist,
         WriterOwnsTheRun, Holding, ExecutorsAreReachable, Reachable, Desktop, DesktopOps,
         McpOps, Over
<1>9. ASSUME NEW t \in Tasks, Deregister(t) PROVE ExecutorsAreReachable'
  BY <1>9, TasksAssumption
     DEF Deregister, RemoveEntry, Goto, record, cancellations, abort, TypeOK, SendersExist,
         WriterOwnsTheRun, Holding, ExecutorsAreReachable, Reachable, Desktop, DesktopOps,
         McpOps, Over
<1>10. ASSUME NEW t \in Tasks, Return(t) PROVE ExecutorsAreReachable'
  BY <1>10, TasksAssumption
     DEF Return, Release, Goto, record, cancellations, abort, TypeOK, SendersExist,
         WriterOwnsTheRun, Holding, ExecutorsAreReachable, Reachable, Desktop, DesktopOps,
         McpOps, Over
<1>11. ASSUME NEW t \in Tasks, Abandon(t) PROVE ExecutorsAreReachable'
  BY <1>11, TasksAssumption
     DEF Abandon, Release, Goto, record, cancellations, abort, TypeOK, SendersExist,
         WriterOwnsTheRun, Holding, ExecutorsAreReachable, Reachable, Desktop, DesktopOps,
         McpOps, Over
<1>12. ASSUME NEW t \in Tasks, LockToMark(t) PROVE ExecutorsAreReachable'
  BY <1>12, TasksAssumption
     DEF LockToMark, TryLock, Goto, record, cancellations, abort, TypeOK, SendersExist,
         WriterOwnsTheRun, Holding, ExecutorsAreReachable, Reachable, Desktop, DesktopOps,
         McpOps, Over
<1>13. ASSUME NEW t \in Tasks, MarkRefused(t) PROVE ExecutorsAreReachable'
  BY <1>13, TasksAssumption
     DEF MarkRefused, Goto, record, cancellations, abort, TypeOK, SendersExist,
         WriterOwnsTheRun, Holding, ExecutorsAreReachable, Reachable, Desktop, DesktopOps,
         McpOps, Over
<1>14. ASSUME NEW t \in Tasks, Mark(t) PROVE ExecutorsAreReachable'
  BY <1>14, TasksAssumption
     DEF Mark, Markable, Release, Goto, record, cancellations, abort, TypeOK, SendersExist,
         WriterOwnsTheRun, Holding, ExecutorsAreReachable, Reachable, Desktop, DesktopOps,
         McpOps, Over
<1>15. ASSUME NEW t \in Tasks, Settle(t) PROVE ExecutorsAreReachable'
  BY <1>15, TasksAssumption
     DEF Settle, RemoveEntry, Goto, record, cancellations, abort, TypeOK, SendersExist,
         WriterOwnsTheRun, Holding, ExecutorsAreReachable, Reachable, Desktop, DesktopOps,
         McpOps, Over
<1>16. ASSUME NEW t \in Tasks, TakeSender(t) PROVE ExecutorsAreReachable'
  BY <1>16, TasksAssumption
     DEF TakeSender, Ask, Goto, record, cancellations, abort, TypeOK, SendersExist,
         WriterOwnsTheRun, Holding, ExecutorsAreReachable, Reachable, Desktop, DesktopOps,
         McpOps, Over
<1>17. ASSUME NEW t \in Tasks, AlreadyCancelling(t) PROVE ExecutorsAreReachable'
  BY <1>17, TasksAssumption
     DEF AlreadyCancelling, Ask, Goto, record, cancellations, abort, TypeOK, SendersExist,
         WriterOwnsTheRun, Holding, ExecutorsAreReachable, Reachable, Desktop, DesktopOps,
         McpOps, Over
<1>18. ASSUME NEW t \in Tasks, Unregistered(t) PROVE ExecutorsAreReachable'
  BY <1>18, TasksAssumption
     DEF Unregistered, Ask, Goto, record, cancellations, abort, TypeOK, SendersExist,
         WriterOwnsTheRun, Holding, ExecutorsAreReachable, Reachable, Desktop, DesktopOps,
         McpOps, Over
<1>19. ASSUME NEW t \in Tasks, Send(t) PROVE ExecutorsAreReachable'
  BY <1>19, TasksAssumption
     DEF Send, Goto, record, cancellations, abort, TypeOK, SendersExist, WriterOwnsTheRun,
         Holding, ExecutorsAreReachable, Reachable, Desktop, DesktopOps, McpOps, Over
<1>20. ASSUME NEW t \in Tasks, SendFails(t) PROVE ExecutorsAreReachable'
  BY <1>20, TasksAssumption
     DEF SendFails, Goto, record, cancellations, abort, TypeOK, SendersExist, WriterOwnsTheRun,
         Holding, ExecutorsAreReachable, Reachable, Desktop, DesktopOps, McpOps, Over
<1>21. ASSUME NEW t \in Tasks, RemoveDead(t) PROVE ExecutorsAreReachable'
  BY <1>21, TasksAssumption
     DEF RemoveDead, RemoveEntry, Goto, record, cancellations, abort, TypeOK, SendersExist,
         WriterOwnsTheRun, Holding, ExecutorsAreReachable, Reachable, Desktop, DesktopOps,
         McpOps, Over
<1>22. ASSUME NEW t \in Tasks, Inspect(t) PROVE ExecutorsAreReachable'
  BY <1>22, TasksAssumption
     DEF Inspect, Abandoned, Goto, record, cancellations, abort, TypeOK, SendersExist,
         WriterOwnsTheRun, Holding, ExecutorsAreReachable, Reachable, Desktop, DesktopOps,
         McpOps, Over
<1>23. ASSUME NEW t \in Tasks, LockToClean(t) PROVE ExecutorsAreReachable'
  BY <1>23, TasksAssumption
     DEF LockToClean, Goto, record, cancellations, abort, TypeOK, SendersExist,
         WriterOwnsTheRun, Holding, ExecutorsAreReachable, Reachable, Desktop, DesktopOps,
         McpOps, Over
<1>24. ASSUME NEW t \in Tasks, LockToDelete(t) PROVE ExecutorsAreReachable'
  BY <1>24, TasksAssumption
     DEF LockToDelete, TryLock, Ask, Goto, record, cancellations, abort, TypeOK, SendersExist,
         WriterOwnsTheRun, Holding, ExecutorsAreReachable, Reachable, Desktop, DesktopOps,
         McpOps, Over
<1>25. ASSUME NEW t \in Tasks, Delete(t) PROVE ExecutorsAreReachable'
  BY <1>25, TasksAssumption
     DEF Delete, Release, Goto, record, cancellations, abort, TypeOK, SendersExist,
         WriterOwnsTheRun, Holding, ExecutorsAreReachable, Reachable, Desktop, DesktopOps,
         McpOps, Over
<1>26. ASSUME NEW t \in Tasks, Disconnect(t) PROVE ExecutorsAreReachable'
  BY <1>26, TasksAssumption
     DEF Disconnect, Fault, Release, Desktop, Busy, Goto, record, cancellations, abort, TypeOK,
         SendersExist, WriterOwnsTheRun, Holding, ExecutorsAreReachable, Reachable, DesktopOps,
         McpOps, Over
<1>27. ASSUME NEW t \in Tasks, Panic(t) PROVE ExecutorsAreReachable'
  BY <1>27, TasksAssumption
     DEF Panic, Fault, Release, Desktop, Goto, record, cancellations, abort, TypeOK,
         SendersExist, WriterOwnsTheRun, Holding, ExecutorsAreReachable, Reachable, DesktopOps,
         McpOps, Over
<1>28. ASSUME NEW t \in Tasks, FailSave(t) PROVE ExecutorsAreReachable'
  BY <1>28, TasksAssumption
     DEF FailSave, Fault, Release, Desktop, Goto, record, cancellations, abort, TypeOK,
         SendersExist, WriterOwnsTheRun, Holding, ExecutorsAreReachable, Reachable, DesktopOps,
         McpOps, Over
<1>29. CASE Crash
  BY <1>29, TasksAssumption
     DEF Crash, Fault, Desktop, Busy, record, cancellations, abort, TypeOK, SendersExist,
         WriterOwnsTheRun, Holding, ExecutorsAreReachable, Reachable, Desktop, DesktopOps,
         McpOps, Over
<1>30. CASE UNCHANGED vars
  BY <1>30
     DEF vars, TypeOK, SendersExist, WriterOwnsTheRun, Holding, ExecutorsAreReachable,
         Reachable, Desktop, DesktopOps, McpOps, Over
<1> QED
  BY <1>1, <1>2, <1>3, <1>4, <1>5, <1>6, <1>7, <1>8, <1>9, <1>10, <1>11, <1>12, <1>13, <1>14, <1>15, <1>16, <1>17, <1>18, <1>19, <1>20, <1>21, <1>22, <1>23, <1>24, <1>25, <1>26, <1>27, <1>28, <1>29, <1>30
     DEF Next, Execute, Abort, Remove, Break

(* Only the holder of the lock changes the record.                            *)
LEMMA OpenStep ==
    ASSUME TypeOK, WriterOwnsTheRun, ExecutedIsOpen, [Next]_vars
    PROVE  ExecutedIsOpen'
<1>1. ASSUME NEW t \in Tasks, NEW o, Create(t, o) PROVE ExecutedIsOpen'
  BY <1>1, TasksAssumption
     DEF Create, TryLock, Ask, Goto, record, cancellations, abort, TypeOK, WriterOwnsTheRun,
         Holding, ExecutedIsOpen
<1>2. ASSUME NEW t \in Tasks, NEW o, Claim(t, o) PROVE ExecutedIsOpen'
  BY <1>2, TasksAssumption
     DEF Claim, TryLock, Ask, Goto, record, cancellations, abort, TypeOK, WriterOwnsTheRun,
         Holding, ExecutedIsOpen
<1>3. ASSUME NEW t \in Tasks, Announce(t) PROVE ExecutedIsOpen'
  BY <1>3, TasksAssumption
     DEF Announce, Register, Goto, record, cancellations, abort, TypeOK, WriterOwnsTheRun,
         Holding, ExecutedIsOpen
<1>4. ASSUME NEW t \in Tasks, Checkpoint(t) PROVE ExecutedIsOpen'
  BY <1>4, TasksAssumption
     DEF Checkpoint, Goto, record, cancellations, abort, TypeOK, WriterOwnsTheRun, Holding,
         ExecutedIsOpen
<1>5. ASSUME NEW t \in Tasks, Finish(t) PROVE ExecutedIsOpen'
  BY <1>5, TasksAssumption
     DEF Finish, Release, Desktop, Goto, record, cancellations, abort, TypeOK,
         WriterOwnsTheRun, Holding, ExecutedIsOpen
<1>6. ASSUME NEW t \in Tasks, ResumeDesktop(t) PROVE ExecutedIsOpen'
  BY <1>6, TasksAssumption
     DEF ResumeDesktop, Register, Resumable, Goto, record, cancellations, abort, TypeOK,
         WriterOwnsTheRun, Holding, ExecutedIsOpen
<1>7. ASSUME NEW t \in Tasks, ResumeMcp(t) PROVE ExecutedIsOpen'
  BY <1>7, TasksAssumption
     DEF ResumeMcp, Resumable, Goto, record, cancellations, abort, TypeOK, WriterOwnsTheRun,
         Holding, ExecutedIsOpen
<1>8. ASSUME NEW t \in Tasks, Refuse(t) PROVE ExecutedIsOpen'
  BY <1>8, TasksAssumption
     DEF Refuse, Release, Goto, record, cancellations, abort, TypeOK, WriterOwnsTheRun,
         Holding, ExecutedIsOpen
<1>9. ASSUME NEW t \in Tasks, Deregister(t) PROVE ExecutedIsOpen'
  BY <1>9, TasksAssumption
     DEF Deregister, RemoveEntry, Goto, record, cancellations, abort, TypeOK, WriterOwnsTheRun,
         Holding, ExecutedIsOpen
<1>10. ASSUME NEW t \in Tasks, Return(t) PROVE ExecutedIsOpen'
  BY <1>10, TasksAssumption
     DEF Return, Release, Goto, record, cancellations, abort, TypeOK, WriterOwnsTheRun,
         Holding, ExecutedIsOpen
<1>11. ASSUME NEW t \in Tasks, Abandon(t) PROVE ExecutedIsOpen'
  BY <1>11, TasksAssumption
     DEF Abandon, Release, Goto, record, cancellations, abort, TypeOK, WriterOwnsTheRun,
         Holding, ExecutedIsOpen
<1>12. ASSUME NEW t \in Tasks, LockToMark(t) PROVE ExecutedIsOpen'
  BY <1>12, TasksAssumption
     DEF LockToMark, TryLock, Goto, record, cancellations, abort, TypeOK, WriterOwnsTheRun,
         Holding, ExecutedIsOpen
<1>13. ASSUME NEW t \in Tasks, MarkRefused(t) PROVE ExecutedIsOpen'
  BY <1>13, TasksAssumption
     DEF MarkRefused, Goto, record, cancellations, abort, TypeOK, WriterOwnsTheRun, Holding,
         ExecutedIsOpen
<1>14. ASSUME NEW t \in Tasks, Mark(t) PROVE ExecutedIsOpen'
  BY <1>14, TasksAssumption
     DEF Mark, Markable, Release, Goto, record, cancellations, abort, TypeOK, WriterOwnsTheRun,
         Holding, ExecutedIsOpen
<1>15. ASSUME NEW t \in Tasks, Settle(t) PROVE ExecutedIsOpen'
  BY <1>15, TasksAssumption
     DEF Settle, RemoveEntry, Goto, record, cancellations, abort, TypeOK, WriterOwnsTheRun,
         Holding, ExecutedIsOpen
<1>16. ASSUME NEW t \in Tasks, TakeSender(t) PROVE ExecutedIsOpen'
  BY <1>16, TasksAssumption
     DEF TakeSender, Ask, Goto, record, cancellations, abort, TypeOK, WriterOwnsTheRun,
         Holding, ExecutedIsOpen
<1>17. ASSUME NEW t \in Tasks, AlreadyCancelling(t) PROVE ExecutedIsOpen'
  BY <1>17, TasksAssumption
     DEF AlreadyCancelling, Ask, Goto, record, cancellations, abort, TypeOK, WriterOwnsTheRun,
         Holding, ExecutedIsOpen
<1>18. ASSUME NEW t \in Tasks, Unregistered(t) PROVE ExecutedIsOpen'
  BY <1>18, TasksAssumption
     DEF Unregistered, Ask, Goto, record, cancellations, abort, TypeOK, WriterOwnsTheRun,
         Holding, ExecutedIsOpen
<1>19. ASSUME NEW t \in Tasks, Send(t) PROVE ExecutedIsOpen'
  BY <1>19, TasksAssumption
     DEF Send, Goto, record, cancellations, abort, TypeOK, WriterOwnsTheRun, Holding,
         ExecutedIsOpen
<1>20. ASSUME NEW t \in Tasks, SendFails(t) PROVE ExecutedIsOpen'
  BY <1>20, TasksAssumption
     DEF SendFails, Goto, record, cancellations, abort, TypeOK, WriterOwnsTheRun, Holding,
         ExecutedIsOpen
<1>21. ASSUME NEW t \in Tasks, RemoveDead(t) PROVE ExecutedIsOpen'
  BY <1>21, TasksAssumption
     DEF RemoveDead, RemoveEntry, Goto, record, cancellations, abort, TypeOK, WriterOwnsTheRun,
         Holding, ExecutedIsOpen
<1>22. ASSUME NEW t \in Tasks, Inspect(t) PROVE ExecutedIsOpen'
  BY <1>22, TasksAssumption
     DEF Inspect, Abandoned, Goto, record, cancellations, abort, TypeOK, WriterOwnsTheRun,
         Holding, ExecutedIsOpen
<1>23. ASSUME NEW t \in Tasks, LockToClean(t) PROVE ExecutedIsOpen'
  BY <1>23, TasksAssumption
     DEF LockToClean, Goto, record, cancellations, abort, TypeOK, WriterOwnsTheRun, Holding,
         ExecutedIsOpen
<1>24. ASSUME NEW t \in Tasks, LockToDelete(t) PROVE ExecutedIsOpen'
  BY <1>24, TasksAssumption
     DEF LockToDelete, TryLock, Ask, Goto, record, cancellations, abort, TypeOK,
         WriterOwnsTheRun, Holding, ExecutedIsOpen
<1>25. ASSUME NEW t \in Tasks, Delete(t) PROVE ExecutedIsOpen'
  BY <1>25, TasksAssumption
     DEF Delete, Release, Goto, record, cancellations, abort, TypeOK, WriterOwnsTheRun,
         Holding, ExecutedIsOpen
<1>26. ASSUME NEW t \in Tasks, Disconnect(t) PROVE ExecutedIsOpen'
  BY <1>26, TasksAssumption
     DEF Disconnect, Fault, Release, Desktop, Busy, Goto, record, cancellations, abort, TypeOK,
         WriterOwnsTheRun, Holding, ExecutedIsOpen
<1>27. ASSUME NEW t \in Tasks, Panic(t) PROVE ExecutedIsOpen'
  BY <1>27, TasksAssumption
     DEF Panic, Fault, Release, Desktop, Goto, record, cancellations, abort, TypeOK,
         WriterOwnsTheRun, Holding, ExecutedIsOpen
<1>28. ASSUME NEW t \in Tasks, FailSave(t) PROVE ExecutedIsOpen'
  BY <1>28, TasksAssumption
     DEF FailSave, Fault, Release, Desktop, Goto, record, cancellations, abort, TypeOK,
         WriterOwnsTheRun, Holding, ExecutedIsOpen
<1>29. CASE Crash
  BY <1>29, TasksAssumption
     DEF Crash, Fault, Desktop, Busy, record, cancellations, abort, TypeOK, WriterOwnsTheRun,
         Holding, ExecutedIsOpen
<1>30. CASE UNCHANGED vars
  BY <1>30 DEF vars, TypeOK, WriterOwnsTheRun, Holding, ExecutedIsOpen
<1> QED
  BY <1>1, <1>2, <1>3, <1>4, <1>5, <1>6, <1>7, <1>8, <1>9, <1>10, <1>11, <1>12, <1>13, <1>14, <1>15, <1>16, <1>17, <1>18, <1>19, <1>20, <1>21, <1>22, <1>23, <1>24, <1>25, <1>26, <1>27, <1>28, <1>29, <1>30
     DEF Next, Execute, Abort, Remove, Break

(* The last task that works on a run says how it ended, or marks it.          *)
LEMMA ReasonStep ==
    ASSUME TypeOK, RunningHasReason, [Next]_vars
    PROVE  RunningHasReason'
<1>1. ASSUME NEW t \in Tasks, NEW o, Create(t, o) PROVE RunningHasReason'
  BY <1>1, TasksAssumption
     DEF Create, TryLock, Ask, Goto, record, cancellations, abort, TypeOK, RunningHasReason
<1>2. ASSUME NEW t \in Tasks, NEW o, Claim(t, o) PROVE RunningHasReason'
  BY <1>2, TasksAssumption
     DEF Claim, TryLock, Ask, Goto, record, cancellations, abort, TypeOK, RunningHasReason
<1>3. ASSUME NEW t \in Tasks, Announce(t) PROVE RunningHasReason'
  BY <1>3, TasksAssumption
     DEF Announce, Register, Goto, record, cancellations, abort, TypeOK, RunningHasReason
<1>4. ASSUME NEW t \in Tasks, Checkpoint(t) PROVE RunningHasReason'
  BY <1>4, TasksAssumption
     DEF Checkpoint, Goto, record, cancellations, abort, TypeOK, RunningHasReason
<1>5. ASSUME NEW t \in Tasks, Finish(t) PROVE RunningHasReason'
  BY <1>5, TasksAssumption
     DEF Finish, Release, Desktop, Goto, record, cancellations, abort, TypeOK,
         RunningHasReason
<1>6. ASSUME NEW t \in Tasks, ResumeDesktop(t) PROVE RunningHasReason'
  BY <1>6, TasksAssumption
     DEF ResumeDesktop, Register, Resumable, Goto, record, cancellations, abort, TypeOK,
         RunningHasReason
<1>7. ASSUME NEW t \in Tasks, ResumeMcp(t) PROVE RunningHasReason'
  BY <1>7, TasksAssumption
     DEF ResumeMcp, Resumable, Goto, record, cancellations, abort, TypeOK, RunningHasReason
<1>8. ASSUME NEW t \in Tasks, Refuse(t) PROVE RunningHasReason'
  BY <1>8, TasksAssumption
     DEF Refuse, Release, Goto, record, cancellations, abort, TypeOK, RunningHasReason
<1>9. ASSUME NEW t \in Tasks, Deregister(t) PROVE RunningHasReason'
  BY <1>9, TasksAssumption
     DEF Deregister, RemoveEntry, Goto, record, cancellations, abort, TypeOK, RunningHasReason
<1>10. ASSUME NEW t \in Tasks, Return(t) PROVE RunningHasReason'
  BY <1>10, TasksAssumption
     DEF Return, Release, Goto, record, cancellations, abort, TypeOK, RunningHasReason
<1>11. ASSUME NEW t \in Tasks, Abandon(t) PROVE RunningHasReason'
  BY <1>11, TasksAssumption
     DEF Abandon, Release, Goto, record, cancellations, abort, TypeOK, RunningHasReason
<1>12. ASSUME NEW t \in Tasks, LockToMark(t) PROVE RunningHasReason'
  BY <1>12, TasksAssumption
     DEF LockToMark, TryLock, Goto, record, cancellations, abort, TypeOK, RunningHasReason
<1>13. ASSUME NEW t \in Tasks, MarkRefused(t) PROVE RunningHasReason'
  BY <1>13, TasksAssumption
     DEF MarkRefused, Goto, record, cancellations, abort, TypeOK, RunningHasReason
<1>14. ASSUME NEW t \in Tasks, Mark(t) PROVE RunningHasReason'
  BY <1>14, TasksAssumption
     DEF Mark, Markable, Release, Goto, record, cancellations, abort, TypeOK, RunningHasReason
<1>15. ASSUME NEW t \in Tasks, Settle(t) PROVE RunningHasReason'
  BY <1>15, TasksAssumption
     DEF Settle, RemoveEntry, Goto, record, cancellations, abort, TypeOK, RunningHasReason
<1>16. ASSUME NEW t \in Tasks, TakeSender(t) PROVE RunningHasReason'
  BY <1>16, TasksAssumption
     DEF TakeSender, Ask, Goto, record, cancellations, abort, TypeOK, RunningHasReason
<1>17. ASSUME NEW t \in Tasks, AlreadyCancelling(t) PROVE RunningHasReason'
  BY <1>17, TasksAssumption
     DEF AlreadyCancelling, Ask, Goto, record, cancellations, abort, TypeOK, RunningHasReason
<1>18. ASSUME NEW t \in Tasks, Unregistered(t) PROVE RunningHasReason'
  BY <1>18, TasksAssumption
     DEF Unregistered, Ask, Goto, record, cancellations, abort, TypeOK, RunningHasReason
<1>19. ASSUME NEW t \in Tasks, Send(t) PROVE RunningHasReason'
  BY <1>19, TasksAssumption
     DEF Send, Goto, record, cancellations, abort, TypeOK, RunningHasReason
<1>20. ASSUME NEW t \in Tasks, SendFails(t) PROVE RunningHasReason'
  BY <1>20, TasksAssumption
     DEF SendFails, Goto, record, cancellations, abort, TypeOK, RunningHasReason
<1>21. ASSUME NEW t \in Tasks, RemoveDead(t) PROVE RunningHasReason'
  BY <1>21, TasksAssumption
     DEF RemoveDead, RemoveEntry, Goto, record, cancellations, abort, TypeOK, RunningHasReason
<1>22. ASSUME NEW t \in Tasks, Inspect(t) PROVE RunningHasReason'
  BY <1>22, TasksAssumption
     DEF Inspect, Abandoned, Goto, record, cancellations, abort, TypeOK, RunningHasReason
<1>23. ASSUME NEW t \in Tasks, LockToClean(t) PROVE RunningHasReason'
  BY <1>23, TasksAssumption
     DEF LockToClean, Goto, record, cancellations, abort, TypeOK, RunningHasReason
<1>24. ASSUME NEW t \in Tasks, LockToDelete(t) PROVE RunningHasReason'
  BY <1>24, TasksAssumption
     DEF LockToDelete, TryLock, Ask, Goto, record, cancellations, abort, TypeOK,
         RunningHasReason
<1>25. ASSUME NEW t \in Tasks, Delete(t) PROVE RunningHasReason'
  BY <1>25, TasksAssumption
     DEF Delete, Release, Goto, record, cancellations, abort, TypeOK, RunningHasReason
<1>26. ASSUME NEW t \in Tasks, Disconnect(t) PROVE RunningHasReason'
  BY <1>26, TasksAssumption
     DEF Disconnect, Fault, Release, Desktop, Busy, Goto, record, cancellations, abort, TypeOK,
         RunningHasReason
<1>27. ASSUME NEW t \in Tasks, Panic(t) PROVE RunningHasReason'
  BY <1>27, TasksAssumption
     DEF Panic, Fault, Release, Desktop, Goto, record, cancellations, abort, TypeOK,
         RunningHasReason
<1>28. ASSUME NEW t \in Tasks, FailSave(t) PROVE RunningHasReason'
  BY <1>28, TasksAssumption
     DEF FailSave, Fault, Release, Desktop, Goto, record, cancellations, abort, TypeOK,
         RunningHasReason
<1>29. CASE Crash
  BY <1>29, TasksAssumption
     DEF Crash, Fault, Desktop, Busy, record, cancellations, abort, TypeOK, RunningHasReason
<1>30. CASE UNCHANGED vars
  BY <1>30 DEF vars, TypeOK, RunningHasReason
<1> QED
  BY <1>1, <1>2, <1>3, <1>4, <1>5, <1>6, <1>7, <1>8, <1>9, <1>10, <1>11, <1>12, <1>13, <1>14, <1>15, <1>16, <1>17, <1>18, <1>19, <1>20, <1>21, <1>22, <1>23, <1>24, <1>25, <1>26, <1>27, <1>28, <1>29, <1>30
     DEF Next, Execute, Abort, Remove, Break

THEOREM LifecycleInvariant == Spec => []LifecycleInv
<1>1. ASSUME LifecycleInv, [Next]_vars
      PROVE  LifecycleInv'
  BY <1>1, TypeStep, SenderStep, OwnerStep, EntryStep, ReachStep, OpenStep, ReasonStep
     DEF LifecycleInv
<1> QED
  BY <1>1, LifecycleInit, PTL DEF Spec

(***************************************************************************)
(* Theorems                                                                *)
(***************************************************************************)
(* Types of the record, the lock, the registry and every task.                *)
THEOREM TypeCorrect == Spec => []TypeOK
<1>1. LifecycleInv => TypeOK
  BY DEF LifecycleInv
<1> QED
  BY <1>1, LifecycleInvariant, PTL

(* Nobody writes a record, or relies on one it has read, without the lock of   *)
(* its run.                                                                  *)
THEOREM WritersOwnTheRun == Spec => []WriterOwnsTheRun
<1>1. LifecycleInv => WriterOwnsTheRun
  BY DEF LifecycleInv
<1> QED
  BY <1>1, LifecycleInvariant, PTL

(* An executor of the desktop can be aborted, and no entry is left by a task   *)
(* that returned, in every interleaving of executions, aborts and deletions.  *)
THEOREM RegistryAlwaysMatchesExecution == Spec => []RegistryMatchesExecution
<1>1. LifecycleInv => RegistryMatchesExecution
  BY DEF LifecycleInv, ExecutorsAreReachable, EntryHasOwner, RegistryMatchesExecution, Desktop,
         DesktopOps
<1> QED
  BY <1>1, LifecycleInvariant, PTL

(* Without a fault no record is left running while nobody works on it, except  *)
(* by an abort that met the lock held.                                        *)
THEOREM RunningIsAlwaysWorkedOn == Spec => []RunningIsWorkedOn
<1>1. LifecycleInv => RunningIsWorkedOn
  BY TasksAssumption
     DEF LifecycleInv, RunningHasReason, WriterOwnsTheRun, Holding, RunningIsWorkedOn
<1> QED
  BY <1>1, LifecycleInvariant, PTL

(* The record implements its contract: whoever changes it holds the lock, has  *)
(* read what it says, and goes where the contract allows.                      *)
THEOREM RecordIsRefined == Spec => RecordKeepsContract
<1>1. Init => Record!Init
  BY DEF Init, Record!Init, Record!Absent
<1>2. ASSUME LifecycleInv, [Next]_vars
      PROVE  [Record!Next]_status
  <2>1. ASSUME NEW t \in Tasks, NEW o, Create(t, o) PROVE [Record!Next]_status
    BY <2>1, <1>2, TasksAssumption
       DEF Create, TryLock, Ask, Goto, record, cancellations, abort, LifecycleInv, TypeOK,
           ExecutedIsOpen, Record!Next, Record!Create, Record!Proceed, Record!Resume,
           Record!Delete, Record!Absent, Record!Deleted, Record!Ended
  <2>2. ASSUME NEW t \in Tasks, NEW o, Claim(t, o) PROVE [Record!Next]_status
    BY <2>2, <1>2, TasksAssumption
       DEF Claim, TryLock, Ask, Goto, record, cancellations, abort, LifecycleInv, TypeOK,
           ExecutedIsOpen, Record!Next, Record!Create, Record!Proceed, Record!Resume,
           Record!Delete, Record!Absent, Record!Deleted, Record!Ended
  <2>3. ASSUME NEW t \in Tasks, Announce(t) PROVE [Record!Next]_status
    BY <2>3, <1>2, TasksAssumption
       DEF Announce, Register, Goto, record, cancellations, abort, LifecycleInv, TypeOK,
           ExecutedIsOpen, Record!Next, Record!Create, Record!Proceed, Record!Resume,
           Record!Delete, Record!Absent, Record!Deleted, Record!Ended
  <2>4. ASSUME NEW t \in Tasks, Checkpoint(t) PROVE [Record!Next]_status
    BY <2>4, <1>2, TasksAssumption
       DEF Checkpoint, Goto, record, cancellations, abort, LifecycleInv, TypeOK,
           ExecutedIsOpen, Record!Next, Record!Create, Record!Proceed, Record!Resume,
           Record!Delete, Record!Absent, Record!Deleted, Record!Ended
  <2>5. ASSUME NEW t \in Tasks, Finish(t) PROVE [Record!Next]_status
    BY <2>5, <1>2, TasksAssumption
       DEF Finish, Release, Desktop, Goto, record, cancellations, abort, LifecycleInv, TypeOK,
           ExecutedIsOpen, Record!Next, Record!Create, Record!Proceed, Record!Resume,
           Record!Delete, Record!Absent, Record!Deleted, Record!Ended
  <2>6. ASSUME NEW t \in Tasks, ResumeDesktop(t) PROVE [Record!Next]_status
    BY <2>6, <1>2, TasksAssumption
       DEF ResumeDesktop, Register, Resumable, Goto, record, cancellations, abort,
           LifecycleInv, TypeOK, ExecutedIsOpen, Record!Next, Record!Create, Record!Proceed,
           Record!Resume, Record!Delete, Record!Absent, Record!Deleted, Record!Ended
  <2>7. ASSUME NEW t \in Tasks, ResumeMcp(t) PROVE [Record!Next]_status
    BY <2>7, <1>2, TasksAssumption
       DEF ResumeMcp, Resumable, Goto, record, cancellations, abort, LifecycleInv, TypeOK,
           ExecutedIsOpen, Record!Next, Record!Create, Record!Proceed, Record!Resume,
           Record!Delete, Record!Absent, Record!Deleted, Record!Ended
  <2>8. ASSUME NEW t \in Tasks, Refuse(t) PROVE [Record!Next]_status
    BY <2>8, <1>2, TasksAssumption
       DEF Refuse, Release, Goto, record, cancellations, abort, LifecycleInv, TypeOK,
           ExecutedIsOpen, Record!Next, Record!Create, Record!Proceed, Record!Resume,
           Record!Delete, Record!Absent, Record!Deleted, Record!Ended
  <2>9. ASSUME NEW t \in Tasks, Deregister(t) PROVE [Record!Next]_status
    BY <2>9, <1>2, TasksAssumption
       DEF Deregister, RemoveEntry, Goto, record, cancellations, abort, LifecycleInv, TypeOK,
           ExecutedIsOpen, Record!Next, Record!Create, Record!Proceed, Record!Resume,
           Record!Delete, Record!Absent, Record!Deleted, Record!Ended
  <2>10. ASSUME NEW t \in Tasks, Return(t) PROVE [Record!Next]_status
    BY <2>10, <1>2, TasksAssumption
       DEF Return, Release, Goto, record, cancellations, abort, LifecycleInv, TypeOK,
           ExecutedIsOpen, Record!Next, Record!Create, Record!Proceed, Record!Resume,
           Record!Delete, Record!Absent, Record!Deleted, Record!Ended
  <2>11. ASSUME NEW t \in Tasks, Abandon(t) PROVE [Record!Next]_status
    BY <2>11, <1>2, TasksAssumption
       DEF Abandon, Release, Goto, record, cancellations, abort, LifecycleInv, TypeOK,
           ExecutedIsOpen, Record!Next, Record!Create, Record!Proceed, Record!Resume,
           Record!Delete, Record!Absent, Record!Deleted, Record!Ended
  <2>12. ASSUME NEW t \in Tasks, LockToMark(t) PROVE [Record!Next]_status
    BY <2>12, <1>2, TasksAssumption
       DEF LockToMark, TryLock, Goto, record, cancellations, abort, LifecycleInv, TypeOK,
           ExecutedIsOpen, Record!Next, Record!Create, Record!Proceed, Record!Resume,
           Record!Delete, Record!Absent, Record!Deleted, Record!Ended
  <2>13. ASSUME NEW t \in Tasks, MarkRefused(t) PROVE [Record!Next]_status
    BY <2>13, <1>2, TasksAssumption
       DEF MarkRefused, Goto, record, cancellations, abort, LifecycleInv, TypeOK,
           ExecutedIsOpen, Record!Next, Record!Create, Record!Proceed, Record!Resume,
           Record!Delete, Record!Absent, Record!Deleted, Record!Ended
  <2>14. ASSUME NEW t \in Tasks, Mark(t) PROVE [Record!Next]_status
    BY <2>14, <1>2, TasksAssumption
       DEF Mark, Markable, Release, Goto, record, cancellations, abort, LifecycleInv, TypeOK,
           ExecutedIsOpen, Record!Next, Record!Create, Record!Proceed, Record!Resume,
           Record!Delete, Record!Absent, Record!Deleted, Record!Ended
  <2>15. ASSUME NEW t \in Tasks, Settle(t) PROVE [Record!Next]_status
    BY <2>15, <1>2, TasksAssumption
       DEF Settle, RemoveEntry, Goto, record, cancellations, abort, LifecycleInv, TypeOK,
           ExecutedIsOpen, Record!Next, Record!Create, Record!Proceed, Record!Resume,
           Record!Delete, Record!Absent, Record!Deleted, Record!Ended
  <2>16. ASSUME NEW t \in Tasks, TakeSender(t) PROVE [Record!Next]_status
    BY <2>16, <1>2, TasksAssumption
       DEF TakeSender, Ask, Goto, record, cancellations, abort, LifecycleInv, TypeOK,
           ExecutedIsOpen, Record!Next, Record!Create, Record!Proceed, Record!Resume,
           Record!Delete, Record!Absent, Record!Deleted, Record!Ended
  <2>17. ASSUME NEW t \in Tasks, AlreadyCancelling(t) PROVE [Record!Next]_status
    BY <2>17, <1>2, TasksAssumption
       DEF AlreadyCancelling, Ask, Goto, record, cancellations, abort, LifecycleInv, TypeOK,
           ExecutedIsOpen, Record!Next, Record!Create, Record!Proceed, Record!Resume,
           Record!Delete, Record!Absent, Record!Deleted, Record!Ended
  <2>18. ASSUME NEW t \in Tasks, Unregistered(t) PROVE [Record!Next]_status
    BY <2>18, <1>2, TasksAssumption
       DEF Unregistered, Ask, Goto, record, cancellations, abort, LifecycleInv, TypeOK,
           ExecutedIsOpen, Record!Next, Record!Create, Record!Proceed, Record!Resume,
           Record!Delete, Record!Absent, Record!Deleted, Record!Ended
  <2>19. ASSUME NEW t \in Tasks, Send(t) PROVE [Record!Next]_status
    BY <2>19, <1>2, TasksAssumption
       DEF Send, Goto, record, cancellations, abort, LifecycleInv, TypeOK, ExecutedIsOpen,
           Record!Next, Record!Create, Record!Proceed, Record!Resume, Record!Delete,
           Record!Absent, Record!Deleted, Record!Ended
  <2>20. ASSUME NEW t \in Tasks, SendFails(t) PROVE [Record!Next]_status
    BY <2>20, <1>2, TasksAssumption
       DEF SendFails, Goto, record, cancellations, abort, LifecycleInv, TypeOK, ExecutedIsOpen,
           Record!Next, Record!Create, Record!Proceed, Record!Resume, Record!Delete,
           Record!Absent, Record!Deleted, Record!Ended
  <2>21. ASSUME NEW t \in Tasks, RemoveDead(t) PROVE [Record!Next]_status
    BY <2>21, <1>2, TasksAssumption
       DEF RemoveDead, RemoveEntry, Goto, record, cancellations, abort, LifecycleInv, TypeOK,
           ExecutedIsOpen, Record!Next, Record!Create, Record!Proceed, Record!Resume,
           Record!Delete, Record!Absent, Record!Deleted, Record!Ended
  <2>22. ASSUME NEW t \in Tasks, Inspect(t) PROVE [Record!Next]_status
    BY <2>22, <1>2, TasksAssumption
       DEF Inspect, Abandoned, Goto, record, cancellations, abort, LifecycleInv, TypeOK,
           ExecutedIsOpen, Record!Next, Record!Create, Record!Proceed, Record!Resume,
           Record!Delete, Record!Absent, Record!Deleted, Record!Ended
  <2>23. ASSUME NEW t \in Tasks, LockToClean(t) PROVE [Record!Next]_status
    BY <2>23, <1>2, TasksAssumption
       DEF LockToClean, Goto, record, cancellations, abort, LifecycleInv, TypeOK,
           ExecutedIsOpen, Record!Next, Record!Create, Record!Proceed, Record!Resume,
           Record!Delete, Record!Absent, Record!Deleted, Record!Ended
  <2>24. ASSUME NEW t \in Tasks, LockToDelete(t) PROVE [Record!Next]_status
    BY <2>24, <1>2, TasksAssumption
       DEF LockToDelete, TryLock, Ask, Goto, record, cancellations, abort, LifecycleInv,
           TypeOK, ExecutedIsOpen, Record!Next, Record!Create, Record!Proceed, Record!Resume,
           Record!Delete, Record!Absent, Record!Deleted, Record!Ended
  <2>25. ASSUME NEW t \in Tasks, Delete(t) PROVE [Record!Next]_status
    BY <2>25, <1>2, TasksAssumption
       DEF Delete, Release, Goto, record, cancellations, abort, LifecycleInv, TypeOK,
           ExecutedIsOpen, Record!Next, Record!Create, Record!Proceed, Record!Resume,
           Record!Delete, Record!Absent, Record!Deleted, Record!Ended
  <2>26. ASSUME NEW t \in Tasks, Disconnect(t) PROVE [Record!Next]_status
    BY <2>26, <1>2, TasksAssumption
       DEF Disconnect, Fault, Release, Desktop, Busy, Goto, record, cancellations, abort,
           LifecycleInv, TypeOK, ExecutedIsOpen, Record!Next, Record!Create, Record!Proceed,
           Record!Resume, Record!Delete, Record!Absent, Record!Deleted, Record!Ended
  <2>27. ASSUME NEW t \in Tasks, Panic(t) PROVE [Record!Next]_status
    BY <2>27, <1>2, TasksAssumption
       DEF Panic, Fault, Release, Desktop, Goto, record, cancellations, abort, LifecycleInv,
           TypeOK, ExecutedIsOpen, Record!Next, Record!Create, Record!Proceed, Record!Resume,
           Record!Delete, Record!Absent, Record!Deleted, Record!Ended
  <2>28. ASSUME NEW t \in Tasks, FailSave(t) PROVE [Record!Next]_status
    BY <2>28, <1>2, TasksAssumption
       DEF FailSave, Fault, Release, Desktop, Goto, record, cancellations, abort, LifecycleInv,
           TypeOK, ExecutedIsOpen, Record!Next, Record!Create, Record!Proceed, Record!Resume,
           Record!Delete, Record!Absent, Record!Deleted, Record!Ended
  <2>29. CASE Crash
    BY <2>29, <1>2, TasksAssumption
       DEF Crash, Fault, Desktop, Busy, record, cancellations, abort, LifecycleInv, TypeOK,
           ExecutedIsOpen, Record!Next, Record!Create, Record!Proceed, Record!Resume,
           Record!Delete, Record!Absent, Record!Deleted, Record!Ended
  <2>30. CASE UNCHANGED vars
    BY <2>30
       DEF vars, LifecycleInv, TypeOK, ExecutedIsOpen, Record!Next, Record!Create,
           Record!Proceed, Record!Resume, Record!Delete, Record!Absent, Record!Deleted,
           Record!Ended
  <2> QED
    BY <1>2, <2>1, <2>2, <2>3, <2>4, <2>5, <2>6, <2>7, <2>8, <2>9, <2>10, <2>11, <2>12, <2>13, <2>14, <2>15, <2>16, <2>17, <2>18, <2>19, <2>20, <2>21, <2>22, <2>23, <2>24, <2>25, <2>26, <2>27, <2>28, <2>29, <2>30
       DEF Next, Execute, Abort, Remove, Break
<1> QED
  BY <1>1, <1>2, LifecycleInvariant, PTL DEF Spec, RecordKeepsContract, Record!Spec
=============================================================================
