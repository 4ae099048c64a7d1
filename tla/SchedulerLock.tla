---------------------------- MODULE SchedulerLock ----------------------------
(***************************************************************************)
(* The lock file that elects the one process that runs the schedules        *)
(* (app/scheduler_lock.rs): created with create_new, kept fresh by a        *)
(* heartbeat thread, taken over by renaming a stale file away.               *)
(*                                                                         *)
(* Only the file at the canonical path matters: an owner whose file was     *)
(* renamed keeps writing to the renamed one, and does not learn of it.  A    *)
(* file that is empty or half written counts by its modification time, which *)
(* is that of the heartbeat: one timestamp stands for both.  A heartbeat may *)
(* come late or, after a write error, never again: none is ever due.          *)
(***************************************************************************)
EXTENDS Naturals, FiniteSets

CONSTANTS Processes,
          Nobody,       \* not one of them: whose token no process has
          Lease,        \* LOCK_LEASE
          Attempts,     \* ACQUIRE_ATTEMPTS
          MaxTime,      \* bound on the clock
          MaxStarts     \* bound on the launches

ASSUME LockAssumption ==
    /\ Nobody \notin Processes
    /\ Lease \in Nat \ {0} /\ Attempts \in Nat \ {0}
    /\ MaxTime \in Nat /\ MaxStarts \in Nat

Time   == 0..MaxTime
NoFile == [by |-> Nobody, at |-> MaxTime + 1]
(* A lock file: who wrote it, with what heartbeat.                           *)
Locks  == [by : Processes \union {Nobody}, at : Time]

VARIABLES clock,
          lockFile,   \* the file at the canonical path, or NoFile
          pc,         \* where each process is
          attempts,   \* tries of the acquisition under way
          starts,     \* launches so far
          disturbed   \* history: the file of a process that schedules expired,
                      \* or a fresh file was renamed away

(* "off"       not running                                                   *)
(* "creating", "reading", "stale"   acquiring: about to create, to read the   *)
(*             file that is there, to rename it                              *)
(* "owner"     runs the schedules                                            *)
(* "held", "failed"   runs without them                                      *)
(* "releasing", "removing", "closing"   shutting down: heartbeat stopped, own *)
(*             token read, lock gone; its tasks live until the runtime ends    *)
Acquiring == {"creating", "reading", "stale"}
Scheduling == {"owner", "releasing", "removing", "closing"}
Points    == Acquiring \union Scheduling \union {"off", "held", "failed"}

Looping(p) == pc[p] \in Scheduling

lockVars == <<clock, lockFile, pc, attempts, starts, disturbed>>

LockInit ==
    /\ clock    = 0
    /\ lockFile = NoFile
    /\ pc       = [p \in Processes |-> "off"]
    /\ attempts = [p \in Processes |-> 0]
    /\ starts   = 0
    /\ disturbed = FALSE

Tried(p, n) == attempts' = [attempts EXCEPT ![p] = n]

Goto(p, from, to) == pc[p] = from /\ pc' = [pc EXCEPT ![p] = to]
(* Flawed form: expired at the very end of the lease.                         *)
HastyFresh == lockFile # NoFile /\ clock < lockFile.at + Lease

Fresh == lockFile # NoFile /\ clock <= lockFile.at + Lease

Start(p) ==
    /\ Goto(p, "off", "creating")
    /\ starts < MaxStarts
    /\ starts' = starts + 1
    /\ UNCHANGED <<clock, lockFile, attempts, disturbed>>

(* create_new succeeds on one of several starters.                            *)
Create(p) ==
    /\ Goto(p, "creating", "owner")
    /\ lockFile = NoFile
    /\ lockFile' = [by |-> p, at |-> clock]
    /\ Tried(p, 0)
    /\ UNCHANGED <<clock, starts, disturbed>>

Exists(p) ==
    /\ Goto(p, "creating", "reading")
    /\ lockFile # NoFile
    /\ UNCHANGED <<clock, lockFile, attempts, starts, disturbed>>

(* A fresh file keeps this process from scheduling for good.                  *)
Defer(p) ==
    /\ Goto(p, "reading", "held")
    /\ Fresh
    /\ Tried(p, 0)
    /\ UNCHANGED <<clock, lockFile, starts, disturbed>>

(* A file that has expired, or has just disappeared, is renamed away.         *)
FindStale(p) ==
    /\ Goto(p, "reading", "stale")
    /\ ~Fresh
    /\ UNCHANGED <<clock, lockFile, attempts, starts, disturbed>>

(* rename takes whatever is at the path by now.                               *)
Rename(p) ==
    /\ Goto(p, "stale", IF attempts[p] + 1 = Attempts THEN "failed" ELSE "creating")
    /\ lockFile' = NoFile
    /\ Tried(p, IF attempts[p] + 1 = Attempts THEN 0 ELSE attempts[p] + 1)
    /\ disturbed' = (disturbed \/ Fresh)
    /\ UNCHANGED <<clock, starts>>

Heartbeat(p) ==
    /\ pc[p] = "owner"
    /\ lockFile.by = p
    /\ lockFile' = [lockFile EXCEPT !.at = clock]
    /\ UNCHANGED <<clock, pc, attempts, starts, disturbed>>

(* Drop, at the end of the engine's main task: the heartbeat ends, then the   *)
(* file goes if the token in it is ours.  The loop and its runs are tasks of  *)
(* their own and go on.                                                      *)
Release(p) ==
    /\ Goto(p, "owner", "releasing")
    /\ UNCHANGED <<clock, lockFile, attempts, starts, disturbed>>

CheckToken(p) ==
    /\ Goto(p, "releasing", IF lockFile.by = p THEN "removing" ELSE "closing")
    /\ UNCHANGED <<clock, lockFile, attempts, starts, disturbed>>

Unlink(p) ==
    /\ Goto(p, "removing", "closing")
    /\ lockFile' = NoFile
    /\ UNCHANGED <<clock, attempts, starts, disturbed>>

(* The process is killed, or one that does not own the lock is closed, or one  *)
(* that released it ends.                                                    *)
Stop(p) ==
    /\ pc[p] # "off"
    /\ pc' = [pc EXCEPT ![p] = "off"]
    /\ lockFile' = IF lockFile.by = p THEN [lockFile EXCEPT !.by = Nobody] ELSE lockFile
    /\ Tried(p, 0)
    /\ UNCHANGED <<clock, starts, disturbed>>

Elapse ==
    /\ clock < MaxTime
    /\ clock' = clock + 1
    /\ disturbed' = \/ disturbed
                     \/ \E p \in Processes : /\ Looping(p) /\ lockFile.by = p
                                            /\ clock' > lockFile.at + Lease
    /\ UNCHANGED <<lockFile, pc, attempts, starts>>

Acquire(p) == Create(p) \/ Exists(p) \/ Defer(p) \/ FindStale(p) \/ Rename(p)
Drop(p)    == CheckToken(p) \/ Unlink(p)

(* main.rs: "A lock file next to the schedules store guarantees only one      *)
(* scheduler per data dir."                                                   *)
OneScheduler == \A p, q \in Processes : Looping(p) /\ Looping(q) => p = q

(* What the lock does guarantee.  Two processes run schedules at once for one *)
(* of three reasons only: a heartbeat came later than the lease, a starter    *)
(* renamed the file that another had created since it judged the old one, or  *)
(* a process that shuts down has given up its lock before its loop.           *)
OverlapHasCause ==
    \A p, q \in Processes :
        Looping(p) /\ Looping(q) /\ p # q =>
            disturbed \/ "closing" \in {pc[p], pc[q]}
=============================================================================
