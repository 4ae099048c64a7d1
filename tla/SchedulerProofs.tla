---------------------------- MODULE SchedulerProofs ----------------------------
(***************************************************************************)
(* What Scheduler guarantees for any number of processes, schedules, slots   *)
(* and launches, and any lease: whatever the delays of heartbeats and of      *)
(* takeovers, and however processes end.                                     *)
(***************************************************************************)
EXTENDS Scheduler, FiniteSetTheorems, TLAPS

(***************************************************************************)
(* Invariants                                                              *)
(***************************************************************************)
LockType ==
    /\ clock \in Time /\ pc \in [Processes -> Points]
    /\ lockFile \in Locks \union {NoFile}
    /\ attempts \in [Processes -> 0..Attempts - 1] /\ starts \in 0..MaxStarts
    /\ disturbed \in BOOLEAN

LoopType ==
    /\ plans \subseteq Plans /\ store \in Contents
    /\ mutation \in [Processes -> Mutations]
    /\ pending \in [Processes -> SUBSET Schedules]
    /\ lastTick \in [Processes -> Time]
    /\ active \in [Processes -> SUBSET Schedules] /\ running \in [Processes -> SUBSET Schedules]
    /\ due \in [Processes -> SUBSET Claims]
    /\ fired \in [Schedules -> [Time -> 0..2]]
    /\ failures \in 0..MaxFailures
    /\ overlapped \in BOOLEAN

(* Unless it was disturbed, the file is that of whoever has not given up the   *)
(* lock, and fresh: no other starter can find it missing or stale.            *)
LockInv ==
    ~disturbed =>
        \A p \in Processes :
            pc[p] \in {"owner", "releasing", "removing"} =>
                lockFile.by = p /\ clock <= lockFile.at + Lease

(* The history is right, and only a loop has claimed, or runs, anything.       *)
LoopInv ==
    /\ overlapped \/ ~Overlap
    /\ \A p \in Processes :
          ~Looping(p) => running[p] = {} /\ due[p] = {} /\ mutation[p].kind # "claim"

(* What is due does not run, and is due once.                                 *)
DueInv ==
    \A p \in Processes :
        /\ running[p] \subseteq active[p]
        /\ \A d \in due[p] : d.id \notin running[p]
        /\ \A d, e \in due[p] : d.id = e.id => d = e
        /\ mutation[p].kind = "claim" => due[p] = {} /\ running[p] \subseteq mutation[p].active

(* As long as one loop runs at a time, what has been started lies before its   *)
(* last tick, and so does what is due, which has not been started.            *)
WindowInv ==
    /\ \A s \in Schedules, k \in Time : fired[s][k] <= 1
    /\ \A s \in Schedules, k \in Time : fired[s][k] > 0 => k <= clock
    /\ \A p \in Processes : Looping(p) =>
          /\ lastTick[p] <= clock
          /\ \A s \in Schedules, k \in Time : fired[s][k] > 0 => k <= lastTick[p]
          /\ \A d \in due[p], k \in Time :
                k \in d.slots => k <= lastTick[p] /\ fired[d.id][k] = 0
          /\ mutation[p].kind = "claim" => mutation[p].now <= clock /\ lastTick[p] <= mutation[p].now

ScheduleInv ==
    /\ LockType /\ LoopType /\ LockInv /\ LoopInv /\ DueInv
    /\ overlapped \/ WindowInv

(***************************************************************************)
(* The initial states and every step                                       *)
(***************************************************************************)
LEMMA ScheduleInit == Init => ScheduleInv
<1> SUFFICES ASSUME Init PROVE ScheduleInv
  OBVIOUS
<1>1. LockType
  <2>1. clock \in Time /\ attempts \in [Processes -> 0..Attempts - 1] /\ starts \in 0..MaxStarts
    BY LockAssumption DEF Init, LockInit, Time
  <2>2. pc \in [Processes -> Points] /\ lockFile \in Locks \union {NoFile}
    BY DEF Init, LockInit, Points
  <2>3. disturbed \in BOOLEAN
    BY DEF Init, LockInit
  <2> QED
    BY <2>1, <2>2, <2>3 DEF LockType
<1>2. LoopType
  <2>1. /\ plans \subseteq Plans /\ store \in Contents /\ failures \in 0..MaxFailures
        /\ mutation \in [Processes -> Mutations] /\ pending \in [Processes -> SUBSET Schedules]
    BY ScheduleAssumption DEF Init, Contents, Mutations
  <2>2. /\ active \in [Processes -> SUBSET Schedules]
        /\ running \in [Processes -> SUBSET Schedules]
        /\ due \in [Processes -> SUBSET Claims]
    BY DEF Init
  <2>3. lastTick \in [Processes -> Time] /\ fired \in [Schedules -> [Time -> 0..2]]
    BY LockAssumption DEF Init, Time
  <2>4. overlapped \in BOOLEAN
    BY DEF Init
  <2> QED
    BY <2>1, <2>2, <2>3, <2>4 DEF LoopType
<1>3. LockInv
  BY DEF Init, LockInit, LockInv
<1>4. LoopInv /\ DueInv
  BY DEF Init, LockInit, LoopInv, DueInv, NoMutation, Overlap, Looping, Scheduling
<1>5. WindowInv
  BY DEF Init, LockInit, WindowInv, Looping, Scheduling
<1> QED
  BY <1>1, <1>2, <1>3, <1>4, <1>5 DEF ScheduleInv

(* What a mutation under way has loaded and will do.                          *)
LEMMA MutationFields ==
    ASSUME NEW m \in Mutations
    PROVE  /\ m.kind = "claim" => /\ m.file \in Contents /\ m.now \in Time
                                  /\ m.active \in SUBSET Schedules
           /\ m.kind \in {"create", "delete", "toggle"} => m.file \in Contents /\ m.id \in Schedules
           /\ m.kind = "unplan" => m.file \in Contents /\ m.plan \in Plans
           /\ m.kind \in {"claim", "create", "delete", "toggle", "unplan"} => m # NoMutation
BY DEF Mutations, NoMutation

(* What a claim finds due has slots in the window.                            *)
LEMMA ClaimedSlots ==
    ASSUME LoopType, NEW p \in Processes, Claim(p)
    PROVE  /\ due' \in [Processes -> SUBSET Claims]
           /\ \A d \in due'[p] :
                 /\ d.id \in Due(p)
                 /\ d.slots = Window(p, d.id, mutation[p].now)
           /\ \A d, e \in due'[p] : d.id = e.id => d = e
<1> DEFINE New == {[id |-> s, slots |-> Window(p, s, mutation[p].now)] : s \in Due(p)}
<1>1. due' = [due EXCEPT ![p] = New]
  BY DEF Claim
<1>2. New \in SUBSET Claims
  BY ScheduleAssumption DEF Due, Window, Claims
<1>3. due'[p] = New
  BY <1>1 DEF LoopType
<1> QED
  BY <1>1, <1>2, <1>3 DEF LoopType

(* A step is one of the process and its lock, which change nothing of the       *)
(* schedules but last_tick and the history, or one that leaves the lock alone. *)
LEMMA StepCases ==
    ASSUME [Next]_vars
    PROVE  \/ Pass
           \/ \E p \in Processes : End(p)
           \/ \E p \in Processes : Lock(p)
           \/ \E p \in Processes :
                 \/ Tick(p) \/ Claim(p) \/ ClaimFails(p) \/ Dispatch(p) \/ RunEnds(p)
                 \/ RunPanics(p) \/ Save(p) \/ SaveFails(p)
                 \/ \E s \in Schedules : \/ ResolvePlan(p, s) \/ CreateSchedule(p, s)
                                         \/ DeleteSchedule(p, s) \/ ToggleSchedule(p, s)
                 \/ \E plan \in Plans : DeletePlan(p, plan)
           \/ UNCHANGED vars
BY ScheduleAssumption DEF Next, Run, Command

LEMMA LockCases ==
    ASSUME NEW p \in Processes, Lock(p)
    PROVE  \/ Start(p) \/ Create(p) \/ Exists(p) \/ Defer(p) \/ FindStale(p) \/ Rename(p)
           \/ Release(p) \/ CheckToken(p) \/ Unlink(p) \/ Heartbeat(p)
BY DEF Lock, Acquire, Drop

LEMMA LockFrame ==
    ASSUME [Next]_vars
    PROVE  \/ Pass
           \/ \E p \in Processes : End(p)
           \/ \E p \in Processes : Lock(p)
           \/ UNCHANGED <<lockVars, overlapped>>
<1>1. ASSUME NEW p \in Processes,
             \/ Tick(p) \/ Claim(p) \/ ClaimFails(p) \/ Dispatch(p) \/ RunEnds(p)
             \/ RunPanics(p) \/ Save(p) \/ SaveFails(p)
             \/ \E s \in Schedules : \/ ResolvePlan(p, s) \/ CreateSchedule(p, s)
                                     \/ DeleteSchedule(p, s) \/ ToggleSchedule(p, s)
             \/ \E plan \in Plans : DeletePlan(p, plan)
      PROVE  UNCHANGED <<lockVars, overlapped>>
  BY <1>1 DEF Tick, Claim, ClaimFails, Dispatch, RunEnds, RunPanics, Save, SaveFails,
              ResolvePlan, CreateSchedule, DeleteSchedule, ToggleSchedule, DeletePlan, loop
<1>2. CASE UNCHANGED vars
  BY <1>2 DEF vars, lockVars
<1> QED
  BY <1>1, <1>2, StepCases

(* What a step of the lock leaves of each process.                            *)
LEMMA LockLoops ==
    ASSUME LockType, LoopType, NEW p \in Processes, Lock(p)
    PROVE  /\ UNCHANGED <<clock, plans, store, mutation, pending, active, due, running, fired,
                          failures>>
           /\ \A q \in Processes : Looping(q) => Looping(q)' /\ lastTick'[q] = lastTick[q]
           /\ \A q \in Processes : ~Looping(q) /\ Looping(q)' => lastTick'[q] = clock
           /\ overlapped' = (overlapped \/ Overlap')
           /\ lastTick' \in [Processes -> Time]
<1>1. /\ UNCHANGED <<clock, plans, store, mutation, pending, active, due, running, fired,
                     failures>>
      /\ overlapped' = (overlapped \/ Overlap')
  BY LockCases
     DEF Lock, files, Start, Create, Exists, Defer, FindStale, Rename, Release, CheckToken,
         Unlink, Heartbeat
<1>2. \A q \in Processes : q # p => pc'[q] = pc[q]
  BY LockCases
     DEF LockType, Goto, Start, Create, Exists, Defer, FindStale, Rename, Release, CheckToken,
         Unlink, Heartbeat
<1>3. Looping(p) => Looping(p)'
  BY LockCases
     DEF LockType, Goto, Start, Create, Exists, Defer, FindStale, Rename, Release, CheckToken,
         Unlink, Heartbeat, Looping, Scheduling
<1>4. lastTick' = IF ~Looping(p) /\ Looping(p)'
                  THEN [lastTick EXCEPT ![p] = clock] ELSE lastTick
  BY DEF Lock
<1> QED
  BY <1>1, <1>2, <1>3, <1>4 DEF Looping, LockType, LoopType

(* Types of the lock.                                                        *)
LEMMA LockTypeStep ==
    ASSUME LockType, [Next]_vars
    PROVE  LockType'
<1>1. CASE Pass
  BY <1>1, LockAssumption
     DEF Pass, Elapse, LockType, Time, Points, Acquiring, Scheduling, Locks, NoFile
<1>2. ASSUME NEW p \in Processes, End(p) PROVE LockType'
  BY <1>2, LockAssumption
     DEF End, Stop, Tried, LockType, Time, Points, Acquiring, Scheduling, Locks, NoFile
<1>3. ASSUME NEW p \in Processes, Lock(p) PROVE LockType'
  <2>1. CASE Start(p)
    BY <2>1, LockAssumption
       DEF Start, Goto, LockType, Time, Points, Acquiring, Scheduling, Locks, NoFile
  <2>2. CASE Create(p)
    BY <2>2, LockAssumption
       DEF Create, Goto, Tried, LockType, Time, Points, Acquiring, Scheduling, Locks, NoFile
  <2>3. CASE Exists(p)
    BY <2>3, LockAssumption
       DEF Exists, Goto, LockType, Time, Points, Acquiring, Scheduling, Locks, NoFile
  <2>4. CASE Defer(p)
    BY <2>4, LockAssumption
       DEF Defer, Goto, Tried, LockType, Time, Points, Acquiring, Scheduling, Locks, NoFile
  <2>5. CASE FindStale(p)
    BY <2>5, LockAssumption
       DEF FindStale, Goto, LockType, Time, Points, Acquiring, Scheduling, Locks, NoFile
  <2>6. CASE Rename(p)
    BY <2>6, LockAssumption
       DEF Rename, Goto, Tried, LockType, Time, Points, Acquiring, Scheduling, Locks, NoFile
  <2>7. CASE Release(p)
    BY <2>7, LockAssumption
       DEF Release, Goto, LockType, Time, Points, Acquiring, Scheduling, Locks, NoFile
  <2>8. CASE CheckToken(p)
    BY <2>8, LockAssumption
       DEF CheckToken, Goto, LockType, Time, Points, Acquiring, Scheduling, Locks, NoFile
  <2>9. CASE Unlink(p)
    BY <2>9, LockAssumption
       DEF Unlink, Goto, LockType, Time, Points, Acquiring, Scheduling, Locks, NoFile
  <2>10. CASE Heartbeat(p)
    BY <2>10, LockAssumption
       DEF Heartbeat, LockType, Time, Points, Acquiring, Scheduling, Locks, NoFile
  <2> QED
    BY <1>3, LockCases, <2>1, <2>2, <2>3, <2>4, <2>5, <2>6, <2>7, <2>8, <2>9, <2>10
<1>4. CASE UNCHANGED lockVars
  BY <1>4 DEF lockVars, LockType
<1> QED
  BY <1>1, <1>2, <1>3, <1>4, LockFrame

(* The file is that of whoever has not given up the lock.                     *)
LEMMA LockStep ==
    ASSUME LockType, LockInv, [Next]_vars
    PROVE  LockInv'
<1>1. CASE Pass
  BY <1>1, LockAssumption
     DEF Pass, Elapse, LockType, LockInv, Looping, Time, Points, Acquiring, Scheduling, Locks, NoFile
<1>2. ASSUME NEW p \in Processes, End(p) PROVE LockInv'
  BY <1>2, LockAssumption
     DEF End, Stop, Tried, LockType, LockInv, Time, Points, Acquiring, Scheduling, Locks, NoFile
<1>3. ASSUME NEW p \in Processes, Lock(p) PROVE LockInv'
  <2>1. CASE Start(p)
    BY <2>1, LockAssumption
       DEF Start, Goto, LockType, LockInv, Time, Points, Acquiring, Scheduling, Locks,
           NoFile
  <2>2. CASE Create(p)
    BY <2>2, LockAssumption
       DEF Create, Goto, Tried, LockType, LockInv, Time, Points, Acquiring, Scheduling,
           Locks, NoFile
  <2>3. CASE Exists(p)
    BY <2>3, LockAssumption
       DEF Exists, Goto, LockType, LockInv, Time, Points, Acquiring, Scheduling, Locks,
           NoFile
  <2>4. CASE Defer(p)
    BY <2>4, LockAssumption
       DEF Defer, Goto, Tried, LockType, LockInv, Time, Points, Acquiring, Scheduling,
           Locks, NoFile
  <2>5. CASE FindStale(p)
    BY <2>5, LockAssumption
       DEF FindStale, Goto, LockType, LockInv, Time, Points, Acquiring, Scheduling, Locks,
           NoFile
  <2>6. CASE Rename(p)
    BY <2>6, LockAssumption
       DEF Rename, Goto, Tried, Fresh, LockType, LockInv, Time, Points, Acquiring,
           Scheduling, Locks, NoFile
  <2>7. CASE Release(p)
    BY <2>7, LockAssumption
       DEF Release, Goto, LockType, LockInv, Time, Points, Acquiring, Scheduling, Locks,
           NoFile
  <2>8. CASE CheckToken(p)
    BY <2>8, LockAssumption
       DEF CheckToken, Goto, LockType, LockInv, Time, Points, Acquiring, Scheduling, Locks,
           NoFile
  <2>9. CASE Unlink(p)
    BY <2>9, LockAssumption
       DEF Unlink, Goto, LockType, LockInv, Time, Points, Acquiring, Scheduling, Locks,
           NoFile
  <2>10. CASE Heartbeat(p)
    BY <2>10, LockAssumption
       DEF Heartbeat, LockType, LockInv, Time, Points, Acquiring, Scheduling, Locks, NoFile
  <2> QED
    BY <1>3, LockCases, <2>1, <2>2, <2>3, <2>4, <2>5, <2>6, <2>7, <2>8, <2>9, <2>10
<1>4. CASE UNCHANGED lockVars
  BY <1>4 DEF lockVars, LockInv
<1> QED
  BY <1>1, <1>2, <1>3, <1>4, LockFrame

(* Types of the schedules.                                                   *)
LEMMA LoopTypeStep ==
    ASSUME LockType, LoopType, [Next]_vars
    PROVE  LoopType'
<1>1. CASE Pass
  BY <1>1 DEF Pass, files, loop, LoopType
<1>2. ASSUME NEW p \in Processes, End(p) PROVE LoopType'
  BY <1>2, LockAssumption DEF End, Overlap, LoopType, files, Mutations, NoMutation, LockType, Time
<1>3. ASSUME NEW p \in Processes, Lock(p) PROVE LoopType'
  BY <1>3, LockLoops, Zenon DEF LoopType
<1>4. ASSUME NEW p \in Processes, Tick(p) PROVE LoopType'
  <2>1. PICK paused \in BOOLEAN :
          mutation' = [mutation EXCEPT ![p] =
              [kind |-> "claim", file |-> store, now |-> clock, paused |-> paused,
               active |-> active[p]]]
    BY <1>4 DEF Tick, Enter
  <2>2. [kind |-> "claim", file |-> store, now |-> clock, paused |-> paused,
         active |-> active[p]] \in Mutations
    BY DEF LockType, LoopType, Mutations
  <2>3. mutation' \in [Processes -> Mutations]
    BY <2>1, <2>2 DEF LoopType
  <2> QED
    BY <1>4, <2>3 DEF Tick, LoopType, files, loop
<1>5. ASSUME NEW p \in Processes, Claim(p) PROVE LoopType'
  <2>1. mutation[p] \in Mutations /\ mutation[p].kind = "claim"
    BY <1>5 DEF Claim, LoopType
  <2>2. mutation[p].file \in Contents /\ mutation[p].now \in Time
    BY <2>1, MutationFields
  <2>3. store' \in Contents /\ lastTick' \in [Processes -> Time]
    BY <1>5, <2>2 DEF Claim, Loaded, LoopType
  <2>4. due' \in [Processes -> SUBSET Claims]
    BY <1>5, ClaimedSlots
  <2>5. mutation' \in [Processes -> Mutations]
    BY <1>5 DEF Claim, Leave, LoopType, Mutations
  <2> QED
    BY <1>5, <2>3, <2>4, <2>5 DEF Claim, LoopType
<1>6. ASSUME NEW p \in Processes, ClaimFails(p) PROVE LoopType'
  BY <1>6, LockAssumption, ScheduleAssumption
     DEF ClaimFails, Fail, Leave, lockVars, files, loop, LoopType, Mutations, NoMutation,
         Contents, Claims
<1>7. ASSUME NEW p \in Processes, Dispatch(p) PROVE LoopType'
  <2>1. PICK d \in due[p] :
          /\ due'     = [due EXCEPT ![p] = @ \ {d}]
          /\ active'  = [active EXCEPT ![p] = @ \union {d.id}]
          /\ running' = [running EXCEPT ![p] = @ \union {d.id}]
          /\ fired'   = [fired EXCEPT ![d.id] =
                            [k \in Time |-> IF k \in d.slots /\ @[k] < 2
                                                   THEN @[k] + 1 ELSE @[k]]]
    BY <1>7 DEF Dispatch
  <2>2. d.id \in Schedules
    BY DEF LoopType, Claims
  <2>3. fired' \in [Schedules -> [Time -> 0..2]]
    <3>1. fired[d.id] \in [Time -> 0..2]
      BY <2>2 DEF LoopType
    <3>2. [k \in Time |-> IF k \in d.slots /\ fired[d.id][k] < 2
                          THEN fired[d.id][k] + 1 ELSE fired[d.id][k]] \in [Time -> 0..2]
      BY <3>1
    <3> QED
      BY <2>1, <3>2 DEF LoopType
  <2> QED
    BY <1>7, <2>1, <2>2, <2>3 DEF Dispatch, LoopType, files
<1>8. ASSUME NEW p \in Processes, RunEnds(p) PROVE LoopType'
  BY <1>8, LockAssumption, ScheduleAssumption
     DEF RunEnds, lockVars, files, LoopType, Mutations, NoMutation, Contents, Claims
<1>9. ASSUME NEW p \in Processes, RunPanics(p) PROVE LoopType'
  BY <1>9, LockAssumption, ScheduleAssumption
     DEF RunPanics, Fail, lockVars, files, LoopType, Mutations, NoMutation, Contents, Claims
<1>10. ASSUME NEW p \in Processes, Save(p) PROVE LoopType'
  <2>1. mutation[p] \in Mutations
    BY <1>10 DEF LoopType
  <2>2. mutation[p].file \in Contents
    BY <1>10, <2>1, MutationFields DEF Save, Settle
  <2>3. store' \in Contents
    BY <1>10, <2>2 DEF Save, Changed, Contents
  <2>4. mutation' \in [Processes -> Mutations] /\ pending' \in [Processes -> SUBSET Schedules]
    BY <1>10 DEF Save, Settle, Leave, LoopType, Mutations
  <2> QED
    BY <1>10, <2>3, <2>4 DEF Save, LoopType, loop
<1>11. ASSUME NEW p \in Processes, SaveFails(p) PROVE LoopType'
  BY <1>11, LockAssumption, ScheduleAssumption
     DEF SaveFails, Settle, Leave, Fail, lockVars, files, loop, LoopType, Mutations,
         NoMutation, Contents, Claims
<1>12. ASSUME NEW p \in Processes, NEW s \in Schedules, ResolvePlan(p, s) PROVE LoopType'
  BY <1>12, LockAssumption, ScheduleAssumption
     DEF ResolvePlan, Up, lockVars, files, loop, LoopType, Mutations, NoMutation, Contents,
         Claims
<1>13. ASSUME NEW p \in Processes, NEW s \in Schedules, CreateSchedule(p, s) PROVE LoopType'
  BY <1>13, LockAssumption, ScheduleAssumption
     DEF CreateSchedule, Enter, Up, lockVars, files, loop, LoopType, Mutations, NoMutation,
         Contents, Claims
<1>14. ASSUME NEW p \in Processes, NEW s \in Schedules, DeleteSchedule(p, s) PROVE LoopType'
  BY <1>14, LockAssumption, ScheduleAssumption
     DEF DeleteSchedule, Enter, Up, Listed, lockVars, files, loop, LoopType, Mutations,
         NoMutation, Contents, Claims
<1>15. ASSUME NEW p \in Processes, NEW s \in Schedules, ToggleSchedule(p, s) PROVE LoopType'
  BY <1>15, LockAssumption, ScheduleAssumption
     DEF ToggleSchedule, Enter, Up, Listed, lockVars, files, loop, LoopType, Mutations,
         NoMutation, Contents, Claims
<1>16. ASSUME NEW p \in Processes, NEW plan \in Plans, DeletePlan(p, plan) PROVE LoopType'
  BY <1>16, LockAssumption, ScheduleAssumption
     DEF DeletePlan, Enter, Up, lockVars, loop, LoopType, Mutations, NoMutation, Contents,
         Claims
<1>17. CASE UNCHANGED vars
  BY <1>17
     DEF vars, LoopType, Mutations, NoMutation, Contents, Claims
<1> QED
  BY StepCases, <1>1, <1>2, <1>3, <1>4, <1>5, <1>6, <1>7, <1>8, <1>9, <1>10, <1>11, <1>12,
      <1>13, <1>14, <1>15, <1>16, <1>17

(* Only a loop claims and runs.                                             *)
LEMMA LoopStep ==
    ASSUME LockType, LoopType, LoopInv, DueInv, [Next]_vars
    PROVE  LoopInv'
<1>1. CASE Pass
  BY <1>1 DEF Pass, Elapse, loop, Looping, LoopInv, Overlap
<1>2. ASSUME NEW p \in Processes, End(p) PROVE LoopInv'
  <2>1. \A q \in Processes : Looping(q)' => q # p /\ Looping(q)
    BY <1>2 DEF End, Stop, LockType, Looping, Scheduling
  <2>2. \A q \in Processes : q # p =>
            /\ running'[q] = running[q] /\ due'[q] = due[q] /\ mutation'[q] = mutation[q]
            /\ Looping(q) => Looping(q)'
    BY <1>2 DEF End, Stop, LockType, LoopType, Looping
  <2>3. running'[p] = {} /\ due'[p] = {} /\ mutation'[p].kind = "none"
    BY <1>2 DEF End, LoopType, NoMutation
  <2>4. overlapped' = overlapped
    BY <1>2 DEF End
  <2> QED
    BY <2>1, <2>2, <2>3, <2>4 DEF LoopInv, Overlap
<1>3. ASSUME NEW p \in Processes, Lock(p) PROVE LoopInv'
  <2>1. \A q \in Processes : ~Looping(q)' => ~Looping(q)
    BY <1>3, LockLoops
  <2> QED
    BY <1>3, <2>1, LockLoops DEF LoopInv
<1>4. ASSUME NEW p \in Processes, Tick(p) PROVE LoopInv'
  BY <1>4
     DEF Tick, Enter, Up, Idle, lockVars, files, loop, Looping, LoopInv, Overlap,
         NoMutation, LoopType
<1>5. ASSUME NEW p \in Processes, Claim(p) PROVE LoopInv'
  BY <1>5
     DEF Claim, Leave, Loaded, lockVars, Looping, LoopInv, Overlap, NoMutation, LoopType
<1>6. ASSUME NEW p \in Processes, ClaimFails(p) PROVE LoopInv'
  BY <1>6
     DEF ClaimFails, Fail, Leave, lockVars, files, loop, Looping, LoopInv, Overlap,
         NoMutation, LoopType
<1>7. ASSUME NEW p \in Processes, Dispatch(p) PROVE LoopInv'
  <2>1. Looping(p)
    BY <1>7 DEF Dispatch, LoopInv
  <2> QED
    BY <1>7, <2>1 DEF Dispatch, lockVars, Looping, LoopInv, Overlap, LoopType
<1>8. ASSUME NEW p \in Processes, RunEnds(p) PROVE LoopInv'
  BY <1>8
     DEF RunEnds, lockVars, files, Looping, LoopInv, Overlap, NoMutation, LoopType
<1>9. ASSUME NEW p \in Processes, RunPanics(p) PROVE LoopInv'
  BY <1>9
     DEF RunPanics, Fail, lockVars, files, Looping, LoopInv, Overlap, NoMutation, LoopType
<1>10. ASSUME NEW p \in Processes, Save(p) PROVE LoopInv'
  BY <1>10
     DEF Save, Settle, Leave, lockVars, loop, Looping, LoopInv, Overlap, NoMutation,
         LoopType
<1>11. ASSUME NEW p \in Processes, SaveFails(p) PROVE LoopInv'
  BY <1>11
     DEF SaveFails, Settle, Leave, Fail, lockVars, files, loop, Looping, LoopInv, Overlap,
         NoMutation, LoopType
<1>12. ASSUME NEW p \in Processes, NEW s \in Schedules, ResolvePlan(p, s) PROVE LoopInv'
  BY <1>12
     DEF ResolvePlan, Up, lockVars, files, loop, Looping, LoopInv, Overlap, NoMutation,
         LoopType
<1>13. ASSUME NEW p \in Processes, NEW s \in Schedules, CreateSchedule(p, s) PROVE LoopInv'
  BY <1>13
     DEF CreateSchedule, Enter, Up, lockVars, files, loop, Looping, LoopInv, Overlap,
         NoMutation, LoopType
<1>14. ASSUME NEW p \in Processes, NEW s \in Schedules, DeleteSchedule(p, s) PROVE LoopInv'
  BY <1>14
     DEF DeleteSchedule, Enter, Up, Listed, lockVars, files, loop, Looping, LoopInv,
         Overlap, NoMutation, LoopType
<1>15. ASSUME NEW p \in Processes, NEW s \in Schedules, ToggleSchedule(p, s) PROVE LoopInv'
  BY <1>15
     DEF ToggleSchedule, Enter, Up, Listed, lockVars, files, loop, Looping, LoopInv,
         Overlap, NoMutation, LoopType
<1>16. ASSUME NEW p \in Processes, NEW plan \in Plans, DeletePlan(p, plan) PROVE LoopInv'
  BY <1>16
     DEF DeletePlan, Enter, Up, lockVars, loop, Looping, LoopInv, Overlap, NoMutation,
         LoopType
<1>17. CASE UNCHANGED vars
  BY <1>17
     DEF vars, Looping, LoopInv, Overlap, NoMutation, LoopType
<1> QED
  BY StepCases, <1>1, <1>2, <1>3, <1>4, <1>5, <1>6, <1>7, <1>8, <1>9, <1>10, <1>11, <1>12,
      <1>13, <1>14, <1>15, <1>16, <1>17

(* What is due does not run.                                                *)
LEMMA DueStep ==
    ASSUME LockType, LoopType, LoopInv, DueInv, [Next]_vars
    PROVE  DueInv'
<1>1. CASE Pass
  BY <1>1 DEF Pass, loop, DueInv
<1>2. ASSUME NEW p \in Processes, End(p) PROVE DueInv'
  BY <1>2 DEF End, LoopType, DueInv, NoMutation
<1>3. ASSUME NEW p \in Processes, Lock(p) PROVE DueInv'
  BY <1>3, LockLoops DEF DueInv
<1>4. ASSUME NEW p \in Processes, Tick(p) PROVE DueInv'
  BY <1>4
     DEF Tick, Enter, Up, Idle, lockVars, files, loop, LoopType, DueInv, NoMutation
<1>5. ASSUME NEW p \in Processes, Claim(p) PROVE DueInv'
  <2>1. mutation[p] \in Mutations /\ mutation[p].kind = "claim"
    BY <1>5 DEF Claim, LoopType
  <2>2. running[p] \subseteq mutation[p].active
    BY <2>1 DEF DueInv
  <2>3. \A d \in due'[p] : d.id \notin running[p]
    BY <1>5, <2>2, ClaimedSlots DEF Due
  <2>4. \A d, e \in due'[p] : d.id = e.id => d = e
    BY <1>5, ClaimedSlots
  <2>5. /\ \A q \in Processes \ {p} : due'[q] = due[q] /\ mutation'[q] = mutation[q]
        /\ mutation'[p].kind = "none"
        /\ UNCHANGED <<running, active>>
    BY <1>5 DEF Claim, Leave, NoMutation, LoopType
  <2> QED
    BY <2>3, <2>4, <2>5 DEF DueInv
<1>6. ASSUME NEW p \in Processes, ClaimFails(p) PROVE DueInv'
  BY <1>6
     DEF ClaimFails, Fail, Leave, lockVars, files, loop, LoopType, DueInv, NoMutation
<1>7. ASSUME NEW p \in Processes, Dispatch(p) PROVE DueInv'
  BY <1>7
     DEF Dispatch, lockVars, files, LoopType, DueInv, NoMutation
<1>8. ASSUME NEW p \in Processes, RunEnds(p) PROVE DueInv'
  BY <1>8
     DEF RunEnds, lockVars, files, LoopType, DueInv, NoMutation
<1>9. ASSUME NEW p \in Processes, RunPanics(p) PROVE DueInv'
  BY <1>9
     DEF RunPanics, Fail, lockVars, files, LoopType, DueInv, NoMutation
<1>10. ASSUME NEW p \in Processes, Save(p) PROVE DueInv'
  BY <1>10
     DEF Save, Settle, Leave, lockVars, loop, LoopType, DueInv, NoMutation
<1>11. ASSUME NEW p \in Processes, SaveFails(p) PROVE DueInv'
  BY <1>11
     DEF SaveFails, Settle, Leave, Fail, lockVars, files, loop, LoopType, DueInv, NoMutation
<1>12. ASSUME NEW p \in Processes, NEW s \in Schedules, ResolvePlan(p, s) PROVE DueInv'
  BY <1>12
     DEF ResolvePlan, Up, lockVars, files, loop, LoopType, DueInv, NoMutation
<1>13. ASSUME NEW p \in Processes, NEW s \in Schedules, CreateSchedule(p, s) PROVE DueInv'
  BY <1>13
     DEF CreateSchedule, Enter, Up, lockVars, files, loop, LoopType, DueInv, NoMutation
<1>14. ASSUME NEW p \in Processes, NEW s \in Schedules, DeleteSchedule(p, s) PROVE DueInv'
  BY <1>14
     DEF DeleteSchedule, Enter, Up, Listed, lockVars, files, loop, LoopType, DueInv,
         NoMutation
<1>15. ASSUME NEW p \in Processes, NEW s \in Schedules, ToggleSchedule(p, s) PROVE DueInv'
  BY <1>15
     DEF ToggleSchedule, Enter, Up, Listed, lockVars, files, loop, LoopType, DueInv,
         NoMutation
<1>16. ASSUME NEW p \in Processes, NEW plan \in Plans, DeletePlan(p, plan) PROVE DueInv'
  BY <1>16
     DEF DeletePlan, Enter, Up, lockVars, loop, LoopType, DueInv, NoMutation
<1>17. CASE UNCHANGED vars
  BY <1>17
     DEF vars, LoopType, DueInv, NoMutation
<1> QED
  BY StepCases, <1>1, <1>2, <1>3, <1>4, <1>5, <1>6, <1>7, <1>8, <1>9, <1>10, <1>11, <1>12,
      <1>13, <1>14, <1>15, <1>16, <1>17

(* As long as one loop runs at a time, a slot is started once.                *)
LEMMA WindowStep ==
    ASSUME LockType, LoopType, LoopInv, DueInv, WindowInv, ~overlapped', [Next]_vars
    PROVE  WindowInv'
<1>1. CASE Pass
  <2>1. /\ clock \in Nat /\ clock' = clock + 1
        /\ UNCHANGED <<pc, lastTick, due, fired, mutation>>
    BY <1>1, LockAssumption DEF Pass, Elapse, LockType, Time, loop
  <2>2. \A k \in Time : k <= clock => k <= clock'
    BY <2>1, LockAssumption DEF Time
  <2>3. \A q \in Processes : mutation[q].kind = "claim" => mutation[q].now \in Time
    BY MutationFields DEF LoopType
  <2>4. \A q \in Processes : lastTick[q] \in Time
    BY DEF LoopType
  <2> QED
    BY <2>1, <2>2, <2>3, <2>4 DEF WindowInv, Looping
<1>2. ASSUME NEW p \in Processes, End(p) PROVE WindowInv'
  <2>1. \A q \in Processes : Looping(q)' =>
            /\ Looping(q) /\ lastTick'[q] = lastTick[q] /\ due'[q] = due[q]
            /\ mutation'[q] = mutation[q]
    BY <1>2 DEF End, Stop, LockType, LoopType, Looping, Scheduling
  <2>2. UNCHANGED <<clock, fired>>
    BY <1>2 DEF End, Stop
  <2> QED
    BY <2>1, <2>2 DEF WindowInv
<1>3. ASSUME NEW p \in Processes, Lock(p) PROVE WindowInv'
  <2>1. UNCHANGED <<clock, fired, mutation, due>>
    BY <1>3, LockLoops
  <2>2. \A q \in Processes :
            Looping(q)' => \/ Looping(q) /\ lastTick'[q] = lastTick[q]
                           \/ /\ lastTick'[q] = clock
                              /\ due[q] = {} /\ mutation[q].kind # "claim"
    BY <1>3, LockLoops DEF LoopInv
  <2>3. clock <= clock
    BY LockAssumption DEF LockType, Time
  <2> QED
    BY <2>1, <2>2, <2>3 DEF WindowInv
<1>4. ASSUME NEW p \in Processes, Tick(p) PROVE WindowInv'
  <2>1. /\ UNCHANGED <<clock, pc, lastTick, due, fired>>
        /\ \A q \in Processes : q # p => mutation'[q] = mutation[q]
        /\ mutation'[p].now = clock /\ lastTick[p] < clock
    BY <1>4 DEF Tick, Enter, lockVars, loop, LoopType
  <2>2. lastTick[p] \in Nat /\ clock \in Nat
    BY LockAssumption DEF LockType, LoopType, Time
  <2>3. lastTick[p] <= clock
    BY <2>1, <2>2
  <2>4. clock <= clock
    BY <2>2
  <2> QED
    BY <2>1, <2>3, <2>4 DEF WindowInv, Looping
<1>5. ASSUME NEW p \in Processes, Claim(p) PROVE WindowInv'
  <2>1. mutation[p] \in Mutations /\ mutation[p].kind = "claim" /\ Looping(p)
    BY <1>5 DEF Claim, LoopType, LoopInv
  <2>2. /\ mutation[p].now \in Time /\ lastTick[p] \in Time
        /\ lastTick[p] <= mutation[p].now /\ mutation[p].now <= clock
    BY <2>1, MutationFields DEF WindowInv, LoopType
  <2>3. /\ lastTick'[p] = mutation[p].now /\ mutation'[p].kind = "none"
        /\ UNCHANGED <<fired, clock, pc>>
    BY <1>5 DEF Claim, Leave, NoMutation, lockVars, LoopType
  <2>4. \A q \in Processes : Looping(q) => q = p
    BY <1>5, <2>1 DEF Claim, LoopInv, Overlap
  <2>5. ASSUME NEW d \in due'[p], NEW k \in Time, k \in d.slots
        PROVE  k <= mutation[p].now /\ fired[d.id][k] = 0
    <3>1. d.id \in Schedules /\ lastTick[p] < k /\ k <= mutation[p].now
      BY <1>5, <2>5, ClaimedSlots DEF Due, Window
    <3>2. fired[d.id][k] \in 0..2 /\ ~(fired[d.id][k] > 0)
      BY <3>1, <2>1, <2>2, LockAssumption DEF WindowInv, LoopType, Time
    <3> QED
      BY <3>1, <3>2
  <2>6. \A s \in Schedules, k \in Time : fired[s][k] > 0 => k <= mutation[p].now
    BY <2>1, <2>2, LockAssumption DEF WindowInv, Time
  <2> QED
    BY <2>2, <2>3, <2>4, <2>5, <2>6 DEF WindowInv, Looping
<1>6. ASSUME NEW p \in Processes, ClaimFails(p) PROVE WindowInv'
  BY <1>6
     DEF ClaimFails, Fail, Leave, lockVars, files, loop, lockVars, Looping, WindowInv,
         LoopType, NoMutation
<1>7. ASSUME NEW p \in Processes, Dispatch(p) PROVE WindowInv'
  <2>1. PICK d \in due[p] :
            /\ due' = [due EXCEPT ![p] = @ \ {d}]
            /\ fired' = [fired EXCEPT ![d.id] =
                            [k \in Time |-> IF k \in d.slots /\ @[k] < 2
                                            THEN @[k] + 1 ELSE @[k]]]
    BY <1>7 DEF Dispatch
  <2>2. /\ UNCHANGED <<clock, pc, lastTick, mutation>> /\ overlapped' = overlapped
        /\ Looping(p) /\ d.id \in Schedules
    BY <1>7 DEF Dispatch, lockVars, LoopInv, LoopType, Claims
  <2>3. \A q \in Processes : Looping(q) => q = p
    BY <2>2 DEF LoopInv, Overlap
  <2>4. \A s \in Schedules, k \in Time :
            fired'[s][k] = IF s = d.id /\ k \in d.slots /\ fired[s][k] < 2
                           THEN fired[s][k] + 1 ELSE fired[s][k]
    BY <2>1, <2>2 DEF LoopType
  <2>5. \A k \in Time : k \in d.slots => k <= lastTick[p] /\ k <= clock /\ fired[d.id][k] = 0
    <3>1. \A k \in Time : k \in d.slots => k <= lastTick[p] /\ fired[d.id][k] = 0
      BY <2>2 DEF WindowInv
    <3>2. lastTick[p] \in Nat /\ clock \in Nat /\ lastTick[p] <= clock
      BY <2>2, LockAssumption DEF WindowInv, LoopType, LockType, Time
    <3> QED
      BY <3>1, <3>2, LockAssumption DEF Time
  <2>6. \A s \in Schedules, k \in Time :
            /\ fired[s][k] \in Nat
            /\ fired'[s][k] <= 1
            /\ fired'[s][k] > 0 => k <= clock /\ k <= lastTick[p]
    BY <2>2, <2>4, <2>5 DEF WindowInv, LoopType
  <2>7. ASSUME NEW e \in due'[p], NEW k \in Time, k \in e.slots
        PROVE  k <= lastTick[p] /\ fired'[e.id][k] = 0
    <3>1. e \in due[p] /\ e # d /\ e.id # d.id /\ e.id \in Schedules
      BY <2>1, <2>7 DEF DueInv, LoopType, Claims
    <3> QED
      BY <2>2, <2>4, <2>7, <3>1 DEF WindowInv
  <2> QED
    BY <2>2, <2>3, <2>6, <2>7 DEF WindowInv, Looping
<1>8. ASSUME NEW p \in Processes, RunEnds(p) PROVE WindowInv'
  BY <1>8
     DEF RunEnds, lockVars, files, lockVars, Looping, WindowInv, LoopType, NoMutation
<1>9. ASSUME NEW p \in Processes, RunPanics(p) PROVE WindowInv'
  BY <1>9
     DEF RunPanics, Fail, lockVars, files, lockVars, Looping, WindowInv, LoopType,
         NoMutation
<1>10. ASSUME NEW p \in Processes, Save(p) PROVE WindowInv'
  BY <1>10
     DEF Save, Settle, Leave, lockVars, loop, lockVars, Looping, WindowInv, LoopType,
         NoMutation
<1>11. ASSUME NEW p \in Processes, SaveFails(p) PROVE WindowInv'
  BY <1>11
     DEF SaveFails, Settle, Leave, Fail, lockVars, files, loop, lockVars, Looping,
         WindowInv, LoopType, NoMutation
<1>12. ASSUME NEW p \in Processes, NEW s \in Schedules, ResolvePlan(p, s) PROVE WindowInv'
  BY <1>12
     DEF ResolvePlan, Up, lockVars, files, loop, lockVars, Looping, WindowInv, LoopType,
         NoMutation
<1>13. ASSUME NEW p \in Processes, NEW s \in Schedules, CreateSchedule(p, s) PROVE WindowInv'
  BY <1>13
     DEF CreateSchedule, Enter, Up, lockVars, files, loop, lockVars, Looping, WindowInv,
         LoopType, NoMutation
<1>14. ASSUME NEW p \in Processes, NEW s \in Schedules, DeleteSchedule(p, s) PROVE WindowInv'
  BY <1>14
     DEF DeleteSchedule, Enter, Up, Listed, lockVars, files, loop, lockVars, Looping,
         WindowInv, LoopType, NoMutation
<1>15. ASSUME NEW p \in Processes, NEW s \in Schedules, ToggleSchedule(p, s) PROVE WindowInv'
  BY <1>15
     DEF ToggleSchedule, Enter, Up, Listed, lockVars, files, loop, lockVars, Looping,
         WindowInv, LoopType, NoMutation
<1>16. ASSUME NEW p \in Processes, NEW plan \in Plans, DeletePlan(p, plan) PROVE WindowInv'
  BY <1>16
     DEF DeletePlan, Enter, Up, lockVars, loop, lockVars, Looping, WindowInv, LoopType,
         NoMutation
<1>17. CASE UNCHANGED vars
  BY <1>17
     DEF vars, lockVars, Looping, WindowInv, LoopType, NoMutation
<1> QED
  BY StepCases, <1>1, <1>2, <1>3, <1>4, <1>5, <1>6, <1>7, <1>8, <1>9, <1>10, <1>11, <1>12,
      <1>13, <1>14, <1>15, <1>16, <1>17

THEOREM ScheduleInvariant == Spec => []ScheduleInv
<1>1. ASSUME ScheduleInv, [Next]_vars
      PROVE  ScheduleInv'
  <2>1. LockType /\ LoopType /\ LockInv /\ LoopInv /\ DueInv
    BY <1>1 DEF ScheduleInv
  <2>2. LockType' /\ LoopType' /\ LockInv' /\ LoopInv' /\ DueInv'
    BY <1>1, <2>1, LockTypeStep, LoopTypeStep, LockStep, LoopStep, DueStep
  <2>3. overlapped => overlapped'
    BY <1>1, LockFrame DEF Pass, End, Lock, loop
  <2>4. overlapped' \/ WindowInv'
    BY <1>1, <2>1, <2>3, WindowStep DEF ScheduleInv
  <2> QED
    BY <2>2, <2>4 DEF ScheduleInv
<1> QED
  BY <1>1, ScheduleInit, PTL DEF Spec

(***************************************************************************)
(* Theorems                                                                *)
(***************************************************************************)
(* Types of the lock file, the store, the mutations and the loops.            *)
THEOREM TypeCorrect == Spec => []TypeOK
<1>1. ScheduleInv => TypeOK
  BY DEF ScheduleInv, LockType, LoopType, TypeOK
<1> QED
  BY <1>1, ScheduleInvariant, PTL

(* Two processes run the schedules at once only after a heartbeat that was too  *)
(* late or a takeover of a fresh file, or while one of them shuts down: the    *)
(* lock file itself never lets two starters through.                          *)
THEOREM OverlapAlwaysHasCause == Spec => []OverlapHasCause
<1>1. ASSUME ScheduleInv
      PROVE  OverlapHasCause
  <2>1. SUFFICES ASSUME NEW p \in Processes, NEW q \in Processes,
                        Looping(p), Looping(q), ~disturbed, "closing" \notin {pc[p], pc[q]}
                 PROVE  p = q
    BY DEF OverlapHasCause
  <2>2. /\ pc[p] \in {"owner", "releasing", "removing"}
        /\ pc[q] \in {"owner", "releasing", "removing"}
    BY <2>1 DEF Looping, Scheduling
  <2> QED
    BY <1>1, <2>1, <2>2 DEF ScheduleInv, LockInv
<1> QED
  BY <1>1, ScheduleInvariant, PTL

(* Until two processes have run the schedules at once, no slot is started twice *)
(* and no schedule beside itself, across failures, crashes and takeovers.     *)
THEOREM FiresAtMostOnce == Spec => []FiresOnce
<1>1. ASSUME ScheduleInv
      PROVE  FiresOnce
  <2> SUFFICES ASSUME ~overlapped
               PROVE  FiresOnce
    BY DEF FiresOnce
  <2>1. \A s \in Schedules, k \in Time : fired[s][k] <= 1
    BY <1>1 DEF ScheduleInv, WindowInv
  <2>2. ASSUME NEW s \in Schedules
        PROVE  Cardinality({p \in Processes : s \in running[p]})
               + Cardinality({p \in Processes : \E d \in due[p] : d.id = s}) <= 1
    <3> DEFINE R == {p \in Processes : s \in running[p]}
               D == {p \in Processes : \E d \in due[p] : d.id = s}
    <3>1. \A p, q \in R \union D : p = q
      <4>1. \A p \in R \union D : p \in Processes /\ Looping(p)
        BY <1>1 DEF ScheduleInv, LoopInv
      <4> QED
        BY <1>1, <4>1 DEF ScheduleInv, LoopInv, Overlap
    <3>2. R = {} \/ D = {}
      BY <1>1, <3>1 DEF ScheduleInv, DueInv
    <3>3. \A S : (\A p, q \in S : p = q) => S = {} \/ \E p : S = {p}
      OBVIOUS
    <3>4. (R = {} \/ \E p : R = {p}) /\ (D = {} \/ \E p : D = {p})
      <4>1. (\A p, q \in R : p = q) /\ (\A p, q \in D : p = q)
        BY <3>1
      <4> HIDE DEF R, D
      <4> QED
        BY <4>1, <3>3
    <3>5. /\ Cardinality(R) = 0 \/ Cardinality(R) = 1
          /\ Cardinality(D) = 0 \/ Cardinality(D) = 1
      BY <3>4, FS_EmptySet, FS_Singleton
    <3>6. Cardinality(R) = 0 \/ Cardinality(D) = 0
      BY <3>2, FS_EmptySet
    <3> QED
      BY <3>5, <3>6
  <2> QED
    BY <2>1, <2>2, ScheduleAssumption DEF FiresOnce
<1> QED
  BY <1>1, ScheduleInvariant, PTL

(* A loop never closes a window over a slot it should have claimed, whatever    *)
(* other processes do to the file meanwhile.                                  *)
THEOREM NoSlotIsEverLost == Spec => NoSlotIsLost
<1> DEFINE Kept(p) ==
      Looping(p) /\ Looping(p)' /\ lastTick'[p] # lastTick[p] => Claim(p)
<1>1. ASSUME ScheduleInv, [Next]_vars, NEW q \in Processes
      PROVE  Kept(q)
  <2>1. LockType /\ LoopType
    BY <1>1 DEF ScheduleInv
  <2>2. CASE Pass
    BY <2>2 DEF Pass, loop
  <2>3. ASSUME NEW p \in Processes, End(p) PROVE Kept(q)
    BY <2>1, <2>3 DEF End, Stop, LockType, LoopType, Looping, Scheduling
  <2>4. ASSUME NEW p \in Processes, Lock(p) PROVE Kept(q)
    BY <2>1, <2>4, LockLoops
  <2>5. ASSUME NEW p \in Processes, Tick(p) PROVE Kept(q)
    BY <2>5 DEF Tick, loop
  <2>6. ASSUME NEW p \in Processes, Claim(p) PROVE Kept(q)
    BY <2>1, <2>6 DEF Claim, LoopType
  <2>7. ASSUME NEW p \in Processes, ClaimFails(p) PROVE Kept(q)
    BY <2>7 DEF ClaimFails, loop
  <2>8. ASSUME NEW p \in Processes, Dispatch(p) PROVE Kept(q)
    BY <2>8 DEF Dispatch, loop
  <2>9. ASSUME NEW p \in Processes, RunEnds(p) PROVE Kept(q)
    BY <2>9 DEF RunEnds, loop
  <2>10. ASSUME NEW p \in Processes, RunPanics(p) PROVE Kept(q)
    BY <2>10 DEF RunPanics, loop
  <2>11. ASSUME NEW p \in Processes, Save(p) PROVE Kept(q)
    BY <2>11 DEF Save, loop
  <2>12. ASSUME NEW p \in Processes, SaveFails(p) PROVE Kept(q)
    BY <2>12 DEF SaveFails, loop
  <2>13. ASSUME NEW p \in Processes, NEW s \in Schedules, ResolvePlan(p, s) PROVE Kept(q)
    BY <2>13 DEF ResolvePlan, loop
  <2>14. ASSUME NEW p \in Processes, NEW s \in Schedules, CreateSchedule(p, s) PROVE Kept(q)
    BY <2>14 DEF CreateSchedule, loop
  <2>15. ASSUME NEW p \in Processes, NEW s \in Schedules, DeleteSchedule(p, s) PROVE Kept(q)
    BY <2>15 DEF DeleteSchedule, loop
  <2>16. ASSUME NEW p \in Processes, NEW s \in Schedules, ToggleSchedule(p, s) PROVE Kept(q)
    BY <2>16 DEF ToggleSchedule, loop
  <2>17. ASSUME NEW p \in Processes, NEW plan \in Plans, DeletePlan(p, plan) PROVE Kept(q)
    BY <2>17 DEF DeletePlan, loop
  <2>18. CASE UNCHANGED vars
    BY <2>18 DEF vars
  <2> QED
    BY <1>1, StepCases, <2>2, <2>3, <2>4, <2>5, <2>6, <2>7, <2>8, <2>9, <2>10, <2>11, <2>12,
        <2>13, <2>14, <2>15, <2>16, <2>17, <2>18
<1>2. ASSUME ScheduleInv, NEW p \in Processes, NEW s \in Schedules, Claim(p)
      PROVE  /\ mutation[p].kind = "claim"
             /\ \/ Window(p, s, lastTick'[p]) = {}
                \/ mutation[p].file[s] # "on" \/ mutation[p].paused \/ s \in mutation[p].active
                \/ \E d \in due'[p] : d.id = s
  <2>1. /\ lastTick'[p] = mutation[p].now
        /\ due'[p] = {[id |-> x, slots |-> Window(p, x, mutation[p].now)] : x \in Due(p)}
        /\ mutation[p].kind = "claim"
    BY <1>2 DEF ScheduleInv, Claim, LoopType
  <2>2. ASSUME s \in Due(p)
        PROVE  \E d \in due'[p] : d.id = s
    <3>1. [id |-> s, slots |-> Window(p, s, mutation[p].now)] \in due'[p]
      BY <2>1, <2>2
    <3> QED
      BY <3>1
  <2>3. ASSUME s \notin Due(p)
        PROVE  \/ Window(p, s, mutation[p].now) = {}
               \/ mutation[p].file[s] # "on" \/ mutation[p].paused \/ s \in mutation[p].active
    BY <2>3, Zenon DEF Due
  <2> QED
    BY <2>1, <2>2, <2>3
<1>3. ASSUME ScheduleInv, [Next]_vars
      PROVE  \A p \in Processes, s \in Schedules :
                LET m == mutation[p]
                IN  Looping(p) /\ Looping(p)' /\ lastTick'[p] # lastTick[p] =>
                      /\ m.kind = "claim"
                      /\ \/ Window(p, s, lastTick'[p]) = {}
                         \/ m.file[s] # "on" \/ m.paused \/ s \in m.active
                         \/ \E d \in due'[p] : d.id = s
  BY <1>1, <1>2, <1>3
<1> QED
  BY <1>3, ScheduleInvariant, PTL DEF Spec, NoSlotIsLost
=============================================================================
