------------------------------ MODULE Scheduler ------------------------------
(***************************************************************************)
(* Schedules (app/engine.rs, app/schedule_store.rs): the loop of the        *)
(* process that holds the scheduler lock claims what is due and starts it,   *)
(* while commands of every process create, switch and delete schedules and   *)
(* delete plans.                                                             *)
(*                                                                         *)
(* schedules.json is loaded, changed and saved inside the process's mutation *)
(* boundary: mutation[p] is what process p has loaded and will save.  The    *)
(* last_run of a schedule is shown to people and decides nothing: left out.  *)
(***************************************************************************)
EXTENDS SchedulerLock

CONSTANTS Users,      \* processes that are given commands and closed: a bound
          Plans,      \* plan ids
          Schedules,  \* schedule ids, each created once
          PlanOf,     \* schedule -> its plan
          Slots,      \* schedule -> when its cron expression fires
          MaxFailures \* bound on failing saves and panics

ASSUME ScheduleAssumption ==
    /\ Users \subseteq Processes
    /\ PlanOf \in [Schedules -> Plans]
    /\ Slots \in [Schedules -> SUBSET (Time \ {0})]
    /\ MaxFailures \in Nat

VARIABLES
    plans,      \* plans that are stored
    store,      \* schedules.json: "none" yet, "on", "off", "deleted"
    mutation,   \* the mutation each process is in, with the file it loaded
    pending,    \* schedules whose plan was resolved, not created yet
    lastTick,   \* last_tick of each loop
    active,     \* schedule ids the loop takes for running
    due,        \* claimed, to be started
    running,    \* scheduled runs under way
    fired,      \* how often each slot has been started
    overlapped, \* history: two loops have run at once
    failures

files == <<plans, store>>
loop  == <<lastTick, active, due, running, fired, overlapped>>
vars  == <<clock, lockFile, pc, attempts, starts, disturbed, plans, store, mutation,
           pending, lastTick, active, due, running, fired, overlapped, failures>>

Contents  == [Schedules -> {"none", "on", "off", "deleted"}]
NoMutation == [kind |-> "none"]
Listed(s) == store[s] \in {"on", "off"}

Init ==
    /\ LockInit
    /\ plans    = Plans
    /\ store    = [s \in Schedules |-> "none"]
    /\ mutation = [p \in Processes |-> NoMutation]
    /\ pending  = [p \in Processes |-> {}]
    /\ lastTick = [p \in Processes |-> 0]
    /\ active   = [p \in Processes |-> {}]
    /\ due      = [p \in Processes |-> {}]
    /\ running  = [p \in Processes |-> {}]
    /\ fired    = [s \in Schedules |-> [k \in Time |-> 0]]
    /\ overlapped = FALSE
    /\ failures = 0

(* The application runs; its tasks do, until its runtime is dropped.          *)
Up(p)   == pc[p] \in Scheduling \union {"held", "failed"}
Idle(p) == mutation[p] = NoMutation /\ due[p] = {}

(* run_named: one mutation of a process at a time.                           *)
Enter(p, m) ==
    /\ Up(p)
    /\ mutation[p] = NoMutation
    /\ mutation' = [mutation EXCEPT ![p] = m]
Leave(p) == mutation' = [mutation EXCEPT ![p] = NoMutation]

Loaded(p)   == mutation[p].file

Fail == failures < MaxFailures /\ failures' = failures + 1

-----------------------------------------------------------------------------
(* The process and its lock                                                  *)

(* The process ends, and its memory with it.                                 *)
End(p) ==
    /\ Stop(p)
    /\ mutation' = [mutation EXCEPT ![p] = NoMutation]
    /\ pending'  = [pending EXCEPT ![p] = {}]
    /\ active'   = [active EXCEPT ![p] = {}]
    /\ due'      = [due EXCEPT ![p] = {}]
    /\ running'  = [running EXCEPT ![p] = {}]
    /\ lastTick' = [lastTick EXCEPT ![p] = 0]
    /\ UNCHANGED <<files, fired, overlapped, failures>>

Overlap == \E p, q \in Processes : p # q /\ Looping(p) /\ Looping(q)

(* scheduler_loop begins with the time it is started at.                      *)
Lock(p) ==
    /\ Start(p) \/ Acquire(p) \/ (p \in Users /\ Release(p)) \/ Drop(p) \/ Heartbeat(p)
    /\ lastTick' = IF ~Looping(p) /\ Looping(p)'
                   THEN [lastTick EXCEPT ![p] = clock] ELSE lastTick
    /\ overlapped' = (overlapped \/ Overlap')
    /\ UNCHANGED <<files, mutation, pending, active, due, running, fired, failures>>

Pass == Elapse /\ UNCHANGED <<files, mutation, pending, loop, failures>>

-----------------------------------------------------------------------------
(* The loop                                                                  *)

(* Slots of s in the window since the last tick.                             *)
Window(p, s, now) == {k \in Slots[s] : lastTick[p] < k /\ k <= now}

(* A tick that the update gate admits; what is running is read before the     *)
(* boundary.  Every claimed schedule has been started by then.                *)
Tick(p) ==
    /\ Looping(p) /\ Idle(p)
    /\ lastTick[p] < clock
    /\ \E paused \in BOOLEAN :
          Enter(p, [kind |-> "claim", file |-> store, now |-> clock, paused |-> paused,
                    active |-> active[p]])
    /\ UNCHANGED <<lockVars, files, pending, loop, failures>>

(* Flawed form: what is running is not looked at.                            *)
OverlappingDue(p) ==
    LET m == mutation[p]
    IN  {s \in Schedules : ~m.paused /\ m.file[s] = "on" /\ Window(p, s, m.now) # {}}

(* claim_due_schedules and due_schedules, on the file that was loaded.        *)
Due(p) ==
    LET m == mutation[p]
    IN  {s \in Schedules : /\ ~m.paused /\ m.file[s] = "on" /\ s \notin m.active
                           /\ Window(p, s, m.now) # {}}

(* Flawed form: the window is only closed by a claim.                         *)
LazyClaim(p) ==
    /\ mutation[p].kind = "claim"
    /\ Leave(p)
    /\ due'      = [due EXCEPT ![p] =
                       {[id |-> s, slots |-> Window(p, s, mutation[p].now)] : s \in Due(p)}]
    /\ lastTick' = [lastTick EXCEPT ![p] = IF Due(p) = {} THEN @ ELSE mutation[p].now]
    /\ UNCHANGED <<lockVars, files, pending, active, running, fired, overlapped, failures>>

(* The claim is saved, if there is one, and the window is closed.             *)
Claim(p) ==
    /\ mutation[p].kind = "claim"
    /\ Leave(p)
    /\ store'    = IF Due(p) = {} THEN store ELSE Loaded(p)
    /\ due'      = [due EXCEPT ![p] =
                       {[id |-> s, slots |-> Window(p, s, mutation[p].now)] : s \in Due(p)}]
    /\ lastTick' = [lastTick EXCEPT ![p] = mutation[p].now]
    /\ UNCHANGED <<lockVars, plans, pending, active, running, fired, overlapped, failures>>

(* Flawed form: the window is closed before the claim is saved.                *)
ClosingClaimFails(p) ==
    /\ mutation[p].kind = "claim"
    /\ Fail
    /\ Leave(p)
    /\ lastTick' = [lastTick EXCEPT ![p] = mutation[p].now]
    /\ UNCHANGED <<lockVars, files, pending, active, due, running, fired, overlapped>>

(* A claim that cannot be saved: the window stays open.                       *)
ClaimFails(p) ==
    /\ mutation[p].kind = "claim"
    /\ Fail
    /\ Leave(p)
    /\ UNCHANGED <<lockVars, files, pending, loop>>

(* The run is a task of its own from here.                                    *)
Dispatch(p) ==
    /\ \E d \in due[p] :
          /\ due'     = [due EXCEPT ![p] = @ \ {d}]
          /\ active'  = [active EXCEPT ![p] = @ \union {d.id}]
          /\ running' = [running EXCEPT ![p] = @ \union {d.id}]
          /\ fired'   = [fired EXCEPT ![d.id] =
                            [k \in Time |-> IF k \in d.slots /\ @[k] < 2
                                                   THEN @[k] + 1 ELSE @[k]]]
    /\ UNCHANGED <<lockVars, files, mutation, pending, lastTick, overlapped, failures>>

RunEnds(p) ==
    /\ \E s \in running[p] :
          /\ running' = [running EXCEPT ![p] = @ \ {s}]
          /\ active'  = [active EXCEPT ![p] = @ \ {s}]
    /\ UNCHANGED <<lockVars, files, mutation, pending, lastTick, due, fired, overlapped, failures>>

(* The task panics before it takes its id out of active.                      *)
RunPanics(p) ==
    /\ Fail
    /\ \E s \in running[p] : running' = [running EXCEPT ![p] = @ \ {s}]
    /\ UNCHANGED <<lockVars, files, mutation, pending, lastTick, active, due, fired, overlapped>>

-----------------------------------------------------------------------------
(* Commands                                                                  *)

(* save_schedule resolves the plan first and may ask a model what the         *)
(* expression means; the schedule is added afterwards.                        *)
ResolvePlan(p, s) ==
    /\ Up(p)
    /\ store[s] = "none" /\ \A q \in Processes : s \notin pending[q]
    /\ PlanOf[s] \in plans
    /\ pending' = [pending EXCEPT ![p] = @ \union {s}]
    /\ UNCHANGED <<lockVars, files, mutation, loop, failures>>

CreateSchedule(p, s) ==
    /\ s \in pending[p]
    /\ Enter(p, [kind |-> "create", file |-> store, id |-> s])
    /\ UNCHANGED <<lockVars, files, pending, loop, failures>>

DeleteSchedule(p, s) ==
    /\ Listed(s)
    /\ Enter(p, [kind |-> "delete", file |-> store, id |-> s])
    /\ UNCHANGED <<lockVars, files, pending, loop, failures>>

ToggleSchedule(p, s) ==
    /\ Listed(s)
    /\ Enter(p, [kind |-> "toggle", file |-> store, id |-> s])
    /\ UNCHANGED <<lockVars, files, pending, loop, failures>>

(* delete_plan removes the plan first, then its schedules.                    *)
DeletePlan(p, plan) ==
    /\ plan \in plans
    /\ Enter(p, [kind |-> "unplan", file |-> store, plan |-> plan])
    /\ plans' = plans \ {plan}
    /\ UNCHANGED <<lockVars, store, pending, loop, failures>>

Changed(m) ==
    [s \in Schedules |->
        IF m.kind = "unplan"
        THEN IF PlanOf[s] = m.plan /\ m.file[s] \in {"on", "off"} THEN "deleted" ELSE m.file[s]
        ELSE IF s # m.id THEN m.file[s]
        ELSE IF m.kind = "create" THEN "on"
        ELSE IF m.kind = "delete" THEN "deleted"
        ELSE IF m.file[s] = "on" THEN "off" ELSE "on"]

Settle(p) ==
    /\ mutation[p].kind \in {"create", "delete", "toggle", "unplan"}
    /\ Leave(p)
    /\ pending' = IF mutation[p].kind = "create"
                  THEN [pending EXCEPT ![p] = @ \ {mutation[p].id}] ELSE pending

Save(p) ==
    /\ Settle(p)
    /\ store' = Changed(mutation[p])
    /\ UNCHANGED <<lockVars, plans, loop, failures>>

SaveFails(p) ==
    /\ Settle(p)
    /\ Fail
    /\ UNCHANGED <<lockVars, files, loop>>

-----------------------------------------------------------------------------
Run(p) ==
    \/ Tick(p) \/ Claim(p) \/ ClaimFails(p) \/ Dispatch(p) \/ RunEnds(p) \/ RunPanics(p)

Command(p) ==
    \/ \E s \in Schedules : \/ ResolvePlan(p, s) \/ CreateSchedule(p, s)
                            \/ DeleteSchedule(p, s) \/ ToggleSchedule(p, s)
    \/ \E plan \in Plans : DeletePlan(p, plan)

Next ==
    \/ Pass
    \/ \E p \in Processes : End(p) \/ Lock(p) \/ Run(p) \/ Save(p) \/ SaveFails(p)
    \/ \E p \in Users : Command(p)

(* Threads are scheduled: an acquisition and a shutdown go on, the loop ticks, *)
(* a mutation that was entered ends.                                          *)
Fairness ==
    \A p \in Processes :
        /\ WF_vars(Lock(p) /\ pc[p] \in Acquiring \union {"releasing", "removing"})
        /\ WF_vars(End(p) /\ pc[p] = "closing")
        /\ SF_vars(Tick(p))
        /\ WF_vars(Claim(p) \/ Save(p))
        /\ WF_vars(Dispatch(p))

Spec == Init /\ [][Next]_vars /\ Fairness
-----------------------------------------------------------------------------
Claims == [id : Schedules, slots : SUBSET Time]

Mutations ==
    {NoMutation}
    \union [kind : {"claim"}, file : Contents, now : Time, paused : BOOLEAN,
            active : SUBSET Schedules]
    \union [kind : {"create", "delete", "toggle"}, file : Contents, id : Schedules]
    \union [kind : {"unplan"}, file : Contents, plan : Plans]

TypeOK ==
    /\ clock \in Time /\ pc \in [Processes -> Points]
    /\ disturbed \in BOOLEAN /\ overlapped \in BOOLEAN
    /\ lockFile \in Locks \union {NoFile}
    /\ attempts \in [Processes -> 0..Attempts - 1] /\ starts \in 0..MaxStarts
    /\ plans \subseteq Plans /\ store \in Contents
    /\ mutation \in [Processes -> Mutations]
    /\ pending \in [Processes -> SUBSET Schedules]
    /\ lastTick \in [Processes -> Time]
    /\ active \in [Processes -> SUBSET Schedules] /\ running \in [Processes -> SUBSET Schedules]
    /\ due \in [Processes -> SUBSET Claims]
    /\ fired \in [Schedules -> [Time -> 0..2]]
    /\ failures \in 0..MaxFailures

(* As long as no two processes ran schedules at once, no slot of a schedule   *)
(* is started twice: not after a failing save of the claim, a crash, or a     *)
(* takeover of the lock ("it can never execute it twice",                    *)
(* claim_due_schedules).  Nor does a schedule overtake itself: it is neither  *)
(* claimed nor started while a run of it is under way, in any process         *)
(* (scheduler_loop).                                                         *)
FiresOnce ==
    overlapped \/ \A s \in Schedules :
        /\ \A k \in Slots[s] : fired[s][k] <= 1
        /\ Cardinality({p \in Processes : s \in running[p]})
           + Cardinality({p \in Processes : \E d \in due[p] : d.id = s}) <= 1

(* A loop closes the window over a slot only when it has claimed it, unless   *)
(* the schedule was off or deleted in the file it loaded, or running, or all  *)
(* are paused: a failure leaves the window open (scheduler_loop).             *)
NoSlotIsLost ==
    [][\A p \in Processes, s \in Schedules :
          LET m == mutation[p]
          IN  Looping(p) /\ Looping(p)' /\ lastTick'[p] # lastTick[p] =>
                /\ m.kind = "claim"
                /\ \/ Window(p, s, lastTick'[p]) = {}
                   \/ m.file[s] # "on" \/ m.paused \/ s \in m.active
                   \/ \E d \in due'[p] : d.id = s]_vars

(* The windows of a loop that lives are closed, whatever commands compete for *)
(* the mutation boundary.                                                     *)
WindowsClose ==
    \A p \in Processes, k \in Time \ {0} :
        (Looping(p) /\ lastTick[p] < k /\ k <= clock) ~> (~Looping(p) \/ k <= lastTick[p])

=============================================================================
