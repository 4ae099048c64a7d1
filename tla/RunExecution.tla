---------------------------- MODULE RunExecution ----------------------------
(***************************************************************************)
(* One run of a plan through the executor (executor/mod.rs): its first      *)
(* execution, its pauses and failures, the plan repairs that happen         *)
(* meanwhile, and every resumption.                                         *)
(*                                                                         *)
(* The run record is persisted after every change, in the same synchronous  *)
(* block that made it, so one copy stands for the record in memory and the  *)
(* one on disk.  A failing save returns an error from the executor and      *)
(* leaves the older record: action Stop before the change.  Executions of   *)
(* one run exclude each other (the lifecycle lock): pc is the one executor. *)
(***************************************************************************)
EXTENDS PlanGraph

CONSTANTS Versions,  \* how many versions the plan ever has
          Plans,     \* version -> plan, as the store keeps them
          StepIds    \* every step id of any version

(* What a saved plan is: the store refuses what the validator refuses.      *)
ASSUME PlansAssumption ==
    /\ Versions \in Nat \ {0}
    /\ StepIds \subseteq Nat \ {0}
    /\ DOMAIN Plans = 1..Versions
    /\ \A v \in 1..Versions :
          /\ Plans[v].steps \subseteq StepIds
          /\ IsPlan(Plans[v])
          /\ ValidPlan(Plans[v])

PlanOrder == [v \in 1..Versions |-> TopologicalOrder(Plans[v])]

(* The algorithm of `topological_order` loses track of a step that names a  *)
(* dependency twice.                                                        *)
ASSUME DependenciesAssumption ==
    \A v \in 1..Versions : NamesDependenciesOnce(Plans[v])

VARIABLES
    \* the persisted run record
    runStatus,    \* RunStatus, or "absent" before the run exists
    runVersion,   \* the plan version the run executes
    blamed,       \* the step named by Failed or WaitingForHuman, else NoStep
    step,         \* StepRunStatus of each step; "absent" without an entry
    iterations,   \* statuses of the recorded child executions of a body step
    verdict,      \* the `result` output of each CONDITION
    \* the plan and repair stores
    version,      \* the current version of the plan
    diagnosis,    \* version a repair proposal in progress looks at, else 0
    worldFix,     \* plan_version of the run's latest WorldFix, else 0
    \* the executor's memory
    pc, pos, attempt, completed, unavailable,
    \* the FAN_OUT runner's: nested owners under way, outermost first, and what
    \* the iterations under way have recorded and routed away
    nested, handled, bypassed

record == <<runStatus, runVersion, blamed, step, iterations, verdict>>
stores == <<version, diagnosis, worldFix>>
runner == <<nested, handled, bypassed>>
memory == <<pc, pos, attempt, completed, unavailable, runner>>
vars   == <<runStatus, runVersion, blamed, step, iterations, verdict, version, diagnosis,
            worldFix, pc, pos, attempt, completed, unavailable, nested, handled, bypassed>>

NoStep == 0

Plan    == Plans[runVersion]
Order   == PlanOrder[runVersion]
Current == Order[pos]

RunStatuses  == {"absent", "running", "waiting", "succeeded", "failed", "cancelled"}
StepStatuses == {"absent", "pending", "running", "succeeded", "failed", "skipped",
                 "cancelled", "waiting"}
(* What an execution reports of one child invocation.                       *)
Outcomes     == {"succeeded", "skipped", "failed"}
(* "idle"         no executor owns the run                                  *)
(* "accepted"     the run is persisted, execute_run has not begun            *)
(* "loop"         before a step of the order                                *)
(* "attempt"      awaiting an attempt of Current, or the delay before one   *)
(* "child_failed" a child of Current failed: the attempt will fail           *)
(* "routing"      between the two saves of a CONDITION that succeeded       *)
(* "cancelling"   the aborted executor was dropped, the record still stands *)
Points == {"idle", "accepted", "loop", "attempt", "child_failed", "routing", "cancelling"}

Init ==
    /\ runStatus  = "absent"
    /\ runVersion = 1
    /\ blamed     = NoStep
    /\ step       = [s \in StepIds |-> "absent"]
    /\ iterations = [s \in StepIds |-> {}]
    /\ verdict    = [s \in StepIds |-> FALSE]
    /\ version    = 1
    /\ diagnosis  = 0
    /\ worldFix   = 0
    /\ pc          = "idle"
    /\ pos         = 0
    /\ attempt     = 0
    /\ completed   = {}
    /\ unavailable = {}
    /\ nested      = <<>>
    /\ handled     = {}
    /\ bypassed    = {}

(* A runner starts with nothing processed.                                   *)
FreshRunner == nested' = <<>> /\ handled' = {} /\ bypassed' = {}

(* The executor returned, failed or died: its memory is gone.               *)
Halt ==
    /\ pc'          = "idle"
    /\ pos'         = 0
    /\ attempt'     = 0
    /\ completed'   = {}
    /\ unavailable' = {}
    /\ FreshRunner

(* Flawed form: the loop never moves on.                                     *)
StuckAdvance == pc' = "loop" /\ pos' = pos /\ attempt' = 0 /\ FreshRunner

Advance == pc' = "loop" /\ pos' = pos + 1 /\ attempt' = 0 /\ FreshRunner

(***************************************************************************)
(* Starting and resuming                                                   *)
(***************************************************************************)
(* `execute`: the record is created and saved, every step Pending.          *)
Execute ==
    /\ pc = "idle" /\ runStatus = "absent"
    /\ runStatus'  = "running"
    /\ runVersion' = version
    /\ step' = [s \in StepIds |->
                   IF s \in Plans[version].steps THEN "pending" ELSE "absent"]
    /\ pc' = "accepted"
    /\ UNCHANGED <<blamed, iterations, verdict, stores, pos, attempt, completed, unavailable, runner>>

(* `resume`: the answer to a paused run, against the version it ran.        *)
ResumeHuman ==
    /\ pc = "idle" /\ runStatus = "waiting"
    /\ blamed \in Plan.steps
    /\ Plan.kind[blamed] = "human"
    /\ step[blamed] = "waiting"
    /\ pc' = "accepted"
    /\ UNCHANGED <<record, stores, pos, attempt, completed, unavailable, runner>>

(* Steps recorded so far: a repaired plan's other steps are new to the run. *)
Recorded == {s \in StepIds : step[s] # "absent"}

(* Flawed form: the bodies of reset FAN_OUTs keep their checkpoints.         *)
BodylessRepairResetSteps(p) ==
    UNION {DownstreamClosure(p, r) : r \in {blamed} \cup (p.steps \ Recorded)}

(* Flawed form: only the failed step and the new ones start afresh.          *)
RootsOnlyRepairResetSteps(p) == ({blamed} \cup (p.steps \ Recorded)) \cap p.steps

(* Flawed form: the failed step itself keeps its checkpoint.                 *)
DependentsRepairResetSteps(p) ==
    UNION {DownstreamClosure(p, r) : r \in {blamed} \cup (p.steps \ Recorded)} \ {blamed}

(* Flawed form: the whole plan starts afresh.                                *)
EagerRepairResetSteps(p) == p.steps

(* `repair_reset_step_ids`: everything downstream of the failed step or of a *)
(* new step in the repaired plan, and the bodies of every FAN_OUT in it.     *)
RepairResetSteps(p) ==
    LET downstream == UNION {DownstreamClosure(p, r) : r \in {blamed} \cup (p.steps \ Recorded)}
    IN  downstream \cup UNION {FanOutBodyClosure(p, o) : o \in downstream}

(* The checkpoints an accepted repair leaves as they are.                    *)
Kept(p) == (p.steps \cap Recorded) \ RepairResetSteps(p)

(* `resume_from_repair` up to its save, in one of the two RepairResumeModes  *)
(* that `repair_resume_mode` grants: PatchedPlan against a newer version, or *)
(* WorldFixed against the version the latest world fix was proposed for.     *)
(* Input rebasing can only refuse the resumption.                            *)
AcceptRepair ==
    /\ pc = "idle" /\ runStatus = "failed"
    /\ version > runVersion \/ (version = runVersion /\ worldFix = runVersion)
    /\ blamed # NoStep /\ step[blamed] = "failed"
    /\ LET p    == Plans[version]
           kept == Kept(p)
       IN  /\ step' = [s \in StepIds |->
                          IF s \in kept THEN step[s]
                          ELSE IF s \in p.steps THEN "pending" ELSE "absent"]
           /\ iterations' = [s \in StepIds |-> IF s \in kept THEN iterations[s] ELSE {}]
           /\ verdict'    = [s \in StepIds |-> s \in kept /\ verdict[s]]
    /\ runVersion' = version
    /\ pc' = "accepted"
    /\ UNCHANGED <<runStatus, blamed, stores, pos, attempt, completed, unavailable, runner>>

(***************************************************************************)
(* execute_run                                                             *)
(***************************************************************************)
(* Flawed form: cached results of earlier executions are not rebuilt.        *)
ForgetfulCheckpoints(statuses) == {}

Checkpoints(statuses) == {s \in StepIds : step[s] \in statuses}

(* The workspace resolves, the run is saved as Running, and the scheduler's  *)
(* two sets are rebuilt from the persisted checkpoints.                      *)
BeginRun ==
    /\ pc = "accepted"
    /\ runStatus'   = "running"
    /\ blamed'      = NoStep
    /\ completed'   = Checkpoints({"succeeded"})
    /\ unavailable' = Checkpoints({"failed", "skipped", "cancelled"})
    /\ pos' = 1
    /\ pc'  = "loop"
    /\ UNCHANGED <<runVersion, step, iterations, verdict, stores, attempt, runner>>

AtStep == pc = "loop" /\ pos \in DOMAIN Order

Settled(s) == s \in completed \cup unavailable \cup FanOutOwned(Plan)

PassOver ==
    /\ AtStep /\ Settled(Current)
    /\ Advance
    /\ UNCHANGED <<record, stores, completed, unavailable>>

(* Flawed form: only a failed dependency blocks, not a skipped one.          *)
LenientDependencyUnavailable(s) ==
    \E d \in Deps(Plan, s) : d \in unavailable /\ step[d] = "failed"

DependencyUnavailable(s) == Deps(Plan, s) \cap unavailable # {}

SkipDependent ==
    /\ AtStep /\ ~Settled(Current)
    /\ DependencyUnavailable(Current)
    /\ step' = [step EXCEPT ![Current] = "skipped"]
    /\ unavailable' = unavailable \cup {Current}
    /\ Advance
    /\ UNCHANGED <<runStatus, runVersion, blamed, iterations, verdict, stores, completed>>

(* The first attempt of `run_step_with_policy`.                              *)
BeginStep ==
    /\ AtStep /\ ~Settled(Current)
    /\ ~DependencyUnavailable(Current)
    /\ step' = [step EXCEPT ![Current] = "running"]
    /\ attempt' = 1
    /\ pc' = "attempt"
    /\ UNCHANGED <<runStatus, runVersion, blamed, iterations, verdict, stores,
                   pos, completed, unavailable, runner>>

(***************************************************************************)
(* The FAN_OUT runner.  It takes one item after another through its body, in *)
(* an order the dependencies allow; how many items there are, and when an    *)
(* `until` stops early, is left open.                                       *)
(***************************************************************************)
Owner == IF nested = <<>> THEN Current ELSE nested[Len(nested)]

OwnBody == Spawned(Plan, Owner)

(* The owner may return, or go on with its next item.                        *)
BetweenItems == OwnBody \subseteq handled \/ OwnBody \cap handled = {}

NextItem ==
    /\ pc = "attempt"
    /\ OwnBody # {} /\ OwnBody \subseteq handled
    /\ handled'  = handled \ OwnBody
    /\ bypassed' = bypassed \ OwnBody
    /\ UNCHANGED <<record, stores, pc, pos, attempt, completed, unavailable, nested>>

IsNext(c) ==
    /\ pc = "attempt"
    /\ c \in OwnBody \ handled
    /\ Deps(Plan, c) \cap OwnBody \subseteq handled

(* `record_child_run`: children finished one invocation with an outcome; the *)
(* aggregate status is "running" until the last item.                        *)
RecordChildren(children, status, outcome) ==
    /\ step' = [s \in StepIds |-> IF s \in children THEN status ELSE step[s]]
    /\ iterations' = [s \in StepIds |->
                         iterations[s] \cup IF s \in children THEN {outcome} ELSE {}]
    /\ UNCHANGED <<runStatus, runVersion, blamed, verdict, stores,
                   pos, attempt, completed, unavailable>>

Bypassed(c) == c \in bypassed \/ Deps(Plan, c) \cap bypassed # {}

(* `record_skipped_spawn`                                                    *)
SkipChild(c, status) ==
    /\ IsNext(c) /\ Bypassed(c)
    /\ status \in {"skipped", "running"}
    /\ RecordChildren({c}, status, "skipped")
    /\ handled'  = handled \cup {c}
    /\ bypassed' = bypassed \cup {c}
    /\ UNCHANGED <<pc, nested>>

(* `run_spawn_step` on a nested FAN_OUT.                                     *)
EnterNested(c) ==
    /\ IsNext(c) /\ ~Bypassed(c)
    /\ Plan.kind[c] = "fan_out"
    /\ nested' = Append(nested, c)
    /\ UNCHANGED <<record, stores, pc, pos, attempt, completed, unavailable, handled, bypassed>>

(* `run_spawn_step` on any other step; a CONDITION routes its iteration.     *)
ChildSucceeds(c, status) ==
    /\ IsNext(c) /\ ~Bypassed(c)
    /\ Plan.kind[c] # "fan_out"
    /\ status \in {"succeeded", "running"}
    /\ RecordChildren({c}, status, "succeeded")
    /\ handled' = handled \cup {c}
    /\ \E untaken \in IF Plan.kind[c] = "condition"
                      THEN {Plan.onTrue[c], Plan.onFalse[c]} ELSE {{}} :
          bypassed' = bypassed \cup untaken
    /\ UNCHANGED <<pc, nested>>

NestedReturns(status) ==
    /\ pc = "attempt" /\ nested # <<>> /\ BetweenItems
    /\ status \in {"succeeded", "running"}
    /\ RecordChildren({Owner}, status, "succeeded")
    /\ nested'   = SubSeq(nested, 1, Len(nested) - 1)
    /\ handled'  = (handled \ OwnBody) \cup {Owner}
    /\ bypassed' = bypassed \ OwnBody
    /\ UNCHANGED pc

(* A body step fails, or a nested owner itself, and with it every owner up   *)
(* to Current: nothing is awaited between their records.                     *)
ChildFails(c) ==
    /\ \/ IsNext(c) /\ ~Bypassed(c) /\ Plan.kind[c] # "fan_out"
       \/ pc = "attempt" /\ nested # <<>> /\ c = Owner
    /\ RecordChildren({c} \cup {nested[i] : i \in DOMAIN nested}, "failed", "failed")
    /\ pc' = "child_failed"
    /\ FreshRunner

(* Flawed form: a child is recorded as succeeded whatever its iterations say.*)
OptimisticFinalStatus(c) == "succeeded"

FinalStatus(c) == IF iterations[c] \subseteq {"skipped"} THEN "skipped" ELSE "succeeded"

(* The children whose runs a successful FAN_OUT returns: its own body, and   *)
(* the bodies of nested owners that ran (an earlier attempt's may have).     *)
Returned(children) ==
    LET own == Spawned(Plan, Current)
    IN  /\ own \subseteq children
        /\ \A c \in children \ own : \E o \in children :
              c \in Spawned(Plan, o) /\ "succeeded" \in iterations[o]
        /\ attempt = 1 => \A o \in children :
              "succeeded" \in iterations[o] => Spawned(Plan, o) \subseteq children

(* The Ok arm with `finalize_child_runs`; a CONDITION then routes.           *)
AttemptSucceeds ==
    /\ pc = "attempt"
    /\ nested = <<>> /\ BetweenItems
    /\ \A c \in OwnBody : iterations[c] # {} => c \in handled  \* same items in a retry
    /\ \E children \in SUBSET FanOutBodyClosure(Plan, Current) :
          /\ Returned(children)
          /\ step' = [s \in StepIds |->
                         IF s = Current THEN "succeeded"
                         ELSE IF s \in children THEN FinalStatus(s) ELSE step[s]]
    /\ completed' = completed \cup {Current}
    /\ IF Plan.kind[Current] = "condition"
       THEN /\ \E result \in BOOLEAN : verdict' = [verdict EXCEPT ![Current] = result]
            /\ pc' = "routing"
            /\ UNCHANGED <<pos, attempt, runner>>
       ELSE Advance /\ UNCHANGED verdict
    /\ UNCHANGED <<runStatus, runVersion, blamed, iterations, stores, unavailable>>

Untaken(c) == IF verdict[c] THEN Plan.onFalse[c] ELSE Plan.onTrue[c]

(* Flawed form: both branches are skipped.                                   *)
DoublyRoutedAway(c) == (Plan.onTrue[c] \cup Plan.onFalse[c]) \ (completed \cup unavailable)

RoutedAway(c) == Untaken(c) \ (completed \cup unavailable)

(* The second save of a CONDITION, present only when a step is skipped.      *)
RouteCondition ==
    /\ pc = "routing"
    /\ step' = [s \in StepIds |-> IF s \in RoutedAway(Current) THEN "skipped" ELSE step[s]]
    /\ unavailable' = unavailable \cup RoutedAway(Current)
    /\ Advance
    /\ UNCHANGED <<runStatus, runVersion, blamed, iterations, verdict, stores, completed>>

InAttempt == pc \in {"attempt", "child_failed"}

MayRetry == attempt < Plan.attempts[Current]

(* An error or a timeout with attempts left; the delay is part of the next.  *)
RetryAttempt ==
    /\ InAttempt /\ MayRetry
    /\ attempt' = attempt + 1
    /\ pc' = "attempt"
    /\ FreshRunner
    /\ UNCHANGED <<record, stores, pos, completed, unavailable>>

(* Flawed form: body steps in flight are left as they are.                   *)
NoTerminalizedChildren == {}

(* `terminalize_failed_fan_out_children`                                     *)
TerminalizedChildren ==
    {c \in FanOutBodyClosure(Plan, Current) : step[c] \in {"pending", "running"}}

AttemptFails ==
    /\ InAttempt /\ ~MayRetry
    /\ step' = [s \in StepIds |->
                   IF s = Current THEN "failed"
                   ELSE IF s \in TerminalizedChildren THEN "cancelled" ELSE step[s]]
    /\ runStatus' = "failed"
    /\ blamed'    = Current
    /\ Halt
    /\ UNCHANGED <<runVersion, iterations, verdict, stores>>

(* The responder was dropped without an answer: the run waits on disk.       *)
HumanPends ==
    /\ pc = "attempt" /\ Plan.kind[Current] = "human"
    /\ step' = [step EXCEPT ![Current] = "waiting"]
    /\ runStatus' = "waiting"
    /\ blamed'    = Current
    /\ Halt
    /\ UNCHANGED <<runVersion, iterations, verdict, stores>>

(* A rejected approval ends the run as cancelled, not as a failure.          *)
HumanRejects ==
    /\ pc = "attempt" /\ Plan.kind[Current] = "human"
    /\ step' = [step EXCEPT ![Current] = "failed"]
    /\ runStatus' = "cancelled"
    /\ Halt
    /\ UNCHANGED <<runVersion, blamed, iterations, verdict, stores>>

Finish ==
    /\ pc = "loop" /\ pos \notin DOMAIN Order
    /\ runStatus' = "succeeded"
    /\ Halt
    /\ UNCHANGED <<runVersion, blamed, step, iterations, verdict, stores>>

(***************************************************************************)
(* Interruptions                                                           *)
(***************************************************************************)
(* The process dies, a save fails, the workspace does not resolve, or the    *)
(* cancellation of an aborted run cannot take the lifecycle lock: the record *)
(* stays as it is.                                                           *)
Stop ==
    /\ pc # "idle"
    /\ Halt
    /\ UNCHANGED <<record, stores>>

(* `abort_run` signals the select loop, which drops the executor at an await.*)
Abort ==
    /\ pc = "attempt"
    /\ pc' = "cancelling"
    /\ pos' = 0 /\ attempt' = 0 /\ completed' = {} /\ unavailable' = {} /\ FreshRunner
    /\ UNCHANGED <<record, stores>>

(* `mark_run_cancelled_inner` on a run that is not finished.                 *)
CancelRecord ==
    /\ step' = [s \in StepIds |->
                   IF step[s] \in {"pending", "running", "waiting"} THEN "cancelled" ELSE step[s]]
    /\ runStatus' = "cancelled"
    /\ blamed'    = NoStep
    /\ UNCHANGED <<runVersion, iterations, verdict>>

MarkCancelled ==
    /\ pc = "cancelling"
    /\ CancelRecord
    /\ Halt
    /\ UNCHANGED stores

(* `abort_run` on a run no executor is registered for.                       *)
CleanStale ==
    /\ pc = "idle" /\ runStatus = "running"
    /\ \A s \in StepIds : step[s] # "running"
    /\ CancelRecord
    /\ UNCHANGED <<stores, memory>>

(***************************************************************************)
(* Meanwhile, outside the executor                                         *)
(***************************************************************************)
(* A repair patch, an edit or an import commits the next plan version.       *)
ChangePlan ==
    /\ version < Versions
    /\ version' = version + 1
    /\ UNCHANGED <<record, diagnosis, worldFix, memory>>

(* `propose_repair` on a failed run, until the backend answers.              *)
Diagnose ==
    /\ diagnosis = 0
    /\ runStatus = "failed"
    /\ blamed \in Plans[version].steps
    /\ diagnosis' = version
    /\ UNCHANGED <<record, version, worldFix, memory>>

(* The backend blames the world: a WorldFix for the plan it looked at.       *)
RecordWorldFix ==
    /\ diagnosis # 0
    /\ worldFix'  = diagnosis
    /\ diagnosis' = 0
    /\ UNCHANGED <<record, version, memory>>

(* The backend proposes a patch (which ChangePlan may commit) or fails.      *)
DropDiagnosis ==
    /\ diagnosis # 0
    /\ diagnosis' = 0
    /\ UNCHANGED <<record, version, worldFix, memory>>

(***************************************************************************)
(* Specification                                                           *)
(***************************************************************************)
(* What the executor does by itself.                                        *)
Proceed ==
    \/ BeginRun \/ PassOver \/ SkipDependent \/ BeginStep
    \/ RouteCondition \/ Finish \/ MarkCancelled

RunBodies ==
    \/ NextItem
    \/ \E status \in StepStatuses : NestedReturns(status)
    \/ \E c \in StepIds : EnterNested(c) \/ ChildFails(c)
    \/ \E c \in StepIds, status \in StepStatuses : SkipChild(c, status) \/ ChildSucceeds(c, status)

EndAttempt == AttemptSucceeds \/ RetryAttempt \/ AttemptFails \/ HumanPends \/ HumanRejects

Next ==
    \/ Execute \/ ResumeHuman \/ AcceptRepair
    \/ Proceed
    \/ EndAttempt
    \/ RunBodies
    \/ Stop \/ Abort \/ CleanStale
    \/ ChangePlan \/ Diagnose \/ RecordWorldFix \/ DropDiagnosis

Spec == Init /\ [][Next]_vars

(* `tokio::time::timeout` bounds an attempt, of an approval too, but only of *)
(* a step that has a timeout; any other attempt may never be answered.       *)
AwaitsAnswer == pc = "attempt" /\ ~Plan.timed[Current]

(* The executor's task is scheduled, and an attempt with a timeout ends.     *)
FairSpec == Spec /\ WF_vars(Proceed) /\ WF_vars(~AwaitsAnswer /\ EndAttempt)

(***************************************************************************)
(* Invariants                                                              *)
(***************************************************************************)
(* The type of the record, the stores and the executor's memory; an attempt  *)
(* under way is one of the attempts the step's retry policy allows.          *)
TypeOK ==
    /\ runStatus \in RunStatuses
    /\ runVersion \in 1..Versions
    /\ blamed \in StepIds \cup {NoStep}
    /\ step \in [StepIds -> StepStatuses]
    /\ iterations \in [StepIds -> SUBSET Outcomes]
    /\ verdict \in [StepIds -> BOOLEAN]
    /\ version \in 1..Versions
    /\ diagnosis \in 0..Versions
    /\ worldFix \in 0..Versions
    /\ pc \in Points
    /\ pos \in Nat
    /\ attempt \in Nat
    /\ completed \subseteq StepIds
    /\ unavailable \subseteq StepIds
    /\ nested \in Seq(StepIds)
    /\ handled \subseteq StepIds
    /\ bypassed \subseteq StepIds
    /\ pc \in {"attempt", "child_failed", "routing"} =>
          pos \in DOMAIN Order /\ attempt \in 1..Plan.attempts[Current]

Scheduling == pc \in {"loop", "attempt", "child_failed", "routing"}

(* The scheduler never reads back what it persisted, so its two sets must    *)
(* keep agreeing with the checkpoints of the main flow, across a resumption, *)
(* a routing and every child a FAN_OUT records.                              *)
CachesAgree ==
    Scheduling =>
        \A s \in MainFlow(Plan) :
            /\ s \in completed   <=> step[s] = "succeeded"
            /\ s \in unavailable <=> step[s] \in {"failed", "skipped", "cancelled"}

(* Whatever precedes the current position has been dealt with, the step      *)
(* under way is the one recorded as running with nothing skipped before it,  *)
(* and the FAN_OUT runner is inside that step only.                          *)
ProgressIsRecorded ==
    /\ Scheduling =>
        /\ pos # 0
        /\ \A i \in DOMAIN Order : i < pos => Settled(Order[i])
        /\ InAttempt => /\ Current \in MainFlow(Plan)
                        /\ step[Current] = "running"
                        /\ ~DependencyUnavailable(Current)
        /\ pc = "routing" => Current \in completed
    /\ pc # "attempt" => nested = <<>>
    /\ \A i \in DOMAIN nested : nested[i] \in FanOutOwned(Plan)
    /\ runStatus = "absent" => pc = "idle" /\ \A s \in StepIds : step[s] = "absent"

(* A run ends as Succeeded only when every step of the main flow succeeded   *)
(* or was skipped: the loop passes over nothing it should have run.          *)
SucceededRunIsComplete ==
    runStatus = "succeeded" =>
        \A s \in MainFlow(Plan) : step[s] \in {"succeeded", "skipped"}

RestsOnSuccess(s) ==
    step[s] = "succeeded" => \A d \in Deps(Plan, s) : step[d] = "succeeded"

(* A result is kept only while the results it was computed from are: after   *)
(* any sequence of failures, patches and resumptions, a succeeded step of    *)
(* the main flow depends on succeeded steps only.                            *)
SuccessRestsOnSuccess == \A s \in MainFlow(Plan) : RestsOnSuccess(s)

SkipIsJustified(s) ==
    step[s] = "skipped" =>
        \/ \E d \in Deps(Plan, s) : step[d] \in {"skipped", "failed", "cancelled"}
        \/ \E c \in Plan.steps : /\ Plan.kind[c] = "condition"
                                 /\ step[c] = "succeeded"
                                 /\ s \in Untaken(c)

(* A step is skipped for a reason that still stands: a dependency that did   *)
(* not run, or a CONDITION whose recorded result leads elsewhere.            *)
SkipsAreJustified == \A s \in MainFlow(Plan) : SkipIsJustified(s)

(* Once a run has ended, no step is still shown in flight, whichever child   *)
(* of whichever FAN_OUT was running when it ended.                           *)
EndedRunHasNoRunningStep ==
    pc = "idle" /\ runStatus \in {"succeeded", "failed", "cancelled"} =>
        \A s \in StepIds : step[s] # "running"

BodyIsFresh(o) ==
    step[o] = "pending" =>
        \A b \in FanOutBodyClosure(Plan, o) : step[b] = "pending" /\ iterations[b] = {}

(* A FAN_OUT starts on a fresh body: results of items it processed before a   *)
(* repair never mix with those of the items it processes after.               *)
PendingOwnerHasFreshBody == \A o \in MainFlow(Plan) : BodyIsFresh(o)

OutcomeIsRecorded(s) == step[s] = "succeeded" => "succeeded" \in iterations[s]

(* The status of a body step matches what its invocations did: one shown as  *)
(* succeeded has succeeded for some item.                                    *)
BodyOutcomeIsRecorded == \A s \in FanOutOwned(Plan) : OutcomeIsRecorded(s)

(***************************************************************************)
(* Action properties                                                       *)
(***************************************************************************)
(* The step starts in the main flow.                                        *)
Starts(s) == s \in MainFlow(Plan) /\ step[s] # "running" /\ step'[s] = "running"

(* "Steps are dispatched in topological order" (executor/mod.rs): whatever   *)
(* was resumed, repaired or routed before, a step starts only when all its   *)
(* dependencies have succeeded.                                              *)
StartsAfterDependencies ==
    [][\A s \in StepIds :
          Starts(s) => \A d \in Deps(Plan, s) : step[d] = "succeeded"]_vars

(* "already-succeeded work is never repeated" (resume_from_repair): a result *)
(* of the main flow is given up only with one of the results it rests on.    *)
SucceededWorkIsKept ==
    [][\A s \in MainFlow(Plan) :
          step[s] = "succeeded" /\ s \in MainFlow(Plan)' /\ step'[s] # "succeeded"
          => \E d \in Deps(Plan', s) : step'[d] # "succeeded"]_vars

(* "mark every step of the untaken branch as skipped so it (...) never runs" *)
(* (execute_run): no step starts that the recorded result of a succeeded     *)
(* CONDITION excludes.                                                       *)
UntakenBranchNeverRuns ==
    [][\A s \in StepIds, c \in Plan.steps :
          Starts(s) /\ Plan.kind[c] = "condition" /\ step[c] = "succeeded"
          => s \notin Untaken(c)]_vars

(***************************************************************************)
(* What a patch may break                                                  *)
(*                                                                         *)
(* A patch can set or remove any field of any step and several at once       *)
(* (SetStepField, RemoveStepField, SetPlanField, RemovePlanField, Batch), so  *)
(* it can rewire steps whose checkpoints the repair keeps.  Nothing compares  *)
(* the two plans.  That, and what else the code leaves open, is all that can  *)
(* break the invariants above: each property below names the one way in.      *)
(***************************************************************************)
(* Kept steps to which the patch gave other dependencies, another kind,      *)
(* other kept steps on their branches, or a place outside a body.             *)
Rewired ==
    LET q    == Plans[version]
        kept == Kept(q)
    IN  {s \in kept :
            \/ Deps(q, s) # Deps(Plan, s)
            \/ q.kind[s] # Plan.kind[s]
            \/ q.onTrue[s] \cap kept # Plan.onTrue[s] \cap kept
            \/ q.onFalse[s] \cap kept # Plan.onFalse[s] \cap kept
            \/ s \in FanOutOwned(Plan) /\ s \notin FanOutOwned(q)}

(* A result loses one it rests on only to a repair that keeps it although    *)
(* the patch gave it other dependencies or took it out of a body.            *)
OnlyRewiringBreaksResults ==
    [][\A s \in MainFlow(Plan)' :
          \/ RestsOnSuccess(s)'
          \/ s \in MainFlow(Plan) /\ ~RestsOnSuccess(s)
          \/ AcceptRepair /\ s \in Rewired]_vars

(* A skip loses its reason only to a repair that keeps it although the patch  *)
(* rewired that step, or a kept one it depends on, directly or not.          *)
OnlyRewiringBreaksSkips ==
    [][\A s \in MainFlow(Plan)' :
          \/ SkipIsJustified(s)'
          \/ s \in MainFlow(Plan) /\ ~SkipIsJustified(s)
          \/ AcceptRepair /\ \E c \in Rewired : c = s \/ DependsTransitively(Plan, s, c)]_vars

(* The run goes on, or has succeeded, although s failed or was left out.     *)
Overlooked(s) ==
    \/ runStatus = "succeeded" /\ step[s] \notin {"succeeded", "skipped"}
    \/ /\ step[s] \in {"failed", "cancelled"}
       /\ ~(pc = "idle" /\ runStatus = "cancelled")
       /\ ~(pc = "idle" /\ runStatus = "failed" /\ s = blamed /\ step[s] = "failed")

(* No run goes on beside a failure in its main flow, or succeeds with a step  *)
(* of it left out, unless a repair took a failed step out of a body and kept *)
(* its checkpoint.                                                           *)
OnlyRewiringHidesFailures ==
    [][\A s \in MainFlow(Plan)' :
          \/ ~Overlooked(s)'
          \/ s \in MainFlow(Plan) /\ Overlooked(s)
          \/ AcceptRepair /\ s \in Rewired]_vars

(* The body of a FAN_OUT that has yet to start is touched by a repair that   *)
(* took kept steps into it (or rewired the owner), or by a CONDITION of the  *)
(* main flow that routes a step of the body away; by nothing else.           *)
OnlyPatchesAndRoutesTouchBodies ==
    [][\A o \in MainFlow(Plan)' :
          \/ BodyIsFresh(o)'
          \/ o \in MainFlow(Plan) /\ ~BodyIsFresh(o)
          \/ AcceptRepair /\ LET q == Plans[version]
                             IN  \/ o \in Rewired
                                 \/ ~(Kept(q) \cap FanOutBodyClosure(q, o)
                                         \subseteq FanOutBodyClosure(Plan, o))
          \/ RouteCondition /\ RoutedAway(Current) \cap FanOutBodyClosure(Plan, o) # {}]_vars

(* A body step is recorded as succeeded without a success only when a repair *)
(* took it into the body with its checkpoint, or when its FAN_OUT succeeded   *)
(* after an item of it had failed: an earlier attempt's.                     *)
OnlyPatchesAndRetriesLoseOutcomes ==
    [][\A s \in FanOutOwned(Plan)' :
          \/ OutcomeIsRecorded(s)'
          \/ s \in FanOutOwned(Plan) /\ ~OutcomeIsRecorded(s)
          \/ AcceptRepair /\ s \in Kept(Plans[version]) \ FanOutOwned(Plan)
          \/ /\ AttemptSucceeds
             /\ s \in FanOutBodyClosure(Plan, Current) /\ "failed" \in iterations[s]]_vars

(* The step is shown in flight where no executor works on it or lost it.     *)
Adrift(s) ==
    /\ step[s] = "running"
    /\ pc # "cancelling"
    /\ ~(pc = "idle" /\ runStatus = "running")
    /\ ~(InAttempt /\ s \in {Current} \cup FanOutBodyClosure(Plan, Current))

(* However a run ends, fails, waits or is aborted, no step is left shown in   *)
(* flight; only a FAN_OUT that succeeds may leave a step of its body so, one  *)
(* its last attempt did not return.                                          *)
OnlySuccessLeavesStepsAdrift ==
    [][\A s \in StepIds :
          \/ ~Adrift(s)'
          \/ Adrift(s)
          \/ AttemptSucceeds /\ s \in FanOutBodyClosure(Plan, Current)]_vars

(***************************************************************************)
(* Recoverability                                                          *)
(***************************************************************************)
(* A failed run can be repaired: the step it blames still has the failed     *)
(* checkpoint resume_from_repair asks for.                                   *)
FailedRunIsRepairable ==
    pc = "idle" /\ runStatus = "failed" => step[blamed] = "failed"

(* What breaks that is one thing: the process ends, or the workspace or a    *)
(* save fails, after resume_from_repair has saved the reset checkpoints and   *)
(* before execute_run has saved the run as Running (executor/mod.rs:379).     *)
RepairsAreResumed ==
    [][runStatus = "failed" /\ pc = "accepted" => pc' # "idle"]_vars

(* Such a run stays as it is: no resumption, no answer, no abort and no       *)
(* further patch or world fix starts it again or settles its steps.           *)
LostRepair == pc = "idle" /\ runStatus = "failed" /\ step[blamed] # "failed"

LostRepairIsFinal == [][LostRepair => LostRepair' /\ UNCHANGED record]_vars

(***************************************************************************)
(* Liveness                                                                *)
(***************************************************************************)
(* An execution ends, or waits for an answer nothing bounds: no plan,        *)
(* checkpoint, routing or retry policy makes the scheduler spin or stall.    *)
ExecutionEnds == pc # "idle" ~> (pc = "idle" \/ AwaitsAnswer)
=============================================================================
