----------------------------- MODULE PlanGraph -----------------------------
(***************************************************************************)
(* The pure graph algorithms of a compiled plan (executor/dag.rs,           *)
(* plan/steps.rs and the graph rules of validator/).                        *)
(*                                                                         *)
(* A plan is a record                                                      *)
(*   steps    the step ids: naturals, so that alphabetical order is <      *)
(*   dep      steps -> Seq(id), the `depends_on` list, in which an id may  *)
(*            occur twice: the code keeps a Vec and never deduplicates it   *)
(*   kind     steps -> Kinds                                               *)
(*   onTrue, onFalse  steps -> SUBSET ids, the branches of a CONDITION     *)
(*   spawn    steps -> SUBSET ids, the body of a FAN_OUT                   *)
(*   attempts steps -> positive naturals, retry.max_attempts               *)
(*   timed    steps -> BOOLEAN, whether an attempt has a timeout           *)
(***************************************************************************)
EXTENDS Naturals, Sequences, FiniteSets

(* TOOL_CALL, CODE_CALL, PROMPT_CALL, AGENT_CALL and FAN_IN differ only in  *)
(* what one attempt computes: "call" stands for all of them.                *)
Kinds == {"call", "human", "condition", "fan_out"}

IsPlan(p) ==
    /\ p.steps \subseteq Nat
    /\ IsFiniteSet(p.steps)
    /\ p.dep      \in [p.steps -> Seq(Nat)]
    /\ p.kind     \in [p.steps -> Kinds]
    /\ p.onTrue   \in [p.steps -> SUBSET Nat]
    /\ p.onFalse  \in [p.steps -> SUBSET Nat]
    /\ p.spawn    \in [p.steps -> SUBSET Nat]
    /\ p.attempts \in [p.steps -> Nat \ {0}]
    /\ p.timed    \in [p.steps -> BOOLEAN]
    /\ \A s \in p.steps : p.kind[s] # "condition" => p.onTrue[s] \cup p.onFalse[s] = {}

Deps(p, s) == {p.dep[s][i] : i \in DOMAIN p.dep[s]}

(* No `depends_on` list repeats a step: the authors of plans do not, but no *)
(* rule of the validator forbids it.                                        *)
NamesDependenciesOnce(p) ==
    \A s \in p.steps : \A i, j \in DOMAIN p.dep[s] : p.dep[s][i] = p.dep[s][j] => i = j

(***************************************************************************)
(* Transitive closures, as the least sets their loops reach.               *)
(***************************************************************************)
(* Flawed form: only the direct dependents.                                 *)
DirectDownstreamClosure(p, root) ==
    {s \in p.steps : s = root \/ root \in Deps(p, s)}

(* `dag::downstream_closure`: the step and all that transitively depend on  *)
(* it; empty when the plan no longer has the step.                          *)
DownstreamClosure(p, root) ==
    IF root \in p.steps
    THEN {s \in p.steps : \A C \in SUBSET p.steps :
             /\ root \in C
             /\ \A t \in p.steps : Deps(p, t) \cap C # {} => t \in C
             => s \in C}
    ELSE {}

Spawned(p, s) ==
    IF s \in p.steps /\ p.kind[s] = "fan_out" THEN p.spawn[s] ELSE {}

(* The ids the executor's main loop skips: they run inside their owner.     *)
FanOutOwned(p) == UNION {Spawned(p, s) : s \in p.steps}

(* `plan::steps::fan_out_body_closure`: every step a FAN_OUT owns, bodies of *)
(* nested FAN_OUTs included.                                                 *)
FanOutBodyClosure(p, owner) ==
    {s \in FanOutOwned(p) : \A C \in SUBSET FanOutOwned(p) :
        /\ Spawned(p, owner) \subseteq C
        /\ \A t \in C : Spawned(p, t) \subseteq C
        => s \in C}

MainFlow(p) == p.steps \ FanOutOwned(p)

(* `validator::depends_transitively`.                                       *)
DependsTransitively(p, from, target) ==
    \E t \in p.steps : target \in Deps(p, t) /\ from \in DownstreamClosure(p, t)

(***************************************************************************)
(* `dag::topological_order`: Kahn's algorithm.  A step's in-degree counts   *)
(* the entries of its `depends_on` list; emitting a step lowers the degree  *)
(* of each dependent by one, however often the dependent lists it.  The     *)
(* alphabetically first step of degree zero is emitted next; what is left   *)
(* when none is ready follows alphabetically.                               *)
(***************************************************************************)
InDegree(p, s) == Cardinality({i \in DOMAIN p.dep[s] : p.dep[s][i] \in p.steps})

KahnInit(p) ==
    LET degree == [s \in p.steps |-> InDegree(p, s)]
    IN  [out |-> <<>>, emitted |-> {}, degree |-> degree,
         queue |-> {s \in p.steps : degree[s] = 0}]

FirstReady(queue) == CHOOSE s \in queue : \A t \in queue : s =< t

(* Flawed form: a dependent is released by the first dependency emitted.    *)
EagerlyReleased(affected, degree) == affected

Released(affected, degree) == {s \in affected : degree[s] = 0}

KahnEmit(p, k) ==
    LET next     == FirstReady(k.queue)
        emitted  == k.emitted \cup {next}
        affected == {s \in p.steps \ emitted : next \in Deps(p, s)}
        degree   == [s \in p.steps |->
                        IF s \in affected /\ k.degree[s] > 0
                        THEN k.degree[s] - 1 ELSE k.degree[s]]
    IN  [out     |-> Append(k.out, next),
         emitted |-> emitted,
         degree  |-> degree,
         queue   |-> (k.queue \ {next}) \cup Released(affected, degree)]

KahnNext(p, k) == IF k.queue = {} THEN k ELSE KahnEmit(p, k)

(* What the loop has made after n rounds.                                   *)
KahnLoop(p) ==
    LET Kahn[n \in 0..Cardinality(p.steps)] ==
            IF n = 0 THEN KahnInit(p) ELSE KahnNext(p, Kahn[n - 1])
    IN  Kahn

Alphabetical(S) ==
    CHOOSE seq \in [1..Cardinality(S) -> S] : \A i, j \in DOMAIN seq : i < j => seq[i] < seq[j]

TopologicalOrder(p) ==
    LET end == KahnLoop(p)[Cardinality(p.steps)]
    IN  end.out \o Alphabetical(p.steps \ end.emitted)

(***************************************************************************)
(* The validator's rules about the graph: what a saved plan satisfies.     *)
(***************************************************************************)
(* `graph::validate_graph`.  `detect_cycle` counts a duplicated dependency  *)
(* on both sides, so duplicates alone are no cycle.                         *)
ValidGraph(p) ==
    /\ \A s \in p.steps : Deps(p, s) \subseteq p.steps
    /\ \A s \in p.steps : ~DependsTransitively(p, s, s)

(* `validate_condition_constraints`: every branch step exists and depends,  *)
(* directly or not, on its CONDITION; no step is on both branches.          *)
ValidConditions(p) ==
    \A c \in {s \in p.steps : p.kind[s] = "condition"} :
        /\ \A b \in p.onTrue[c] \cup p.onFalse[c] :
              b \in p.steps /\ DependsTransitively(p, b, c)
        /\ p.onTrue[c] \cap p.onFalse[c] = {}

(* `validate_fan_out_constraints`: a step has one owner at most.             *)
OneOwner(p) ==
    \A o, q \in p.steps : Spawned(p, o) \cap Spawned(p, q) # {} => o = q

(* `check_fan_out_spawn_steps`.  The order inside a body is left to the      *)
(* dependencies of its steps, which the code requires to point backwards.   *)
ValidBodies(p) ==
    \A o \in {s \in p.steps : p.kind[s] = "fan_out"} :
        /\ p.spawn[o] # {}
        /\ o \notin p.spawn[o]
        /\ p.spawn[o] \subseteq p.steps
        /\ \A b \in p.spawn[o] :
              /\ o \notin Deps(p, b)
              /\ p.kind[b] # "human"
              /\ \A d \in Deps(p, b) : d \in p.spawn[o] \/ DependsTransitively(p, o, d)

(* `check_main_flow_dependencies`                                            *)
ValidMainFlow(p) ==
    \A s \in MainFlow(p) : Deps(p, s) \cap FanOutOwned(p) = {}

ValidPlan(p) ==
    /\ p.steps # {}
    /\ ValidGraph(p)
    /\ ValidConditions(p)
    /\ OneOwner(p)
    /\ ValidBodies(p)
    /\ ValidMainFlow(p)
=============================================================================
