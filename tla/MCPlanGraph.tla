---------------------------- MODULE MCPlanGraph ----------------------------
(***************************************************************************)
(* Exhaustive check of PlanGraph over every small plan: `plan` ranges over  *)
(* all dependency lists and, where Bodies holds, over all FAN_OUT bodies.   *)
(***************************************************************************)
EXTENDS PlanGraphProperties

CONSTANTS Ids,         \* the step ids, 1..n
          MaxDeps,     \* longest depends_on list
          Duplicates,  \* may a depends_on list name a step twice?
          Bodies       \* are there plans whose steps own FAN_OUT bodies?

DepLists ==
    {d \in UNION {[1..n -> Ids] : n \in 0..MaxDeps} :
        \A i, j \in DOMAIN d : i < j => IF Duplicates THEN d[i] <= d[j] ELSE d[i] < d[j]}

Lists == [Ids -> DepLists]

(* Dependencies and bodies are varied apart: no algorithm reads both.      *)
NoDeps   == [s \in Ids |-> <<>>]
NoBodies == [s \in Ids |-> {}]
Graphs   == (Lists \X {NoBodies}) \cup
            (IF Bodies THEN {NoDeps} \X [Ids -> SUBSET Ids] ELSE {})

Init ==
    \E graph \in Graphs : LET dep == graph[1]  spawn == graph[2] IN
        plan = [steps    |-> Ids,
                dep      |-> dep,
                kind     |-> [s \in Ids |-> IF spawn[s] = {} THEN "call" ELSE "fan_out"],
                onTrue   |-> [s \in Ids |-> {}],
                onFalse  |-> [s \in Ids |-> {}],
                spawn    |-> spawn,
                attempts |-> [s \in Ids |-> 1],
                timed    |-> [s \in Ids |-> TRUE]]

(* Normalisation and the validator leave the graph as it is.               *)
Next == UNCHANGED plan

Spec == Init /\ [][Next]_plan
=============================================================================
