------------------------ MODULE PlanGraphProperties ------------------------
(***************************************************************************)
(* What the graph algorithms promise of a plan, stated without their loops.  *)
(* MCPlanGraph checks it of every small plan, RunExecutionProofs proves it   *)
(* of every plan.                                                            *)
(***************************************************************************)
EXTENDS PlanGraph

VARIABLE plan

(* "Steps are dispatched in topological order" (executor/mod.rs), ties broken *)
(* alphabetically whatever order the plan lists its steps in: in a plan the   *)
(* validator accepts, each step dispatched is the first among those whose     *)
(* dependencies have all been dispatched.  No step is lost or dispatched      *)
(* twice, not even in a cyclic plan ("cycle fallback").                       *)
OrderIsLeastReadyFirst ==
    LET order == TopologicalOrder(plan)
    IN  /\ Len(order) = Cardinality(plan.steps)
        /\ {order[i] : i \in DOMAIN order} = plan.steps
        /\ ValidGraph(plan) =>
              \A i \in DOMAIN order :
                  LET done  == {order[j] : j \in 1..(i - 1)}
                      ready == {s \in plan.steps \ done : Deps(plan, s) \subseteq done}
                  IN  order[i] \in ready /\ \A s \in ready : order[i] =< s

(* The pairs known, and those one edge longer.                               *)
Extended(nodes, edges, known) ==
    known \cup
    {e \in nodes \X nodes : \E d \in nodes : <<e[1], d>> \in edges /\ <<d, e[2]>> \in known}

(* The pairs joined by a path of at least one edge; as many rounds as there   *)
(* are nodes find them all.                                                  *)
Paths(nodes, edges) ==
    LET Path[n \in 1..Cardinality(nodes)] ==
            IF n = 1 THEN edges ELSE Extended(nodes, edges, Path[n - 1])
    IN  Path[Cardinality(nodes)]

DependsOn(p) == {e \in p.steps \X p.steps : e[2] \in Deps(p, e[1])}
Spawns(p)    == {e \in p.steps \X p.steps : e[2] \in Spawned(p, e[1])}

(* What a repair resets: the steps from which a dependency path leads to the *)
(* root (dag::downstream_closure), and of a FAN_OUT all that is reachable     *)
(* along spawn lists, at any depth and even when bodies own each other        *)
(* (fan_out_body_closure).                                                   *)
ClosuresAreReachability ==
    LET downstream == Paths(plan.steps, DependsOn(plan))
        owned      == Paths(plan.steps, Spawns(plan))
    IN  /\ \A r \in plan.steps :
              DownstreamClosure(plan, r) = {r} \cup {s \in plan.steps : <<s, r>> \in downstream}
        /\ 0 \notin plan.steps => DownstreamClosure(plan, 0) = {}
        /\ \A o \in plan.steps :
              FanOutBodyClosure(plan, o) = {b \in plan.steps : <<o, b>> \in owned}
=============================================================================
