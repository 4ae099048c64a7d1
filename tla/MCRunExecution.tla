--------------------------- MODULE MCRunExecution ---------------------------
(***************************************************************************)
(* Small plans, with their later versions, for RunExecution.  A step's id   *)
(* is its place in the alphabetical order.                                  *)
(***************************************************************************)
EXTENDS RunExecution, TLC

Calls(dep) ==
    LET ids == DOMAIN dep
    IN  [steps    |-> ids,
         dep      |-> dep,
         kind     |-> [s \in ids |-> "call"],
         onTrue   |-> [s \in ids |-> {}],
         onFalse  |-> [s \in ids |-> {}],
         spawn    |-> [s \in ids |-> {}],
         attempts |-> [s \in ids |-> 1],
         timed    |-> [s \in ids |-> TRUE]]

Human(p, s)    == [p EXCEPT !.kind[s] = "human", !.timed[s] = FALSE]
Retry(p, s, n) == [p EXCEPT !.attempts[s] = n]
Body(p, o, b)  == [p EXCEPT !.kind[o] = "fan_out", !.spawn[o] = b]
Branch(p, c, true, false) ==
    [p EXCEPT !.kind[c] = "condition", !.onTrue[c] = true, !.onFalse[c] = false]

(* An approval, a CONDITION with a step behind one branch, and two patches:  *)
(* a step inserted before the approval, then one replaced and renamed.       *)
ApprovalPlan(dep) ==
    Retry(Branch(Human(Calls(dep), 2), 3, {4}, {5}), 4, 2)

RepairPlans ==
    <<ApprovalPlan(1 :> <<>> @@ 2 :> <<1>> @@ 3 :> <<1, 2>> @@ 4 :> <<3>> @@ 5 :> <<3>> @@ 6 :> <<5>>),
      ApprovalPlan(1 :> <<>> @@ 2 :> <<7>> @@ 3 :> <<1, 2>> @@ 4 :> <<3>> @@ 5 :> <<3>> @@ 6 :> <<5>>
                   @@ 7 :> <<1>>),
      ApprovalPlan(1 :> <<>> @@ 2 :> <<8>> @@ 3 :> <<1, 2>> @@ 4 :> <<3>> @@ 5 :> <<3>> @@ 6 :> <<5>>
                   @@ 8 :> <<1>>)>>

(* A FAN_OUT over a CONDITION with two branches and a nested FAN_OUT, and a  *)
(* step that uses it; the patch replaces its input.                          *)
BodyPlan(dep) == Body(Body(Branch(Calls(dep), 3, {4}, {5}), 2, {3, 4, 5}), 5, {6})

BodyPlans ==
    <<BodyPlan(1 :> <<>> @@ 2 :> <<1>> @@ 3 :> <<>> @@ 4 :> <<3>> @@ 5 :> <<3>> @@ 6 :> <<>> @@ 7 :> <<2>>),
      BodyPlan(2 :> <<8>> @@ 3 :> <<>> @@ 4 :> <<3>> @@ 5 :> <<3>> @@ 6 :> <<>> @@ 7 :> <<2>> @@ 8 :> <<>>)>>

(* A step of one branch that also depends on a step outside it.              *)
CrossBranchPlans ==
    <<Branch(Calls(1 :> <<>> @@ 2 :> <<>> @@ 3 :> <<1, 2>> @@ 4 :> <<1>>), 1, {4}, {3})>>
=============================================================================
