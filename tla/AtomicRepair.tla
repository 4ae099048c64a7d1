---------------------------- MODULE AtomicRepair ----------------------------
(***************************************************************************)
(* What the stores promise about the changes of one plan, without files,     *)
(* journals or threads: the plan is a lineage of versions, each published at *)
(* once by one proposal that was made for its predecessor.                   *)
(***************************************************************************)
EXTENDS Naturals, Sequences

CONSTANTS Proposals,  \* patches and plan edits
          Original    \* stands for what the first version came from

VARIABLES lineage,   \* who published versions 1, 2, ... of the plan
          target,    \* the version a proposal was made for, 0 before it exists
          rejected   \* the proposals a person declined

avars == <<lineage, target, rejected>>

AInit ==
    /\ lineage  = <<Original>>
    /\ target   = [p \in Proposals |-> 0]
    /\ rejected = {}

Published(p) == \E v \in DOMAIN lineage : lineage[v] = p

APropose(p) ==
    /\ target[p] = 0
    /\ \E v \in DOMAIN lineage : target' = [target EXCEPT ![p] = v]
    /\ UNCHANGED <<lineage, rejected>>

(* Only a proposal made for the latest version becomes the next one.        *)
APublish(p) ==
    /\ target[p] = Len(lineage)
    /\ p \notin rejected
    /\ lineage' = Append(lineage, p)
    /\ UNCHANGED <<target, rejected>>

(* A decision is final: what was published is not declined any more.        *)
AReject(p) ==
    /\ target[p] # 0
    /\ ~Published(p)
    /\ rejected' = rejected \cup {p}
    /\ UNCHANGED <<lineage, target>>

ANext == \E p \in Proposals : APropose(p) \/ APublish(p) \/ AReject(p)

ASpec == AInit /\ [][ANext]_avars
=============================================================================
