-------------------------- MODULE RepairCommitProofs --------------------------
(***************************************************************************)
(* Proofs about RepairCommit: first for any number of threads, processes,    *)
(* proposals, versions, write errors and crashes, then what threads that     *)
(* take turns and whose writes do not fail achieve beyond that, however many *)
(* they are and however often their processes die.                           *)
(***************************************************************************)
EXTENDS RepairCommit, SequenceTheorems, TLAPS

(***************************************************************************)
(* The inductive invariant                                                 *)
(***************************************************************************)
(* A proposal exists for a version that has a successor within the bound.   *)
TargetsExist ==
    \A p \in Proposals : status[p] # "absent" => base[p] \in 1..(MaxVersion - 1)

(* A snapshot carries its own number, and is the successor of the version    *)
(* its proposal was made for.                                                *)
SnapshotsAreSuccessors ==
    \A v \in 1..MaxVersion : snapshot[v] # NoPlan =>
        /\ snapshot[v].version = v
        /\ snapshot[v].by \in Proposals =>
              status[snapshot[v].by] # "absent" /\ v = base[snapshot[v].by] + 1

(* The points of `complete_repair_transaction`.                              *)
Completing == {"claim", "swap", "publish", "mark", "save", "unlink", "remove"}

(* What a thread in state r relies on, given the files: the plan it          *)
(* completes has been claimed, and so has every version before the one it is *)
(* about to publish; the plan it made is the successor of its base.          *)
Sound(r, files, decided, target) ==
    /\ r.pc \in Completing =>
          r.tx \in PlanVersions /\ r.tx.by \in Proposals /\ files[r.tx.version] = r.tx
    /\ r.pc \in {"mark", "unlink", "remove"} => r.tx.by \in Patches
    /\ r.pc = "publish" => \A v \in 1..r.tx.version : files[v] # NoPlan
    /\ r.pc # "idle" => r.op # "none"
    /\ r.pc = "idle" => r.stage = "none"
    /\ r.pc \in {"load", "approve", "reject", "rollback", "stamp", "recheck", "claim_next",
                 "journal"} => r.op \in {"apply", "reject"}
    /\ r.pc = "approve" => r.op = "apply"
    /\ r.pc \in {"stamp", "recheck"} => r.stage = "commit"
    /\ r.pc \in {"claim_next", "journal"} => r.stage = "own"
    /\ r.stage \in {"commit", "own"} => r.op = "apply"
    /\ r.op \in {"apply", "reject"} => r.subject \in Proposals /\ decided[r.subject] # "absent"
    /\ r.stage = "own" \/ (r.stage = "commit" /\ r.pc # "stamp") =>
          r.next \in PlanVersions /\ r.next.by = r.subject /\ r.next.version = target[r.subject] + 1
    /\ r.pc = "journal" => r.subject \in Patches /\ files[r.next.version] = r.next

ThreadsAreSound == \A t \in Threads : Sound(th[t], snapshot, status, base)

(* Inductive: a publication is safe because what it publishes was claimed,   *)
(* and one proposal wins because claimed versions name their winner.         *)
StoreInv ==
    /\ TypeOK
    /\ TargetsExist
    /\ SnapshotsAreSuccessors
    /\ CurrentIsSnapshot
    /\ JournalOwnsSnapshot
    /\ OneWinner
    /\ ThreadsAreSound

(* What is on disk, without the threads.                                     *)
FilesInv ==
    /\ snapshot \in [1..MaxVersion -> PlanVersions \cup {NoPlan}]
    /\ current \in PlanVersions
    /\ journal \in [Patches -> PlanVersions \cup {NoPlan}]
    /\ status \in [Proposals -> Statuses]
    /\ base \in [Proposals -> 0..MaxVersion]
    /\ TargetsExist
    /\ SnapshotsAreSuccessors
    /\ CurrentIsSnapshot
    /\ JournalOwnsSnapshot
    /\ OneWinner

BoundsInv == tries \in [Proposals -> Nat] /\ faults \in 0..MaxFaults /\ crashes \in 0..MaxCrashes

LEMMA StoreInvParts ==
    StoreInv <=> FilesInv /\ BoundsInv /\ th \in [Threads -> ThreadStates] /\ ThreadsAreSound
BY DEF StoreInv, TypeOK, FilesInv, BoundsInv

(***************************************************************************)
(* Threads                                                                 *)
(***************************************************************************)
(* Snapshots stay, and a proposal keeps existing for the same version.       *)
Grows(files, decided, target, files2, decided2, target2) ==
    /\ \A v \in 1..MaxVersion : files[v] # NoPlan => files2[v] = files[v]
    /\ \A p \in Proposals : decided[p] # "absent" =>
          decided2[p] # "absent" /\ target2[p] = target[p]

DiskGrows == Grows(snapshot, status, base, snapshot', status', base')

(* What other threads do takes nothing away that a thread relies on.         *)
LEMMA SoundnessLasts ==
    ASSUME NEW r, NEW f, NEW d, NEW b, NEW f2, NEW d2, NEW b2,
           Sound(r, f, d, b), Grows(f, d, b, f2, d2, b2)
    PROVE  Sound(r, f2, d2, b2)
<1>1. \A p \in PlanVersions : p # NoPlan /\ p.version \in 1..MaxVersion
  BY StoreAssumption DEF PlanVersions
<1>2. r.pc \in Completing => f2[r.tx.version] = r.tx
  BY <1>1 DEF Sound, Grows
<1>3. r.pc = "publish" => \A v \in 1..r.tx.version : f2[v] # NoPlan
  <2> SUFFICES ASSUME r.pc = "publish", NEW v \in 1..r.tx.version PROVE f2[v] # NoPlan
    OBVIOUS
  <2>1. r.tx.version \in 1..MaxVersion
    BY <1>1 DEF Sound, Completing
  <2>2. v \in 1..MaxVersion
    BY <2>1, StoreAssumption
  <2> QED
    BY <2>2 DEF Sound, Grows
<1>4. r.op \in {"apply", "reject"} => r.subject \in Proposals /\ d2[r.subject] # "absent"
  BY DEF Sound, Grows
<1>5. r.stage = "own" \/ (r.stage = "commit" /\ r.pc # "stamp") =>
          r.next.version = b2[r.subject] + 1
  BY DEF Sound, Grows
<1>6. r.pc = "journal" => f2[r.next.version] = r.next
  <2> SUFFICES ASSUME r.pc = "journal" PROVE f2[r.next.version] = r.next
    OBVIOUS
  <2>1. r.next \in PlanVersions /\ f[r.next.version] = r.next
    BY DEF Sound
  <2> QED
    BY <1>1, <2>1 DEF Grows
<1> QED
  BY <1>2, <1>3, <1>4, <1>5, <1>6 DEF Sound

(* A step of one thread that leaves the disk in order.                       *)
LEMMA ThreadStep ==
    ASSUME StoreInv, NEW t \in Threads, NEW r \in ThreadStates, Goes(t, r),
           Sound(r, snapshot', status', base'), DiskGrows, FilesInv', BoundsInv'
    PROVE  StoreInv'
<1>1. th \in [Threads -> ThreadStates] /\ ThreadsAreSound
  BY StoreInvParts
<1>2. th' \in [Threads -> ThreadStates]
  BY <1>1 DEF Goes
<1>3. ASSUME NEW u \in Threads PROVE Sound(th'[u], snapshot', status', base')
  <2>1. CASE u = t
    BY <1>1, <2>1 DEF Goes
  <2>2. CASE u # t
    <3>1. th'[u] = th[u] /\ Sound(th[u], snapshot, status, base)
      BY <1>1, <2>2 DEF Goes, ThreadsAreSound
    <3> QED
      BY <3>1, SoundnessLasts DEF DiskGrows
  <2> QED
    BY <2>1, <2>2
<1> QED
  BY <1>2, <1>3, StoreInvParts DEF ThreadsAreSound, StoreInv, TypeOK, FilesInv, BoundsInv

LEMMA QuietDisk ==
    ASSUME StoreInv, UNCHANGED disk
    PROVE  FilesInv' /\ DiskGrows
<1>1. FilesInv
  BY StoreInvParts
<1>2. FilesInv'
  BY <1>1 DEF disk, FilesInv, TargetsExist, SnapshotsAreSuccessors, CurrentIsSnapshot,
             JournalOwnsSnapshot, OneWinner
<1> QED
  BY <1>2 DEF disk, DiskGrows, Grows

(* A step of one thread that writes nothing.                                 *)
LEMMA QuietStep ==
    ASSUME StoreInv, NEW t \in Threads, NEW r \in ThreadStates, Goes(t, r),
           Sound(r, snapshot, status, base), UNCHANGED disk, BoundsInv'
    PROVE  StoreInv'
<1>1. FilesInv' /\ DiskGrows
  BY QuietDisk
<1>2. Sound(r, snapshot', status', base')
  BY <1>1, SoundnessLasts DEF DiskGrows
<1> QED
  BY <1>1, <1>2, ThreadStep

(* The two ends a call has by an error.                                      *)
LEMMA IdleFacts ==
    /\ Idle \in ThreadStates
    /\ Sound(Idle, snapshot, status, base)
<1>1. Idle \in ThreadStates
  BY StoreAssumption DEF Idle, ThreadStates, Points, Statuses
<1> QED
  BY <1>1 DEF Idle, Sound, Completing

LEMMA FallenFacts ==
    ASSUME StoreInv, NEW t \in Threads
    PROVE  Fallen(t) \in ThreadStates /\ Sound(Fallen(t), snapshot, status, base)
<1>1. th[t] \in ThreadStates /\ Sound(th[t], snapshot, status, base)
  BY StoreInvParts DEF ThreadsAreSound
<1>2. CASE Fallen(t) = Idle
  BY <1>2, IdleFacts
<1>3. CASE Fallen(t) # Idle
  <2>1. Fallen(t) = [Idle EXCEPT !.pc = "rollback", !.op = "apply", !.subject = th[t].subject]
    BY <1>3 DEF Fallen
  <2>2. th[t].op = "apply"
    BY <1>3 DEF Fallen
  <2>3. th[t].subject \in Proposals /\ status[th[t].subject] # "absent"
    BY <1>1, <2>2 DEF Sound
  <2>4. Fallen(t) = [pc |-> "rollback", op |-> "apply", stage |-> "none",
                     subject |-> th[t].subject, prior |-> "absent", todo |-> {},
                     tx |-> NoPlan, next |-> NoPlan, expected |-> 0]
    BY <2>1 DEF Idle
  <2>5. Fallen(t) \in ThreadStates
    BY <2>3, <2>4, StoreAssumption DEF ThreadStates, Points, Statuses
  <2> QED
    BY <2>3, <2>4, <2>5 DEF Sound, Completing
<1> QED
  BY <1>2, <1>3

LEMMA ThreadFacts ==
    ASSUME StoreInv, NEW t \in Threads
    PROVE  th[t] \in ThreadStates /\ Sound(th[t], snapshot, status, base)
BY StoreInvParts DEF ThreadsAreSound

(* A thread that moves on to another point of its call.                     *)
LEMMA PointFacts ==
    ASSUME NEW r \in ThreadStates, NEW q \in Points
    PROVE  /\ [r EXCEPT !.pc = q] \in ThreadStates
           /\ [r EXCEPT !.pc = q].pc = q
           /\ [r EXCEPT !.pc = q].op = r.op
           /\ [r EXCEPT !.pc = q].stage = r.stage
           /\ [r EXCEPT !.pc = q].subject = r.subject
           /\ [r EXCEPT !.pc = q].tx = r.tx
           /\ [r EXCEPT !.pc = q].next = r.next
BY DEF ThreadStates

LEMMA ToFacts ==
    ASSUME NEW t, th[t] \in ThreadStates, NEW q \in Points
    PROVE  /\ To(t, q) \in ThreadStates
           /\ To(t, q).pc = q
           /\ To(t, q).op = th[t].op
           /\ To(t, q).stage = th[t].stage
           /\ To(t, q).subject = th[t].subject
           /\ To(t, q).tx = th[t].tx
           /\ To(t, q).next = th[t].next
BY PointFacts DEF To

(* A thread among the points of `complete_repair_transaction` can go to any  *)
(* of them but the replacement of current.json, which takes a comparison.    *)
LEMMA CompletingFacts ==
    ASSUME StoreInv, NEW t \in Threads, th[t].pc \in Completing,
           NEW q \in Completing \cup {"pick"}, q # "publish",
           q \in {"mark", "unlink", "remove"} => th[t].tx.by \in Patches
    PROVE  To(t, q) \in ThreadStates /\ Sound(To(t, q), snapshot, status, base)
<1>1. q \in Points
  BY DEF Completing, Points
<1>2. th[t] \in ThreadStates /\ Sound(th[t], snapshot, status, base)
  BY ThreadFacts
<1> DEFINE r == To(t, q)
<1>3. /\ r \in ThreadStates /\ r.pc = q /\ r.op = th[t].op /\ r.stage = th[t].stage
      /\ r.subject = th[t].subject /\ r.tx = th[t].tx /\ r.next = th[t].next
  BY <1>1, <1>2, ToFacts
<1> HIDE DEF r
<1>4. Sound(r, snapshot, status, base)
  BY <1>2, <1>3 DEF Sound, Completing
<1> QED
  BY <1>3, <1>4 DEF r

(* The plan a thread completes is a version of a proposal.                   *)
LEMMA TxFacts ==
    ASSUME StoreInv, NEW t \in Threads, th[t].pc \in Completing
    PROVE  /\ th[t].tx \in PlanVersions
           /\ th[t].tx # NoPlan
           /\ th[t].tx.version \in 1..MaxVersion
           /\ th[t].tx.by \in Proposals
           /\ snapshot[th[t].tx.version] = th[t].tx
           /\ status[th[t].tx.by] # "absent"
           /\ th[t].tx.version = base[th[t].tx.by] + 1
<1>1. Sound(th[t], snapshot, status, base)
  BY ThreadFacts
<1>2. th[t].tx \in PlanVersions /\ th[t].tx.by \in Proposals /\ snapshot[th[t].tx.version] = th[t].tx
  BY <1>1 DEF Sound
<1>3. th[t].tx # NoPlan /\ th[t].tx.version \in 1..MaxVersion
  BY <1>2, StoreAssumption DEF PlanVersions
<1> QED
  BY <1>2, <1>3 DEF StoreInv, SnapshotsAreSuccessors

(***************************************************************************)
(* Opening the store                                                       *)
(***************************************************************************)
LEMMA QuietBounds ==
    ASSUME StoreInv, UNCHANGED bounds
    PROVE  BoundsInv'
BY StoreInvParts DEF BoundsInv, bounds

LEMMA OpenKeeps ==
    ASSUME StoreInv, NEW t \in Threads, Open(t)
    PROVE  StoreInv'
<1> DEFINE r == [Idle EXCEPT !.pc = "list", !.op = "open", !.stage = "open"]
<1>1. Idle \in ThreadStates /\ Idle.pc = "idle" /\ Idle.op = "none" /\ Idle.stage = "none"
  BY IdleFacts DEF Idle
<1>2. r \in ThreadStates /\ r.pc = "list" /\ r.op = "open" /\ r.stage = "open"
  BY <1>1 DEF ThreadStates, Points
<1>4. Goes(t, r) /\ UNCHANGED disk /\ BoundsInv'
  BY QuietBounds DEF Open
<1> HIDE DEF r
<1>3. Sound(r, snapshot, status, base)
  BY <1>2 DEF Sound, Completing
<1> QED
  BY <1>2, <1>3, <1>4, QuietStep

LEMMA EnterKeeps ==
    ASSUME StoreInv, NEW t \in Threads, NEW op \in {"apply", "reject"}, NEW p \in Proposals,
           Enter(t, op, p)
    PROVE  StoreInv'
<1> DEFINE r == [Idle EXCEPT !.pc = "list", !.op = op, !.stage = "open", !.subject = p]
<1>1. Idle \in ThreadStates
  BY IdleFacts
<1>2. r \in ThreadStates /\ r.pc = "list" /\ r.op = op /\ r.stage = "open" /\ r.subject = p
  BY <1>1 DEF ThreadStates, Points
<1>4. Goes(t, r) /\ UNCHANGED disk /\ BoundsInv'
  BY QuietBounds DEF Enter
<1> HIDE DEF r
<1>3. Sound(r, snapshot, status, base)
  BY <1>2 DEF Sound, Completing, Enter
<1> QED
  BY <1>2, <1>3, <1>4, QuietStep

LEMMA ListJournalsKeeps ==
    ASSUME StoreInv, NEW t \in Threads, ListJournals(t)
    PROVE  StoreInv'
<1> DEFINE r == [th[t] EXCEPT !.pc = "pick", !.todo = {p \in Patches : journal[p] # NoPlan}]
<1>1. th[t] \in ThreadStates /\ Sound(th[t], snapshot, status, base) /\ th[t].pc = "list"
  BY ThreadFacts DEF ListJournals, At
<1>2. /\ r \in ThreadStates /\ r.pc = "pick" /\ r.op = th[t].op /\ r.stage = th[t].stage
      /\ r.subject = th[t].subject /\ r.next = th[t].next
  BY <1>1 DEF ThreadStates, Points
<1>3. Goes(t, r) /\ UNCHANGED disk /\ BoundsInv'
  BY QuietBounds DEF ListJournals
<1> HIDE DEF r
<1>4. Sound(r, snapshot, status, base)
  BY <1>1, <1>2 DEF Sound, Completing
<1> QED
  BY <1>2, <1>3, <1>4, QuietStep

(* A journal names a claimed version of its patch, so completing it is sound.*)
LEMMA PickJournalKeeps ==
    ASSUME StoreInv, NEW t \in Threads, NEW p \in Patches, PickJournal(t, p)
    PROVE  StoreInv'
<1>1. th[t] \in ThreadStates /\ Sound(th[t], snapshot, status, base) /\ th[t].pc = "pick"
  BY ThreadFacts DEF PickJournal, At
<1>2. UNCHANGED disk /\ BoundsInv'
  BY QuietBounds DEF PickJournal
<1> DEFINE rest == [th[t] EXCEPT !.todo = @ \ {p}]
<1>3. /\ rest \in ThreadStates /\ rest.pc = "pick" /\ rest.op = th[t].op
      /\ rest.stage = th[t].stage /\ rest.subject = th[t].subject /\ rest.next = th[t].next
  BY <1>1 DEF ThreadStates
<1>4. Goes(t, IF journal[p] = NoPlan THEN rest
              ELSE [rest EXCEPT !.pc = "claim", !.tx = journal[p]])
  BY DEF PickJournal
<1> HIDE DEF rest
<1>5. CASE journal[p] = NoPlan
  <2>1. Sound(rest, snapshot, status, base)
    BY <1>1, <1>3 DEF Sound, Completing
  <2> QED
    BY <1>2, <1>3, <1>4, <1>5, <2>1, QuietStep
<1>6. CASE journal[p] # NoPlan
  <2> DEFINE r == [rest EXCEPT !.pc = "claim", !.tx = journal[p]]
  <2>1. journal[p] \in PlanVersions /\ journal[p].by = p /\ snapshot[journal[p].version] = journal[p]
    BY <1>6 DEF StoreInv, TypeOK, JournalOwnsSnapshot
  <2>2. /\ r \in ThreadStates /\ r.pc = "claim" /\ r.op = th[t].op /\ r.tx = journal[p]
        /\ r.stage = th[t].stage /\ r.subject = th[t].subject /\ r.next = th[t].next
    BY <1>3, <2>1 DEF ThreadStates, Points
  <2> HIDE DEF r
  <2>3. p \in Proposals
    BY DEF Proposals
  <2>4. Sound(r, snapshot, status, base)
    BY <1>1, <2>1, <2>2, <2>3 DEF Sound, Completing
  <2>5. Goes(t, r)
    BY <1>4, <1>6 DEF r
  <2> QED
    BY <1>2, <2>2, <2>4, <2>5, QuietStep
<1> QED
  BY <1>5, <1>6

LEMMA RecoveredKeeps ==
    ASSUME StoreInv, NEW t \in Threads, Recovered(t)
    PROVE  StoreInv'
<1>1. th[t] \in ThreadStates /\ Sound(th[t], snapshot, status, base) /\ th[t].pc = "pick"
  BY ThreadFacts DEF Recovered, At
<1>2. UNCHANGED disk /\ BoundsInv'
  BY QuietBounds DEF Recovered
<1>3. CASE th[t].op = "open"
  <2>1. th[t].stage # "commit"
    BY <1>1, <1>3 DEF Sound
  <2>2. Goes(t, Idle)
    BY <1>3, <2>1 DEF Recovered
  <2> QED
    BY <1>2, <2>2, IdleFacts, QuietStep
<1>4. CASE th[t].op # "open" /\ th[t].stage = "commit"
  <2> DEFINE r == To(t, "recheck")
  <2>1. Goes(t, r)
    BY <1>4 DEF Recovered
  <2>2. /\ r \in ThreadStates /\ r.pc = "recheck" /\ r.op = th[t].op /\ r.stage = th[t].stage
        /\ r.subject = th[t].subject /\ r.next = th[t].next
    BY <1>1, ToFacts DEF Points
  <2> HIDE DEF r
  <2>3. Sound(r, snapshot, status, base)
    BY <1>1, <1>4, <2>2 DEF Sound, Completing
  <2> QED
    BY <1>2, <2>1, <2>2, <2>3, QuietStep
<1>5. CASE th[t].op # "open" /\ th[t].stage # "commit"
  <2> DEFINE r == To(t, "load")
  <2>1. Goes(t, r)
    BY <1>5 DEF Recovered
  <2>2. /\ r \in ThreadStates /\ r.pc = "load" /\ r.op = th[t].op /\ r.stage = th[t].stage
        /\ r.subject = th[t].subject /\ r.next = th[t].next
    BY <1>1, ToFacts DEF Points
  <2> HIDE DEF r
  <2>3. th[t].op \in {"apply", "reject"}
    BY <1>1, <1>5 DEF Sound, ThreadStates
  <2>4. Sound(r, snapshot, status, base)
    BY <1>1, <1>5, <2>2, <2>3 DEF Sound, Completing
  <2> QED
    BY <1>2, <2>1, <2>2, <2>4, QuietStep
<1> QED
  BY <1>3, <1>4, <1>5

(***************************************************************************)
(* Publishing                                                              *)
(***************************************************************************)
(* A write that may fail: the thread goes on or falls.                       *)
LEMMA MayFaultFacts ==
    ASSUME StoreInv, NEW t \in Threads, NEW r, MayFault(t, r), UNCHANGED <<tries, crashes>>
    PROVE  (Goes(t, r) \/ Goes(t, Fallen(t))) /\ BoundsInv'
BY StoreInvParts, StoreAssumption DEF MayFault, BoundsInv

LEMMA FaultyFacts ==
    ASSUME StoreInv, NEW t \in Threads, Faulty(t), UNCHANGED <<tries, crashes>>
    PROVE  StoreInv'
<1>1. BoundsInv'
  BY StoreInvParts, StoreAssumption DEF Faulty, BoundsInv
<1> QED
  BY <1>1, FallenFacts, QuietStep DEF Faulty

(* A step that fell, whatever it wrote before.                               *)
LEMMA FallenStep ==
    ASSUME StoreInv, NEW t \in Threads, Goes(t, Fallen(t)), DiskGrows, FilesInv', BoundsInv'
    PROVE  StoreInv'
<1>1. Sound(Fallen(t), snapshot', status', base')
  BY FallenFacts, SoundnessLasts DEF DiskGrows
<1> QED
  BY <1>1, FallenFacts, ThreadStep

(* Claiming the version number of a plan leaves every other version alone.   *)
LEMMA NewSnapshot ==
    ASSUME StoreInv, NEW plan \in PlanVersions, plan.by \in Proposals,
           status[plan.by] # "absent", plan.version = base[plan.by] + 1,
           snapshot[plan.version] = NoPlan,
           snapshot' = [snapshot EXCEPT ![plan.version] = plan],
           UNCHANGED <<current, journal, status, base>>
    PROVE  FilesInv' /\ DiskGrows /\ snapshot'[plan.version] = plan
<1>1. FilesInv
  BY StoreInvParts
<1>2. plan.version \in 1..MaxVersion /\ plan # NoPlan
  BY StoreAssumption DEF PlanVersions
<1>3. snapshot' \in [1..MaxVersion -> PlanVersions \cup {NoPlan}]
  BY <1>1 DEF FilesInv
<1>4. snapshot'[plan.version] = plan
  BY <1>1, <1>2 DEF FilesInv
<1>5. \A v \in 1..MaxVersion : v # plan.version => snapshot'[v] = snapshot[v]
  BY <1>1 DEF FilesInv
<1>6. \A v \in 1..MaxVersion : snapshot[v] # NoPlan => snapshot'[v] = snapshot[v]
  BY <1>5
<1>7. DiskGrows
  BY <1>6 DEF DiskGrows, Grows
<1>8. SnapshotsAreSuccessors'
  BY <1>1, <1>4, <1>5 DEF FilesInv, SnapshotsAreSuccessors
<1>9. CurrentIsSnapshot'
  <2>1. current.version \in 1..MaxVersion /\ current # NoPlan
    BY <1>1, StoreAssumption DEF FilesInv, PlanVersions
  <2>2. \A v \in 1..current.version : v \in 1..MaxVersion
    BY <2>1, StoreAssumption
  <2> QED
    BY <1>1, <1>6, <2>1, <2>2 DEF FilesInv, CurrentIsSnapshot
<1>10. JournalOwnsSnapshot'
  <2>1. \A p \in Patches : journal[p] # NoPlan => journal[p].version \in 1..MaxVersion
    BY <1>1 DEF FilesInv, PlanVersions
  <2> QED
    BY <1>1, <1>6, <2>1 DEF FilesInv, JournalOwnsSnapshot
<1>11. OneWinner'
  <2>1. \A p \in Proposals : status[p] = "applied" => base[p] + 1 \in 1..MaxVersion
    BY <1>1, StoreAssumption DEF FilesInv, TargetsExist
  <2> QED
    BY <1>1, <1>6, <2>1 DEF FilesInv, OneWinner
<1>12. TargetsExist'
  BY <1>1 DEF FilesInv, TargetsExist
<1> QED
  BY <1>1, <1>3, <1>4, <1>7, <1>8, <1>9, <1>10, <1>11, <1>12 DEF FilesInv

(* `claim_snapshot`, by whoever calls it: where the thread goes relies on    *)
(* nothing but the plan being claimed.                                       *)
LEMMA ClaimedKeeps ==
    ASSUME StoreInv, NEW t \in Threads, NEW plan \in PlanVersions, plan.by \in Proposals,
           status[plan.by] # "absent", plan.version = base[plan.by] + 1,
           NEW r \in ThreadStates, Claimed(t, plan, r),
           \A files : Grows(snapshot, status, base, files, status, base)
                      /\ files[plan.version] = plan => Sound(r, files, status, base)
    PROVE  StoreInv'
<1>1. UNCHANGED <<current, journal, status, base, tries, crashes>>
  BY DEF Claimed
<1>2. CASE /\ snapshot[plan.version] = NoPlan
           /\ snapshot' = [snapshot EXCEPT ![plan.version] = plan]
           /\ MayFault(t, r)
  <2>1. FilesInv' /\ DiskGrows /\ snapshot'[plan.version] = plan
    BY <1>1, <1>2, NewSnapshot
  <2>2. Sound(r, snapshot', status', base')
    BY <1>1, <2>1 DEF DiskGrows
  <2>3. (Goes(t, r) \/ Goes(t, Fallen(t))) /\ BoundsInv'
    BY <1>1, <1>2, MayFaultFacts
  <2> QED
    BY <2>1, <2>2, <2>3, ThreadStep, FallenStep
<1>3. CASE /\ snapshot[plan.version] # NoPlan
           /\ Goes(t, IF snapshot[plan.version] = plan THEN r ELSE Fallen(t))
           /\ UNCHANGED <<snapshot, faults>>
  <2>1. UNCHANGED disk /\ BoundsInv'
    BY <1>1, <1>3, QuietBounds DEF disk, bounds
  <2>2. CASE snapshot[plan.version] = plan
    <3>1. Sound(r, snapshot, status, base)
      BY <2>2 DEF Grows
    <3> QED
      BY <1>3, <2>1, <2>2, <3>1, QuietStep
  <2>3. CASE snapshot[plan.version] # plan
    BY <1>3, <2>1, <2>3, FallenFacts, QuietStep
  <2> QED
    BY <2>2, <2>3
<1>4. CASE Faulty(t)
  BY <1>1, <1>4, FaultyFacts
<1> QED
  BY <1>2, <1>3, <1>4 DEF Claimed

LEMMA ClaimSnapshotKeeps ==
    ASSUME StoreInv, NEW t \in Threads, ClaimSnapshot(t)
    PROVE  StoreInv'
<1>1. th[t].pc = "claim" /\ th[t].pc \in Completing
  BY DEF ClaimSnapshot, At, Completing
<1>2. /\ th[t].tx \in PlanVersions /\ th[t].tx.version \in 1..MaxVersion
      /\ th[t].tx.by \in Proposals /\ status[th[t].tx.by] # "absent"
      /\ th[t].tx.version = base[th[t].tx.by] + 1
  BY <1>1, TxFacts
<1>3. To(t, "swap") \in ThreadStates /\ Sound(To(t, "swap"), snapshot, status, base)
  BY <1>1, CompletingFacts DEF Completing
<1> DEFINE s == To(t, "swap")
           r == [s EXCEPT !.expected = th[t].tx.version - 1]
<1>4. Claimed(t, th[t].tx, r)
  BY DEF ClaimSnapshot
<1> HIDE DEF s
<1>5. s \in ThreadStates /\ Sound(s, snapshot, status, base)
  BY <1>3 DEF s
<1>6. th[t].tx.version - 1 \in 0..MaxVersion
  BY <1>2, StoreAssumption
<1>7. /\ r \in ThreadStates /\ r.pc = s.pc /\ r.op = s.op /\ r.stage = s.stage
      /\ r.subject = s.subject /\ r.tx = s.tx /\ r.next = s.next
  BY <1>5, <1>6 DEF ThreadStates
<1> HIDE DEF r
<1>8. Sound(r, snapshot, status, base)
  BY <1>5, <1>7 DEF Sound
<1>9. ASSUME NEW files, Grows(snapshot, status, base, files, status, base)
      PROVE  Sound(r, files, status, base)
  BY <1>8, <1>9, SoundnessLasts
<1> QED
  BY <1>2, <1>4, <1>7, <1>9, ClaimedKeeps

LEMMA AfterAdvanceFacts ==
    ASSUME StoreInv, NEW t \in Threads, th[t].pc \in Completing
    PROVE  AfterAdvance(t) \in ThreadStates /\ Sound(AfterAdvance(t), snapshot, status, base)
<1>1. CASE th[t].tx.by \in Patches
  BY <1>1, CompletingFacts DEF AfterAdvance, Completing
<1>2. CASE th[t].tx.by \notin Patches
  BY <1>2, CompletingFacts DEF AfterAdvance, Completing
<1> QED
  BY <1>1, <1>2

(* What is about to be published follows the current version, so no version  *)
(* before it is missing.                                                     *)
LEMMA CompareCurrentKeeps ==
    ASSUME StoreInv, NEW t \in Threads, CompareCurrent(t)
    PROVE  StoreInv'
<1>1. th[t].pc = "swap" /\ th[t].pc \in Completing
  BY DEF CompareCurrent, At, Completing
<1>2. UNCHANGED disk /\ BoundsInv'
  BY QuietBounds DEF CompareCurrent
<1>3. th[t] \in ThreadStates /\ Sound(th[t], snapshot, status, base)
  BY ThreadFacts
<1>4. CASE current = th[t].tx
  <2>1. Goes(t, AfterAdvance(t))
    BY <1>4 DEF CompareCurrent
  <2> QED
    BY <1>1, <1>2, <2>1, AfterAdvanceFacts, QuietStep
<1>5. CASE current # th[t].tx /\ MayAdvance(t)
  <2> DEFINE r == To(t, "publish")
  <2>1. Goes(t, r)
    BY <1>5 DEF CompareCurrent
  <2>2. /\ r \in ThreadStates /\ r.pc = "publish" /\ r.op = th[t].op /\ r.stage = th[t].stage
        /\ r.subject = th[t].subject /\ r.tx = th[t].tx /\ r.next = th[t].next
    BY <1>3, ToFacts DEF Points
  <2> HIDE DEF r
  <2>3. /\ snapshot[th[t].tx.version] = th[t].tx /\ th[t].tx # NoPlan
        /\ th[t].tx.version \in 1..MaxVersion
    BY <1>1, TxFacts
  <2>4. ASSUME NEW v \in 1..r.tx.version PROVE snapshot[v] # NoPlan
    <3>1. th[t].tx.version = current.version + 1 /\ current.version \in 1..MaxVersion
      BY <1>5 DEF MayAdvance, StoreInv, TypeOK, PlanVersions
    <3>2. v = th[t].tx.version \/ v \in 1..current.version
      BY <2>2, <3>1, StoreAssumption
    <3> QED
      BY <2>3, <3>2 DEF StoreInv, CurrentIsSnapshot
  <2>5. Sound(r, snapshot, status, base)
    BY <1>1, <1>3, <2>2, <2>4 DEF Sound, Completing
  <2> QED
    BY <1>2, <2>1, <2>2, <2>5, QuietStep
<1>6. CASE current # th[t].tx /\ ~MayAdvance(t)
  <2>1. Goes(t, Fallen(t))
    BY <1>6 DEF CompareCurrent
  <2> QED
    BY <1>2, <2>1, FallenFacts, QuietStep
<1> QED
  BY <1>4, <1>5, <1>6

LEMMA PublishCurrentKeeps ==
    ASSUME StoreInv, NEW t \in Threads, PublishCurrent(t)
    PROVE  StoreInv'
<1>1. th[t].pc = "publish" /\ th[t].pc \in Completing
  BY DEF PublishCurrent, At, Completing
<1>2. UNCHANGED <<snapshot, journal, status, base, tries, crashes>>
  BY DEF PublishCurrent
<1>3. CASE current' = th[t].tx /\ MayFault(t, AfterAdvance(t))
  <2>1. FilesInv
    BY StoreInvParts
  <2>2. th[t].tx \in PlanVersions /\ snapshot[th[t].tx.version] = th[t].tx
    BY <1>1, TxFacts
  <2>3. \A v \in 1..th[t].tx.version : snapshot[v] # NoPlan
    BY <1>1, ThreadFacts DEF Sound
  <2>4. FilesInv'
    BY <1>2, <1>3, <2>1, <2>2, <2>3 DEF FilesInv, TargetsExist, SnapshotsAreSuccessors,
       CurrentIsSnapshot, JournalOwnsSnapshot, OneWinner
  <2>5. DiskGrows
    BY <1>2 DEF DiskGrows, Grows
  <2>6. Sound(AfterAdvance(t), snapshot', status', base')
    BY <1>1, <2>5, AfterAdvanceFacts, SoundnessLasts DEF DiskGrows
  <2>7. (Goes(t, AfterAdvance(t)) \/ Goes(t, Fallen(t))) /\ BoundsInv'
    BY <1>2, <1>3, MayFaultFacts
  <2> QED
    BY <1>1, <2>4, <2>5, <2>6, <2>7, AfterAdvanceFacts, ThreadStep, FallenStep
<1>4. CASE Faulty(t)
  BY <1>2, <1>4, FaultyFacts
<1> QED
  BY <1>3, <1>4 DEF PublishCurrent

LEMMA ReadPatchKeeps ==
    ASSUME StoreInv, NEW t \in Threads, ReadPatch(t)
    PROVE  StoreInv'
<1>1. th[t].pc = "mark" /\ th[t].pc \in Completing
  BY DEF ReadPatch, At, Completing
<1>2. UNCHANGED disk /\ BoundsInv'
  BY QuietBounds DEF ReadPatch
<1>3. th[t].tx.by \in Patches
  BY <1>1, ThreadFacts DEF Sound
<1>4. Goes(t, To(t, "save")) \/ Goes(t, To(t, "unlink")) \/ Goes(t, Fallen(t))
  BY DEF ReadPatch
<1>5. To(t, "save") \in ThreadStates /\ Sound(To(t, "save"), snapshot, status, base)
  BY <1>1, CompletingFacts DEF Completing
<1>6. To(t, "unlink") \in ThreadStates /\ Sound(To(t, "unlink"), snapshot, status, base)
  BY <1>1, <1>3, CompletingFacts DEF Completing
<1> QED
  BY <1>2, <1>4, <1>5, <1>6, FallenFacts, QuietStep

(* Deciding on a proposal keeps the files in order: only a published one is  *)
(* ever marked as applied.                                                   *)
LEMMA NewStatus ==
    ASSUME StoreInv, NEW p \in Proposals, NEW s \in Statuses \ {"absent"},
           status[p] # "absent",
           s = "applied" => snapshot[base[p] + 1] # NoPlan /\ snapshot[base[p] + 1].by = p,
           status' = [status EXCEPT ![p] = s],
           UNCHANGED <<snapshot, current, journal, base>>
    PROVE  FilesInv' /\ DiskGrows
<1>1. FilesInv
  BY StoreInvParts
<1>2. /\ status' \in [Proposals -> Statuses]
      /\ status'[p] = s
      /\ \A q \in Proposals : q # p => status'[q] = status[q]
  BY <1>1 DEF FilesInv
<1>3. TargetsExist' /\ OneWinner'
  BY <1>1, <1>2 DEF FilesInv, TargetsExist, OneWinner
<1>4. SnapshotsAreSuccessors'
  BY <1>1, <1>2 DEF FilesInv, SnapshotsAreSuccessors
<1>5. CurrentIsSnapshot' /\ JournalOwnsSnapshot'
  BY <1>1 DEF FilesInv, CurrentIsSnapshot, JournalOwnsSnapshot
<1>6. DiskGrows
  BY <1>1, <1>2 DEF DiskGrows, Grows
<1> QED
  BY <1>1, <1>2, <1>3, <1>4, <1>5, <1>6 DEF FilesInv

LEMMA MarkAppliedKeeps ==
    ASSUME StoreInv, NEW t \in Threads, MarkApplied(t)
    PROVE  StoreInv'
<1> DEFINE p == th[t].tx.by
<1>1. th[t].pc = "save" /\ th[t].pc \in Completing
  BY DEF MarkApplied, At, Completing
<1>2. UNCHANGED <<snapshot, current, journal, base, tries, crashes>>
  BY DEF MarkApplied
<1>3. /\ p \in Proposals /\ status[p] # "absent"
      /\ snapshot[base[p] + 1] # NoPlan /\ snapshot[base[p] + 1].by = p
  BY <1>1, TxFacts
<1>4. status' = [status EXCEPT ![p] = "applied"] => FilesInv' /\ DiskGrows
  BY <1>2, <1>3, NewStatus DEF Statuses
<1>5. UNCHANGED status => FilesInv' /\ DiskGrows
  BY <1>2, QuietDisk DEF disk
<1>6. FilesInv' /\ DiskGrows
  BY <1>4, <1>5 DEF MarkApplied, Faulty, disk
<1>7. CASE p \in Patches /\ MayFault(t, To(t, "unlink"))
  <2>1. To(t, "unlink") \in ThreadStates /\ Sound(To(t, "unlink"), snapshot, status, base)
    BY <1>1, <1>7, CompletingFacts DEF Completing
  <2>2. Sound(To(t, "unlink"), snapshot', status', base')
    BY <1>6, <2>1, SoundnessLasts DEF DiskGrows
  <2>3. (Goes(t, To(t, "unlink")) \/ Goes(t, Fallen(t))) /\ BoundsInv'
    BY <1>2, <1>7, MayFaultFacts
  <2> QED
    BY <1>6, <2>1, <2>2, <2>3, ThreadStep, FallenStep
<1>8. CASE p \in Patches /\ Faulty(t)
  BY <1>2, <1>8, FaultyFacts
<1>9. CASE p \notin Patches
  <2>1. Goes(t, Idle) /\ BoundsInv'
    BY <1>2, <1>9, StoreInvParts, StoreAssumption DEF MarkApplied, BoundsInv
  <2>2. Sound(Idle, snapshot', status', base')
    BY <1>6, IdleFacts, SoundnessLasts DEF DiskGrows
  <2> QED
    BY <1>6, <2>1, <2>2, IdleFacts, ThreadStep
<1> QED
  BY <1>7, <1>8, <1>9 DEF MarkApplied

LEMMA FinishedFacts ==
    ASSUME StoreInv, NEW t \in Threads, th[t].pc \in Completing
    PROVE  Finished(t) \in ThreadStates /\ Sound(Finished(t), snapshot, status, base)
<1>1. CASE th[t].stage = "own"
  BY <1>1, IdleFacts DEF Finished
<1>2. CASE th[t].stage # "own"
  <2> DEFINE s == To(t, "pick")
             r == [s EXCEPT !.tx = NoPlan]
  <2>1. Finished(t) = r
    BY <1>2 DEF Finished
  <2>2. s \in ThreadStates /\ Sound(s, snapshot, status, base)
    BY CompletingFacts
  <2>3. s.pc = "pick"
    BY ThreadFacts, ToFacts DEF Points
  <2> HIDE DEF s
  <2>4. /\ r \in ThreadStates /\ r.pc = "pick" /\ r.op = s.op /\ r.stage = s.stage
        /\ r.subject = s.subject /\ r.next = s.next
    BY <2>2, <2>3 DEF ThreadStates
  <2> HIDE DEF r
  <2>5. Sound(r, snapshot, status, base)
    BY <2>2, <2>3, <2>4 DEF Sound, Completing
  <2> QED
    BY <2>1, <2>4, <2>5
<1> QED
  BY <1>1, <1>2

LEMMA FindJournalKeeps ==
    ASSUME StoreInv, NEW t \in Threads, FindJournal(t)
    PROVE  StoreInv'
<1>1. th[t].pc = "unlink" /\ th[t].pc \in Completing
  BY DEF FindJournal, At, Completing
<1>2. UNCHANGED disk /\ BoundsInv'
  BY QuietBounds DEF FindJournal
<1>3. th[t].tx.by \in Patches
  BY <1>1, ThreadFacts DEF Sound
<1>4. Goes(t, Finished(t)) \/ Goes(t, To(t, "remove"))
  BY DEF FindJournal
<1>5. To(t, "remove") \in ThreadStates /\ Sound(To(t, "remove"), snapshot, status, base)
  BY <1>1, <1>3, CompletingFacts DEF Completing
<1> QED
  BY <1>1, <1>2, <1>4, <1>5, FinishedFacts, QuietStep

(* Journals come and go without touching what the other files say.           *)
LEMMA NewJournal ==
    ASSUME StoreInv, NEW p \in Patches, NEW plan \in PlanVersions \cup {NoPlan},
           plan # NoPlan => plan.by = p /\ snapshot[plan.version] = plan,
           journal' = [journal EXCEPT ![p] = plan],
           UNCHANGED <<snapshot, current, status, base>>
    PROVE  FilesInv' /\ DiskGrows
<1>1. FilesInv
  BY StoreInvParts
<1>2. /\ journal' \in [Patches -> PlanVersions \cup {NoPlan}]
      /\ journal'[p] = plan
      /\ \A q \in Patches : q # p => journal'[q] = journal[q]
  BY <1>1 DEF FilesInv
<1>3. JournalOwnsSnapshot'
  BY <1>1, <1>2 DEF FilesInv, JournalOwnsSnapshot
<1>4. TargetsExist' /\ OneWinner' /\ SnapshotsAreSuccessors' /\ CurrentIsSnapshot'
  BY <1>1 DEF FilesInv, TargetsExist, OneWinner, SnapshotsAreSuccessors, CurrentIsSnapshot
<1>5. DiskGrows
  BY <1>1 DEF DiskGrows, Grows
<1> QED
  BY <1>1, <1>2, <1>3, <1>4, <1>5 DEF FilesInv

LEMMA RemoveJournalKeeps ==
    ASSUME StoreInv, NEW t \in Threads, RemoveJournal(t)
    PROVE  StoreInv'
<1> DEFINE p == th[t].tx.by
<1>1. th[t].pc = "remove" /\ th[t].pc \in Completing
  BY DEF RemoveJournal, At, Completing
<1>2. UNCHANGED <<snapshot, current, status, base, tries, crashes>>
  BY DEF RemoveJournal
<1>3. p \in Patches
  BY <1>1, ThreadFacts DEF Sound
<1>4. CASE journal[p] = NoPlan
  <2>1. Goes(t, Fallen(t)) /\ UNCHANGED disk /\ UNCHANGED bounds
    BY <1>2, <1>4 DEF RemoveJournal, disk, bounds
  <2> QED
    BY <2>1, QuietBounds, FallenFacts, QuietStep
<1>5. CASE journal' = [journal EXCEPT ![p] = NoPlan] /\ MayFault(t, Finished(t))
  <2>1. FilesInv' /\ DiskGrows
    BY <1>2, <1>3, <1>5, NewJournal
  <2>2. Sound(Finished(t), snapshot', status', base')
    BY <1>1, <2>1, FinishedFacts, SoundnessLasts DEF DiskGrows
  <2>3. (Goes(t, Finished(t)) \/ Goes(t, Fallen(t))) /\ BoundsInv'
    BY <1>2, <1>5, MayFaultFacts
  <2> QED
    BY <1>1, <2>1, <2>2, <2>3, FinishedFacts, ThreadStep, FallenStep
<1>6. CASE Faulty(t)
  BY <1>2, <1>6, FaultyFacts
<1> QED
  BY <1>4, <1>5, <1>6 DEF RemoveJournal

(***************************************************************************)
(* Applying and rejecting                                                  *)
(***************************************************************************)
Deciding == {"load", "approve", "reject", "rollback", "stamp", "recheck", "claim_next", "journal"}

(* A thread that decides does so about a proposal that exists.               *)
LEMMA SubjectFacts ==
    ASSUME StoreInv, NEW t \in Threads, th[t].pc \in Deciding
    PROVE  /\ th[t].op \in {"apply", "reject"}
           /\ th[t].subject \in Proposals
           /\ status[th[t].subject] # "absent"
BY ThreadFacts DEF Sound, Deciding

LEMMA LoadProposalKeeps ==
    ASSUME StoreInv, NEW t \in Threads, LoadProposal(t)
    PROVE  StoreInv'
<1> DEFINE s == status[th[t].subject]
<1>1. th[t].pc = "load" /\ th[t].pc \in Deciding
  BY DEF LoadProposal, At, Deciding
<1>2. UNCHANGED disk /\ BoundsInv'
  BY QuietBounds DEF LoadProposal
<1>3. th[t] \in ThreadStates /\ Sound(th[t], snapshot, status, base)
  BY ThreadFacts
<1>4. s \in Statuses
  BY <1>1, SubjectFacts DEF StoreInv, TypeOK
<1>5. CASE th[t].op = "apply" /\ s = "pending"
  <2> DEFINE r == [To(t, "approve") EXCEPT !.prior = s]
  <2>1. Goes(t, r)
    BY <1>5 DEF LoadProposal
  <2>2. /\ r \in ThreadStates /\ r.pc = "approve" /\ r.op = th[t].op /\ r.stage = th[t].stage
        /\ r.subject = th[t].subject /\ r.next = th[t].next
    BY <1>3, <1>4 DEF To, ThreadStates, Points
  <2> HIDE DEF r
  <2>3. Sound(r, snapshot, status, base)
    BY <1>1, <1>3, <1>5, <2>2, SubjectFacts DEF Sound, Completing
  <2> QED
    BY <1>2, <2>1, <2>2, <2>3, QuietStep
<1>6. CASE th[t].op = "apply" /\ s = "approved"
  <2> DEFINE r == [To(t, "stamp") EXCEPT !.prior = s, !.stage = "commit"]
  <2>1. Goes(t, r)
    BY <1>6 DEF LoadProposal
  <2>2. /\ r \in ThreadStates /\ r.pc = "stamp" /\ r.op = "apply" /\ r.stage = "commit"
        /\ r.subject = th[t].subject
    BY <1>3, <1>4, <1>6 DEF To, ThreadStates, Points
  <2> HIDE DEF r
  <2>3. Sound(r, snapshot, status, base)
    BY <1>1, <2>2, SubjectFacts DEF Sound, Completing
  <2> QED
    BY <1>2, <2>1, <2>2, <2>3, QuietStep
<1>7. CASE th[t].op = "reject" /\ s = "pending"
  <2> DEFINE r == To(t, "reject")
  <2>1. Goes(t, r)
    BY <1>7 DEF LoadProposal
  <2>2. /\ r \in ThreadStates /\ r.pc = "reject" /\ r.op = th[t].op /\ r.stage = th[t].stage
        /\ r.subject = th[t].subject /\ r.next = th[t].next
    BY <1>3, ToFacts DEF Points
  <2> HIDE DEF r
  <2>3. Sound(r, snapshot, status, base)
    BY <1>1, <1>3, <2>2, SubjectFacts DEF Sound, Completing
  <2> QED
    BY <1>2, <2>1, <2>2, <2>3, QuietStep
<1>8. CASE ~(\/ th[t].op = "apply" /\ s \in {"pending", "approved"}
             \/ th[t].op = "reject" /\ s = "pending")
  <2>1. Goes(t, Idle)
    BY <1>8 DEF LoadProposal
  <2> QED
    BY <1>2, <2>1, IdleFacts, QuietStep
<1> QED
  BY <1>5, <1>6, <1>7, <1>8

LEMMA ApproveKeeps ==
    ASSUME StoreInv, NEW t \in Threads, Approve(t)
    PROVE  StoreInv'
<1> DEFINE p == th[t].subject
           r == [To(t, "stamp") EXCEPT !.stage = "commit"]
<1>1. th[t].pc = "approve" /\ th[t].pc \in Deciding
  BY DEF Approve, At, Deciding
<1>2. UNCHANGED <<snapshot, current, journal, base, tries, crashes>>
  BY DEF Approve
<1>3. CASE Faulty(t)
  BY <1>2, <1>3, FaultyFacts
<1>4. CASE /\ status' = [status EXCEPT ![p] = "approved"]
           /\ \/ Goes(t, r) /\ UNCHANGED faults
              \/ faults < MaxFaults /\ faults' = faults + 1 /\ Goes(t, Idle)
  <2>1. FilesInv' /\ DiskGrows
    BY <1>1, <1>2, <1>4, SubjectFacts, NewStatus DEF Statuses
  <2>2. BoundsInv'
    BY <1>2, <1>4, StoreInvParts, StoreAssumption DEF BoundsInv
  <2>3. CASE Goes(t, Idle)
    BY <2>1, <2>2, <2>3, IdleFacts, SoundnessLasts, ThreadStep DEF DiskGrows
  <2>4. CASE Goes(t, r)
    <3>1. th[t] \in ThreadStates /\ Sound(th[t], snapshot, status, base)
      BY ThreadFacts
    <3>2. /\ r \in ThreadStates /\ r.pc = "stamp" /\ r.op = th[t].op /\ r.stage = "commit"
          /\ r.subject = p
      BY <3>1 DEF To, ThreadStates, Points
    <3> HIDE DEF r
    <3>3. th[t].op = "apply"
      BY <1>1, <3>1 DEF Sound
    <3>4. Sound(r, snapshot, status, base)
      BY <1>1, <3>2, <3>3, SubjectFacts DEF Sound, Completing
    <3>5. Sound(r, snapshot', status', base')
      BY <2>1, <3>4, SoundnessLasts DEF DiskGrows
    <3> QED
      BY <2>1, <2>2, <2>4, <3>2, <3>5, ThreadStep
  <2> QED
    BY <1>4, <2>3, <2>4
<1> QED
  BY <1>3, <1>4 DEF Approve

LEMMA RejectKeeps ==
    ASSUME StoreInv, NEW t \in Threads, Reject(t)
    PROVE  StoreInv'
<1>1. th[t].pc = "reject" /\ th[t].pc \in Deciding
  BY DEF Reject, At, Deciding
<1>2. UNCHANGED <<snapshot, current, journal, base, tries, crashes>>
  BY DEF Reject
<1>3. CASE Faulty(t)
  BY <1>2, <1>3, FaultyFacts
<1>4. CASE status' = [status EXCEPT ![th[t].subject] = "rejected"] /\ MayFault(t, Idle)
  <2>1. FilesInv' /\ DiskGrows
    BY <1>1, <1>2, <1>4, SubjectFacts, NewStatus DEF Statuses
  <2>2. (Goes(t, Idle) \/ Goes(t, Fallen(t))) /\ BoundsInv'
    BY <1>2, <1>4, MayFaultFacts
  <2>3. Sound(Idle, snapshot', status', base')
    BY <2>1, IdleFacts, SoundnessLasts DEF DiskGrows
  <2> QED
    BY <2>1, <2>2, <2>3, IdleFacts, ThreadStep, FallenStep
<1> QED
  BY <1>3, <1>4 DEF Reject

LEMMA RollBackKeeps ==
    ASSUME StoreInv, NEW t \in Threads, RollBack(t)
    PROVE  StoreInv'
<1>1. th[t].pc = "rollback" /\ th[t].pc \in Deciding
  BY DEF RollBack, At, Deciding
<1>2. UNCHANGED <<snapshot, current, journal, base, tries, crashes>>
  BY DEF RollBack
<1>3. status' = [status EXCEPT ![th[t].subject] = "pending"] => FilesInv' /\ DiskGrows
  BY <1>1, <1>2, SubjectFacts, NewStatus DEF Statuses
<1>4. UNCHANGED status => FilesInv' /\ DiskGrows
  BY <1>2, QuietDisk DEF disk
<1>5. FilesInv' /\ DiskGrows
  BY <1>3, <1>4 DEF RollBack
<1>6. Goes(t, Idle) /\ BoundsInv'
  BY <1>2, StoreInvParts, StoreAssumption DEF RollBack, BoundsInv
<1>7. Sound(Idle, snapshot', status', base')
  BY <1>5, IdleFacts, SoundnessLasts DEF DiskGrows
<1> QED
  BY <1>5, <1>6, <1>7, IdleFacts, ThreadStep

(* Nothing but the attempts made so far is counted here.                     *)
LEMMA MakeNextPlanKeeps ==
    ASSUME StoreInv, NEW t \in Threads, MakeNextPlan(t)
    PROVE  StoreInv'
<1> DEFINE p == th[t].subject
           n == tries[p] + 1
           plan == Version(NextVersion(p), p, n)
           r == [To(t, "list") EXCEPT !.next = plan]
<1>1. th[t].pc = "stamp" /\ th[t].pc \in Deciding /\ p \in Patches
  BY DEF MakeNextPlan, At, Deciding
<1>2. UNCHANGED disk /\ UNCHANGED <<faults, crashes>>
  BY DEF MakeNextPlan
<1>3. th[t] \in ThreadStates /\ Sound(th[t], snapshot, status, base)
  BY ThreadFacts
<1>4. CASE Goes(t, r) /\ tries' = [tries EXCEPT ![p] = n]
  <2>1. p \in Proposals /\ status[p] # "absent" /\ base[p] \in 1..(MaxVersion - 1)
    BY <1>1, SubjectFacts DEF StoreInv, TargetsExist
  <2>2. tries \in [Proposals -> Nat] /\ n \in Nat
    BY <2>1, StoreInvParts DEF BoundsInv
  <2>3. BoundsInv'
    BY <1>2, <1>4, <2>1, <2>2, StoreInvParts DEF BoundsInv
  <2>4. NextVersion(p) = base[p] + 1 /\ NextVersion(p) \in 1..MaxVersion
    BY <2>1, StoreAssumption DEF NextVersion
  <2> HIDE DEF n
  <2>5. plan \in PlanVersions /\ plan.by = p /\ plan.version = base[p] + 1
    BY <2>1, <2>2, <2>4 DEF Version, PlanVersions
  <2> HIDE DEF plan
  <2>6. /\ r \in ThreadStates /\ r.pc = "list" /\ r.op = th[t].op /\ r.stage = th[t].stage
        /\ r.subject = p /\ r.next = plan
    BY <1>3, <2>5 DEF To, ThreadStates, Points
  <2> HIDE DEF r
  <2>7. Sound(r, snapshot, status, base)
    BY <1>1, <1>3, <2>5, <2>6 DEF Sound, Completing
  <2> QED
    BY <1>2, <1>4, <2>3, <2>6, <2>7, QuietStep
<1>5. CASE Goes(t, Fallen(t)) /\ UNCHANGED tries
  <2>1. BoundsInv'
    BY <1>2, <1>5, QuietBounds DEF bounds
  <2> QED
    BY <1>2, <1>5, <2>1, FallenFacts, QuietStep
<1> QED
  BY <1>4, <1>5 DEF MakeNextPlan

LEMMA RefusePatchKeeps ==
    ASSUME StoreInv, NEW t \in Threads, RefusePatch(t)
    PROVE  StoreInv'
<1>1. UNCHANGED disk /\ BoundsInv'
  BY StoreInvParts, StoreAssumption DEF RefusePatch, BoundsInv
<1> QED
  BY <1>1, FallenFacts, IdleFacts, QuietStep DEF RefusePatch

LEMMA TakeEditedPlanKeeps ==
    ASSUME StoreInv, NEW t \in Threads, TakeEditedPlan(t)
    PROVE  StoreInv'
<1> DEFINE p == th[t].subject
           plan == Version(NextVersion(p), p, 0)
           r == [To(t, "claim_next") EXCEPT !.stage = "own", !.next = plan,
                                            !.expected = current.version]
<1>1. th[t].pc = "stamp" /\ th[t].pc \in Deciding
  BY DEF TakeEditedPlan, At, Deciding
<1>2. UNCHANGED disk /\ BoundsInv'
  BY QuietBounds DEF TakeEditedPlan
<1>3. th[t] \in ThreadStates /\ Sound(th[t], snapshot, status, base)
  BY ThreadFacts
<1>4. CASE Goes(t, Fallen(t))
  BY <1>2, <1>4, FallenFacts, QuietStep
<1>5. CASE Goes(t, r)
  <2>1. p \in Proposals /\ status[p] # "absent" /\ base[p] \in 1..(MaxVersion - 1)
    BY <1>1, SubjectFacts DEF StoreInv, TargetsExist
  <2>2. NextVersion(p) = base[p] + 1 /\ NextVersion(p) \in 1..MaxVersion
    BY <2>1, StoreAssumption DEF NextVersion
  <2>3. plan \in PlanVersions /\ plan.by = p /\ plan.version = base[p] + 1
    BY <2>1, <2>2 DEF Version, PlanVersions
  <2>4. current.version \in 0..MaxVersion
    BY StoreAssumption DEF StoreInv, TypeOK, PlanVersions
  <2> HIDE DEF plan
  <2>5. /\ r \in ThreadStates /\ r.pc = "claim_next" /\ r.op = th[t].op /\ r.stage = "own"
        /\ r.subject = p /\ r.next = plan
    BY <1>3, <2>3, <2>4 DEF To, ThreadStates, Points
  <2> HIDE DEF r
  <2>6. Sound(r, snapshot, status, base)
    BY <1>1, <1>3, <2>1, <2>3, <2>5 DEF Sound, Completing
  <2> QED
    BY <1>2, <1>5, <2>5, <2>6, QuietStep
<1> QED
  BY <1>4, <1>5 DEF TakeEditedPlan

LEMMA RecheckKeeps ==
    ASSUME StoreInv, NEW t \in Threads, Recheck(t)
    PROVE  StoreInv'
<1> DEFINE r == [To(t, "claim_next") EXCEPT !.stage = "own"]
<1>1. th[t].pc = "recheck" /\ th[t].pc \in Deciding
  BY DEF Recheck, At, Deciding
<1>2. UNCHANGED disk /\ BoundsInv'
  BY QuietBounds DEF Recheck
<1>3. th[t] \in ThreadStates /\ Sound(th[t], snapshot, status, base)
  BY ThreadFacts
<1>4. Goes(t, Idle) \/ Goes(t, Fallen(t)) \/ Goes(t, r)
  BY DEF Recheck
<1>5. CASE Goes(t, r)
  <2>1. /\ r \in ThreadStates /\ r.pc = "claim_next" /\ r.op = th[t].op /\ r.stage = "own"
        /\ r.subject = th[t].subject /\ r.next = th[t].next
    BY <1>3 DEF To, ThreadStates, Points
  <2> HIDE DEF r
  <2>2. Sound(r, snapshot, status, base)
    BY <1>1, <1>3, <2>1 DEF Sound, Completing
  <2> QED
    BY <1>2, <1>5, <2>1, <2>2, QuietStep
<1> QED
  BY <1>2, <1>4, <1>5, IdleFacts, FallenFacts, QuietStep

(* The plan a thread made is the successor of its proposal's base.           *)
LEMMA NextFacts ==
    ASSUME StoreInv, NEW t \in Threads, th[t].pc \in {"claim_next", "journal"}
    PROVE  /\ th[t].next \in PlanVersions
           /\ th[t].next.by = th[t].subject
           /\ th[t].next.by \in Proposals
           /\ status[th[t].next.by] # "absent"
           /\ th[t].next.version = base[th[t].next.by] + 1
<1>1. Sound(th[t], snapshot, status, base)
  BY ThreadFacts
<1>2. th[t].next \in PlanVersions /\ th[t].next.by = th[t].subject
      /\ th[t].next.version = base[th[t].subject] + 1
  BY <1>1 DEF Sound
<1> QED
  BY <1>2, SubjectFacts DEF Deciding

LEMMA ClaimNextKeeps ==
    ASSUME StoreInv, NEW t \in Threads, ClaimNext(t)
    PROVE  StoreInv'
<1> DEFINE plan == th[t].next
<1>1. th[t].pc = "claim_next" /\ th[t].pc \in Deciding
  BY DEF ClaimNext, At, Deciding
<1>2. th[t] \in ThreadStates /\ Sound(th[t], snapshot, status, base)
  BY ThreadFacts
<1>3. /\ plan \in PlanVersions /\ plan.by = th[t].subject /\ plan.by \in Proposals
      /\ status[plan.by] # "absent" /\ plan.version = base[plan.by] + 1
  BY <1>1, NextFacts
<1>4. CASE th[t].subject \in Patches
  <2> DEFINE r == To(t, "journal")
  <2>1. Claimed(t, plan, r)
    BY <1>4 DEF ClaimNext
  <2>2. /\ r \in ThreadStates /\ r.pc = "journal" /\ r.op = th[t].op /\ r.stage = th[t].stage
        /\ r.subject = th[t].subject /\ r.next = plan
    BY <1>2, ToFacts DEF Points
  <2> HIDE DEF r
  <2>3. ASSUME NEW files, files[plan.version] = plan PROVE Sound(r, files, status, base)
    BY <1>1, <1>2, <1>4, <2>2, <2>3, SubjectFacts DEF Sound, Completing
  <2> QED
    BY <1>3, <2>1, <2>2, <2>3, ClaimedKeeps
<1>5. CASE th[t].subject \notin Patches
  <2> DEFINE r == [To(t, "swap") EXCEPT !.tx = plan]
  <2>1. Claimed(t, plan, r)
    BY <1>5 DEF ClaimNext
  <2>2. /\ r \in ThreadStates /\ r.pc = "swap" /\ r.op = th[t].op /\ r.stage = th[t].stage
        /\ r.subject = th[t].subject /\ r.next = plan /\ r.tx = plan
    BY <1>2, <1>3 DEF To, ThreadStates, Points
  <2> HIDE DEF r
  <2>3. ASSUME NEW files, files[plan.version] = plan PROVE Sound(r, files, status, base)
    BY <1>1, <1>2, <1>3, <2>2, <2>3, SubjectFacts DEF Sound, Completing
  <2> QED
    BY <1>3, <2>1, <2>2, <2>3, ClaimedKeeps
<1> QED
  BY <1>4, <1>5

LEMMA WriteJournalKeeps ==
    ASSUME StoreInv, NEW t \in Threads, WriteJournal(t)
    PROVE  StoreInv'
<1> DEFINE p == th[t].subject
           plan == th[t].next
           r == [To(t, "claim") EXCEPT !.tx = plan]
<1>1. th[t].pc = "journal" /\ th[t].pc \in Deciding
  BY DEF WriteJournal, At, Deciding
<1>2. UNCHANGED <<snapshot, current, status, base, tries, crashes>>
  BY DEF WriteJournal
<1>3. th[t] \in ThreadStates /\ Sound(th[t], snapshot, status, base)
  BY ThreadFacts
<1>4. /\ plan \in PlanVersions /\ plan.by = p /\ p \in Proposals
  BY <1>1, NextFacts
<1>5. p \in Patches /\ snapshot[plan.version] = plan
  BY <1>1, <1>3 DEF Sound
<1>6. /\ r \in ThreadStates /\ r.pc = "claim" /\ r.op = th[t].op /\ r.stage = th[t].stage
      /\ r.subject = p /\ r.next = plan /\ r.tx = plan
  BY <1>3, <1>4 DEF To, ThreadStates, Points
<1>7. Faulty(t) => StoreInv'
  BY <1>2, FaultyFacts
<1>8. \/ journal' = [journal EXCEPT ![p] = plan] /\ MayFault(t, r)
      \/ (Goes(t, r) \/ Goes(t, Fallen(t))) /\ UNCHANGED <<journal, faults>>
      \/ Faulty(t)
  BY DEF WriteJournal
<1> HIDE DEF r
<1>9. Sound(r, snapshot, status, base)
  BY <1>1, <1>3, <1>4, <1>5, <1>6 DEF Sound, Completing
<1>10. CASE journal' = [journal EXCEPT ![p] = plan] /\ MayFault(t, r)
  <2>1. FilesInv' /\ DiskGrows
    BY <1>2, <1>4, <1>5, <1>10, NewJournal
  <2>2. Sound(r, snapshot', status', base')
    BY <1>9, <2>1, SoundnessLasts DEF DiskGrows
  <2>3. (Goes(t, r) \/ Goes(t, Fallen(t))) /\ BoundsInv'
    BY <1>2, <1>10, MayFaultFacts
  <2> QED
    BY <1>6, <2>1, <2>2, <2>3, ThreadStep, FallenStep
<1>11. CASE (Goes(t, r) \/ Goes(t, Fallen(t))) /\ UNCHANGED <<journal, faults>>
  <2>1. UNCHANGED disk /\ BoundsInv'
    BY <1>2, <1>11, QuietBounds DEF disk, bounds
  <2> QED
    BY <1>6, <1>9, <1>11, <2>1, FallenFacts, QuietStep
<1> QED
  BY <1>7, <1>8, <1>10, <1>11

(***************************************************************************)
(* Proposals and crashes                                                   *)
(***************************************************************************)
(* A new proposal is none that a version or a thread already names.          *)
LEMMA ProposeKeeps ==
    ASSUME StoreInv, NEW p \in Proposals, Propose(p)
    PROVE  StoreInv'
<1>1. FilesInv
  BY StoreInvParts
<1>2. UNCHANGED <<snapshot, current, journal, th, bounds>> /\ status[p] = "absent"
  BY DEF Propose
<1>3. /\ status' \in [Proposals -> Statuses]
      /\ status'[p] = "pending"
      /\ \A q \in Proposals : q # p => status'[q] = status[q]
  BY <1>1 DEF Propose, FilesInv, Statuses
<1>4. PICK v \in 1..current.version : v < MaxVersion /\ base' = [base EXCEPT ![p] = v]
  BY DEF Propose
<1>5. v \in 1..(MaxVersion - 1) /\ v \in 0..MaxVersion
  BY <1>1, <1>4, StoreAssumption DEF FilesInv, PlanVersions
<1>6. /\ base' \in [Proposals -> 0..MaxVersion]
      /\ base'[p] = v
      /\ \A q \in Proposals : q # p => base'[q] = base[q]
  BY <1>1, <1>4, <1>5 DEF FilesInv
<1>7. DiskGrows
  BY <1>2, <1>3, <1>6 DEF DiskGrows, Grows
<1>8. TargetsExist'
  BY <1>1, <1>3, <1>5, <1>6 DEF FilesInv, TargetsExist
<1>9. SnapshotsAreSuccessors'
  <2>1. \A q \in Proposals : status[q] # "absent" =>
          status'[q] # "absent" /\ base'[q] = base[q]
    BY <1>2, <1>3, <1>6
  <2>2. snapshot' = snapshot
    BY <1>2
  <2> QED
    BY <1>1, <2>1, <2>2 DEF FilesInv, SnapshotsAreSuccessors
<1>10. CurrentIsSnapshot' /\ JournalOwnsSnapshot'
  BY <1>1, <1>2 DEF FilesInv, CurrentIsSnapshot, JournalOwnsSnapshot
<1>11. OneWinner'
  BY <1>1, <1>2, <1>3, <1>6 DEF FilesInv, OneWinner
<1>12. FilesInv'
  BY <1>1, <1>2, <1>3, <1>6, <1>8, <1>9, <1>10, <1>11 DEF FilesInv
<1>13. BoundsInv'
  BY <1>2, QuietBounds
<1>14. ASSUME NEW t \in Threads PROVE Sound(th'[t], snapshot', status', base')
  BY <1>2, <1>7, ThreadFacts, SoundnessLasts DEF DiskGrows
<1>15. th' \in [Threads -> ThreadStates]
  BY <1>2, StoreInvParts
<1> QED
  BY <1>12, <1>13, <1>14, <1>15 DEF StoreInv, TypeOK, FilesInv, BoundsInv, ThreadsAreSound

(* A death leaves the files as they are, and the dead rely on nothing.       *)
LEMMA CrashKeeps ==
    ASSUME StoreInv, NEW proc, Crash(proc)
    PROVE  StoreInv'
<1>1. FilesInv' /\ DiskGrows
  BY QuietDisk DEF Crash
<1>2. BoundsInv'
  BY StoreInvParts, StoreAssumption DEF Crash, BoundsInv
<1>3. th \in [Threads -> ThreadStates] /\ Idle \in ThreadStates
  BY StoreInvParts, IdleFacts
<1>4. th' = [t \in Threads |-> IF Process[t] = proc THEN Idle ELSE th[t]]
  BY DEF Crash
<1>5. th' \in [Threads -> ThreadStates]
  BY <1>3, <1>4
<1>6. ASSUME NEW t \in Threads PROVE Sound(th'[t], snapshot', status', base')
  <2>1. th'[t] = Idle \/ th'[t] = th[t]
    BY <1>4
  <2> QED
    BY <1>1, <2>1, IdleFacts, ThreadFacts, SoundnessLasts DEF DiskGrows
<1> QED
  BY <1>1, <1>2, <1>5, <1>6 DEF StoreInv, TypeOK, FilesInv, BoundsInv, ThreadsAreSound

LEMMA StutterKeeps ==
    ASSUME StoreInv, UNCHANGED vars
    PROVE  StoreInv'
<1>1. FilesInv' /\ DiskGrows
  BY QuietDisk DEF vars, disk
<1>2. BoundsInv' /\ th' \in [Threads -> ThreadStates]
  BY StoreInvParts DEF vars, BoundsInv
<1>3. ASSUME NEW t \in Threads PROVE Sound(th'[t], snapshot', status', base')
  BY <1>1, ThreadFacts, SoundnessLasts DEF vars, DiskGrows
<1> QED
  BY <1>1, <1>2, <1>3 DEF StoreInv, TypeOK, FilesInv, BoundsInv, ThreadsAreSound

(***************************************************************************)
(* The theorems                                                            *)
(***************************************************************************)
LEMMA StoreInit == Init => StoreInv
<1> SUFFICES ASSUME Init PROVE StoreInv
  OBVIOUS
<1> DEFINE first == Version(1, Original, 0)
<1>1. first \in PlanVersions /\ first.version = 1 /\ first.by = Original
  BY StoreAssumption DEF Version, PlanVersions
<1>2. 1 \in 1..MaxVersion /\ first # NoPlan /\ Original \notin Proposals
  BY <1>1, StoreAssumption DEF Proposals
<1>3. /\ snapshot = [v \in 1..MaxVersion |-> IF v = 1 THEN first ELSE NoPlan]
      /\ current = first
      /\ journal = [p \in Patches |-> NoPlan]
      /\ status = [p \in Proposals |-> "absent"]
      /\ base = [p \in Proposals |-> 0]
  BY DEF Init
<1> HIDE DEF first
<1>4. snapshot[1] = first /\ \A v \in 1..MaxVersion : v # 1 => snapshot[v] = NoPlan
  BY <1>2, <1>3
<1>5. TargetsExist /\ OneWinner
  BY <1>3 DEF TargetsExist, OneWinner
<1>6. SnapshotsAreSuccessors
  BY <1>1, <1>2, <1>4 DEF SnapshotsAreSuccessors
<1>7. CurrentIsSnapshot
  BY <1>1, <1>2, <1>3, <1>4 DEF CurrentIsSnapshot
<1>8. JournalOwnsSnapshot
  BY <1>3 DEF JournalOwnsSnapshot
<1>9. FilesInv
  BY <1>1, <1>3, <1>5, <1>6, <1>7, <1>8, StoreAssumption DEF FilesInv, Statuses
<1>10. BoundsInv
  BY StoreAssumption DEF Init, BoundsInv
<1>11. th \in [Threads -> ThreadStates] /\ ThreadsAreSound
  BY IdleFacts DEF Init, ThreadsAreSound
<1> QED
  BY <1>9, <1>10, <1>11, StoreInvParts

LEMMA StoreStep ==
    ASSUME StoreInv, [Next]_vars
    PROVE  StoreInv'
<1>1. ASSUME NEW t \in Threads, Recover(t) PROVE StoreInv'
  BY <1>1, ListJournalsKeeps, RecoveredKeeps, PickJournalKeeps DEF Recover
<1>2. ASSUME NEW t \in Threads, Complete(t) PROVE StoreInv'
  BY <1>2, ClaimSnapshotKeeps, CompareCurrentKeeps, PublishCurrentKeeps, ReadPatchKeeps,
     MarkAppliedKeeps, FindJournalKeeps, RemoveJournalKeeps DEF Complete
<1>3. ASSUME NEW t \in Threads, Decide(t) PROVE StoreInv'
  BY <1>3, LoadProposalKeeps, ApproveKeeps, RejectKeeps, RollBackKeeps, MakeNextPlanKeeps,
     RefusePatchKeeps, TakeEditedPlanKeeps, RecheckKeeps, ClaimNextKeeps, WriteJournalKeeps
     DEF Decide
<1> QED
  BY <1>1, <1>2, <1>3, OpenKeeps, EnterKeeps, ProposeKeeps, CrashKeeps, StutterKeeps
     DEF Next, Step

LEMMA StoreInvAlways == Spec => []StoreInv
<1>1. StoreInv /\ [Next]_vars => StoreInv'
  BY StoreStep
<1> QED
  BY <1>1, StoreInit, PTL DEF Spec

(* Files and threads keep their types, whatever is interrupted or overtaken. *)
THEOREM StoreTypeCorrect == Spec => []TypeOK
<1>1. StoreInv => TypeOK
  BY DEF StoreInv
<1> QED
  BY <1>1, StoreInvAlways, PTL

(* current.json is always the snapshot of its version, and no version before *)
(* it is missing (`advance_current` after `claim_snapshot`), although it may *)
(* be put back to an older version (CurrentNeverGoesBack is violated).       *)
THEOREM CurrentIsAlwaysASnapshot == Spec => []CurrentIsSnapshot
<1>1. StoreInv => CurrentIsSnapshot
  BY DEF StoreInv
<1> QED
  BY <1>1, StoreInvAlways, PTL

(* A journal is written only for a version its patch has claimed, so a       *)
(* recovery publishes what `commit_repair` was about to.                     *)
THEOREM JournalsOwnTheirSnapshots == Spec => []JournalOwnsSnapshot
<1>1. StoreInv => JournalOwnsSnapshot
  BY DEF StoreInv
<1> QED
  BY <1>1, StoreInvAlways, PTL

(* Of the proposals made for one version, one at most is ever marked as      *)
(* applied, and its plan is the next version: the exclusive creation of the  *)
(* snapshot file decides, and no lock is needed for it.                      *)
THEOREM OneProposalWins == Spec => []OneWinner
<1>1. StoreInv => OneWinner
  BY DEF StoreInv
<1> QED
  BY <1>1, StoreInvAlways, PTL

(***************************************************************************)
(* One thread at a time                                                    *)
(***************************************************************************)
(* What follows holds when the threads take turns and writes do not fail,    *)
(* however often their processes die.                                        *)
(* A journal is only there for a decision to apply ...                       *)
JournaledIsDecided ==
    \A p \in Patches : journal[p] # NoPlan => status[p] \in {"approved", "applied"}

(* ... and so is a published version.                                        *)
PublishedIsDecided ==
    \A v \in 1..current.version : snapshot[v].by \in Proposals =>
        status[snapshot[v].by] \in {"approved", "applied"}

AbsentHasNoBase == \A p \in Proposals : status[p] = "absent" => base[p] = 0

DecisionsHold ==
    /\ JournaledIsDecided
    /\ PublishedIsMarked
    /\ PublishedIsDecided
    /\ AbsentHasNoBase

Unpublished(p) == \A v \in 1..current.version : snapshot[v].by # p

NoJournals == \A p \in Patches : journal[p] = NoPlan

Recovering(r) == r.stage = "open" /\ r.pc \in Completing

(* Recovery has dealt with every journal before anything is decided.         *)
RecoversFirst(r) ==
    /\ r.pc \in {"list", "pick"} => r.stage \in {"open", "commit"}
    /\ r.pc \in {"load", "approve", "reject"} => r.stage = "open"
    /\ r.pc \in Completing => r.stage \in {"open", "own"}
    /\ r.pc \in Completing /\ r.tx.by \in Patches => journal[r.tx.by] = r.tx
    /\ Recovering(r) => r.tx.by \in Patches
    /\ (r.stage = "open" /\ r.pc = "pick") \/ Recovering(r) =>
          \A p \in Patches : journal[p] # NoPlan =>
              p \in r.todo \/ (Recovering(r) /\ p = r.tx.by)
    /\ r.stage = "commit" \/ r.pc \in Deciding => NoJournals /\ r.todo = {}

(* What the thread has decided stands until it has carried it out, and it    *)
(* falls back to pending only before it has published.                       *)
DecisionStands(r) ==
    /\ r.pc \in {"approve", "reject"} => status[r.subject] = "pending"
    /\ (r.stage \in {"commit", "own"} /\ r.pc \notin {"save", "unlink", "remove"})
           \/ r.pc = "rollback" => status[r.subject] = "approved"
    /\ r.pc = "save" => status[r.tx.by] = "approved"
    /\ r.pc \in {"unlink", "remove"} => status[r.tx.by] = "applied"
    /\ \/ r.pc \in {"approve", "rollback"}
       \/ /\ r.stage \in {"commit", "own"} /\ r.prior = "pending"
          /\ r.pc \notin {"publish", "mark", "save", "unlink", "remove"}
       => Unpublished(r.subject)

(* The plan it publishes is the successor of the current one.                *)
PublishesNext(r) ==
    /\ r.stage = "commit" /\ r.pc # "stamp" => r.subject \in Patches
    /\ r.stage = "own" /\ r.pc \in Completing => r.tx = r.next
    /\ r.stage = "own" /\ r.subject \in Patches /\ r.pc \in {"claim_next", "journal", "claim", "swap"}
          => r.next.version = current.version + 1
    /\ r.stage = "own" /\ r.subject \notin Patches /\ r.pc \in {"claim_next", "swap"} =>
          \/ current = r.next
          \/ r.expected = current.version /\ r.next.version = current.version + 1
    /\ r.stage = "own" /\ r.subject \notin Patches => r.pc \notin {"journal", "claim"}
    /\ r.pc = "swap" /\ r.tx.by \in Patches => r.expected = r.tx.version - 1
    /\ r.pc = "publish" => r.tx.version = current.version + 1

Alone(r) == RecoversFirst(r) /\ DecisionStands(r) /\ PublishesNext(r)

TurnsInv == OneAtATime /\ DecisionsHold /\ \A t \in Threads : Alone(th[t])

LEMMA ToFields ==
    ASSUME NEW t, th[t] \in ThreadStates, NEW q \in Points
    PROVE  /\ To(t, q) \in ThreadStates
           /\ To(t, q).pc = q /\ To(t, q).op = th[t].op /\ To(t, q).stage = th[t].stage
           /\ To(t, q).subject = th[t].subject /\ To(t, q).prior = th[t].prior
           /\ To(t, q).todo = th[t].todo /\ To(t, q).tx = th[t].tx
           /\ To(t, q).next = th[t].next /\ To(t, q).expected = th[t].expected
BY DEF To, ThreadStates

(* Writes do not fail.                                                       *)
LEMMA WritesSucceed ==
    ASSUME StoreInv, MaxFaults = 0
    PROVE  /\ ~(faults < MaxFaults)
           /\ \A t : ~Faulty(t)
           /\ \A t, r : MayFault(t, r) => Goes(t, r)
<1>1. faults \in 0..0
  BY DEF StoreInv, TypeOK
<1>2. ~(faults < MaxFaults)
  BY <1>1
<1> QED
  BY <1>2 DEF Faulty, MayFault

(* A step that writes nothing.                                               *)
LEMMA AloneQuiet ==
    ASSUME StoreInv, DecisionsHold, NEW t \in Threads, NEW r, Goes(t, r), Alone(r), UNCHANGED disk
    PROVE  DecisionsHold' /\ Alone(th[t])'
<1>1. th'[t] = r
  BY StoreInvParts DEF Goes
<1>2. DecisionsHold'
  BY DEF disk, DecisionsHold, JournaledIsDecided, PublishedIsMarked, PublishedIsDecided,
         AbsentHasNoBase
<1>3. RecoversFirst(th[t])' /\ PublishesNext(th[t])'
  BY <1>1 DEF disk, Alone, RecoversFirst, NoJournals, PublishesNext, Recovering
<1>4. DecisionStands(th[t])'
  BY <1>1 DEF disk, Alone, DecisionStands, Unpublished
<1> QED
  BY <1>2, <1>3, <1>4 DEF Alone

(* A state in which a thread has decided nothing relies on little.           *)
LEMMA AloneIdle ==
    Alone(Idle)
BY DEF Alone, Idle, RecoversFirst, Recovering, DecisionStands, PublishesNext, Completing, Deciding

(* A call that fails has not published, or was opening the store.            *)
LEMMA AloneFallen ==
    ASSUME StoreInv, NEW t \in Threads, Alone(th[t]),
           th[t].pc \in Deciding \/ th[t].stage = "open"
    PROVE  Alone(Fallen(t))
<1>1. CASE Fallen(t) = Idle
  BY <1>1, AloneIdle
<1>2. CASE Fallen(t) # Idle
  <2>1. /\ Fallen(t) = [Idle EXCEPT !.pc = "rollback", !.op = "apply", !.subject = th[t].subject]
        /\ th[t].stage \in {"commit", "own"} /\ th[t].prior = "pending" /\ th[t].op = "apply"
    BY <1>2 DEF Fallen
  <2>2. Fallen(t) = [pc |-> "rollback", op |-> "apply", stage |-> "none",
                     subject |-> th[t].subject, prior |-> "absent", todo |-> {},
                     tx |-> NoPlan, next |-> NoPlan, expected |-> 0]
    BY <2>1 DEF Idle
  <2>3. th[t].pc \in Deciding
    BY <2>1
  <2>4. NoJournals
    BY <2>3 DEF Alone, RecoversFirst
  <2>5. status[th[t].subject] = "approved" /\ Unpublished(th[t].subject)
    BY <2>1, <2>3 DEF Alone, DecisionStands, Deciding
  <2> QED
    BY <2>2, <2>4, <2>5
       DEF Alone, RecoversFirst, Recovering, DecisionStands, PublishesNext, Completing, Deciding
<1> QED
  BY <1>1, <1>2

LEMMA AloneFalls ==
    ASSUME StoreInv, DecisionsHold, NEW t \in Threads, Alone(th[t]),
           th[t].pc \in Deciding \/ th[t].stage = "open",
           Goes(t, Fallen(t)), UNCHANGED disk
    PROVE  DecisionsHold' /\ Alone(th[t])'
BY AloneFallen, AloneQuiet

LEMMA AloneEnds ==
    ASSUME StoreInv, DecisionsHold, NEW t \in Threads, Goes(t, Idle), UNCHANGED disk
    PROVE  DecisionsHold' /\ Alone(th[t])'
BY AloneIdle, AloneQuiet

LEMMA OpenAlone ==
    ASSUME StoreInv, DecisionsHold, NEW t \in Threads, Open(t)
    PROVE  DecisionsHold' /\ Alone(th[t])'
<1> DEFINE r == [Idle EXCEPT !.pc = "list", !.op = "open", !.stage = "open"]
<1>1. r.pc = "list" /\ r.stage = "open"
  BY DEF Idle
<1>2. Goes(t, r) /\ UNCHANGED disk
  BY DEF Open
<1> HIDE DEF r
<1>3. Alone(r)
  BY <1>1 DEF Alone, RecoversFirst, Recovering, DecisionStands, PublishesNext, Completing, Deciding
<1> QED
  BY <1>2, <1>3, AloneQuiet

LEMMA EnterAlone ==
    ASSUME StoreInv, DecisionsHold, NEW t \in Threads, NEW op, NEW p, Enter(t, op, p)
    PROVE  DecisionsHold' /\ Alone(th[t])'
<1> DEFINE r == [Idle EXCEPT !.pc = "list", !.op = op, !.stage = "open", !.subject = p]
<1>1. r.pc = "list" /\ r.stage = "open"
  BY DEF Idle
<1>2. Goes(t, r) /\ UNCHANGED disk
  BY DEF Enter
<1> HIDE DEF r
<1>3. Alone(r)
  BY <1>1 DEF Alone, RecoversFirst, Recovering, DecisionStands, PublishesNext, Completing, Deciding
<1> QED
  BY <1>2, <1>3, AloneQuiet

LEMMA ListJournalsAlone ==
    ASSUME StoreInv, DecisionsHold, NEW t \in Threads, Alone(th[t]), ListJournals(t)
    PROVE  DecisionsHold' /\ Alone(th[t])'
<1> DEFINE found == {p \in Patches : journal[p] # NoPlan}
           r == [th[t] EXCEPT !.pc = "pick", !.todo = found]
<1>1. th[t] \in ThreadStates /\ th[t].pc = "list"
  BY ThreadFacts DEF ListJournals, At
<1>2. /\ r.pc = "pick" /\ r.stage = th[t].stage /\ r.subject = th[t].subject
      /\ r.prior = th[t].prior /\ r.todo = found /\ r.tx = th[t].tx
  BY <1>1 DEF ThreadStates
<1>3. Goes(t, r) /\ UNCHANGED disk
  BY DEF ListJournals
<1>4. r.stage \in {"open", "commit"}
  BY <1>1, <1>2 DEF Alone, RecoversFirst
<1>5. r.stage = "commit" => NoJournals /\ found = {}
  BY <1>2 DEF Alone, RecoversFirst, NoJournals
<1> HIDE DEF r
<1>6. RecoversFirst(r)
  BY <1>2, <1>4, <1>5 DEF RecoversFirst, Recovering, Completing, Deciding
<1>7. DecisionStands(r)
  BY <1>1, <1>2 DEF Alone, DecisionStands
<1>8. PublishesNext(r)
  BY <1>1, <1>2, <1>4 DEF Alone, PublishesNext, Completing
<1> QED
  BY <1>3, <1>6, <1>7, <1>8, AloneQuiet DEF Alone

LEMMA PickJournalAlone ==
    ASSUME StoreInv, DecisionsHold, NEW t \in Threads, Alone(th[t]), NEW p \in Patches,
           PickJournal(t, p)
    PROVE  DecisionsHold' /\ Alone(th[t])'
<1>1. th[t] \in ThreadStates /\ th[t].pc = "pick" /\ p \in th[t].todo
  BY ThreadFacts DEF PickJournal, At
<1>2. th[t].stage = "open"
  BY <1>1 DEF Alone, RecoversFirst
<1>3. \A q \in Patches : journal[q] # NoPlan => q \in th[t].todo
  BY <1>1, <1>2 DEF Alone, RecoversFirst, Recovering, Completing
<1> DEFINE rest == [th[t] EXCEPT !.todo = @ \ {p}]
           r == [rest EXCEPT !.pc = "claim", !.tx = journal[p]]
<1>4. UNCHANGED disk /\ Goes(t, IF journal[p] = NoPlan THEN rest ELSE r)
  BY DEF PickJournal
<1>5. rest.pc = "pick" /\ rest.stage = "open" /\ rest.todo = th[t].todo \ {p}
  BY <1>1, <1>2 DEF ThreadStates
<1>6. r.pc = "claim" /\ r.stage = "open" /\ r.todo = th[t].todo \ {p} /\ r.tx = journal[p]
  BY <1>1, <1>2 DEF ThreadStates
<1> HIDE DEF rest, r
<1>7. CASE journal[p] = NoPlan
  <2>1. Alone(rest)
    BY <1>3, <1>5, <1>7
       DEF Alone, RecoversFirst, Recovering, DecisionStands, PublishesNext, Completing, Deciding
  <2> QED
    BY <1>4, <1>7, <2>1, AloneQuiet
<1>8. CASE journal[p] # NoPlan
  <2>1. r.tx.by = p
    BY <1>6, <1>8 DEF StoreInv, JournalOwnsSnapshot
  <2>2. Alone(r)
    BY <1>3, <1>6, <2>1
       DEF Alone, RecoversFirst, Recovering, DecisionStands, PublishesNext, Completing, Deciding
  <2> QED
    BY <1>4, <1>8, <2>2, AloneQuiet
<1> QED
  BY <1>7, <1>8

LEMMA RecoveredAlone ==
    ASSUME StoreInv, DecisionsHold, NEW t \in Threads, Alone(th[t]), Recovered(t)
    PROVE  DecisionsHold' /\ Alone(th[t])'
<1>1. /\ th[t] \in ThreadStates /\ th[t].pc = "pick" /\ th[t].todo = {}
      /\ UNCHANGED disk
  BY ThreadFacts DEF Recovered, At
<1>2. th[t].stage \in {"open", "commit"}
  BY <1>1 DEF Alone, RecoversFirst
<1>3. NoJournals
  BY <1>1, <1>2 DEF Alone, RecoversFirst, Recovering, NoJournals, Completing
<1>4. CASE Goes(t, Idle)
  BY <1>1, <1>4, AloneEnds
<1>5. CASE th[t].stage = "commit" /\ Goes(t, To(t, "recheck"))
  <2> DEFINE r == To(t, "recheck")
  <2>1. /\ r.pc = "recheck" /\ r.stage = "commit" /\ r.todo = {} /\ r.prior = th[t].prior
        /\ r.subject = th[t].subject
    BY <1>1, <1>5, ToFields DEF Points
  <2> HIDE DEF r
  <2>2. Alone(r)
    BY <1>1, <1>3, <1>5, <2>1
       DEF Alone, RecoversFirst, Recovering, DecisionStands, PublishesNext, Completing, Deciding
  <2> QED
    BY <1>1, <1>5, <2>2, AloneQuiet DEF r
<1>6. CASE th[t].stage # "commit" /\ Goes(t, To(t, "load"))
  <2> DEFINE r == To(t, "load")
  <2>1. r.pc = "load" /\ r.stage = "open" /\ r.todo = {}
    BY <1>1, <1>2, <1>6, ToFields DEF Points
  <2> HIDE DEF r
  <2>2. Alone(r)
    BY <1>3, <2>1
       DEF Alone, RecoversFirst, Recovering, DecisionStands, PublishesNext, Completing, Deciding
  <2> QED
    BY <1>1, <1>6, <2>2, AloneQuiet DEF r
<1> QED
  BY <1>4, <1>5, <1>6 DEF Recovered

LEMMA LoadProposalAlone ==
    ASSUME StoreInv, DecisionsHold, NEW t \in Threads, Alone(th[t]), LoadProposal(t)
    PROVE  DecisionsHold' /\ Alone(th[t])'
<1> DEFINE p == th[t].subject
           approves == [To(t, "approve") EXCEPT !.prior = status[p]]
           stamps == [To(t, "stamp") EXCEPT !.prior = status[p], !.stage = "commit"]
           rejects == To(t, "reject")
<1>1. th[t] \in ThreadStates /\ th[t].pc = "load" /\ UNCHANGED disk
  BY ThreadFacts DEF LoadProposal, At
<1>2. NoJournals /\ th[t].todo = {} /\ th[t].stage = "open"
  BY <1>1 DEF Alone, RecoversFirst, Deciding
<1>3. p \in Proposals
  BY <1>1, SubjectFacts DEF Deciding
<1>4. status[p] = "pending" => Unpublished(p)
  BY <1>3 DEF DecisionsHold, PublishedIsDecided, Unpublished
<1>5. /\ approves.pc = "approve" /\ approves.stage = "open" /\ approves.todo = {}
      /\ approves.subject = p
  BY <1>1, <1>2 DEF To, ThreadStates
<1>6. /\ stamps.pc = "stamp" /\ stamps.stage = "commit" /\ stamps.todo = {}
      /\ stamps.subject = p /\ stamps.prior = status[p]
  BY <1>1, <1>2 DEF To, ThreadStates
<1>7. rejects.pc = "reject" /\ rejects.stage = "open" /\ rejects.todo = {} /\ rejects.subject = p
  BY <1>1, <1>2 DEF To, ThreadStates
<1>8. \/ status[p] = "pending" /\ (Goes(t, approves) \/ Goes(t, rejects))
      \/ status[p] = "approved" /\ Goes(t, stamps)
      \/ Goes(t, Idle)
  BY DEF LoadProposal
<1> HIDE DEF p, approves, stamps, rejects
<1>9. CASE status[p] = "pending" /\ Goes(t, approves)
  <2>1. Alone(approves)
    BY <1>2, <1>4, <1>5, <1>9
       DEF Alone, RecoversFirst, Recovering, DecisionStands, PublishesNext, Completing, Deciding
  <2> QED
    BY <1>1, <1>9, <2>1, AloneQuiet
<1>10. CASE status[p] = "pending" /\ Goes(t, rejects)
  <2>1. Alone(rejects)
    BY <1>2, <1>7, <1>10
       DEF Alone, RecoversFirst, Recovering, DecisionStands, PublishesNext, Completing, Deciding
  <2> QED
    BY <1>1, <1>10, <2>1, AloneQuiet
<1>11. CASE status[p] = "approved" /\ Goes(t, stamps)
  <2>1. Alone(stamps)
    BY <1>2, <1>6, <1>11
       DEF Alone, RecoversFirst, Recovering, DecisionStands, PublishesNext, Completing, Deciding
  <2> QED
    BY <1>1, <1>11, <2>1, AloneQuiet
<1>12. CASE Goes(t, Idle)
  BY <1>1, <1>12, AloneEnds
<1> QED
  BY <1>8, <1>9, <1>10, <1>11, <1>12

LEMMA MakeNextPlanAlone ==
    ASSUME StoreInv, DecisionsHold, NEW t \in Threads, Alone(th[t]), MakeNextPlan(t)
    PROVE  DecisionsHold' /\ Alone(th[t])'
<1> DEFINE p == th[t].subject
           plan == Version(NextVersion(p), p, tries[p] + 1)
           r == [To(t, "list") EXCEPT !.next = plan]
<1>1. /\ th[t] \in ThreadStates /\ th[t].pc = "stamp" /\ p \in Patches /\ UNCHANGED disk
      /\ Goes(t, r) \/ Goes(t, Fallen(t))
  BY ThreadFacts DEF MakeNextPlan, At
<1>2. /\ r.pc = "list" /\ r.stage = th[t].stage /\ r.todo = th[t].todo /\ r.subject = p
      /\ r.prior = th[t].prior
  BY <1>1 DEF To, ThreadStates
<1> HIDE DEF r
<1>3. NoJournals /\ th[t].todo = {} /\ th[t].stage = "commit"
  BY <1>1, ThreadFacts DEF Alone, RecoversFirst, Deciding, Sound
<1>4. DecisionStands(r)
  BY <1>1, <1>2, <1>3 DEF Alone, DecisionStands
<1>5. Alone(r)
  BY <1>1, <1>2, <1>3, <1>4
     DEF Alone, RecoversFirst, Recovering, PublishesNext, Completing, Deciding
<1> QED
  BY <1>1, <1>5, AloneQuiet, AloneFalls DEF Deciding

LEMMA RefusePatchAlone ==
    ASSUME StoreInv, DecisionsHold, NEW t \in Threads, Alone(th[t]), RefusePatch(t)
    PROVE  DecisionsHold' /\ Alone(th[t])'
<1>1. th[t].pc \in Deciding /\ UNCHANGED disk /\ (Goes(t, Fallen(t)) \/ Goes(t, Idle))
  BY DEF RefusePatch, At, Deciding
<1> QED
  BY <1>1, AloneFalls, AloneEnds

LEMMA TakeEditedPlanAlone ==
    ASSUME StoreInv, DecisionsHold, NEW t \in Threads, Alone(th[t]), TakeEditedPlan(t)
    PROVE  DecisionsHold' /\ Alone(th[t])'
<1> DEFINE p == th[t].subject
           plan == Version(NextVersion(p), p, 0)
           r == [To(t, "claim_next") EXCEPT !.stage = "own", !.next = plan,
                                            !.expected = current.version]
<1>1. /\ th[t] \in ThreadStates /\ th[t].pc = "stamp" /\ p \in Edits /\ UNCHANGED disk
      /\ Goes(t, IF current = plan \/ plan.version = current.version + 1 THEN r ELSE Fallen(t))
  BY ThreadFacts DEF TakeEditedPlan, At
<1>2. /\ r.pc = "claim_next" /\ r.stage = "own" /\ r.todo = th[t].todo /\ r.subject = p
      /\ r.prior = th[t].prior /\ r.next = plan /\ r.expected = current.version
  BY <1>1 DEF To, ThreadStates
<1> HIDE DEF r, plan
<1>3. NoJournals /\ th[t].todo = {} /\ th[t].stage = "commit" /\ p \notin Patches
  BY <1>1, ThreadFacts, StoreAssumption DEF Alone, RecoversFirst, Deciding, Sound
<1>4. DecisionStands(r)
  BY <1>1, <1>2, <1>3 DEF Alone, DecisionStands
<1>5. CASE current = plan \/ plan.version = current.version + 1
  <2>1. Alone(r)
    BY <1>2, <1>3, <1>4, <1>5
       DEF Alone, RecoversFirst, Recovering, PublishesNext, Completing, Deciding
  <2> QED
    BY <1>1, <1>5, <2>1, AloneQuiet
<1>6. CASE ~(current = plan \/ plan.version = current.version + 1)
  BY <1>1, <1>6, AloneFalls DEF Deciding
<1> QED
  BY <1>5, <1>6

LEMMA RecheckAlone ==
    ASSUME StoreInv, DecisionsHold, NEW t \in Threads, Alone(th[t]), Recheck(t)
    PROVE  DecisionsHold' /\ Alone(th[t])'
<1> DEFINE p == th[t].subject
           r == [To(t, "claim_next") EXCEPT !.stage = "own"]
<1>1. /\ th[t] \in ThreadStates /\ th[t].pc = "recheck" /\ UNCHANGED disk
      /\ Goes(t, Idle) \/ Goes(t, Fallen(t)) \/ (MayCommit(t) /\ Goes(t, r))
  BY ThreadFacts DEF Recheck, At
<1>2. /\ r.pc = "claim_next" /\ r.stage = "own" /\ r.todo = th[t].todo /\ r.subject = p
      /\ r.prior = th[t].prior /\ r.next = th[t].next
  BY <1>1 DEF To, ThreadStates
<1> HIDE DEF r
<1>3. NoJournals /\ th[t].todo = {} /\ th[t].stage = "commit"
  BY <1>1, ThreadFacts DEF Alone, RecoversFirst, Deciding, Sound
<1>4. p \in Patches /\ r.next.version = base[p] + 1
  BY <1>1, <1>2, <1>3, ThreadFacts DEF Alone, PublishesNext, Sound
<1>5. DecisionStands(r)
  BY <1>1, <1>2, <1>3 DEF Alone, DecisionStands
<1>6. CASE MayCommit(t) /\ Goes(t, r)
  <2>1. Alone(r)
    BY <1>2, <1>3, <1>4, <1>5, <1>6
       DEF Alone, RecoversFirst, Recovering, PublishesNext, Completing, Deciding, MayCommit
  <2> QED
    BY <1>1, <1>6, <2>1, AloneQuiet
<1> QED
  BY <1>1, <1>6, AloneFalls, AloneEnds DEF Deciding

(***************************************************************************)
(* Completing, alone                                                       *)
(***************************************************************************)
(* The next point of a transaction, but for what that point relies on.       *)
LEMMA AloneContinues ==
    ASSUME StoreInv, NEW t \in Threads, Alone(th[t]), th[t].pc \in Completing,
           NEW q \in Completing \ {"claim", "swap"},
           q \in {"publish", "mark"} /\ th[t].stage = "own" => status[th[t].subject] = "approved",
           q = "publish" => th[t].tx.version = current.version + 1,
           q = "save" => status[th[t].tx.by] = "approved",
           q \in {"unlink", "remove"} => status[th[t].tx.by] = "applied"
    PROVE  Alone(To(t, q))
<1> DEFINE r == To(t, q)
<1>1. th[t] \in ThreadStates /\ q \in Points
  BY ThreadFacts DEF Completing, Points
<1>2. /\ r.pc = q /\ r.stage = th[t].stage /\ r.subject = th[t].subject
      /\ r.prior = th[t].prior /\ r.todo = th[t].todo /\ r.tx = th[t].tx /\ r.next = th[t].next
  BY <1>1, ToFields
<1> HIDE DEF r
<1>3. r.stage \in {"open", "own"}
  BY <1>2 DEF Alone, RecoversFirst
<1>4. RecoversFirst(r)
  BY <1>2, <1>3 DEF Alone, RecoversFirst, Recovering, Completing, Deciding
<1>5. DecisionStands(r)
  BY <1>2, <1>3 DEF DecisionStands, Completing
<1>6. PublishesNext(r)
  BY <1>2, <1>3 DEF Alone, PublishesNext, Completing
<1> QED
  BY <1>4, <1>5, <1>6 DEF Alone, r

LEMMA AfterAdvanceAlone ==
    ASSUME StoreInv, NEW t \in Threads, Alone(th[t]), th[t].pc \in {"swap", "publish"}
    PROVE  Alone(AfterAdvance(t))
<1>1. th[t].pc \in Completing
  BY DEF Completing
<1>2. th[t].stage \in {"open", "own"} /\ (th[t].stage = "own" => status[th[t].subject] = "approved")
  BY <1>1 DEF Alone, RecoversFirst, DecisionStands
<1>3. CASE th[t].tx.by \in Patches
  BY <1>1, <1>2, <1>3, AloneContinues DEF AfterAdvance, Completing
<1>4. CASE th[t].tx.by \notin Patches
  <2>1. th[t].stage = "own"
    BY <1>1, <1>2, <1>4 DEF Alone, RecoversFirst, Recovering
  <2>2. th[t].tx = th[t].next /\ th[t].next.by = th[t].subject
    BY <1>1, <2>1, ThreadFacts DEF Alone, PublishesNext, Sound
  <2> QED
    BY <1>1, <1>2, <1>4, <2>1, <2>2, AloneContinues DEF AfterAdvance, Completing
<1> QED
  BY <1>3, <1>4

LEMMA CompareCurrentAlone ==
    ASSUME StoreInv, DecisionsHold, NEW t \in Threads, Alone(th[t]), CompareCurrent(t)
    PROVE  DecisionsHold' /\ Alone(th[t])'
<1>1. /\ th[t].pc = "swap" /\ th[t].pc \in Completing /\ UNCHANGED disk
      /\ Goes(t, IF current = th[t].tx THEN AfterAdvance(t)
                 ELSE IF MayAdvance(t) THEN To(t, "publish") ELSE Fallen(t))
  BY DEF CompareCurrent, At, Completing
<1>2. CASE current = th[t].tx
  BY <1>1, <1>2, AfterAdvanceAlone, AloneQuiet
<1>3. CASE current # th[t].tx /\ MayAdvance(t)
  <2>1. th[t].stage = "own" => status[th[t].subject] = "approved"
    BY <1>1 DEF Alone, DecisionStands
  <2>2. Alone(To(t, "publish"))
    BY <1>1, <1>3, <2>1, AloneContinues DEF MayAdvance, Completing
  <2> QED
    BY <1>1, <1>3, <2>2, AloneQuiet
<1>4. CASE current # th[t].tx /\ ~MayAdvance(t)
  <2>1. th[t].stage = "open"
    <3> SUFFICES ASSUME th[t].stage = "own" PROVE FALSE
      BY <1>1 DEF Alone, RecoversFirst
    <3>1. th[t].tx = th[t].next /\ th[t].next.by = th[t].subject
      BY <1>1, ThreadFacts DEF Alone, PublishesNext, Sound
    <3>2. current.version \in Nat
      BY StoreAssumption DEF StoreInv, TypeOK, PlanVersions
    <3>3. th[t].expected = current.version /\ th[t].tx.version = current.version + 1
      BY <1>1, <1>4, <3>1, <3>2 DEF Alone, PublishesNext
    <3> QED
      BY <1>4, <3>3 DEF MayAdvance
  <2> QED
    BY <1>1, <1>4, <2>1, AloneFalls
<1> QED
  BY <1>2, <1>3, <1>4

LEMMA ReadPatchAlone ==
    ASSUME StoreInv, DecisionsHold, NEW t \in Threads, Alone(th[t]), ReadPatch(t)
    PROVE  DecisionsHold' /\ Alone(th[t])'
<1>1. th[t].pc = "mark" /\ th[t].pc \in Completing /\ UNCHANGED disk
  BY DEF ReadPatch, At, Completing
<1>2. CASE status[th[t].tx.by] = "approved" /\ Goes(t, To(t, "save"))
  BY <1>1, <1>2, AloneContinues, AloneQuiet DEF Completing
<1>3. CASE status[th[t].tx.by] = "applied" /\ Goes(t, To(t, "unlink"))
  BY <1>1, <1>3, AloneContinues, AloneQuiet DEF Completing
<1>4. CASE status[th[t].tx.by] \notin {"approved", "applied"} /\ Goes(t, Fallen(t))
  <2>1. th[t].stage = "open"
    <3> SUFFICES ASSUME th[t].stage = "own" PROVE FALSE
      BY <1>1 DEF Alone, RecoversFirst
    <3>1. th[t].tx = th[t].next /\ th[t].next.by = th[t].subject
      BY <1>1, ThreadFacts DEF Alone, PublishesNext, Sound
    <3> QED
      BY <1>1, <1>4, <3>1 DEF Alone, DecisionStands
  <2> QED
    BY <1>1, <1>4, <2>1, AloneFalls
<1> QED
  BY <1>2, <1>3, <1>4 DEF ReadPatch

(* The journal of what it completes is still there: nobody else takes it.    *)
LEMMA JournalFacts ==
    ASSUME StoreInv, NEW t \in Threads, Alone(th[t]), th[t].pc \in {"unlink", "remove"}
    PROVE  /\ th[t].tx.by \in Patches
           /\ journal[th[t].tx.by] = th[t].tx
           /\ journal[th[t].tx.by] # NoPlan
<1>1. th[t].pc \in Completing /\ th[t].tx.by \in Patches
  BY ThreadFacts DEF Completing, Sound
<1> QED
  BY <1>1, TxFacts DEF Alone, RecoversFirst

LEMMA FindJournalAlone ==
    ASSUME StoreInv, DecisionsHold, NEW t \in Threads, Alone(th[t]), FindJournal(t)
    PROVE  DecisionsHold' /\ Alone(th[t])'
<1>1. th[t].pc = "unlink" /\ th[t].pc \in Completing /\ UNCHANGED disk
  BY DEF FindJournal, At, Completing
<1>2. Goes(t, To(t, "remove"))
  BY <1>1, JournalFacts DEF FindJournal
<1>3. status[th[t].tx.by] = "applied"
  BY <1>1 DEF Alone, DecisionStands
<1> QED
  BY <1>1, <1>2, <1>3, AloneContinues, AloneQuiet DEF Completing

(***************************************************************************)
(* Writing, alone                                                          *)
(***************************************************************************)
(* What a thread relies on, and what files and decisions agree on, when a    *)
(* version beyond the current one is claimed.                                *)
LEMMA AloneClaims ==
    ASSUME StoreInv, DecisionsHold, NEW t \in Threads, NEW r, Goes(t, r), Alone(r),
           NEW plan \in PlanVersions, snapshot[plan.version] = NoPlan,
           snapshot' = [snapshot EXCEPT ![plan.version] = plan],
           UNCHANGED <<current, journal, status, base>>
    PROVE  DecisionsHold' /\ Alone(th[t])'
<1>1. th'[t] = r
  BY StoreInvParts DEF Goes
<1>2. \A v \in 1..current.version : snapshot'[v] = snapshot[v]
  BY StoreAssumption DEF StoreInv, TypeOK, CurrentIsSnapshot, PlanVersions
<1>3. DecisionsHold'
  <2>1. PublishedIsMarked'
    <3> SUFFICES ASSUME NEW v \in 2..current.version, snapshot[v].by \in Patches
                 PROVE  \/ status[snapshot[v].by] = "applied"
                        \/ journal[snapshot[v].by] = snapshot[v]
      <4>1. current.version \in Nat
        BY StoreAssumption DEF StoreInv, TypeOK, PlanVersions
      <4> QED
        BY <1>2, <4>1 DEF PublishedIsMarked
    <3> QED
      BY DEF DecisionsHold, PublishedIsMarked
  <2>2. PublishedIsDecided'
    BY <1>2 DEF DecisionsHold, PublishedIsDecided
  <2> QED
    BY <2>1, <2>2 DEF DecisionsHold, JournaledIsDecided, AbsentHasNoBase
<1>4. RecoversFirst(th[t])' /\ PublishesNext(th[t])'
  BY <1>1 DEF Alone, RecoversFirst, NoJournals, PublishesNext, Recovering
<1>5. DecisionStands(th[t])'
  BY <1>1, <1>2 DEF Alone, DecisionStands, Unpublished
<1> QED
  BY <1>3, <1>4, <1>5 DEF Alone

LEMMA ClaimSnapshotAlone ==
    ASSUME StoreInv, DecisionsHold, MaxFaults = 0, NEW t \in Threads, Alone(th[t]),
           ClaimSnapshot(t)
    PROVE  DecisionsHold' /\ Alone(th[t])'
<1> DEFINE plan == th[t].tx
           s == To(t, "swap")
           r == [s EXCEPT !.expected = plan.version - 1]
<1>1. th[t].pc = "claim" /\ th[t].pc \in Completing
  BY DEF ClaimSnapshot, At, Completing
<1>2. snapshot[plan.version] = plan /\ plan # NoPlan
  BY <1>1, TxFacts
<1>3. Goes(t, r) /\ UNCHANGED disk
  BY <1>2, WritesSucceed DEF ClaimSnapshot, Claimed, disk
<1>4. th[t] \in ThreadStates
  BY ThreadFacts
<1>5. /\ r.pc = "swap" /\ r.stage = th[t].stage /\ r.subject = th[t].subject /\ r.prior = th[t].prior
      /\ r.todo = th[t].todo /\ r.tx = plan /\ r.next = th[t].next /\ r.expected = plan.version - 1
  BY <1>4 DEF To, ThreadStates
<1> HIDE DEF r
<1>6. r.stage \in {"open", "own"}
  BY <1>1, <1>5 DEF Alone, RecoversFirst
<1>7. RecoversFirst(r)
  BY <1>1, <1>5, <1>6 DEF Alone, RecoversFirst, Recovering, Completing, Deciding
<1>8. DecisionStands(r)
  BY <1>1, <1>5 DEF Alone, DecisionStands
<1>9. PublishesNext(r)
  BY <1>1, <1>5, <1>6 DEF Alone, PublishesNext, Completing
<1> QED
  BY <1>3, <1>7, <1>8, <1>9, AloneQuiet DEF Alone

LEMMA ClaimNextAlone ==
    ASSUME StoreInv, DecisionsHold, MaxFaults = 0, NEW t \in Threads, Alone(th[t]), ClaimNext(t)
    PROVE  DecisionsHold' /\ Alone(th[t])'
<1> DEFINE plan == th[t].next
           j == To(t, "journal")
           s == [To(t, "swap") EXCEPT !.tx = plan]
           r == IF th[t].subject \in Patches THEN j ELSE s
<1>1. th[t].pc = "claim_next" /\ th[t].pc \in Deciding /\ th[t] \in ThreadStates
  BY ThreadFacts DEF ClaimNext, At, Deciding
<1>2. th[t].stage = "own" /\ plan \in PlanVersions /\ plan.by = th[t].subject
  BY <1>1, ThreadFacts DEF Sound
<1>3. Claimed(t, plan, r)
  BY DEF ClaimNext
<1>4. NoJournals /\ th[t].todo = {} /\ status[th[t].subject] = "approved"
  BY <1>1, <1>2 DEF Alone, RecoversFirst, DecisionStands
<1>5. th[t].prior = "pending" => Unpublished(th[t].subject)
  BY <1>1, <1>2 DEF Alone, DecisionStands
<1>6. ASSUME th[t].subject \in Patches PROVE Alone(j)
  <2>1. /\ j.pc = "journal" /\ j.stage = "own" /\ j.todo = {} /\ j.subject = th[t].subject
        /\ j.prior = th[t].prior /\ j.next = plan
    BY <1>1, <1>2, <1>4 DEF To, ThreadStates
  <2>2. plan.version = current.version + 1
    BY <1>1, <1>2, <1>6 DEF Alone, PublishesNext
  <2> HIDE DEF j
  <2> QED
    BY <1>4, <1>5, <1>6, <2>1, <2>2
       DEF Alone, RecoversFirst, Recovering, DecisionStands, PublishesNext, Completing, Deciding
<1>7. ASSUME th[t].subject \notin Patches PROVE Alone(s)
  <2>1. /\ s.pc = "swap" /\ s.stage = "own" /\ s.todo = {} /\ s.subject = th[t].subject
        /\ s.prior = th[t].prior /\ s.next = plan /\ s.tx = plan /\ s.expected = th[t].expected
    BY <1>1, <1>2, <1>4 DEF To, ThreadStates
  <2>2. \/ current = plan
        \/ th[t].expected = current.version /\ plan.version = current.version + 1
    BY <1>1, <1>2, <1>7 DEF Alone, PublishesNext
  <2> HIDE DEF s
  <2> QED
    BY <1>2, <1>4, <1>5, <1>7, <2>1, <2>2
       DEF Alone, RecoversFirst, Recovering, DecisionStands, PublishesNext, Completing, Deciding
<1>8. Alone(r)
  BY <1>6, <1>7
<1> HIDE DEF r
<1>9. UNCHANGED <<current, journal, status, base>>
  BY <1>3 DEF Claimed
<1>10. CASE /\ snapshot[plan.version] = NoPlan
            /\ snapshot' = [snapshot EXCEPT ![plan.version] = plan]
            /\ MayFault(t, r)
  BY <1>2, <1>8, <1>9, <1>10, WritesSucceed, AloneClaims
<1>11. CASE /\ snapshot[plan.version] # NoPlan
            /\ Goes(t, IF snapshot[plan.version] = plan THEN r ELSE Fallen(t))
            /\ UNCHANGED <<snapshot, faults>>
  <2>1. UNCHANGED disk
    BY <1>9, <1>11 DEF disk
  <2> QED
    BY <1>1, <1>8, <1>11, <2>1, AloneQuiet, AloneFalls
<1> QED
  BY <1>3, <1>10, <1>11, WritesSucceed DEF Claimed

LEMMA WriteJournalAlone ==
    ASSUME StoreInv, DecisionsHold, MaxFaults = 0, NEW t \in Threads, Alone(th[t]), WriteJournal(t)
    PROVE  DecisionsHold' /\ Alone(th[t])'
<1> DEFINE p == th[t].subject
           plan == th[t].next
           r == [To(t, "claim") EXCEPT !.tx = plan]
<1>1. th[t].pc = "journal" /\ th[t].pc \in Deciding /\ th[t] \in ThreadStates
  BY ThreadFacts DEF WriteJournal, At, Deciding
<1>2. th[t].stage = "own" /\ plan \in PlanVersions /\ plan.by = p /\ p \in Patches
  BY <1>1, ThreadFacts DEF Sound
<1>3. NoJournals /\ th[t].todo = {} /\ status[p] = "approved"
  BY <1>1, <1>2 DEF Alone, RecoversFirst, DecisionStands
<1>4. /\ journal' = [journal EXCEPT ![p] = plan] /\ Goes(t, r)
      /\ UNCHANGED <<snapshot, current, status, base>>
  BY <1>2, <1>3, WritesSucceed DEF WriteJournal, NoJournals
<1>5. journal'[p] = plan /\ \A q \in Patches : q # p => journal'[q] = NoPlan
  BY <1>2, <1>3, <1>4 DEF StoreInv, TypeOK, NoJournals
<1>6. /\ r.pc = "claim" /\ r.stage = "own" /\ r.subject = p /\ r.prior = th[t].prior
      /\ r.tx = plan /\ r.next = plan
  BY <1>1, <1>2 DEF To, ThreadStates
<1>7. th'[t] = r
  BY <1>4, StoreInvParts DEF Goes
<1> HIDE DEF r
<1>8. DecisionsHold'
  <2>1. JournaledIsDecided'
    BY <1>3, <1>4, <1>5 DEF JournaledIsDecided
  <2>2. PublishedIsMarked'
    <3> SUFFICES ASSUME NEW v \in 2..current.version, snapshot[v].by \in Patches
                 PROVE  status[snapshot[v].by] = "applied"
      BY <1>4 DEF PublishedIsMarked
    <3>1. snapshot[v] # NoPlan
      BY StoreAssumption DEF StoreInv, CurrentIsSnapshot, TypeOK, PlanVersions
    <3> QED
      BY <1>3, <3>1 DEF DecisionsHold, PublishedIsMarked, NoJournals
  <2> QED
    BY <1>4, <2>1, <2>2 DEF DecisionsHold, PublishedIsDecided, AbsentHasNoBase
<1>9. RecoversFirst(th[t])'
  BY <1>2, <1>5, <1>6, <1>7 DEF RecoversFirst, Recovering, Completing, Deciding
<1>10. DecisionStands(th[t])'
  BY <1>1, <1>2, <1>3, <1>4, <1>6, <1>7 DEF Alone, DecisionStands, Unpublished
<1>11. PublishesNext(th[t])'
  BY <1>1, <1>2, <1>4, <1>6, <1>7 DEF Alone, PublishesNext, Completing
<1> QED
  BY <1>8, <1>9, <1>10, <1>11 DEF Alone

LEMMA PublishCurrentAlone ==
    ASSUME StoreInv, DecisionsHold, MaxFaults = 0, NEW t \in Threads, Alone(th[t]),
           PublishCurrent(t)
    PROVE  /\ DecisionsHold' /\ Alone(th[t])'
           /\ current' = th[t].tx /\ th[t].tx.version = current.version + 1
           /\ status[th[t].tx.by] \in {"approved", "applied"}
<1> DEFINE plan == th[t].tx
           r == AfterAdvance(t)
<1>1. th[t].pc = "publish" /\ th[t].pc \in Completing /\ th[t] \in ThreadStates
  BY ThreadFacts DEF PublishCurrent, At, Completing
<1>2. /\ current' = plan /\ Goes(t, r) /\ UNCHANGED <<snapshot, journal, status, base>>
  BY WritesSucceed DEF PublishCurrent
<1>3. plan.version = current.version + 1 /\ current.version \in 1..MaxVersion
  BY <1>1 DEF Alone, PublishesNext, StoreInv, TypeOK, PlanVersions
<1>4. snapshot[plan.version] = plan /\ plan # NoPlan /\ plan.by \in Proposals
  BY <1>1, TxFacts
<1>5. plan.by \in Patches => journal[plan.by] = plan
  BY <1>1 DEF Alone, RecoversFirst
<1>6. th[t].stage = "own" => plan = th[t].next /\ plan.by = th[t].subject /\ status[plan.by] = "approved"
  BY <1>1, ThreadFacts DEF Alone, PublishesNext, DecisionStands, Sound
<1>7. status[plan.by] \in {"approved", "applied"}
  <2>1. CASE th[t].stage = "own"
    BY <1>6, <2>1
  <2>2. CASE th[t].stage = "open"
    BY <1>1, <1>4, <1>5, <2>2 DEF DecisionsHold, JournaledIsDecided, Alone, RecoversFirst, Recovering
  <2> QED
    BY <1>1, <2>1, <2>2 DEF Alone, RecoversFirst
<1>8. DecisionsHold'
  <2>1. PublishedIsMarked'
    <3> SUFFICES ASSUME NEW v \in 2..plan.version, snapshot[v].by \in Patches
                 PROVE  \/ status[snapshot[v].by] = "applied"
                        \/ journal[snapshot[v].by] = snapshot[v]
      BY <1>2 DEF PublishedIsMarked
    <3>1. CASE v = plan.version
      BY <1>4, <1>5, <3>1
    <3>2. CASE v # plan.version
      <4>1. v \in 2..current.version
        BY <1>3, <3>2
      <4> QED
        BY <4>1 DEF DecisionsHold, PublishedIsMarked
    <3> QED
      BY <3>1, <3>2
  <2>2. PublishedIsDecided'
    <3> SUFFICES ASSUME NEW v \in 1..plan.version, snapshot[v].by \in Proposals
                 PROVE  status[snapshot[v].by] \in {"approved", "applied"}
      BY <1>2 DEF PublishedIsDecided
    <3>1. CASE v = plan.version
      BY <1>4, <1>7, <3>1
    <3>2. CASE v # plan.version
      <4>1. v \in 1..current.version
        BY <1>3, <3>2
      <4> QED
        BY <4>1 DEF DecisionsHold, PublishedIsDecided
    <3> QED
      BY <3>1, <3>2
  <2> QED
    BY <1>2, <2>1, <2>2 DEF DecisionsHold, JournaledIsDecided, AbsentHasNoBase
<1>9. Alone(r)
  BY <1>1, AfterAdvanceAlone
<1>10. /\ r.pc \in {"mark", "save"} /\ r.stage = th[t].stage /\ r.subject = th[t].subject
       /\ r.tx = plan
  BY <1>1, ToFields DEF AfterAdvance, Points
<1>11. th'[t] = r
  BY <1>2, StoreInvParts DEF Goes
<1> HIDE DEF r
<1>12. r.stage \in {"open", "own"}
  BY <1>1, <1>10 DEF Alone, RecoversFirst
<1>13. RecoversFirst(th[t])'
  BY <1>2, <1>9, <1>11 DEF Alone, RecoversFirst, NoJournals, Recovering
<1>14. DecisionStands(th[t])'
  BY <1>2, <1>9, <1>10, <1>11 DEF Alone, DecisionStands
<1>15. PublishesNext(th[t])'
  BY <1>2, <1>9, <1>10, <1>11, <1>12 DEF Alone, PublishesNext, Completing
<1> QED
  BY <1>2, <1>3, <1>7, <1>8, <1>13, <1>14, <1>15 DEF Alone

(* A decision about a proposal that keeps what files say about it.           *)
LEMMA DecisionsChange ==
    ASSUME StoreInv, DecisionsHold, NEW p \in Proposals, NEW s \in Statuses,
           status' = [status EXCEPT ![p] = s], status[p] # "absent", s # "absent",
           UNCHANGED <<snapshot, current, journal, base>>,
           s = "applied" \/ (NoJournals /\ Unpublished(p))
    PROVE  /\ DecisionsHold'
           /\ status'[p] = s
           /\ \A q \in Proposals : q # p => status'[q] = status[q]
<1>1. status'[p] = s /\ \A q \in Proposals : q # p => status'[q] = status[q]
  BY DEF StoreInv, TypeOK
<1>2. JournaledIsDecided'
  BY <1>1 DEF DecisionsHold, JournaledIsDecided, NoJournals, Proposals
<1>3. PublishedIsMarked'
  <2> SUFFICES ASSUME NEW v \in 2..current.version, snapshot[v].by \in Patches
               PROVE  \/ status'[snapshot[v].by] = "applied"
                      \/ journal[snapshot[v].by] = snapshot[v]
    BY DEF PublishedIsMarked
  <2>1. v \in 1..current.version /\ snapshot[v].by \in Proposals
    BY StoreAssumption DEF StoreInv, TypeOK, PlanVersions, Proposals
  <2>2. CASE snapshot[v].by = p
    BY <1>1, <2>1, <2>2 DEF Unpublished
  <2>3. CASE snapshot[v].by # p
    BY <1>1, <2>1, <2>3 DEF DecisionsHold, PublishedIsMarked
  <2> QED
    BY <2>2, <2>3
<1>4. PublishedIsDecided'
  BY <1>1 DEF DecisionsHold, PublishedIsDecided, Unpublished
<1>5. AbsentHasNoBase'
  BY <1>1 DEF DecisionsHold, AbsentHasNoBase
<1> QED
  BY <1>1, <1>2, <1>3, <1>4, <1>5 DEF DecisionsHold

LEMMA MarkAppliedAlone ==
    ASSUME StoreInv, DecisionsHold, MaxFaults = 0, NEW t \in Threads, Alone(th[t]), MarkApplied(t)
    PROVE  DecisionsHold' /\ Alone(th[t])'
<1> DEFINE p == th[t].tx.by
           r == To(t, "unlink")
<1>1. th[t].pc = "save" /\ th[t].pc \in Completing /\ th[t] \in ThreadStates
  BY ThreadFacts DEF MarkApplied, At, Completing
<1>2. p \in Proposals
  BY <1>1, TxFacts
<1>3. /\ status' = [status EXCEPT ![p] = "applied"]
      /\ UNCHANGED <<snapshot, current, journal, base>>
      /\ Goes(t, IF p \in Patches THEN r ELSE Idle)
  BY WritesSucceed DEF MarkApplied
<1>4. DecisionsHold' /\ status'[p] = "applied"
  BY <1>1, <1>2, <1>3, TxFacts, DecisionsChange DEF Statuses
<1>5. th'[t] = IF p \in Patches THEN r ELSE Idle
  BY <1>3, StoreInvParts DEF Goes
<1>6. CASE p \in Patches
  <2>1. /\ r.pc = "unlink" /\ r.stage = th[t].stage /\ r.subject = th[t].subject
        /\ r.todo = th[t].todo /\ r.tx = th[t].tx /\ r.next = th[t].next
    BY <1>1, ToFields DEF Points
  <2> HIDE DEF r
  <2>2. r.stage \in {"open", "own"} /\ th'[t] = r
    BY <1>1, <1>5, <1>6, <2>1 DEF Alone, RecoversFirst
  <2>3. RecoversFirst(th[t])'
    BY <1>1, <1>3, <2>1, <2>2 DEF Alone, RecoversFirst, Recovering, Completing, Deciding
  <2>4. DecisionStands(th[t])'
    BY <1>4, <2>1, <2>2 DEF DecisionStands
  <2>5. PublishesNext(th[t])'
    BY <1>1, <1>3, <2>1, <2>2 DEF Alone, PublishesNext, Completing
  <2> QED
    BY <1>4, <2>3, <2>4, <2>5 DEF Alone
<1>7. CASE p \notin Patches
  BY <1>4, <1>5, <1>7
     DEF Alone, Idle, RecoversFirst, Recovering, DecisionStands, PublishesNext, Completing, Deciding
<1> QED
  BY <1>6, <1>7

LEMMA RemoveJournalAlone ==
    ASSUME StoreInv, DecisionsHold, MaxFaults = 0, NEW t \in Threads, Alone(th[t]),
           RemoveJournal(t)
    PROVE  DecisionsHold' /\ Alone(th[t])'
<1> DEFINE p == th[t].tx.by
           s == To(t, "pick")
           r == [s EXCEPT !.tx = NoPlan]
<1>1. th[t].pc = "remove" /\ th[t].pc \in Completing /\ th[t] \in ThreadStates
  BY ThreadFacts DEF RemoveJournal, At, Completing
<1>2. p \in Patches /\ journal[p] # NoPlan /\ status[p] = "applied"
  BY <1>1, JournalFacts DEF Alone, DecisionStands
<1>3. /\ journal' = [journal EXCEPT ![p] = NoPlan]
      /\ UNCHANGED <<snapshot, current, status, base>>
      /\ Goes(t, IF th[t].stage = "own" THEN Idle ELSE r)
  BY <1>2, WritesSucceed DEF RemoveJournal, Finished
<1>4. journal'[p] = NoPlan /\ \A q \in Patches : q # p => journal'[q] = journal[q]
  BY <1>2, <1>3 DEF StoreInv, TypeOK
<1>5. DecisionsHold'
  <2>1. JournaledIsDecided'
    BY <1>3, <1>4 DEF DecisionsHold, JournaledIsDecided
  <2>2. PublishedIsMarked'
    BY <1>2, <1>3, <1>4 DEF DecisionsHold, PublishedIsMarked
  <2> QED
    BY <1>3, <2>1, <2>2 DEF DecisionsHold, PublishedIsDecided, AbsentHasNoBase
<1>6. th'[t] = IF th[t].stage = "own" THEN Idle ELSE r
  BY <1>3, StoreInvParts DEF Goes
<1>7. CASE th[t].stage = "own"
  BY <1>5, <1>6, <1>7
     DEF Alone, Idle, RecoversFirst, Recovering, DecisionStands, PublishesNext, Completing, Deciding
<1>8. CASE th[t].stage = "open"
  <2>1. r.pc = "pick" /\ r.stage = "open" /\ r.todo = th[t].todo
    BY <1>1, <1>8 DEF To, ThreadStates
  <2> HIDE DEF r
  <2>2. \A q \in Patches : q # p /\ journal[q] # NoPlan => q \in th[t].todo
    BY <1>1, <1>8 DEF Alone, RecoversFirst, Recovering
  <2>3. th'[t] = r
    BY <1>6, <1>8
  <2>4. RecoversFirst(th[t])'
    BY <1>4, <2>1, <2>2, <2>3 DEF RecoversFirst, Recovering, Completing, Deciding
  <2>5. DecisionStands(th[t])' /\ PublishesNext(th[t])'
    BY <2>1, <2>3 DEF DecisionStands, PublishesNext
  <2> QED
    BY <1>5, <2>4, <2>5 DEF Alone
<1> QED
  BY <1>1, <1>7, <1>8 DEF Alone, RecoversFirst

LEMMA ApproveAlone ==
    ASSUME StoreInv, DecisionsHold, MaxFaults = 0, NEW t \in Threads, Alone(th[t]), Approve(t)
    PROVE  /\ DecisionsHold' /\ Alone(th[t])'
           /\ status' = [status EXCEPT ![th[t].subject] = "approved"]
           /\ status[th[t].subject] = "pending"
<1> DEFINE p == th[t].subject
           s == To(t, "stamp")
           r == [s EXCEPT !.stage = "commit"]
<1>1. th[t].pc = "approve" /\ th[t].pc \in Deciding /\ th[t] \in ThreadStates
  BY ThreadFacts DEF Approve, At, Deciding
<1>2. p \in Proposals /\ status[p] = "pending" /\ Unpublished(p)
  BY <1>1, SubjectFacts DEF Alone, DecisionStands
<1>3. NoJournals /\ th[t].todo = {}
  BY <1>1 DEF Alone, RecoversFirst
<1>4. /\ status' = [status EXCEPT ![p] = "approved"] /\ Goes(t, r)
      /\ UNCHANGED <<snapshot, current, journal, base>>
  BY WritesSucceed DEF Approve
<1>5. DecisionsHold' /\ status'[p] = "approved"
  BY <1>2, <1>3, <1>4, DecisionsChange DEF Statuses
<1>6. r.pc = "stamp" /\ r.stage = "commit" /\ r.todo = {} /\ r.subject = p
  BY <1>1, <1>3 DEF To, ThreadStates
<1>7. th'[t] = r
  BY <1>4, StoreInvParts DEF Goes
<1> HIDE DEF r
<1>8. RecoversFirst(th[t])'
  BY <1>3, <1>4, <1>6, <1>7 DEF RecoversFirst, Recovering, NoJournals, Completing, Deciding
<1>9. DecisionStands(th[t])'
  BY <1>2, <1>4, <1>5, <1>6, <1>7 DEF DecisionStands, Unpublished
<1>10. PublishesNext(th[t])'
  BY <1>6, <1>7 DEF PublishesNext
<1> QED
  BY <1>2, <1>4, <1>5, <1>8, <1>9, <1>10 DEF Alone

LEMMA RejectAlone ==
    ASSUME StoreInv, DecisionsHold, MaxFaults = 0, NEW t \in Threads, Alone(th[t]), Reject(t)
    PROVE  /\ DecisionsHold' /\ Alone(th[t])'
           /\ status' = [status EXCEPT ![th[t].subject] = "rejected"]
           /\ Unpublished(th[t].subject)
<1> DEFINE p == th[t].subject
<1>1. th[t].pc = "reject" /\ th[t].pc \in Deciding
  BY DEF Reject, At, Deciding
<1>2. p \in Proposals /\ status[p] = "pending" /\ NoJournals
  BY <1>1, SubjectFacts DEF Alone, DecisionStands, RecoversFirst
<1>3. Unpublished(p)
  BY <1>2 DEF DecisionsHold, PublishedIsDecided, Unpublished
<1>4. /\ status' = [status EXCEPT ![p] = "rejected"] /\ Goes(t, Idle)
      /\ UNCHANGED <<snapshot, current, journal, base>>
  BY WritesSucceed DEF Reject
<1>5. DecisionsHold'
  BY <1>2, <1>3, <1>4, DecisionsChange DEF Statuses
<1>6. th'[t] = Idle
  BY <1>4, StoreInvParts DEF Goes
<1>7. Alone(th[t])'
  BY <1>6 DEF Alone, Idle, RecoversFirst, Recovering, DecisionStands, PublishesNext, Completing,
              Deciding
<1> QED
  BY <1>3, <1>4, <1>5, <1>7

LEMMA RollBackAlone ==
    ASSUME StoreInv, DecisionsHold, MaxFaults = 0, NEW t \in Threads, Alone(th[t]), RollBack(t)
    PROVE  /\ DecisionsHold' /\ Alone(th[t])'
           /\ status' = [status EXCEPT ![th[t].subject] = "pending"]
           /\ status[th[t].subject] = "approved"
<1> DEFINE p == th[t].subject
<1>1. th[t].pc = "rollback" /\ th[t].pc \in Deciding
  BY DEF RollBack, At, Deciding
<1>2. p \in Proposals /\ status[p] = "approved" /\ NoJournals /\ Unpublished(p)
  BY <1>1, SubjectFacts DEF Alone, DecisionStands, RecoversFirst
<1>3. /\ status' = [status EXCEPT ![p] = "pending"] /\ Goes(t, Idle)
      /\ UNCHANGED <<snapshot, current, journal, base>>
  BY WritesSucceed DEF RollBack
<1>4. DecisionsHold'
  BY <1>2, <1>3, DecisionsChange DEF Statuses
<1>5. th'[t] = Idle
  BY <1>3, StoreInvParts DEF Goes
<1>6. Alone(th[t])'
  BY <1>5 DEF Alone, Idle, RecoversFirst, Recovering, DecisionStands, PublishesNext, Completing,
              Deciding
<1> QED
  BY <1>2, <1>3, <1>4, <1>6

(* A proposal that comes into being is none a journal, a version or a thread *)
(* is about.                                                                 *)
LEMMA ProposeAlone ==
    ASSUME StoreInv, TurnsInv, NEW p \in Proposals, Propose(p)
    PROVE  OneAtATime' => TurnsInv'
<1>1. /\ status[p] = "absent" /\ status' = [status EXCEPT ![p] = "pending"]
      /\ UNCHANGED <<snapshot, current, journal, th>>
      /\ \E v : base' = [base EXCEPT ![p] = v]
  BY DEF Propose
<1>2. status'[p] = "pending" /\ \A q \in Proposals : q # p => status'[q] = status[q]
  BY <1>1 DEF StoreInv, TypeOK
<1>3. \A q \in Proposals : q # p => base'[q] = base[q]
  BY <1>1 DEF StoreInv, TypeOK
<1>4. DecisionsHold'
  <2>1. JournaledIsDecided'
    BY <1>1, <1>2 DEF TurnsInv, DecisionsHold, JournaledIsDecided, Proposals
  <2>2. PublishedIsMarked'
    BY <1>1, <1>2 DEF TurnsInv, DecisionsHold, PublishedIsMarked, Proposals
  <2>3. PublishedIsDecided'
    BY <1>1, <1>2 DEF TurnsInv, DecisionsHold, PublishedIsDecided
  <2>4. AbsentHasNoBase'
    BY <1>2, <1>3 DEF TurnsInv, DecisionsHold, AbsentHasNoBase
  <2> QED
    BY <2>1, <2>2, <2>3, <2>4 DEF DecisionsHold
<1>5. ASSUME NEW t \in Threads PROVE Alone(th[t])'
  <2>1. Alone(th[t]) /\ th'[t] = th[t] /\ Sound(th[t], snapshot, status, base)
    BY <1>1, ThreadFacts DEF TurnsInv
  <2>2. RecoversFirst(th[t])' /\ PublishesNext(th[t])'
    BY <1>1, <2>1 DEF Alone, RecoversFirst, Recovering, NoJournals, PublishesNext
  <2>3. th[t].pc \in {"save", "unlink", "remove"} => status'[th[t].tx.by] = status[th[t].tx.by]
    BY <1>1, <1>2, TxFacts DEF Completing
  <2>4. (th[t].stage \in {"commit", "own"}) \/ th[t].pc \in {"approve", "reject", "rollback"} =>
            status'[th[t].subject] = status[th[t].subject]
    BY <1>1, <1>2, <2>1 DEF Sound
  <2>5. DecisionStands(th[t])'
    BY <1>1, <2>1, <2>3, <2>4 DEF Alone, DecisionStands, Unpublished
  <2> QED
    BY <2>2, <2>5 DEF Alone
<1> QED
  BY <1>4, <1>5 DEF TurnsInv

(***************************************************************************)
(* The induction, for threads that take turns                              *)
(***************************************************************************)
LEMMA TurnsInit ==
    Init => TurnsInv
<1> SUFFICES ASSUME Init PROVE TurnsInv
  OBVIOUS
<1>1. /\ current.version = 1 /\ snapshot[1].by = Original
      /\ journal = [p \in Patches |-> NoPlan] /\ base = [p \in Proposals |-> 0]
      /\ th = [t \in Threads |-> Idle]
  BY StoreAssumption DEF Init, Version
<1>2. Original \notin Proposals
  BY StoreAssumption DEF Proposals
<1>3. DecisionsHold
  BY <1>1, <1>2
     DEF DecisionsHold, JournaledIsDecided, PublishedIsMarked, PublishedIsDecided, AbsentHasNoBase
<1>4. OneAtATime
  BY <1>1 DEF OneAtATime, At, Idle
<1> QED
  BY <1>1, <1>3, <1>4, AloneIdle DEF TurnsInv

LEMMA CrashAlone ==
    ASSUME StoreInv, TurnsInv, NEW proc, Crash(proc)
    PROVE  OneAtATime' => TurnsInv'
<1>1. UNCHANGED disk /\ th' = [t \in Threads |-> IF Process[t] = proc THEN Idle ELSE th[t]]
  BY DEF Crash
<1>2. DecisionsHold'
  BY <1>1 DEF disk, TurnsInv, DecisionsHold, JournaledIsDecided, PublishedIsMarked,
              PublishedIsDecided, AbsentHasNoBase
<1>3. ASSUME NEW t \in Threads PROVE Alone(th[t])'
  <2> DEFINE r == IF Process[t] = proc THEN Idle ELSE th[t]
  <2>1. Alone(r) /\ th'[t] = r
    BY <1>1, AloneIdle DEF TurnsInv
  <2> HIDE DEF r
  <2>2. RecoversFirst(th[t])' /\ PublishesNext(th[t])'
    BY <1>1, <2>1 DEF disk, Alone, RecoversFirst, NoJournals, PublishesNext, Recovering
  <2>3. DecisionStands(th[t])'
    BY <1>1, <2>1 DEF disk, Alone, DecisionStands, Unpublished
  <2> QED
    BY <2>2, <2>3 DEF Alone
<1> QED
  BY <1>2, <1>3 DEF TurnsInv

LEMMA StutterAlone ==
    ASSUME TurnsInv, UNCHANGED vars
    PROVE  TurnsInv'
BY DEF vars, TurnsInv, OneAtATime, At, DecisionsHold, JournaledIsDecided, PublishedIsMarked, PublishedIsDecided,
       AbsentHasNoBase, Alone, RecoversFirst, NoJournals, Recovering, DecisionStands, Unpublished,
       PublishesNext

(* A thread in its call is the only one.                                     *)
LEMMA OthersRest ==
    ASSUME OneAtATime, NEW t \in Threads, NEW u \in Threads, u # t, ~At(t, "idle")
    PROVE  At(u, "idle")
BY DEF OneAtATime

(* A thread takes a step of its call only outside the idle state.            *)
LEMMA StepsAreCalls ==
    ASSUME NEW t, Step(t)
    PROVE  ~At(t, "idle")
BY DEF Step, Recover, Complete, Decide, ListJournals, PickJournal, Recovered, ClaimSnapshot,
       CompareCurrent, PublishCurrent, ReadPatch, MarkApplied, FindJournal, RemoveJournal,
       LoadProposal, Approve, Reject, RollBack, MakeNextPlan, RefusePatch, TakeEditedPlan,
       Recheck, ClaimNext, WriteJournal, At

(* What a thread does in its turn.                                           *)
Enters(t) == Open(t) \/ \E p \in Proposals : Enter(t, "apply", p) \/ Enter(t, "reject", p)

Turn(t) == Step(t) \/ Enters(t)

LEMMA TurnOrAccident ==
    [Next]_vars <=> \/ \E t \in Threads : Turn(t)
                    \/ \E p \in Proposals : Propose(p)
                    \/ \E t \in Threads : Crash(Process[t])
                    \/ UNCHANGED vars
BY DEF Next, Turn, Enters

(* A turn changes the state of its own thread.                               *)
LEMMA TurnIsOwn ==
    ASSUME StoreInv, NEW t \in Threads, Turn(t), NEW u \in Threads, u # t
    PROVE  th'[u] = th[u]
<1>1. th \in [Threads -> ThreadStates]
  BY StoreInvParts
<1>2. (\E r : Goes(t, r)) => th'[u] = th[u]
  BY <1>1 DEF Goes
<1>3. CASE Recover(t) \/ Enters(t)
  BY <1>2, <1>3 DEF Recover, ListJournals, PickJournal, Recovered, Enters, Open, Enter
<1>4. CASE Complete(t)
  BY <1>2, <1>4 DEF Complete, ClaimSnapshot, Claimed, CompareCurrent, PublishCurrent, ReadPatch,
                    MarkApplied, FindJournal, RemoveJournal, MayFault, Faulty
<1>5. CASE Decide(t)
  BY <1>2, <1>5 DEF Decide, LoadProposal, Approve, Reject, RollBack, MakeNextPlan, RefusePatch,
                    TakeEditedPlan, Recheck, ClaimNext, Claimed, WriteJournal, MayFault, Faulty
<1> QED
  BY <1>3, <1>4, <1>5 DEF Turn, Step

(* In the turn of one thread the others rest, before it and after.           *)
LEMMA TurnLeavesRest ==
    ASSUME StoreInv, OneAtATime, OneAtATime', NEW t \in Threads, Turn(t),
           NEW u \in Threads, u # t
    PROVE  th'[u] = th[u] /\ th[u].pc = "idle" /\ th[u].stage = "none"
<1>1. th'[u] = th[u]
  BY TurnIsOwn
<1>2. CASE Step(t)
  <2>1. th[u].pc = "idle"
    BY <1>2, StepsAreCalls, OthersRest DEF At
  <2>2. th[u].stage = "none"
    BY <2>1, ThreadFacts DEF Sound
  <2> QED
    BY <1>1, <2>1, <2>2
<1>3. CASE Enters(t)
  <2>1. \A r : Goes(t, r) => th'[t] = r
    BY StoreInvParts DEF Goes
  <2>2. th'[t].pc = "list"
    <3>1. CASE Open(t)
      BY <2>1, <3>1 DEF Open, Idle
    <3>2. CASE \E p \in Proposals : Enter(t, "apply", p) \/ Enter(t, "reject", p)
      BY <2>1, <3>2 DEF Enter, Idle
    <3> QED
      BY <1>3, <3>1, <3>2 DEF Enters
  <2>3. th[u].pc = "idle"
    BY <1>1, <2>2 DEF OneAtATime, At
  <2> QED
    BY <1>1, <2>3, ThreadFacts DEF Sound
<1> QED
  BY <1>1, <1>2, <1>3 DEF Turn

LEMMA TurnsStep ==
    ASSUME MaxFaults = 0, StoreInv, TurnsInv, [Next]_vars, OneAtATime'
    PROVE  TurnsInv'
<1>1. ASSUME NEW t \in Threads, Turn(t), DecisionsHold', Alone(th[t])'
      PROVE  TurnsInv'
  <2>1. ASSUME NEW u \in Threads, u # t
        PROVE  Alone(th[u])'
    <3>1. th'[u].pc = "idle" /\ th'[u].stage = "none"
      BY <1>1, <2>1, TurnLeavesRest DEF TurnsInv
    <3> QED
      BY <3>1 DEF Alone, RecoversFirst, Recovering, DecisionStands, PublishesNext, Completing,
                  Deciding
  <2> QED
    BY <1>1, <2>1 DEF TurnsInv
<1>2. ASSUME NEW t \in Threads
      PROVE  Alone(th[t]) /\ DecisionsHold
  BY DEF TurnsInv
<1>3. ASSUME NEW t \in Threads, Recover(t) PROVE TurnsInv'
  BY <1>1, <1>2, <1>3, ListJournalsAlone, RecoveredAlone, PickJournalAlone DEF Recover, Turn, Step
<1>4. ASSUME NEW t \in Threads, Complete(t) PROVE TurnsInv'
  <2>1. DecisionsHold' /\ Alone(th[t])'
    BY <1>2, <1>4, ClaimSnapshotAlone, CompareCurrentAlone, PublishCurrentAlone,
       ReadPatchAlone, MarkAppliedAlone, FindJournalAlone, RemoveJournalAlone DEF Complete
  <2> QED
    BY <1>1, <1>4, <2>1 DEF Turn, Step
<1>5. ASSUME NEW t \in Threads, Decide(t) PROVE TurnsInv'
  <2>1. DecisionsHold' /\ Alone(th[t])'
    BY <1>2, <1>5, LoadProposalAlone, ApproveAlone, RejectAlone, RollBackAlone,
       MakeNextPlanAlone, RefusePatchAlone, TakeEditedPlanAlone, RecheckAlone, ClaimNextAlone,
       WriteJournalAlone DEF Decide
  <2> QED
    BY <1>1, <1>5, <2>1 DEF Turn, Step
<1>6. ASSUME NEW t \in Threads, Enters(t) PROVE TurnsInv'
  <2>1. DecisionsHold' /\ Alone(th[t])'
    BY <1>2, <1>6, OpenAlone, EnterAlone DEF Enters
  <2> QED
    BY <1>1, <1>6, <2>1 DEF Turn
<1> QED
  BY <1>3, <1>4, <1>5, <1>6, ProposeAlone, CrashAlone, StutterAlone, TurnOrAccident
     DEF Turn, Step

(* A step of the threads that take turns.                                    *)
TurnsNext == Next /\ OneAtATime'

LEMMA TurnsSteps == TakingTurns => Init /\ [][TurnsNext]_vars
BY PTL DEF TakingTurns, TurnsNext

LEMMA TurnsKeep ==
    ASSUME MaxFaults = 0, StoreInv, TurnsInv, [TurnsNext]_vars
    PROVE  StoreInv' /\ TurnsInv'
<1>1. [Next]_vars
  BY DEF TurnsNext
<1> QED
  BY <1>1, StoreStep, TurnsStep, StutterAlone DEF TurnsNext

LEMMA TurnsInvAlways ==
    ASSUME MaxFaults = 0
    PROVE  TakingTurns => [](StoreInv /\ TurnsInv)
<1>1. Init => StoreInv /\ TurnsInv
  BY StoreInit, TurnsInit
<1>2. StoreInv /\ TurnsInv /\ [TurnsNext]_vars => (StoreInv /\ TurnsInv)'
  BY TurnsKeep
<1> QED
  BY <1>1, <1>2, TurnsSteps, PTL

(* Wherever the process of the thread whose turn it is dies, a published     *)
(* patch is marked as applied or its journal is there to say so              *)
(* (`commit_repair`), whichever process opens the store next.                *)
THEOREM PublishedIsAlwaysMarked ==
    ASSUME MaxFaults = 0
    PROVE  TakingTurns => []PublishedIsMarked
<1>1. StoreInv /\ TurnsInv => PublishedIsMarked
  BY DEF TurnsInv, DecisionsHold
<1> QED
  BY <1>1, TurnsInvAlways, PTL

(***************************************************************************)
(* Refinement of AtomicRepair, for threads that take turns                 *)
(***************************************************************************)
(* Nothing that AtomicRepair sees: no version up to the current one changes, *)
(* and no proposal becomes or ceases to be a rejected one.                   *)
Unseen ==
    /\ UNCHANGED <<current, base>>
    /\ \A v \in 1..current.version : snapshot'[v] = snapshot[v]
    /\ \A p \in Proposals : (status'[p] = "rejected") <=> (status[p] = "rejected")

LEMMA UnseenStutters ==
    ASSUME Unseen
    PROVE  UNCHANGED Atomic!avars
<1>1. [v \in 1..current.version |-> snapshot[v].by]'
      = [v \in 1..current.version |-> snapshot[v].by]
  BY DEF Unseen
<1>2. {p \in Proposals : status[p] = "rejected"}' = {p \in Proposals : status[p] = "rejected"}
  BY DEF Unseen
<1> QED
  BY <1>1, <1>2 DEF Unseen, Atomic!avars

LEMMA QuietIsUnseen ==
    ASSUME UNCHANGED disk
    PROVE  Unseen
BY DEF disk, Unseen

LEMMA DecisionIsUnseen ==
    ASSUME StoreInv, UNCHANGED <<snapshot, current, base>>, NEW p \in Proposals, NEW s,
           status' = [status EXCEPT ![p] = s], s # "rejected", status[p] # "rejected"
    PROVE  Unseen
BY DEF Unseen, StoreInv, TypeOK

(* A claim is beyond the current version.                                    *)
LEMMA ClaimIsUnseen ==
    ASSUME StoreInv, MaxFaults = 0, NEW t \in Threads, NEW plan \in PlanVersions, NEW r,
           Claimed(t, plan, r)
    PROVE  Unseen
<1>1. \A v \in 1..current.version : snapshot'[v] = snapshot[v]
  <2> SUFFICES ASSUME NEW v \in 1..current.version PROVE snapshot'[v] = snapshot[v]
    OBVIOUS
  <2>1. snapshot[v] # NoPlan /\ v \in 1..MaxVersion
    BY StoreAssumption DEF StoreInv, TypeOK, CurrentIsSnapshot, PlanVersions
  <2> QED
    BY <2>1, WritesSucceed DEF Claimed, StoreInv, TypeOK
<1> QED
  BY <1>1 DEF Claimed, Unseen

LEMMA RecoverIsUnseen ==
    ASSUME NEW t, Recover(t)
    PROVE  Unseen
BY QuietIsUnseen DEF Recover, ListJournals, Recovered, PickJournal

LEMMA CompleteIsSeen ==
    ASSUME StoreInv, DecisionsHold, MaxFaults = 0, NEW t \in Threads, Alone(th[t]), Complete(t)
    PROVE  Unseen \/ PublishCurrent(t)
<1>1. CASE ClaimSnapshot(t)
  <2>1. th[t].tx \in PlanVersions
    BY <1>1, TxFacts DEF ClaimSnapshot, At, Completing
  <2> QED
    BY <1>1, <2>1, ClaimIsUnseen DEF ClaimSnapshot
<1>2. CASE CompareCurrent(t) \/ ReadPatch(t) \/ FindJournal(t)
  BY <1>2, QuietIsUnseen DEF CompareCurrent, ReadPatch, FindJournal
<1>3. CASE MarkApplied(t)
  <2>1. th[t].pc = "save" /\ th[t].pc \in Completing
    BY <1>3 DEF MarkApplied, At, Completing
  <2>2. th[t].tx.by \in Proposals /\ status[th[t].tx.by] = "approved"
    BY <2>1, TxFacts DEF Alone, DecisionStands
  <2>3. /\ status' = [status EXCEPT ![th[t].tx.by] = "applied"]
        /\ UNCHANGED <<snapshot, current, base>>
    BY <1>3, WritesSucceed DEF MarkApplied
  <2> QED
    BY <2>2, <2>3, DecisionIsUnseen
<1>4. CASE RemoveJournal(t)
  BY <1>4 DEF RemoveJournal, Unseen
<1> QED
  BY <1>1, <1>2, <1>3, <1>4 DEF Complete

LEMMA DecideIsSeen ==
    ASSUME StoreInv, DecisionsHold, MaxFaults = 0, NEW t \in Threads, Alone(th[t]), Decide(t)
    PROVE  Unseen \/ Reject(t)
<1>1. CASE LoadProposal(t) \/ MakeNextPlan(t) \/ RefusePatch(t) \/ TakeEditedPlan(t) \/ Recheck(t)
  BY <1>1, QuietIsUnseen DEF LoadProposal, MakeNextPlan, RefusePatch, TakeEditedPlan, Recheck
<1>2. CASE Approve(t)
  <2>1. th[t].subject \in Proposals /\ UNCHANGED <<snapshot, current, base>>
    BY <1>2, SubjectFacts DEF Approve, At, Deciding
  <2> QED
    BY <1>2, <2>1, ApproveAlone, DecisionIsUnseen
<1>3. CASE RollBack(t)
  <2>1. th[t].subject \in Proposals /\ UNCHANGED <<snapshot, current, base>>
    BY <1>3, SubjectFacts DEF RollBack, At, Deciding
  <2> QED
    BY <1>3, <2>1, RollBackAlone, DecisionIsUnseen
<1>4. CASE ClaimNext(t)
  <2>1. th[t].next \in PlanVersions
    BY <1>4, ThreadFacts DEF ClaimNext, At, Sound
  <2> QED
    BY <1>4, <2>1, ClaimIsUnseen DEF ClaimNext
<1>5. CASE WriteJournal(t)
  BY <1>5 DEF WriteJournal, Unseen
<1> QED
  BY <1>1, <1>2, <1>3, <1>4, <1>5 DEF Decide

LEMMA OneLonger ==
    ASSUME NEW S, NEW n \in Nat, NEW f \in [1..n -> S], NEW g \in [1..(n + 1) -> S],
           \A v \in 1..n : g[v] = f[v]
    PROVE  g = Append(f, g[n + 1]) /\ Len(f) = n
<1>1. f \in Seq(S) /\ Len(f) = n /\ g \in Seq(S) /\ Len(g) = n + 1 /\ g[n + 1] \in S
  OBVIOUS
<1> DEFINE x == g[n + 1]
           h == Append(f, x)
<1>2. /\ h \in Seq(S) /\ Len(h) = n + 1 /\ h[n + 1] = x
      /\ \A v \in 1..n : h[v] = f[v]
  BY <1>1, AppendProperties
<1>3. \A v \in 1..(n + 1) : g[v] = h[v]
  BY <1>2
<1> HIDE DEF h
<1>4. g = h
  BY <1>1, <1>2, <1>3, SeqEqual
<1> QED
  BY <1>1, <1>4 DEF h

(* The replacement of current.json is the step in which the plan changes.    *)
LEMMA PublishMaps ==
    ASSUME StoreInv, DecisionsHold, MaxFaults = 0, NEW t \in Threads, Alone(th[t]),
           PublishCurrent(t)
    PROVE  Atomic!ANext
<1> DEFINE p == th[t].tx.by
           n == current.version
           lineage == [v \in 1..n |-> snapshot[v].by]
<1>1. th[t].pc = "publish" /\ th[t].pc \in Completing
  BY DEF PublishCurrent, At, Completing
<1>2. /\ current' = th[t].tx /\ th[t].tx.version = n + 1
      /\ status[p] \in {"approved", "applied"}
  BY PublishCurrentAlone
<1>3. UNCHANGED <<snapshot, status, base>>
  BY DEF PublishCurrent
<1>4. /\ p \in Proposals /\ snapshot[n + 1].by = p /\ base[p] = n /\ n \in Nat
  <2>1. n \in Nat
    BY StoreAssumption DEF StoreInv, TypeOK, PlanVersions
  <2>2. p \in Proposals /\ snapshot[n + 1].by = p /\ n + 1 = base[p] + 1
    BY <1>1, <1>2, TxFacts
  <2>3. base[p] \in Nat
    BY <2>2, StoreAssumption DEF StoreInv, TypeOK
  <2> QED
    BY <2>1, <2>2, <2>3
<1>5. Len(lineage) = n
  BY <1>4
<1>6. lineage' = Append(lineage, p)
  <2>1. lineage' = [v \in 1..(n + 1) |-> snapshot[v].by]
    BY <1>2, <1>3
  <2> DEFINE names == Proposals \cup {Original}
             longer == [v \in 1..(n + 1) |-> snapshot[v].by]
  <2>2. \A v \in 1..(n + 1) : snapshot[v].by \in names
    <3> SUFFICES ASSUME NEW v \in 1..n PROVE snapshot[v].by \in names
      BY <1>4
    <3> QED
      BY StoreAssumption DEF StoreInv, TypeOK, CurrentIsSnapshot, PlanVersions
  <2>3. /\ lineage \in [1..n -> names] /\ longer \in [1..(n + 1) -> names]
        /\ longer[n + 1] = p /\ \A v \in 1..n : longer[v] = lineage[v]
    BY <1>4, <2>2
  <2> HIDE DEF names, longer, lineage
  <2>4. longer = Append(lineage, p)
    BY <1>4, <2>3, OneLonger
  <2> QED
    BY <2>1, <2>4 DEF longer
<1>7. p \notin {q \in Proposals : status[q] = "rejected"}
  BY <1>2
<1>8. {q \in Proposals : status[q] = "rejected"}' = {q \in Proposals : status[q] = "rejected"}
  BY <1>3
<1>9. \E q \in Proposals : Atomic!APublish(q)
  <2>1. PICK q \in Proposals : q = p
    BY <1>4
  <2>2. Atomic!APublish(q)
    BY <1>3, <1>4, <1>5, <1>6, <1>7, <1>8, <2>1 DEF Atomic!APublish
  <2> QED
    BY <2>2
<1> QED
  BY <1>9 DEF Atomic!ANext

LEMMA RejectMaps ==
    ASSUME StoreInv, DecisionsHold, MaxFaults = 0, NEW t \in Threads, Alone(th[t]), Reject(t)
    PROVE  Atomic!ANext
<1> DEFINE p == th[t].subject
           declined == {q \in Proposals : status[q] = "rejected"}
           lineage == [v \in 1..current.version |-> snapshot[v].by]
<1>1. p \in Proposals /\ status[p] # "absent"
  BY SubjectFacts DEF Reject, At, Deciding
<1>2. /\ status' = [status EXCEPT ![p] = "rejected"] /\ Unpublished(p)
      /\ UNCHANGED <<snapshot, current, base>>
  BY RejectAlone DEF Reject
<1>3. declined' = declined \cup {p}
  BY <1>1, <1>2 DEF StoreInv, TypeOK
<1>4. base[p] # 0
  BY <1>1, StoreAssumption DEF StoreInv, TargetsExist
<1>5. ~ \E v \in DOMAIN lineage : lineage[v] = p
  BY <1>2 DEF Unpublished
<1>6. lineage' = lineage /\ base' = base
  BY <1>2
<1>7. \E q \in Proposals : Atomic!AReject(q)
  <2>1. PICK q \in Proposals : q = p
    BY <1>1
  <2>2. Atomic!AReject(q)
    BY <1>3, <1>4, <1>5, <1>6, <2>1 DEF Atomic!AReject, Atomic!Published
  <2> QED
    BY <2>2
<1> QED
  BY <1>7 DEF Atomic!ANext

LEMMA ProposeMaps ==
    ASSUME StoreInv, DecisionsHold, NEW p \in Proposals, Propose(p)
    PROVE  Atomic!ANext
<1> DEFINE declined == {q \in Proposals : status[q] = "rejected"}
           lineage == [v \in 1..current.version |-> snapshot[v].by]
<1>1. base[p] = 0
  BY DEF Propose, DecisionsHold, AbsentHasNoBase
<1>2. \E v \in DOMAIN lineage : base' = [base EXCEPT ![p] = v]
  BY DEF Propose
<1>3. declined' = declined
  BY DEF Propose, StoreInv, TypeOK
<1>4. lineage' = lineage
  BY DEF Propose
<1>5. Atomic!APropose(p)
  BY <1>1, <1>2, <1>3, <1>4 DEF Atomic!APropose
<1> QED
  BY <1>5 DEF Atomic!ANext

LEMMA InitMaps ==
    Init => Atomic!AInit
<1> SUFFICES ASSUME Init PROVE Atomic!AInit
  OBVIOUS
<1>1. /\ current.version = 1 /\ snapshot[1].by = Original
      /\ status = [p \in Proposals |-> "absent"] /\ base = [p \in Proposals |-> 0]
  BY StoreAssumption DEF Init, Version
<1>2. [v \in 1..current.version |-> snapshot[v].by] = <<Original>>
  BY <1>1
<1>3. {p \in Proposals : status[p] = "rejected"} = {}
  BY <1>1
<1> QED
  BY <1>1, <1>2, <1>3 DEF Atomic!AInit

LEMMA StepMaps ==
    ASSUME MaxFaults = 0, StoreInv, TurnsInv, [Next]_vars
    PROVE  [Atomic!ANext]_(Atomic!avars)
<1>1. DecisionsHold /\ \A t \in Threads : Alone(th[t])
  BY DEF TurnsInv
<1>2. ASSUME NEW t \in Threads, Step(t)
      PROVE  [Atomic!ANext]_(Atomic!avars)
  <2>1. Unseen \/ PublishCurrent(t) \/ Reject(t)
    BY <1>1, <1>2, RecoverIsUnseen, CompleteIsSeen, DecideIsSeen DEF Step
  <2> QED
    BY <1>1, <2>1, UnseenStutters, PublishMaps, RejectMaps
<1>3. ASSUME NEW t \in Threads, Enters(t)
      PROVE  [Atomic!ANext]_(Atomic!avars)
  BY <1>3, QuietIsUnseen, UnseenStutters DEF Enters, Open, Enter
<1>4. CASE \E p \in Proposals : Propose(p)
  BY <1>1, <1>4, ProposeMaps
<1>5. CASE (\E t \in Threads : Crash(Process[t])) \/ UNCHANGED vars
  BY <1>5, QuietIsUnseen, UnseenStutters DEF Crash, vars, disk
<1> QED
  BY <1>2, <1>3, <1>4, <1>5, TurnOrAccident DEF Turn

(* For threads that take turns and whose writes do not fail, files, journals, *)
(* crashes and recoveries amount to versions published at once, by the       *)
(* proposal made for the version before, and to decisions that are final     *)
(* (AtomicRepair).                                                           *)
THEOREM PublicationIsAlwaysAtomic ==
    ASSUME MaxFaults = 0
    PROVE  TakingTurns => PublicationIsAtomic
<1>1. StoreInv /\ TurnsInv /\ [TurnsNext]_vars => [Atomic!ANext]_(Atomic!avars)
  BY StepMaps DEF TurnsNext
<1> QED
  BY <1>1, InitMaps, TurnsInvAlways, TurnsSteps, PTL DEF PublicationIsAtomic, Atomic!ASpec

(***************************************************************************)
(* The store opens, for threads that take turns                            *)
(***************************************************************************)
(* At most one journal is left at a time, for the current version or for the *)
(* next one, and none while the plan of an edit is published.                *)
JournalIsNext ==
    \A p \in Patches : journal[p] # NoPlan =>
        /\ current = journal[p] \/ journal[p].version = current.version + 1
        /\ \A q \in Patches : journal[q] # NoPlan => q = p

EditsHaveNoJournal ==
    \A t \in Threads : th[t].stage = "own" /\ th[t].subject \notin Patches => NoJournals

JournalsComplete == JournalIsNext /\ EditsHaveNoJournal

(* A thread that publishes its own plan after a step did so before it.       *)
StillOwn(t) ==
    th'[t].stage = "own" => th[t].stage = "own" /\ th'[t].subject = th[t].subject

LEMMA FallenOwn ==
    ASSUME NEW t
    PROVE  Fallen(t).stage # "own" /\ Idle.stage # "own"
BY DEF Fallen, Idle

LEMMA OwnStays ==
    ASSUME StoreInv, MaxFaults = 0, NEW t \in Threads,
           Step(t), ~TakeEditedPlan(t), ~Recheck(t)
    PROVE  StillOwn(t)
<1>1. th[t] \in ThreadStates /\ th \in [Threads -> ThreadStates]
  BY StoreInvParts
<1> DEFINE Kept(r) == r.stage = "own" => th[t].stage = "own" /\ r.subject = th[t].subject
<1>2. ASSUME NEW r, Goes(t, r), Kept(r) PROVE StillOwn(t)
  BY <1>1, <1>2 DEF Goes, StillOwn
<1>3. Kept(Fallen(t)) /\ Kept(Idle)
  BY FallenOwn
<1>4. \A q \in Points : Kept(To(t, q))
  BY <1>1, ToFields
<1>5. Kept(AfterAdvance(t)) /\ Kept(Finished(t))
  BY <1>1, <1>3, <1>4 DEF AfterAdvance, Finished, To, Points, ThreadStates
<1>6. CASE Recover(t)
  <2>1. CASE ListJournals(t)
    <3> DEFINE r == [th[t] EXCEPT !.pc = "pick", !.todo = {p \in Patches : journal[p] # NoPlan}]
    <3>1. Kept(r)
      BY <1>1 DEF ThreadStates
    <3> QED
      BY <1>2, <2>1, <3>1 DEF ListJournals
  <2>2. CASE Recovered(t)
    BY <1>2, <1>3, <1>4, <2>2 DEF Recovered, Points
  <2>3. ASSUME NEW p \in Patches, PickJournal(t, p) PROVE StillOwn(t)
    <3> DEFINE rest == [th[t] EXCEPT !.todo = @ \ {p}]
               r == [rest EXCEPT !.pc = "claim", !.tx = journal[p]]
    <3>1. Kept(rest) /\ Kept(r)
      BY <1>1 DEF ThreadStates
    <3> HIDE DEF Kept
    <3> QED
      BY <1>2, <2>3, <3>1 DEF PickJournal
  <2> QED
    BY <1>6, <2>1, <2>2, <2>3 DEF Recover
<1>7. CASE Complete(t)
  <2>1. CASE ClaimSnapshot(t)
    <3> DEFINE r == [To(t, "swap") EXCEPT !.expected = th[t].tx.version - 1]
    <3>1. Kept(r)
      BY <1>1 DEF ThreadStates, To
    <3> HIDE DEF Kept
    <3> QED
      BY <1>2, <1>3, <2>1, <3>1, WritesSucceed DEF ClaimSnapshot, Claimed
  <2>2. ASSUME ~ClaimSnapshot(t) PROVE StillOwn(t)
    <3> HIDE DEF Kept
    <3> QED
      BY <1>2, <1>3, <1>4, <1>5, <1>7, <2>2, WritesSucceed
         DEF Complete, CompareCurrent, PublishCurrent, ReadPatch, MarkApplied, FindJournal,
             RemoveJournal, Points
  <2> QED
    BY <2>1, <2>2
<1>8. CASE Decide(t)
  <2>1. Kept([To(t, "approve") EXCEPT !.prior = status[th[t].subject]])
    BY <1>1 DEF ThreadStates, To
  <2>2. Kept([To(t, "stamp") EXCEPT !.prior = status[th[t].subject], !.stage = "commit"])
    BY <1>1 DEF ThreadStates, To
  <2>3. Kept([To(t, "stamp") EXCEPT !.stage = "commit"])
    BY <1>1 DEF ThreadStates, To
  <2>4. \A plan : Kept([To(t, "list") EXCEPT !.next = plan])
    BY <1>1 DEF ThreadStates, To
  <2>5. \A q \in {"swap", "claim"} : Kept([To(t, q) EXCEPT !.tx = th[t].next])
    BY <1>1 DEF ThreadStates, To
  <2> HIDE DEF Kept
  <2>6. CASE LoadProposal(t)
    BY <1>2, <1>3, <1>4, <2>1, <2>2, <2>6 DEF LoadProposal, Points
  <2>7. CASE Approve(t)
    BY <1>2, <2>3, <2>7, WritesSucceed DEF Approve
  <2>8. CASE Reject(t) \/ RollBack(t) \/ RefusePatch(t)
    BY <1>2, <1>3, <2>8, WritesSucceed DEF Reject, RollBack, RefusePatch
  <2>9. CASE MakeNextPlan(t)
    BY <1>2, <1>3, <2>4, <2>9 DEF MakeNextPlan
  <2>10. CASE ClaimNext(t)
    BY <1>2, <1>3, <1>4, <2>5, <2>10, WritesSucceed DEF ClaimNext, Claimed, Points
  <2>11. CASE WriteJournal(t)
    BY <1>2, <1>3, <2>5, <2>11, WritesSucceed DEF WriteJournal
  <2> QED
    BY <1>8, <2>6, <2>7, <2>8, <2>9, <2>10, <2>11 DEF Decide
<1> QED
  BY <1>6, <1>7, <1>8 DEF Step

LEMMA CompleteTurn ==
    ASSUME MaxFaults = 0, StoreInv, TurnsInv, JournalsComplete, OneAtATime',
           NEW t \in Threads, Turn(t)
    PROVE  JournalsComplete'
<1>0. \A u \in Threads : u # t => th'[u].stage = "none"
  BY TurnLeavesRest DEF TurnsInv
<1>1. t \in Threads /\ Alone(th[t]) /\ DecisionsHold
  BY DEF TurnsInv
<1>2. (th[t].stage = "own" /\ th[t].subject \notin Patches) => NoJournals
  BY <1>1 DEF JournalsComplete, EditsHaveNoJournal
<1>3. ASSUME UNCHANGED <<current, journal>>,
             th'[t].stage = "own" /\ th'[t].subject \notin Patches => NoJournals
      PROVE  JournalsComplete'
  BY <1>0, <1>3 DEF JournalsComplete, JournalIsNext, EditsHaveNoJournal, NoJournals
<1>4. ASSUME UNCHANGED <<current, journal>>, StillOwn(t)
      PROVE  JournalsComplete'
  BY <1>2, <1>3, <1>4 DEF StillOwn
<1>5. CASE TakeEditedPlan(t) \/ Recheck(t)
  <2>1. th[t].pc \in Deciding /\ UNCHANGED <<current, journal>>
    BY <1>5 DEF TakeEditedPlan, Recheck, At, Deciding, disk
  <2>2. NoJournals
    BY <1>1, <2>1 DEF Alone, RecoversFirst
  <2> QED
    BY <1>3, <2>1, <2>2
<1>6. CASE PublishCurrent(t)
  <2>1. th[t].pc \in Completing /\ UNCHANGED <<snapshot, journal>> /\ current' = th[t].tx
    BY <1>1, <1>6, PublishCurrentAlone DEF PublishCurrent, At, Completing
  <2>2. StillOwn(t)
    BY <1>1, <1>6, OwnStays DEF Step, Complete, PublishCurrent, TakeEditedPlan, Recheck, At
  <2>3. EditsHaveNoJournal'
    BY <1>0, <1>2, <2>1, <2>2 DEF StillOwn, EditsHaveNoJournal, NoJournals
  <2>4. CASE th[t].tx.by \in Patches
    <3>1. journal[th[t].tx.by] = th[t].tx /\ th[t].tx # NoPlan
      BY <1>1, <2>1, <2>4, TxFacts DEF Alone, RecoversFirst
    <3>2. \A q \in Patches : journal[q] # NoPlan => q = th[t].tx.by
      BY <2>4, <3>1 DEF JournalsComplete, JournalIsNext
    <3>3. JournalIsNext'
      BY <2>1, <3>1, <3>2 DEF JournalIsNext
    <3> QED
      BY <2>3, <3>3 DEF JournalsComplete
  <2>5. CASE th[t].tx.by \notin Patches
    <3>1. th[t].stage = "own" /\ th[t].tx.by = th[t].subject
      BY <1>1, <2>1, <2>5, ThreadFacts DEF Alone, RecoversFirst, Recovering, PublishesNext, Sound
    <3>2. NoJournals
      BY <1>2, <2>5, <3>1
    <3>3. JournalIsNext'
      BY <2>1, <3>2 DEF JournalIsNext, NoJournals
    <3> QED
      BY <2>3, <3>3 DEF JournalsComplete
  <2> QED
    BY <2>4, <2>5
<1>7. CASE RemoveJournal(t)
  <2>1. th[t].pc = "remove" /\ th[t].tx.by \in Patches /\ UNCHANGED current
        /\ journal' = [journal EXCEPT ![th[t].tx.by] = NoPlan]
    BY <1>1, <1>7, JournalFacts, WritesSucceed DEF RemoveJournal, At
  <2>2. \A p \in Patches : journal'[p] = NoPlan \/ journal'[p] = journal[p]
    BY <2>1 DEF StoreInv, TypeOK
  <2>3. StillOwn(t)
    BY <1>1, <1>7, <2>1, OwnStays DEF Step, Complete, TakeEditedPlan, Recheck, At
  <2>4. JournalIsNext'
    BY <2>1, <2>2 DEF JournalsComplete, JournalIsNext
  <2>5. EditsHaveNoJournal'
    BY <1>0, <1>2, <2>2, <2>3 DEF StillOwn, EditsHaveNoJournal, NoJournals
  <2> QED
    BY <2>4, <2>5 DEF JournalsComplete
<1>8. CASE WriteJournal(t)
  <2> DEFINE p == th[t].subject
             plan == th[t].next
  <2>1. th[t].pc = "journal" /\ th[t].pc \in Deciding
    BY <1>8 DEF WriteJournal, At, Deciding
  <2>2. /\ NoJournals /\ th[t].stage = "own" /\ p \in Patches
        /\ plan.version = current.version + 1
    BY <1>1, <2>1, ThreadFacts DEF Alone, RecoversFirst, PublishesNext, Sound
  <2>3. journal' = [journal EXCEPT ![p] = plan] /\ UNCHANGED current
    BY <1>1, <1>8, <2>2, WritesSucceed DEF WriteJournal, NoJournals
  <2>4. journal'[p] = plan /\ \A q \in Patches : q # p => journal'[q] = NoPlan
    BY <2>2, <2>3 DEF StoreInv, TypeOK, NoJournals
  <2>5. StillOwn(t)
    BY <1>1, <1>8, <2>1, OwnStays DEF Step, Decide, TakeEditedPlan, Recheck, At
  <2>6. JournalIsNext'
    BY <2>2, <2>3, <2>4 DEF JournalIsNext
  <2>7. EditsHaveNoJournal'
    BY <1>0, <2>2, <2>5 DEF StillOwn, EditsHaveNoJournal
  <2> QED
    BY <2>6, <2>7 DEF JournalsComplete
<1>9. CASE /\ Step(t)
           /\ ~TakeEditedPlan(t) /\ ~Recheck(t) /\ ~PublishCurrent(t) /\ ~RemoveJournal(t)
           /\ ~WriteJournal(t)
  <2>1. StillOwn(t)
    BY <1>1, <1>9, OwnStays
  <2>2. Complete(t) => UNCHANGED <<current, journal>>
    BY <1>9 DEF Complete, ClaimSnapshot, Claimed, CompareCurrent, ReadPatch, MarkApplied,
                FindJournal, disk
  <2>3. Decide(t) => UNCHANGED <<current, journal>>
    BY <1>9 DEF Decide, LoadProposal, Approve, Reject, RollBack, MakeNextPlan, RefusePatch,
                ClaimNext, Claimed, Faulty, disk
  <2>4. UNCHANGED <<current, journal>>
    BY <1>9, <2>2, <2>3 DEF Step, Recover, ListJournals, Recovered, PickJournal, disk
  <2> QED
    BY <1>4, <2>1, <2>4
<1>10. CASE Enters(t)
  <2>1. UNCHANGED <<current, journal>> /\ th'[t].stage = "open"
    BY <1>1, <1>10, StoreInvParts DEF Enters, Open, Enter, Goes, Idle, disk
  <2> QED
    BY <1>3, <2>1
<1> QED
  BY <1>5, <1>6, <1>7, <1>8, <1>9, <1>10 DEF Turn

(* Accidents and proposals leave the journals as they are.                   *)
LEMMA CompleteStep ==
    ASSUME MaxFaults = 0, StoreInv, TurnsInv, JournalsComplete, [TurnsNext]_vars
    PROVE  JournalsComplete'
<1>1. ASSUME UNCHANGED <<current, journal>>,
             \A t \in Threads : th'[t] = Idle \/ th'[t] = th[t]
      PROVE  JournalsComplete'
  BY <1>1, FallenOwn DEF JournalsComplete, JournalIsNext, EditsHaveNoJournal, NoJournals
<1>2. CASE \E t \in Threads : Turn(t) /\ OneAtATime'
  BY <1>2, CompleteTurn
<1>3. CASE \E p \in Proposals : Propose(p)
  BY <1>1, <1>3 DEF Propose
<1>4. CASE \E t \in Threads : Crash(Process[t])
  BY <1>1, <1>4 DEF Crash, disk
<1>5. CASE UNCHANGED vars
  BY <1>1, <1>5 DEF vars
<1> QED
  BY <1>2, <1>3, <1>4, <1>5, TurnOrAccident DEF TurnsNext

(* Wherever the process of the thread whose turn it is dies, the next opening *)
(* of the store can complete what it finds ("it stops blocking every future         *)
(* StorageRoot::open"); it takes an I/O error to refute this.                *)
THEOREM StoreAlwaysOpens ==
    ASSUME MaxFaults = 0
    PROVE  TakingTurns => []StoreOpens
<1>1. Init => JournalsComplete
  BY FallenOwn DEF Init, JournalsComplete, JournalIsNext, EditsHaveNoJournal
<1>2. StoreInv /\ TurnsInv /\ JournalsComplete => StoreOpens
  <2> SUFFICES ASSUME StoreInv, TurnsInv, JournalsComplete, NEW p \in Patches, journal[p] # NoPlan
               PROVE  Completable(p)
    BY DEF StoreOpens
  <2>1. snapshot[journal[p].version] = journal[p]
    BY DEF StoreInv, JournalOwnsSnapshot
  <2>2. status[p] \in {"approved", "applied"}
    BY DEF TurnsInv, DecisionsHold, JournaledIsDecided
  <2>3. current = journal[p] \/ current.version = journal[p].version - 1
    BY StoreAssumption DEF JournalsComplete, JournalIsNext, StoreInv, TypeOK, PlanVersions
  <2> QED
    BY <2>1, <2>2, <2>3 DEF Completable
<1>3. StoreInv /\ TurnsInv /\ JournalsComplete /\ [TurnsNext]_vars => JournalsComplete'
  BY CompleteStep
<1> QED
  BY <1>1, <1>2, <1>3, TurnsInvAlways, TurnsSteps, PTL
===============================================================================
