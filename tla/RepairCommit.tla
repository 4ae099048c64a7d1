---------------------------- MODULE RepairCommit ----------------------------
(***************************************************************************)
(* How changes of one plan reach the disk (storage/): patches and plan       *)
(* edits are applied or rejected under the mutation boundary of a process,   *)
(* a patch is committed through a journal, and every opening of the store    *)
(* (StorageRoot::open), by any thread, first completes the journals it finds.*)
(* Each step is one atomic file operation: the rename of write_atomically,   *)
(* the hard link of write_exclusively, a read, an unlink.                    *)
(***************************************************************************)
EXTENDS Naturals, FiniteSets, Sequences

CONSTANTS
    Threads,     \* threads that use the store
    Process,     \* thread -> its process: desktop, headless server, MCP server
    Mutators,    \* the threads that apply and reject proposals
    Patches,     \* repair patches of the plan
    Edits,       \* plan-edit proposals of the plan
    Original,    \* what the first version of the plan came from
    NoPlan,      \* no such file
    MaxVersion,  \* bound: versions of the plan
    MaxTries,    \* bound: attempts to apply one patch
    MaxFaults,   \* bound: writes that report an I/O error
    MaxCrashes   \* bound: processes that die

Proposals == Patches \cup Edits

PlanVersions ==
    [version : 1..MaxVersion, by : Proposals \cup {Original}, try : Nat]

ASSUME StoreAssumption ==
    /\ Mutators \subseteq Threads
    /\ Patches \cap Edits = {}
    /\ Original \notin Patches \cup Edits
    /\ MaxVersion \in Nat \ {0}
    /\ MaxTries \in Nat /\ MaxFaults \in Nat /\ MaxCrashes \in Nat
    /\ NoPlan \notin PlanVersions

VARIABLES
    \* the disk
    snapshot,  \* v<n>.json: the immutable versions of the plan
    current,   \* current.json
    journal,   \* the RepairTransaction of each patch
    status,    \* the PatchStatus of each proposal, "absent" before it is saved
    base,      \* the version a proposal targets (plan_version, base_version)
    \* the threads
    th,
    \* what is bounded
    tries, faults, crashes

disk   == <<snapshot, current, journal, status, base>>
bounds == <<tries, faults, crashes>>
vars   == <<snapshot, current, journal, status, base, th, tries, faults, crashes>>

(* A version of the plan.  Applying a patch stamps it with the time          *)
(* (next_version sets updated_at): two attempts never make the same plan.    *)
(* The plan of an edit is fixed in the proposal.                             *)
Version(v, p, n) == [version |-> v, by |-> p, try |-> n]

(* The version a proposal would become.                                      *)
NextVersion(p) == base[p] + 1

Statuses == {"absent", "pending", "approved", "rejected", "applied"}

(***************************************************************************)
(* Threads                                                                 *)
(***************************************************************************)
(* stage says which call is under way: "open" StorageRoot::open, "commit"    *)
(* the recovery inside commit_repair, "own" the publication of one's own     *)
(* plan.  An error rolls a proposal back in the last two only.               *)
Idle == [pc |-> "idle", op |-> "none", stage |-> "none", subject |-> Original,
         prior |-> "absent", todo |-> {}, tx |-> NoPlan, next |-> NoPlan, expected |-> 0]

At(t, pc) == th[t].pc = pc

Goes(t, r) == th' = [th EXCEPT ![t] = r]

To(t, pc) == [th[t] EXCEPT !.pc = pc]

Mutating(t) == th[t].op \in {"apply", "reject"}

(* What an error makes of the call: `apply` restores a proposal that was     *)
(* pending once repair::apply_patch or PlanStore::save has failed.           *)
Fallen(t) ==
    IF th[t].op = "apply" /\ th[t].stage \in {"commit", "own"} /\ th[t].prior = "pending"
    THEN [Idle EXCEPT !.pc = "rollback", !.op = "apply", !.subject = th[t].subject]
    ELSE Idle

Errs(t) == Goes(t, Fallen(t)) /\ UNCHANGED <<disk, bounds>>

(* A write may report an error, before or after it took effect (the sync of  *)
(* the directory follows the rename).                                        *)
MayFault(t, r) ==
    \/ Goes(t, r) /\ UNCHANGED faults
    \/ faults < MaxFaults /\ faults' = faults + 1 /\ Goes(t, Fallen(t))

Faulty(t) ==
    /\ faults < MaxFaults
    /\ faults' = faults + 1
    /\ Goes(t, Fallen(t))
    /\ UNCHANGED disk

(***************************************************************************)
(* Opening the store                                                       *)
(***************************************************************************)
(* A thread enters; the mutation boundary lets one mutation of a process in. *)
Open(t) ==
    /\ At(t, "idle")
    /\ Goes(t, [Idle EXCEPT !.pc = "list", !.op = "open", !.stage = "open"])
    /\ UNCHANGED <<disk, bounds>>

Enter(t, op, p) ==
    /\ At(t, "idle") /\ t \in Mutators
    /\ \A u \in Threads : Process[u] = Process[t] => ~Mutating(u)
    /\ status[p] # "absent"
    /\ tries[p] < MaxTries
    /\ Goes(t, [Idle EXCEPT !.pc = "list", !.op = op, !.stage = "open", !.subject = p])
    /\ UNCHANGED <<disk, bounds>>

(* `recover_repair_transactions_inner` lists the journals ...                *)
ListJournals(t) ==
    /\ At(t, "list")
    /\ Goes(t, [th[t] EXCEPT !.pc = "pick", !.todo = {p \in Patches : journal[p] # NoPlan}])
    /\ UNCHANGED <<disk, bounds>>

(* ... and completes them one by one; one that has vanished is passed over.  *)
PickJournal(t, p) ==
    /\ At(t, "pick") /\ p \in th[t].todo
    /\ LET rest == [th[t] EXCEPT !.todo = @ \ {p}]
       IN  Goes(t, IF journal[p] = NoPlan THEN rest
                   ELSE [rest EXCEPT !.pc = "claim", !.tx = journal[p]])
    /\ UNCHANGED <<disk, bounds>>

Recovered(t) ==
    /\ At(t, "pick") /\ th[t].todo = {}
    /\ Goes(t, CASE th[t].op = "open"      -> Idle
                 [] th[t].stage = "commit" -> To(t, "recheck")
                 [] OTHER                  -> To(t, "load"))
    /\ UNCHANGED <<disk, bounds>>

(***************************************************************************)
(* `complete_repair_transaction`, and the publication of an edit           *)
(***************************************************************************)
(* Flawed form: the snapshot is written over whatever is there.              *)
OverwritingClaimed(t, plan, r) ==
    /\ snapshot' = [snapshot EXCEPT ![plan.version] = plan]
    /\ Goes(t, r)
    /\ UNCHANGED <<current, journal, status, base, bounds>>

(* A snapshot is written once; a different one under its name is a conflict. *)
Claimed(t, plan, r) ==
    /\ \/ /\ snapshot[plan.version] = NoPlan
          /\ snapshot' = [snapshot EXCEPT ![plan.version] = plan]
          /\ MayFault(t, r)
       \/ /\ snapshot[plan.version] # NoPlan
          /\ Goes(t, IF snapshot[plan.version] = plan THEN r ELSE Fallen(t))
          /\ UNCHANGED <<snapshot, faults>>
       \/ Faulty(t)
    /\ UNCHANGED <<current, journal, status, base, tries, crashes>>

ClaimSnapshot(t) ==
    /\ At(t, "claim")
    /\ Claimed(t, th[t].tx, [To(t, "swap") EXCEPT !.expected = th[t].tx.version - 1])

MayAdvance(t) ==
    /\ current.version = th[t].expected
    /\ th[t].tx.version = current.version + 1

(* Flawed form: the patch is not marked before its journal goes.             *)
UnmarkedAfterAdvance(t) == To(t, IF th[t].tx.by \in Patches THEN "unlink" ELSE "save")

AfterAdvance(t) == To(t, IF th[t].tx.by \in Patches THEN "mark" ELSE "save")

(* Flawed form: a plan that is already current is a mismatch.                *)
StrictCompareCurrent(t) ==
    /\ At(t, "swap")
    /\ Goes(t, IF MayAdvance(t) THEN To(t, "publish") ELSE Fallen(t))
    /\ UNCHANGED <<disk, bounds>>

(* `advance_current` compares ...                                            *)
CompareCurrent(t) ==
    /\ At(t, "swap")
    /\ Goes(t, IF current = th[t].tx THEN AfterAdvance(t)
               ELSE IF MayAdvance(t) THEN To(t, "publish") ELSE Fallen(t))
    /\ UNCHANGED <<disk, bounds>>

(* ... and then replaces current.json.                                       *)
PublishCurrent(t) ==
    /\ At(t, "publish")
    /\ \/ current' = th[t].tx /\ MayFault(t, AfterAdvance(t))
       \/ Faulty(t)
    /\ UNCHANGED <<snapshot, journal, status, base, tries, crashes>>

(* The patch is read again: only an approved one becomes applied.            *)
ReadPatch(t) ==
    /\ At(t, "mark")
    /\ Goes(t, CASE status[th[t].tx.by] = "approved" -> To(t, "save")
                 [] status[th[t].tx.by] = "applied"  -> To(t, "unlink")
                 [] OTHER                            -> Fallen(t))
    /\ UNCHANGED <<disk, bounds>>

(* What follows a completed transaction: the next journal, or the return.    *)
Finished(t) ==
    IF th[t].stage = "own" THEN Idle ELSE [To(t, "pick") EXCEPT !.tx = NoPlan]

(* A failure to mark an edit comes after the rollback: its plan is saved.    *)
MarkApplied(t) ==
    LET p == th[t].tx.by
    IN  /\ At(t, "save")
        /\ IF p \in Patches
           THEN \/ status' = [status EXCEPT ![p] = "applied"] /\ MayFault(t, To(t, "unlink"))
                \/ Faulty(t)
           ELSE \/ status' = [status EXCEPT ![p] = "applied"] /\ Goes(t, Idle) /\ UNCHANGED faults
                \/ /\ faults < MaxFaults /\ faults' = faults + 1
                   /\ Goes(t, Idle) /\ UNCHANGED status
        /\ UNCHANGED <<snapshot, current, journal, base, tries, crashes>>

(* The journal goes last, if it is still there ...                           *)
FindJournal(t) ==
    /\ At(t, "unlink")
    /\ Goes(t, IF journal[th[t].tx.by] = NoPlan THEN Finished(t) ELSE To(t, "remove"))
    /\ UNCHANGED <<disk, bounds>>

(* ... which it may be no more a moment later.                               *)
RemoveJournal(t) ==
    /\ At(t, "remove")
    /\ IF journal[th[t].tx.by] = NoPlan
       THEN Goes(t, Fallen(t)) /\ UNCHANGED <<journal, faults>>
       ELSE \/ journal' = [journal EXCEPT ![th[t].tx.by] = NoPlan] /\ MayFault(t, Finished(t))
            \/ Faulty(t)
    /\ UNCHANGED <<snapshot, current, status, base, tries, crashes>>

(***************************************************************************)
(* Applying and rejecting a proposal                                       *)
(***************************************************************************)
(* Flawed form: an approved proposal can be rejected too.                    *)
LenientLoadProposal(t) ==
    /\ At(t, "load")
    /\ LET s == status[th[t].subject]
       IN  Goes(t, CASE th[t].op = "apply"  /\ s = "pending"  ->
                            [To(t, "approve") EXCEPT !.prior = s]
                     [] th[t].op = "apply"  /\ s = "approved" ->
                            [To(t, "stamp") EXCEPT !.prior = s, !.stage = "commit"]
                     [] th[t].op = "reject" /\ s \in {"pending", "approved"} -> To(t, "reject")
                     [] OTHER -> Idle)
    /\ UNCHANGED <<disk, bounds>>

LoadProposal(t) ==
    /\ At(t, "load")
    /\ LET s == status[th[t].subject]
       IN  Goes(t, CASE th[t].op = "apply"  /\ s = "pending"  ->
                            [To(t, "approve") EXCEPT !.prior = s]
                     [] th[t].op = "apply"  /\ s = "approved" ->
                            [To(t, "stamp") EXCEPT !.prior = s, !.stage = "commit"]
                     [] th[t].op = "reject" /\ s = "pending"  -> To(t, "reject")
                     [] OTHER -> Idle)
    /\ UNCHANGED <<disk, bounds>>

(* A decision that cannot be saved returns at once.                          *)
Approve(t) ==
    /\ At(t, "approve")
    /\ \/ /\ status' = [status EXCEPT ![th[t].subject] = "approved"]
          /\ \/ Goes(t, [To(t, "stamp") EXCEPT !.stage = "commit"]) /\ UNCHANGED faults
             \/ faults < MaxFaults /\ faults' = faults + 1 /\ Goes(t, Idle)
       \/ Faulty(t)
    /\ UNCHANGED <<snapshot, current, journal, base, tries, crashes>>

Reject(t) ==
    /\ At(t, "reject")
    /\ \/ status' = [status EXCEPT ![th[t].subject] = "rejected"] /\ MayFault(t, Idle)
       \/ Faulty(t)
    /\ UNCHANGED <<snapshot, current, journal, base, tries, crashes>>

(* The proposal stays actionable when it could not be applied.               *)
RollBack(t) ==
    /\ At(t, "rollback")
    /\ \/ status' = [status EXCEPT ![th[t].subject] = "pending"] /\ Goes(t, Idle) /\ UNCHANGED faults
       \/ faults < MaxFaults /\ faults' = faults + 1 /\ Goes(t, Idle)
          /\ status' \in {status, [status EXCEPT ![th[t].subject] = "pending"]}
    /\ UNCHANGED <<snapshot, current, journal, base, tries, crashes>>

(* `repair::apply_patch` wants the patch approved and its base current, and  *)
(* makes the next version.  What it reads here is read again before the      *)
(* commit.  The patched plan may be invalid, and an unreadable tool catalog  *)
(* ends the call before the rollback.                                        *)
MakeNextPlan(t) ==
    LET p == th[t].subject
        n == tries[p] + 1
    IN  /\ At(t, "stamp") /\ p \in Patches
        /\ IF status[p] = "approved" /\ current = snapshot[base[p]]
           THEN /\ Goes(t, [To(t, "list") EXCEPT !.next = Version(NextVersion(p), p, n)])
                /\ tries' = [tries EXCEPT ![p] = n]
           ELSE Goes(t, Fallen(t)) /\ UNCHANGED tries
        /\ UNCHANGED <<disk, faults, crashes>>

RefusePatch(t) ==
    /\ At(t, "stamp") /\ th[t].subject \in Patches
    /\ \/ Goes(t, Fallen(t)) /\ UNCHANGED faults
       \/ faults < MaxFaults /\ faults' = faults + 1 /\ Goes(t, Idle)
    /\ UNCHANGED <<disk, tries, crashes>>

(* `PlanStore::save` of the plan of an edit.                                 *)
TakeEditedPlan(t) ==
    LET p    == th[t].subject
        plan == Version(NextVersion(p), p, 0)
    IN  /\ At(t, "stamp") /\ p \in Edits
        /\ Goes(t, IF current = plan \/ plan.version = current.version + 1
                   THEN [To(t, "claim_next") EXCEPT !.stage = "own", !.next = plan,
                                                    !.expected = current.version]
                   ELSE Fallen(t))
        /\ UNCHANGED <<disk, bounds>>

MayCommit(t) ==
    /\ status[th[t].subject] = "approved"
    /\ current.version = base[th[t].subject]

(* `commit_repair`, after it has recovered the journals it found.            *)
Recheck(t) ==
    /\ At(t, "recheck")
    /\ Goes(t, IF status[th[t].subject] = "applied" /\ current = th[t].next THEN Idle
               ELSE IF MayCommit(t) THEN [To(t, "claim_next") EXCEPT !.stage = "own"]
               ELSE Fallen(t))
    /\ UNCHANGED <<disk, bounds>>

(* Flawed form: the journal is written for a version that is not claimed.    *)
UnclaimedClaimNext(t) ==
    /\ At(t, "claim_next")
    /\ Goes(t, IF th[t].subject \in Patches THEN To(t, "journal")
               ELSE [To(t, "swap") EXCEPT !.tx = th[t].next])
    /\ UNCHANGED <<disk, bounds>>

(* The plan of an edit has no journal: it is published right away.           *)
ClaimNext(t) ==
    /\ At(t, "claim_next")
    /\ Claimed(t, th[t].next,
               IF th[t].subject \in Patches THEN To(t, "journal")
               ELSE [To(t, "swap") EXCEPT !.tx = th[t].next])

WriteJournal(t) ==
    LET p == th[t].subject
        r == [To(t, "claim") EXCEPT !.tx = th[t].next]
    IN  /\ At(t, "journal")
        /\ \/ /\ journal[p] = NoPlan
              /\ journal' = [journal EXCEPT ![p] = th[t].next]
              /\ MayFault(t, r)
           \/ /\ journal[p] # NoPlan
              /\ Goes(t, IF journal[p] = th[t].next THEN r ELSE Fallen(t))
              /\ UNCHANGED <<journal, faults>>
           \/ Faulty(t)
        /\ UNCHANGED <<snapshot, current, status, base, tries, crashes>>

(***************************************************************************)
(* Proposals and crashes                                                   *)
(***************************************************************************)
(* A repair or an edit is proposed for a version of the plan that was        *)
(* current when the back end was asked.                                      *)
Propose(p) ==
    /\ status[p] = "absent"
    /\ status' = [status EXCEPT ![p] = "pending"]
    /\ \E v \in 1..current.version :
          v < MaxVersion /\ base' = [base EXCEPT ![p] = v]
    /\ UNCHANGED <<snapshot, current, journal, th, bounds>>

(* A process dies with all its threads.                                      *)
Crash(proc) ==
    /\ crashes < MaxCrashes
    /\ crashes' = crashes + 1
    /\ \E t \in Threads : Process[t] = proc /\ ~At(t, "idle")
    /\ th' = [t \in Threads |-> IF Process[t] = proc THEN Idle ELSE th[t]]
    /\ UNCHANGED <<disk, tries, faults>>

(***************************************************************************)
(* Specification                                                           *)
(***************************************************************************)
Init ==
    /\ snapshot = [v \in 1..MaxVersion |-> IF v = 1 THEN Version(1, Original, 0) ELSE NoPlan]
    /\ current  = Version(1, Original, 0)
    /\ journal  = [p \in Patches |-> NoPlan]
    /\ status   = [p \in Proposals |-> "absent"]
    /\ base     = [p \in Proposals |-> 0]
    /\ th       = [t \in Threads |-> Idle]
    /\ tries    = [p \in Proposals |-> 0]
    /\ faults   = 0
    /\ crashes  = 0

Recover(t) ==
    \/ ListJournals(t) \/ Recovered(t)
    \/ \E p \in Patches : PickJournal(t, p)

Complete(t) ==
    \/ ClaimSnapshot(t) \/ CompareCurrent(t) \/ PublishCurrent(t)
    \/ ReadPatch(t) \/ MarkApplied(t) \/ FindJournal(t) \/ RemoveJournal(t)

Decide(t) ==
    \/ LoadProposal(t) \/ Approve(t) \/ Reject(t) \/ RollBack(t)
    \/ MakeNextPlan(t) \/ RefusePatch(t) \/ TakeEditedPlan(t) \/ Recheck(t)
    \/ ClaimNext(t) \/ WriteJournal(t)

Step(t) == Recover(t) \/ Complete(t) \/ Decide(t)

Next ==
    \/ \E t \in Threads : Open(t) \/ Step(t)
    \/ \E t \in Threads, p \in Proposals : Enter(t, "apply", p) \/ Enter(t, "reject", p)
    \/ \E p \in Proposals : Propose(p)
    \/ \E t \in Threads : Crash(Process[t])

Spec == Init /\ [][Next]_vars

(* One thread at a time uses the store: a call begins when the last one has  *)
(* returned, or has died with its process.                                   *)
OneAtATime == \A t, u \in Threads : ~At(t, "idle") /\ ~At(u, "idle") => t = u

(* The threads, of one process or of several, take turns.                   *)
TakingTurns == Init /\ [][Next /\ OneAtATime']_vars

(* A thread that has entered goes on, and the application keeps opening its  *)
(* store: every command and every refresh of a list does.                    *)
TurnsSpec ==
    /\ TakingTurns
    /\ \A t \in Threads : WF_vars(Step(t))
    /\ WF_vars(\E t \in Threads : Open(t))

(***************************************************************************)
(* Invariants                                                              *)
(***************************************************************************)
Points ==
    {"idle", "list", "pick", "claim", "swap", "publish", "mark", "save", "unlink", "remove",
     "load", "approve", "reject", "rollback", "stamp", "recheck", "claim_next", "journal"}

ThreadStates ==
    [pc : Points, op : {"none", "open", "apply", "reject"},
     stage : {"none", "open", "commit", "own"}, subject : Proposals \cup {Original},
     prior : Statuses, todo : SUBSET Patches, tx : PlanVersions \cup {NoPlan},
     next : PlanVersions \cup {NoPlan}, expected : 0..MaxVersion]

(* The types of the files and of what a thread holds of them.                *)
TypeOK ==
    /\ snapshot \in [1..MaxVersion -> PlanVersions \cup {NoPlan}]
    /\ current \in PlanVersions
    /\ journal \in [Patches -> PlanVersions \cup {NoPlan}]
    /\ status \in [Proposals -> Statuses]
    /\ base \in [Proposals -> 0..MaxVersion]
    /\ th \in [Threads -> ThreadStates]
    /\ tries \in [Proposals -> Nat]
    /\ faults \in 0..MaxFaults
    /\ crashes \in 0..MaxCrashes

(* current.json is a copy of the snapshot of its version, and no version     *)
(* before it is missing: what a run recorded as its version can be loaded.   *)
CurrentIsSnapshot ==
    /\ snapshot[current.version] = current
    /\ \A v \in 1..current.version : snapshot[v] # NoPlan

(* "verifies (...) immutable snapshot ownership" (commit_repair): a journal   *)
(* is only ever written for a version its own patch has claimed.             *)
JournalOwnsSnapshot ==
    \A p \in Patches : journal[p] # NoPlan =>
        /\ journal[p].by = p
        /\ snapshot[journal[p].version] = journal[p]

(* "competing repair patches from one base have one winner" (the test in     *)
(* storage/mod.rs), here against threads of other processes, I/O errors,     *)
(* crashes and edits as well, and the winner's plan is the next version.     *)
OneWinner ==
    \A p \in Proposals : status[p] = "applied" =>
        /\ snapshot[base[p] + 1] # NoPlan
        /\ snapshot[base[p] + 1].by = p

(* A process that stops anywhere leaves no published patch unmarked and      *)
(* forgotten: it is applied, or its journal is there to say so.              *)
PublishedIsMarked ==
    \A v \in 2..current.version : snapshot[v].by \in Patches =>
        \/ status[snapshot[v].by] = "applied"
        \/ journal[snapshot[v].by] = snapshot[v]

Completable(p) ==
    LET plan == journal[p]
    IN  /\ snapshot[plan.version] \in {plan, NoPlan}
        /\ current = plan \/ current.version = plan.version - 1
        /\ status[p] \in {"approved", "applied"}

(* Opening the store succeeds: no journal is left that can never be          *)
(* completed ("it stops blocking every future StorageRoot::open").           *)
StoreOpens ==
    (\A t \in Threads : At(t, "idle")) =>
        \A p \in Patches : journal[p] # NoPlan => Completable(p)

(* "crash-consistent publication" (commit_repair): a version that has been   *)
(* claimed will be published by a journal, or can be by its proposal; else   *)
(* no other change of the plan ever gets past it.                            *)
ClaimedIsPublishable ==
    (\A t \in Threads : At(t, "idle")) =>
        \A v \in (current.version + 1)..MaxVersion : snapshot[v] # NoPlan =>
            \/ snapshot[v].by \in Patches /\ journal[snapshot[v].by] = snapshot[v]
            \/ snapshot[v].by \in Edits

(***************************************************************************)
(* Action properties                                                       *)
(***************************************************************************)
(* "Advance current.json only while it still names the expected              *)
(* predecessor" (advance_current): the plan never goes back a version.       *)
CurrentNeverGoesBack == [][current'.version >= current.version]_vars

(* "mark the exact persisted patch as applied" (apply_patch): what has been   *)
(* applied is not offered for approval again.                                *)
AppliedIsFinal ==
    [][\A p \in Proposals : status[p] = "applied" => status'[p] = "applied"]_vars

(***************************************************************************)
(* Refinement                                                              *)
(***************************************************************************)
(* As long as one thread at a time uses the store and writes do not fail,    *)
(* files, journals, crashes and recoveries amount to versions published at   *)
(* once and decisions that are final.                                        *)
Atomic == INSTANCE AtomicRepair WITH
              lineage  <- [v \in 1..current.version |-> snapshot[v].by],
              target   <- base,
              rejected <- {p \in Proposals : status[p] = "rejected"}

PublicationIsAtomic == Atomic!ASpec

(***************************************************************************)
(* Liveness                                                                *)
(***************************************************************************)
(* The next openings of the store complete an interrupted commit.            *)
InterruptedCommitCompletes ==
    \A p \in Patches : journal[p] # NoPlan ~> journal[p] = NoPlan
=============================================================================
