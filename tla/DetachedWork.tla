---------------------------- MODULE DetachedWork ----------------------------
(***************************************************************************)
(* Compilations and edits that the MCP server does for its clients           *)
(* (app/mcp_server.rs), the list of activities the desktop shows             *)
(* (app/activity.rs), and the plan they change beside the desktop's own      *)
(* editing, importing and deleting (app/engine.rs, storage/plans.rs).        *)
(*                                                                         *)
(* A request starts a task that outlives it and a second one that publishes  *)
(* its outcome; the same request made while they run joins them.  A call of   *)
(* a compiler takes minutes and reads the plan long before it saves it.      *)
(***************************************************************************)
EXTENDS Naturals, Sequences, FiniteSets

CONSTANTS
    Clients,       \* connections of MCP clients
    Keys,          \* fingerprints of requests: the tool and its arguments
    EditKeys,      \* those that edit the plan; the others compile a new one
    MaxWorks,      \* bound: tasks started
    MaxVersion,    \* bound: versions of the plan the desktop adds to
    HistoryLimit,  \* TERMINAL_ACTIVITY_LIMIT
    MaxDelayed     \* bound: listings of the plans that later ones may overtake

ASSUME DetachedAssumption ==
    /\ EditKeys \subseteq Keys
    /\ MaxWorks \in Nat /\ MaxVersion \in Nat \ {0}
    /\ HistoryLimit \in Nat \ {0}
    /\ MaxDelayed \in Nat \ {0}

VARIABLES
    \* the MCP server
    inFlight,     \* compiles: the task of a fingerprint, 0 for none
    work,         \* the tasks
    waits,        \* the task whose channel a client awaits, 0 for none
    \* the activities
    rows,         \* newest first
    completions,  \* mcp_completions is not 0
    \* the store
    lineage,      \* the versions of the plan: who saved it, from which version
    deleted,      \* its directory is gone
    created,      \* plans compiled
    \* the desktop
    draft,        \* the version its own edit of the plan is based on, 0 for none
    read,         \* what listings under way have read of the MCP clients' work
    shown         \* how much of that work the overview on its screen shows

server  == <<inFlight, work, waits>>
store   == <<lineage, deleted, created>>
ledger  == <<rows, completions>>
listing == <<read, shown>>
desktop == <<draft, listing>>
vars    == <<inFlight, work, waits, rows, completions, lineage, deleted, created,
             draft, read, shown>>

Works  == 1..MaxWorks
Author == 0

Calling  == {"calling", "correcting"}
Working  == Calling \union {"saving", "ending"}
Unsettled == {"spawned", "returned"} \union Working
Outcomes == {"none", "ok", "failed", "panicked"}

NoWork == [key |-> "none", pc |-> "unused", base |-> 0, version |-> 0, outcome |-> "none"]

Init ==
    /\ inFlight = [k \in Keys |-> 0]
    /\ work  = [w \in Works |-> NoWork]
    /\ waits = [c \in Clients |-> 0]
    /\ rows = <<>> /\ completions = FALSE
    /\ lineage = <<[by |-> Author, base |-> 0]>> /\ deleted = FALSE /\ created = 0
    /\ draft = 0
    /\ read = <<>> /\ shown = 0

Goto(w, from, to) == work[w].pc = from /\ work' = [work EXCEPT ![w].pc = to]

Current == Len(lineage)
Edits(w) == work[w].key \in EditKeys

(* What MCP clients have added to the store.                                 *)
Added == created + Cardinality({v \in DOMAIN lineage : lineage[v].by # Author})

-----------------------------------------------------------------------------
(* Requests                                                                  *)

Waits(c, w) == waits' = [waits EXCEPT ![c] = w]

Join(c, k) ==
    /\ waits[c] = 0 /\ inFlight[k] # 0
    /\ Waits(c, inFlight[k])
    /\ UNCHANGED <<inFlight, work, ledger, store, desktop>>

Start(c, k) ==
    /\ waits[c] = 0 /\ inFlight[k] = 0
    /\ \E w \in Works :
        /\ work[w].pc = "unused" /\ \A v \in 1..(w - 1) : work[v].pc # "unused"
        /\ work' = [work EXCEPT ![w].key = k, ![w].pc = "spawned"]
        /\ inFlight' = [inFlight EXCEPT ![k] = w]
        /\ Waits(c, w)
    /\ UNCHANGED <<ledger, store, desktop>>

(* The client's own time limit is shorter than a compilation.                *)
Disconnect(c) ==
    /\ waits[c] # 0
    /\ Waits(c, 0)
    /\ UNCHANGED <<inFlight, work, ledger, store, desktop>>

Published == {"published", "gone"}

Answer(c) ==
    /\ waits[c] # 0 /\ work[waits[c]].pc \in Published
    /\ Waits(c, 0)
    /\ UNCHANGED <<inFlight, work, ledger, store, desktop>>

-----------------------------------------------------------------------------
(* The task                                                                  *)

(* A task that has come to an end, one way or another.                        *)
Ends(w, outcome) ==
    work' = [work EXCEPT ![w] = [key |-> @.key, pc |-> "ending", base |-> 0, version |-> 0,
                                 outcome |-> outcome]]

(* A row for the activity, then the plan as it is now.                        *)
Begin(w) ==
    /\ work[w].pc = "spawned"
    /\ rows' = <<[work |-> w, state |-> "running"]>> \o rows
    /\ IF Edits(w) /\ deleted THEN Ends(w, "failed")
       ELSE LET base == IF Edits(w) THEN Current ELSE 0
            IN  work' = [work EXCEPT ![w].pc = "calling", ![w].base = base,
                                     ![w].version = base + 1]
    /\ UNCHANGED <<inFlight, waits, completions, store, desktop>>

(* Flawed form: the corrected plan is numbered as one more edit.             *)
RenumberedVersion(w) == work[w].version + 1

(* A correction is compiled as an edit of the rejected plan, then given that  *)
(* plan's metadata: it is still the same version.                            *)
CorrectedVersion(w) == work[w].version

(* compile_validate_normalize: a plan that is not valid is corrected once, an  *)
(* error ends it (after one more call, when the answer was not a plan).        *)
Called(w) ==
    /\ work[w].pc \in Calling
    /\ \/ /\ work' = [work EXCEPT ![w].pc = "saving",
                                  ![w].version = IF work[w].pc = "correcting"
                                                 THEN CorrectedVersion(w) ELSE @]
       \/ Goto(w, "calling", "correcting")
       \/ Ends(w, "failed")
    /\ UNCHANGED <<inFlight, waits, ledger, store, desktop>>

(* Flawed form: the plan is there, whatever its version.                      *)
UncheckedSaves(version) == ~deleted

(* PlanStore::save under the mutation boundary: the first version of a plan   *)
(* that is not there, or the next one of a plan that is.                      *)
Saves(version) == ~deleted /\ version = Current + 1

Save(w) ==
    /\ work[w].pc = "saving"
    /\ IF Edits(w)
       THEN IF Saves(work[w].version)
            THEN /\ lineage' = Append(lineage, [by |-> w, base |-> work[w].base])
                 /\ Ends(w, "ok")
                 /\ UNCHANGED created
            ELSE Ends(w, "failed") /\ UNCHANGED <<lineage, created>>
       ELSE /\ created' = created + 1
            /\ Ends(w, "ok")
            /\ UNCHANGED lineage
    /\ UNCHANGED <<deleted, inFlight, waits, ledger, desktop>>

(* Flawed form: nobody looks after a task that panicked.                      *)
SilentPanic(w) ==
    /\ work[w].pc \in Working
    /\ work' = [work EXCEPT ![w].pc = "lost"]
    /\ UNCHANGED <<inFlight, waits, ledger, store, desktop>>

(* A panic anywhere ends the task; its guard still closes the row.            *)
Panic(w) ==
    /\ work[w].pc \in Working
    /\ work[w].outcome # "panicked"
    /\ Ends(w, "panicked")
    /\ UNCHANGED <<inFlight, waits, ledger, store, desktop>>

(* Flawed form: rows beyond the limit go, whatever they say.                   *)
BluntTrimmed(all) == SubSeq(all, 1, IF Len(all) > HistoryLimit THEN HistoryLimit ELSE Len(all))

(* From the oldest on, rows beyond the limit go, up to one that is running.    *)
Trimmed(all) ==
    LET kept == {n \in 0..Len(all) :
                   /\ \A i \in DOMAIN all : i > n => all[i].state # "running"
                   /\ n >= HistoryLimit \/ n = Len(all)}
    IN  SubSeq(all, 1, CHOOSE n \in kept : \A m \in kept : n <= m)

Closed(w) ==
    [i \in DOMAIN rows |->
        IF rows[i].work = w THEN [rows[i] EXCEPT !.state = "ended"] ELSE rows[i]]

Finish(w) ==
    /\ Goto(w, "ending", "returned")
    /\ rows' = Trimmed(Closed(w))
    /\ completions' = TRUE
    /\ UNCHANGED <<inFlight, waits, store, desktop>>

-----------------------------------------------------------------------------
(* The publisher                                                             *)

Publish(w) ==
    /\ Goto(w, "returned", "published")
    /\ UNCHANGED <<inFlight, waits, ledger, store, desktop>>

Deregister(w) ==
    /\ work[w].pc = "published"
    /\ work' = [work EXCEPT ![w] = [NoWork EXCEPT !.pc = "gone"]]
    /\ inFlight' = [inFlight EXCEPT ![work[w].key] = 0]
    /\ UNCHANGED <<waits, ledger, store, desktop>>

-----------------------------------------------------------------------------
(* The desktop                                                               *)

(* An edit of its own is read and compiled, and then a proposal; it goes when  *)
(* it cannot be compiled or is rejected.                                      *)
DraftEdit ==
    /\ draft = 0 /\ ~deleted
    /\ draft' = Current
    /\ UNCHANGED <<server, ledger, store, listing>>

RejectEdit ==
    /\ draft # 0
    /\ draft' = 0
    /\ UNCHANGED <<server, ledger, store, listing>>

(* Applied, or refused and still a proposal.                                  *)
ApplyEdit ==
    /\ draft # 0
    /\ Saves(draft + 1) /\ Current < MaxVersion
    /\ lineage' = Append(lineage, [by |-> Author, base |-> draft])
    /\ draft' = 0
    /\ UNCHANGED <<server, ledger, deleted, created, listing>>

(* A bundle of the same name imported as a new version: reads and saves in    *)
(* one mutation.                                                             *)
ImportVersion ==
    /\ ~deleted /\ Current < MaxVersion
    /\ lineage' = Append(lineage, [by |-> Author, base |-> Current])
    /\ UNCHANGED <<server, ledger, deleted, created, desktop>>

DeletePlan ==
    /\ ~deleted
    /\ deleted' = TRUE
    /\ UNCHANGED <<server, ledger, lineage, created, desktop>>

(* Every ListPlans is a task of its own: what it has read is shown at once, or  *)
(* after what later ones read.                                               *)
ListPlans ==
    \/ shown' = Added /\ UNCHANGED read
    \/ Len(read) < MaxDelayed /\ read' = Append(read, Added) /\ UNCHANGED shown

(* A frame drains the counter and asks for the lists.                         *)
Frame ==
    /\ completions
    /\ completions' = FALSE
    /\ ListPlans
    /\ UNCHANGED <<server, rows, store, draft>>

(* Flawed form: only the runs are listed again.                               *)
RunsOnlyRefresh == UNCHANGED vars

(* While the overview is on the screen its lists are asked for every two        *)
(* seconds, whatever has finished, and a frame is painted at least as often.    *)
BackgroundRefresh ==
    /\ ListPlans
    /\ UNCHANGED <<server, ledger, store, draft>>

ShowPlans(l) ==
    /\ l \in DOMAIN read
    /\ shown' = read[l]
    /\ read' = SubSeq(read, 1, l - 1) \o SubSeq(read, l + 1, Len(read))
    /\ UNCHANGED <<server, ledger, store, draft>>

-----------------------------------------------------------------------------
Task(w) ==
    \/ Begin(w) \/ Called(w) \/ Save(w) \/ Finish(w)
    \/ Publish(w) \/ Deregister(w)

Refresh == Frame \/ BackgroundRefresh \/ \E l \in DOMAIN read : ShowPlans(l)

Next ==
    \/ \E c \in Clients, k \in Keys : Join(c, k) \/ Start(c, k)
    \/ \E c \in Clients : Disconnect(c) \/ Answer(c)
    \/ \E w \in Works : Task(w) \/ Panic(w)
    \/ DraftEdit \/ ApplyEdit \/ RejectEdit \/ ImportVersion \/ DeletePlan
    \/ Refresh

(* The runtime goes on with every task that is ready, every call of a         *)
(* compiler has a time limit, and egui paints a frame every two seconds.       *)
Fairness ==
    /\ \A w \in Works : WF_vars(Task(w))
    /\ \A c \in Clients : WF_vars(Answer(c))
    /\ WF_vars(Frame) /\ WF_vars(BackgroundRefresh) /\ WF_vars(ShowPlans(1))

Spec == Init /\ [][Next]_vars /\ Fairness

-----------------------------------------------------------------------------
TypeOK ==
    /\ inFlight \in [Keys -> 0..MaxWorks]
    /\ work \in [Works -> [key : Keys \union {"none"},
                           pc : Unsettled \union Published \union {"unused"},
                           base : Nat, version : Nat, outcome : Outcomes]]
    /\ waits \in [Clients -> 0..MaxWorks]
    /\ rows \in Seq([work : Works, state : {"running", "ended"}])
    /\ completions \in BOOLEAN
    /\ lineage \in Seq([by : Works \union {Author}, base : Nat])
    /\ deleted \in BOOLEAN /\ created \in Nat
    /\ draft \in Nat
    /\ read \in Seq(Nat) /\ shown \in Nat

(* An identical retry never starts a second compiler: from its start until     *)
(* its outcome is published a task is the one of its fingerprint in the        *)
(* registry (McpState.compiles: "joins the detached task instead of paying for *)
(* a second compile").                                                       *)
RegistryTracksWork ==
    \A w \in Works : work[w].pc \in Unsettled => inFlight[work[w].key] = w

(* The activities that say running are those of tasks that do: an error, a     *)
(* panic or the trimming of the history leaves no phantom and drops no live    *)
(* one, and the history outgrows its limit only while something runs           *)
(* (ActivityRegistry::start, TERMINAL_ACTIVITY_LIMIT).                        *)
RowsTrackWork ==
    /\ \A w \in Works :
          work[w].pc \in Working <=>
              \E i \in DOMAIN rows : rows[i] = [work |-> w, state |-> "running"]
    /\ Len(rows) > HistoryLimit => \E i \in DOMAIN rows : rows[i].state = "running"

WorkIsTracked == RegistryTracksWork /\ RowsTrackWork

(* Nobody's change is overwritten: every version was made from the one before  *)
(* it, however long its compiler took (PlanStore::save).                       *)
VersionsFollow == \A v \in DOMAIN lineage : lineage[v].base = v - 1

(* The outcome a client is told is what happened to the plan: a success names  *)
(* a version that was saved, a failure left nothing behind; only of a panic    *)
(* is neither known (close_after_persisting).                                 *)
SavedBy(w) == \E v \in DOMAIN lineage : lineage[v].by = w
OutcomeIsTrue ==
    \A w \in Works :
        work[w].pc = "published" /\ Edits(w) =>
            /\ work[w].outcome = "ok" => SavedBy(w)
            /\ work[w].outcome = "failed" => ~SavedBy(w)

HistoryIsTrue == VersionsFollow /\ OutcomeIsTrue

(* An edit is refused when it is saved only because somebody else has changed   *)
(* or deleted the plan since it was read.                                     *)
RefusalJustified ==
    \A w \in Works :
        work[w].pc = "saving" /\ work'[w].outcome = "failed"
            => deleted \/ Current > work[w].base

RefusedOnlyWhenOvertaken == [][RefusalJustified]_vars

(* A client that stays connected gets an answer, also when the task panics.    *)
WaitersAreAnswered == \A c \in Clients : waits[c] # 0 ~> waits[c] = 0

(* What a client has made appears in the overview that stays on the screen,    *)
(* although the listing asked for at its completion may be shown first and a   *)
(* stale one after it: the next one corrects that.                            *)
OverviewCatchesUp == (shown < Added) ~> (shown = Added)
=============================================================================
