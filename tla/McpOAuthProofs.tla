--------------------------- MODULE McpOAuthProofs ---------------------------
(***************************************************************************)
(* Proofs about the shared credential of McpOAuth.  Nothing keeps operations *)
(* apart, so what one of them knows of the keyring is stated for one that no *)
(* other has overtaken (KnowsOf), and what the keyring holds in the middle of *)
(* a save or a deletion for one that has begun alone (WorkOf).               *)
(***************************************************************************)
EXTENDS McpOAuth, TLAPS

TaskStates ==
    [op : Ops \union {"none"}, client : Clients \union {"none"}, at : Points, purpose : Purposes,
     i : 0..MaxChunks + 1, n : 0..MaxChunks, seen : SUBSET (Docs \union {NoDoc}),
     doc : Docs \union {NoDoc}]

TypeInv ==
    /\ manifest \in 0..MaxChunks
    /\ chunk \in [1..MaxChunks -> Docs \union {NoDoc}]
    /\ live \subseteq Docs
    /\ issued \in 0..MaxDocs
    /\ cancels \in Tasks \union {NoTask}
    /\ woken \subseteq Tasks
    /\ task \in [Tasks -> TaskStates]
    /\ clashed \in BOOLEAN /\ overtaken \subseteq Tasks /\ faults \in 0..MaxFaults

LoadPurposes  == {"client", "production", "report", "recheck", "rebuild", "token", "refresh"}
ClearPurposes == {"production", "reset", "rebuild", "unauthorized"}

(* What an operation knows by its own doing.                                 *)
LocalOf(r) ==
    /\ r.at \notin {"idle", "done"} => r.op \in Ops /\ r.client \in Clients
    /\ r.at \in {"idle", "load"} => r.seen = {}
    /\ r.at \in {"load", "read", "loaded"} => r.purpose \in LoadPurposes
    /\ r.at \in {"clear", "delete"} => r.purpose \in ClearPurposes
    /\ r.at = "read" => 1 <= r.i /\ r.i <= r.n
    /\ r.at = "save" => r.doc \in Docs /\ 1 <= r.i /\ r.i <= r.doc.size
    /\ r.at = "write" => r.doc \in Docs
    /\ r.at = "trim" => r.doc \in Docs /\ r.doc.size < r.i
    /\ r.at = "delete" => 1 <= r.i

LocalInv == \A t \in Tasks : LocalOf(task[t])

(* A flow that waits is the one that can be cancelled, or has been.          *)
OAuthInv == TypeInv /\ LocalInv /\ PendingFlowCanBeCancelled

HeldIn(d, m, c) == m = d.size /\ \A i \in 1..MaxChunks : i <= d.size => c[i] = d

(* What an operation knows of the manifest m, the chunks c and the documents l *)
(* that the server honours, as long as no other has written since its load.  *)
KnowsOf(r, m, c, l) ==
    /\ r.at = "read"     => r.n = m /\ r.seen = {c[j] : j \in 1..(r.i - 1)}
    /\ r.at = "loaded"   => r.seen = {c[j] : j \in 1..m}
    /\ r.at = "exchange" => \A d \in Docs : HeldIn(d, m, c) => d = r.doc
    /\ r.at \in {"clear", "delete"} /\ r.purpose = "unauthorized"
                         => \A d \in l : ~HeldIn(d, m, c)

(* What the keyring holds in the middle of a save or a deletion, if no other    *)
(* is under way.                                                             *)
WorkOf(r, m, c) ==
    /\ r.at = "save"     => /\ \A j \in 1..MaxChunks : j < r.i => c[j] = r.doc
                            /\ \A j \in 1..MaxChunks : r.i <= j /\ r.n < j => c[j] = NoDoc
    /\ r.at = "write"    => /\ \A j \in 1..MaxChunks : j <= r.doc.size => c[j] = r.doc
                            /\ \A j \in 1..MaxChunks : r.doc.size < j /\ r.n < j => c[j] = NoDoc
    /\ r.at = "trim"     => /\ m = r.doc.size
                            /\ \A j \in 1..MaxChunks : j <= r.doc.size => c[j] = r.doc
                            /\ \A j \in 1..MaxChunks :
                                  r.doc.size < j /\ (j < r.i \/ r.n < j) => c[j] = NoDoc
    /\ r.at = "delete"   => \A j \in 1..MaxChunks : j < r.i \/ r.n < j => c[j] = NoDoc

Whole(m, c) ==
    \E d \in Docs \union {NoDoc} :
        HeldIn(d, m, c) /\ \A i \in 1..MaxChunks : i > d.size => c[i] = NoDoc

(* A document the server has yet to issue is nowhere.                        *)
IdsInv ==
    /\ \A j \in 1..MaxChunks : chunk[j].id <= issued
    /\ \A t \in Tasks : task[t].at = "save" => task[t].doc.id <= issued

ReadInv == \A t \in Tasks \ overtaken : KnowsOf(task[t], manifest, chunk, live)

WriteInv ==
    ~clashed =>
        /\ \A t, u \in Writers : t = u
        /\ faults = 0 => /\ \A t \in Tasks : WorkOf(task[t], manifest, chunk)
                         /\ Writers = {} => Whole(manifest, chunk)

VaultInv == IdsInv /\ ReadInv /\ WriteInv

-----------------------------------------------------------------------------
(* Documents: what the server issues is one, and none is the empty one.      *)
LEMMA NoDocIsNone ==
    /\ NoDoc \notin Docs
    /\ NoDoc.size = 0
    /\ \A d \in Docs : d.size \in 1..MaxChunks
BY OAuthAssumption DEF NoDoc, Docs

(* A step that sets one task keeps the types and the local knowledge of all,  *)
(* if the new state has them.                                                *)
LEMMA SetKeeps ==
    ASSUME TypeInv, LocalInv, NEW t \in Tasks, NEW new \in TaskStates, LocalOf(new), Set(t, new)
    PROVE  /\ task' \in [Tasks -> TaskStates] /\ LocalInv'
           /\ task'[t] = new /\ \A u \in Tasks \ {t} : task'[u] = task[u]
<1>1. /\ task' \in [Tasks -> TaskStates]
      /\ task'[t] = new /\ \A u \in Tasks \ {t} : task'[u] = task[u]
  BY DEF TypeInv, Set
<1>2. \A u \in Tasks : LocalOf(task'[u])
  BY <1>1 DEF LocalInv
<1> QED
  BY <1>1, <1>2 DEF LocalInv, LocalOf

(* Flows that wait keep their sender, when a step takes none away.           *)
LEMMA WaitingKept ==
    ASSUME TypeInv, PendingFlowCanBeCancelled, NEW t \in Tasks,
           \A u \in Tasks \ {t} : task'[u] = task[u], task'[t].at # "waiting",
           UNCHANGED flows
    PROVE  PendingFlowCanBeCancelled'
BY DEF PendingFlowCanBeCancelled, At, flows

-----------------------------------------------------------------------------
(* Types, local knowledge and waiting flows, for the states that steps set    *)
(* a task to.                                                                *)
LEMMA OverIsTyped == Over \in TaskStates /\ LocalOf(Over) /\ Over.at = "done"
BY OAuthAssumption DEF Over, Resting, TaskStates, LocalOf, Points, Purposes

LEMMA LoadIsTyped ==
    ASSUME TypeInv, NEW t \in Tasks, task[t].op \in Ops, task[t].client \in Clients,
           NEW purpose \in LoadPurposes
    PROVE  /\ Load(t, purpose) \in TaskStates /\ LocalOf(Load(t, purpose))
           /\ Load(t, purpose).at = "load"
<1> DEFINE r == [task[t] EXCEPT !.at = "load", !.purpose = purpose, !.seen = {}, !.doc = NoDoc]
<1>1. task[t] \in TaskStates
  BY DEF TypeInv
<1>2. purpose \in Purposes /\ "load" \in Points
  BY DEF LoadPurposes, Purposes, Points
<1>3. /\ r \in TaskStates
      /\ r.at = "load" /\ r.purpose = purpose /\ r.seen = {}
      /\ r.op = task[t].op /\ r.client = task[t].client
  BY <1>1, <1>2 DEF TaskStates
<1>4. Load(t, purpose) = r
  BY DEF Load
<1> HIDE DEF r
<1> QED
  BY <1>3, <1>4 DEF LocalOf

LEMMA ClearIsTyped ==
    ASSUME TypeInv, NEW t \in Tasks, task[t].op \in Ops, task[t].client \in Clients,
           NEW purpose \in ClearPurposes
    PROVE  /\ Clear(t, purpose) \in TaskStates /\ LocalOf(Clear(t, purpose))
           /\ Clear(t, purpose).at = "clear"
<1> DEFINE r == [task[t] EXCEPT !.at = "clear", !.purpose = purpose, !.seen = {}, !.doc = NoDoc]
<1>1. task[t] \in TaskStates
  BY DEF TypeInv
<1>2. purpose \in Purposes /\ "clear" \in Points
  BY DEF ClearPurposes, Purposes, Points
<1>3. /\ r \in TaskStates
      /\ r.at = "clear" /\ r.purpose = purpose /\ r.seen = {}
      /\ r.op = task[t].op /\ r.client = task[t].client
  BY <1>1, <1>2 DEF TaskStates
<1>4. Clear(t, purpose) = r
  BY DEF Clear
<1> HIDE DEF r
<1> QED
  BY <1>3, <1>4 DEF LocalOf

LEMMA SaveIsTyped ==
    ASSUME TypeInv, NEW t \in Tasks, task[t].op \in Ops, task[t].client \in Clients,
           NEW doc \in Docs
    PROVE  /\ Save(t, doc) \in TaskStates /\ LocalOf(Save(t, doc))
           /\ Save(t, doc).at = "save"
<1> DEFINE r == task[t]
<1>1. Save(t, doc) \in TaskStates
  <2>1. r \in TaskStates /\ manifest \in 0..MaxChunks
    BY DEF TypeInv
  <2>2. 1 \in 0..MaxChunks + 1
    BY OAuthAssumption
  <2>3. "save" \in Points /\ {} \in SUBSET (Docs \union {NoDoc}) /\ doc \in Docs \union {NoDoc}
    BY DEF Points
  <2> QED
    BY <2>1, <2>2, <2>3 DEF TaskStates, Save
<1>2. doc.size \in Nat /\ 1 <= doc.size
  BY NoDocIsNone, OAuthAssumption
<1> QED
  BY <1>1, <1>2 DEF TypeInv, TaskStates, Save, LocalOf

LEMMA NewDocIsADoc ==
    ASSUME TypeInv, NEW t \in Tasks, task[t].client \in Clients, CanIssue, NEW size \in 1..MaxChunks
    PROVE  NewDoc(t, size) \in Docs
BY OAuthAssumption DEF TypeInv, NewDoc, CanIssue, Docs

(* The document a load has found is one, or there is none.                   *)
LEMMA ParsedIsTyped ==
    ASSUME TypeInv, NEW t \in Tasks
    PROVE  Parsed(t) \subseteq Docs \union {NoDoc}
BY DEF TypeInv, Parsed, TaskStates

(* A step of task t that sets it to a state of its kind, waits for nothing,   *)
(* and changes of the shared variables only what keeps their types.          *)
SharedTyped ==
    /\ manifest \in 0..MaxChunks
    /\ chunk \in [1..MaxChunks -> Docs \union {NoDoc}]
    /\ live \subseteq Docs
    /\ issued \in 0..MaxDocs

LEMMA HistoryTyped ==
    ASSUME TypeInv, NEW t \in Tasks,
           UNCHANGED history \/ Enters(t) \/ Reads(t) \/ Overtake(t)
    PROVE  clashed' \in BOOLEAN /\ overtaken' \subseteq Tasks /\ faults' \in 0..MaxFaults
<1>1. overtaken' \subseteq Tasks /\ faults' \in 0..MaxFaults
  BY DEF TypeInv, history, Enters, Reads, Overtake, Others
<1>2. clashed' \in BOOLEAN
  BY ZenonT(30) DEF TypeInv, history, Enters, Reads, Overtake
<1> QED
  BY <1>1, <1>2

LEMMA StepKeeps ==
    ASSUME OAuthInv, NEW t \in Tasks, NEW new \in TaskStates, LocalOf(new), new.at # "waiting",
           Set(t, new), UNCHANGED flows, SharedTyped',
           UNCHANGED history \/ Enters(t) \/ Reads(t) \/ Overtake(t)
    PROVE  OAuthInv'
<1>1. /\ task' \in [Tasks -> TaskStates] /\ LocalInv'
      /\ task'[t] = new /\ \A u \in Tasks \ {t} : task'[u] = task[u]
  BY SetKeeps DEF OAuthInv
<1>2. PendingFlowCanBeCancelled'
  BY <1>1, WaitingKept DEF OAuthInv
<1>3. TypeInv'
  BY <1>1, HistoryTyped DEF OAuthInv, TypeInv, SharedTyped, flows
<1> QED
  BY <1>1, <1>2, <1>3 DEF OAuthInv

(* The keyring's steps.                                                      *)
LEMMA KeyringKeeps ==
    ASSUME OAuthInv, NEW t \in Tasks, Keyring(t)
    PROVE  OAuthInv'
<1> USE DEF OAuthInv
<1> DEFINE r == task[t]
<1>1. r \in TaskStates /\ LocalOf(r)
  BY DEF TypeInv, LocalInv
<1>2. CASE ReadManifest(t)
  <2> DEFINE new == [r EXCEPT !.at = IF manifest = 0 THEN "loaded" ELSE "read", !.i = 1, !.n = manifest]
  <2>1. new \in TaskStates /\ LocalOf(new) /\ new.at # "waiting"
    <3>1. new \in TaskStates
      <4>1. manifest \in 0..MaxChunks /\ 1 \in 0..MaxChunks + 1
        BY OAuthAssumption DEF TypeInv
      <4> QED
        BY <1>1, <4>1 DEF TaskStates, Points
    <3>2. LocalOf(new) /\ new.at # "waiting"
      BY <1>1, <1>2, OAuthAssumption DEF ReadManifest, At, TypeInv, TaskStates, LocalOf
    <3> QED
      BY <3>1, <3>2
  <2> QED
    BY <1>2, <2>1, StepKeeps DEF ReadManifest, vault, TypeInv, SharedTyped
<1>3. CASE ReadChunk(t)
  <2> DEFINE go == [r EXCEPT !.seen = @ \union {chunk[r.i]}, !.i = r.i + 1,
                             !.at = IF r.i = r.n THEN "loaded" ELSE "read"]
             new == IF chunk[r.i] = NoDoc THEN Over ELSE go
  <2>1. go \in TaskStates /\ LocalOf(go) /\ go.at # "waiting"
    <3>1. r.at = "read" /\ 1 <= r.i /\ r.i <= r.n
      BY <1>1, <1>3 DEF ReadChunk, At, LocalOf
    <3>2. r.i \in 1..MaxChunks /\ r.i + 1 \in 0..MaxChunks + 1
      BY <1>1, <3>1, OAuthAssumption DEF TaskStates
    <3>3. r.seen \union {chunk[r.i]} \in SUBSET (Docs \union {NoDoc})
      BY <1>1, <3>2 DEF TypeInv, TaskStates
    <3>4. go \in TaskStates
      BY <1>1, <3>2, <3>3 DEF TaskStates, Points
    <3> QED
      BY <1>1, <3>1, <3>2, <3>4 DEF TaskStates, LocalOf
  <2>2. new \in TaskStates /\ LocalOf(new) /\ new.at # "waiting"
    BY <2>1, OverIsTyped
  <2>3. Set(t, new)
    BY <1>3 DEF ReadChunk
  <2> HIDE DEF new
  <2> QED
    BY <1>3, <2>2, <2>3, StepKeeps DEF ReadChunk, vault, TypeInv, SharedTyped
<1>4. CASE WriteChunk(t)
  <2> DEFINE new == [r EXCEPT !.i = r.i + 1, !.at = IF r.i = r.doc.size THEN "write" ELSE "save"]
  <2>1. new \in TaskStates /\ LocalOf(new) /\ new.at # "waiting"
    <3>1. /\ r.at = "save" /\ r.doc \in Docs
          /\ r.doc.size \in 1..MaxChunks /\ 1 <= r.i /\ r.i <= r.doc.size
      BY <1>1, <1>4, NoDocIsNone DEF WriteChunk, At, LocalOf
    <3>2. r.i + 1 \in 0..MaxChunks + 1
      BY <1>1, <3>1, OAuthAssumption DEF TaskStates
    <3>3. new \in TaskStates
      BY <1>1, <3>2 DEF TaskStates, Points
    <3> QED
      BY <1>1, <3>1, <3>2, <3>3 DEF TaskStates, LocalOf
  <2>2. SharedTyped'
    BY <1>1, <1>4, NoDocIsNone, OAuthAssumption
       DEF WriteChunk, At, TypeInv, SharedTyped, TaskStates, LocalOf
  <2> QED
    BY <1>4, <2>1, <2>2, StepKeeps DEF WriteChunk
<1>5. CASE WriteManifest(t)
  <2> DEFINE new == [r EXCEPT !.at = "trim", !.i = r.doc.size + 1]
  <2>1. new \in TaskStates /\ LocalOf(new) /\ new.at # "waiting"
    <3>1. /\ r.at = "write" /\ r.doc \in Docs
          /\ r.doc.size \in 1..MaxChunks
      BY <1>1, <1>5, NoDocIsNone DEF WriteManifest, At, LocalOf
    <3>2. r.doc.size + 1 \in 0..MaxChunks + 1
      BY <1>1, <3>1, OAuthAssumption DEF TaskStates
    <3>3. new \in TaskStates
      BY <1>1, <3>2 DEF TaskStates, Points
    <3> QED
      BY <1>1, <3>1, <3>2, <3>3 DEF TaskStates, LocalOf
  <2>2. SharedTyped'
    BY <1>1, <1>5, NoDocIsNone, OAuthAssumption
       DEF WriteManifest, At, TypeInv, SharedTyped, TaskStates, LocalOf
  <2> QED
    BY <1>5, <2>1, <2>2, StepKeeps DEF WriteManifest
<1>6. CASE Trim(t)
  <2>1. CASE r.i <= r.n
    <3> DEFINE new == [r EXCEPT !.i = r.i + 1]
    <3>1. new \in TaskStates /\ LocalOf(new) /\ new.at # "waiting"
      BY <1>1, <1>6, <2>1, NoDocIsNone, OAuthAssumption DEF Trim, At, TaskStates, LocalOf, Points
    <3>2. SharedTyped'
      BY <1>6, <2>1 DEF Trim, TypeInv, SharedTyped
    <3> QED
      BY <1>6, <2>1, <3>1, <3>2, StepKeeps DEF Trim
  <2>2. CASE ~(r.i <= r.n)
    <3>1. \A next \in Saved(t) : next \in TaskStates /\ LocalOf(next) /\ next.at # "waiting"
      <4> DEFINE ending == [r EXCEPT !.at = "ending", !.purpose = "report", !.doc = NoDoc,
                                     !.i = 0, !.n = 0]
      <4>1. 0 \in 0..MaxChunks + 1 /\ 0 \in 0..MaxChunks
        BY OAuthAssumption
      <4>2. ending \in TaskStates
        BY <1>1, <4>1 DEF TaskStates, Points, Purposes
      <4>3. r.op \in Ops /\ r.client \in Clients
        BY <1>1, <1>6 DEF Trim, At, LocalOf
      <4>4. LocalOf(ending) /\ ending.at # "waiting"
        BY <1>1, <4>3 DEF TaskStates, LocalOf
      <4>5. /\ Load(t, "token") \in TaskStates /\ LocalOf(Load(t, "token"))
            /\ Load(t, "token").at = "load"
        BY <4>3, LoadIsTyped DEF LoadPurposes
      <4> QED
        BY <4>2, <4>4, <4>5, OverIsTyped DEF Saved
    <3>2. /\ \E next \in Saved(t) : Set(t, next)
          /\ UNCHANGED <<manifest, chunk, live, issued, flows, history>>
      BY <1>6, <2>2 DEF Trim
    <3> QED
      BY <3>1, <3>2, StepKeeps DEF TypeInv, SharedTyped
  <2> QED
    BY <2>1, <2>2
<1>7. CASE CountToClear(t)
  <2> DEFINE new == [r EXCEPT !.at = "delete", !.i = 1, !.n = manifest]
  <2>1. new \in TaskStates /\ LocalOf(new) /\ new.at # "waiting"
    <3>1. new \in TaskStates
      <4>1. manifest \in 0..MaxChunks /\ 1 \in 0..MaxChunks + 1
        BY OAuthAssumption DEF TypeInv
      <4> QED
        BY <1>1, <4>1 DEF TaskStates, Points
    <3>2. r.at = "clear"
      BY <1>7 DEF CountToClear, At
    <3> QED
      BY <1>1, <3>1, <3>2 DEF TaskStates, LocalOf
  <2> QED
    BY <1>7, <2>1, StepKeeps DEF CountToClear, vault, TypeInv, SharedTyped
<1>8. CASE DeleteEntry(t)
  <2>1. CASE r.i <= r.n
    <3> DEFINE new == [r EXCEPT !.i = r.i + 1]
    <3>1. new \in TaskStates /\ LocalOf(new) /\ new.at # "waiting"
      BY <1>1, <1>8, <2>1, OAuthAssumption DEF DeleteEntry, At, TaskStates, LocalOf, Points
    <3>2. SharedTyped'
      BY <1>8, <2>1 DEF DeleteEntry, TypeInv, SharedTyped
    <3> QED
      BY <1>8, <2>1, <3>1, <3>2, StepKeeps DEF DeleteEntry
  <2>2. CASE ~(r.i <= r.n)
    <3>1. r.op \in Ops /\ r.client \in Clients /\ r.purpose \in ClearPurposes
      BY <1>1, <1>8 DEF DeleteEntry, At, LocalOf
    <3>2. Cleared(t) \in TaskStates /\ LocalOf(Cleared(t)) /\ Cleared(t).at # "waiting"
      <4>1. CASE r.purpose = "unauthorized"
        BY <4>1, OverIsTyped DEF Cleared
      <4>2. CASE r.purpose # "unauthorized"
        <5> DEFINE purpose == IF r.purpose = "reset" THEN "recheck" ELSE r.purpose
        <5>1. purpose \in LoadPurposes
          BY <3>1, <4>2 DEF ClearPurposes, LoadPurposes
        <5>2. Cleared(t) = Load(t, purpose)
          BY <3>1, <4>2 DEF Cleared, ClearPurposes
        <5> HIDE DEF purpose
        <5> QED
          BY <3>1, <5>1, <5>2, LoadIsTyped
      <4> QED
        BY <4>1, <4>2
    <3> QED
      <4>1. SharedTyped'
        BY <1>8, <2>2, OAuthAssumption DEF DeleteEntry, TypeInv, SharedTyped
      <4> QED
        BY <1>8, <2>2, <3>2, <4>1, StepKeeps DEF DeleteEntry
  <2> QED
    BY <2>1, <2>2
<1> QED
  BY <1>2, <1>3, <1>4, <1>5, <1>6, <1>7, <1>8 DEF Keyring

(* What follows a load.                                                      *)
LEMMA UseKeeps ==
    ASSUME OAuthInv, NEW t \in Tasks, Loaded(t)
    PROVE  OAuthInv'
<1> USE DEF OAuthInv
<1> DEFINE r == task[t]
<1>1. /\ r \in TaskStates /\ LocalOf(r)
      /\ r.op \in Ops /\ r.client \in Clients /\ r.purpose \in LoadPurposes
  BY DEF TypeInv, LocalInv, LocalOf, Loaded, At
<1>2. SharedTyped' /\ UNCHANGED history
  BY DEF Loaded, TypeInv, SharedTyped, vault
<1>3. PICK doc \in Parsed(t) :
          IF r.purpose = "production" /\ r.op = "connect"
          THEN Begin(t) ELSE Use(t, doc) /\ UNCHANGED flows
  BY DEF Loaded
<1>4. doc \in Docs \union {NoDoc}
  BY ParsedIsTyped
<1>5. CASE r.purpose = "production" /\ r.op = "connect"
  <2> DEFINE new == [r EXCEPT !.at = "waiting", !.purpose = "finish", !.i = 0, !.n = 0, !.seen = {}]
  <2>1. Begin(t)
    BY <1>3, <1>5
  <2>2. new \in TaskStates
    <3>1. 0 \in 0..MaxChunks + 1 /\ 0 \in 0..MaxChunks
      BY OAuthAssumption
    <3> QED
      BY <1>1, <3>1 DEF TaskStates, Points, Purposes
  <2>3. LocalOf(new)
    BY <1>1 DEF TaskStates, LocalOf
  <2>4. /\ task' \in [Tasks -> TaskStates] /\ LocalInv'
        /\ \A u \in Tasks \ {t} : task'[u] = task[u]
    BY <2>1, <2>2, <2>3, SetKeeps DEF Begin
  <2>5. PendingFlowCanBeCancelled'
    BY <2>1, <2>4, OAuthAssumption DEF Begin, PendingFlowCanBeCancelled, At
  <2> QED
    BY <1>2, <2>1, <2>4, <2>5, HistoryTyped DEF Begin, TypeInv, SharedTyped
<1>6. CASE ~(r.purpose = "production" /\ r.op = "connect")
  <2>1. Use(t, doc) /\ UNCHANGED flows
    BY <1>3, <1>6
  <2>2. \A new \in TaskStates : LocalOf(new) /\ new.at # "waiting" /\ Set(t, new) => OAuthInv'
    BY <1>2, <2>1, StepKeeps
  <2>3. \A purpose \in LoadPurposes : ~Set(t, Load(t, purpose)) \/ OAuthInv'
    BY <1>1, <2>2, LoadIsTyped
  <2>4. \A purpose \in ClearPurposes : ~Set(t, Clear(t, purpose)) \/ OAuthInv'
    BY <1>1, <2>2, ClearIsTyped
  <2>5. ~Set(t, Over) \/ OAuthInv'
    BY <2>2, OverIsTyped
  <2>6. ~Set(t, [r EXCEPT !.at = "call", !.seen = {}]) \/ OAuthInv'
    <3> DEFINE new == [r EXCEPT !.at = "call", !.seen = {}]
    <3>1. new \in TaskStates
      BY <1>1 DEF TaskStates, Points
    <3>2. LocalOf(new) /\ new.at # "waiting"
      BY <1>1 DEF TaskStates, LocalOf
    <3> QED
      BY <2>2, <3>1, <3>2
  <2>7. ~Set(t, [r EXCEPT !.at = "exchange", !.doc = doc, !.seen = {}]) \/ OAuthInv'
    <3> DEFINE new == [r EXCEPT !.at = "exchange", !.doc = doc, !.seen = {}]
    <3>1. new \in TaskStates
      BY <1>1, <1>4 DEF TaskStates, Points
    <3>2. LocalOf(new) /\ new.at # "waiting"
      BY <1>1 DEF TaskStates, LocalOf
    <3> QED
      BY <2>2, <3>1, <3>2
  <2> QED
    BY <1>1, <1>6, <2>1, <2>3, <2>4, <2>5, <2>6, <2>7
       DEF Use, Rebuild, LoadPurposes, ClearPurposes, Ops
<1> QED
  BY <1>5, <1>6

(* The other steps of an operation.                                          *)
LEMMA OperationKeeps ==
    ASSUME OAuthInv, NEW t \in Tasks,
           \/ Invalid(t) \/ Called(t) \/ Refresh(t) \/ Issue(t) \/ Rejected(t)
           \/ ExchangeFails(t) \/ NoCallback(t) \/ Cancelled(t)
           \/ \E o \in Ops, c \in Clients : Start(t, o, c)
    PROVE  OAuthInv'
<1> USE DEF OAuthInv
<1> DEFINE r == task[t]
<1>1. r \in TaskStates /\ LocalOf(r)
  BY DEF TypeInv, LocalInv
<1>2. SharedTyped /\ MaxDocs \in Nat
  BY OAuthAssumption DEF TypeInv, SharedTyped
<1>3. CASE Invalid(t) \/ Called(t) \/ ExchangeFails(t)
  <2>1. Set(t, Over) /\ UNCHANGED <<vault, issued, flows, history>> /\ live' \subseteq live
    BY <1>3 DEF Invalid, Called, ExchangeFails
  <2> QED
    BY <1>2, <2>1, OverIsTyped, StepKeeps DEF SharedTyped, vault
<1>4. CASE Refresh(t)
  <2>1. r.op \in Ops /\ r.client \in Clients
    BY <1>1, <1>4 DEF Refresh, At, LocalOf
  <2>2. Load(t, "refresh") \in TaskStates /\ LocalOf(Load(t, "refresh")) /\ Load(t, "refresh").at = "load"
    BY <2>1, LoadIsTyped DEF LoadPurposes
  <2> QED
    BY <1>2, <1>4, <2>2, StepKeeps DEF Refresh, SharedTyped, vault
<1>5. CASE Rejected(t)
  <2>1. r.op \in Ops /\ r.client \in Clients
    BY <1>1, <1>5 DEF Rejected, At, LocalOf
  <2> DEFINE new == Clear(t, "unauthorized")
  <2>2. new \in TaskStates /\ LocalOf(new) /\ new.at = "clear"
    BY <2>1, ClearIsTyped DEF ClearPurposes
  <2> QED
    BY <1>2, <1>5, <2>2, StepKeeps DEF Rejected, SharedTyped, vault
<1>6. CASE Issue(t)
  <2>1. PICK size \in 1..MaxChunks : Exchange(t, size) \/ Callback(t, size)
    BY <1>6 DEF Issue
  <2>2. r.op \in Ops /\ r.client \in Clients
    BY <1>1, <2>1 DEF Exchange, Callback, At, LocalOf
  <2>3. NewDoc(t, size) \in Docs
    BY <2>1, <2>2, NewDocIsADoc DEF Exchange, Callback
  <2>4. /\ Save(t, NewDoc(t, size)) \in TaskStates /\ LocalOf(Save(t, NewDoc(t, size)))
        /\ Save(t, NewDoc(t, size)).at = "save"
    BY <2>2, <2>3, SaveIsTyped
  <2>5. /\ live' \subseteq Docs /\ issued' \in 0..MaxDocs
        /\ Set(t, Save(t, NewDoc(t, size))) /\ UNCHANGED <<vault, flows>> /\ Enters(t)
    BY <1>2, <2>1, <2>3 DEF Exchange, Callback, CanIssue, SharedTyped
  <2> QED
    BY <1>2, <2>4, <2>5, StepKeeps DEF SharedTyped, vault
<1>7. CASE NoCallback(t) \/ Cancelled(t)
  <2>1. r.op \in Ops /\ r.client \in Clients
    BY <1>1, <1>7 DEF NoCallback, Cancelled, At, LocalOf
  <2>2. GiveUp(t) \in TaskStates
    BY <1>1 DEF GiveUp, TaskStates, Points, Purposes
  <2>3. LocalOf(GiveUp(t)) /\ GiveUp(t).at # "waiting"
    BY <1>1, <2>1 DEF GiveUp, TaskStates, LocalOf
  <2> QED
    BY <1>2, <1>7, <2>2, <2>3, StepKeeps DEF NoCallback, Cancelled, SharedTyped, vault
<1>8. CASE \E o \in Ops, c \in Clients : Start(t, o, c)
  <2>1. PICK o \in Ops, c \in Clients : Start(t, o, c)
    BY <1>8
  <2> DEFINE new == [r EXCEPT !.op = o, !.client = c, !.at = "load", !.purpose = "client"]
  <2>2. new \in TaskStates
    BY <1>1 DEF TaskStates, Points, Purposes
  <2>3. LocalOf(new) /\ new.at # "waiting"
    <3>1. r.seen = {}
      BY <1>1, <2>1 DEF Start, At, LocalOf
    <3> QED
      BY <1>1, <3>1 DEF TaskStates, LocalOf, LoadPurposes
  <2> QED
    BY <1>2, <2>1, <2>2, <2>3, StepKeeps DEF Start, SharedTyped, vault
<1> QED
  BY <1>3, <1>4, <1>5, <1>6, <1>7, <1>8

(* The steps that change the map of cancellations.                           *)
LEMMA FlowsKeep ==
    ASSUME OAuthInv, NEW t \in Tasks, Unregister(t) \/ Interrupt(t)
    PROVE  OAuthInv'
<1> USE DEF OAuthInv
<1> DEFINE r   == task[t]
           new == IF Unregister(t) /\ r.purpose = "report" THEN Load(t, "report") ELSE Over
<1>1. r \in TaskStates /\ LocalOf(r)
  BY DEF TypeInv, LocalInv
<1>2. new \in TaskStates /\ LocalOf(new) /\ new.at # "waiting"
  <2>1. CASE Unregister(t)
    <3>1. r.op \in Ops /\ r.client \in Clients
      BY <1>1, <2>1 DEF Unregister, At, LocalOf
    <3>2. /\ Load(t, "report") \in TaskStates /\ LocalOf(Load(t, "report"))
          /\ Load(t, "report").at = "load"
      BY <3>1, LoadIsTyped DEF LoadPurposes
    <3> QED
      BY <3>2, OverIsTyped
  <2> QED
    BY <2>1, OverIsTyped
<1>3. Set(t, new)
  <2>1. CASE Unregister(t)
    BY <2>1 DEF Unregister
  <2>2. CASE ~Unregister(t)
    BY <2>2 DEF Interrupt
  <2> QED
    BY <2>1, <2>2
<1> HIDE DEF new
<1>4. /\ task' \in [Tasks -> TaskStates] /\ LocalInv'
      /\ task'[t] = new /\ \A u \in Tasks \ {t} : task'[u] = task[u]
  BY <1>2, <1>3, SetKeeps
<1>5. PendingFlowCanBeCancelled'
  BY <1>2, <1>4, OAuthAssumption DEF Unregister, Interrupt, PendingFlowCanBeCancelled, At, TypeInv
<1>6. /\ UNCHANGED <<vault, live, issued, clashed, overtaken>> /\ faults' \in 0..MaxFaults
      /\ cancels' \in Tasks \union {NoTask} /\ woken' \subseteq Tasks
  BY OAuthAssumption DEF Unregister, Interrupt, TypeInv, vault, history
<1> QED
  BY <1>4, <1>5, <1>6 DEF TypeInv, vault

LEMMA OAuthStep ==
    ASSUME OAuthInv, [Next]_vars
    PROVE  OAuthInv'
<1>1. CASE UNCHANGED vars
  BY <1>1 DEF vars, OAuthInv, TypeInv, LocalInv, LocalOf, PendingFlowCanBeCancelled, At
<1>2. CASE Cancel
  BY <1>2, OAuthAssumption
     DEF Cancel, vault, history, OAuthInv, TypeInv, LocalInv, LocalOf, PendingFlowCanBeCancelled, At
<1>3. CASE Revoke
  BY <1>3 DEF Revoke, vault, flows, history, OAuthInv, TypeInv, LocalInv, LocalOf, PendingFlowCanBeCancelled, At
<1>4. ASSUME NEW t \in Tasks, Continue(t) \/ Interrupt(t) \/ \E o \in Ops, c \in Clients : Start(t, o, c)
      PROVE  OAuthInv'
  BY <1>4, KeyringKeeps, UseKeeps, OperationKeeps, FlowsKeep DEF Continue
<1> QED
  BY <1>1, <1>2, <1>3, <1>4 DEF Next

LEMMA OAuthInit == Init => OAuthInv
<1> SUFFICES ASSUME Init PROVE OAuthInv
  OBVIOUS
<1>1. Resting("idle") \in TaskStates /\ LocalOf(Resting("idle")) /\ Resting("idle").at = "idle"
  BY OAuthAssumption DEF Resting, TaskStates, LocalOf, Points, Purposes
<1>2. PICK first \in Docs \union {NoDoc} :
          /\ manifest = first.size
          /\ chunk = [i \in 1..MaxChunks |-> IF i <= first.size THEN first ELSE NoDoc]
          /\ live = {first} \ {NoDoc}
          /\ issued = first.id
  BY DEF Init
<1>3. manifest \in 0..MaxChunks /\ issued \in 0..MaxDocs
  BY <1>2, NoDocIsNone, OAuthAssumption DEF Docs, NoDoc
<1>4. chunk \in [1..MaxChunks -> Docs \union {NoDoc}] /\ live \subseteq Docs
  BY <1>2
<1>5. task \in [Tasks -> TaskStates] /\ \A t \in Tasks : task[t] = Resting("idle")
  BY <1>1 DEF Init
<1>6. cancels = NoTask /\ woken = {} /\ clashed = FALSE /\ overtaken = {} /\ faults = 0
  BY DEF Init
<1>7. faults \in 0..MaxFaults
  BY <1>6, OAuthAssumption
<1>8. TypeInv
  BY <1>3, <1>4, <1>5, <1>6, <1>7 DEF TypeInv
<1> QED
  BY <1>1, <1>5, <1>8 DEF OAuthInv, LocalInv, PendingFlowCanBeCancelled, At

-----------------------------------------------------------------------------
(* The vault                                                                 *)

(* A step of one operation keeps the invariant, if the others that know of the  *)
(* vault are marked when it changes, only a writer changes it, and the        *)
(* operation knows what its new point needs.                                 *)
LEMMA VaultStepKeeps ==
    ASSUME TypeInv, VaultInv, NEW t \in Tasks, NEW new, Set(t, new), faults' = faults,
           clashed => clashed',
           \A u \in Tasks \ {t} : u \in overtaken => u \in overtaken',
           \/ UNCHANGED <<manifest, chunk>>
           \/ /\ task[t].at \in Writing
              /\ \A u \in Tasks \ {t} : task[u].at \in Knowing => u \in overtaken',
           issued' \in Nat, issued <= issued',
           \A d \in live' : d \in live \/ (d \in Docs /\ d.id > issued),
           \A j \in 1..MaxChunks : chunk'[j].id <= issued',
           new.at = "save" => new.doc.id <= issued',
           t \notin overtaken' => KnowsOf(new, manifest', chunk', live'),
           new.at \in Writing /\ task[t].at \notin Writing => clashed' \/ Writers \ {t} = {},
           faults = 0 /\ ~clashed' /\ (task[t].at \in Writing \/ new.at \in Writing)
               => /\ WorkOf(new, manifest', chunk')
                  /\ new.at \notin Writing => Whole(manifest', chunk')
    PROVE  VaultInv'
<1>1. task'[t] = new /\ \A u \in Tasks \ {t} : task'[u] = task[u]
  BY DEF TypeInv, Set
<1>2. IdsInv'
  <2>1. ASSUME NEW u \in Tasks, task'[u].at = "save"
        PROVE  task'[u].doc.id <= issued'
    <3>1. CASE u = t
      BY <1>1, <2>1, <3>1
    <3>2. CASE u # t
      <4>1. task[u].doc \in Docs \union {NoDoc} /\ task[u].doc.id <= issued
        BY <1>1, <2>1, <3>2 DEF VaultInv, IdsInv, TypeInv, TaskStates
      <4>2. task[u].doc.id \in Nat /\ issued \in Nat
        BY <4>1, OAuthAssumption DEF Docs, NoDoc, TypeInv
      <4> QED
        BY <1>1, <3>2, <4>1, <4>2
    <3> QED
      BY <3>1, <3>2
  <2> QED
    BY <2>1 DEF IdsInv
<1>3. ReadInv'
  <2> SUFFICES ASSUME NEW u \in Tasks \ {t}, u \notin overtaken'
               PROVE  KnowsOf(task[u], manifest', chunk', live')
    BY <1>1 DEF ReadInv
  <2>1. u \notin overtaken /\ KnowsOf(task[u], manifest, chunk, live)
    BY DEF VaultInv, ReadInv
  <2>2. CASE task[u].at \in Knowing
    <3>1. manifest' = manifest /\ chunk' = chunk
      BY <2>2
    <3>2. \A d \in live' : d \notin live => ~HeldIn(d, manifest, chunk)
      <4> SUFFICES ASSUME NEW d \in Docs, d.id > issued, HeldIn(d, manifest, chunk)
                   PROVE  FALSE
        OBVIOUS
      <4>1. 1 \in 1..MaxChunks /\ 1 <= d.size /\ d.id \in Nat /\ issued \in Nat
        BY NoDocIsNone, OAuthAssumption DEF TypeInv, Docs
      <4>2. chunk[1] = d /\ chunk[1].id <= issued
        BY <4>1 DEF HeldIn, VaultInv, IdsInv
      <4> QED
        BY <4>1, <4>2
    <3> QED
      BY <2>1, <3>1, <3>2 DEF KnowsOf
  <2>3. CASE task[u].at \notin Knowing
    BY <2>3 DEF KnowsOf, Knowing
  <2> QED
    BY <2>2, <2>3
<1>4. WriteInv'
  <2> SUFFICES ASSUME ~clashed'
               PROVE  /\ \A u, v \in Writers' : u = v
                      /\ faults = 0 => /\ \A u \in Tasks : WorkOf(task'[u], manifest', chunk')
                                       /\ Writers' = {} => Whole(manifest', chunk')
    BY DEF WriteInv
  <2>1. ~clashed /\ WriteInv
    BY DEF VaultInv
  <2>2. Writers' \ {t} = Writers \ {t} /\ (t \in Writers' <=> new.at \in Writing)
    BY <1>1 DEF Writers
  <2>3. t \in Writers <=> task[t].at \in Writing
    BY DEF Writers
  <2>4. task[t].at \in Writing => Writers \ {t} = {}
    BY <2>1, <2>3 DEF WriteInv
  <2>5. \A u, v \in Writers' : u = v
    BY <2>1, <2>2, <2>3, <2>4 DEF WriteInv
  <2>6. ASSUME faults = 0
        PROVE  /\ \A u \in Tasks : WorkOf(task'[u], manifest', chunk')
               /\ Writers' = {} => Whole(manifest', chunk')
    <3>1. CASE task[t].at \in Writing \/ new.at \in Writing
      <4>1. \A u \in Tasks \ {t} : task[u].at \notin Writing
        BY <2>2, <2>4, <3>1 DEF Writers
      <4>2. \A u \in Tasks \ {t} : WorkOf(task'[u], manifest', chunk')
        BY <1>1, <4>1 DEF WorkOf, Writing
      <4> QED
        BY <1>1, <2>2, <2>6, <3>1, <4>2
    <3>2. CASE ~(task[t].at \in Writing \/ new.at \in Writing)
      <4>1. Writers' = Writers /\ manifest' = manifest /\ chunk' = chunk
        BY <2>2, <2>3, <3>2
      <4>2. WorkOf(new, manifest, chunk)
        BY <3>2 DEF WorkOf, Writing
      <4>3. \A u \in Tasks : WorkOf(task'[u], manifest, chunk)
        BY <1>1, <2>1, <2>6, <4>2 DEF WriteInv
      <4>4. Writers = {} => Whole(manifest, chunk)
        BY <2>1, <2>6 DEF WriteInv
      <4> QED
        BY <4>1, <4>3, <4>4
    <3> QED
      BY <3>1, <3>2
  <2> QED
    BY <2>5, <2>6
<1> QED
  BY <1>2, <1>3, <1>4 DEF VaultInv

(* A step that does not touch the vault, issues nothing and begins no save or   *)
(* deletion.                                                                 *)
LEMMA AsideKeepsVault ==
    ASSUME TypeInv, VaultInv, NEW t \in Tasks, NEW new, Set(t, new),
           UNCHANGED <<vault, issued, clashed, faults>>, live' \subseteq live,
           \A u \in Tasks \ {t} : u \in overtaken => u \in overtaken',
           task[t].at \notin Writing, new.at \notin Writing,
           t \notin overtaken' => KnowsOf(new, manifest, chunk, live')
    PROVE  VaultInv'
<1>1. UNCHANGED <<manifest, chunk>> /\ issued' \in Nat /\ issued <= issued'
  BY OAuthAssumption DEF vault, TypeInv
<1>2. \A j \in 1..MaxChunks : chunk'[j].id <= issued'
  BY <1>1 DEF VaultInv, IdsInv
<1>3. new.at # "save"
  BY DEF Writing
<1>4. t \notin overtaken' => KnowsOf(new, manifest', chunk', live')
  BY <1>1
<1>5. \A d \in live' : d \in live
  OBVIOUS
<1>6. clashed' = clashed /\ faults' = faults
  OBVIOUS
<1> QED
  BY <1>1, <1>2, <1>3, <1>4, <1>5, <1>6, VaultStepKeeps

(* Points at which nothing need be known.                                    *)
Restful == {"load", "waiting", "ending", "call", "done"}

LEMMA RestfulStepKeeps ==
    ASSUME TypeInv, VaultInv, NEW t \in Tasks, NEW new, Set(t, new),
           UNCHANGED <<vault, issued, history>>, live' \subseteq live,
           task[t].at \notin Writing,
           new.at \in Restful \/ (new.at = "clear" /\ new.purpose # "unauthorized")
    PROVE  VaultInv'
<1>1. KnowsOf(new, manifest, chunk, live')
  BY DEF KnowsOf, Restful
<1>2. new.at \notin Writing
  BY DEF Restful, Writing
<1>3. UNCHANGED <<clashed, overtaken, faults>>
  BY DEF history
<1>4. \A u \in Tasks \ {t} : u \in overtaken => u \in overtaken'
  BY <1>3
<1>5. UNCHANGED <<vault, issued, clashed, faults>>
  BY <1>3
<1> QED
  BY <1>1, <1>2, <1>4, <1>5, AsideKeepsVault

(* Loading a document.                                                       *)
LEMMA LoadKeepsVault ==
    ASSUME OAuthInv, VaultInv, NEW t \in Tasks, ReadManifest(t) \/ ReadChunk(t)
    PROVE  VaultInv'
<1> USE DEF OAuthInv
<1> DEFINE r == task[t]
<1>1. r \in TaskStates /\ LocalOf(r) /\ TypeInv /\ MaxChunks \in Nat
  BY OAuthAssumption DEF TypeInv, LocalInv
<1>2. r.at \notin Writing /\ UNCHANGED <<vault, live, issued, clashed, faults>>
  BY DEF ReadManifest, ReadChunk, At, Writing, Reads, history
<1>3. live' \subseteq live /\ UNCHANGED <<vault, issued, clashed, faults>>
  BY <1>2
<1>4. CASE ReadManifest(t)
  <2> DEFINE new == [r EXCEPT !.at = IF manifest = 0 THEN "loaded" ELSE "read", !.i = 1, !.n = manifest]
  <2>1. r.seen = {} /\ manifest \in Nat
    BY <1>1, <1>4, OAuthAssumption DEF ReadManifest, At, LocalOf, TypeInv
  <2>2. /\ new.at = IF manifest = 0 THEN "loaded" ELSE "read"
        /\ new.i = 1 /\ new.n = manifest /\ new.seen = {}
    BY <1>1, <2>1 DEF TaskStates
  <2>3. {chunk[j] : j \in 1..0} = {}
    OBVIOUS
  <2>4. Set(t, new)
    BY <1>4 DEF ReadManifest
  <2> HIDE DEF new
  <2>5. KnowsOf(new, manifest, chunk, live')
    BY <2>1, <2>2, <2>3 DEF KnowsOf
  <2>6. \A u \in Tasks \ {t} : u \in overtaken => u \in overtaken'
    BY <1>4 DEF ReadManifest, Reads
  <2>7. new.at \notin Writing
    BY <2>2 DEF Writing
  <2> QED
    BY <1>2, <1>3, <2>4, <2>5, <2>6, <2>7, AsideKeepsVault
<1>5. CASE ReadChunk(t)
  <2> DEFINE go  == [r EXCEPT !.seen = @ \union {chunk[r.i]}, !.i = r.i + 1,
                              !.at = IF r.i = r.n THEN "loaded" ELSE "read"]
             new == IF chunk[r.i] = NoDoc THEN Over ELSE go
  <2>1. r.at = "read" /\ 1 <= r.i /\ r.i <= r.n /\ r.i \in Nat /\ r.n \in Nat
    BY <1>1, <1>5, OAuthAssumption DEF ReadChunk, At, LocalOf, TaskStates
  <2>2. /\ go.at = IF r.i = r.n THEN "loaded" ELSE "read"
        /\ go.i = r.i + 1 /\ go.n = r.n /\ go.seen = r.seen \union {chunk[r.i]}
    BY <1>1 DEF TaskStates
  <2>3. Set(t, new) /\ overtaken' = overtaken
    BY <1>5 DEF ReadChunk, history
  <2> HIDE DEF go
  <2>4. ASSUME t \notin overtaken
        PROVE  KnowsOf(go, manifest, chunk, live')
    <3>1. r.n = manifest /\ r.seen = {chunk[j] : j \in 1..(r.i - 1)}
      BY <2>1, <2>4 DEF VaultInv, ReadInv, KnowsOf
    <3>2. 1..r.i = (1..(r.i - 1)) \union {r.i}
      BY <2>1
    <3>3. go.seen = {chunk[j] : j \in 1..r.i}
      BY <2>2, <3>1, <3>2
    <3>4. (r.i + 1) - 1 = r.i
      BY <2>1
    <3> QED
      BY <2>2, <3>1, <3>3, <3>4 DEF KnowsOf
  <2>5. KnowsOf(Over, manifest, chunk, live')
    BY DEF KnowsOf, Over, Resting
  <2>6. t \notin overtaken' => KnowsOf(new, manifest, chunk, live')
    BY <2>3, <2>4, <2>5
  <2>7. new.at \notin Writing
    BY <2>2, OverIsTyped DEF Writing
  <2> HIDE DEF new
  <2> QED
    BY <1>2, <1>3, <2>3, <2>6, <2>7, AsideKeepsVault
<1> QED
  BY <1>4, <1>5

(* Writing one.                                                              *)
LEMMA SaveKeepsVault ==
    ASSUME OAuthInv, VaultInv, NEW t \in Tasks, WriteChunk(t) \/ WriteManifest(t) \/ Trim(t)
    PROVE  VaultInv'
<1> USE DEF OAuthInv
<1> DEFINE r == task[t]
<1>1. r \in TaskStates /\ LocalOf(r) /\ MaxChunks \in Nat /\ manifest \in Nat
  BY OAuthAssumption DEF TypeInv, LocalInv
<1>2. /\ r.at \in {"save", "write", "trim"} /\ r.at \in Writing
      /\ UNCHANGED <<live, issued, clashed, faults>>
      /\ \A u \in Tasks \ {t} : u \in overtaken => u \in overtaken'
  BY DEF WriteChunk, WriteManifest, Trim, At, Writing, Overtake, Others, history
<1>3. /\ r.doc \in Docs /\ r.doc.size \in 1..MaxChunks
      /\ r.i \in Nat /\ r.n \in Nat /\ r.doc.size \in Nat
  BY <1>1, <1>2, NoDocIsNone DEF LocalOf, TaskStates
<1>4. faults = 0 /\ ~clashed => WorkOf(r, manifest, chunk)
  BY DEF VaultInv, WriteInv
<1>5. /\ chunk \in [1..MaxChunks -> Docs \union {NoDoc}] /\ issued \in Nat
      /\ \A j \in 1..MaxChunks : chunk[j].id <= issued
  BY OAuthAssumption DEF TypeInv, VaultInv, IdsInv
<1>6. ASSUME NEW new, Set(t, new), new.at \notin Knowing,
             \/ UNCHANGED <<manifest, chunk>>
             \/ \A u \in Tasks \ {t} : task[u].at \in Knowing => u \in overtaken',
             \A j \in 1..MaxChunks : chunk'[j].id <= issued,
             new.at = "save" => new.doc.id <= issued,
             faults = 0 /\ ~clashed => /\ WorkOf(new, manifest', chunk')
                                       /\ new.at \notin Writing => Whole(manifest', chunk')
      PROVE  VaultInv'
  <2>1. KnowsOf(new, manifest', chunk', live') \/ new.at = "clear" \/ new.at = "delete"
    BY <1>6 DEF KnowsOf, Knowing
  <2>2. KnowsOf(new, manifest', chunk', live')
    BY <1>6, <2>1 DEF Knowing
  <2>3. issued' \in Nat /\ issued <= issued' /\ faults' = faults /\ clashed' = clashed
    BY <1>2, <1>5
  <2>4. \A d \in live' : d \in live
    BY <1>2
  <2>5. \A j \in 1..MaxChunks : chunk'[j].id <= issued'
    BY <1>2, <1>6
  <2>6. new.at = "save" => new.doc.id <= issued'
    BY <1>2, <1>6
  <2> QED
    BY <1>2, <1>6, <2>2, <2>3, <2>4, <2>5, <2>6, VaultStepKeeps
<1>7. CASE WriteChunk(t)
  <2> DEFINE new == [r EXCEPT !.i = r.i + 1, !.at = IF r.i = r.doc.size THEN "write" ELSE "save"]
  <2>1. r.at = "save" /\ 1 <= r.i /\ r.i <= r.doc.size /\ r.doc.id <= issued
    BY <1>1, <1>7 DEF WriteChunk, At, LocalOf, VaultInv, IdsInv
  <2>2. /\ new.at = IF r.i = r.doc.size THEN "write" ELSE "save"
        /\ new.i = r.i + 1 /\ new.n = r.n /\ new.doc = r.doc
    BY <1>1 DEF TaskStates
  <2>3. /\ Set(t, new) /\ chunk' = [chunk EXCEPT ![r.i] = r.doc]
        /\ \A u \in Tasks \ {t} : task[u].at \in Knowing => u \in overtaken'
    BY <1>7 DEF WriteChunk, Overtake, Others
  <2> HIDE DEF new
  <2>4. ASSUME faults = 0, ~clashed
        PROVE  /\ \A j \in 1..MaxChunks : j < r.i + 1 => chunk'[j] = r.doc
               /\ \A j \in 1..MaxChunks : r.i + 1 <= j /\ r.n < j => chunk'[j] = NoDoc
    BY <1>3, <1>4, <1>5, <2>1, <2>3, <2>4 DEF WorkOf
  <2>5. faults = 0 /\ ~clashed => WorkOf(new, manifest', chunk')
    BY <1>1, <1>3, <2>1, <2>2, <2>4 DEF WorkOf
  <2>6. \A j \in 1..MaxChunks : chunk'[j].id <= issued
    BY <1>5, <2>1, <2>3
  <2>7. new.at \in Writing /\ new.at \notin Knowing
    BY <2>2 DEF Writing, Knowing
  <2> QED
    BY <1>6, <2>1, <2>2, <2>3, <2>5, <2>6, <2>7
<1>8. CASE WriteManifest(t)
  <2> DEFINE new == [r EXCEPT !.at = "trim", !.i = r.doc.size + 1]
  <2>1. r.at = "write"
    BY <1>8 DEF WriteManifest, At
  <2>2. new.at = "trim" /\ new.i = r.doc.size + 1 /\ new.n = r.n /\ new.doc = r.doc
    BY <1>1 DEF TaskStates
  <2>3. /\ Set(t, new) /\ manifest' = r.doc.size /\ chunk' = chunk
        /\ \A u \in Tasks \ {t} : task[u].at \in Knowing => u \in overtaken'
    BY <1>8 DEF WriteManifest, Overtake, Others
  <2> HIDE DEF new
  <2>4. faults = 0 /\ ~clashed => WorkOf(new, manifest', chunk')
    BY <1>1, <1>3, <1>4, <2>1, <2>2, <2>3 DEF WorkOf
  <2>5. new.at \in Writing /\ new.at \notin Knowing /\ new.at # "save"
    BY <2>2 DEF Writing, Knowing
  <2>6. \A j \in 1..MaxChunks : chunk'[j].id <= issued
    BY <1>5, <2>3
  <2> QED
    BY <1>6, <2>3, <2>4, <2>5, <2>6
<1>9. CASE Trim(t) /\ r.i <= r.n
  <2> DEFINE new == [r EXCEPT !.i = r.i + 1]
  <2>1. r.at = "trim" /\ r.doc.size < r.i
    BY <1>1, <1>9 DEF Trim, At, LocalOf
  <2>2. new.at = "trim" /\ new.i = r.i + 1 /\ new.n = r.n /\ new.doc = r.doc
    BY <1>1, <2>1 DEF TaskStates
  <2>3. /\ Set(t, new) /\ chunk' = [chunk EXCEPT ![r.i] = NoDoc] /\ manifest' = manifest
        /\ \A u \in Tasks \ {t} : task[u].at \in Knowing => u \in overtaken'
    BY <1>9 DEF Trim, Overtake, Others
  <2> HIDE DEF new
  <2>4. ASSUME faults = 0, ~clashed
        PROVE  /\ manifest' = r.doc.size
               /\ \A j \in 1..MaxChunks : j <= r.doc.size => chunk'[j] = r.doc
               /\ \A j \in 1..MaxChunks :
                     r.doc.size < j /\ (j < r.i + 1 \/ r.n < j) => chunk'[j] = NoDoc
    BY <1>3, <1>4, <1>5, <2>1, <2>3, <2>4 DEF WorkOf
  <2>5. faults = 0 /\ ~clashed => WorkOf(new, manifest', chunk')
    BY <2>2, <2>4 DEF WorkOf
  <2>6. \A j \in 1..MaxChunks : chunk'[j].id <= issued
    BY <1>5, <2>3 DEF NoDoc
  <2>7. new.at \in Writing /\ new.at \notin Knowing /\ new.at # "save"
    BY <2>2 DEF Writing, Knowing
  <2> QED
    BY <1>6, <2>3, <2>5, <2>6, <2>7
<1>10. CASE Trim(t) /\ ~(r.i <= r.n)
  <2>1. r.at = "trim" /\ r.doc.size < r.i
    BY <1>1, <1>10 DEF Trim, At, LocalOf
  <2>2. PICK new \in Saved(t) : Set(t, new)
    BY <1>10 DEF Trim
  <2>3. UNCHANGED <<manifest, chunk>>
    BY <1>10 DEF Trim
  <2>4. ASSUME faults = 0, ~clashed
        PROVE  Whole(manifest, chunk)
    <3>1. /\ manifest = r.doc.size
          /\ \A j \in 1..MaxChunks : chunk[j] = IF j <= r.doc.size THEN r.doc ELSE NoDoc
      BY <1>3, <1>4, <1>10, <2>1, <2>4 DEF WorkOf
    <3>2. HeldIn(r.doc, manifest, chunk)
      BY <3>1 DEF HeldIn
    <3>3. \A i \in 1..MaxChunks : i > r.doc.size => chunk[i] = NoDoc
      BY <1>3, <3>1
    <3> QED
      BY <1>3, <3>2, <3>3 DEF Whole
  <2>5. new.at \in {"done", "ending", "load"}
    <3>1. Over.at = "done" /\ Load(t, "token").at = "load"
      BY <1>1, OverIsTyped DEF Load, TaskStates
    <3>2. [r EXCEPT !.at = "ending", !.purpose = "report", !.doc = NoDoc, !.i = 0, !.n = 0].at = "ending"
      BY <1>1 DEF TaskStates
    <3>3. \/ new = Over \/ new = Load(t, "token")
          \/ new = [r EXCEPT !.at = "ending", !.purpose = "report", !.doc = NoDoc, !.i = 0, !.n = 0]
      BY DEF Saved
    <3> QED
      BY <3>1, <3>2, <3>3
  <2>6. WorkOf(new, manifest', chunk') /\ new.at \notin Knowing /\ new.at # "save"
    BY <2>5 DEF WorkOf, Knowing
  <2>7. \A j \in 1..MaxChunks : chunk'[j].id <= issued
    BY <1>5, <2>3
  <2>8. faults = 0 /\ ~clashed => Whole(manifest', chunk')
    BY <2>3, <2>4
  <2> QED
    BY <1>6, <2>2, <2>3, <2>6, <2>7, <2>8
<1> QED
  BY <1>7, <1>8, <1>9, <1>10

(* Deleting what is there.                                                   *)
LEMMA ClearKeepsVault ==
    ASSUME OAuthInv, VaultInv, NEW t \in Tasks, CountToClear(t) \/ DeleteEntry(t)
    PROVE  VaultInv'
<1> USE DEF OAuthInv
<1> DEFINE r == task[t]
<1>1. r \in TaskStates /\ LocalOf(r) /\ MaxChunks \in Nat /\ manifest \in 0..MaxChunks
  BY OAuthAssumption DEF TypeInv, LocalInv
<1>2. /\ r.at \in {"clear", "delete"} /\ UNCHANGED <<live, issued, faults>>
      /\ \A u \in Tasks \ {t} : u \in overtaken => u \in overtaken'
  BY DEF CountToClear, DeleteEntry, At, Enters, Overtake, Others
<1>3. r.i \in Nat /\ r.n \in Nat /\ r.purpose \in ClearPurposes
  BY <1>1, <1>2 DEF LocalOf, TaskStates
<1>4. faults = 0 /\ ~clashed => WorkOf(r, manifest, chunk)
  BY DEF VaultInv, WriteInv
<1>5. /\ chunk \in [1..MaxChunks -> Docs \union {NoDoc}] /\ NoDoc \notin live /\ live \subseteq Docs
      /\ issued \in Nat /\ \A j \in 1..MaxChunks : chunk[j].id <= issued
  BY NoDocIsNone, OAuthAssumption DEF TypeInv, VaultInv, IdsInv
<1>6. t \notin overtaken /\ r.purpose = "unauthorized" => \A d \in live : ~HeldIn(d, manifest, chunk)
  BY <1>2 DEF VaultInv, ReadInv, KnowsOf
<1>7. issued' \in Nat /\ issued <= issued' /\ \A d \in live' : d \in live
  BY <1>2, <1>5
<1>8. CASE CountToClear(t)
  <2> DEFINE new == [r EXCEPT !.at = "delete", !.i = 1, !.n = manifest]
  <2>1. r.at = "clear" /\ r.at \notin Writing
    BY <1>8 DEF CountToClear, At, Writing
  <2>2. new.at = "delete" /\ new.i = 1 /\ new.n = manifest /\ new.purpose = r.purpose
    BY <1>1 DEF TaskStates
  <2>3. /\ Set(t, new) /\ manifest' = manifest /\ chunk' = chunk /\ overtaken' = overtaken
        /\ clashed' = (clashed \/ Writers \ {t} # {})
    BY <1>8 DEF CountToClear, vault, Enters
  <2> HIDE DEF new
  <2>4. (clashed => clashed') /\ (clashed' \/ Writers \ {t} = {})
    BY <2>3 DEF TypeInv
  <2>5. ASSUME faults = 0, ~clashed'
        PROVE  WorkOf(new, manifest, chunk)
    <3>1. Writers = {} /\ ~clashed
      BY <2>1, <2>3, <2>4, <2>5 DEF Writers
    <3>2. Whole(manifest, chunk)
      BY <2>5, <3>1 DEF VaultInv, WriteInv
    <3>3. \A j \in 1..MaxChunks : manifest < j => chunk[j] = NoDoc
      BY <1>1, <3>2, NoDocIsNone DEF Whole, HeldIn
    <3>4. \A j \in 1..MaxChunks : ~(j < 1)
      BY <1>1
    <3> QED
      BY <2>2, <3>3, <3>4 DEF WorkOf
  <2>6. t \notin overtaken' => KnowsOf(new, manifest', chunk', live')
    BY <1>2, <1>6, <2>2, <2>3 DEF KnowsOf
  <2>7. new.at \in Writing /\ new.at # "save"
    BY <2>2 DEF Writing
  <2>8. \A j \in 1..MaxChunks : chunk'[j].id <= issued'
    BY <1>2, <1>5, <2>3
  <2>9. faults = 0 /\ ~clashed' => WorkOf(new, manifest', chunk')
    BY <2>3, <2>5
  <2> QED
    BY <1>2, <1>7, <2>1, <2>3, <2>4, <2>6, <2>7, <2>8, <2>9, VaultStepKeeps
<1>9. CASE DeleteEntry(t)
  <2>1. /\ r.at = "delete" /\ r.at \in Writing /\ 1 <= r.i
        /\ clashed' = clashed /\ faults' = faults
        /\ overtaken' = overtaken \union {u \in Others(t) : task[u].at \in Knowing}
    BY <1>1, <1>9 DEF DeleteEntry, At, LocalOf, Writing, Overtake
  <2>2. /\ t \in overtaken' <=> t \in overtaken
        /\ \A u \in Tasks \ {t} : task[u].at \in Knowing => u \in overtaken'
    BY <2>1 DEF Others
  <2>3. ASSUME NEW new, Set(t, new), new.at # "save",
               \A j \in 1..MaxChunks : chunk'[j].id <= issued,
               t \notin overtaken => KnowsOf(new, manifest', chunk', live),
               faults = 0 /\ ~clashed => /\ WorkOf(new, manifest', chunk')
                                         /\ new.at \notin Writing => Whole(manifest', chunk')
        PROVE  VaultInv'
    <3>1. t \notin overtaken' => KnowsOf(new, manifest', chunk', live')
      BY <1>2, <2>2, <2>3
    <3>2. \A j \in 1..MaxChunks : chunk'[j].id <= issued'
      BY <1>2, <2>3
    <3>3. /\ clashed => clashed'
          /\ \/ UNCHANGED <<manifest, chunk>>
             \/ /\ task[t].at \in Writing
                /\ \A u \in Tasks \ {t} : task[u].at \in Knowing => u \in overtaken'
      BY <2>1, <2>2
    <3> QED
      BY <1>2, <1>7, <2>1, <2>3, <3>1, <3>2, <3>3, VaultStepKeeps
  <2>4. CASE r.i <= r.n
    <3> DEFINE new == [r EXCEPT !.i = r.i + 1]
    <3>1. r.i \in 1..MaxChunks
      BY <1>1, <2>1, <2>4 DEF TaskStates
    <3>2. new.at = "delete" /\ new.i = r.i + 1 /\ new.n = r.n /\ new.purpose = r.purpose
      BY <1>1, <2>1 DEF TaskStates
    <3>3. Set(t, new) /\ chunk' = [chunk EXCEPT ![r.i] = NoDoc] /\ manifest' = manifest
      BY <1>9, <2>4 DEF DeleteEntry
    <3> HIDE DEF new
    <3>4. ASSUME faults = 0, ~clashed
          PROVE  WorkOf(new, manifest', chunk')
      <4>1. \A j \in 1..MaxChunks : j < r.i + 1 \/ r.n < j => chunk'[j] = NoDoc
        BY <1>3, <1>4, <1>5, <2>1, <3>1, <3>3, <3>4 DEF WorkOf
      <4> QED
        BY <3>2, <4>1 DEF WorkOf
    <3>5. ASSUME t \notin overtaken, r.purpose = "unauthorized", NEW d \in live
          PROVE  ~HeldIn(d, manifest', chunk')
      <4>1. ~HeldIn(d, manifest, chunk) /\ d # NoDoc
        BY <1>5, <1>6, <3>5
      <4> QED
        BY <1>5, <3>1, <3>3, <4>1 DEF HeldIn
    <3>6. t \notin overtaken => KnowsOf(new, manifest', chunk', live)
      BY <3>2, <3>5 DEF KnowsOf
    <3>7. new.at # "save" /\ new.at \in Writing
      BY <3>2 DEF Writing
    <3>8. \A j \in 1..MaxChunks : chunk'[j].id <= issued
      BY <1>5, <3>3 DEF NoDoc
    <3> QED
      BY <2>3, <3>3, <3>4, <3>6, <3>7, <3>8
  <2>5. CASE ~(r.i <= r.n)
    <3>1. Set(t, Cleared(t)) /\ manifest' = 0 /\ chunk' = chunk
      BY <1>9, <2>5 DEF DeleteEntry
    <3>2. Cleared(t).at \in {"load", "done"}
      BY <1>1 DEF Cleared, Load, Over, Resting, TaskStates
    <3>3. WorkOf(Cleared(t), manifest', chunk') /\ KnowsOf(Cleared(t), manifest', chunk', live)
      BY <3>2 DEF WorkOf, KnowsOf
    <3>4. ASSUME faults = 0, ~clashed
          PROVE  Whole(0, chunk)
      <4>1. \A j \in 1..MaxChunks : chunk[j] = NoDoc
        BY <1>1, <1>3, <1>4, <2>1, <2>5, <3>4 DEF WorkOf
      <4>2. HeldIn(NoDoc, 0, chunk)
        BY <4>1, NoDocIsNone DEF HeldIn
      <4> QED
        BY <4>1, <4>2 DEF Whole
    <3>5. \A j \in 1..MaxChunks : chunk'[j].id <= issued
      BY <1>5, <3>1
    <3>6. Cleared(t).at # "save"
      BY <3>2
    <3>7. faults = 0 /\ ~clashed => Whole(manifest', chunk')
      BY <3>1, <3>4
    <3> QED
      BY <2>3, <3>1, <3>3, <3>5, <3>6, <3>7
  <2> QED
    BY <2>4, <2>5
<1> QED
  BY <1>8, <1>9

(* What a load that nobody has overtaken has found is what the vault holds, if  *)
(* it holds a document.                                                      *)
LEMMA LoadedIsHeld ==
    ASSUME OAuthInv, VaultInv, NEW t \in Tasks \ overtaken, At(t, "loaded"),
           NEW doc \in Parsed(t), NEW d \in Docs, HeldIn(d, manifest, chunk)
    PROVE  doc = d
<1>1. task[t].seen = {chunk[j] : j \in 1..manifest}
  BY DEF VaultInv, ReadInv, KnowsOf, At
<1>2. d.size \in 1..MaxChunks /\ MaxChunks \in Nat /\ manifest = d.size
  BY NoDocIsNone, OAuthAssumption DEF HeldIn
<1>3. \A j \in 1..manifest : chunk[j] = d
  BY <1>2 DEF HeldIn
<1>4. 1 \in 1..manifest
  BY <1>2
<1>5. task[t].seen = {d}
  BY <1>1, <1>3, <1>4
<1> QED
  BY <1>5 DEF Parsed

(* Using it.                                                                 *)
LEMMA UseKeepsVault ==
    ASSUME OAuthInv, VaultInv, NEW t \in Tasks, Loaded(t)
    PROVE  VaultInv'
<1> USE DEF OAuthInv
<1> DEFINE r == task[t]
<1>1. /\ r \in TaskStates /\ r.at = "loaded" /\ r.at \notin Writing
      /\ r.op \in Ops /\ r.purpose \in LoadPurposes
      /\ UNCHANGED <<vault, live, issued, history>>
  BY DEF TypeInv, LocalInv, LocalOf, Loaded, At, Writing
<1>2. PICK doc \in Parsed(t) :
          IF r.purpose = "production" /\ r.op = "connect"
          THEN Begin(t) ELSE Use(t, doc) /\ UNCHANGED flows
  BY DEF Loaded
<1>3. ASSUME NEW new, Set(t, new),
             new.at \in Restful \/ (new.at = "clear" /\ new.purpose # "unauthorized")
      PROVE  VaultInv'
  BY <1>1, <1>3, RestfulStepKeeps
<1>4. ASSUME NEW new, Set(t, new), new.at \notin Writing,
             t \notin overtaken => KnowsOf(new, manifest, chunk, live)
      PROVE  VaultInv'
  <2>1. UNCHANGED <<live, overtaken, vault, issued, clashed, faults>>
    BY <1>1 DEF history
  <2>2. /\ UNCHANGED <<vault, issued, clashed, faults>> /\ live' \subseteq live
        /\ \A u \in Tasks \ {t} : u \in overtaken => u \in overtaken'
        /\ t \notin overtaken' => KnowsOf(new, manifest, chunk, live')
    BY <1>4, <2>1
  <2> QED
    BY <1>1, <1>4, <2>2, AsideKeepsVault
<1>5. t \notin overtaken => \A d \in Docs : HeldIn(d, manifest, chunk) => d = doc
  BY <1>1, LoadedIsHeld DEF At
<1>6. CASE r.purpose = "production" /\ r.op = "connect"
  <2> DEFINE new == [r EXCEPT !.at = "waiting", !.purpose = "finish", !.i = 0, !.n = 0, !.seen = {}]
  <2>1. new.at \in Restful
    BY <1>1 DEF TaskStates, Restful
  <2>2. Set(t, new)
    BY <1>2, <1>6 DEF Begin
  <2> HIDE DEF new
  <2> QED
    BY <1>3, <2>1, <2>2
<1>7. CASE ~(r.purpose = "production" /\ r.op = "connect")
  <2>1. Use(t, doc)
    BY <1>2, <1>7
  <2>2. \A purpose \in LoadPurposes : ~Set(t, Load(t, purpose)) \/ VaultInv'
    <3>1. \A purpose \in LoadPurposes : Load(t, purpose).at \in Restful
      BY <1>1 DEF Load, TaskStates, Restful
    <3> QED
      BY <1>3, <3>1
  <2>3. \A purpose \in {"production", "reset", "rebuild"} : ~Set(t, Clear(t, purpose)) \/ VaultInv'
    <3>1. \A purpose \in {"production", "reset", "rebuild"} :
            Clear(t, purpose).at = "clear" /\ Clear(t, purpose).purpose = purpose
      BY <1>1 DEF Clear, TaskStates
    <3> QED
      BY <1>3, <3>1
  <2>4. doc # NoDoc \/ ~Set(t, Clear(t, "unauthorized")) \/ VaultInv'
    <3>1. Clear(t, "unauthorized").at = "clear"
      BY <1>1 DEF Clear, TaskStates
    <3>2. ASSUME doc = NoDoc, t \notin overtaken
          PROVE  KnowsOf(Clear(t, "unauthorized"), manifest, chunk, live)
      <4>1. \A d \in live : ~HeldIn(d, manifest, chunk)
        BY <1>5, <3>2, NoDocIsNone DEF TypeInv
      <4> QED
        BY <3>1, <4>1 DEF KnowsOf
    <3> QED
      BY <1>4, <3>1, <3>2 DEF Writing
  <2>5. ~Set(t, Over) \/ VaultInv'
    <3>1. Over.at \in Restful
      BY OverIsTyped DEF Restful
    <3> QED
      BY <1>3, <3>1
  <2>6. ~Set(t, [r EXCEPT !.at = "call", !.seen = {}]) \/ VaultInv'
    <3> DEFINE new == [r EXCEPT !.at = "call", !.seen = {}]
    <3>1. new.at \in Restful
      BY <1>1 DEF TaskStates, Restful
    <3> HIDE DEF new
    <3>2. ~Set(t, new) \/ VaultInv'
      BY <1>3, <3>1
    <3> QED
      BY <3>2 DEF new
  <2>7. ~Set(t, [r EXCEPT !.at = "exchange", !.doc = doc, !.seen = {}]) \/ VaultInv'
    <3> DEFINE new == [r EXCEPT !.at = "exchange", !.doc = doc, !.seen = {}]
    <3>1. new.at = "exchange" /\ new.doc = doc
      BY <1>1 DEF TaskStates
    <3> HIDE DEF new
    <3>2. t \notin overtaken => KnowsOf(new, manifest, chunk, live)
      BY <1>5, <3>1 DEF KnowsOf
    <3>3. ~Set(t, new) \/ VaultInv'
      BY <1>4, <3>1, <3>2 DEF Writing
    <3> QED
      BY <3>3 DEF new
  <2> QED
    BY <1>1, <1>7, <2>1, <2>2, <2>3, <2>4, <2>5, <2>6, <2>7 DEF Use, Rebuild, LoadPurposes, Ops
<1> QED
  BY <1>6, <1>7

(* The server's answers.                                                     *)
LEMMA IssueKeepsVault ==
    ASSUME OAuthInv, VaultInv, NEW t \in Tasks, Issue(t)
    PROVE  VaultInv'
<1> USE DEF OAuthInv
<1> DEFINE r == task[t]
<1>1. r \in TaskStates /\ LocalOf(r) /\ MaxChunks \in Nat /\ manifest \in 0..MaxChunks
  BY OAuthAssumption DEF TypeInv, LocalInv
<1>2. PICK size \in 1..MaxChunks : Exchange(t, size) \/ Callback(t, size)
  BY DEF Issue
<1>3. r.at \in {"exchange", "waiting"} /\ r.at \notin Writing /\ r.client \in Clients
  BY <1>1, <1>2 DEF Exchange, Callback, At, Writing, LocalOf
<1> DEFINE doc == NewDoc(t, size)
           new == Save(t, doc)
<1>4. doc \in Docs /\ doc.id = issued + 1
  BY <1>2, <1>3, NewDocIsADoc DEF Exchange, Callback, NewDoc
<1>5. /\ Set(t, new) /\ manifest' = manifest /\ chunk' = chunk /\ issued' = issued + 1
      /\ live' \subseteq live \union {doc} /\ overtaken' = overtaken /\ faults' = faults
      /\ clashed' = (clashed \/ Writers \ {t} # {})
  BY <1>2 DEF Exchange, Callback, vault, Enters
<1>6. new.at = "save" /\ new.i = 1 /\ new.n = manifest /\ new.doc = doc
  BY <1>1 DEF Save, TaskStates
<1> HIDE DEF new, doc
<1>7. (clashed => clashed') /\ (clashed' \/ Writers \ {t} = {})
  BY <1>5
<1>8. issued \in Nat /\ issued' \in Nat /\ issued <= issued' /\ doc.id > issued
  BY <1>4, <1>5, OAuthAssumption DEF TypeInv
<1>9. \A d \in live' : d \in live \/ (d \in Docs /\ d.id > issued)
  BY <1>4, <1>5, <1>8
<1>10. \A j \in 1..MaxChunks : chunk'[j].id <= issued'
  <2>1. \A j \in 1..MaxChunks : chunk[j] \in Docs \union {NoDoc} /\ chunk[j].id <= issued
    BY DEF VaultInv, IdsInv, TypeInv
  <2>2. \A j \in 1..MaxChunks : chunk[j].id \in Nat
    BY <2>1, OAuthAssumption DEF Docs, NoDoc
  <2> QED
    BY <1>5, <1>8, <2>1, <2>2
<1>11. KnowsOf(new, manifest', chunk', live')
  BY <1>6 DEF KnowsOf
<1>12. ASSUME faults = 0, ~clashed'
       PROVE  WorkOf(new, manifest', chunk')
  <2>1. Writers = {} /\ ~clashed
    BY <1>3, <1>7, <1>12 DEF Writers
  <2>2. Whole(manifest, chunk)
    BY <1>12, <2>1 DEF VaultInv, WriteInv
  <2>3. \A j \in 1..MaxChunks : manifest < j => chunk[j] = NoDoc
    BY <1>1, <2>2, NoDocIsNone DEF Whole, HeldIn
  <2>4. \A j \in 1..MaxChunks : ~(j < 1)
    BY <1>1
  <2> QED
    BY <1>5, <1>6, <2>3, <2>4 DEF WorkOf
<1>13. new.at \in Writing /\ new.doc.id <= issued'
  BY <1>4, <1>5, <1>6, <1>8 DEF Writing
<1>14. \A u \in Tasks \ {t} : u \in overtaken => u \in overtaken'
  BY <1>5
<1> QED
  BY <1>3, <1>5, <1>7, <1>8, <1>9, <1>10, <1>11, <1>12, <1>13, <1>14, VaultStepKeeps

LEMMA RejectedKeepsVault ==
    ASSUME OAuthInv, VaultInv, NEW t \in Tasks, Rejected(t)
    PROVE  VaultInv'
<1> USE DEF OAuthInv
<1> DEFINE r   == task[t]
           new == Clear(t, "unauthorized")
<1>1. /\ Set(t, new) /\ r.at = "exchange" /\ r.doc \notin live /\ r.at \notin Writing
      /\ UNCHANGED <<vault, live, issued, overtaken, clashed, faults>>
  BY DEF Rejected, At, Writing, history
<1>2. new.at = "clear" /\ new.at \notin Writing
  BY DEF Clear, TypeInv, TaskStates, Writing
<1> HIDE DEF new
<1>3. ASSUME t \notin overtaken
      PROVE  KnowsOf(new, manifest, chunk, live)
  <2>1. \A d \in Docs : HeldIn(d, manifest, chunk) => d = r.doc
    BY <1>1, <1>3 DEF VaultInv, ReadInv, KnowsOf
  <2>2. \A d \in live : ~HeldIn(d, manifest, chunk)
    BY <1>1, <2>1 DEF TypeInv
  <2> QED
    BY <1>2, <2>2 DEF KnowsOf
<1>4. /\ UNCHANGED <<vault, issued, clashed, faults>> /\ live' \subseteq live
      /\ \A u \in Tasks \ {t} : u \in overtaken => u \in overtaken'
      /\ t \notin overtaken' => KnowsOf(new, manifest, chunk, live')
  BY <1>1, <1>3
<1> QED
  BY <1>1, <1>2, <1>4, AsideKeepsVault

(* Steps that neither touch the vault nor learn anything of it.              *)
LEMMA RestKeepsVault ==
    ASSUME OAuthInv, VaultInv, NEW t \in Tasks,
           \/ Invalid(t) \/ Called(t) \/ Refresh(t) \/ ExchangeFails(t) \/ NoCallback(t)
           \/ Cancelled(t) \/ Unregister(t) \/ \E o \in Ops, c \in Clients : Start(t, o, c)
    PROVE  VaultInv'
<1> USE DEF OAuthInv
<1> DEFINE r == task[t]
<1>1. r \in TaskStates /\ UNCHANGED <<vault, issued, history>> /\ live' \subseteq live
  BY DEF TypeInv, Invalid, Called, Refresh, ExchangeFails, NoCallback, Cancelled, Unregister, Start
<1>2. r.at \notin Writing
  BY DEF Invalid, Called, Refresh, ExchangeFails, NoCallback, Cancelled, Unregister, Start, At, Writing
<1>3. ASSUME NEW new, Set(t, new), new.at \in Restful
      PROVE  VaultInv'
  BY <1>1, <1>2, <1>3, RestfulStepKeeps
<1>4. Over.at = "done" /\ \A purpose : Load(t, purpose).at = "load"
  BY <1>1, OverIsTyped DEF Load, TaskStates
<1>5. GiveUp(t).at = "ending"
  BY <1>1 DEF GiveUp, TaskStates
<1>6. CASE Invalid(t) \/ Called(t) \/ ExchangeFails(t)
  BY <1>3, <1>4, <1>6 DEF Invalid, Called, ExchangeFails, Restful
<1>7. CASE Refresh(t)
  BY <1>3, <1>4, <1>7 DEF Refresh, Restful
<1>8. CASE NoCallback(t) \/ Cancelled(t)
  BY <1>3, <1>5, <1>8 DEF NoCallback, Cancelled, Restful
<1>9. CASE Unregister(t)
  <2>1. Set(t, Over) \/ Set(t, Load(t, "report"))
    BY <1>9 DEF Unregister
  <2> QED
    BY <1>3, <1>4, <2>1 DEF Restful
<1>10. CASE \E o \in Ops, c \in Clients : Start(t, o, c)
  <2>1. PICK o \in Ops, c \in Clients :
            Set(t, [r EXCEPT !.op = o, !.client = c, !.at = "load", !.purpose = "client"])
    BY <1>10 DEF Start
  <2>2. [r EXCEPT !.op = o, !.client = c, !.at = "load", !.purpose = "client"].at = "load"
    BY <1>1 DEF TaskStates
  <2> QED
    BY <1>3, <2>1, <2>2 DEF Restful
<1> QED
  BY <1>6, <1>7, <1>8, <1>9, <1>10

(* A keyring that fails, or a process that dies: nothing is claimed of what a   *)
(* save leaves, but a clearing operation still clears what it may.            *)
LEMMA InterruptKeepsVault ==
    ASSUME OAuthInv, VaultInv, NEW t \in Tasks, Interrupt(t)
    PROVE  VaultInv'
<1>1. faults' # 0 /\ UNCHANGED <<manifest, chunk, live, issued, clashed, overtaken>>
  BY OAuthAssumption DEF Interrupt, OAuthInv, TypeInv, vault
<1>2. Set(t, Over)
  BY DEF Interrupt
<1>3. task'[t] = Over /\ \A u \in Tasks \ {t} : task'[u] = task[u]
  BY <1>2 DEF OAuthInv, TypeInv, Set
<1>4. IdsInv'
  BY <1>1, <1>3, OverIsTyped DEF VaultInv, IdsInv
<1>5. KnowsOf(Over, manifest, chunk, live)
  BY OverIsTyped DEF KnowsOf
<1>6. ReadInv'
  BY <1>1, <1>3, <1>5 DEF VaultInv, ReadInv
<1>7. Writers' \subseteq Writers
  BY <1>3, OverIsTyped DEF Writers, Writing
<1>8. WriteInv'
  BY <1>1, <1>7 DEF VaultInv, WriteInv
<1> QED
  BY <1>4, <1>6, <1>8 DEF VaultInv

LEMMA VaultStep ==
    ASSUME OAuthInv, VaultInv, [Next]_vars
    PROVE  VaultInv'
<1>1. CASE UNCHANGED vars \/ Cancel
  BY <1>1 DEF vars, Cancel, vault, history, VaultInv, IdsInv, ReadInv, WriteInv, Writers
<1>2. CASE Revoke
  <2>1. live' = {} /\ UNCHANGED <<manifest, chunk, issued, task, clashed, overtaken, faults>>
    BY <1>2 DEF Revoke, vault, history
  <2>2. \A r : KnowsOf(r, manifest, chunk, live) => KnowsOf(r, manifest, chunk, {})
    BY DEF KnowsOf
  <2> QED
    BY <2>1, <2>2 DEF VaultInv, IdsInv, ReadInv, WriteInv, Writers
<1>3. ASSUME NEW t \in Tasks, Continue(t) \/ Interrupt(t) \/ \E o \in Ops, c \in Clients : Start(t, o, c)
      PROVE  VaultInv'
  BY <1>3, LoadKeepsVault, SaveKeepsVault, ClearKeepsVault, UseKeepsVault, IssueKeepsVault,
     RejectedKeepsVault, RestKeepsVault, InterruptKeepsVault DEF Continue, Keyring
<1> QED
  BY <1>1, <1>2, <1>3 DEF Next

LEMMA VaultInit == Init => VaultInv
<1> SUFFICES ASSUME Init PROVE VaultInv
  OBVIOUS
<1>1. \A t \in Tasks : task[t].at = "idle"
  BY DEF Init, Resting
<1>2. PICK first \in Docs \union {NoDoc} :
          /\ manifest = first.size
          /\ chunk = [i \in 1..MaxChunks |-> IF i <= first.size THEN first ELSE NoDoc]
          /\ issued = first.id
  BY DEF Init
<1>3. first.size \in Nat /\ first.id \in Nat
  BY <1>2, OAuthAssumption DEF Docs, NoDoc
<1>4. IdsInv
  BY <1>1, <1>2, <1>3 DEF IdsInv, NoDoc
<1>5. Whole(manifest, chunk)
  <2>1. HeldIn(first, manifest, chunk)
    BY <1>2 DEF HeldIn
  <2>2. \A i \in 1..MaxChunks : i > first.size => chunk[i] = NoDoc
    BY <1>2, <1>3
  <2> QED
    BY <2>1, <2>2 DEF Whole
<1>6. ReadInv
  BY <1>1 DEF ReadInv, KnowsOf
<1>7. Writers = {}
  BY <1>1 DEF Writers, Writing
<1>8. WriteInv
  BY <1>1, <1>5, <1>7 DEF WriteInv, WorkOf
<1> QED
  BY <1>4, <1>6, <1>8 DEF VaultInv

(* In every reachable state the shared state keeps its types, every operation *)
(* is at a point it can be at, and a flow that waits can be cancelled.        *)
THEOREM OAuthInvariant == Spec => []OAuthInv
<1> QED
  BY OAuthInit, OAuthStep, PTL DEF Spec

(* The keyring, the map of cancellations and the state of every operation     *)
(* keep their types.                                                         *)
THEOREM TypeCorrect == Spec => []TypeOK
<1>1. OAuthInv => TypeOK
  BY DEF OAuthInv, TypeInv, TypeOK, TaskStates
<1> QED
  BY <1>1, OAuthInvariant, PTL

(* However many flows are begun, ended, cancelled and replaced, none waits    *)
(* for a browser out of reach of a cancellation (begin_mcp_oauth).           *)
THEOREM NoFlowIsStranded == Spec => []PendingFlowCanBeCancelled
<1>1. OAuthInv => PendingFlowCanBeCancelled
  BY DEF OAuthInv
<1> QED
  BY <1>1, OAuthInvariant, PTL

(* Until a save or a deletion is interrupted, or two of them run at once, the   *)
(* vault is whole whenever nobody writes it: one document with all its chunks *)
(* and no other secret, or nothing, whatever the sizes of the documents that  *)
(* replaced each other and whoever reads meanwhile (save, clear).            *)
THEOREM VaultIsAlwaysWhole == Spec => []VaultIsWhole
<1>1. VaultInv => VaultIsWhole
  BY DEF VaultInv, WriteInv, Whole, HeldIn, Holds, VaultIsWhole
<1> QED
  BY <1>1, VaultInit, VaultStep, OAuthInvariant, PTL DEF Spec

(* However operations interleave, a refused call clears credentials the server *)
(* honours only if another operation has written them since its load          *)
(* (refresh_after_unauthorized).                                             *)
THEOREM OnlyUnusableIsEverCleared == Spec => []OnlyUnusableIsCleared
<1>1. VaultInv => OnlyUnusableIsCleared
  BY DEF VaultInv, ReadInv, KnowsOf, HeldIn, Holds, OnlyUnusableIsCleared
<1> QED
  BY <1>1, VaultInit, VaultStep, OAuthInvariant, PTL DEF Spec

=============================================================================
