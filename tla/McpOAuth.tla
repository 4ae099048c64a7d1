------------------------------ MODULE McpOAuth ------------------------------
(***************************************************************************)
(* The credentials of one remote MCP server: the operations that read,      *)
(* replace and delete them (tools/oauth.rs, the OAuth commands of           *)
(* app/engine.rs, the calls of tools/adapters/mcp_http.rs) and the vault,   *)
(* an OS keyring in which a document is a manifest and several chunks.      *)
(*                                                                         *)
(* Each operation builds a facade of its own: nothing in memory is shared   *)
(* but the map of cancellations, and nothing keeps operations apart.  Every *)
(* call of the keyring is a step.  The authorization server rotates refresh *)
(* tokens, as the tests expect.                                            *)
(***************************************************************************)
EXTENDS Naturals, FiniteSets

CONSTANTS Tasks,        \* operations, each asked once
          NoTask,       \* not one of them
          Clients,      \* client ids the tool may be configured with
          MaxChunks,    \* chunks of the largest document
          MaxDocs,      \* documents the server may issue
          MaxFaults     \* keyring failures and processes that die

ASSUME OAuthAssumption ==
    /\ NoTask \notin Tasks
    /\ MaxChunks \in Nat \ {0} /\ MaxDocs \in Nat /\ MaxFaults \in Nat

VARIABLES
    manifest,  \* chunk_count of the manifest entry, 0 when there is none
    chunk,     \* the document each chunk entry belongs to
    live,      \* documents whose refresh token the server honours
    issued,    \* documents issued so far
    cancels,   \* whose sender oauth_cancellations holds for the tool
    woken,     \* flows whose cancel_rx has resolved
    task,      \* where each operation is
    clashed,   \* history: a save or a deletion began while another was under way
    overtaken, \* history: operations since whose load another one has written
    faults     \* history: failures so far

vault == <<manifest, chunk>>
flows == <<cancels, woken>>
history == <<clashed, overtaken, faults>>
vars  == <<manifest, chunk, live, issued, cancels, woken, task, clashed, overtaken, faults>>

Ops == {"status", "connect", "disconnect", "call"}
(* What a load, a save or a deletion of the document is done for.            *)
Purposes == {"none", "client", "production", "report", "reset", "recheck", "rebuild", "token",
             "refresh", "unauthorized", "finish"}

NoDoc == [id |-> 0, size |-> 0, client |-> "none"]
Docs  == [id : 1..MaxDocs, size : 1..MaxChunks, client : Clients]

Writing == {"save", "write", "trim", "delete"}
Knowing == {"read", "loaded", "exchange", "clear", "delete"}
Points == {"idle", "load", "read", "loaded", "waiting", "ending", "call", "exchange",
           "save", "write", "trim", "clear", "delete", "done"}

Resting(point) == [op |-> "none", client |-> "none", at |-> point, purpose |-> "none",
                   i |-> 0, n |-> 0, seen |-> {}, doc |-> NoDoc]

(* The vault as an earlier session has left it.                              *)
Init ==
    \E first \in {d \in Docs \union {NoDoc} : d.id <= 1} :
        /\ manifest = first.size
        /\ chunk    = [i \in 1..MaxChunks |-> IF i <= first.size THEN first ELSE NoDoc]
        /\ live     = {first} \ {NoDoc}
        /\ issued   = first.id
        /\ cancels  = NoTask
        /\ woken    = {}
        /\ task     = [t \in Tasks |-> Resting("idle")]
        /\ clashed  = FALSE /\ overtaken = {} /\ faults = 0

At(t, point) == task[t].at = point
Set(t, new)      == task' = [task EXCEPT ![t] = new]
Load(t, purpose) == [task[t] EXCEPT !.at = "load", !.purpose = purpose, !.seen = {}, !.doc = NoDoc]
Clear(t, purpose) == [task[t] EXCEPT !.at = "clear", !.purpose = purpose, !.seen = {}, !.doc = NoDoc]
(* It has returned, with its answer or an error.                             *)
Over == Resting("done")

Others(t)   == Tasks \ {t}
Writers     == {t \in Tasks : task[t].at \in Writing}
Enters(t)   == /\ clashed' = (clashed \/ Writers \ {t} # {})
               /\ UNCHANGED <<overtaken, faults>>
Reads(t)    == /\ overtaken' = IF Writers \ {t} = {} THEN overtaken \ {t} ELSE overtaken \union {t}
               /\ UNCHANGED <<clashed, faults>>
Overtake(t) == /\ overtaken' = overtaken \union {u \in Others(t) : task[u].at \in Knowing}
               /\ UNCHANGED <<clashed, faults>>

-----------------------------------------------------------------------------
(* The vault                                                                 *)

(* load: the manifest, then the chunks it counts; a chunk that is missing is *)
(* an error.                                                                 *)
ReadManifest(t) ==
    /\ At(t, "load")
    /\ Set(t, [task[t] EXCEPT !.at = IF manifest = 0 THEN "loaded" ELSE "read",
                              !.i = 1, !.n = manifest])
    /\ Reads(t)
    /\ UNCHANGED <<vault, live, issued, flows>>

ReadChunk(t) ==
    /\ At(t, "read")
    /\ LET i == task[t].i IN
       Set(t, IF chunk[i] = NoDoc THEN Over
              ELSE [task[t] EXCEPT !.seen = @ \union {chunk[i]}, !.i = i + 1,
                                   !.at = IF i = task[t].n THEN "loaded" ELSE "read"])
    /\ UNCHANGED <<vault, live, issued, flows, history>>

(* Chunks of one document are that document; chunks of several may parse,    *)
(* with the refresh token of any of them, or may not.                        *)
Torn(t)   == task[t].seen # {} /\ ~\E d \in task[t].seen : task[t].seen = {d} /\ d.size = task[t].n
Parsed(t) == IF task[t].seen = {} THEN {NoDoc} ELSE task[t].seen

(* Flawed form: what was there before is not counted.                        *)
ForgetfulSave(t, doc) ==
    [task[t] EXCEPT !.at = "save", !.i = 1, !.n = 0, !.doc = doc, !.seen = {}]

(* save: as many entries as the document has chunks, then the manifest, then *)
(* what a larger document left.                                              *)
Save(t, doc) ==
    [task[t] EXCEPT !.at = "save", !.i = 1, !.n = manifest, !.doc = doc, !.seen = {}]

WriteChunk(t) ==
    /\ At(t, "save")
    /\ LET i == task[t].i
           d == task[t].doc IN
       /\ chunk' = [chunk EXCEPT ![i] = d]
       /\ Set(t, [task[t] EXCEPT !.i = i + 1, !.at = IF i = d.size THEN "write" ELSE "save"])
    /\ Overtake(t)
    /\ UNCHANGED <<manifest, live, issued, flows>>

WriteManifest(t) ==
    /\ At(t, "write")
    /\ manifest' = task[t].doc.size
    /\ Set(t, [task[t] EXCEPT !.at = "trim", !.i = task[t].doc.size + 1])
    /\ Overtake(t)
    /\ UNCHANGED <<chunk, live, issued, flows>>

(* The last deletion ends the save: for a flow before it leaves the map, for   *)
(* a call with its token, or, when its token was rejected, with a load as for *)
(* the first (which may refresh once more; here, as often as it likes).       *)
Saved(t) == IF task[t].op = "call" THEN {Over, Load(t, "token")}
            ELSE {[task[t] EXCEPT !.at = "ending", !.purpose = "report", !.doc = NoDoc,
                                  !.i = 0, !.n = 0]}

Trim(t) ==
    /\ At(t, "trim")
    /\ LET i == task[t].i IN
       IF i <= task[t].n
       THEN /\ chunk' = [chunk EXCEPT ![i] = NoDoc]
            /\ Set(t, [task[t] EXCEPT !.i = i + 1])
            /\ Overtake(t)
       ELSE /\ \E next \in Saved(t) : Set(t, next)
            /\ UNCHANGED <<chunk, history>>
    /\ UNCHANGED <<manifest, live, issued, flows>>

(* clear: the chunks the manifest counts, then the manifest.                 *)
CountToClear(t) ==
    /\ At(t, "clear")
    /\ Set(t, [task[t] EXCEPT !.at = "delete", !.i = 1, !.n = manifest])
    /\ Enters(t)
    /\ UNCHANGED <<vault, live, issued, flows>>

Cleared(t) ==
    CASE task[t].purpose = "unauthorized" -> Over
      [] task[t].purpose = "reset"        -> Load(t, "recheck")
      [] OTHER                            -> Load(t, task[t].purpose)

DeleteEntry(t) ==
    /\ At(t, "delete")
    /\ LET i == task[t].i IN
       IF i <= task[t].n
       THEN /\ chunk' = [chunk EXCEPT ![i] = NoDoc]
            /\ Set(t, [task[t] EXCEPT !.i = i + 1])
            /\ UNCHANGED manifest
       ELSE /\ manifest' = 0
            /\ Set(t, Cleared(t))
            /\ UNCHANGED chunk
    /\ Overtake(t)
    /\ UNCHANGED <<live, issued, flows>>

-----------------------------------------------------------------------------
(* The operations                                                            *)

Start(t, o, c) ==
    /\ At(t, "idle")
    /\ Set(t, [task[t] EXCEPT !.op = o, !.client = c, !.at = "load", !.purpose = "client"])
    /\ UNCHANGED <<vault, live, issued, flows, history>>

(* begin_authorization: the newest flow takes the tool's place in the map,   *)
(* and the sender it drops wakes the older one.                              *)
Begin(t) ==
    /\ Set(t, [task[t] EXCEPT !.at = "waiting", !.purpose = "finish", !.i = 0, !.n = 0, !.seen = {}])
    /\ cancels' = t
    /\ woken'   = woken \union ({cancels} \ {NoTask})

(* Credentials of another client are cleared before a manager is built, by   *)
(* production and once more when disconnect has cleared the vault.           *)
Rebuild(t, doc, purpose) ==
    IF doc # NoDoc /\ doc.client # task[t].client
    THEN Set(t, Clear(t, purpose)) ELSE Set(t, Load(t, purpose))

(* production, connection_status, disconnect and the token's load, each with *)
(* the document it has read.                                                 *)
Use(t, doc) ==
    LET purpose == task[t].purpose
        op      == task[t].op
    IN
    CASE purpose = "client"  -> Rebuild(t, doc, "production")
      [] purpose = "recheck" -> Rebuild(t, doc, "rebuild")
      [] purpose = "production" /\ op = "status"     -> Set(t, Load(t, "report"))
      [] purpose = "production" /\ op = "disconnect" -> Set(t, Clear(t, "reset"))
      [] purpose = "production" /\ op = "call"       -> Set(t, Load(t, "token"))
      [] purpose \in {"report", "rebuild"} -> Set(t, Over)
      [] purpose \in {"token", "refresh"} /\ doc = NoDoc -> Set(t, Clear(t, "unauthorized"))
      [] purpose = "token"   -> Set(t, [task[t] EXCEPT !.at = "call", !.seen = {}])
      [] purpose = "refresh" -> Set(t, [task[t] EXCEPT !.at = "exchange", !.doc = doc, !.seen = {}])

Loaded(t) ==
    /\ At(t, "loaded")
    /\ \E doc \in Parsed(t) :
         IF task[t].purpose = "production" /\ task[t].op = "connect"
         THEN Begin(t) ELSE Use(t, doc) /\ UNCHANGED flows
    /\ UNCHANGED <<vault, live, issued, history>>

Invalid(t) ==
    /\ At(t, "loaded") /\ Torn(t)
    /\ Set(t, Over)
    /\ UNCHANGED <<vault, live, issued, flows, history>>

(* The token was good, or the call failed otherwise.                         *)
Called(t) ==
    /\ At(t, "call")
    /\ Set(t, Over)
    /\ UNCHANGED <<vault, live, issued, flows, history>>

(* It was about to expire, or the server rejected it.                        *)
Refresh(t) ==
    /\ At(t, "call")
    /\ Set(t, Load(t, "refresh"))
    /\ UNCHANGED <<vault, live, issued, flows, history>>

NewDoc(t, size) == [id |-> issued + 1, size |-> size, client |-> task[t].client]
CanIssue        == issued < MaxDocs

(* refresh_token: the server takes a refresh token once.                     *)
Exchange(t, size) ==
    /\ At(t, "exchange") /\ task[t].doc \in live
    /\ CanIssue
    /\ issued' = issued + 1
    /\ live'   = (live \ {task[t].doc}) \union {NewDoc(t, size)}
    /\ Set(t, Save(t, NewDoc(t, size)))
    /\ Enters(t)
    /\ UNCHANGED <<vault, flows>>

Rejected(t) ==
    /\ At(t, "exchange") /\ task[t].doc \notin live
    /\ Set(t, Clear(t, "unauthorized"))
    /\ UNCHANGED <<vault, live, issued, flows, history>>

(* Flawed form: any error of the server discards the credentials.            *)
ClearingExchangeFails(t) ==
    /\ At(t, "exchange")
    /\ Set(t, Clear(t, "unauthorized"))
    /\ UNCHANGED <<vault, live, issued, flows, history>>

(* The server cannot be reached, answers with another error, or with a token  *)
(* that is lost on the way or with the caller at its deadline.                *)
ExchangeFails(t) ==
    /\ At(t, "exchange")
    /\ Set(t, Over)
    /\ live' \in {live, live \ {task[t].doc}}
    /\ UNCHANGED <<vault, issued, flows, history>>

(* The browser comes back with the state it was given.                       *)
Callback(t, size) ==
    /\ At(t, "waiting")
    /\ CanIssue
    /\ issued' = issued + 1
    /\ live'   = live \union {NewDoc(t, size)}
    /\ Set(t, Save(t, NewDoc(t, size)))
    /\ Enters(t)
    /\ UNCHANGED <<vault, flows>>

(* Denied, timed out, malformed, with another state, or cancelled.           *)
GiveUp(t) == [task[t] EXCEPT !.at = "ending", !.purpose = "finish"]

NoCallback(t) ==
    /\ At(t, "waiting")
    /\ Set(t, GiveUp(t))
    /\ UNCHANGED <<vault, live, issued, flows, history>>

Cancelled(t) ==
    /\ At(t, "waiting") /\ t \in woken
    /\ Set(t, GiveUp(t))
    /\ UNCHANGED <<vault, live, issued, flows, history>>

(* The flow removes the tool's entry, whosever it is.                        *)
Unregister(t) ==
    /\ At(t, "ending")
    /\ cancels' = NoTask
    /\ woken'   = woken \union ({cancels} \ {NoTask, t})
    /\ Set(t, IF task[t].purpose = "report" THEN Load(t, "report") ELSE Over)
    /\ UNCHANGED <<vault, live, issued, history>>

(* CancelMcpOAuth.                                                           *)
Cancel ==
    /\ cancels # NoTask
    /\ woken'   = woken \union {cancels}
    /\ cancels' = NoTask
    /\ UNCHANGED <<vault, live, issued, task, history>>

(* The server or its owner revokes what it issued.                           *)
Revoke ==
    /\ live # {}
    /\ live' = {}
    /\ UNCHANGED <<vault, issued, flows, task, history>>

(* The keyring refuses a write or a deletion, or the process dies: a save and  *)
(* a deletion do not await anything, no deadline ends them half way.           *)
Interrupt(t) ==
    /\ faults < MaxFaults
    /\ task[t].at \in Writing \union {"clear"}
    /\ faults' = faults + 1
    /\ Set(t, Over)
    /\ cancels' = IF cancels = t THEN NoTask ELSE cancels
    /\ UNCHANGED <<vault, live, issued, woken, clashed, overtaken>>

Keyring(t) ==
    \/ ReadManifest(t) \/ ReadChunk(t) \/ WriteChunk(t) \/ WriteManifest(t) \/ Trim(t)
    \/ CountToClear(t) \/ DeleteEntry(t)

Issue(t) == \E size \in 1..MaxChunks : Exchange(t, size) \/ Callback(t, size)

Continue(t) ==
    \/ Keyring(t) \/ Loaded(t) \/ Invalid(t) \/ Called(t) \/ Refresh(t) \/ Issue(t) \/ Rejected(t)
    \/ ExchangeFails(t) \/ NoCallback(t) \/ Cancelled(t) \/ Unregister(t)

Next ==
    \/ Cancel \/ Revoke
    \/ \E t \in Tasks :
         \/ \E o \in Ops, c \in Clients : Start(t, o, c)
         \/ Continue(t) \/ Interrupt(t)

Spec == Init /\ [][Next]_vars
-----------------------------------------------------------------------------
TypeOK ==
    /\ manifest \in 0..MaxChunks
    /\ chunk \in [1..MaxChunks -> Docs \union {NoDoc}]
    /\ live \subseteq Docs
    /\ issued \in 0..MaxDocs
    /\ cancels \in Tasks \union {NoTask}
    /\ woken \subseteq Tasks
    /\ \A t \in Tasks :
         /\ task[t].at \in Points /\ task[t].purpose \in Purposes
         /\ task[t].op \in Ops \union {"none"}
         /\ task[t].i \in 0..MaxChunks + 1 /\ task[t].n \in 0..MaxChunks
    /\ clashed \in BOOLEAN /\ overtaken \subseteq Tasks /\ faults \in 0..MaxFaults

Holds(d) == manifest = d.size /\ \A i \in 1..MaxChunks : i <= d.size => chunk[i] = d

(* While nobody writes it the vault holds the chunks of one document, all of   *)
(* them and no other secret, or nothing: what a longer or a deleted document  *)
(* left is gone (save, clear).  Only an interruption, or saves and deletions  *)
(* of two operations at once, leave a mixture.                                *)
VaultIsWhole ==
    faults = 0 /\ ~clashed /\ Writers = {} =>
        \E d \in Docs \union {NoDoc} :
            Holds(d) /\ \A i \in 1..MaxChunks : i > d.size => chunk[i] = NoDoc

(* A call that is refused clears the vault of credentials the server does not  *)
(* honour.  It clears good ones only when another operation has written them  *)
(* since its load, however loads, exchanges, saves and deletions interleave   *)
(* (refresh_after_unauthorized: "clears the unusable vault entry").           *)
OnlyUnusableIsCleared ==
    \A t \in Tasks \ overtaken :
        task[t].at \in {"clear", "delete"} /\ task[t].purpose = "unauthorized"
            => \A d \in live : ~Holds(d)

(* A flow that waits for the browser can be cancelled, or is about to end:   *)
(* a second flow for the tool does not strand the first (begin_mcp_oauth).   *)
PendingFlowCanBeCancelled ==
    \A t \in Tasks : At(t, "waiting") => cancels = t \/ t \in woken
=============================================================================
