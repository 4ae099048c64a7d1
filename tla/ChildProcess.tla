---------------------------- MODULE ChildProcess ----------------------------
(***************************************************************************)
(* The four ways the application runs a program and waits for it:           *)
(*   "cli"         the command line of a model (llm.rs run_cli)             *)
(*   "code"        a CODE_CALL step (step_runners/code_call.rs)             *)
(*   "subprocess"  a subprocess tool (adapters/subprocess.rs)               *)
(*   "mcp"         a session with an MCP server over stdio (adapters/mcp.rs)*)
(* The program is external: it reads its input, writes to two bounded pipes,*)
(* starts a helper that inherits them, and ends, when it likes or never.    *)
(* A helper is "running" with the pipes open, "quiet" without them, or has  *)
(* "escaped" to a process group of its own.  Bytes are counted in blocks.   *)
(* On Windows a CODE_CALL has a job object, and a tool has nothing like it:  *)
(* the process group of the tools is compiled for Unix alone.               *)
(***************************************************************************)
EXTENDS Naturals

CONSTANTS Kinds,    \* which of AllKinds
          Platforms,\* which of "unix" and "windows"
          Input,    \* blocks the host has for the program's input
          Capacity, \* blocks a pipe holds
          Limit,    \* blocks of output that are kept
          MaxOutput \* blocks the program writes to one pipe

AllKinds == {"cli", "code", "subprocess", "mcp"}

ASSUME ProcessAssumption ==
    /\ Kinds \subseteq AllKinds
    /\ Platforms \subseteq {"unix", "windows"}
    /\ Input \in Nat /\ Capacity \in Nat \ {0}
    /\ Limit \in Nat /\ MaxOutput \in Nat

VARIABLES
    kind, timed,     \* which host, and whether it was given a deadline
    platform,        \* that the build is for
    host, result,    \* where it is, and what it returned
    deadline, grace, \* its timers: "off", "running", "passed"
    pending,         \* input not yet written
    child, helper,   \* the processes
    inbox,           \* blocks in the input pipe
    pipe,            \* blocks in each output pipe
    wrote,           \* blocks the program wrote to it
    reader, got      \* who reads it, and what was read

what   == <<kind, timed, platform>>
timers == <<deadline, grace>>
world  == <<child, helper, inbox>>
output == <<pipe, wrote>>
vars   == <<kind, timed, platform, host, result, deadline, grace, pending, child, helper, inbox,
            pipe, wrote, reader, got>>

Pipes   == {"out", "err"}
Readers == {"none", "reading", "eof", "overflow", "failed", "closed"}
Hosts   == {"writing", "waiting", "joining", "session", "closing", "collecting", "draining",
            "returned"}
Results == {"none", "ok", "error", "timeout", "limit", "dropped"}

HasInput == kind \in {"cli", "code", "mcp"}
Grouped  == kind = "code" \/ (kind \in {"subprocess", "mcp"} /\ platform = "unix")

Reading == [p \in Pipes |-> "reading"]
Closed  == [p \in Pipes |-> "closed"]

(* Spawned.  The input of a subprocess tool is null.                         *)
Init ==
    /\ kind \in Kinds /\ platform \in Platforms
    /\ timed \in IF kind \in {"cli", "mcp"} THEN {TRUE} ELSE BOOLEAN
    /\ host = IF kind = "mcp" THEN "session" ELSE IF kind = "subprocess" THEN "waiting" ELSE "writing"
    /\ result = "none"
    /\ deadline = IF timed /\ kind \in {"mcp", "subprocess"} THEN "running" ELSE "off"
    /\ grace = "off"
    /\ pending = IF HasInput THEN Input ELSE 0
    /\ child = "running" /\ helper = "none"
    /\ inbox = 0
    /\ pipe = [p \in Pipes |-> 0] /\ wrote = pipe /\ got = pipe
    /\ reader = IF kind \in {"mcp", "subprocess"} THEN Reading ELSE [p \in Pipes |-> "none"]

-----------------------------------------------------------------------------
(* The program                                                               *)

ChildReads ==
    /\ child = "running" /\ inbox > 0
    /\ inbox' = inbox - 1
    /\ UNCHANGED <<what, host, result, timers, pending, child, helper, output, reader, got>>

(* It waits while the pipe is full.                                          *)
ChildWrites(p) ==
    /\ child = "running" /\ reader[p] \notin {"overflow", "failed", "closed"}
    /\ pipe[p] < Capacity /\ wrote[p] < MaxOutput
    /\ pipe'  = [pipe EXCEPT ![p] = @ + 1]
    /\ wrote' = [wrote EXCEPT ![p] = @ + 1]
    /\ UNCHANGED <<what, host, result, timers, pending, world, reader, got>>

ChildForks ==
    /\ child = "running" /\ helper = "none"
    /\ helper' \in {"running", "quiet"}
    /\ UNCHANGED <<what, host, result, timers, pending, child, inbox, output, reader, got>>

(* No process leaves the job object it was started in.                       *)
HelperLeaves ==
    /\ helper \in {"running", "escaped"}
    /\ helper' \in {"escaped", "gone"} \ {helper}
    /\ platform = "windows" => helper' = "gone"
    /\ UNCHANGED <<what, host, result, timers, pending, child, inbox, output, reader, got>>

ChildExits ==
    /\ child = "running"
    /\ child' = "exited"
    /\ UNCHANGED <<what, host, result, timers, pending, helper, inbox, output, reader, got>>

Program == ChildReads \/ (\E p \in Pipes : ChildWrites(p)) \/ ChildForks \/ HelperLeaves \/ ChildExits

InputIsRead == child = "running" \/ helper \in {"running", "escaped"}
Ended(p)    == pipe[p] = 0 /\ child # "running" /\ helper \notin {"running", "escaped"}

-----------------------------------------------------------------------------
(* Readers and timers                                                        *)

Limited(p) == kind \in {"code", "subprocess"} \/ (kind = "mcp" /\ p = "err")
ByTask(p)  == kind # "mcp" \/ p = "err"

(* drain_cli_pipe, read_stream, read_stdout, read_stderr: one block past the *)
(* limit ends the reader, and closes the pipe.                               *)
ReaderReads(p) ==
    /\ reader[p] = "reading" /\ pipe[p] > 0
    /\ ByTask(p) \/ host = "session"
    /\ pipe' = [pipe EXCEPT ![p] = @ - 1]
    /\ got'  = [got EXCEPT ![p] = @ + 1]
    /\ reader' = IF Limited(p) /\ got[p] = Limit THEN [reader EXCEPT ![p] = "overflow"] ELSE reader
    /\ UNCHANGED <<what, host, result, timers, pending, world, wrote>>

ReaderEnds(p) ==
    /\ reader[p] = "reading" /\ Ended(p) /\ ByTask(p)
    /\ reader' = [reader EXCEPT ![p] = "eof"]
    /\ UNCHANGED <<what, host, result, timers, pending, world, output, got>>

(* The read fails: what was collected is kept; or the task panics (a sink   *)
(* that is shown the lines does): it is lost.  The pipe is closed either way. *)
ReaderFails(p) ==
    /\ reader[p] = "reading"
    /\ ByTask(p) \/ host = "session"
    /\ reader' = [reader EXCEPT ![p] = "failed"]
    /\ got' \in {got, [got EXCEPT ![p] = 0]}
    /\ UNCHANGED <<what, host, result, timers, pending, world, output>>

Over(p) == reader[p] \in {"eof", "overflow", "failed", "closed"}
(* collect_reader_tasks, join_reader: stdout first, and its failure is the    *)
(* answer whatever stderr does.                                              *)
FailedJoin == reader["out"] = "failed" \/ (Over("out") /\ reader["err"] = "failed")

DeadlinePasses ==
    /\ deadline = "running"
    /\ deadline' = "passed"
    /\ UNCHANGED <<what, host, result, grace, pending, world, output, reader, got>>

GracePasses ==
    /\ grace = "running"
    /\ grace' = "passed"
    /\ UNCHANGED <<what, host, result, deadline, pending, world, output, reader, got>>

-----------------------------------------------------------------------------
(* The host                                                                  *)

(* kill_group, which kill_and_reap and terminate_process_tree begin with: a  *)
(* no-op for a tool that is not on Unix.                                     *)
KillGroup == helper' = IF Grouped /\ helper \in {"running", "quiet"} THEN "gone" ELSE helper
KillTree  == KillGroup /\ child' = "reaped"

(* It returns: a child that still runs is killed as its handle is dropped.   *)
Return(outcome) == host' = "returned" /\ result' = outcome /\ child' = "reaped"
(* Flawed form: no guard.                                                    *)
UnguardedReturn(outcome) == Return(outcome) /\ UNCHANGED helper

(* With its group, where a guard is armed.                                   *)
ReturnArmed(outcome) == Return(outcome) /\ KillGroup

(* write_all on the program's input, under the session's deadline only.      *)
WriteInput ==
    /\ host \in {"writing", "session"} /\ pending > 0
    /\ InputIsRead /\ inbox < Capacity
    /\ pending' = pending - 1
    /\ inbox'   = inbox + 1
    /\ UNCHANGED <<what, host, result, timers, child, helper, output, reader, got>>

WriteFails ==
    /\ host = "writing" /\ pending > 0 /\ ~InputIsRead
    /\ ReturnArmed("error")
    /\ UNCHANGED <<what, timers, pending, inbox, output, reader, got>>

(* The input is closed; now the readers start, and the clock.                *)
InputWritten ==
    /\ host = "writing" /\ pending = 0
    /\ host' = "waiting"
    /\ reader' = Reading
    /\ deadline' = IF timed THEN "running" ELSE "off"
    /\ UNCHANGED <<what, result, grace, pending, world, output, got>>

(* child.wait.  A CODE_CALL ends its group before it joins the readers.      *)
Reap ==
    /\ host = "waiting" /\ child = "exited"
    /\ child' = "reaped"
    /\ IF kind = "code" THEN KillGroup ELSE UNCHANGED helper
    /\ host' = "joining"
    /\ UNCHANGED <<what, result, timers, pending, inbox, output, reader, got>>

(* A CODE_CALL watches its readers as it waits.                              *)
StopWaiting ==
    /\ kind = "code" /\ host = "waiting"
    /\ \E p \in Pipes : /\ reader[p] \in {"overflow", "failed"}
                        /\ ReturnArmed(IF reader[p] = "overflow" THEN "limit" ELSE "error")
    /\ reader' = Closed
    /\ UNCHANGED <<what, timers, pending, inbox, output, got>>

Timeout ==
    /\ host = "waiting" /\ deadline = "passed"
    /\ CASE kind = "cli"  -> Return("timeout") /\ UNCHANGED <<helper, reader>>
         [] kind = "code" -> ReturnArmed("timeout") /\ reader' = Closed
         [] OTHER         -> KillTree /\ host' = "draining" /\ UNCHANGED <<result, reader>>
    /\ UNCHANGED <<what, timers, pending, inbox, output, got>>

(* Flawed form: what a failed reader kept passes for the output.             *)
LenientJoin ==
    /\ host = "joining" /\ \A p \in Pipes : Over(p)
    /\ IF \E p \in Pipes : reader[p] = "overflow"
       THEN ReturnArmed("limit")
       ELSE Return("ok") /\ IF kind = "code" THEN KillGroup ELSE UNCHANGED helper
    /\ UNCHANGED <<what, timers, pending, inbox, output, reader, got>>

(* Both readers are done.  run_cli takes what they collected; the others are  *)
(* answered with the error of a reader that failed.                          *)
Join ==
    /\ host = "joining" /\ \A p \in Pipes : Over(p)
    /\ kind # "cli" => ~FailedJoin
    /\ IF \E p \in Pipes : reader[p] = "overflow"
       THEN ReturnArmed("limit")
       ELSE Return("ok") /\ IF kind = "code" THEN KillGroup ELSE UNCHANGED helper
    /\ UNCHANGED <<what, timers, pending, inbox, output, reader, got>>

JoinFails ==
    /\ host = "joining" /\ kind # "cli" /\ FailedJoin
    /\ ReturnArmed("error")
    /\ UNCHANGED <<what, timers, pending, inbox, output, reader, got>>

(* Flawed form: the deadline covers the program's exit only.                  *)
UntimedJoinTimeout == FALSE

(* A subprocess tool joins them under the same deadline.                     *)
JoinTimeout ==
    /\ kind = "subprocess" /\ host = "joining" /\ deadline = "passed"
    /\ KillTree
    /\ host' = "draining"
    /\ UNCHANGED <<what, result, timers, pending, inbox, output, reader, got>>

(* After the kill, without a deadline.                                       *)
Drain ==
    /\ host = "draining"
    /\ (\A p \in Pipes : Over(p)) \/ (kind = "subprocess" /\ FailedJoin)
    /\ Return(IF deadline = "passed" THEN "timeout"
              ELSE IF reader["err"] = "overflow" THEN "limit" ELSE "error")
    /\ UNCHANGED <<what, helper, timers, pending, inbox, output, reader, got>>

(* The session of run_session or list_session: answers were read, or the     *)
(* server's output ended, or a read failed, or a line was refused; its        *)
(* handles are closed.                                                       *)
SessionEnds ==
    /\ host = "session"
    /\ got["out"] > 0 \/ Ended("out") \/ ~InputIsRead \/ reader["out"] = "failed"
    /\ host' = "closing"
    /\ reader' = [reader EXCEPT !["out"] = IF @ = "failed" THEN @ ELSE "closed"]
    /\ grace' = "running" /\ deadline' = "off"
    /\ UNCHANGED <<what, result, pending, world, output, got>>

SessionTimeout ==
    /\ host = "session" /\ deadline = "passed"
    /\ KillTree
    /\ host' = "draining"
    /\ reader' = [reader EXCEPT !["out"] = "closed"]
    /\ UNCHANGED <<what, result, timers, pending, inbox, output, got>>

ServerExits ==
    /\ host = "closing" /\ child = "exited"
    /\ child' = "reaped" /\ host' = "collecting"
    /\ UNCHANGED <<what, result, timers, pending, helper, inbox, output, reader, got>>

ServerLingers ==
    /\ host = "closing" /\ grace = "passed"
    /\ KillTree
    /\ host' = "collecting"
    /\ UNCHANGED <<what, result, timers, pending, inbox, output, reader, got>>

(* The guard is disarmed before what stderr held is judged.                  *)
Collect ==
    /\ host = "collecting" /\ Over("err")
    /\ IF reader["err"] = "overflow" THEN Return("limit")
       ELSE \E outcome \in {"ok", "error"} :
               /\ outcome = "ok" => got["out"] > 0 /\ \A p \in Pipes : reader[p] # "failed"
               /\ Return(outcome)
    /\ UNCHANGED <<what, helper, timers, pending, inbox, output, reader, got>>

CollectTimeout ==
    /\ host = "collecting" /\ grace = "passed"
    /\ KillTree
    /\ host' = "draining"
    /\ UNCHANGED <<what, result, timers, pending, inbox, output, reader, got>>

(* The run is aborted: the host's future is dropped where it stands.         *)
Drop ==
    /\ host # "returned"
    /\ ReturnArmed("dropped")
    /\ UNCHANGED <<what, timers, pending, inbox, output, reader, got>>

Session == SessionEnds \/ SessionTimeout \/ ServerExits \/ ServerLingers \/ Collect \/ CollectTimeout

Step == \/ WriteInput \/ WriteFails \/ InputWritten \/ Reap \/ StopWaiting \/ Timeout
        \/ Join \/ JoinFails \/ JoinTimeout \/ Drain \/ Session

Read == \E p \in Pipes : ReaderReads(p) \/ ReaderEnds(p)

Next == Program \/ Read \/ (\E p \in Pipes : ReaderFails(p)) \/ DeadlinePasses \/ GracePasses \/ Step \/ Drop

(* The host's tasks and its timers run; the program owes nothing.            *)
Spec == /\ Init /\ [][Next]_vars
        /\ WF_vars(Step) /\ WF_vars(Read) /\ WF_vars(DeadlinePasses) /\ WF_vars(GracePasses)
-----------------------------------------------------------------------------
TypeOK ==
    /\ kind \in Kinds /\ timed \in BOOLEAN /\ platform \in Platforms
    /\ host \in Hosts /\ result \in Results
    /\ deadline \in {"off", "running", "passed"} /\ grace \in {"off", "running", "passed"}
    /\ pending \in 0..Input /\ inbox \in 0..Capacity
    /\ child \in {"running", "exited", "reaped"}
    /\ helper \in {"none", "running", "quiet", "escaped", "gone"}
    /\ pipe \in [Pipes -> 0..Capacity]
    /\ wrote \in [Pipes -> 0..MaxOutput]
    /\ reader \in [Pipes -> Readers]
    /\ got \in [Pipes -> 0..MaxOutput]

(* What a call returns is everything the program wrote, and no more than is  *)
(* kept: a program that exits while its output is still in the pipes, that    *)
(* is cut off at the limit, or whose reader fails, never yields a shortened   *)
(* success.  The exception is run_cli, whose drain ends at a read that fails  *)
(* (drain_cli_pipe) and whose joins make nothing of a panic                   *)
(* (unwrap_or_default).                                                      *)
OutputIsComplete ==
    result = "ok" /\ kind # "mcp" =>
        \A p \in Pipes :
            \/ got[p] = wrote[p] /\ (Limited(p) => wrote[p] <= Limit)
            \/ kind = "cli" /\ reader[p] = "failed"

(* Without that exception, as drain_cli_pipe has it ("Read one std pipe to    *)
(* EOF [...] returning the exact collected bytes").                          *)
CliOutputIsComplete ==
    result = "ok" /\ kind = "cli" => \A p \in Pipes : got[p] = wrote[p]

(* No helper outlives the call it was started in: of a CODE_CALL never, of a  *)
(* tool on Unix none after a deadline or an abort, wherever the call was      *)
(* dropped (ProcessGroupGuard, ProcessContainment).                          *)
NothingOutlivesTheCall ==
    host = "returned" /\ Grouped /\ (kind = "code" \/ result \in {"timeout", "dropped"})
        => helper \notin {"running", "quiet"}

(* A call with a deadline ends, whatever the program does, unless for ever a *)
(* helper that no group kill reaches holds the pipes, or the program does not *)
(* read the input that is written before the clock starts (timeout_secs).     *)
OutOfReach ==
    \/ helper = "escaped"
    \/ ~Grouped /\ helper = "running"
    \/ host = "writing" /\ inbox = Capacity
CallEnds == <>(timed => host = "returned") \/ <>[]OutOfReach
=============================================================================
