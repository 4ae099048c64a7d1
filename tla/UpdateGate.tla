----------------------------- MODULE UpdateGate -----------------------------
(***************************************************************************)
(* Updating the program while it works (app/update_gate.rs,                 *)
(* app/update_controller.rs, app/updater.rs).  Work (a run, a compilation,   *)
(* a change) is admitted in every process of one installation; the desktop   *)
(* stops admission with two file locks, waits for no work to be left, and    *)
(* replaces the program itself or hands over to an installer, which runs     *)
(* after the desktop has exited and is announced by a marker file.           *)
(*                                                                         *)
(* A file lock is held by the task that opened the file and goes with its    *)
(* process.  The marker holds a process id: "desktop", "supervisor" or       *)
(* "installer" while that process lives, "dead" afterwards (a process id is  *)
(* not reused), "empty" between its creation and its first line.             *)
(***************************************************************************)
EXTENDS Naturals, FiniteSets

CONSTANTS Workers,      \* tasks that do work, in any process
          Inside,       \* those in the desktop process
          Ui,           \* its user interface
          MaxCrashes    \* processes that die

ASSUME UpdateAssumption ==
    /\ Inside \subseteq Workers /\ Ui \notin Workers
    /\ MaxCrashes \in Nat

VARIABLES
    up,          \* the desktop process is running
    marker,      \* the installer.pid file
    pc,          \* where each task is
    seen,        \* the process id it has read from the marker
    rx,          \* what the controller's channel belongs to
    mail,        \* the message in it
    cancel,      \* the flag of the current download
    requested,   \* install_requested
    prepared,    \* a verified download is staged
    pending,     \* PendingInstall: the intent lock, exclusive
    guard,       \* the work lock, exclusive: "none", "installing", "installed"
    installer,   \* the thread that installs
    supervisor,  \* the detached script
    setup,       \* the system's installer is running
    stranded,    \* a stored run is Running and nobody executes it
    lapses,      \* history: how the marker has failed as a barrier
    crashes

controller == <<rx, mail, cancel, requested, prepared>>
handoff    == <<installer, supervisor, setup>>
history    == <<stranded, lapses, crashes>>
vars == <<up, marker, pc, seen, rx, mail, cancel, requested, prepared, pending, guard,
          installer, supervisor, setup, stranded, lapses, crashes>>

Tasks    == Workers \union {Ui}
Desktop  == Inside \union {Ui}
Markers  == {"none", "empty", "desktop", "supervisor", "installer", "dead"}
(* "probing", "removing", "intent"  inside admission, ADMISSION held          *)
(* "work"                           a worker with the intent lock, shared     *)
(* "working"                        admitted: the work lock, shared           *)
(* "quiescing"                      the Ui, with the intent lock              *)
Admission == {"probing", "removing", "intent", "work"}
Points    == Admission \union {"idle", "working", "quiescing"}
(* "erased"       a task removed a marker that had taken the place of the one *)
(*                it had read                                               *)
(* "overtaken"    the desktop handed over and exited while a task was between *)
(*                its check of the marker and the work lock                  *)
(* "late"         the script of a desktop that died went on after work had    *)
(*                been admitted again                                        *)
(* "unannounced"  the script died between starting the installer and writing  *)
(*                its id                                                     *)
Lapses    == {"erased", "overtaken", "late", "unannounced"}

Init ==
    /\ up = TRUE
    /\ marker = "none"
    /\ pc   = [t \in Tasks |-> "idle"]
    /\ seen = [t \in Tasks |-> "none"]
    /\ rx = "none" /\ mail = "none"
    /\ cancel = FALSE /\ requested = FALSE /\ prepared = FALSE
    /\ pending = FALSE /\ guard = "none"
    /\ installer = "none" /\ supervisor = "none" /\ setup = FALSE
    /\ stranded = FALSE /\ lapses = {}
    /\ crashes = 0

Goto(t, from, to) == pc[t] = from /\ pc' = [pc EXCEPT ![t] = to]

(* The static mutex is one per process.                                      *)
SameProcess(t) == IF t \in Desktop THEN Desktop ELSE Tasks \ Desktop
MutexFree(t)   == \A o \in SameProcess(t) : pc[o] \notin Admission

(* A pid that was read is that of a process, which may end.                   *)
Ended(who, p) == IF p = who THEN "dead" ELSE p
Alive(p)      == p \in {"desktop", "supervisor", "installer"}

Lapse(kind, happened) == lapses' = IF happened THEN lapses \union {kind} ELSE lapses

-----------------------------------------------------------------------------
(* Admission                                                                 *)

(* Who may ask: a worker, or the user interface about to install.            *)
ReadyToInstall == requested /\ prepared
Asks(t) == IF t = Ui THEN up /\ ReadyToInstall /\ ~pending ELSE t \in Inside => up

Check(t) ==
    /\ Asks(t) /\ MutexFree(t)
    /\ Goto(t, "idle", IF marker = "none" THEN "intent" ELSE "probing")
    /\ marker # "empty"
    /\ seen' = [seen EXCEPT ![t] = marker]
    /\ UNCHANGED <<up, marker, controller, pending, guard, handoff, history>>

(* What the caller does with a refusal: the controller records a failure.    *)
Refused(t) ==
    /\ requested' = (requested /\ t # Ui)
    /\ UNCHANGED <<rx, mail, cancel, prepared>>

(* An unreadable marker stops all work.                                       *)
CheckFails(t) ==
    /\ Asks(t) /\ MutexFree(t)
    /\ pc[t] = "idle" /\ marker = "empty"
    /\ Refused(t)
    /\ UNCHANGED <<up, marker, pc, seen, pending, guard, handoff, history>>

(* Flawed form: any marker is taken for a leftover.                           *)
CarelessProbe(t) ==
    /\ Goto(t, "probing", "removing")
    /\ UNCHANGED <<up, marker, seen, controller, pending, guard, handoff, history>>

Probe(t) ==
    /\ Goto(t, "probing", IF Alive(seen[t]) THEN "idle" ELSE "removing")
    /\ IF Alive(seen[t]) THEN Refused(t) ELSE UNCHANGED controller
    /\ UNCHANGED <<up, marker, seen, pending, guard, handoff, history>>

(* The process named by the marker is gone.  Removing the file fails when     *)
(* somebody else has removed it.                                             *)
RemoveMarker(t) ==
    /\ Goto(t, "removing", IF marker = "none" THEN "idle" ELSE "intent")
    /\ IF marker = "none" THEN Refused(t) ELSE UNCHANGED controller
    /\ marker' = "none"
    /\ Lapse("erased", marker \notin {"none", seen[t]})
    /\ UNCHANGED <<up, seen, pending, guard, handoff, stranded, crashes>>

(* The controller holds intent from begin to the end of the installation.     *)
IntentTaken == pending \/ guard # "none"

TakeIntent(t) ==
    /\ t \in Workers
    /\ Goto(t, "intent", IF IntentTaken THEN "idle" ELSE "work")
    /\ UNCHANGED <<up, marker, seen, controller, pending, guard, handoff, history>>

Admit(t) ==
    /\ Goto(t, "work", IF guard # "none" THEN "idle" ELSE "working")
    /\ UNCHANGED <<up, marker, seen, controller, pending, guard, handoff, history>>

WorkEnds(t) ==
    /\ Goto(t, "working", "idle")
    /\ UNCHANGED <<up, marker, seen, controller, pending, guard, handoff, history>>

-----------------------------------------------------------------------------
(* The controller                                                            *)

(* A download; ignored while something is under way.                          *)
Begin ==
    /\ rx = "none" /\ guard = "none"
    /\ rx' = "download" /\ mail' = "none" /\ cancel' = FALSE /\ requested' = TRUE
    /\ UNCHANGED prepared

Idle == up /\ pc[Ui] = "idle"

DownloadAndInstall ==
    /\ Idle /\ Begin
    /\ UNCHANGED <<up, marker, pc, seen, pending, guard, handoff, history>>

Retry ==
    /\ Idle
    /\ IF prepared THEN requested' = TRUE /\ UNCHANGED <<rx, mail, cancel, prepared>> ELSE Begin
    /\ UNCHANGED <<up, marker, pc, seen, pending, guard, handoff, history>>

Cancel ==
    /\ Idle
    /\ cancel' = TRUE /\ requested' = FALSE /\ prepared' = FALSE
    /\ pending' = FALSE
    /\ UNCHANGED <<up, marker, pc, seen, rx, mail, guard, handoff, history>>

(* The worker thread; a cancelled download reports an error, unless it was    *)
(* complete.                                                                 *)
Download ==
    /\ up /\ rx = "download" /\ mail = "none"
    /\ mail' \in {"prepared", "failed"}
    /\ UNCHANGED <<up, marker, pc, seen, rx, cancel, requested, prepared, pending, guard, handoff,
                   history>>

Poll ==
    /\ Idle /\ mail # "none"
    /\ rx' = "none" /\ mail' = "none"
    /\ IF rx = "download"
       THEN /\ prepared'  = (prepared \/ (mail = "prepared" /\ ~cancel))
            /\ requested' = (requested /\ mail = "prepared")
            /\ UNCHANGED guard
       ELSE /\ guard' = IF mail = "installed" THEN "installed" ELSE "none"
            /\ UNCHANGED <<prepared, requested>>
    /\ UNCHANGED <<up, marker, pc, seen, cancel, pending, handoff, history>>

(* The drafts are saved first, and when that fails nothing is installed.      *)
DraftsUnsaved ==
    /\ Idle /\ ReadyToInstall
    /\ Refused(Ui)
    /\ UNCHANGED <<up, marker, pc, seen, pending, guard, handoff, history>>

(* install: with the intent lock taken before, or taken now.                  *)
InstallAgain ==
    /\ Idle /\ ReadyToInstall /\ pending
    /\ Goto(Ui, "idle", "quiescing")
    /\ UNCHANGED <<up, marker, seen, controller, pending, guard, handoff, history>>

BeginInstall ==
    LET taken == \E t \in Workers : pc[t] = "work"
    IN  /\ Goto(Ui, "intent", IF taken THEN "idle" ELSE "quiescing")
        /\ pending' = ~taken
        /\ IF taken THEN Refused(Ui) ELSE UNCHANGED controller
        /\ UNCHANGED <<up, marker, seen, guard, handoff, history>>

(* Flawed form: only the stored runs are asked.                               *)
CarelessQuiet == ~stranded

(* Active work, or a stored run that is Running: not now, and work stays      *)
(* paused until a retry or a cancellation.                                   *)
Quiet == ~stranded /\ \A t \in Workers : pc[t] # "working"

Defer ==
    /\ Goto(Ui, "quiescing", "idle")
    /\ ~Quiet
    /\ Refused(Ui)
    /\ UNCHANGED <<up, marker, seen, pending, guard, handoff, history>>

Install ==
    /\ Goto(Ui, "quiescing", "idle")
    /\ Quiet
    /\ prepared' = FALSE /\ requested' = FALSE
    /\ pending' = FALSE /\ guard' = "installing"
    /\ rx' = "install" /\ mail' = "none"
    /\ installer' \in {"replacing", "marking"}
    /\ UNCHANGED <<up, marker, seen, cancel, supervisor, setup, history>>

-----------------------------------------------------------------------------
(* The installing thread                                                     *)

Report(result) == installer' = "none" /\ mail' = result /\ UNCHANGED <<rx, cancel, requested, prepared>>

Replace ==
    /\ installer = "replacing"
    /\ \E result \in {"installed", "failed"} : Report(result)
    /\ UNCHANGED <<up, marker, pc, seen, pending, guard, supervisor, setup, history>>

(* start_installer_worker: create_new, the parent's id, then the script.  A    *)
(* second script beside one that is about to remove its marker is left out.   *)
CreateMarker ==
    /\ installer = "marking"
    /\ marker = "none" => supervisor = "none"
    /\ IF marker = "none"
       THEN marker' = "empty" /\ installer' = "writing" /\ UNCHANGED controller
       ELSE Report("failed") /\ UNCHANGED marker
    /\ UNCHANGED <<up, pc, seen, pending, guard, supervisor, setup, history>>

(* A line written to a file that was removed meanwhile is lost.               *)
WriteMarker ==
    /\ installer = "writing"
    /\ marker' = IF marker = "empty" THEN "desktop" ELSE marker
    /\ installer' = "waiting"
    /\ supervisor' \in {"starting", "none"}
    /\ UNCHANGED <<up, pc, seen, controller, pending, guard, setup, history>>

(* Any process id but its own is an acknowledgement.                          *)
Acknowledged ==
    /\ installer = "waiting" /\ marker \notin {"none", "desktop"}
    /\ Report("installed")
    /\ UNCHANGED <<up, marker, pc, seen, pending, guard, supervisor, setup, history>>

(* Flawed form: the marker of a handoff that failed stays.                    *)
LeavingGiveUp ==
    /\ installer = "waiting" /\ marker \in {"none", "desktop"}
    /\ supervisor' = "none"
    /\ Report("failed")
    /\ UNCHANGED <<up, marker, pc, seen, pending, guard, setup, history>>

(* No acknowledgement in time, or the script has ended: kill it, clean up.    *)
GiveUp ==
    /\ installer = "waiting" /\ marker \in {"none", "desktop"}
    /\ marker' = "none" /\ supervisor' = "none"
    /\ Report("failed")
    /\ UNCHANGED <<up, pc, seen, pending, guard, setup, history>>

-----------------------------------------------------------------------------
(* The supervisor, external to the program                                   *)

(* It waits for the desktop that started it, not for a later one: "starting"  *)
(* and "waiting" while that lives, "orphaned" and "released" afterwards.       *)
Acknowledge ==
    /\ supervisor \in {"starting", "orphaned"}
    /\ marker' = "supervisor"
    /\ supervisor' = IF supervisor = "starting" THEN "waiting" ELSE "released"
    /\ Lapse("late", supervisor = "orphaned"
                        /\ \E t \in Workers : pc[t] \in {"intent", "work", "working"})
    /\ UNCHANGED <<up, pc, seen, controller, pending, guard, installer, setup, stranded, crashes>>

(* The download is verified once more, the installer started, then announced. *)
RunSetup ==
    /\ supervisor = "released"
    /\ supervisor' = "installing" /\ setup' = TRUE
    /\ UNCHANGED <<up, marker, pc, seen, controller, pending, guard, installer, history>>

Announce ==
    /\ supervisor = "installing"
    /\ supervisor' = "announced"
    /\ marker' = IF setup THEN "installer" ELSE "dead"
    /\ UNCHANGED <<up, pc, seen, controller, pending, guard, installer, setup, history>>

SetupEnds ==
    /\ setup
    /\ setup' = FALSE
    /\ marker' = Ended("installer", marker)
    /\ seen' = [t \in Tasks |-> Ended("installer", seen[t])]
    /\ UNCHANGED <<up, pc, controller, pending, guard, installer, supervisor, history>>

(* It removes the marker, whether it installed or refused to, and starts the  *)
(* desktop again.                                                            *)
Finish ==
    /\ (supervisor = "announced" /\ ~setup) \/ supervisor = "released"
    /\ supervisor' = "none" /\ marker' = "none" /\ up' = TRUE
    /\ seen' = [t \in Tasks |-> Ended("supervisor", seen[t])]
    /\ UNCHANGED <<pc, controller, pending, guard, installer, setup, history>>

-----------------------------------------------------------------------------
(* Processes that end                                                        *)

(* The desktop exits, to restart into the new version or because it is quit   *)
(* or dies: locks, channel and tasks go with it.                             *)
Exit ==
    /\ up' = FALSE
    /\ marker' = Ended("desktop", marker)
    /\ seen' = [t \in Tasks |-> IF t \in Desktop THEN "none" ELSE Ended("desktop", seen[t])]
    /\ pc' = [t \in Tasks |-> IF t \in Desktop THEN "idle" ELSE pc[t]]
    /\ rx' = "none" /\ mail' = "none" /\ cancel' = FALSE
    /\ requested' = FALSE /\ prepared' = FALSE /\ pending' = FALSE /\ guard' = "none"
    /\ installer' = "none"
    /\ supervisor' = IF supervisor = "starting" THEN "orphaned"
                     ELSE IF supervisor = "waiting" THEN "released" ELSE supervisor
    /\ Lapse("overtaken", supervisor = "waiting"
                             /\ \E t \in Workers \ Inside : pc[t] \in {"intent", "work"})
    /\ UNCHANGED setup

Quit ==
    /\ Idle /\ installer = "none"
    /\ \A t \in Inside : pc[t] = "idle"
    /\ Exit
    /\ UNCHANGED <<stranded, crashes>>

(* What a dying task leaves: a run it was executing, or nothing.              *)
Crash(t) ==
    /\ crashes < MaxCrashes
    /\ crashes' = crashes + 1
    /\ stranded' \in {stranded, stranded \/ pc[t] = "working"}

DesktopDies ==
    /\ up
    /\ \E t \in Desktop : Crash(t)
    /\ Exit

WorkerDies(t) ==
    /\ t \notin Desktop /\ pc[t] # "idle"
    /\ Crash(t)
    /\ pc' = [pc EXCEPT ![t] = "idle"]
    /\ UNCHANGED <<up, marker, seen, controller, pending, guard, handoff, lapses>>

SupervisorDies ==
    /\ supervisor # "none"
    /\ Crash(Ui)
    /\ Lapse("unannounced", supervisor = "installing" /\ setup)
    /\ supervisor' = "none"
    /\ marker' = Ended("supervisor", marker)
    /\ seen' = [t \in Tasks |-> Ended("supervisor", seen[t])]
    /\ UNCHANGED <<up, pc, controller, pending, guard, installer, setup>>

Launch ==
    /\ ~up
    /\ up' = TRUE
    /\ UNCHANGED <<marker, pc, seen, controller, pending, guard, handoff, history>>

-----------------------------------------------------------------------------
Gate(t) == Check(t) \/ CheckFails(t) \/ Probe(t) \/ RemoveMarker(t)

Work(t) == TakeIntent(t) \/ Admit(t) \/ WorkEnds(t) \/ WorkerDies(t)

Control ==
    \/ DownloadAndInstall \/ Retry \/ Cancel \/ Download \/ Poll
    \/ DraftsUnsaved \/ InstallAgain \/ BeginInstall \/ Defer \/ Install
    \/ Replace \/ CreateMarker \/ WriteMarker \/ Acknowledged \/ GiveUp
    \/ Quit \/ Launch \/ DesktopDies

Supervise == Acknowledge \/ RunSetup \/ Announce \/ SetupEnds \/ Finish \/ SupervisorDies

Next ==
    \/ \E t \in Tasks : Gate(t)
    \/ \E t \in Workers : Work(t)
    \/ Control \/ Supervise

(* A task inside admission, the installing thread, the script and the         *)
(* installer go on by themselves.                                            *)
Fairness ==
    /\ \A t \in Tasks : WF_vars(Probe(t) \/ RemoveMarker(t))
    /\ \A t \in Workers : WF_vars(TakeIntent(t) \/ Admit(t))
    /\ WF_vars(BeginInstall)
    /\ WF_vars(WriteMarker) /\ WF_vars(Acknowledged) /\ WF_vars(GiveUp)
    /\ WF_vars(Acknowledge) /\ WF_vars(RunSetup) /\ WF_vars(Announce)
    /\ WF_vars(SetupEnds) /\ WF_vars(Finish)

Spec == Init /\ [][Next]_vars /\ Fairness

-----------------------------------------------------------------------------
TypeOK ==
    /\ up \in BOOLEAN /\ marker \in Markers
    /\ pc \in [Tasks -> Points] /\ seen \in [Tasks -> Markers]
    /\ rx \in {"none", "download", "install"}
    /\ mail \in {"none", "prepared", "failed", "installed"}
    /\ cancel \in BOOLEAN /\ requested \in BOOLEAN /\ prepared \in BOOLEAN
    /\ pending \in BOOLEAN /\ guard \in {"none", "installing", "installed"}
    /\ installer \in {"none", "replacing", "marking", "writing", "waiting"}
    /\ supervisor \in {"none", "starting", "waiting", "orphaned", "released", "installing",
                      "announced"}
    /\ setup \in BOOLEAN /\ stranded \in BOOLEAN /\ lapses \subseteq Lapses /\ crashes \in 0..MaxCrashes

(* No work is under way, in any process, while the program is being replaced  *)
(* (install.md: work is paused "across desktop and MCP processes", "existing  *)
(* work must finish first"), unless the barrier has failed in one of the four  *)
(* ways: while the desktop lives its locks exclude work, then only the marker. *)
Replacing == installer \in {"replacing", "waiting"} \/ setup
InstallExcludesWork ==
    Replacing /\ lapses = {} => \A t \in Workers : pc[t] # "working"

(* Work that was admitted keeps the installation out, and the other way       *)
(* round, through the two locks alone.                                       *)
LocksExclude == guard # "none" => \A t \in Workers : pc[t] # "working"

(* From its acknowledgement until the end of the installation the marker names *)
(* a living process, so that nobody takes it for a leftover (check_handoff).   *)
(* It is lost in two ways only: to a task that judged an earlier marker, and    *)
(* with a script that dies before it has written the installer's id.           *)
HandoffIsAnnounced ==
    setup \/ supervisor \in {"waiting", "released"} =>
        Alive(marker) \/ lapses \intersect {"erased", "unannounced"} # {}

(* Work is not refused for ever because of a handoff: whether it succeeds,    *)
(* fails or loses its script, the marker goes or names a process that is      *)
(* gone, unless the desktop that must exit first is still there.              *)
HandoffEnds == Alive(marker) ~> (~Alive(marker) \/ supervisor = "waiting")
=============================================================================
