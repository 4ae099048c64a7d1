--------------------------- MODULE UpdateGateProofs ---------------------------
(***************************************************************************)
(* What UpdateGate guarantees for any number of tasks and processes.        *)
(***************************************************************************)
EXTENDS UpdateGate, TLAPS

(***************************************************************************)
(* Invariants                                                              *)
(***************************************************************************)
(* The controller's channel, its guard and its thread belong together, and    *)
(* the guard keeps work out.                                                 *)
LocksInv ==
    /\ rx = "install" => guard = "installing"
    /\ rx = "download" => guard = "none"
    /\ mail # "none" => rx # "none"
    /\ pc[Ui] # "idle" => up
    /\ installer # "none" => up /\ rx = "install" /\ mail = "none"
    /\ guard # "none" => pc[Ui] = "idle" /\ ~pending /\ ~prepared
    /\ LocksExclude

(* Who probes has read a process id, who removes found its process gone.      *)
SeenInv ==
    /\ \A t \in Tasks : pc[t] = "probing" => seen[t] \notin {"none", "empty"}
    /\ \A t \in Tasks : pc[t] = "removing" => seen[t] = "dead"

(* How far the script is, by the thread that started it; the desktop that it  *)
(* waits for keeps its guard until it exits.                                 *)
ScriptInv ==
    /\ installer = "writing" => supervisor = "none" /\ marker \in {"empty", "none"}
    /\ installer = "waiting" => supervisor \in {"none", "starting", "waiting"}
    /\ supervisor = "starting" => installer = "waiting" /\ marker \in {"desktop", "none"}
    /\ supervisor = "waiting" =>
          /\ up
          /\ \/ installer = "waiting"
             \/ rx = "install" /\ mail = "installed"
             \/ guard = "installed"

(* The script has the marker from its acknowledgement on, and then its         *)
(* installer has, while nobody erases it and the script lives to pass it on.   *)
MarkerInv ==
    lapses \intersect {"erased", "unannounced"} = {} =>
        /\ supervisor \in {"waiting", "released", "installing"} => marker = "supervisor"
        /\ setup => \/ marker = "supervisor" /\ supervisor = "installing"
                    \/ marker = "installer" /\ supervisor \in {"announced", "none"}

(* Without a lapse nobody is past the check of the marker once the script has  *)
(* been released.                                                            *)
PausedInv ==
    /\ lapses = {}
    /\ setup \/ supervisor \in {"released", "installing"}
    => \A t \in Workers : pc[t] \notin {"intent", "work", "working"}

GateInv == TypeOK /\ LocksInv /\ SeenInv /\ ScriptInv /\ MarkerInv /\ PausedInv

(***************************************************************************)
(* The initial states and every step                                       *)
(***************************************************************************)
LEMMA GateInit == Init => GateInv
<1> SUFFICES ASSUME Init PROVE GateInv
  OBVIOUS
<1>1. TypeOK
  <2>1. pc \in [Tasks -> Points] /\ seen \in [Tasks -> Markers]
    BY DEF Init, Points, Markers
  <2>2. crashes \in 0..MaxCrashes
    BY UpdateAssumption DEF Init
  <2> QED
    BY <2>1, <2>2 DEF Init, TypeOK, Markers, Lapses
<1>2. LocksInv
  BY DEF Init, LocksInv, LocksExclude, Tasks
<1>3. SeenInv /\ ScriptInv /\ MarkerInv /\ PausedInv
  BY DEF Init, SeenInv, ScriptInv, MarkerInv, PausedInv
<1> QED
  BY <1>1, <1>2, <1>3 DEF GateInv

(* Types.                                                                    *)
LEMMA TypeStep ==
    ASSUME TypeOK, [Next]_vars
    PROVE  TypeOK'
<1>1. ASSUME NEW t \in Tasks, Check(t) PROVE TypeOK'
  BY <1>1, UpdateAssumption
     DEF Check, Goto, Asks, MutexFree, ReadyToInstall, controller, handoff, TypeOK, Tasks,
         Desktop, Markers, Points, Admission, history, Lapses
<1>2. ASSUME NEW t \in Tasks, CheckFails(t) PROVE TypeOK'
  BY <1>2, UpdateAssumption
     DEF CheckFails, Asks, MutexFree, Refused, ReadyToInstall, controller, handoff, TypeOK,
         Tasks, Desktop, Markers, Points, Admission, history, Lapses
<1>3. ASSUME NEW t \in Tasks, Probe(t) PROVE TypeOK'
  <2>1. requested' \in BOOLEAN
    BY <1>3
       DEF Probe, Goto, Alive, Refused, controller, handoff, TypeOK, Tasks, Desktop,
           Markers, Points, Admission, history, Lapses
  <2>2. pc' \in [Tasks -> Points]
    BY <1>3
       DEF Probe, Goto, Alive, Refused, controller, handoff, TypeOK, Tasks, Desktop,
           Markers, Points, Admission, history, Lapses
  <2> QED
    BY <1>3, <2>1, <2>2
       DEF Probe, Goto, Alive, Refused, controller, handoff, TypeOK, Tasks, Desktop,
           Markers, Points, Admission, history, Lapses
<1>4. ASSUME NEW t \in Tasks, RemoveMarker(t) PROVE TypeOK'
  <2>1. requested' \in BOOLEAN
    BY <1>4
       DEF RemoveMarker, Goto, Refused, controller, handoff, TypeOK, Tasks, Desktop,
           Markers, Points, Admission, history, Lapses, Lapse
  <2>2. pc' \in [Tasks -> Points]
    BY <1>4
       DEF RemoveMarker, Goto, Refused, controller, handoff, TypeOK, Tasks, Desktop,
           Markers, Points, Admission, history, Lapses, Lapse
  <2>3. marker' \in Markers
    BY <1>4
       DEF RemoveMarker, Goto, Refused, controller, handoff, TypeOK, Tasks, Desktop,
           Markers, Points, Admission, history, Lapses, Lapse
  <2> QED
    BY <1>4, <2>1, <2>2, <2>3
       DEF RemoveMarker, Goto, Refused, controller, handoff, TypeOK, Tasks, Desktop,
           Markers, Points, Admission, history, Lapses, Lapse
<1>5. ASSUME NEW t \in Workers, TakeIntent(t) PROVE TypeOK'
  BY <1>5, UpdateAssumption
     DEF TakeIntent, Goto, IntentTaken, controller, handoff, TypeOK, Tasks, Desktop,
         Markers, Points, Admission, history, Lapses
<1>6. ASSUME NEW t \in Workers, Admit(t) PROVE TypeOK'
  BY <1>6, UpdateAssumption
     DEF Admit, Goto, controller, handoff, TypeOK, Tasks, Desktop, Markers, Points,
         Admission, history, Lapses
<1>7. ASSUME NEW t \in Workers, WorkEnds(t) PROVE TypeOK'
  BY <1>7, UpdateAssumption
     DEF WorkEnds, Goto, controller, handoff, TypeOK, Tasks, Desktop, Markers, Points,
         Admission, history, Lapses
<1>8. ASSUME NEW t \in Workers, WorkerDies(t) PROVE TypeOK'
  <2>1. stranded' \in BOOLEAN
    BY <1>8
       DEF WorkerDies, Crash, controller, handoff, TypeOK, Tasks, Desktop, Markers, Points,
           Admission, history, Lapses
  <2>2. crashes' \in 0..MaxCrashes
    BY <1>8, UpdateAssumption
       DEF WorkerDies, Crash, controller, handoff, TypeOK, Tasks, Desktop, Markers, Points,
           Admission, history, Lapses
  <2>3. pc' \in [Tasks -> Points]
    BY <1>8
       DEF WorkerDies, Crash, controller, handoff, TypeOK, Tasks, Desktop, Markers, Points,
           Admission, history, Lapses
  <2>4. UNCHANGED <<up, marker, seen, controller, pending, guard, handoff, lapses>>
    BY <1>8 DEF WorkerDies
  <2> QED
    BY <2>1, <2>2, <2>3, <2>4 DEF TypeOK, controller, handoff
<1>9. CASE DownloadAndInstall
  <2>1. rx' = "download" /\ mail' = "none" /\ cancel' = FALSE /\ requested' = TRUE
        /\ prepared' = prepared
    BY <1>9 DEF DownloadAndInstall, Begin, history
  <2>2. UNCHANGED <<up, marker, pc, seen, pending, guard, handoff, history>>
    BY <1>9 DEF DownloadAndInstall, history
  <2>3. /\ rx' \in {"none", "download", "install"}
        /\ mail' \in {"none", "prepared", "failed", "installed"}
        /\ cancel' \in BOOLEAN /\ requested' \in BOOLEAN /\ prepared' \in BOOLEAN
    BY <2>1 DEF TypeOK, history, Lapses
  <2> QED
    BY <2>2, <2>3 DEF TypeOK, handoff, history, Lapses
<1>10. CASE Retry
  <2>1. requested' \in BOOLEAN
    BY <1>10
       DEF Retry, Idle, Begin, controller, handoff, TypeOK, Tasks, Desktop, Markers, Points,
           Admission, history, Lapses
  <2>2. prepared' \in BOOLEAN
    BY <1>10
       DEF Retry, Idle, Begin, controller, handoff, TypeOK, Tasks, Desktop, Markers, Points,
           Admission, history, Lapses
  <2>3. cancel' \in BOOLEAN
    BY <1>10
       DEF Retry, Idle, Begin, controller, handoff, TypeOK, Tasks, Desktop, Markers, Points,
           Admission, history, Lapses
  <2>4. rx' \in {"none", "download", "install"}
    BY <1>10
       DEF Retry, Idle, Begin, controller, handoff, TypeOK, Tasks, Desktop, Markers, Points,
           Admission, history, Lapses
  <2>5. mail' \in {"none", "prepared", "failed", "installed"}
    BY <1>10
       DEF Retry, Idle, Begin, controller, handoff, TypeOK, Tasks, Desktop, Markers, Points,
           Admission, history, Lapses
  <2> QED
    BY <1>10, <2>1, <2>2, <2>3, <2>4, <2>5
       DEF Retry, Idle, Begin, controller, handoff, TypeOK, Tasks, Desktop, Markers, Points,
           Admission, history, Lapses
<1>11. CASE Cancel
  <2>1. prepared' \in BOOLEAN
    BY <1>11
       DEF Cancel, Idle, controller, handoff, TypeOK, Tasks, Desktop, Markers, Points,
           Admission, history, Lapses
  <2>2. requested' \in BOOLEAN
    BY <1>11
       DEF Cancel, Idle, controller, handoff, TypeOK, Tasks, Desktop, Markers, Points,
           Admission, history, Lapses
  <2>3. cancel' \in BOOLEAN
    BY <1>11
       DEF Cancel, Idle, controller, handoff, TypeOK, Tasks, Desktop, Markers, Points,
           Admission, history, Lapses
  <2>4. pending' \in BOOLEAN
    BY <1>11
       DEF Cancel, Idle, controller, handoff, TypeOK, Tasks, Desktop, Markers, Points,
           Admission, history, Lapses
  <2> QED
    BY <1>11, <2>1, <2>2, <2>3, <2>4
       DEF Cancel, Idle, controller, handoff, TypeOK, Tasks, Desktop, Markers, Points,
           Admission, history, Lapses
<1>12. CASE Download
  BY <1>12, UpdateAssumption
     DEF Download, controller, handoff, TypeOK, Tasks, Desktop, Markers, Points, Admission,
         history, Lapses
<1>13. CASE Poll
  <2>1. requested' \in BOOLEAN
    BY <1>13
       DEF Poll, Idle, controller, handoff, TypeOK, Tasks, Desktop, Markers, Points,
           Admission, history, Lapses
  <2>2. prepared' \in BOOLEAN
    BY <1>13
       DEF Poll, Idle, controller, handoff, TypeOK, Tasks, Desktop, Markers, Points,
           Admission, history, Lapses
  <2> QED
    BY <1>13, <2>1, <2>2
       DEF Poll, Idle, controller, handoff, TypeOK, Tasks, Desktop, Markers, Points,
           Admission, history, Lapses
<1>14. CASE DraftsUnsaved
  BY <1>14, UpdateAssumption
     DEF DraftsUnsaved, Idle, ReadyToInstall, Refused, controller, handoff, TypeOK, Tasks,
         Desktop, Markers, Points, Admission, history, Lapses
<1>15. CASE InstallAgain
  BY <1>15, UpdateAssumption
     DEF InstallAgain, Idle, Goto, ReadyToInstall, controller, handoff, TypeOK, Tasks,
         Desktop, Markers, Points, Admission, history, Lapses
<1>16. CASE BeginInstall
  <2>1. requested' \in BOOLEAN
    BY <1>16
       DEF BeginInstall, Goto, Refused, controller, handoff, TypeOK, Tasks, Desktop,
           Markers, Points, Admission, history, Lapses
  <2>2. pending' \in BOOLEAN
    BY <1>16
       DEF BeginInstall, Goto, Refused, controller, handoff, TypeOK, Tasks, Desktop,
           Markers, Points, Admission, history, Lapses
  <2>3. pc' \in [Tasks -> Points]
    BY <1>16
       DEF BeginInstall, Goto, Refused, controller, handoff, TypeOK, Tasks, Desktop,
           Markers, Points, Admission, history, Lapses
  <2> QED
    BY <1>16, <2>1, <2>2, <2>3
       DEF BeginInstall, Goto, Refused, controller, handoff, TypeOK, Tasks, Desktop,
           Markers, Points, Admission, history, Lapses
<1>17. CASE Defer
  BY <1>17, UpdateAssumption
     DEF Defer, Goto, Refused, controller, handoff, TypeOK, Tasks, Desktop, Markers, Points,
         Admission, history, Lapses
<1>18. CASE Install
  BY <1>18, UpdateAssumption
     DEF Install, Goto, Quiet, controller, handoff, TypeOK, Tasks, Desktop, Markers, Points,
         Admission, history, Lapses
<1>19. CASE Replace
  BY <1>19, UpdateAssumption
     DEF Replace, Report, controller, handoff, TypeOK, Tasks, Desktop, Markers, Points,
         Admission, history, Lapses
<1>20. CASE CreateMarker
  BY <1>20, UpdateAssumption
     DEF CreateMarker, Report, controller, handoff, TypeOK, Tasks, Desktop, Markers, Points,
         Admission, history, Lapses
<1>21. CASE WriteMarker
  BY <1>21, UpdateAssumption
     DEF WriteMarker, controller, handoff, TypeOK, Tasks, Desktop, Markers, Points,
         Admission, history, Lapses
<1>22. CASE Acknowledged
  BY <1>22, UpdateAssumption
     DEF Acknowledged, Report, controller, handoff, TypeOK, Tasks, Desktop, Markers, Points,
         Admission, history, Lapses
<1>23. CASE GiveUp
  BY <1>23, UpdateAssumption
     DEF GiveUp, Report, controller, handoff, TypeOK, Tasks, Desktop, Markers, Points,
         Admission, history, Lapses
<1>24. CASE Quit
  BY <1>24, UpdateAssumption
     DEF Quit, Idle, Exit, Ended, controller, handoff, TypeOK, Tasks, Desktop, Markers,
         Points, Admission, history, Lapses, Lapse
<1>25. CASE Launch
  BY <1>25, UpdateAssumption
     DEF Launch, controller, handoff, TypeOK, Tasks, Desktop, Markers, Points, Admission,
         history, Lapses
<1>26. CASE DesktopDies
  <2>1. stranded' \in BOOLEAN
    BY <1>26
       DEF DesktopDies, Crash, Exit, Ended, controller, handoff, TypeOK, Tasks, Desktop,
           Markers, Points, Admission, history, Lapses, Lapse
  <2>2. crashes' \in 0..MaxCrashes
    BY <1>26, UpdateAssumption
       DEF DesktopDies, Crash, Exit, Ended, controller, handoff, TypeOK, Tasks, Desktop,
           Markers, Points, Admission, history, Lapses, Lapse
  <2>3. pc' \in [Tasks -> Points]
    BY <1>26
       DEF DesktopDies, Crash, Exit, Ended, controller, handoff, TypeOK, Tasks, Desktop,
           Markers, Points, Admission, history, Lapses, Lapse
  <2>4. seen' \in [Tasks -> Markers]
    BY <1>26
       DEF DesktopDies, Crash, Exit, Ended, controller, handoff, TypeOK, Tasks, Desktop,
           Markers, Points, Admission, history, Lapses, Lapse
  <2>5. marker' \in Markers
    BY <1>26
       DEF DesktopDies, Crash, Exit, Ended, controller, handoff, TypeOK, Tasks, Desktop,
           Markers, Points, Admission, history, Lapses, Lapse
  <2> QED
    BY <1>26, <2>1, <2>2, <2>3, <2>4, <2>5
       DEF DesktopDies, Crash, Exit, Ended, controller, handoff, TypeOK, Tasks, Desktop,
           Markers, Points, Admission, history, Lapses, Lapse
<1>27. CASE Acknowledge
  BY <1>27, UpdateAssumption
     DEF Acknowledge, controller, handoff, TypeOK, Tasks, Desktop, Markers, Points,
         Admission, history, Lapses, Lapse
<1>28. CASE RunSetup
  BY <1>28, UpdateAssumption
     DEF RunSetup, controller, handoff, TypeOK, Tasks, Desktop, Markers, Points, Admission,
         history, Lapses
<1>29. CASE Announce
  BY <1>29, UpdateAssumption
     DEF Announce, controller, handoff, TypeOK, Tasks, Desktop, Markers, Points, Admission,
         history, Lapses
<1>30. CASE SetupEnds
  <2>1. seen' \in [Tasks -> Markers]
    BY <1>30
       DEF SetupEnds, Ended, controller, handoff, TypeOK, Tasks, Desktop, Markers, Points,
           Admission, history, Lapses
  <2>2. marker' \in Markers
    BY <1>30
       DEF SetupEnds, Ended, controller, handoff, TypeOK, Tasks, Desktop, Markers, Points,
           Admission, history, Lapses
  <2>3. setup' \in BOOLEAN
    BY <1>30
       DEF SetupEnds, Ended, controller, handoff, TypeOK, Tasks, Desktop, Markers, Points,
           Admission, history, Lapses
  <2> QED
    BY <1>30, <2>1, <2>2, <2>3
       DEF SetupEnds, Ended, controller, handoff, TypeOK, Tasks, Desktop, Markers, Points,
           Admission, history, Lapses
<1>31. CASE Finish
  BY <1>31, UpdateAssumption
     DEF Finish, Ended, controller, handoff, TypeOK, Tasks, Desktop, Markers, Points,
         Admission, history, Lapses
<1>32. CASE SupervisorDies
  <2>1. stranded' \in BOOLEAN
    BY <1>32
       DEF SupervisorDies, Crash, Ended, controller, handoff, TypeOK, Tasks, Desktop,
           Markers, Points, Admission, history, Lapses, Lapse
  <2>2. crashes' \in 0..MaxCrashes
    BY <1>32, UpdateAssumption
       DEF SupervisorDies, Crash, Ended, controller, handoff, TypeOK, Tasks, Desktop,
           Markers, Points, Admission, history, Lapses, Lapse
  <2>3. seen' \in [Tasks -> Markers]
    BY <1>32
       DEF SupervisorDies, Crash, Ended, controller, handoff, TypeOK, Tasks, Desktop,
           Markers, Points, Admission, history, Lapses, Lapse
  <2>4. marker' \in Markers
    BY <1>32
       DEF SupervisorDies, Crash, Ended, controller, handoff, TypeOK, Tasks, Desktop,
           Markers, Points, Admission, history, Lapses, Lapse
  <2> QED
    BY <1>32, <2>1, <2>2, <2>3, <2>4
       DEF SupervisorDies, Crash, Ended, controller, handoff, TypeOK, Tasks, Desktop,
           Markers, Points, Admission, history, Lapses, Lapse
<1>33. CASE UNCHANGED vars
  BY <1>33, UpdateAssumption
     DEF vars, controller, handoff, TypeOK, Tasks, Desktop, Markers, Points, Admission,
         history, Lapses
<1> QED
  BY <1>1, <1>2, <1>3, <1>4, <1>5, <1>6, <1>7, <1>8, <1>9, <1>10, <1>11, <1>12, <1>13, <1>14,
     <1>15, <1>16, <1>17, <1>18, <1>19, <1>20, <1>21, <1>22, <1>23, <1>24, <1>25, <1>26,
     <1>27, <1>28, <1>29, <1>30, <1>31, <1>32, <1>33
     DEF Next, Gate, Work, Control, Supervise

(* Whoever installs has the work lock, and the work lock excludes work.        *)
LEMMA LocksStep ==
    ASSUME TypeOK, LocksInv, [Next]_vars
    PROVE  LocksInv'
<1>1. ASSUME NEW t \in Tasks, Check(t) PROVE LocksInv'
  BY <1>1, UpdateAssumption
     DEF Check, Goto, Asks, MutexFree, ReadyToInstall, controller, handoff, TypeOK, Tasks,
         Desktop, LocksInv, LocksExclude, history, Lapses
<1>2. ASSUME NEW t \in Tasks, CheckFails(t) PROVE LocksInv'
  BY <1>2, UpdateAssumption
     DEF CheckFails, Asks, MutexFree, Refused, ReadyToInstall, controller, handoff, TypeOK,
         Tasks, Desktop, LocksInv, LocksExclude, history, Lapses
<1>3. ASSUME NEW t \in Tasks, Probe(t) PROVE LocksInv'
  BY <1>3, UpdateAssumption
     DEF Probe, Goto, Alive, Refused, controller, handoff, TypeOK, Tasks, Desktop, LocksInv,
         LocksExclude, history, Lapses
<1>4. ASSUME NEW t \in Tasks, RemoveMarker(t) PROVE LocksInv'
  BY <1>4, UpdateAssumption
     DEF RemoveMarker, Goto, Refused, controller, handoff, TypeOK, Tasks, Desktop, LocksInv,
         LocksExclude, history, Lapses, Lapse
<1>5. ASSUME NEW t \in Workers, TakeIntent(t) PROVE LocksInv'
  BY <1>5, UpdateAssumption
     DEF TakeIntent, Goto, IntentTaken, controller, handoff, TypeOK, Tasks, Desktop,
         LocksInv, LocksExclude, history, Lapses
<1>6. ASSUME NEW t \in Workers, Admit(t) PROVE LocksInv'
  BY <1>6, UpdateAssumption
     DEF Admit, Goto, controller, handoff, TypeOK, Tasks, Desktop, LocksInv, LocksExclude,
         history, Lapses
<1>7. ASSUME NEW t \in Workers, WorkEnds(t) PROVE LocksInv'
  BY <1>7, UpdateAssumption
     DEF WorkEnds, Goto, controller, handoff, TypeOK, Tasks, Desktop, LocksInv,
         LocksExclude, history, Lapses
<1>8. ASSUME NEW t \in Workers, WorkerDies(t) PROVE LocksInv'
  BY <1>8, UpdateAssumption
     DEF WorkerDies, Crash, controller, handoff, TypeOK, Tasks, Desktop, LocksInv,
         LocksExclude, history, Lapses
<1>9. CASE DownloadAndInstall
  BY <1>9, UpdateAssumption
     DEF DownloadAndInstall, Idle, Begin, controller, handoff, TypeOK, Tasks, Desktop,
         LocksInv, LocksExclude, history, Lapses
<1>10. CASE Retry
  BY <1>10, UpdateAssumption
     DEF Retry, Idle, Begin, controller, handoff, TypeOK, Tasks, Desktop, LocksInv,
         LocksExclude, history, Lapses
<1>11. CASE Cancel
  BY <1>11, UpdateAssumption
     DEF Cancel, Idle, controller, handoff, TypeOK, Tasks, Desktop, LocksInv, LocksExclude,
         history, Lapses
<1>12. CASE Download
  BY <1>12, UpdateAssumption
     DEF Download, controller, handoff, TypeOK, Tasks, Desktop, LocksInv, LocksExclude,
         history, Lapses
<1>13. CASE Poll
  BY <1>13, UpdateAssumption
     DEF Poll, Idle, controller, handoff, TypeOK, Tasks, Desktop, LocksInv, LocksExclude,
         history, Lapses
<1>14. CASE DraftsUnsaved
  BY <1>14, UpdateAssumption
     DEF DraftsUnsaved, Idle, ReadyToInstall, Refused, controller, handoff, TypeOK, Tasks,
         Desktop, LocksInv, LocksExclude, history, Lapses
<1>15. CASE InstallAgain
  BY <1>15, UpdateAssumption
     DEF InstallAgain, Idle, Goto, ReadyToInstall, controller, handoff, TypeOK, Tasks,
         Desktop, LocksInv, LocksExclude, history, Lapses
<1>16. CASE BeginInstall
  BY <1>16, UpdateAssumption
     DEF BeginInstall, Goto, Refused, controller, handoff, TypeOK, Tasks, Desktop, LocksInv,
         LocksExclude, history, Lapses
<1>17. CASE Defer
  BY <1>17, UpdateAssumption
     DEF Defer, Goto, Refused, controller, handoff, TypeOK, Tasks, Desktop, LocksInv,
         LocksExclude, history, Lapses
<1>18. CASE Install
  <2>1. \A t \in Workers : pc'[t] # "working"
    BY <1>18, UpdateAssumption DEF Install, Quiet, Goto, TypeOK, Tasks, history, Lapses
  <2>2. pc[Ui] = "quiescing" /\ pc'[Ui] = "idle"
    BY <1>18 DEF Install, Goto, TypeOK, Tasks, history, Lapses
  <2> QED
    BY <1>18, <2>1, <2>2 DEF Install, handoff, LocksInv, LocksExclude, history
<1>19. CASE Replace
  BY <1>19, UpdateAssumption
     DEF Replace, Report, controller, handoff, TypeOK, Tasks, Desktop, LocksInv,
         LocksExclude, history, Lapses
<1>20. CASE CreateMarker
  BY <1>20, UpdateAssumption
     DEF CreateMarker, Report, controller, handoff, TypeOK, Tasks, Desktop, LocksInv,
         LocksExclude, history, Lapses
<1>21. CASE WriteMarker
  BY <1>21, UpdateAssumption
     DEF WriteMarker, controller, handoff, TypeOK, Tasks, Desktop, LocksInv, LocksExclude,
         history, Lapses
<1>22. CASE Acknowledged
  BY <1>22, UpdateAssumption
     DEF Acknowledged, Report, controller, handoff, TypeOK, Tasks, Desktop, LocksInv,
         LocksExclude, history, Lapses
<1>23. CASE GiveUp
  BY <1>23, UpdateAssumption
     DEF GiveUp, Report, controller, handoff, TypeOK, Tasks, Desktop, LocksInv,
         LocksExclude, history, Lapses
<1>24. CASE Quit
  BY <1>24, UpdateAssumption
     DEF Quit, Idle, Exit, Ended, controller, handoff, TypeOK, Tasks, Desktop, LocksInv,
         LocksExclude, history, Lapses, Lapse
<1>25. CASE Launch
  BY <1>25, UpdateAssumption
     DEF Launch, controller, handoff, TypeOK, Tasks, Desktop, LocksInv, LocksExclude,
         history, Lapses
<1>26. CASE DesktopDies
  BY <1>26, UpdateAssumption
     DEF DesktopDies, Crash, Exit, Ended, controller, handoff, TypeOK, Tasks, Desktop,
         LocksInv, LocksExclude, history, Lapses, Lapse
<1>27. CASE Acknowledge
  BY <1>27, UpdateAssumption
     DEF Acknowledge, controller, handoff, TypeOK, Tasks, Desktop, LocksInv, LocksExclude,
         history, Lapses, Lapse
<1>28. CASE RunSetup
  BY <1>28, UpdateAssumption
     DEF RunSetup, controller, handoff, TypeOK, Tasks, Desktop, LocksInv, LocksExclude,
         history, Lapses
<1>29. CASE Announce
  BY <1>29, UpdateAssumption
     DEF Announce, controller, handoff, TypeOK, Tasks, Desktop, LocksInv, LocksExclude,
         history, Lapses
<1>30. CASE SetupEnds
  BY <1>30, UpdateAssumption
     DEF SetupEnds, Ended, controller, handoff, TypeOK, Tasks, Desktop, LocksInv,
         LocksExclude, history, Lapses
<1>31. CASE Finish
  BY <1>31, UpdateAssumption
     DEF Finish, Ended, controller, handoff, TypeOK, Tasks, Desktop, LocksInv, LocksExclude,
         history, Lapses
<1>32. CASE SupervisorDies
  BY <1>32, UpdateAssumption
     DEF SupervisorDies, Crash, Ended, controller, handoff, TypeOK, Tasks, Desktop,
         LocksInv, LocksExclude, history, Lapses, Lapse
<1>33. CASE UNCHANGED vars
  BY <1>33, UpdateAssumption
     DEF vars, controller, handoff, TypeOK, Tasks, Desktop, LocksInv, LocksExclude, history,
         Lapses
<1> QED
  BY <1>1, <1>2, <1>3, <1>4, <1>5, <1>6, <1>7, <1>8, <1>9, <1>10, <1>11, <1>12, <1>13, <1>14,
     <1>15, <1>16, <1>17, <1>18, <1>19, <1>20, <1>21, <1>22, <1>23, <1>24, <1>25, <1>26,
     <1>27, <1>28, <1>29, <1>30, <1>31, <1>32, <1>33
     DEF Next, Gate, Work, Control, Supervise

(* What a task has read of the marker, whatever happens to the file meanwhile. *)
LEMMA SeenStep ==
    ASSUME TypeOK, SeenInv, [Next]_vars
    PROVE  SeenInv'
<1>1. ASSUME NEW t \in Tasks, Check(t) PROVE SeenInv'
  BY <1>1, UpdateAssumption
     DEF Check, Goto, Asks, MutexFree, ReadyToInstall, controller, handoff, TypeOK, Tasks,
         Desktop, Admission, Alive, history, SeenInv, Ended
<1>2. ASSUME NEW t \in Tasks, CheckFails(t) PROVE SeenInv'
  BY <1>2, UpdateAssumption
     DEF CheckFails, Asks, MutexFree, Refused, ReadyToInstall, controller, handoff, TypeOK,
         Tasks, Desktop, Admission, Alive, history, SeenInv, Ended
<1>3. ASSUME NEW t \in Tasks, Probe(t) PROVE SeenInv'
  BY <1>3, UpdateAssumption
     DEF Probe, Goto, Alive, Refused, controller, handoff, TypeOK, Tasks, Desktop,
         Admission, Markers, history, SeenInv, Ended
<1>4. ASSUME NEW t \in Tasks, RemoveMarker(t) PROVE SeenInv'
  BY <1>4, UpdateAssumption
     DEF RemoveMarker, Goto, Refused, controller, handoff, TypeOK, Tasks, Desktop,
         Admission, Alive, history, Lapse, SeenInv, Ended
<1>5. ASSUME NEW t \in Workers, TakeIntent(t) PROVE SeenInv'
  BY <1>5, UpdateAssumption
     DEF TakeIntent, Goto, IntentTaken, controller, handoff, TypeOK, Tasks, Desktop,
         Admission, Alive, history, SeenInv, Ended
<1>6. ASSUME NEW t \in Workers, Admit(t) PROVE SeenInv'
  BY <1>6, UpdateAssumption
     DEF Admit, Goto, controller, handoff, TypeOK, Tasks, Desktop, Admission, Alive,
         history, SeenInv, Ended
<1>7. ASSUME NEW t \in Workers, WorkEnds(t) PROVE SeenInv'
  BY <1>7, UpdateAssumption
     DEF WorkEnds, Goto, controller, handoff, TypeOK, Tasks, Desktop, Admission, Alive,
         history, SeenInv, Ended
<1>8. ASSUME NEW t \in Workers, WorkerDies(t) PROVE SeenInv'
  BY <1>8, UpdateAssumption
     DEF WorkerDies, Crash, controller, handoff, TypeOK, Tasks, Desktop, Admission, Alive,
         history, SeenInv, Ended
<1>9. CASE DownloadAndInstall
  BY <1>9, UpdateAssumption
     DEF DownloadAndInstall, Idle, Begin, controller, handoff, TypeOK, Tasks, Desktop,
         Admission, Alive, history, SeenInv, Ended
<1>10. CASE Retry
  BY <1>10, UpdateAssumption
     DEF Retry, Idle, Begin, controller, handoff, TypeOK, Tasks, Desktop, Admission, Alive,
         history, SeenInv, Ended
<1>11. CASE Cancel
  BY <1>11, UpdateAssumption
     DEF Cancel, Idle, controller, handoff, TypeOK, Tasks, Desktop, Admission, Alive,
         history, SeenInv, Ended
<1>12. CASE Download
  BY <1>12, UpdateAssumption
     DEF Download, controller, handoff, TypeOK, Tasks, Desktop, Admission, Alive, history,
         SeenInv, Ended
<1>13. CASE Poll
  BY <1>13, UpdateAssumption
     DEF Poll, Idle, controller, handoff, TypeOK, Tasks, Desktop, Admission, Alive, history,
         SeenInv, Ended
<1>14. CASE DraftsUnsaved
  BY <1>14, UpdateAssumption
     DEF DraftsUnsaved, Idle, ReadyToInstall, Refused, controller, handoff, TypeOK, Tasks,
         Desktop, Admission, Alive, history, SeenInv, Ended
<1>15. CASE InstallAgain
  BY <1>15, UpdateAssumption
     DEF InstallAgain, Idle, Goto, ReadyToInstall, controller, handoff, TypeOK, Tasks,
         Desktop, Admission, Alive, history, SeenInv, Ended
<1>16. CASE BeginInstall
  BY <1>16, UpdateAssumption
     DEF BeginInstall, Goto, Refused, controller, handoff, TypeOK, Tasks, Desktop,
         Admission, Alive, history, SeenInv, Ended
<1>17. CASE Defer
  BY <1>17, UpdateAssumption
     DEF Defer, Goto, Refused, controller, handoff, TypeOK, Tasks, Desktop, Admission,
         Alive, history, SeenInv, Ended
<1>18. CASE Install
  BY <1>18, UpdateAssumption
     DEF Install, Goto, Quiet, controller, handoff, TypeOK, Tasks, Desktop, Admission,
         Alive, history, SeenInv, Ended
<1>19. CASE Replace
  BY <1>19, UpdateAssumption
     DEF Replace, Report, controller, handoff, TypeOK, Tasks, Desktop, Admission, Alive,
         history, SeenInv, Ended
<1>20. CASE CreateMarker
  BY <1>20, UpdateAssumption
     DEF CreateMarker, Report, controller, handoff, TypeOK, Tasks, Desktop, Admission,
         Alive, history, SeenInv, Ended
<1>21. CASE WriteMarker
  BY <1>21, UpdateAssumption
     DEF WriteMarker, controller, handoff, TypeOK, Tasks, Desktop, Admission, Alive,
         history, SeenInv, Ended
<1>22. CASE Acknowledged
  BY <1>22, UpdateAssumption
     DEF Acknowledged, Report, controller, handoff, TypeOK, Tasks, Desktop, Admission,
         Alive, history, SeenInv, Ended
<1>23. CASE GiveUp
  BY <1>23, UpdateAssumption
     DEF GiveUp, Report, controller, handoff, TypeOK, Tasks, Desktop, Admission, Alive,
         history, SeenInv, Ended
<1>24. CASE Quit
  BY <1>24, UpdateAssumption
     DEF Quit, Idle, Exit, Ended, controller, handoff, TypeOK, Tasks, Desktop, Admission,
         Alive, history, Lapse, SeenInv, Ended
<1>25. CASE Launch
  BY <1>25, UpdateAssumption
     DEF Launch, controller, handoff, TypeOK, Tasks, Desktop, Admission, Alive, history,
         SeenInv, Ended
<1>26. CASE DesktopDies
  BY <1>26, UpdateAssumption
     DEF DesktopDies, Crash, Exit, Ended, controller, handoff, TypeOK, Tasks, Desktop,
         Admission, Alive, history, Lapse, SeenInv, Ended
<1>27. CASE Acknowledge
  BY <1>27, UpdateAssumption
     DEF Acknowledge, controller, handoff, TypeOK, Tasks, Desktop, Admission, Alive,
         history, Lapse, SeenInv, Ended
<1>28. CASE RunSetup
  BY <1>28, UpdateAssumption
     DEF RunSetup, controller, handoff, TypeOK, Tasks, Desktop, Admission, Alive, history,
         SeenInv, Ended
<1>29. CASE Announce
  BY <1>29, UpdateAssumption
     DEF Announce, controller, handoff, TypeOK, Tasks, Desktop, Admission, Alive, history,
         SeenInv, Ended
<1>30. CASE SetupEnds
  BY <1>30, UpdateAssumption
     DEF SetupEnds, Ended, controller, handoff, TypeOK, Tasks, Desktop, Admission, Alive,
         history, SeenInv, Ended
<1>31. CASE Finish
  BY <1>31, UpdateAssumption
     DEF Finish, Ended, controller, handoff, TypeOK, Tasks, Desktop, Admission, Alive,
         history, SeenInv, Ended
<1>32. CASE SupervisorDies
  BY <1>32, UpdateAssumption
     DEF SupervisorDies, Crash, Ended, controller, handoff, TypeOK, Tasks, Desktop,
         Admission, Alive, history, Lapse, SeenInv, Ended
<1>33. CASE UNCHANGED vars
  BY <1>33, UpdateAssumption
     DEF vars, controller, handoff, TypeOK, Tasks, Desktop, Admission, Alive, history,
         SeenInv, Ended
<1> QED
  BY <1>1, <1>2, <1>3, <1>4, <1>5, <1>6, <1>7, <1>8, <1>9, <1>10, <1>11, <1>12, <1>13,
     <1>14, <1>15, <1>16, <1>17, <1>18, <1>19, <1>20, <1>21, <1>22, <1>23, <1>24,
     <1>25, <1>26, <1>27, <1>28, <1>29, <1>30, <1>31, <1>32, <1>33
     DEF Next, Gate, Work, Control, Supervise

(* The script and the thread that waits for it.                               *)
LEMMA ScriptStep ==
    ASSUME TypeOK, LocksInv, ScriptInv, [Next]_vars
    PROVE  ScriptInv'
<1>1. ASSUME NEW t \in Tasks, Check(t) PROVE ScriptInv'
  BY <1>1, UpdateAssumption
     DEF Check, Goto, Asks, MutexFree, ReadyToInstall, controller, handoff, TypeOK, Tasks,
         Desktop, Admission, Alive, history, LocksInv, ScriptInv
<1>2. ASSUME NEW t \in Tasks, CheckFails(t) PROVE ScriptInv'
  BY <1>2, UpdateAssumption
     DEF CheckFails, Asks, MutexFree, Refused, ReadyToInstall, controller, handoff, TypeOK,
         Tasks, Desktop, Admission, Alive, history, LocksInv, ScriptInv
<1>3. ASSUME NEW t \in Tasks, Probe(t) PROVE ScriptInv'
  BY <1>3, UpdateAssumption
     DEF Probe, Goto, Alive, Refused, controller, handoff, TypeOK, Tasks, Desktop,
         Admission, history, LocksInv, ScriptInv
<1>4. ASSUME NEW t \in Tasks, RemoveMarker(t) PROVE ScriptInv'
  BY <1>4, UpdateAssumption
     DEF RemoveMarker, Goto, Refused, controller, handoff, TypeOK, Tasks, Desktop,
         Admission, Alive, history, Lapse, LocksInv, ScriptInv
<1>5. ASSUME NEW t \in Workers, TakeIntent(t) PROVE ScriptInv'
  BY <1>5, UpdateAssumption
     DEF TakeIntent, Goto, IntentTaken, controller, handoff, TypeOK, Tasks, Desktop,
         Admission, Alive, history, LocksInv, ScriptInv
<1>6. ASSUME NEW t \in Workers, Admit(t) PROVE ScriptInv'
  BY <1>6, UpdateAssumption
     DEF Admit, Goto, controller, handoff, TypeOK, Tasks, Desktop, Admission, Alive,
         history, LocksInv, ScriptInv
<1>7. ASSUME NEW t \in Workers, WorkEnds(t) PROVE ScriptInv'
  BY <1>7, UpdateAssumption
     DEF WorkEnds, Goto, controller, handoff, TypeOK, Tasks, Desktop, Admission, Alive,
         history, LocksInv, ScriptInv
<1>8. ASSUME NEW t \in Workers, WorkerDies(t) PROVE ScriptInv'
  BY <1>8, UpdateAssumption
     DEF WorkerDies, Crash, controller, handoff, TypeOK, Tasks, Desktop, Admission, Alive,
         history, LocksInv, ScriptInv
<1>9. CASE DownloadAndInstall
  BY <1>9, UpdateAssumption
     DEF DownloadAndInstall, Idle, Begin, controller, handoff, TypeOK, Tasks, Desktop,
         Admission, Alive, history, LocksInv, ScriptInv
<1>10. CASE Retry
  BY <1>10, UpdateAssumption
     DEF Retry, Idle, Begin, controller, handoff, TypeOK, Tasks, Desktop, Admission, Alive,
         history, LocksInv, ScriptInv
<1>11. CASE Cancel
  BY <1>11, UpdateAssumption
     DEF Cancel, Idle, controller, handoff, TypeOK, Tasks, Desktop, Admission, Alive,
         history, LocksInv, ScriptInv
<1>12. CASE Download
  BY <1>12, UpdateAssumption
     DEF Download, controller, handoff, TypeOK, Tasks, Desktop, Admission, Alive, history,
         LocksInv, ScriptInv
<1>13. CASE Poll
  BY <1>13, UpdateAssumption
     DEF Poll, Idle, controller, handoff, TypeOK, Tasks, Desktop, Admission, Alive, history,
         LocksInv, ScriptInv
<1>14. CASE DraftsUnsaved
  BY <1>14, UpdateAssumption
     DEF DraftsUnsaved, Idle, ReadyToInstall, Refused, controller, handoff, TypeOK, Tasks,
         Desktop, Admission, Alive, history, LocksInv, ScriptInv
<1>15. CASE InstallAgain
  BY <1>15, UpdateAssumption
     DEF InstallAgain, Idle, Goto, ReadyToInstall, controller, handoff, TypeOK, Tasks,
         Desktop, Admission, Alive, history, LocksInv, ScriptInv
<1>16. CASE BeginInstall
  BY <1>16, UpdateAssumption
     DEF BeginInstall, Goto, Refused, controller, handoff, TypeOK, Tasks, Desktop,
         Admission, Alive, history, LocksInv, ScriptInv
<1>17. CASE Defer
  BY <1>17, UpdateAssumption
     DEF Defer, Goto, Refused, controller, handoff, TypeOK, Tasks, Desktop, Admission,
         Alive, history, LocksInv, ScriptInv
<1>18. CASE Install
  BY <1>18, UpdateAssumption
     DEF Install, Goto, Quiet, controller, handoff, TypeOK, Tasks, Desktop, Admission,
         Alive, history, LocksInv, ScriptInv
<1>19. CASE Replace
  BY <1>19, UpdateAssumption
     DEF Replace, Report, controller, handoff, TypeOK, Tasks, Desktop, Admission, Alive,
         history, LocksInv, ScriptInv
<1>20. CASE CreateMarker
  BY <1>20, UpdateAssumption
     DEF CreateMarker, Report, controller, handoff, TypeOK, Tasks, Desktop, Admission,
         Alive, history, LocksInv, ScriptInv
<1>21. CASE WriteMarker
  BY <1>21, UpdateAssumption
     DEF WriteMarker, controller, handoff, TypeOK, Tasks, Desktop, Admission, Alive,
         history, LocksInv, ScriptInv
<1>22. CASE Acknowledged
  BY <1>22, UpdateAssumption
     DEF Acknowledged, Report, controller, handoff, TypeOK, Tasks, Desktop, Admission,
         Alive, history, LocksInv, ScriptInv
<1>23. CASE GiveUp
  BY <1>23, UpdateAssumption
     DEF GiveUp, Report, controller, handoff, TypeOK, Tasks, Desktop, Admission, Alive,
         history, LocksInv, ScriptInv
<1>24. CASE Quit
  BY <1>24, UpdateAssumption
     DEF Quit, Idle, Exit, Ended, controller, handoff, TypeOK, Tasks, Desktop, Admission,
         Alive, history, Lapse, LocksInv, ScriptInv
<1>25. CASE Launch
  BY <1>25, UpdateAssumption
     DEF Launch, controller, handoff, TypeOK, Tasks, Desktop, Admission, Alive, history,
         LocksInv, ScriptInv
<1>26. CASE DesktopDies
  BY <1>26, UpdateAssumption
     DEF DesktopDies, Crash, Exit, Ended, controller, handoff, TypeOK, Tasks, Desktop,
         Admission, Alive, history, Lapse, LocksInv, ScriptInv
<1>27. CASE Acknowledge
  BY <1>27, UpdateAssumption
     DEF Acknowledge, controller, handoff, TypeOK, Tasks, Desktop, Admission, Alive,
         history, Lapse, LocksInv, ScriptInv
<1>28. CASE RunSetup
  BY <1>28, UpdateAssumption
     DEF RunSetup, controller, handoff, TypeOK, Tasks, Desktop, Admission, Alive, history,
         LocksInv, ScriptInv
<1>29. CASE Announce
  BY <1>29, UpdateAssumption
     DEF Announce, controller, handoff, TypeOK, Tasks, Desktop, Admission, Alive, history,
         LocksInv, ScriptInv
<1>30. CASE SetupEnds
  BY <1>30, UpdateAssumption
     DEF SetupEnds, Ended, controller, handoff, TypeOK, Tasks, Desktop, Admission, Alive,
         history, LocksInv, ScriptInv
<1>31. CASE Finish
  BY <1>31, UpdateAssumption
     DEF Finish, Ended, controller, handoff, TypeOK, Tasks, Desktop, Admission, Alive,
         history, LocksInv, ScriptInv
<1>32. CASE SupervisorDies
  BY <1>32, UpdateAssumption
     DEF SupervisorDies, Crash, Ended, controller, handoff, TypeOK, Tasks, Desktop,
         Admission, Alive, history, Lapse, LocksInv, ScriptInv
<1>33. CASE UNCHANGED vars
  BY <1>33, UpdateAssumption
     DEF vars, controller, handoff, TypeOK, Tasks, Desktop, Admission, Alive, history,
         LocksInv, ScriptInv
<1> QED
  BY <1>1, <1>2, <1>3, <1>4, <1>5, <1>6, <1>7, <1>8, <1>9, <1>10, <1>11, <1>12, <1>13,
     <1>14, <1>15, <1>16, <1>17, <1>18, <1>19, <1>20, <1>21, <1>22, <1>23, <1>24,
     <1>25, <1>26, <1>27, <1>28, <1>29, <1>30, <1>31, <1>32, <1>33
     DEF Next, Gate, Work, Control, Supervise

(* The marker changes hands without a gap.                                    *)
LEMMA MarkerStep ==
    ASSUME TypeOK, SeenInv, ScriptInv, MarkerInv, [Next]_vars
    PROVE  MarkerInv'
<1>1. ASSUME NEW t \in Tasks, Check(t) PROVE MarkerInv'
  BY <1>1, UpdateAssumption
     DEF Check, Goto, Asks, MutexFree, ReadyToInstall, controller, handoff, TypeOK, Tasks,
         Desktop, Admission, Alive, history, SeenInv, ScriptInv, MarkerInv
<1>2. ASSUME NEW t \in Tasks, CheckFails(t) PROVE MarkerInv'
  BY <1>2, UpdateAssumption
     DEF CheckFails, Asks, MutexFree, Refused, ReadyToInstall, controller, handoff, TypeOK,
         Tasks, Desktop, Admission, Alive, history, SeenInv, ScriptInv, MarkerInv
<1>3. ASSUME NEW t \in Tasks, Probe(t) PROVE MarkerInv'
  BY <1>3, UpdateAssumption
     DEF Probe, Goto, Alive, Refused, controller, handoff, TypeOK, Tasks, Desktop,
         Admission, history, SeenInv, ScriptInv, MarkerInv
<1>4. ASSUME NEW t \in Tasks, RemoveMarker(t) PROVE MarkerInv'
  BY <1>4, UpdateAssumption
     DEF RemoveMarker, Goto, Refused, controller, handoff, TypeOK, Tasks, Desktop,
         Admission, Alive, history, Lapse, SeenInv, ScriptInv, MarkerInv
<1>5. ASSUME NEW t \in Workers, TakeIntent(t) PROVE MarkerInv'
  BY <1>5, UpdateAssumption
     DEF TakeIntent, Goto, IntentTaken, controller, handoff, TypeOK, Tasks, Desktop,
         Admission, Alive, history, SeenInv, ScriptInv, MarkerInv
<1>6. ASSUME NEW t \in Workers, Admit(t) PROVE MarkerInv'
  BY <1>6, UpdateAssumption
     DEF Admit, Goto, controller, handoff, TypeOK, Tasks, Desktop, Admission, Alive,
         history, SeenInv, ScriptInv, MarkerInv
<1>7. ASSUME NEW t \in Workers, WorkEnds(t) PROVE MarkerInv'
  BY <1>7, UpdateAssumption
     DEF WorkEnds, Goto, controller, handoff, TypeOK, Tasks, Desktop, Admission, Alive,
         history, SeenInv, ScriptInv, MarkerInv
<1>8. ASSUME NEW t \in Workers, WorkerDies(t) PROVE MarkerInv'
  BY <1>8, UpdateAssumption
     DEF WorkerDies, Crash, controller, handoff, TypeOK, Tasks, Desktop, Admission, Alive,
         history, SeenInv, ScriptInv, MarkerInv
<1>9. CASE DownloadAndInstall
  BY <1>9, UpdateAssumption
     DEF DownloadAndInstall, Idle, Begin, controller, handoff, TypeOK, Tasks, Desktop,
         Admission, Alive, history, SeenInv, ScriptInv, MarkerInv
<1>10. CASE Retry
  BY <1>10, UpdateAssumption
     DEF Retry, Idle, Begin, controller, handoff, TypeOK, Tasks, Desktop, Admission, Alive,
         history, SeenInv, ScriptInv, MarkerInv
<1>11. CASE Cancel
  BY <1>11, UpdateAssumption
     DEF Cancel, Idle, controller, handoff, TypeOK, Tasks, Desktop, Admission, Alive,
         history, SeenInv, ScriptInv, MarkerInv
<1>12. CASE Download
  BY <1>12, UpdateAssumption
     DEF Download, controller, handoff, TypeOK, Tasks, Desktop, Admission, Alive, history,
         SeenInv, ScriptInv, MarkerInv
<1>13. CASE Poll
  BY <1>13, UpdateAssumption
     DEF Poll, Idle, controller, handoff, TypeOK, Tasks, Desktop, Admission, Alive, history,
         SeenInv, ScriptInv, MarkerInv
<1>14. CASE DraftsUnsaved
  BY <1>14, UpdateAssumption
     DEF DraftsUnsaved, Idle, ReadyToInstall, Refused, controller, handoff, TypeOK, Tasks,
         Desktop, Admission, Alive, history, SeenInv, ScriptInv, MarkerInv
<1>15. CASE InstallAgain
  BY <1>15, UpdateAssumption
     DEF InstallAgain, Idle, Goto, ReadyToInstall, controller, handoff, TypeOK, Tasks,
         Desktop, Admission, Alive, history, SeenInv, ScriptInv, MarkerInv
<1>16. CASE BeginInstall
  BY <1>16, UpdateAssumption
     DEF BeginInstall, Goto, Refused, controller, handoff, TypeOK, Tasks, Desktop,
         Admission, Alive, history, SeenInv, ScriptInv, MarkerInv
<1>17. CASE Defer
  BY <1>17, UpdateAssumption
     DEF Defer, Goto, Refused, controller, handoff, TypeOK, Tasks, Desktop, Admission,
         Alive, history, SeenInv, ScriptInv, MarkerInv
<1>18. CASE Install
  BY <1>18, UpdateAssumption
     DEF Install, Goto, Quiet, controller, handoff, TypeOK, Tasks, Desktop, Admission,
         Alive, history, SeenInv, ScriptInv, MarkerInv
<1>19. CASE Replace
  BY <1>19, UpdateAssumption
     DEF Replace, Report, controller, handoff, TypeOK, Tasks, Desktop, Admission, Alive,
         history, SeenInv, ScriptInv, MarkerInv
<1>20. CASE CreateMarker
  BY <1>20, UpdateAssumption
     DEF CreateMarker, Report, controller, handoff, TypeOK, Tasks, Desktop, Admission,
         Alive, history, SeenInv, ScriptInv, MarkerInv
<1>21. CASE WriteMarker
  BY <1>21, UpdateAssumption
     DEF WriteMarker, controller, handoff, TypeOK, Tasks, Desktop, Admission, Alive,
         history, SeenInv, ScriptInv, MarkerInv
<1>22. CASE Acknowledged
  BY <1>22, UpdateAssumption
     DEF Acknowledged, Report, controller, handoff, TypeOK, Tasks, Desktop, Admission,
         Alive, history, SeenInv, ScriptInv, MarkerInv
<1>23. CASE GiveUp
  BY <1>23, UpdateAssumption
     DEF GiveUp, Report, controller, handoff, TypeOK, Tasks, Desktop, Admission, Alive,
         history, SeenInv, ScriptInv, MarkerInv
<1>24. CASE Quit
  BY <1>24, UpdateAssumption
     DEF Quit, Idle, Exit, Ended, controller, handoff, TypeOK, Tasks, Desktop, Admission,
         Alive, history, Lapse, SeenInv, ScriptInv, MarkerInv
<1>25. CASE Launch
  BY <1>25, UpdateAssumption
     DEF Launch, controller, handoff, TypeOK, Tasks, Desktop, Admission, Alive, history,
         SeenInv, ScriptInv, MarkerInv
<1>26. CASE DesktopDies
  BY <1>26, UpdateAssumption
     DEF DesktopDies, Crash, Exit, Ended, controller, handoff, TypeOK, Tasks, Desktop,
         Admission, Alive, history, Lapse, SeenInv, ScriptInv, MarkerInv
<1>27. CASE Acknowledge
  BY <1>27, UpdateAssumption
     DEF Acknowledge, controller, handoff, TypeOK, Tasks, Desktop, Admission, Alive,
         history, Lapse, SeenInv, ScriptInv, MarkerInv
<1>28. CASE RunSetup
  BY <1>28, UpdateAssumption
     DEF RunSetup, controller, handoff, TypeOK, Tasks, Desktop, Admission, Alive, history,
         SeenInv, ScriptInv, MarkerInv
<1>29. CASE Announce
  BY <1>29, UpdateAssumption
     DEF Announce, controller, handoff, TypeOK, Tasks, Desktop, Admission, Alive, history,
         SeenInv, ScriptInv, MarkerInv
<1>30. CASE SetupEnds
  BY <1>30, UpdateAssumption
     DEF SetupEnds, Ended, controller, handoff, TypeOK, Tasks, Desktop, Admission, Alive,
         history, SeenInv, ScriptInv, MarkerInv
<1>31. CASE Finish
  BY <1>31, UpdateAssumption
     DEF Finish, Ended, controller, handoff, TypeOK, Tasks, Desktop, Admission, Alive,
         history, SeenInv, ScriptInv, MarkerInv
<1>32. CASE SupervisorDies
  BY <1>32, UpdateAssumption
     DEF SupervisorDies, Crash, Ended, controller, handoff, TypeOK, Tasks, Desktop,
         Admission, Alive, history, Lapse, SeenInv, ScriptInv, MarkerInv
<1>33. CASE UNCHANGED vars
  BY <1>33, UpdateAssumption
     DEF vars, controller, handoff, TypeOK, Tasks, Desktop, Admission, Alive, history,
         SeenInv, ScriptInv, MarkerInv
<1> QED
  BY <1>1, <1>2, <1>3, <1>4, <1>5, <1>6, <1>7, <1>8, <1>9, <1>10, <1>11, <1>12, <1>13,
     <1>14, <1>15, <1>16, <1>17, <1>18, <1>19, <1>20, <1>21, <1>22, <1>23, <1>24,
     <1>25, <1>26, <1>27, <1>28, <1>29, <1>30, <1>31, <1>32, <1>33
     DEF Next, Gate, Work, Control, Supervise

(* Nobody passes the marker of a script.                                      *)
LEMMA PausedStep ==
    ASSUME TypeOK, LocksInv, SeenInv, ScriptInv, MarkerInv, PausedInv, [Next]_vars
    PROVE  PausedInv'
<1>1. ASSUME NEW t \in Tasks, Check(t) PROVE PausedInv'
  BY <1>1, UpdateAssumption
     DEF Check, Goto, Asks, MutexFree, ReadyToInstall, controller, handoff, TypeOK, Tasks,
         Desktop, Admission, Alive, history, LocksInv, LocksExclude, SeenInv, ScriptInv,
         MarkerInv, PausedInv
<1>2. ASSUME NEW t \in Tasks, CheckFails(t) PROVE PausedInv'
  BY <1>2, UpdateAssumption
     DEF CheckFails, Asks, MutexFree, Refused, ReadyToInstall, controller, handoff, TypeOK,
         Tasks, Desktop, Admission, Alive, history, LocksInv, LocksExclude, SeenInv,
         ScriptInv, MarkerInv, PausedInv
<1>3. ASSUME NEW t \in Tasks, Probe(t) PROVE PausedInv'
  BY <1>3, UpdateAssumption
     DEF Probe, Goto, Alive, Refused, controller, handoff, TypeOK, Tasks, Desktop,
         Admission, history, LocksInv, LocksExclude, SeenInv, ScriptInv, MarkerInv,
         PausedInv
<1>4. ASSUME NEW t \in Tasks, RemoveMarker(t) PROVE PausedInv'
  BY <1>4, UpdateAssumption
     DEF RemoveMarker, Goto, Refused, controller, handoff, TypeOK, Tasks, Desktop,
         Admission, Alive, history, Lapse, LocksInv, LocksExclude, SeenInv, ScriptInv,
         MarkerInv, PausedInv
<1>5. ASSUME NEW t \in Workers, TakeIntent(t) PROVE PausedInv'
  BY <1>5, UpdateAssumption
     DEF TakeIntent, Goto, IntentTaken, controller, handoff, TypeOK, Tasks, Desktop,
         Admission, Alive, history, LocksInv, LocksExclude, SeenInv, ScriptInv, MarkerInv,
         PausedInv
<1>6. ASSUME NEW t \in Workers, Admit(t) PROVE PausedInv'
  BY <1>6, UpdateAssumption
     DEF Admit, Goto, controller, handoff, TypeOK, Tasks, Desktop, Admission, Alive,
         history, LocksInv, LocksExclude, SeenInv, ScriptInv, MarkerInv, PausedInv
<1>7. ASSUME NEW t \in Workers, WorkEnds(t) PROVE PausedInv'
  BY <1>7, UpdateAssumption
     DEF WorkEnds, Goto, controller, handoff, TypeOK, Tasks, Desktop, Admission, Alive,
         history, LocksInv, LocksExclude, SeenInv, ScriptInv, MarkerInv, PausedInv
<1>8. ASSUME NEW t \in Workers, WorkerDies(t) PROVE PausedInv'
  BY <1>8, UpdateAssumption
     DEF WorkerDies, Crash, controller, handoff, TypeOK, Tasks, Desktop, Admission, Alive,
         history, LocksInv, LocksExclude, SeenInv, ScriptInv, MarkerInv, PausedInv
<1>9. CASE DownloadAndInstall
  BY <1>9, UpdateAssumption
     DEF DownloadAndInstall, Idle, Begin, controller, handoff, TypeOK, Tasks, Desktop,
         Admission, Alive, history, LocksInv, LocksExclude, SeenInv, ScriptInv, MarkerInv,
         PausedInv
<1>10. CASE Retry
  BY <1>10, UpdateAssumption
     DEF Retry, Idle, Begin, controller, handoff, TypeOK, Tasks, Desktop, Admission, Alive,
         history, LocksInv, LocksExclude, SeenInv, ScriptInv, MarkerInv, PausedInv
<1>11. CASE Cancel
  BY <1>11, UpdateAssumption
     DEF Cancel, Idle, controller, handoff, TypeOK, Tasks, Desktop, Admission, Alive,
         history, LocksInv, LocksExclude, SeenInv, ScriptInv, MarkerInv, PausedInv
<1>12. CASE Download
  BY <1>12, UpdateAssumption
     DEF Download, controller, handoff, TypeOK, Tasks, Desktop, Admission, Alive, history,
         LocksInv, LocksExclude, SeenInv, ScriptInv, MarkerInv, PausedInv
<1>13. CASE Poll
  BY <1>13, UpdateAssumption
     DEF Poll, Idle, controller, handoff, TypeOK, Tasks, Desktop, Admission, Alive, history,
         LocksInv, LocksExclude, SeenInv, ScriptInv, MarkerInv, PausedInv
<1>14. CASE DraftsUnsaved
  BY <1>14, UpdateAssumption
     DEF DraftsUnsaved, Idle, ReadyToInstall, Refused, controller, handoff, TypeOK, Tasks,
         Desktop, Admission, Alive, history, LocksInv, LocksExclude, SeenInv, ScriptInv,
         MarkerInv, PausedInv
<1>15. CASE InstallAgain
  BY <1>15, UpdateAssumption
     DEF InstallAgain, Idle, Goto, ReadyToInstall, controller, handoff, TypeOK, Tasks,
         Desktop, Admission, Alive, history, LocksInv, LocksExclude, SeenInv, ScriptInv,
         MarkerInv, PausedInv
<1>16. CASE BeginInstall
  BY <1>16, UpdateAssumption
     DEF BeginInstall, Goto, Refused, controller, handoff, TypeOK, Tasks, Desktop,
         Admission, Alive, history, LocksInv, LocksExclude, SeenInv, ScriptInv, MarkerInv,
         PausedInv
<1>17. CASE Defer
  BY <1>17, UpdateAssumption
     DEF Defer, Goto, Refused, controller, handoff, TypeOK, Tasks, Desktop, Admission,
         Alive, history, LocksInv, LocksExclude, SeenInv, ScriptInv, MarkerInv, PausedInv
<1>18. CASE Install
  BY <1>18, UpdateAssumption
     DEF Install, Goto, Quiet, controller, handoff, TypeOK, Tasks, Desktop, Admission,
         Alive, history, LocksInv, LocksExclude, SeenInv, ScriptInv, MarkerInv, PausedInv
<1>19. CASE Replace
  BY <1>19, UpdateAssumption
     DEF Replace, Report, controller, handoff, TypeOK, Tasks, Desktop, Admission, Alive,
         history, LocksInv, LocksExclude, SeenInv, ScriptInv, MarkerInv, PausedInv
<1>20. CASE CreateMarker
  BY <1>20, UpdateAssumption
     DEF CreateMarker, Report, controller, handoff, TypeOK, Tasks, Desktop, Admission,
         Alive, history, LocksInv, LocksExclude, SeenInv, ScriptInv, MarkerInv, PausedInv
<1>21. CASE WriteMarker
  BY <1>21, UpdateAssumption
     DEF WriteMarker, controller, handoff, TypeOK, Tasks, Desktop, Admission, Alive,
         history, LocksInv, LocksExclude, SeenInv, ScriptInv, MarkerInv, PausedInv
<1>22. CASE Acknowledged
  BY <1>22, UpdateAssumption
     DEF Acknowledged, Report, controller, handoff, TypeOK, Tasks, Desktop, Admission,
         Alive, history, LocksInv, LocksExclude, SeenInv, ScriptInv, MarkerInv, PausedInv
<1>23. CASE GiveUp
  BY <1>23, UpdateAssumption
     DEF GiveUp, Report, controller, handoff, TypeOK, Tasks, Desktop, Admission, Alive,
         history, LocksInv, LocksExclude, SeenInv, ScriptInv, MarkerInv, PausedInv
<1>24. CASE Quit
  BY <1>24, UpdateAssumption
     DEF Quit, Idle, Exit, Ended, controller, handoff, TypeOK, Tasks, Desktop, Admission,
         Alive, history, Lapse, LocksInv, LocksExclude, SeenInv, ScriptInv, MarkerInv,
         PausedInv
<1>25. CASE Launch
  BY <1>25, UpdateAssumption
     DEF Launch, controller, handoff, TypeOK, Tasks, Desktop, Admission, Alive, history,
         LocksInv, LocksExclude, SeenInv, ScriptInv, MarkerInv, PausedInv
<1>26. CASE DesktopDies
  BY <1>26, UpdateAssumption
     DEF DesktopDies, Crash, Exit, Ended, controller, handoff, TypeOK, Tasks, Desktop,
         Admission, Alive, history, Lapse, LocksInv, LocksExclude, SeenInv, ScriptInv,
         MarkerInv, PausedInv
<1>27. CASE Acknowledge
  BY <1>27, UpdateAssumption
     DEF Acknowledge, controller, handoff, TypeOK, Tasks, Desktop, Admission, Alive,
         history, Lapse, LocksInv, LocksExclude, SeenInv, ScriptInv, MarkerInv, PausedInv
<1>28. CASE RunSetup
  BY <1>28, UpdateAssumption
     DEF RunSetup, controller, handoff, TypeOK, Tasks, Desktop, Admission, Alive, history,
         LocksInv, LocksExclude, SeenInv, ScriptInv, MarkerInv, PausedInv
<1>29. CASE Announce
  BY <1>29, UpdateAssumption
     DEF Announce, controller, handoff, TypeOK, Tasks, Desktop, Admission, Alive, history,
         LocksInv, LocksExclude, SeenInv, ScriptInv, MarkerInv, PausedInv
<1>30. CASE SetupEnds
  BY <1>30, UpdateAssumption
     DEF SetupEnds, Ended, controller, handoff, TypeOK, Tasks, Desktop, Admission, Alive,
         history, LocksInv, LocksExclude, SeenInv, ScriptInv, MarkerInv, PausedInv
<1>31. CASE Finish
  BY <1>31, UpdateAssumption
     DEF Finish, Ended, controller, handoff, TypeOK, Tasks, Desktop, Admission, Alive,
         history, LocksInv, LocksExclude, SeenInv, ScriptInv, MarkerInv, PausedInv
<1>32. CASE SupervisorDies
  BY <1>32, UpdateAssumption
     DEF SupervisorDies, Crash, Ended, controller, handoff, TypeOK, Tasks, Desktop,
         Admission, Alive, history, Lapse, LocksInv, LocksExclude, SeenInv, ScriptInv,
         MarkerInv, PausedInv
<1>33. CASE UNCHANGED vars
  BY <1>33, UpdateAssumption
     DEF vars, controller, handoff, TypeOK, Tasks, Desktop, Admission, Alive, history,
         LocksInv, LocksExclude, SeenInv, ScriptInv, MarkerInv, PausedInv
<1> QED
  BY <1>1, <1>2, <1>3, <1>4, <1>5, <1>6, <1>7, <1>8, <1>9, <1>10, <1>11, <1>12, <1>13,
     <1>14, <1>15, <1>16, <1>17, <1>18, <1>19, <1>20, <1>21, <1>22, <1>23, <1>24,
     <1>25, <1>26, <1>27, <1>28, <1>29, <1>30, <1>31, <1>32, <1>33
     DEF Next, Gate, Work, Control, Supervise

THEOREM GateInvariant == Spec => []GateInv
<1>1. ASSUME GateInv, [Next]_vars
      PROVE  GateInv'
  <2>1. TypeOK' /\ LocksInv'
    BY <1>1, TypeStep, LocksStep DEF GateInv
  <2>2. SeenInv' /\ ScriptInv'
    BY <1>1, SeenStep, ScriptStep DEF GateInv
  <2>3. MarkerInv' /\ PausedInv'
    BY <1>1, MarkerStep, PausedStep DEF GateInv
  <2> QED
    BY <2>1, <2>2, <2>3 DEF GateInv
<1> QED
  BY <1>1, GateInit, PTL DEF Spec

(***************************************************************************)
(* Theorems                                                                *)
(***************************************************************************)
(* Types of the marker, the locks, the controller and every task.             *)
THEOREM TypeCorrect == Spec => []TypeOK
<1>1. GateInv => TypeOK
  BY DEF GateInv
<1> QED
  BY <1>1, GateInvariant, PTL

(* The intent lock and the work lock alone keep work out of an installation    *)
(* that has begun, whoever dies and whatever is done with the marker.          *)
THEOREM LocksAlwaysExclude == Spec => []LocksExclude
<1>1. GateInv => LocksExclude
  BY DEF GateInv, LocksInv
<1> QED
  BY <1>1, GateInvariant, PTL

(* Nobody works while the program is replaced, by the desktop or, after it has *)
(* exited, by the system's installer, unless the marker has failed in one of    *)
(* the four ways that "lapses" records.                                       *)
THEOREM InstallAlwaysExcludesWork == Spec => []InstallExcludesWork
<1>1. GateInv => InstallExcludesWork
  BY DEF GateInv, LocksInv, LocksExclude, PausedInv, InstallExcludesWork, Replacing
<1> QED
  BY <1>1, GateInvariant, PTL

(* The marker names a living process throughout a handoff, unless a task that  *)
(* judged an earlier marker has removed it or the script has died before it    *)
(* wrote the installer's id.                                                  *)
THEOREM HandoffIsAlwaysAnnounced == Spec => []HandoffIsAnnounced
<1>1. GateInv => HandoffIsAnnounced
  BY DEF GateInv, MarkerInv, HandoffIsAnnounced, Alive
<1> QED
  BY <1>1, GateInvariant, PTL
=============================================================================
