-------------------------- MODULE ChildProcessProofs --------------------------
(***************************************************************************)
(* What ChildProcess guarantees for every size of pipes, limits, inputs and  *)
(* outputs, and every way the program and its helper behave.                 *)
(***************************************************************************)
EXTENDS ChildProcess, TLAPS

(***************************************************************************)
(* Invariants                                                              *)
(***************************************************************************)
(* What was read and what is in the pipe is what was written, unless the      *)
(* reader failed or was closed; a reader that saw the end left nothing behind *)
(* and will find nothing more, one that is not over has kept no more than the *)
(* limit.                                                                    *)
OutputFlows ==
    \A p \in Pipes :
        /\ reader[p] \notin {"failed", "closed"} => got[p] + pipe[p] = wrote[p]
        /\ reader[p] = "eof" =>
              pipe[p] = 0 /\ child # "running" /\ helper \notin {"running", "escaped"}
        /\ reader[p] \in {"none", "reading", "eof"} /\ Limited(p) => got[p] <= Limit

(* Where the host is says what has become of the program and of its group.    *)
HostKnows ==
    /\ host # "returned" <=> result = "none"
    /\ host \in {"joining", "draining", "returned"} => child = "reaped"
    /\ host = "draining" /\ Grouped => helper \notin {"running", "quiet"}
    /\ kind # "mcp" => host \notin {"session", "closing", "collecting"}
    /\ host = "writing" => \A p \in Pipes : reader[p] = "none"
    /\ \A p \in Pipes : reader[p] = "closed" => kind = "mcp" \/ host = "returned"
    /\ result = "ok" /\ kind # "mcp" =>
          \A p \in Pipes : reader[p] = "eof" \/ (kind = "cli" /\ reader[p] = "failed")

CallInv == TypeOK /\ OutputFlows /\ HostKnows /\ NothingOutlivesTheCall

(***************************************************************************)
(* The initial states                                                      *)
(***************************************************************************)
LEMMA CallInit == Init => CallInv
<1> SUFFICES ASSUME Init PROVE CallInv
  OBVIOUS
<1>1. kind \in Kinds /\ timed \in BOOLEAN /\ platform \in Platforms
  BY DEF Init
<1>2. host \in Hosts \ {"returned"} /\ result = "none"
  BY DEF Init, Hosts
<1>3. /\ host \notin {"joining", "draining", "returned"}
      /\ kind # "mcp" => host \notin {"session", "closing", "collecting"}
  BY DEF Init
<1>4. \A p \in Pipes : /\ reader[p] \in {"none", "reading"}
                       /\ host = "writing" => reader[p] = "none"
                       /\ pipe[p] = 0 /\ wrote[p] = 0 /\ got[p] = 0
  BY DEF Init, Reading
<1>5. /\ reader \in [Pipes -> Readers]
      /\ pipe \in [Pipes -> 0..Capacity]
      /\ wrote \in [Pipes -> 0..MaxOutput] /\ got \in [Pipes -> 0..MaxOutput]
  BY ProcessAssumption DEF Init, Reading, Readers
<1>6. TypeOK
  BY <1>1, <1>2, <1>5, ProcessAssumption DEF Init, TypeOK, Results
<1>7. OutputFlows
  BY <1>4, ProcessAssumption DEF OutputFlows
<1> QED
  BY <1>2, <1>3, <1>4, <1>6, <1>7 DEF CallInv, HostKnows, NothingOutlivesTheCall

(***************************************************************************)
(* Every step                                                              *)
(***************************************************************************)
(* Types: the sum of a pipe and its reader bounds what was read.              *)
LEMMA TypeStep ==
    ASSUME TypeOK, OutputFlows, [Next]_vars
    PROVE  TypeOK'
<1>1. CASE ChildReads
  BY <1>1, ProcessAssumption DEF ChildReads, what, timers, world, output, TypeOK, OutputFlows, Pipes, Readers, Hosts, Results, Limited
<1>2. ASSUME NEW p \in Pipes, ChildWrites(p) PROVE TypeOK'
  BY <1>2, ProcessAssumption DEF ChildWrites, what, timers, world, output, TypeOK, OutputFlows, Pipes, Readers, Hosts, Results, Limited
<1>3. CASE ChildForks
  BY <1>3 DEF ChildForks, what, timers, world, output, TypeOK, OutputFlows, Pipes, Readers, Hosts, Results, Limited
<1>4. CASE HelperLeaves
  BY <1>4 DEF HelperLeaves, what, timers, world, output, TypeOK, OutputFlows, Pipes, Readers, Hosts, Results, Limited
<1>5. CASE ChildExits
  BY <1>5 DEF ChildExits, what, timers, world, output, TypeOK, OutputFlows, Pipes, Readers, Hosts, Results, Limited
<1>6. ASSUME NEW p \in Pipes, ReaderReads(p) PROVE TypeOK'
  BY <1>6, ProcessAssumption DEF ReaderReads, what, timers, world, output, TypeOK, OutputFlows, Pipes, Readers, Hosts, Results, Limited
<1>7. ASSUME NEW p \in Pipes, ReaderEnds(p) PROVE TypeOK'
  BY <1>7 DEF ReaderEnds, Ended, what, timers, world, output, TypeOK, OutputFlows, Pipes, Readers, Hosts, Results, Limited
<1>8. CASE DeadlinePasses
  BY <1>8 DEF DeadlinePasses, what, timers, world, output, TypeOK, OutputFlows, Pipes, Readers, Hosts, Results, Limited
<1>9. CASE GracePasses
  BY <1>9 DEF GracePasses, what, timers, world, output, TypeOK, OutputFlows, Pipes, Readers, Hosts, Results, Limited
<1>10. CASE WriteInput
  BY <1>10, ProcessAssumption DEF WriteInput, what, timers, world, output, TypeOK, OutputFlows, Pipes, Readers, Hosts, Results, Limited
<1>11. CASE WriteFails
  BY <1>11 DEF WriteFails, ReturnArmed, Return, KillGroup, what, timers, world, output, TypeOK, OutputFlows, Pipes, Readers, Hosts, Results, Limited
<1>12. CASE InputWritten
  BY <1>12 DEF InputWritten, Reading, what, timers, world, output, TypeOK, OutputFlows, Pipes, Readers, Hosts, Results, Limited
<1>13. CASE Reap
  BY <1>13 DEF Reap, KillGroup, what, timers, world, output, TypeOK, OutputFlows, Pipes, Readers, Hosts, Results, Limited
<1>14. CASE StopWaiting
  BY <1>14 DEF StopWaiting, ReturnArmed, Return, KillGroup, Closed, what, timers, world, output, TypeOK, OutputFlows, Pipes, Readers, Hosts, Results, Limited
<1>15. CASE Timeout
  BY <1>15 DEF Timeout, ReturnArmed, Return, KillTree, KillGroup, Closed, what, timers, world, output, TypeOK, OutputFlows, Pipes, Readers, Hosts, Results, Limited
<1>16. CASE Join
  BY <1>16 DEF Join, ReturnArmed, Return, KillGroup, Over, FailedJoin, what, timers, world, output, TypeOK, OutputFlows, Pipes, Readers, Hosts, Results, Limited
<1>17. CASE JoinTimeout
  BY <1>17 DEF JoinTimeout, KillTree, KillGroup, what, timers, world, output, TypeOK, OutputFlows, Pipes, Readers, Hosts, Results, Limited
<1>18. CASE Drain
  BY <1>18 DEF Drain, Return, Over, what, timers, world, output, TypeOK, OutputFlows, Pipes, Readers, Hosts, Results, Limited
<1>19. CASE SessionEnds
  BY <1>19 DEF SessionEnds, what, timers, world, output, TypeOK, OutputFlows, Pipes, Readers, Hosts, Results, Limited
<1>20. CASE SessionTimeout
  BY <1>20 DEF SessionTimeout, KillTree, KillGroup, what, timers, world, output, TypeOK, OutputFlows, Pipes, Readers, Hosts, Results, Limited
<1>21. CASE ServerExits
  BY <1>21 DEF ServerExits, what, timers, world, output, TypeOK, OutputFlows, Pipes, Readers, Hosts, Results, Limited
<1>22. CASE ServerLingers
  BY <1>22 DEF ServerLingers, KillTree, KillGroup, what, timers, world, output, TypeOK, OutputFlows, Pipes, Readers, Hosts, Results, Limited
<1>23. CASE Collect
  BY <1>23 DEF Collect, Return, Over, what, timers, world, output, TypeOK, OutputFlows, Pipes, Readers, Hosts, Results, Limited
<1>24. CASE CollectTimeout
  BY <1>24 DEF CollectTimeout, KillTree, KillGroup, what, timers, world, output, TypeOK, OutputFlows, Pipes, Readers, Hosts, Results, Limited
<1>25. CASE Drop
  BY <1>25 DEF Drop, ReturnArmed, Return, KillGroup, what, timers, world, output, TypeOK, OutputFlows, Pipes, Readers, Hosts, Results, Limited
<1>26. CASE UNCHANGED vars
  BY <1>26 DEF vars, TypeOK, OutputFlows, Pipes, Readers, Hosts, Results, Limited
<1>27. ASSUME NEW p \in Pipes, ReaderFails(p) PROVE TypeOK'
  BY <1>27, ProcessAssumption DEF ReaderFails, what, timers, world, output, TypeOK, OutputFlows, Pipes, Readers, Hosts, Results, Limited
<1>28. CASE JoinFails
  BY <1>28 DEF JoinFails, ReturnArmed, Return, KillGroup, what, timers, world, output, TypeOK, OutputFlows, Pipes, Readers, Hosts, Results, Limited
<1> QED
  BY <1>1, <1>2, <1>3, <1>4, <1>5, <1>6, <1>7, <1>8, <1>9, <1>10, <1>11, <1>12, <1>13, <1>14, <1>15, <1>16, <1>17, <1>18, <1>19, <1>20, <1>21, <1>22, <1>23, <1>24, <1>25, <1>26, <1>27, <1>28
     DEF Next, Program, Read, Step, Session

(* Only the program adds to a pipe, and only while it runs.                   *)
LEMMA FlowStep ==
    ASSUME TypeOK, OutputFlows, HostKnows, [Next]_vars
    PROVE  OutputFlows'
<1>1. CASE ChildReads
  BY <1>1, ProcessAssumption DEF ChildReads, what, timers, world, output, TypeOK, OutputFlows, HostKnows, Pipes, Readers, Limited
<1>2. ASSUME NEW p \in Pipes, ChildWrites(p) PROVE OutputFlows'
  BY <1>2, ProcessAssumption DEF ChildWrites, what, timers, world, output, TypeOK, OutputFlows, HostKnows, Pipes, Readers, Limited
<1>3. CASE ChildForks
  BY <1>3 DEF ChildForks, what, timers, world, output, TypeOK, OutputFlows, HostKnows, Pipes, Readers, Limited
<1>4. CASE HelperLeaves
  BY <1>4 DEF HelperLeaves, what, timers, world, output, TypeOK, OutputFlows, HostKnows, Pipes, Readers, Limited
<1>5. CASE ChildExits
  BY <1>5 DEF ChildExits, what, timers, world, output, TypeOK, OutputFlows, HostKnows, Pipes, Readers, Limited
<1>6. ASSUME NEW p \in Pipes, ReaderReads(p) PROVE OutputFlows'
  BY <1>6, ProcessAssumption DEF ReaderReads, what, timers, world, output, TypeOK, OutputFlows, HostKnows, Pipes, Readers, Limited
<1>7. ASSUME NEW p \in Pipes, ReaderEnds(p) PROVE OutputFlows'
  BY <1>7 DEF ReaderEnds, Ended, what, timers, world, output, TypeOK, OutputFlows, HostKnows, Pipes, Readers, Limited
<1>8. CASE DeadlinePasses
  BY <1>8 DEF DeadlinePasses, what, timers, world, output, TypeOK, OutputFlows, HostKnows, Pipes, Readers, Limited
<1>9. CASE GracePasses
  BY <1>9 DEF GracePasses, what, timers, world, output, TypeOK, OutputFlows, HostKnows, Pipes, Readers, Limited
<1>10. CASE WriteInput
  BY <1>10, ProcessAssumption DEF WriteInput, what, timers, world, output, TypeOK, OutputFlows, HostKnows, Pipes, Readers, Limited
<1>11. CASE WriteFails
  BY <1>11 DEF WriteFails, ReturnArmed, Return, KillGroup, what, timers, world, output, TypeOK, OutputFlows, HostKnows, Pipes, Readers, Limited
<1>12. CASE InputWritten
  BY <1>12 DEF InputWritten, Reading, what, timers, world, output, TypeOK, OutputFlows, HostKnows, Pipes, Readers, Limited
<1>13. CASE Reap
  BY <1>13 DEF Reap, KillGroup, what, timers, world, output, TypeOK, OutputFlows, HostKnows, Pipes, Readers, Limited
<1>14. CASE StopWaiting
  BY <1>14 DEF StopWaiting, ReturnArmed, Return, KillGroup, Closed, what, timers, world, output, TypeOK, OutputFlows, HostKnows, Pipes, Readers, Limited
<1>15. CASE Timeout
  BY <1>15 DEF Timeout, ReturnArmed, Return, KillTree, KillGroup, Closed, what, timers, world, output, TypeOK, OutputFlows, HostKnows, Pipes, Readers, Limited
<1>16. CASE Join
  BY <1>16 DEF Join, ReturnArmed, Return, KillGroup, Over, FailedJoin, what, timers, world, output, TypeOK, OutputFlows, HostKnows, Pipes, Readers, Limited
<1>17. CASE JoinTimeout
  BY <1>17 DEF JoinTimeout, KillTree, KillGroup, what, timers, world, output, TypeOK, OutputFlows, HostKnows, Pipes, Readers, Limited
<1>18. CASE Drain
  BY <1>18 DEF Drain, Return, Over, what, timers, world, output, TypeOK, OutputFlows, HostKnows, Pipes, Readers, Limited
<1>19. CASE SessionEnds
  BY <1>19 DEF SessionEnds, what, timers, world, output, TypeOK, OutputFlows, HostKnows, Pipes, Readers, Limited
<1>20. CASE SessionTimeout
  BY <1>20 DEF SessionTimeout, KillTree, KillGroup, what, timers, world, output, TypeOK, OutputFlows, HostKnows, Pipes, Readers, Limited
<1>21. CASE ServerExits
  BY <1>21 DEF ServerExits, what, timers, world, output, TypeOK, OutputFlows, HostKnows, Pipes, Readers, Limited
<1>22. CASE ServerLingers
  BY <1>22 DEF ServerLingers, KillTree, KillGroup, what, timers, world, output, TypeOK, OutputFlows, HostKnows, Pipes, Readers, Limited
<1>23. CASE Collect
  BY <1>23 DEF Collect, Return, Over, what, timers, world, output, TypeOK, OutputFlows, HostKnows, Pipes, Readers, Limited
<1>24. CASE CollectTimeout
  BY <1>24 DEF CollectTimeout, KillTree, KillGroup, what, timers, world, output, TypeOK, OutputFlows, HostKnows, Pipes, Readers, Limited
<1>25. CASE Drop
  BY <1>25 DEF Drop, ReturnArmed, Return, KillGroup, what, timers, world, output, TypeOK, OutputFlows, HostKnows, Pipes, Readers, Limited
<1>26. CASE UNCHANGED vars
  BY <1>26 DEF vars, TypeOK, OutputFlows, HostKnows, Pipes, Readers, Limited
<1>27. ASSUME NEW p \in Pipes, ReaderFails(p) PROVE OutputFlows'
  BY <1>27, ProcessAssumption DEF ReaderFails, what, timers, world, output, TypeOK, OutputFlows, HostKnows, Pipes, Readers, Limited
<1>28. CASE JoinFails
  BY <1>28 DEF JoinFails, ReturnArmed, Return, KillGroup, what, timers, world, output, TypeOK, OutputFlows, HostKnows, Pipes, Readers, Limited
<1> QED
  BY <1>1, <1>2, <1>3, <1>4, <1>5, <1>6, <1>7, <1>8, <1>9, <1>10, <1>11, <1>12, <1>13, <1>14, <1>15, <1>16, <1>17, <1>18, <1>19, <1>20, <1>21, <1>22, <1>23, <1>24, <1>25, <1>26, <1>27, <1>28
     DEF Next, Program, Read, Step, Session

(* A host that goes on has seen the program's exit, or has killed its group.   *)
LEMMA HostStep ==
    ASSUME TypeOK, HostKnows, [Next]_vars
    PROVE  HostKnows'
<1>1. CASE ChildReads
  BY <1>1 DEF ChildReads, what, timers, world, output, TypeOK, HostKnows, Pipes, Grouped
<1>2. ASSUME NEW p \in Pipes, ChildWrites(p) PROVE HostKnows'
  BY <1>2 DEF ChildWrites, what, timers, world, output, TypeOK, HostKnows, Pipes, Grouped
<1>3. CASE ChildForks
  BY <1>3 DEF ChildForks, what, timers, world, output, TypeOK, HostKnows, Pipes, Grouped
<1>4. CASE HelperLeaves
  BY <1>4 DEF HelperLeaves, what, timers, world, output, TypeOK, HostKnows, Pipes, Grouped
<1>5. CASE ChildExits
  BY <1>5 DEF ChildExits, what, timers, world, output, TypeOK, HostKnows, Pipes, Grouped
<1>6. ASSUME NEW p \in Pipes, ReaderReads(p) PROVE HostKnows'
  BY <1>6 DEF ReaderReads, what, timers, world, output, TypeOK, HostKnows, Pipes, Grouped
<1>7. ASSUME NEW p \in Pipes, ReaderEnds(p) PROVE HostKnows'
  BY <1>7 DEF ReaderEnds, Ended, what, timers, world, output, TypeOK, HostKnows, Pipes, Grouped
<1>8. CASE DeadlinePasses
  BY <1>8 DEF DeadlinePasses, what, timers, world, output, TypeOK, HostKnows, Pipes, Grouped
<1>9. CASE GracePasses
  BY <1>9 DEF GracePasses, what, timers, world, output, TypeOK, HostKnows, Pipes, Grouped
<1>10. CASE WriteInput
  BY <1>10 DEF WriteInput, what, timers, world, output, TypeOK, HostKnows, Pipes, Grouped
<1>11. CASE WriteFails
  BY <1>11 DEF WriteFails, ReturnArmed, Return, KillGroup, what, timers, world, output, TypeOK, HostKnows, Pipes, Grouped
<1>12. CASE InputWritten
  BY <1>12 DEF InputWritten, Reading, what, timers, world, output, TypeOK, HostKnows, Pipes, Grouped
<1>13. CASE Reap
  BY <1>13 DEF Reap, KillGroup, what, timers, world, output, TypeOK, HostKnows, Pipes, Grouped
<1>14. CASE StopWaiting
  BY <1>14 DEF StopWaiting, ReturnArmed, Return, KillGroup, Closed, what, timers, world, output, TypeOK, HostKnows, Pipes, Grouped
<1>15. CASE Timeout
  BY <1>15 DEF Timeout, ReturnArmed, Return, KillTree, KillGroup, Closed, what, timers, world, output, TypeOK, HostKnows, Pipes, Grouped
<1>16. CASE Join
  BY <1>16 DEF Join, ReturnArmed, Return, KillGroup, Over, FailedJoin, what, timers, world, output, TypeOK, HostKnows, Pipes, Grouped
<1>17. CASE JoinTimeout
  BY <1>17 DEF JoinTimeout, KillTree, KillGroup, what, timers, world, output, TypeOK, HostKnows, Pipes, Grouped
<1>18. CASE Drain
  BY <1>18 DEF Drain, Return, Over, what, timers, world, output, TypeOK, HostKnows, Pipes, Grouped
<1>19. CASE SessionEnds
  BY <1>19 DEF SessionEnds, what, timers, world, output, TypeOK, HostKnows, Pipes, Grouped
<1>20. CASE SessionTimeout
  BY <1>20 DEF SessionTimeout, KillTree, KillGroup, what, timers, world, output, TypeOK, HostKnows, Pipes, Grouped
<1>21. CASE ServerExits
  BY <1>21 DEF ServerExits, what, timers, world, output, TypeOK, HostKnows, Pipes, Grouped
<1>22. CASE ServerLingers
  BY <1>22 DEF ServerLingers, KillTree, KillGroup, what, timers, world, output, TypeOK, HostKnows, Pipes, Grouped
<1>23. CASE Collect
  BY <1>23 DEF Collect, Return, Over, what, timers, world, output, TypeOK, HostKnows, Pipes, Grouped
<1>24. CASE CollectTimeout
  BY <1>24 DEF CollectTimeout, KillTree, KillGroup, what, timers, world, output, TypeOK, HostKnows, Pipes, Grouped
<1>25. CASE Drop
  BY <1>25 DEF Drop, ReturnArmed, Return, KillGroup, what, timers, world, output, TypeOK, HostKnows, Pipes, Grouped
<1>26. CASE UNCHANGED vars
  BY <1>26 DEF vars, TypeOK, HostKnows, Pipes, Grouped
<1>27. ASSUME NEW p \in Pipes, ReaderFails(p) PROVE HostKnows'
  BY <1>27 DEF ReaderFails, what, timers, world, output, TypeOK, HostKnows, Pipes, Grouped
<1>28. CASE JoinFails
  BY <1>28 DEF JoinFails, ReturnArmed, Return, KillGroup, what, timers, world, output, TypeOK, HostKnows, Pipes, Grouped
<1> QED
  BY <1>1, <1>2, <1>3, <1>4, <1>5, <1>6, <1>7, <1>8, <1>9, <1>10, <1>11, <1>12, <1>13, <1>14, <1>15, <1>16, <1>17, <1>18, <1>19, <1>20, <1>21, <1>22, <1>23, <1>24, <1>25, <1>26, <1>27, <1>28
     DEF Next, Program, Read, Step, Session

(* No path of a CODE_CALL returns without ending its group.                   *)
LEMMA GroupStep ==
    ASSUME TypeOK, HostKnows, NothingOutlivesTheCall, [Next]_vars
    PROVE  NothingOutlivesTheCall'
<1>1. CASE ChildReads
  BY <1>1 DEF ChildReads, what, timers, world, output, TypeOK, HostKnows, NothingOutlivesTheCall, Pipes, Grouped
<1>2. ASSUME NEW p \in Pipes, ChildWrites(p) PROVE NothingOutlivesTheCall'
  BY <1>2 DEF ChildWrites, what, timers, world, output, TypeOK, HostKnows, NothingOutlivesTheCall, Pipes, Grouped
<1>3. CASE ChildForks
  BY <1>3 DEF ChildForks, what, timers, world, output, TypeOK, HostKnows, NothingOutlivesTheCall, Pipes, Grouped
<1>4. CASE HelperLeaves
  BY <1>4 DEF HelperLeaves, what, timers, world, output, TypeOK, HostKnows, NothingOutlivesTheCall, Pipes, Grouped
<1>5. CASE ChildExits
  BY <1>5 DEF ChildExits, what, timers, world, output, TypeOK, HostKnows, NothingOutlivesTheCall, Pipes, Grouped
<1>6. ASSUME NEW p \in Pipes, ReaderReads(p) PROVE NothingOutlivesTheCall'
  BY <1>6 DEF ReaderReads, what, timers, world, output, TypeOK, HostKnows, NothingOutlivesTheCall, Pipes, Grouped
<1>7. ASSUME NEW p \in Pipes, ReaderEnds(p) PROVE NothingOutlivesTheCall'
  BY <1>7 DEF ReaderEnds, Ended, what, timers, world, output, TypeOK, HostKnows, NothingOutlivesTheCall, Pipes, Grouped
<1>8. CASE DeadlinePasses
  BY <1>8 DEF DeadlinePasses, what, timers, world, output, TypeOK, HostKnows, NothingOutlivesTheCall, Pipes, Grouped
<1>9. CASE GracePasses
  BY <1>9 DEF GracePasses, what, timers, world, output, TypeOK, HostKnows, NothingOutlivesTheCall, Pipes, Grouped
<1>10. CASE WriteInput
  BY <1>10 DEF WriteInput, what, timers, world, output, TypeOK, HostKnows, NothingOutlivesTheCall, Pipes, Grouped
<1>11. CASE WriteFails
  BY <1>11 DEF WriteFails, ReturnArmed, Return, KillGroup, what, timers, world, output, TypeOK, HostKnows, NothingOutlivesTheCall, Pipes, Grouped
<1>12. CASE InputWritten
  BY <1>12 DEF InputWritten, Reading, what, timers, world, output, TypeOK, HostKnows, NothingOutlivesTheCall, Pipes, Grouped
<1>13. CASE Reap
  BY <1>13 DEF Reap, KillGroup, what, timers, world, output, TypeOK, HostKnows, NothingOutlivesTheCall, Pipes, Grouped
<1>14. CASE StopWaiting
  BY <1>14 DEF StopWaiting, ReturnArmed, Return, KillGroup, Closed, what, timers, world, output, TypeOK, HostKnows, NothingOutlivesTheCall, Pipes, Grouped
<1>15. CASE Timeout
  BY <1>15 DEF Timeout, ReturnArmed, Return, KillTree, KillGroup, Closed, what, timers, world, output, TypeOK, HostKnows, NothingOutlivesTheCall, Pipes, Grouped
<1>16. CASE Join
  BY <1>16 DEF Join, ReturnArmed, Return, KillGroup, Over, FailedJoin, what, timers, world, output, TypeOK, HostKnows, NothingOutlivesTheCall, Pipes, Grouped
<1>17. CASE JoinTimeout
  BY <1>17 DEF JoinTimeout, KillTree, KillGroup, what, timers, world, output, TypeOK, HostKnows, NothingOutlivesTheCall, Pipes, Grouped
<1>18. CASE Drain
  BY <1>18 DEF Drain, Return, Over, what, timers, world, output, TypeOK, HostKnows, NothingOutlivesTheCall, Pipes, Grouped
<1>19. CASE SessionEnds
  BY <1>19 DEF SessionEnds, what, timers, world, output, TypeOK, HostKnows, NothingOutlivesTheCall, Pipes, Grouped
<1>20. CASE SessionTimeout
  BY <1>20 DEF SessionTimeout, KillTree, KillGroup, what, timers, world, output, TypeOK, HostKnows, NothingOutlivesTheCall, Pipes, Grouped
<1>21. CASE ServerExits
  BY <1>21 DEF ServerExits, what, timers, world, output, TypeOK, HostKnows, NothingOutlivesTheCall, Pipes, Grouped
<1>22. CASE ServerLingers
  BY <1>22 DEF ServerLingers, KillTree, KillGroup, what, timers, world, output, TypeOK, HostKnows, NothingOutlivesTheCall, Pipes, Grouped
<1>23. CASE Collect
  BY <1>23 DEF Collect, Return, Over, what, timers, world, output, TypeOK, HostKnows, NothingOutlivesTheCall, Pipes, Grouped
<1>24. CASE CollectTimeout
  BY <1>24 DEF CollectTimeout, KillTree, KillGroup, what, timers, world, output, TypeOK, HostKnows, NothingOutlivesTheCall, Pipes, Grouped
<1>25. CASE Drop
  BY <1>25 DEF Drop, ReturnArmed, Return, KillGroup, what, timers, world, output, TypeOK, HostKnows, NothingOutlivesTheCall, Pipes, Grouped
<1>26. CASE UNCHANGED vars
  BY <1>26 DEF vars, TypeOK, HostKnows, NothingOutlivesTheCall, Pipes, Grouped
<1>27. ASSUME NEW p \in Pipes, ReaderFails(p) PROVE NothingOutlivesTheCall'
  BY <1>27 DEF ReaderFails, what, timers, world, output, TypeOK, HostKnows, NothingOutlivesTheCall, Pipes, Grouped
<1>28. CASE JoinFails
  BY <1>28 DEF JoinFails, ReturnArmed, Return, KillGroup, what, timers, world, output, TypeOK, HostKnows, NothingOutlivesTheCall, Pipes, Grouped
<1> QED
  BY <1>1, <1>2, <1>3, <1>4, <1>5, <1>6, <1>7, <1>8, <1>9, <1>10, <1>11, <1>12, <1>13, <1>14, <1>15, <1>16, <1>17, <1>18, <1>19, <1>20, <1>21, <1>22, <1>23, <1>24, <1>25, <1>26, <1>27, <1>28
     DEF Next, Program, Read, Step, Session

THEOREM CallInvariant == Spec => []CallInv
<1>1. ASSUME CallInv, [Next]_vars
      PROVE  CallInv'
  BY <1>1, TypeStep, FlowStep, HostStep, GroupStep DEF CallInv
<1> QED
  BY <1>1, CallInit, PTL DEF Spec

(***************************************************************************)
(* Theorems                                                                *)
(***************************************************************************)
(* Types, and no more in a pipe or read from it than it holds.               *)
THEOREM TypeCorrect == Spec => []TypeOK
<1>1. CallInv => TypeOK
  BY DEF CallInv
<1> QED
  BY <1>1, CallInvariant, PTL

(* However long the output and the pipes are, a success is the whole output:  *)
(* readers end at the end of the output, which comes after the last writer,   *)
(* or fail; only the command line of a model succeeds with a failed reader.   *)
THEOREM OutputIsAlwaysComplete == Spec => []OutputIsComplete
<1>1. CallInv => OutputIsComplete
  <2>1. SUFFICES ASSUME CallInv, result = "ok", kind # "mcp", NEW p \in Pipes,
                        ~(kind = "cli" /\ reader[p] = "failed")
                 PROVE  got[p] = wrote[p] /\ (Limited(p) => wrote[p] <= Limit)
    BY DEF OutputIsComplete
  <2>2. reader[p] = "eof" /\ pipe[p] = 0
    BY <2>1 DEF CallInv, HostKnows, OutputFlows
  <2> QED
    BY <2>1, <2>2 DEF CallInv, TypeOK, OutputFlows
<1> QED
  BY <1>1, CallInvariant, PTL

(* A call leaves no helper of its group or job where it promises to,           *)
(* wherever it ends: answered, at a limit, at a deadline or dropped.           *)
THEOREM NothingEverOutlivesTheCall == Spec => []NothingOutlivesTheCall
<1>1. CallInv => NothingOutlivesTheCall
  BY DEF CallInv
<1> QED
  BY <1>1, CallInvariant, PTL
=============================================================================
