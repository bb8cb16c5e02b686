---------------------------- MODULE JobTableProofs ----------------------------
(***************************************************************************)
(* Proofs about JobTable, for any number of jobs and of cancel requests.   *)
(***************************************************************************)
EXTENDS JobTable, TLAPS

-----------------------------------------------------------------------------
(***************************************************************************)
(* Every step keeps the types, and a mutex held across steps is held by    *)
(* the goroutine or the request that is about to close a Done channel.     *)
(***************************************************************************)
LEMMA TypeStep == TypeOK /\ [Next]_vars => TypeOK'
<1> USE IdsAreDistinct, EvictAfterIsNat
    DEF TypeOK, Jobs, Final, JobPCs, ProcStates, CancelPCs, NotSet, MaxAge
<1> SUFFICES ASSUME TypeOK, [Next]_vars PROVE TypeOK'
  OBVIOUS
<1>1. ASSUME NEW j \in Jobs, StartJob(j) PROVE TypeOK'
  BY <1>1 DEF StartJob
<1>2. ASSUME NEW j \in Agents, RejectArguments(j) PROVE TypeOK'
  BY <1>2 DEF RejectArguments, fields
<1>3. ASSUME NEW j \in Agents, AssignRing(j) PROVE TypeOK'
  BY <1>3 DEF AssignRing
<1>4. ASSUME NEW j \in Agents, SetupFails(j) PROVE TypeOK'
  BY <1>4 DEF SetupFails, fields
<1>5. ASSUME NEW j \in Agents, AssignCmd(j) PROVE TypeOK'
  BY <1>5 DEF AssignCmd
<1>6. ASSUME NEW j \in Agents, StartFails(j) PROVE TypeOK'
  BY <1>6 DEF StartFails, fields
<1>7. ASSUME NEW j \in Agents, RunnerStarts(j) PROVE TypeOK'
  BY <1>7 DEF RunnerStarts
<1>8. ASSUME NEW j \in Agents, FailJob(j) PROVE TypeOK'
  BY <1>8 DEF FailJob, Completion
<1>9. ASSUME NEW j \in Agents, WaitReturns(j) PROVE TypeOK'
  BY <1>9 DEF WaitReturns, fields
<1>10. ASSUME NEW j \in Agents, WaiterRecords(j) PROVE TypeOK'
  <2>1. /\ completedAge' \in [Jobs -> NotSet .. MaxAge]
        /\ status' \in [Jobs -> Final \cup {"absent", "running"}]
        /\ error' \in [Jobs -> BOOLEAN]
    <3>1. completedAge' \in [Jobs -> NotSet .. MaxAge]
      BY <1>10 DEF WaiterRecords, Completion
    <3>2. CASE status[j] = "cancelled"
      BY <1>10, <3>1, <3>2 DEF WaiterRecords
    <3>3. CASE status[j] # "cancelled"
      <4>1. status' \in [Jobs -> Final \cup {"absent", "running"}]
        BY <1>10, <3>3 DEF WaiterRecords
      <4>2. error' \in [Jobs -> BOOLEAN]
        BY <1>10, <3>3 DEF WaiterRecords
      <4> QED BY <3>1, <4>1, <4>2
    <3> QED BY <3>2, <3>3
  <2>2. CASE done[j]
    BY <1>10, <2>1, <2>2, SMTT(30) DEF WaiterRecords
  <2>3. CASE ~ done[j]
    <3>1. pc' = [pc EXCEPT ![j] = "closing"] /\ mu = Nobody /\ mu' = j /\ cpc' = cpc
      BY <1>10, <2>3 DEF WaiterRecords
    <3>2. \A i \in Jobs : pc'[i] = "closing" <=> mu' = i
      BY <3>1
    <3>3. \A c \in Cancels : /\ mu' = c => cpc'[c] \in {"nilClosing", "panicked"}
                            /\ cpc'[c] = "nilClosing" => mu' = c
      BY <3>1
    <3> QED BY <1>10, <2>1, <3>1, <3>2, <3>3 DEF WaiterRecords
  <2> QED BY <2>2, <2>3
<1>11. ASSUME NEW j \in Agents, WaiterCloses(j) PROVE TypeOK'
  BY <1>11 DEF WaiterCloses
<1>12. ASSUME NEW j \in Agents, NEW how \in {"ok", "err"}, RunnerExits(j, how)
       PROVE  TypeOK'
  BY <1>12 DEF RunnerExits, fields
<1>13. ASSUME NEW j \in Generics, NEW ok \in BOOLEAN, ToolReturns(j, ok)
       PROVE  TypeOK'
  BY <1>13 DEF ToolReturns
<1>14. ASSUME NEW c \in Cancels, NEW j \in Jobs, CancelFinds(c, j) PROVE TypeOK'
  BY <1>14 DEF CancelFinds, fields
<1>15. ASSUME NEW c \in Cancels, NEW j \in Jobs, CancelMisses(c, j) PROVE TypeOK'
  BY <1>15 DEF CancelMisses, fields
<1>16. ASSUME NEW c \in Cancels, CancelMarks(c) PROVE TypeOK'
  BY <1>16 DEF CancelMarks
<1>17. ASSUME NEW c \in Cancels, CancelSignals(c) \/ CancelSeesNoProcess(c) PROVE TypeOK'
  BY <1>17 DEF CancelSignals, CancelSeesNoProcess, fields
<1>18. ASSUME NEW c \in Cancels, CancelRecords(c) PROVE TypeOK'
  <2>1. completedAge' \in [Jobs -> NotSet .. MaxAge]
    <3>1. completedAge' = [completedAge EXCEPT ![target[c]] = Completion(target[c])]
      BY <1>18 DEF CancelRecords
    <3>2. CASE target[c] \in Jobs
      <4>1. Completion(target[c]) \in NotSet .. MaxAge
        BY <3>2 DEF Completion
      <4> QED BY <3>1, <4>1
    <3>3. CASE target[c] \notin Jobs
      BY <3>1, <3>3
    <3> QED BY <3>2, <3>3
  <2>2. CASE done[target[c]]
    BY <1>18, <2>1, <2>2 DEF CancelRecords
  <2>3. CASE ~ done[target[c]]
    <3>1. cpc' = [cpc EXCEPT ![c] = "nilClosing"] /\ mu = Nobody /\ mu' = c /\ pc' = pc
      BY <1>18, <2>3 DEF CancelRecords
    <3>2. \A i \in Jobs : pc'[i] = "closing" <=> mu' = i
      BY <3>1
    <3>3. \A b \in Cancels : /\ mu' = b => cpc'[b] \in {"nilClosing", "panicked"}
                            /\ cpc'[b] = "nilClosing" => mu' = b
      BY <3>1
    <3> QED BY <1>18, <2>1, <3>1, <3>2, <3>3 DEF CancelRecords
  <2> QED BY <2>2, <2>3
<1>19. ASSUME NEW c \in Cancels, CancelRecordsCloses(c) PROVE TypeOK'
  BY <1>19 DEF CancelRecordsCloses
<1>20. ASSUME NEW c \in Cancels, CancelSeesDone(c) PROVE TypeOK'
  BY <1>20 DEF CancelSeesDone, fields
<1>21. ASSUME NEW c \in Cancels, CancelTimesOut(c) PROVE TypeOK'
  BY <1>21 DEF CancelTimesOut, fields
<1>22. ASSUME NEW c \in Cancels, CancelChecksDone(c) PROVE TypeOK'
  BY <1>22 DEF CancelChecksDone, fields
<1>23. ASSUME NEW c \in Cancels, CancelCloses(c) PROVE TypeOK'
  BY <1>23 DEF CancelCloses
<1>24. CASE Tick
  BY <1>24 DEF Tick, Older
<1>25. CASE EvictOldJobs
  BY <1>25 DEF EvictOldJobs
<1>26. CASE UNCHANGED vars
  BY <1>26 DEF vars, fields
<1> QED
  BY <1>1, <1>2, <1>3, <1>4, <1>5, <1>6, <1>7, <1>8, <1>9, <1>10, <1>11, <1>12,
     <1>13, <1>14, <1>15, <1>16, <1>17, <1>18, <1>19, <1>20, <1>21, <1>22, <1>23,
     <1>24, <1>25, <1>26
  DEF Next, AgentStep, CancelStep

(***************************************************************************)
(* The inductive step of the safety invariants.                            *)
(***************************************************************************)
LEMMA InvStep == IInv /\ [Next]_vars => IInv'
<1> DEFINE Inv == /\ DoneMeansFinal /\ OutcomeIsTrue /\ StatusFollowsGoroutine
                  /\ RunnerFollowsGoroutine /\ MarkedStaysFinal
<1> SUFFICES ASSUME IInv, [Next]_vars PROVE Inv'
  BY TypeStep DEF IInv
<1>t. TypeOK /\ TypeOK' /\ Inv
  BY TypeStep DEF IInv
<1> USE IdsAreDistinct
    DEF DoneMeansFinal, OutcomeIsTrue, StatusFollowsGoroutine, RunnerFollowsGoroutine,
        MarkedStaysFinal, Marked, TypeOK, Jobs, Final, NotSet
<1>1. ASSUME NEW j \in Jobs, StartJob(j) PROVE Inv'
  BY <1>t, <1>1 DEF StartJob
<1>2. ASSUME NEW j \in Agents, RejectArguments(j) PROVE Inv'
  BY <1>t, <1>2 DEF RejectArguments, fields
<1>3. ASSUME NEW j \in Agents, AssignRing(j) PROVE Inv'
  BY <1>t, <1>3 DEF AssignRing
<1>4. ASSUME NEW j \in Agents, SetupFails(j) PROVE Inv'
  BY <1>t, <1>4 DEF SetupFails, fields
<1>5. ASSUME NEW j \in Agents, AssignCmd(j) PROVE Inv'
  BY <1>t, <1>5 DEF AssignCmd
<1>6. ASSUME NEW j \in Agents, StartFails(j) PROVE Inv'
  BY <1>t, <1>6 DEF StartFails, fields
<1>7. ASSUME NEW j \in Agents, RunnerStarts(j) PROVE Inv'
  BY <1>t, <1>7 DEF RunnerStarts
<1>8. ASSUME NEW j \in Agents, FailJob(j) PROVE Inv'
  BY <1>t, <1>8 DEF FailJob, Completion
<1>9. ASSUME NEW j \in Agents, WaitReturns(j) PROVE Inv'
  BY <1>t, <1>9 DEF WaitReturns, fields
<1>10. ASSUME NEW j \in Agents, WaiterRecords(j) PROVE Inv'
  BY <1>t, <1>10 DEF WaiterRecords, Completion
<1>11. ASSUME NEW j \in Agents, WaiterCloses(j) PROVE Inv'
  BY <1>t, <1>11 DEF WaiterCloses
<1>12. ASSUME NEW j \in Agents, NEW how \in {"ok", "err"}, RunnerExits(j, how) PROVE Inv'
  BY <1>t, <1>12 DEF RunnerExits, fields
<1>13. ASSUME NEW j \in Generics, NEW ok \in BOOLEAN, ToolReturns(j, ok) PROVE Inv'
  <2>1. pc[j] = "tool" /\ UNCHANGED <<table, cmd, proc, cpc, target, createdAge>>
    BY <1>13 DEF ToolReturns
  <2>2. /\ status' = [status EXCEPT ![j] = IF ok THEN "done" ELSE "failed"]
        /\ completedAge' = [completedAge EXCEPT ![j] = 0]
        /\ done' = [done EXCEPT ![j] = TRUE]
        /\ pc' = [pc EXCEPT ![j] = "end"]
    BY <1>13 DEF ToolReturns
  <2>3. /\ ok => result'[j]
        /\ ~ ok => error'[j]
        /\ \A i \in Jobs \ {j} : result'[i] = result[i] /\ error'[i] = error[i]
    BY <1>t, <1>13 DEF ToolReturns
  <2>4. DoneMeansFinal' /\ StatusFollowsGoroutine' /\ RunnerFollowsGoroutine'
    BY <1>t, <2>1, <2>2
  <2>5. OutcomeIsTrue'
    BY <1>t, <2>1, <2>2, <2>3
  <2>6. MarkedStaysFinal'
    BY <1>t, <2>1, <2>2
  <2> QED BY <2>4, <2>5, <2>6
<1>14. ASSUME NEW c \in Cancels, NEW j \in Jobs, CancelFinds(c, j) PROVE Inv'
  BY <1>t, <1>14 DEF CancelFinds, fields
<1>15. ASSUME NEW c \in Cancels, NEW j \in Jobs, CancelMisses(c, j) PROVE Inv'
  BY <1>t, <1>15 DEF CancelMisses, fields
<1>16. ASSUME NEW c \in Cancels, CancelMarks(c) PROVE Inv'
  BY <1>t, <1>16 DEF CancelMarks
<1>17. ASSUME NEW c \in Cancels, CancelSignals(c) \/ CancelSeesNoProcess(c) PROVE Inv'
  BY <1>t, <1>17 DEF CancelSignals, CancelSeesNoProcess, fields
<1>18. ASSUME NEW c \in Cancels, CancelRecords(c) PROVE Inv'
  BY <1>t, <1>18 DEF CancelRecords, Completion
<1>19. ASSUME NEW c \in Cancels, CancelRecordsCloses(c) PROVE Inv'
  BY <1>t, <1>19 DEF CancelRecordsCloses
<1>20. ASSUME NEW c \in Cancels, CancelSeesDone(c) PROVE Inv'
  BY <1>t, <1>20 DEF CancelSeesDone, fields
<1>21. ASSUME NEW c \in Cancels, CancelTimesOut(c) PROVE Inv'
  BY <1>t, <1>21 DEF CancelTimesOut, fields
<1>22. ASSUME NEW c \in Cancels, CancelChecksDone(c) PROVE Inv'
  BY <1>t, <1>22 DEF CancelChecksDone, fields
<1>23. ASSUME NEW c \in Cancels, CancelCloses(c) PROVE Inv'
  BY <1>t, <1>23 DEF CancelCloses
<1>24. CASE Tick
  <2>1. \A j \in Jobs : completedAge'[j] = NotSet <=> completedAge[j] = NotSet
    BY <1>t, <1>24 DEF Tick, Older, MaxAge
  <2>2. UNCHANGED <<table, status, error, result, done, cmd, pc, proc, cpc, target>>
    BY <1>24 DEF Tick
  <2> QED BY <1>t, <2>1, <2>2
<1>25. CASE EvictOldJobs
  BY <1>t, <1>25 DEF EvictOldJobs
<1>26. CASE UNCHANGED vars
  BY <1>t, <1>26 DEF vars, fields
<1> QED
  BY <1>1, <1>2, <1>3, <1>4, <1>5, <1>6, <1>7, <1>8, <1>9, <1>10, <1>11, <1>12, <1>13, <1>14, <1>15, <1>16, <1>17, <1>18, <1>19, <1>20, <1>21, <1>22, <1>23, <1>24, <1>25, <1>26
  DEF Next, AgentStep, CancelStep

-----------------------------------------------------------------------------
(***************************************************************************)
(* The invariant holds initially, and therefore always.                    *)
(***************************************************************************)
LEMMA InitInv == Init => IInv
<1> SUFFICES ASSUME Init PROVE IInv
  OBVIOUS
<1> USE IdsAreDistinct, EvictAfterIsNat DEF Init, Jobs
<1>1. TypeOK
  <2>1. 0 \in 0 .. MaxAge /\ NotSet \in NotSet .. MaxAge
    BY DEF NotSet, MaxAge
  <2>2. \A j \in Jobs : ~ (pc[j] = "closing") /\ mu # j
    OBVIOUS
  <2>3. \A c \in Cancels : mu # c /\ cpc[c] # "nilClosing"
    OBVIOUS
  <2> QED BY <2>1, <2>2, <2>3 DEF TypeOK, Final, JobPCs, ProcStates, CancelPCs
<1>2. DoneMeansFinal /\ OutcomeIsTrue /\ StatusFollowsGoroutine /\ RunnerFollowsGoroutine
  BY DEF DoneMeansFinal, OutcomeIsTrue, StatusFollowsGoroutine, RunnerFollowsGoroutine
<1>3. MarkedStaysFinal
  BY DEF MarkedStaysFinal, Marked
<1> QED BY <1>1, <1>2, <1>3 DEF IInv

THEOREM Invariance == Spec => []IInv
  BY InitInv, InvStep, PTL DEF Spec

(***************************************************************************)
(* Types, and the discipline of the mutex.                                 *)
(***************************************************************************)
THEOREM TypeCorrect == Spec => []TypeOK
<1>1. IInv => TypeOK
  BY DEF IInv
<1> QED BY <1>1, Invariance, PTL

(***************************************************************************)
(* A reader released by Done always finds an outcome.                      *)
(***************************************************************************)
THEOREM DoneIsFinal == Spec => []DoneMeansFinal
<1>1. IInv => DoneMeansFinal
  BY DEF IInv
<1> QED BY <1>1, Invariance, PTL

(***************************************************************************)
(* No poll is ever told an outcome the job did not have.                   *)
(***************************************************************************)
THEOREM OutcomesAreTrue == Spec => []OutcomeIsTrue
<1>1. IInv => OutcomeIsTrue
  BY DEF IInv
<1> QED BY <1>1, Invariance, PTL

-----------------------------------------------------------------------------
(***************************************************************************)
(* A launched and cancelled agent stays cancelled: FailJob is out of reach *)
(* once there is a runner, and the waiter asks first.                      *)
(***************************************************************************)
LEMMA CancelSticksStep ==
  ASSUME IInv, [Next]_vars, NEW j \in Agents,
         cmd[j] = "started", status[j] = "cancelled"
  PROVE  status'[j] = "cancelled"
<1> USE IdsAreDistinct DEF IInv, TypeOK, StatusFollowsGoroutine,
        RunnerFollowsGoroutine, Jobs
<1>1. ASSUME NEW i \in Jobs, StartJob(i) PROVE status'[j] = "cancelled"
  BY <1>1 DEF StartJob
<1>2. ASSUME NEW i \in Agents, AgentStep(i) PROVE status'[j] = "cancelled"
  BY <1>2 DEF AgentStep, RejectArguments, AssignRing, SetupFails, AssignCmd,
     StartFails, RunnerStarts, FailJob, WaitReturns, WaiterRecords, WaiterCloses, fields
<1>3. ASSUME NEW i \in Generics, NEW ok \in BOOLEAN, ToolReturns(i, ok)
      PROVE  status'[j] = "cancelled"
  BY <1>3 DEF ToolReturns
<1>4. ASSUME NEW c \in Cancels, CancelStep(c) PROVE status'[j] = "cancelled"
  BY <1>4 DEF CancelStep, CancelMarks, CancelSignals, CancelSeesNoProcess, CancelRecords,
     CancelRecordsCloses, CancelSeesDone, CancelTimesOut, CancelChecksDone,
     CancelCloses, fields
<1>5. CASE UNCHANGED status
  BY <1>5
<1> QED
  BY <1>1, <1>2, <1>3, <1>4, <1>5
  DEF Next, RunnerExits, CancelFinds, CancelMisses, Tick, EvictOldJobs, vars, fields

THEOREM CancellationSticks == Spec => CancelSticks
<1>1. IInv /\ [Next]_vars
        => [\A j \in Agents : cmd[j] = "started" /\ status[j] = "cancelled"
                                => status'[j] = "cancelled"]_vars
  BY CancelSticksStep
<1> QED BY <1>1, Invariance, PTL DEF Spec, CancelSticks

(***************************************************************************)
(* Only the evictor takes a job out of the table, and a job that is done   *)
(* or failed has a completion time to go by.                               *)
(***************************************************************************)
LEMMA GraceStep ==
  ASSUME IInv, [Next]_vars, NEW j \in table \ table', status[j] # "cancelled"
  PROVE  completedAge[j] > EvictAfter
<1>1. CASE EvictOldJobs
  <2>1. j \in Expired /\ j \in Jobs
    BY <1>1 DEF EvictOldJobs, IInv, TypeOK
  <2>2. status[j] \in {"done", "failed"}
    BY <2>1 DEF Expired, IInv, TypeOK, Final, StatusFollowsGoroutine
  <2>3. completedAge[j] # NotSet
    BY <2>1, <2>2 DEF IInv, StatusFollowsGoroutine
  <2> QED BY <2>1, <2>3 DEF Expired, EvictionAge
<1>2. CASE table \subseteq table'
  BY <1>2
<1>3. ASSUME NEW i \in Agents, AgentStep(i) PROVE UNCHANGED table
  BY <1>3 DEF AgentStep, RejectArguments, AssignRing, SetupFails, AssignCmd,
     StartFails, RunnerStarts, FailJob, WaitReturns, WaiterRecords, WaiterCloses, fields
<1>4. ASSUME NEW c \in Cancels, CancelStep(c) PROVE UNCHANGED table
  BY <1>4 DEF CancelStep, CancelMarks, CancelSignals, CancelSeesNoProcess, CancelRecords,
     CancelRecordsCloses, CancelSeesDone, CancelTimesOut, CancelChecksDone,
     CancelCloses, fields
<1> QED
  BY <1>1, <1>2, <1>3, <1>4
  DEF Next, StartJob, RunnerExits, ToolReturns, CancelFinds, CancelMisses, Tick,
      vars, fields

THEOREM GraceIsGiven == Spec => GraceAfterFinish
<1>1. IInv /\ [Next]_vars
        => [\A j \in table \ table' : status[j] # "cancelled"
                                        => completedAge[j] > EvictAfter]_vars
  BY GraceStep
<1> QED BY <1>1, Invariance, PTL DEF Spec, GraceAfterFinish
=============================================================================
