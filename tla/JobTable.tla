------------------------------- MODULE JobTable -------------------------------
(***************************************************************************)
(* The life of the asynchronous jobs (internal/tools/job.go,               *)
(* agent_runner_tool.go, server.go and the cancel handler): jobs started,  *)
(* run by a goroutine or by a runner process, cancelled over HTTP while    *)
(* they run, and evicted some time after they finished.                    *)
(*                                                                         *)
(* Two kinds of job share the table.  A generic job (Generics) runs one    *)
(* tool call in a goroutine.  An agent job (Agents, tool dev_run_agent)    *)
(* sets up a FIFO, launches a runner process and leaves a goroutine        *)
(* waiting for it to exit.                                                 *)
(*                                                                         *)
(* State.Mu is the variable mu: a critical section that nothing can        *)
(* interfere with is one step guarded by mu = Nobody; one that tests a     *)
(* Done channel and closes it is two steps, because CancelAgentJob also    *)
(* closes Done without the lock.                                           *)
(***************************************************************************)
EXTENDS Integers

CONSTANTS Agents,      \* ids of dev_run_agent jobs
          Generics,    \* ids of all other jobs
          Cancels,     \* requests to POST /jobs/{id}/cancel
          EvictAfter,  \* jobEvictAfter, in ticks of Tick
          NoJob,       \* the target of a request not yet made
          Nobody       \* the holder of a free mutex

ASSUME IdsAreDistinct ==
  /\ Agents \cap Generics = {}
  /\ (Agents \cup Generics) \cap Cancels = {}
  /\ NoJob \notin Agents \cup Generics
  /\ Nobody \notin Agents \cup Generics \cup Cancels
ASSUME EvictAfterIsNat == EvictAfter \in Nat

Jobs == Agents \cup Generics

VARIABLES
  \* the Job structs; they outlive their entry in the table
  table,         \* the ids in State.Jobs
  status,        \* Job.Status, "absent" before StartJob
  error,         \* whether Job.Error is set
  result,        \* whether Job.Result is set
  createdAge,    \* time since Job.CreatedAt
  completedAge,  \* time since Job.CompletedAt, NotSet while that is zero
  done,          \* whether the channel Job.Done is closed
  ring,          \* whether Job.Events is assigned
  cmd,           \* Job.Cmd: "nil", "assigned", or "started" (has a Process)
  \* the goroutine of each job, and the runner process of an agent job
  pc,
  proc,
  \* the cancel requests: where each one is, and the job it found
  cpc,
  target,
  \* the process
  mu,            \* who holds State.Mu across steps
  crashed        \* a panic nothing recovers has ended the server

fields == <<table, status, error, result, createdAge, completedAge, done, ring, cmd>>
vars == <<fields, pc, proc, cpc, target, mu, crashed>>

-----------------------------------------------------------------------------
Final == {"done", "failed", "cancelled"}

NotSet == -1
MaxAge == EvictAfter + 1      \* ages stop here: older makes no difference

JobPCs == {"idle", "tool", "starting", "setup", "assigned", "failing",
           "waiting", "reaped", "closing", "end"}
ProcStates == {"none", "alive", "termed", "killed", "ok", "err"}
CancelPCs == {"idle", "found", "markedNil", "marked", "nilClosing", "signalled",
              "timedOut", "closing", "returned", "panicked"}

Init ==
  /\ table = {}
  /\ status = [j \in Jobs |-> "absent"]
  /\ error = [j \in Jobs |-> FALSE]
  /\ result = [j \in Jobs |-> FALSE]
  /\ createdAge = [j \in Jobs |-> 0]
  /\ completedAge = [j \in Jobs |-> NotSet]
  /\ done = [j \in Jobs |-> FALSE]
  /\ ring = [j \in Jobs |-> FALSE]
  /\ cmd = [j \in Jobs |-> "nil"]
  /\ pc = [j \in Jobs |-> "idle"]
  /\ proc = [j \in Jobs |-> "none"]
  /\ cpc = [c \in Cancels |-> "idle"]
  /\ target = [c \in Cancels |-> NoJob]
  /\ mu = Nobody
  /\ crashed = FALSE

\* CompletedAt if it is already set, else now.
Completion(j) == IF completedAge[j] = NotSet THEN 0 ELSE completedAge[j]

-----------------------------------------------------------------------------
(* StartJob and the goroutine of a job *)

\* A fresh id is entered in the table; the job is running from here on.
StartJob(j) ==
  /\ ~ crashed /\ pc[j] = "idle" /\ mu = Nobody
  /\ table' = table \cup {j}
  /\ status' = [status EXCEPT ![j] = "running"]
  /\ pc' = [pc EXCEPT ![j] = IF j \in Agents THEN "starting" ELSE "tool"]
  /\ UNCHANGED <<error, result, createdAge, completedAge, done, ring, cmd,
                 proc, cpc, target, mu, crashed>>

\* The arguments are not those of dev_run_agent: no ring, straight to failJob.
RejectArguments(j) ==
  /\ ~ crashed /\ pc[j] = "starting"
  /\ pc' = [pc EXCEPT ![j] = "failing"]
  /\ UNCHANGED <<fields, proc, cpc, target, mu, crashed>>

\* job.Events is assigned (without the lock) and runAgentJob begins.
AssignRing(j) ==
  /\ ~ crashed /\ pc[j] = "starting"
  /\ ring' = [ring EXCEPT ![j] = TRUE]
  /\ pc' = [pc EXCEPT ![j] = "setup"]
  /\ UNCHANGED <<table, status, error, result, createdAge, completedAge, done, cmd,
                 proc, cpc, target, mu, crashed>>

\* The directory, the FIFO, one of its two ends, the runner's path or the
\* specification cannot be had.
SetupFails(j) ==
  /\ ~ crashed /\ pc[j] = "setup"
  /\ pc' = [pc EXCEPT ![j] = "failing"]
  /\ UNCHANGED <<fields, proc, cpc, target, mu, crashed>>

AssignCmd(j) ==
  /\ ~ crashed /\ pc[j] = "setup" /\ mu = Nobody
  /\ cmd' = [cmd EXCEPT ![j] = "assigned"]
  /\ pc' = [pc EXCEPT ![j] = "assigned"]
  /\ UNCHANGED <<table, status, error, result, createdAge, completedAge, done, ring,
                 proc, cpc, target, mu, crashed>>

StartFails(j) ==
  /\ ~ crashed /\ pc[j] = "assigned"
  /\ pc' = [pc EXCEPT ![j] = "failing"]
  /\ UNCHANGED <<fields, proc, cpc, target, mu, crashed>>

\* cmd.Start succeeds: nobody asks whether the job was cancelled meanwhile.
RunnerStarts(j) ==
  /\ ~ crashed /\ pc[j] = "assigned"
  /\ cmd' = [cmd EXCEPT ![j] = "started"]
  /\ proc' = [proc EXCEPT ![j] = "alive"]
  /\ pc' = [pc EXCEPT ![j] = "waiting"]
  /\ UNCHANGED <<table, status, error, result, createdAge, completedAge, done, ring,
                 cpc, target, mu, crashed>>

\* failJob, one critical section: Done is closed unless it already is.
FailJob(j) ==
  /\ ~ crashed /\ pc[j] = "failing" /\ mu = Nobody
  /\ status' = [status EXCEPT ![j] = "failed"]
  /\ error' = [error EXCEPT ![j] = TRUE]
  /\ completedAge' = [completedAge EXCEPT ![j] = Completion(j)]
  /\ done' = [done EXCEPT ![j] = TRUE]
  /\ pc' = [pc EXCEPT ![j] = "end"]
  /\ UNCHANGED <<table, result, createdAge, ring, cmd,
                 proc, cpc, target, mu, crashed>>

\* cmd.Wait returns in the waiter goroutine, which then closes its end of the FIFO.
WaitReturns(j) ==
  /\ ~ crashed /\ pc[j] = "waiting" /\ proc[j] \in {"ok", "err"}
  /\ pc' = [pc EXCEPT ![j] = "reaped"]
  /\ UNCHANGED <<fields, proc, cpc, target, mu, crashed>>

\* Slips the waiter could have: a cancelled job is not told apart; Done is
\* closed and no outcome recorded; the error of cmd.Wait is dropped.
WaiterRecordsIgnoringCancel(j) ==
  /\ ~ crashed /\ pc[j] = "reaped" /\ mu = Nobody
  /\ status' = [status EXCEPT ![j] = IF proc[j] = "ok" THEN "done" ELSE "failed"]
  /\ error' = [error EXCEPT ![j] = @ \/ proc[j] = "err"]
  /\ completedAge' = [completedAge EXCEPT ![j] = Completion(j)]
  /\ IF done[j]
     THEN pc' = [pc EXCEPT ![j] = "end"] /\ UNCHANGED mu
     ELSE pc' = [pc EXCEPT ![j] = "closing"] /\ mu' = j
  /\ UNCHANGED <<table, result, createdAge, done, ring, cmd,
                 proc, cpc, target, crashed>>
WaiterRecordsNothing(j) ==
  /\ ~ crashed /\ pc[j] = "reaped" /\ mu = Nobody
  /\ pc' = [pc EXCEPT ![j] = "closing"] /\ mu' = j
  /\ UNCHANGED <<fields, proc, cpc, target, crashed>>
WaiterRecordsNoError(j) ==
  /\ ~ crashed /\ pc[j] = "reaped" /\ mu = Nobody
  /\ status' = [status EXCEPT ![j] = IF @ = "cancelled" THEN @ ELSE "done"]
  /\ completedAge' = [completedAge EXCEPT ![j] = Completion(j)]
  /\ IF done[j]
     THEN pc' = [pc EXCEPT ![j] = "end"] /\ UNCHANGED mu
     ELSE pc' = [pc EXCEPT ![j] = "closing"] /\ mu' = j
  /\ UNCHANGED <<table, error, result, createdAge, done, ring, cmd,
                 proc, cpc, target, crashed>>

\* The waiter takes the lock, records the outcome unless the job was cancelled,
\* and looks whether Done is closed.  If it is not, the close comes next, with
\* the lock still held.
WaiterRecords(j) ==
  /\ ~ crashed /\ pc[j] = "reaped" /\ mu = Nobody
  /\ IF status[j] = "cancelled"
     THEN UNCHANGED <<status, error>>
     ELSE /\ status' = [status EXCEPT ![j] = IF proc[j] = "ok" THEN "done" ELSE "failed"]
          /\ error' = [error EXCEPT ![j] = @ \/ proc[j] = "err"]
  /\ completedAge' = [completedAge EXCEPT ![j] = Completion(j)]
  /\ IF done[j]
     THEN pc' = [pc EXCEPT ![j] = "end"] /\ UNCHANGED mu
     ELSE pc' = [pc EXCEPT ![j] = "closing"] /\ mu' = j
  /\ UNCHANGED <<table, result, createdAge, done, ring, cmd,
                 proc, cpc, target, crashed>>

\* Closing a closed channel panics, and nothing recovers a goroutine's panic.
WaiterCloses(j) ==
  /\ ~ crashed /\ pc[j] = "closing"
  /\ done' = [done EXCEPT ![j] = TRUE]
  /\ crashed' = done[j]
  /\ mu' = Nobody
  /\ pc' = [pc EXCEPT ![j] = "end"]
  /\ UNCHANGED <<table, status, error, result, createdAge, completedAge, ring, cmd,
                 proc, cpc, target>>

\* The goroutine of a generic job: the tool call returned a result or an error.
\* The status is overwritten and Done closed without looking at either.
ToolReturns(j, ok) ==
  /\ ~ crashed /\ pc[j] = "tool" /\ mu = Nobody
  /\ status' = [status EXCEPT ![j] = IF ok THEN "done" ELSE "failed"]
  /\ result' = [result EXCEPT ![j] = @ \/ ok]
  /\ error' = [error EXCEPT ![j] = @ \/ ~ ok]
  /\ completedAge' = [completedAge EXCEPT ![j] = 0]
  /\ done' = [done EXCEPT ![j] = TRUE]
  /\ crashed' = done[j]
  /\ pc' = [pc EXCEPT ![j] = "end"]
  /\ UNCHANGED <<table, createdAge, ring, cmd, proc, cpc, target, mu>>

\* The runner process exits, by itself or from a signal.  One that is killed
\* cannot exit cleanly.
RunnerExits(j, how) ==
  /\ \/ proc[j] \in {"alive", "termed"}
     \/ proc[j] = "killed" /\ how = "err"
  /\ proc' = [proc EXCEPT ![j] = how]
  /\ UNCHANGED <<fields, pc, cpc, target, mu, crashed>>

-----------------------------------------------------------------------------
(* A cancel request: handleCancelJob and CancelAgentJob *)

\* The two look-ups of the request find the job in the table, or do not.
CancelFinds(c, j) ==
  /\ ~ crashed /\ cpc[c] = "idle" /\ mu = Nobody
  /\ j \in table
  /\ cpc' = [cpc EXCEPT ![c] = "found"]
  /\ target' = [target EXCEPT ![c] = j]
  /\ UNCHANGED <<fields, pc, proc, mu, crashed>>

CancelMisses(c, j) ==
  /\ ~ crashed /\ cpc[c] = "idle" /\ mu = Nobody
  /\ j \notin table /\ pc[j] # "idle"
  /\ cpc' = [cpc EXCEPT ![c] = "returned"]
  /\ UNCHANGED <<fields, pc, proc, target, mu, crashed>>

\* The job is marked, whatever its status is, and its Cmd pointer read.
CancelMarks(c) ==
  /\ ~ crashed /\ cpc[c] = "found" /\ mu = Nobody
  /\ status' = [status EXCEPT ![target[c]] = "cancelled"]
  /\ cpc' = [cpc EXCEPT ![c] = IF cmd[target[c]] = "nil" THEN "markedNil" ELSE "marked"]
  /\ UNCHANGED <<table, error, result, createdAge, completedAge, done, ring, cmd,
                 pc, proc, target, mu, crashed>>

\* cmd.Process is read without the lock: there is one once the runner started,
\* and its process group gets a SIGTERM.
CancelSignals(c) ==
  /\ ~ crashed /\ cpc[c] = "marked" /\ cmd[target[c]] = "started"
  /\ proc' = [proc EXCEPT ![target[c]] = IF @ = "alive" THEN "termed" ELSE @]
  /\ cpc' = [cpc EXCEPT ![c] = "signalled"]
  /\ UNCHANGED <<fields, pc, target, mu, crashed>>

\* A request that sees none goes on as if there were no Cmd, whether or not the
\* runner is started before it gets the lock.
CancelSeesNoProcess(c) ==
  /\ ~ crashed /\ cpc[c] = "marked" /\ cmd[target[c]] = "assigned"
  /\ cpc' = [cpc EXCEPT ![c] = "markedNil"]
  /\ UNCHANGED <<fields, pc, proc, target, mu, crashed>>

\* A slip: the lock is released before Done is closed.
CancelRecordsUnlocked(c) ==
  LET j == target[c] IN
  /\ ~ crashed /\ cpc[c] = "markedNil" /\ mu = Nobody
  /\ completedAge' = [completedAge EXCEPT ![j] = Completion(j)]
  /\ cpc' = [cpc EXCEPT ![c] = IF done[j] THEN "returned" ELSE "nilClosing"]
  /\ UNCHANGED <<table, status, error, result, createdAge, done, ring, cmd,
                 pc, proc, target, mu, crashed>>

\* Without a Cmd or a Process, completion is recorded here, under the lock.
CancelRecords(c) ==
  LET j == target[c] IN
  /\ ~ crashed /\ cpc[c] = "markedNil" /\ mu = Nobody
  /\ completedAge' = [completedAge EXCEPT ![j] = Completion(j)]
  /\ IF done[j]
     THEN cpc' = [cpc EXCEPT ![c] = "returned"] /\ UNCHANGED mu
     ELSE cpc' = [cpc EXCEPT ![c] = "nilClosing"] /\ mu' = c
  /\ UNCHANGED <<table, status, error, result, createdAge, done, ring, cmd,
                 pc, proc, target, crashed>>

\* A panic here is recovered by the HTTP server, but the lock is not deferred:
\* it stays with a request that is gone.
CancelRecordsCloses(c) ==
  LET j == target[c] IN
  /\ ~ crashed /\ cpc[c] = "nilClosing"
  /\ done' = [done EXCEPT ![j] = TRUE]
  /\ cpc' = [cpc EXCEPT ![c] = IF done[j] THEN "panicked" ELSE "returned"]
  /\ mu' = IF done[j] THEN mu ELSE Nobody
  /\ UNCHANGED <<table, status, error, result, createdAge, completedAge, ring, cmd,
                 pc, proc, target, crashed>>

\* The runner's exit closes Done within five seconds of the SIGTERM ...
CancelSeesDone(c) ==
  /\ ~ crashed /\ cpc[c] = "signalled" /\ done[target[c]]
  /\ cpc' = [cpc EXCEPT ![c] = "returned"]
  /\ UNCHANGED <<fields, pc, proc, target, mu, crashed>>

\* A slip: the timer is missing, and a runner that ignores SIGTERM is waited for.
CancelWaitsForDone(c) ==
  /\ ~ crashed /\ cpc[c] = "signalled" /\ done[target[c]]
  /\ cpc' = [cpc EXCEPT ![c] = "timedOut"]
  /\ UNCHANGED <<fields, pc, proc, target, mu, crashed>>

\* ... or the timer fires, and the group gets a SIGKILL.  (A select with both
\* ready takes either.)
CancelTimesOut(c) ==
  /\ ~ crashed /\ cpc[c] = "signalled"
  /\ proc' = [proc EXCEPT ![target[c]] = IF @ \in {"alive", "termed"} THEN "killed" ELSE @]
  /\ cpc' = [cpc EXCEPT ![c] = "timedOut"]
  /\ UNCHANGED <<fields, pc, target, mu, crashed>>

\* Done is looked at and then closed, without the lock.
CancelChecksDone(c) ==
  /\ ~ crashed /\ cpc[c] = "timedOut"
  /\ cpc' = [cpc EXCEPT ![c] = IF done[target[c]] THEN "returned" ELSE "closing"]
  /\ UNCHANGED <<fields, pc, proc, target, mu, crashed>>

CancelCloses(c) ==
  LET j == target[c] IN
  /\ ~ crashed /\ cpc[c] = "closing"
  /\ done' = [done EXCEPT ![j] = TRUE]
  /\ cpc' = [cpc EXCEPT ![c] = IF done[j] THEN "panicked" ELSE "returned"]
  /\ UNCHANGED <<table, status, error, result, createdAge, completedAge, ring, cmd,
                 pc, proc, target, mu, crashed>>

-----------------------------------------------------------------------------
(* Time, and the evictor *)

Older(age) == IF age \in {NotSet, MaxAge} THEN age ELSE age + 1

\* Time passes for every job that was started.
Tick ==
  /\ ~ crashed
  /\ createdAge' = [j \in Jobs |-> IF pc[j] = "idle" THEN createdAge[j]
                                   ELSE Older(createdAge[j])]
  /\ completedAge' = [j \in Jobs |-> Older(completedAge[j])]
  /\ UNCHANGED <<table, status, error, result, done, ring, cmd,
                 pc, proc, cpc, target, mu, crashed>>

\* CompletedAt, or CreatedAt for a job that has none.
EvictionAge(j) == IF completedAge[j] = NotSet THEN createdAge[j] ELSE completedAge[j]

\* Slips evictOldJobs could have: it goes by CreatedAt (what INC-2303 was), or
\* takes jobs that ended by themselves only.
ExpiredByCreation == {j \in table : status[j] # "running" /\ createdAge[j] > EvictAfter}
ExpiredUncancelled == {j \in table : status[j] \in {"done", "failed"}
                                     /\ EvictionAge(j) > EvictAfter}

Expired == {j \in table : status[j] # "running" /\ EvictionAge(j) > EvictAfter}

EvictOldJobs ==
  /\ ~ crashed /\ mu = Nobody
  /\ table' = table \ Expired
  /\ UNCHANGED <<status, error, result, createdAge, completedAge, done, ring, cmd,
                 pc, proc, cpc, target, mu, crashed>>

-----------------------------------------------------------------------------
\* What the code of a job does by itself.
AgentStep(j) ==
  \/ RejectArguments(j) \/ AssignRing(j) \/ SetupFails(j) \/ AssignCmd(j)
  \/ StartFails(j) \/ RunnerStarts(j) \/ FailJob(j)
  \/ WaitReturns(j) \/ WaiterRecords(j) \/ WaiterCloses(j)

\* What a cancel request does once it has found its job.
CancelStep(c) ==
  \/ CancelMarks(c) \/ CancelSignals(c) \/ CancelSeesNoProcess(c)
  \/ CancelRecords(c) \/ CancelRecordsCloses(c)
  \/ CancelSeesDone(c) \/ CancelTimesOut(c) \/ CancelChecksDone(c) \/ CancelCloses(c)

Next ==
  \/ \E j \in Jobs : StartJob(j)
  \/ \E j \in Agents : AgentStep(j)
  \/ \E j \in Agents, how \in {"ok", "err"} : RunnerExits(j, how)
  \/ \E j \in Generics, ok \in BOOLEAN : ToolReturns(j, ok)
  \/ \E c \in Cancels, j \in Jobs : CancelFinds(c, j) \/ CancelMisses(c, j)
  \/ \E c \in Cancels : CancelStep(c)
  \/ Tick
  \/ EvictOldJobs

Spec == Init /\ [][Next]_vars

(***************************************************************************)
(* What the runtime guarantees: a goroutine that can go on does, a timer   *)
(* fires, a killed process exits, the clock and the evictor's ticker go    *)
(* on.  Nothing says that a tool call returns, that a runner exits by      *)
(* itself or on SIGTERM, or that anybody cancels a job.                    *)
(***************************************************************************)
Fairness ==
  /\ \A j \in Agents : WF_vars(AgentStep(j))
  /\ \A j \in Agents : WF_vars(proc[j] = "killed" /\ RunnerExits(j, "err"))
  /\ \A c \in Cancels : WF_vars(CancelStep(c))
  /\ WF_vars(Tick)
  /\ WF_vars(EvictOldJobs)

FairSpec == Spec /\ Fairness

-----------------------------------------------------------------------------
(***************************************************************************)
(* Type invariant.  A held mutex is held by one goroutine in the middle of *)
(* its critical section.                                                   *)
(***************************************************************************)
TypeOK ==
  /\ table \subseteq Jobs
  /\ status \in [Jobs -> Final \cup {"absent", "running"}]
  /\ error \in [Jobs -> BOOLEAN] /\ result \in [Jobs -> BOOLEAN]
  /\ createdAge \in [Jobs -> 0 .. MaxAge]
  /\ completedAge \in [Jobs -> NotSet .. MaxAge]
  /\ done \in [Jobs -> BOOLEAN] /\ ring \in [Jobs -> BOOLEAN]
  /\ cmd \in [Jobs -> {"nil", "assigned", "started"}]
  /\ pc \in [Jobs -> JobPCs] /\ proc \in [Jobs -> ProcStates]
  /\ cpc \in [Cancels -> CancelPCs]
  /\ target \in [Cancels -> Jobs \cup {NoJob}]
  /\ mu \in Jobs \cup Cancels \cup {Nobody}
  /\ crashed \in BOOLEAN
  /\ \A j \in Jobs : pc[j] = "closing" <=> mu = j
  /\ \A c \in Cancels : /\ mu = c => cpc[c] \in {"nilClosing", "panicked"}
                        /\ cpc[c] = "nilClosing" => mu = c

(***************************************************************************)
(* Whoever waits on Job.Done and then reads Job.Status (the synthesizer of *)
(* terminal events, job_event_pusher.go:189-205) finds a final status:     *)
(* every path that closes Done records an outcome first, the unlocked      *)
(* close of CancelAgentJob included.                                       *)
(***************************************************************************)
DoneMeansFinal == \A j \in Jobs : done[j] => status[j] \in Final

(***************************************************************************)
(* What a poll (GetJob) reports of a job is its real outcome: "done" comes *)
(* with a result, or from a runner that exited cleanly; "failed" comes     *)
(* with an error, and never from a clean exit.                             *)
(***************************************************************************)
OutcomeIsTrue ==
  \A j \in Jobs :
    /\ status[j] = "done" => IF j \in Generics THEN result[j] ELSE proc[j] = "ok"
    /\ status[j] = "failed" => error[j] /\ proc[j] # "ok"

(***************************************************************************)
(* Once an agent's runner was launched, a cancelled job stays cancelled:   *)
(* the waiter does not overwrite the status when the runner exits.         *)
(***************************************************************************)
CancelSticks ==
  [][\A j \in Agents : cmd[j] = "started" /\ status[j] = "cancelled"
                         => status'[j] = "cancelled"]_vars

(***************************************************************************)
(* A job nobody cancelled leaves the table only when it has been finished  *)
(* for longer than jobEvictAfter: never while it runs, and never sooner    *)
(* because it had been running for long (INC-2303).                        *)
(***************************************************************************)
GraceAfterFinish ==
  [][\A j \in table \ table' : status[j] # "cancelled"
                                 => completedAge[j] > EvictAfter]_vars

(***************************************************************************)
(* Nothing that takes the lock can go on any more.                         *)
(***************************************************************************)
Stuck == crashed \/ \E c \in Cancels : mu = c /\ cpc[c] = "panicked"

(***************************************************************************)
(* Every cancel request is answered (or, on a double close, dropped by the *)
(* HTTP server), even if the runner ignores SIGTERM and Done never closes  *)
(* by itself: the five-second timer sees to it.                            *)
(***************************************************************************)
CancelsReturn ==
  \A c \in Cancels : cpc[c] = "found" ~> (cpc[c] \in {"returned", "panicked"} \/ Stuck)

(***************************************************************************)
(* The table does not fill up with finished jobs, whatever finished them.  *)
(***************************************************************************)
FinishedJobsLeave == \A j \in Jobs : done[j] ~> (j \notin table \/ Stuck)

-----------------------------------------------------------------------------
(* The inductive invariant behind the safety properties *)

\* A request that has marked its job, and not returned yet.
Marked == {"markedNil", "marked", "nilClosing", "signalled", "timedOut", "closing"}

(***************************************************************************)
(* A job has a status from StartJob on, and is done or failed only when    *)
(* its goroutine has recorded that, together with the completion time.     *)
(***************************************************************************)
StatusFollowsGoroutine ==
  \A j \in Jobs :
    /\ pc[j] = "idle" <=> status[j] = "absent"
    /\ j \in table => pc[j] # "idle"
    /\ pc[j] = "closing" => status[j] \in Final
    /\ status[j] \in {"done", "failed"} => /\ completedAge[j] # NotSet
                                           /\ pc[j] \in {"closing", "end"}

(***************************************************************************)
(* There is a runner exactly where the goroutine of the job waits for one  *)
(* or has seen it exit.                                                    *)
(***************************************************************************)
RunnerFollowsGoroutine ==
  /\ \A j \in Agents :
       /\ pc[j] \in {"idle", "starting", "setup", "assigned", "failing"}
            => cmd[j] # "started" /\ proc[j] = "none"
       /\ pc[j] = "reaped" => proc[j] \in {"ok", "err"}
       /\ pc[j] \in {"closing", "end"} => proc[j] \in {"none", "ok", "err"}
  /\ \A j \in Generics : pc[j] \in {"idle", "tool", "end"} /\ proc[j] = "none"

(***************************************************************************)
(* A request that found its job has one; past CancelMarks that job has an  *)
(* outcome, which nothing resets.                                          *)
(***************************************************************************)
MarkedStaysFinal ==
  \A c \in Cancels :
    /\ cpc[c] \in Marked \cup {"found"} => target[c] \in Jobs /\ pc[target[c]] # "idle"
    /\ cpc[c] \in Marked => status[target[c]] \in Final

IInv == /\ TypeOK
        /\ DoneMeansFinal
        /\ OutcomeIsTrue
        /\ StatusFollowsGoroutine
        /\ RunnerFollowsGoroutine
        /\ MarkedStaysFinal

-----------------------------------------------------------------------------
(* What the repository says and the code does not keep *)

(***************************************************************************)
(* Done is closed at most once outside the HTTP handlers: "close Done if   *)
(* not already done" (agent_runner_tool.go:240).                           *)
(***************************************************************************)
NoDoubleClose == ~ crashed

(***************************************************************************)
(* Cancelling sends SIGTERM, and SIGKILL after five seconds                *)
(* (agent_runner_tool.go:224-225, job_handlers.go:11-13): once the request *)
(* has returned, the job's runner is dead, or has been killed.             *)
(***************************************************************************)
CancelStopsRunner ==
  \A c \in Cancels : cpc[c] = "returned" /\ target[c] # NoJob
                       => proc[target[c]] \notin {"alive", "termed"}

=============================================================================
