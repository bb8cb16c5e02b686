----------------------------- MODULE AgentPipeline -----------------------------
(***************************************************************************)
(* From an agent's runner to the platform (job_event_pusher.go on top of   *)
(* agent_runner_tool.go and job.go).  The runner writes events to a FIFO;  *)
(* the event pusher of its job scans them, pushes each into the job's ring *)
(* (which the platform polls) and offers it to a bounded queue; the        *)
(* deliverer posts the queue to a webhook.  When the stream ends, or the   *)
(* job fails before it had a runner, a terminal event is synthesized       *)
(* unless one was seen.                                                    *)
(*                                                                         *)
(* The jobs themselves are those of JobTable: its variables are declared   *)
(* here again, and its actions happen here with what they mean for the     *)
(* pipeline.                                                               *)
(***************************************************************************)
EXTENDS Integers, Sequences

CONSTANTS Agents, Cancels, EvictAfter, NoJob, Nobody,    \* as in JobTable
          MaxLines,     \* how many lines a runner writes (a bound)
          PipeCap,      \* how many lines the FIFO holds
          QueueCap,     \* deliveryQueueBuffer
          RingCap,      \* the capacity of an EventRing
          MaxAttempts,  \* len(backoffs) in deliverEvent
          NoLine        \* no event in a goroutine's hands

ASSUME IdsAreDistinct ==
  /\ Agents \cap Cancels = {}
  /\ NoJob \notin Agents
  /\ Nobody \notin Agents \cup Cancels
ASSUME EvictAfterIsNat == EvictAfter \in Nat
ASSUME BoundsAreNat == MaxLines \in Nat /\ PipeCap \in Nat /\ QueueCap \in Nat
ASSUME SomethingFits == RingCap \in Nat \ {0} /\ MaxAttempts \in Nat \ {0}

VARIABLES
  \* as in JobTable
  table, status, error, result, createdAge, completedAge, done, ring, cmd,
  pc, proc, cpc, target, mu, crashed,
  \* the runner's side of the FIFO
  fifo,       \* lines written and not scanned yet
  written,    \* how many lines the runner wrote or tried to
  silent,     \* whether the runner writes nothing more
  sentinel,   \* whether the server's own write end is open
  \* what the pusher adds to the Job
  events,     \* Job.Events, as BoundedLog describes it
  count,      \* Job.EventCount
  seen,       \* Job.TerminalEventSeen
  \* the pusher, and the synthesizer (part of the pusher, or started by failJob)
  ppc, spc,
  line,       \* the event one of them has in hand
  \* webhook delivery
  queue,
  inflight,   \* the event being posted
  attempts,   \* how often that failed
  drops,      \* State.WebhookDrops, per job
  posted,     \* events there was an attempt for: it arrived, or may arrive later
  webhookSet, \* whether PLATFORM_WEBHOOK_URL is set
  owed        \* history: events offered for delivery and not acknowledged so far

tableVars == <<table, status, error, result, createdAge, completedAge, done, ring, cmd,
               pc, proc, cpc, target, mu, crashed>>
runnerVars == <<fifo, written, silent, sentinel>>
jobVars == <<events, count, seen>>
pusherVars == <<ppc, spc, line>>
deliveryVars == <<queue, inflight, attempts, drops, posted, webhookSet, owed>>
pipeVars == <<runnerVars, jobVars, pusherVars, deliveryVars>>
vars == <<tableVars, pipeVars>>

Table == INSTANCE JobTable WITH Generics <- {}
Ring == INSTANCE BoundedLog WITH Event <- Nat, Cap <- RingCap, window <- events

-----------------------------------------------------------------------------
\* A line of the FIFO: the n-th the runner wrote.  "oversized" is longer than
\* maxEventLineBytes; "garbled" was cut short because its writer died.
Kinds == {"span", "terminal", "oversized", "garbled"}
SyntheticKinds == {"synthError", "synthCancelled"}
Event(n, k) == [seq |-> n, kind |-> k]
Events == [seq : 0 .. MaxLines + 1, kind : Kinds \cup SyntheticKinds]

ASSUME NoLineIsNoEvent == NoLine \notin Events

\* isTerminalEvent, for what the runner wrote and for what was synthesized.
IsTerminal(e) == e.kind \in {"terminal"} \cup SyntheticKinds

Exited(j) == proc[j] \in {"ok", "err"}
ReaderOpen(j) == ppc[j] \in {"scan", "have", "ringed", "offer"}

Init ==
  /\ Table!Init
  /\ fifo = [j \in Agents |-> <<>>]
  /\ written = [j \in Agents |-> 0]
  /\ silent = [j \in Agents |-> FALSE]
  /\ sentinel = [j \in Agents |-> FALSE]
  /\ events = [j \in Agents |-> <<>>]
  /\ count = [j \in Agents |-> 0]
  /\ seen = [j \in Agents |-> FALSE]
  /\ ppc = [j \in Agents |-> "none"]
  /\ spc = [j \in Agents |-> "none"]
  /\ line = [j \in Agents |-> NoLine]
  /\ queue = [j \in Agents |-> <<>>]
  /\ inflight = [j \in Agents |-> NoLine]
  /\ attempts = [j \in Agents |-> 0]
  /\ drops = [j \in Agents |-> 0]
  /\ posted = [j \in Agents |-> {}]
  /\ webhookSet \in BOOLEAN
  /\ owed = [j \in Agents |-> 0]

-----------------------------------------------------------------------------
(* The steps of JobTable that the pipeline takes part in *)

\* The FIFO has the server's two ends when the runner starts, and its pusher.
RunnerStarts(j) ==
  /\ Table!RunnerStarts(j)
  /\ sentinel' = [sentinel EXCEPT ![j] = TRUE]
  /\ ppc' = [ppc EXCEPT ![j] = "scan"]
  /\ UNCHANGED <<fifo, written, silent, jobVars, spc, line, deliveryVars>>

\* The waiter closes the server's write end once the runner is reaped.
WaitReturns(j) ==
  /\ Table!WaitReturns(j)
  /\ sentinel' = [sentinel EXCEPT ![j] = FALSE]
  /\ UNCHANGED <<fifo, written, silent, jobVars, pusherVars, deliveryVars>>

\* failJob leaves a goroutine behind that synthesizes the terminal event.
FailJob(j) ==
  /\ Table!FailJob(j)
  /\ spc' = [spc EXCEPT ![j] = "lookup"]
  /\ UNCHANGED <<runnerVars, jobVars, ppc, line, deliveryVars>>

\* All others leave the pipeline alone.
JobStep(j) ==
  \/ RunnerStarts(j) \/ WaitReturns(j) \/ FailJob(j)
  \/ /\ \/ Table!RejectArguments(j) \/ Table!AssignRing(j) \/ Table!SetupFails(j)
        \/ Table!AssignCmd(j) \/ Table!StartFails(j)
        \/ Table!WaiterRecords(j) \/ Table!WaiterCloses(j)
     /\ UNCHANGED pipeVars

CancelStep(c) == Table!CancelStep(c) /\ UNCHANGED pipeVars

RunnerExits(j, how) == Table!RunnerExits(j, how) /\ UNCHANGED pipeVars

Environment ==
  /\ \/ \E j \in Agents : Table!StartJob(j)
     \/ \E c \in Cancels, j \in Agents : Table!CancelFinds(c, j)
     \/ Table!Tick
     \/ Table!EvictOldJobs
  /\ UNCHANGED pipeVars

-----------------------------------------------------------------------------
(* The runner (outside the repository: what its process may do to the FIFO) *)

\* It writes a line, and nothing more after a terminal event, or after a line
\* it does not live to finish.  The write blocks while the FIFO is full, and
\* is lost (EPIPE) when nobody has the FIFO open for reading.
RunnerWrites(j, kind) ==
  /\ proc[j] \in {"alive", "termed"} /\ ~ silent[j]
  /\ written[j] < MaxLines
  /\ ReaderOpen(j) => Len(fifo[j]) < PipeCap
  /\ fifo' = IF ReaderOpen(j)
             THEN [fifo EXCEPT ![j] = Append(@, Event(written[j] + 1, kind))]
             ELSE fifo
  /\ written' = [written EXCEPT ![j] = @ + 1]
  /\ silent' = [silent EXCEPT ![j] = kind \in {"terminal", "garbled"}]
  /\ UNCHANGED <<tableVars, sentinel, jobVars, pusherVars, deliveryVars>>

-----------------------------------------------------------------------------
(* The pusher: scan a line, ring first, then offer it for delivery *)

\* The FIFO is at its end once its last writer is gone.
Eof(j) == ~ sentinel[j] /\ Exited(j)

\* A slip: events are posted before the next line is scanned (what wedged the
\* pusher in INC-2303).
ScanLineWhenDelivered(j) ==
  /\ ~ crashed /\ ppc[j] = "scan" /\ fifo[j] # <<>>
  /\ Head(fifo[j]).kind # "oversized"
  /\ Head(fifo[j]).kind = "garbled" => Eof(j)
  /\ queue[j] = <<>> /\ inflight[j] = NoLine
  /\ line' = [line EXCEPT ![j] = Head(fifo[j])]
  /\ fifo' = [fifo EXCEPT ![j] = Tail(@)]
  /\ ppc' = [ppc EXCEPT ![j] = "have"]
  /\ UNCHANGED <<tableVars, written, silent, sentinel, jobVars, spc, deliveryVars>>
\* A whole line is read at once; one without its newline only at the end.
ScanLine(j) ==
  /\ ~ crashed /\ ppc[j] = "scan" /\ fifo[j] # <<>>
  /\ Head(fifo[j]).kind # "oversized"
  /\ Head(fifo[j]).kind = "garbled" => Eof(j)
  /\ line' = [line EXCEPT ![j] = Head(fifo[j])]
  /\ fifo' = [fifo EXCEPT ![j] = Tail(@)]
  /\ ppc' = [ppc EXCEPT ![j] = "have"]
  /\ UNCHANGED <<tableVars, written, silent, sentinel, jobVars, spc, deliveryVars>>

\* A slip: an event the queue has no room for does not reach the ring either.
RingLineIfQueued(j) ==
  /\ ~ crashed /\ ppc[j] = "have" /\ mu = Nobody
  /\ IF j \in table /\ Len(queue[j]) < QueueCap
     THEN /\ count' = [count EXCEPT ![j] = @ + 1]
          /\ events' = [events EXCEPT ![j] = IF ring[j] THEN Ring!Remember(@, line[j]) ELSE @]
     ELSE UNCHANGED <<count, events>>
  /\ ppc' = [ppc EXCEPT ![j] = IF IsTerminal(line[j]) THEN "ringed" ELSE "offer"]
  /\ UNCHANGED <<tableVars, runnerVars, seen, spc, line, deliveryVars>>

\* The job is looked up, the event counted and pushed into its ring.  A job
\* that was evicted gets neither.
RingLine(j) ==
  /\ ~ crashed /\ ppc[j] = "have" /\ mu = Nobody
  /\ IF j \in table
     THEN /\ count' = [count EXCEPT ![j] = @ + 1]
          /\ events' = [events EXCEPT ![j] = IF ring[j] THEN Ring!Remember(@, line[j]) ELSE @]
     ELSE UNCHANGED <<count, events>>
  /\ ppc' = [ppc EXCEPT ![j] = IF IsTerminal(line[j]) THEN "ringed" ELSE "offer"]
  /\ UNCHANGED <<tableVars, runnerVars, seen, spc, line, deliveryVars>>

MarkTerminalEventSeen(j) ==
  /\ ~ crashed /\ ppc[j] = "ringed" /\ mu = Nobody
  /\ seen' = [seen EXCEPT ![j] = @ \/ j \in table]
  /\ ppc' = [ppc EXCEPT ![j] = "offer"]
  /\ UNCHANGED <<tableVars, runnerVars, events, count, spc, line, deliveryVars>>

\* Slips of the send to the queue: a full one swallows the event without counting
\* it, or takes every event.
EnqueueUncounted(j) ==
  /\ queue' = [queue EXCEPT ![j] = IF Len(@) < QueueCap THEN Append(@, line[j]) ELSE @]
  /\ owed' = [owed EXCEPT ![j] = @ + 1]
  /\ UNCHANGED <<drops, inflight, attempts, posted, webhookSet>>

EnqueueUnbounded(j) ==
  /\ queue' = [queue EXCEPT ![j] = Append(@, line[j])]
  /\ owed' = [owed EXCEPT ![j] = @ + 1]
  /\ UNCHANGED <<drops, inflight, attempts, posted, webhookSet>>

\* The event in hand goes to the queue, or is dropped: the pusher never waits.
Enqueue(j) ==
  /\ IF Len(queue[j]) < QueueCap
     THEN queue' = [queue EXCEPT ![j] = Append(@, line[j])] /\ UNCHANGED drops
     ELSE drops' = [drops EXCEPT ![j] = @ + 1] /\ UNCHANGED queue
  /\ owed' = [owed EXCEPT ![j] = @ + 1]
  /\ UNCHANGED <<inflight, attempts, posted, webhookSet>>

OfferLine(j) ==
  /\ ~ crashed /\ ppc[j] = "offer"
  /\ Enqueue(j)
  /\ line' = [line EXCEPT ![j] = NoLine]
  /\ ppc' = [ppc EXCEPT ![j] = "scan"]
  /\ UNCHANGED <<tableVars, runnerVars, jobVars, spc>>

\* A slip: no terminal event is synthesized when the scanner gives up.
StreamEndsQuietly(j) ==
  /\ ~ crashed /\ ppc[j] = "scan"
  /\ \/ fifo[j] = <<>> /\ Eof(j)
     \/ fifo[j] # <<>> /\ Head(fifo[j]).kind = "oversized"
  /\ fifo' = [fifo EXCEPT ![j] = <<>>]
  /\ ppc' = [ppc EXCEPT ![j] = "synth"]
  /\ spc' = [spc EXCEPT ![j] = IF fifo[j] = <<>> THEN "lookup" ELSE "end"]
  /\ UNCHANGED <<tableVars, written, silent, sentinel, jobVars, line, deliveryVars>>

\* The stream ends, or the scanner gives up on a line.  The reader is closed,
\* and what the FIFO still holds is lost with it.
StreamEnds(j) ==
  /\ ~ crashed /\ ppc[j] = "scan"
  /\ \/ fifo[j] = <<>> /\ Eof(j)
     \/ fifo[j] # <<>> /\ Head(fifo[j]).kind = "oversized"
  /\ fifo' = [fifo EXCEPT ![j] = <<>>]
  /\ ppc' = [ppc EXCEPT ![j] = "synth"]
  /\ spc' = [spc EXCEPT ![j] = "lookup"]
  /\ UNCHANGED <<tableVars, written, silent, sentinel, jobVars, line, deliveryVars>>

\* After the synthesis the queue is closed, and the deliverer waited for.
PusherEnds(j) ==
  /\ ~ crashed /\ ppc[j] = "synth" /\ spc[j] = "end"
  /\ queue[j] = <<>> /\ inflight[j] = NoLine
  /\ ppc' = [ppc EXCEPT ![j] = "end"]
  /\ UNCHANGED <<tableVars, runnerVars, jobVars, spc, line, deliveryVars>>

-----------------------------------------------------------------------------
(* synthesizeTerminalIfMissing *)

SynthLooksUp(j) ==
  /\ ~ crashed /\ spc[j] = "lookup" /\ mu = Nobody
  /\ spc' = [spc EXCEPT ![j] = IF j \in table THEN "await" ELSE "end"]
  /\ UNCHANGED <<tableVars, runnerVars, jobVars, ppc, line, deliveryVars>>

\* A slip: the synthesizer does not ask whether a terminal event was seen.
ClaimUnseen(j) ==
  /\ ~ crashed /\ spc[j] = "await" /\ done[j] /\ mu = Nobody
  /\ IF j \in table
     THEN seen' = [seen EXCEPT ![j] = TRUE] /\ spc' = [spc EXCEPT ![j] = "claimed"]
     ELSE spc' = [spc EXCEPT ![j] = "end"] /\ UNCHANGED seen
  /\ UNCHANGED <<tableVars, runnerVars, events, count, ppc, line, deliveryVars>>

\* Once Done is closed: claimTerminalSynthesis.
ClaimTerminalSynthesis(j) ==
  /\ ~ crashed /\ spc[j] = "await" /\ done[j] /\ mu = Nobody
  /\ IF j \in table /\ ~ seen[j]
     THEN seen' = [seen EXCEPT ![j] = TRUE] /\ spc' = [spc EXCEPT ![j] = "claimed"]
     ELSE spc' = [spc EXCEPT ![j] = "end"] /\ UNCHANGED seen
  /\ UNCHANGED <<tableVars, runnerVars, events, count, ppc, line, deliveryVars>>

\* A slip: the synthetic event does not get a number of its own.
SynthRepeatsSeq(j) ==
  LET e == Event(count[j], IF status[j] = "cancelled" THEN "synthCancelled" ELSE "synthError")
  IN  /\ ~ crashed /\ spc[j] = "claimed" /\ mu = Nobody
      /\ events' = [events EXCEPT ![j] = IF ring[j] THEN Ring!Remember(@, e) ELSE @]
      /\ line' = [line EXCEPT ![j] = e]
      /\ spc' = [spc EXCEPT ![j] = "hand"]
      /\ UNCHANGED <<tableVars, runnerVars, count, seen, ppc, deliveryVars>>

\* The status is read (again under the lock), and decides the event.
SynthPushes(j) ==
  LET e == Event(count[j] + 1,
                 IF status[j] = "cancelled" THEN "synthCancelled" ELSE "synthError")
  IN  /\ ~ crashed /\ spc[j] = "claimed" /\ mu = Nobody
      /\ count' = [count EXCEPT ![j] = @ + 1]
      /\ events' = [events EXCEPT ![j] = IF ring[j] THEN Ring!Remember(@, e) ELSE @]
      /\ line' = [line EXCEPT ![j] = e]
      /\ spc' = [spc EXCEPT ![j] = "hand"]
      /\ UNCHANGED <<tableVars, runnerVars, seen, ppc, deliveryVars>>

\* The pusher's copy rides its queue; failJob's, which has none, is posted here.
SynthHandsOver(j) ==
  /\ ~ crashed /\ spc[j] = "hand"
  /\ IF ppc[j] # "none"
     THEN Enqueue(j)
     ELSE /\ inflight' = [inflight EXCEPT ![j] = line[j]]
          /\ attempts' = [attempts EXCEPT ![j] = 0]
          /\ owed' = [owed EXCEPT ![j] = @ + 1]
          /\ UNCHANGED <<queue, drops, posted, webhookSet>>
  /\ line' = [line EXCEPT ![j] = NoLine]
  /\ spc' = [spc EXCEPT ![j] = "end"]
  /\ UNCHANGED <<tableVars, runnerVars, jobVars, ppc>>

-----------------------------------------------------------------------------
(* The deliverer *)

TakeEvent(j) ==
  /\ ~ crashed /\ inflight[j] = NoLine /\ queue[j] # <<>>
  /\ inflight' = [inflight EXCEPT ![j] = Head(queue[j])]
  /\ queue' = [queue EXCEPT ![j] = Tail(@)]
  /\ attempts' = [attempts EXCEPT ![j] = 0]
  /\ UNCHANGED <<tableVars, runnerVars, jobVars, pusherVars,
                 drops, posted, webhookSet, owed>>

\* deliverEvent without a URL.
DropUnsent(j) ==
  /\ ~ crashed /\ inflight[j] # NoLine /\ ~ webhookSet
  /\ drops' = [drops EXCEPT ![j] = @ + 1]
  /\ inflight' = [inflight EXCEPT ![j] = NoLine]
  /\ UNCHANGED <<tableVars, runnerVars, jobVars, pusherVars,
                 queue, attempts, posted, webhookSet, owed>>

(***************************************************************************)
(* One postEvent.  Its request arrives at the platform at any moment from  *)
(* now on, if at all: in time, or when it was given up and the next        *)
(* attempt, or other events, have been there before.  What there was an    *)
(* attempt for stays in `posted`, and any of it may arrive next.           *)
(***************************************************************************)
Posts(j) ==
  /\ ~ crashed /\ inflight[j] # NoLine /\ webhookSet
  /\ posted' = [posted EXCEPT ![j] = @ \cup {inflight[j]}]

\* A 2xx comes back.
PostSucceeds(j) ==
  /\ Posts(j)
  /\ owed' = [owed EXCEPT ![j] = @ - 1]
  /\ inflight' = [inflight EXCEPT ![j] = NoLine]
  /\ UNCHANGED <<tableVars, runnerVars, jobVars, pusherVars,
                 queue, attempts, drops, webhookSet>>

\* A slip: the event goes to the back of the queue for its next attempt.
PostFailsToBack(j) ==
  /\ Posts(j)
  /\ queue' = [queue EXCEPT ![j] = Append(@, inflight[j])]
  /\ inflight' = [inflight EXCEPT ![j] = NoLine]
  /\ UNCHANGED <<tableVars, runnerVars, jobVars, pusherVars,
                 attempts, drops, webhookSet, owed>>

\* Another status comes back, an error, or nothing within postEventTimeout: the
\* attempt is given up, wherever its request is by then.
PostFails(j) ==
  /\ Posts(j)
  /\ IF attempts[j] + 1 < MaxAttempts
     THEN attempts' = [attempts EXCEPT ![j] = @ + 1] /\ UNCHANGED <<inflight, drops>>
     ELSE /\ inflight' = [inflight EXCEPT ![j] = NoLine]
          /\ drops' = [drops EXCEPT ![j] = @ + 1]
          /\ UNCHANGED attempts
  /\ UNCHANGED <<tableVars, runnerVars, jobVars, pusherVars, queue, webhookSet, owed>>

-----------------------------------------------------------------------------
PusherStep(j) ==
  \/ ScanLine(j) \/ RingLine(j) \/ MarkTerminalEventSeen(j) \/ OfferLine(j)
  \/ StreamEnds(j) \/ PusherEnds(j)

SynthStep(j) ==
  \/ SynthLooksUp(j) \/ ClaimTerminalSynthesis(j) \/ SynthPushes(j) \/ SynthHandsOver(j)

DeliveryStep(j) ==
  TakeEvent(j) \/ DropUnsent(j) \/ PostSucceeds(j) \/ PostFails(j)

Next ==
  \/ Environment
  \/ \E c \in Cancels : CancelStep(c)
  \/ \E j \in Agents, how \in {"ok", "err"} : RunnerExits(j, how)
  \/ \E j \in Agents, kind \in Kinds : RunnerWrites(j, kind)
  \/ \E j \in Agents : JobStep(j) \/ PusherStep(j) \/ SynthStep(j) \/ DeliveryStep(j)

Spec == Init /\ [][Next]_vars

(***************************************************************************)
(* Every goroutine of the server that can go on does.  Nothing is assumed  *)
(* of the webhook: DeliveryStep has no fairness, so a POST may hang for    *)
(* ever.  Nothing is assumed of the runner either, except that it dies     *)
(* when killed; the evictor need not run.  (A job has a pusher, which does *)
(* the synthesis itself, or the synthesizer of failJob: one goroutine.)    *)
(***************************************************************************)
Fairness ==
  /\ \A j \in Agents : /\ WF_vars(JobStep(j))
                       /\ WF_vars(PusherStep(j) \/ SynthStep(j))
                       /\ WF_vars(proc[j] = "killed" /\ RunnerExits(j, "err"))
  /\ \A c \in Cancels : WF_vars(CancelStep(c))

FairSpec == Spec /\ Fairness

-----------------------------------------------------------------------------
\* The events GET /jobs/{id}/events answers with: the ring, unless one of its
\* entries is no JSON, in which case the encoder fails and nothing is sent.
Encodable(j) == \A i \in DOMAIN events[j] : events[j][i].kind # "garbled"
PollAnswer(j) == IF j \in table /\ Encodable(j) THEN events[j] ELSE <<>>

HasTerminal(es) == \E i \in DOMAIN es : IsTerminal(es[i])

Entries(es) == {es[i] : i \in DOMAIN es}
InFlight(j) == {inflight[j]} \ {NoLine}

-----------------------------------------------------------------------------
(***************************************************************************)
(* Type invariant.                                                         *)
(***************************************************************************)
PipelineTypeOK ==
  /\ \A j \in Agents :
       /\ fifo[j] \in Seq(Events) /\ Len(fifo[j]) <= PipeCap
       /\ written[j] \in 0 .. MaxLines
       /\ silent[j] \in BOOLEAN /\ sentinel[j] \in BOOLEAN
       /\ events[j] \in Seq(Events) /\ Len(events[j]) <= RingCap
       /\ count[j] \in 0 .. MaxLines + 1
       /\ seen[j] \in BOOLEAN
       /\ ppc[j] \in {"none", "scan", "have", "ringed", "offer", "synth", "end"}
       /\ spc[j] \in {"none", "lookup", "await", "claimed", "hand", "end"}
       /\ line[j] \in Events \cup {NoLine}
       /\ queue[j] \in Seq(Events) /\ Len(queue[j]) <= QueueCap
       /\ inflight[j] \in Events \cup {NoLine}
       /\ attempts[j] \in 0 .. MaxAttempts - 1
       /\ posted[j] \subseteq Events
       /\ drops[j] \in Nat /\ owed[j] \in Nat
  /\ webhookSet \in BOOLEAN

TypeOK == Table!TypeOK /\ PipelineTypeOK

(***************************************************************************)
(* A job gets one terminal event: one is synthesized only if the runner's  *)
(* own did not reach the ring, and only once (claimTerminalSynthesis).     *)
(***************************************************************************)
AtMostOneTerminal ==
  \A j \in Agents : \A i, k \in DOMAIN events[j] :
    IsTerminal(events[j][i]) /\ IsTerminal(events[j][k]) => i = k

(***************************************************************************)
(* The numbers in a ring increase: a synthetic terminal event sorts after  *)
(* every real event in it (job.go:61-63), however many lines were lost.     *)
(***************************************************************************)
RingIsOrdered ==
  \A j \in Agents : \A i, k \in DOMAIN events[j] :
    i < k => events[j][i].seq < events[j][k].seq

(***************************************************************************)
(* "The poll path must see everything delivery sees" (job_event_pusher.go: *)
(* 97-98): whatever is queued for the webhook or was posted to it is in    *)
(* the ring of a listed job, unless the ring has already forgotten it.     *)
(***************************************************************************)
PollSeesWhatDeliverySees ==
  \A j \in Agents : j \in table /\ ring[j] =>
    \A e \in Entries(queue[j]) \cup InFlight(j) \cup posted[j] :
      \/ e \in Entries(events[j])
      \/ Len(events[j]) = RingCap /\ e.seq < Head(events[j]).seq

(***************************************************************************)
(* No event gets lost on the webhook path without being counted: each one  *)
(* offered is acknowledged, dropped and counted in WebhookDrops, or still  *)
(* on its way.                                                             *)
(***************************************************************************)
EveryEventIsAccountedFor ==
  \A j \in Agents :
    owed[j] = drops[j] + Len(queue[j]) + (IF inflight[j] = NoLine THEN 0 ELSE 1)

(***************************************************************************)
(* One deliverer finishes an event before it takes the next: however often *)
(* attempts fail and are repeated, no event reaches the platform before    *)
(* those before it were acknowledged or given up.  (Then it may reach it   *)
(* late, or twice: whatever comes out of order is an older event, of which *)
(* an attempt was given up.)                                               *)
(***************************************************************************)
NothingOvertakes ==
  \A j \in Agents : \A e \in posted[j] :
    /\ \A f \in Entries(queue[j]) : e.seq < f.seq
    /\ \A f \in InFlight(j) : e.seq <= f.seq

(***************************************************************************)
(* Whoever reads agent.cancelled in a synthetic event can rely on it: the  *)
(* job's status says the same from then on, although it is decided under   *)
(* another hold of the lock than the claim.                                *)
(***************************************************************************)
CancelledEventIsTrue ==
  \A j \in Agents : \A e \in Entries(events[j]) \cup posted[j] :
    e.kind = "synthCancelled" => status[j] = "cancelled"

(***************************************************************************)
(* "A slow or wedged POST can never stop the FIFO from draining"           *)
(* (job_event_pusher.go:64-67): a runner never waits for ever to write.    *)
(***************************************************************************)
FifoDrains ==
  \A j \in Agents : (Len(fifo[j]) = PipeCap /\ ~ silent[j])
                      ~> (Len(fifo[j]) < PipeCap \/ Table!Stuck)

(***************************************************************************)
(* "The whole point of synthesis is to put a terminal event where the      *)
(* platform poll loop can see it" (job_event_pusher.go:131-134).  When the *)
(* goroutine of an agent job that got a ring is through, a terminal event  *)
(* gets into that ring, whatever the runner wrote or did not write and     *)
(* even if no POST ever returns, unless the evictor was quicker; and polls *)
(* see it, unless a line in the ring cannot be encoded.                    *)
(***************************************************************************)
TerminalReachesPoll ==
  \A j \in Agents :
    (pc[j] = "end" /\ ring[j])
      ~> (\/ HasTerminal(PollAnswer(j))
          \/ HasTerminal(events[j]) /\ ~ Encodable(j)
          \/ j \notin table
          \/ Table!Stuck)

=============================================================================
