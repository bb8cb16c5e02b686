-------------------------- MODULE AgentPipelineProofs --------------------------
(***************************************************************************)
(* Proofs about AgentPipeline, for any number of jobs, of lines, and any   *)
(* sizes of the FIFO, the queue and the ring: what gets into a job's ring  *)
(* and to the platform is in order, complete, and ends in one terminal     *)
(* event that tells the truth.                                             *)
(***************************************************************************)
EXTENDS AgentPipeline, TLAPS

-----------------------------------------------------------------------------
(* The inductive invariant *)

\* Where the goroutine of a job is before it has a runner or gives up on one.
Early == {"idle", "tool", "starting", "setup", "assigned", "failing"}

\* What the pipeline relies on in JobTable.
TableInv ==
  /\ table \subseteq Agents
  /\ pc \in [Agents -> Table!JobPCs]
  /\ proc \in [Agents -> Table!ProcStates]
  /\ ring \in [Agents -> BOOLEAN]
  /\ status \in [Agents -> {"absent", "running", "done", "failed", "cancelled"}]
  /\ \A j \in Agents : pc[j] \in Early => proc[j] = "none"

PipeTypes ==
  /\ fifo \in [Agents -> Seq(Events)] /\ written \in [Agents -> 0 .. MaxLines]
  /\ silent \in [Agents -> BOOLEAN] /\ sentinel \in [Agents -> BOOLEAN]
  /\ events \in [Agents -> Seq(Events)] /\ count \in [Agents -> 0 .. MaxLines + 1]
  /\ seen \in [Agents -> BOOLEAN]
  /\ ppc \in [Agents -> {"none", "scan", "have", "ringed", "offer", "synth", "end"}]
  /\ spc \in [Agents -> {"none", "lookup", "await", "claimed", "hand", "end"}]
  /\ line \in [Agents -> Events \cup {NoLine}]
  /\ queue \in [Agents -> Seq(Events)]
  /\ inflight \in [Agents -> Events \cup {NoLine}]
  /\ attempts \in [Agents -> 0 .. MaxAttempts - 1]
  /\ posted \in [Agents -> SUBSET Events]
  /\ drops \in [Agents -> Nat] /\ owed \in [Agents -> Nat]
  /\ webhookSet \in BOOLEAN

\* Who has an event in hand: the pusher, or one of the two.
Handling(j) == ppc[j] \in {"have", "ringed", "offer"}
Holding(j) == Handling(j) \/ spc[j] = "hand"

\* Nothing gets into the ring any more.
Over(j) == spc[j] \in {"hand", "end"}

\* How many lines have left the FIFO.
Scanned(j) == written[j] - Len(fifo[j])

\* What delivery sees.
Sent(j) == Entries(queue[j]) \cup InFlight(j) \cup posted[j]

Bounded(j) == /\ Len(fifo[j]) <= PipeCap
              /\ Len(events[j]) <= RingCap
              /\ Len(queue[j]) <= QueueCap

\* Nothing happens before there is a runner; the synthesizer starts when the
\* pusher is through, or where there never was one.
Stages(j) ==
  /\ pc[j] \in Early => proc[j] = "none" /\ written[j] = 0 /\ ppc[j] = "none" /\ spc[j] = "none"
  /\ ~ ReaderOpen(j) => fifo[j] = <<>>
  /\ ppc[j] = "none" /\ spc[j] # "end"
       => queue[j] = <<>> /\ inflight[j] = NoLine /\ posted[j] = {}
  /\ ppc[j] = "none" /\ ~ Over(j) => events[j] = <<>> /\ count[j] = 0
  /\ ReaderOpen(j) <=> ppc[j] # "none" /\ spc[j] = "none"
  /\ line[j] # NoLine <=> Holding(j)

\* Lines are numbered as they were written, and a listed job counts every one of
\* them that went into its ring.
Numbers(j) ==
  /\ Len(fifo[j]) <= written[j]
  /\ \A i \in DOMAIN fifo[j] : fifo[j][i].seq = Scanned(j) + i
  /\ Handling(j) => line[j].seq = Scanned(j)
  /\ ~ Over(j) => count[j] <= Scanned(j)
  /\ ReaderOpen(j) /\ j \in table
       => count[j] = IF ppc[j] = "have" THEN Scanned(j) - 1 ELSE Scanned(j)

Increasing(es) == \A i, k \in DOMAIN es : i < k => es[i].seq < es[k].seq

RingOrder(j) ==
  /\ Increasing(events[j])
  /\ \A i \in DOMAIN events[j] : events[j][i].seq <= count[j]

DeliveryOrder(j) ==
  /\ Increasing(queue[j])
  /\ inflight[j] # NoLine => \A e \in Entries(queue[j]) : inflight[j].seq < e.seq
  /\ \A e \in posted[j], f \in Entries(queue[j]) : e.seq < f.seq
  /\ inflight[j] # NoLine => \A e \in posted[j] : e.seq <= inflight[j].seq

\* Whatever comes next has a greater number than all that was sent.
SentBefore(j) ==
  \A e \in Sent(j) : /\ Holding(j) => e.seq < line[j].seq
                     /\ ReaderOpen(j) => e.seq <= Scanned(j)
                     /\ (j \in table /\ ~ Over(j)) \/ spc[j] = "claimed" => e.seq <= count[j]

\* Behind the runner's terminal event there is nothing; while its job is listed
\* it is marked as seen before anybody can ask.
OneTerminal(j) ==
  /\ \A i, k \in DOMAIN events[j] :
       IsTerminal(events[j][i]) /\ IsTerminal(events[j][k]) => i = k
  /\ \A i \in DOMAIN fifo[j] : IsTerminal(fifo[j][i]) => silent[j] /\ i = Len(fifo[j])
  /\ Handling(j) /\ IsTerminal(line[j]) => silent[j] /\ fifo[j] = <<>>
  /\ HasTerminal(events[j]) /\ ~ Over(j)
       => /\ silent[j] /\ fifo[j] = <<>>
          /\ ppc[j] # "have" /\ spc[j] # "claimed"
          /\ ppc[j] = "ringed" \/ seen[j] \/ j \notin table

InRing(j, e) == \/ e \in Entries(events[j])
                \/ Len(events[j]) = RingCap /\ e.seq < Head(events[j]).seq

Polled(j) ==
  j \in table /\ ring[j] =>
    /\ \A e \in Sent(j) : InRing(j, e)
    /\ ppc[j] \in {"ringed", "offer"} \/ spc[j] = "hand" => InRing(j, line[j])

\* A runner does not write synthetic events.
Truthful(j) ==
  /\ \A i \in DOMAIN fifo[j] : fifo[j][i].kind \in Kinds
  /\ \A e \in Entries(events[j]) \cup Sent(j) \cup ({line[j]} \ {NoLine}) :
       e.kind = "synthCancelled" => status[j] = "cancelled"

Accounted(j) ==
  owed[j] = drops[j] + Len(queue[j]) + (IF inflight[j] = NoLine THEN 0 ELSE 1)

JobInv(j) ==
  /\ Bounded(j) /\ Stages(j) /\ Numbers(j) /\ RingOrder(j) /\ DeliveryOrder(j)
  /\ SentBefore(j) /\ OneTerminal(j) /\ Polled(j) /\ Truthful(j) /\ Accounted(j)

IInv == TableInv /\ PipeTypes /\ \A j \in Agents : JobInv(j)

-----------------------------------------------------------------------------
(* Sequences of events *)

LEMMA AppendFacts ==
  ASSUME NEW q \in Seq(Events), NEW e \in Events
  PROVE  /\ Append(q, e) \in Seq(Events)
         /\ Len(Append(q, e)) = Len(q) + 1
         /\ DOMAIN Append(q, e) = 1 .. Len(q) + 1
         /\ DOMAIN q = 1 .. Len(q) /\ Len(q) \in Nat
         /\ \A i \in 1 .. Len(q) : Append(q, e)[i] = q[i]
         /\ Append(q, e)[Len(q) + 1] = e
         /\ Entries(Append(q, e)) = Entries(q) \cup {e}
  BY DEF Entries

LEMMA TailFacts ==
  ASSUME NEW q \in Seq(Events), q # <<>>
  PROVE  /\ Tail(q) \in Seq(Events)
         /\ Len(Tail(q)) = Len(q) - 1
         /\ DOMAIN Tail(q) = 1 .. Len(q) - 1
         /\ DOMAIN q = 1 .. Len(q) /\ Len(q) \in Nat \ {0}
         /\ \A i \in 1 .. Len(q) - 1 : Tail(q)[i] = q[i + 1]
         /\ Head(q) = q[1] /\ q[1] \in Events
         /\ Entries(q) = {q[1]} \cup Entries(Tail(q))
<1>1. /\ Tail(q) \in Seq(Events)
      /\ Len(Tail(q)) = Len(q) - 1
      /\ DOMAIN Tail(q) = 1 .. Len(q) - 1
      /\ DOMAIN q = 1 .. Len(q) /\ Len(q) \in Nat \ {0}
      /\ \A i \in 1 .. Len(q) - 1 : Tail(q)[i] = q[i + 1]
      /\ Head(q) = q[1] /\ q[1] \in Events
  OBVIOUS
<1>2. \A i \in DOMAIN q : i = 1 \/ (i - 1 \in 1 .. Len(q) - 1 /\ Tail(q)[i - 1] = q[i])
  BY <1>1
<1>3. \A i \in DOMAIN Tail(q) : i + 1 \in DOMAIN q /\ Tail(q)[i] = q[i + 1]
  BY <1>1
<1>4. 1 \in DOMAIN q /\ \A i \in 1 .. Len(q) - 1 : i \in DOMAIN Tail(q)
  BY <1>1
<1>5. ASSUME NEW x \in Entries(q) PROVE x \in {q[1]} \cup Entries(Tail(q))
  BY <1>2, <1>4 DEF Entries
<1>6. ASSUME NEW x \in {q[1]} \cup Entries(Tail(q)) PROVE x \in Entries(q)
  BY <1>3, <1>4 DEF Entries
<1>7. Entries(q) = {q[1]} \cup Entries(Tail(q))
  BY <1>5, <1>6
<1> QED BY <1>1, <1>7

\* What a ring holds after a push: the new event is its last, and what it has
\* forgotten was its first.
LEMMA RememberFacts ==
  ASSUME NEW q \in Seq(Events), Len(q) <= RingCap, NEW e \in Events
  PROVE  \E d \in {0, 1} :
           /\ Ring!Remember(q, e) \in Seq(Events)
           /\ Len(Ring!Remember(q, e)) = Len(q) + 1 - d
           /\ Len(q) + 1 - d <= RingCap
           /\ d = 1 => Len(q) = RingCap
           /\ \A i \in 1 .. Len(q) - d : Ring!Remember(q, e)[i] = q[i + d]
           /\ Ring!Remember(q, e)[Len(q) + 1 - d] = e
<1> USE SomethingFits
<1>1. CASE Len(q) + 1 > RingCap
  <2>1. Append(q, e) \in Seq(Events) /\ Append(q, e) # <<>> /\ Len(Append(q, e)) = Len(q) + 1
    BY AppendFacts
  <2>2. /\ Tail(Append(q, e)) \in Seq(Events)
        /\ Len(Tail(Append(q, e))) = Len(q)
        /\ \A i \in 1 .. Len(q) : Tail(Append(q, e))[i] = Append(q, e)[i + 1]
    BY <2>1, TailFacts
  <2>3. Ring!Remember(q, e) = Tail(Append(q, e))
    BY <1>1, <2>1 DEF Ring!Remember
  <2>4. Len(q) = RingCap /\ Len(q) \in Nat \ {0}
    BY <1>1, AppendFacts
  <2>5. \A i \in 1 .. Len(q) - 1 : Tail(Append(q, e))[i] = q[i + 1]
    BY <2>2, <2>4, AppendFacts
  <2>6. Tail(Append(q, e))[Len(q)] = e
    BY <2>2, <2>4, AppendFacts
  <2> WITNESS 1 \in {0, 1}
  <2> QED BY <2>2, <2>3, <2>4, <2>5, <2>6
<1>2. CASE ~ (Len(q) + 1 > RingCap)
  <2>1. Ring!Remember(q, e) = Append(q, e)
    BY <1>2, AppendFacts DEF Ring!Remember
  <2>2. Len(q) \in Nat
    BY AppendFacts
  <2> WITNESS 0 \in {0, 1}
  <2> QED BY <1>2, <2>1, <2>2, AppendFacts
<1> QED BY <1>1, <1>2

LEMMA RememberContents ==
  ASSUME NEW q \in Seq(Events), Len(q) <= RingCap, NEW e \in Events, NEW r,
         r = Ring!Remember(q, e)
  PROVE  /\ r \in Seq(Events) /\ Len(r) <= RingCap /\ r # <<>>
         /\ DOMAIN r = 1 .. Len(r) /\ Len(r) \in Nat \ {0}
         /\ e \in Entries(r)
         /\ Entries(r) \subseteq Entries(q) \cup {e}
         /\ r[Len(r)] = e
         /\ \A i \in 1 .. Len(r) - 1 : r[i] \in Entries(q)
<1>1. PICK d \in {0, 1} : /\ r \in Seq(Events)
                          /\ Len(r) = Len(q) + 1 - d
                          /\ Len(q) + 1 - d <= RingCap
                          /\ d = 1 => Len(q) = RingCap
                          /\ \A i \in 1 .. Len(q) - d : r[i] = q[i + d]
                          /\ r[Len(q) + 1 - d] = e
  BY RememberFacts
<1>2. Len(q) \in Nat /\ DOMAIN q = 1 .. Len(q) /\ DOMAIN r = 1 .. Len(r)
  BY <1>1
<1>3. Len(r) \in Nat \ {0} /\ r[Len(r)] = e
  <2>1. Len(r) \in Nat
    BY <1>1
  <2>2. Len(r) # 0
    <3>1. CASE d = 0
      BY <1>1, <1>2, <3>1
    <3>2. CASE d = 1
      <4>1. Len(q) = RingCap /\ Len(r) = Len(q)
        BY <1>1, <1>2, <3>2
      <4> QED BY <4>1, SomethingFits
    <3> QED BY <3>1, <3>2
  <2>3. r[Len(r)] = e
    BY <1>1
  <2> QED BY <2>1, <2>2, <2>3
<1>4. \A i \in 1 .. Len(r) - 1 : r[i] \in Entries(q)
  <2> SUFFICES ASSUME NEW i \in 1 .. Len(r) - 1 PROVE r[i] \in Entries(q)
    OBVIOUS
  <2>1. i \in 1 .. Len(q) - d /\ i + d \in DOMAIN q
    BY <1>1, <1>2
  <2> QED BY <1>1, <2>1 DEF Entries
<1>5. \A i \in DOMAIN r : i = Len(r) \/ i \in 1 .. Len(r) - 1
  BY <1>2, <1>3
<1>6. Len(r) \in DOMAIN r /\ e \in Entries(r)
  BY <1>2, <1>3 DEF Entries
<1>7. Entries(r) \subseteq Entries(q) \cup {e}
  <2> SUFFICES ASSUME NEW i \in DOMAIN r PROVE r[i] \in Entries(q) \cup {e}
    BY DEF Entries
  <2> QED BY <1>3, <1>4, <1>5
<1>8. Len(r) <= RingCap /\ r # <<>>
  BY <1>1, <1>3
<1> QED BY <1>1, <1>2, <1>3, <1>4, <1>6, <1>7, <1>8

LEMMA RememberOrder ==
  ASSUME NEW q \in Seq(Events), Len(q) <= RingCap, NEW e \in Events, NEW r,
         r = Ring!Remember(q, e), Increasing(q), \A x \in Entries(q) : x.seq < e.seq
  PROVE  /\ Increasing(r)
         /\ \A x \in Entries(q) : x \in Entries(r) \/ (Len(r) = RingCap /\ x.seq < Head(r).seq)
         /\ \A x \in Events : Len(q) = RingCap /\ x.seq < Head(q).seq
                                => Len(r) = RingCap /\ x.seq < Head(r).seq
<1>1. PICK d \in {0, 1} : /\ r \in Seq(Events)
                          /\ Len(r) = Len(q) + 1 - d
                          /\ Len(q) + 1 - d <= RingCap
                          /\ d = 1 => Len(q) = RingCap
                          /\ \A i \in 1 .. Len(q) - d : r[i] = q[i + d]
                          /\ r[Len(q) + 1 - d] = e
  BY RememberFacts
<1>2. Len(q) \in Nat /\ DOMAIN q = 1 .. Len(q) /\ DOMAIN r = 1 .. Len(r) /\ Len(r) \in Nat
  BY <1>1
<1>3. e.seq \in Nat /\ \A i \in DOMAIN q : q[i].seq \in Nat /\ q[i] \in Entries(q)
  <2>1. \A x \in Events : x.seq \in Nat
    BY BoundsAreNat DEF Events
  <2>2. \A i \in DOMAIN q : q[i] \in Events /\ q[i] \in Entries(q)
    BY <1>2 DEF Entries
  <2> QED BY <2>1, <2>2
<1>4. Increasing(r)
  <2> SUFFICES ASSUME NEW i \in DOMAIN r, NEW k \in DOMAIN r, i < k PROVE r[i].seq < r[k].seq
    BY DEF Increasing
  <2>1. i \in 1 .. Len(q) - d /\ i + d \in DOMAIN q /\ r[i] = q[i + d]
    BY <1>1, <1>2
  <2>2. CASE k = Len(q) + 1 - d
    BY <1>1, <1>3, <2>1, <2>2
  <2>3. CASE k # Len(q) + 1 - d
    <3>1. k \in 1 .. Len(q) - d /\ k + d \in DOMAIN q
      BY <1>1, <1>2, <2>3
    <3>2. r[k] = q[k + d]
      BY <1>1, <3>1
    <3>3. i + d < k + d
      BY <1>2
    <3> QED BY <2>1, <3>1, <3>2, <3>3 DEF Increasing
  <2> QED BY <2>2, <2>3
<1>5. d = 1 => Len(r) = RingCap /\ RingCap \in Nat \ {0}
  BY <1>1, <1>2, SomethingFits
<1>6. d = 1 => q[1].seq < Head(r).seq
  <2> SUFFICES ASSUME d = 1 PROVE q[1].seq < Head(r).seq
    OBVIOUS
  <2>1. Head(r) = r[1] /\ 1 \in DOMAIN q
    BY <1>1, <1>2, <1>5
  <2>2. CASE Len(q) = 1
    BY <1>1, <1>3, <2>1, <2>2
  <2>3. CASE Len(q) # 1
    <3>1. 2 \in DOMAIN q /\ r[1] = q[2]
      BY <1>1, <1>2, <1>5, <2>3
    <3> QED BY <2>1, <3>1 DEF Increasing
  <2> QED BY <2>2, <2>3
<1>7. ASSUME NEW x \in Entries(q)
      PROVE  x \in Entries(r) \/ (Len(r) = RingCap /\ x.seq < Head(r).seq)
  <2>1. PICK i \in DOMAIN q : x = q[i]
    BY DEF Entries
  <2>2. CASE i - d \in 1 .. Len(q) - d
    <3>1. i - d \in DOMAIN r /\ r[i - d] = q[(i - d) + d] /\ (i - d) + d = i
      BY <1>1, <1>2, <2>2
    <3> QED BY <2>1, <3>1 DEF Entries
  <2>3. CASE i - d \notin 1 .. Len(q) - d
    <3>1. d = 1 /\ i = 1
      BY <1>1, <1>2, <2>3
    <3> QED BY <1>5, <1>6, <2>1, <3>1
  <2> QED BY <2>2, <2>3
<1>8. ASSUME NEW x \in Events, Len(q) = RingCap, x.seq < Head(q).seq
      PROVE  Len(r) = RingCap /\ x.seq < Head(r).seq
  <2>1. d = 1
    BY <1>1, <1>2, <1>8
  <2>2. Len(q) # 0 /\ Head(q) = q[1] /\ 1 \in DOMAIN q
    BY <1>2, <1>5, <1>8, <2>1
  <2>3. r # <<>> /\ Head(r) = r[1] /\ r[1] \in Events
    BY <1>1, <1>2, <1>5, <2>1
  <2>4. x.seq \in Nat /\ q[1].seq \in Nat /\ Head(r).seq \in Nat
    BY <1>3, <2>2, <2>3, BoundsAreNat DEF Events
  <2> QED BY <1>5, <1>6, <1>8, <2>1, <2>2, <2>4
<1> QED BY <1>4, <1>7, <1>8

-----------------------------------------------------------------------------
(* The jobs: what the steps of JobTable do to what the pipeline relies on *)

\* A job that has left the early stages never returns to them or to the table,
\* keeps its ring, and stays cancelled once it is.
TableKeeps(j) ==
  /\ pc'[j] \in Early => pc[j] \in Early
  /\ j \in table' => j \in table \/ pc[j] \in Early
  /\ pc[j] \notin Early => /\ ring'[j] = ring[j]
                           /\ status[j] = "cancelled" => status'[j] = "cancelled"

LEMMA TableStep ==
  ASSUME TableInv, [Table!Next]_tableVars
  PROVE  TableInv' /\ \A j \in Agents : TableKeeps(j)
<1> USE DEF TableInv, TableKeeps, Early, Table!JobPCs, Table!ProcStates, Table!Jobs, Table!fields
<1>1. ASSUME NEW j \in Agents, Table!StartJob(j)
      PROVE  TableInv' /\ \A i \in Agents : TableKeeps(i)
  BY <1>1 DEF Table!StartJob
<1>2. ASSUME NEW j \in Agents, Table!AgentStep(j)
      PROVE  TableInv' /\ \A i \in Agents : TableKeeps(i)
  <2>1. CASE Table!RejectArguments(j)
    BY <2>1 DEF Table!RejectArguments
  <2>2. CASE Table!AssignRing(j)
    BY <2>2 DEF Table!AssignRing
  <2>3. CASE Table!SetupFails(j)
    BY <2>3 DEF Table!SetupFails
  <2>4. CASE Table!AssignCmd(j)
    BY <2>4 DEF Table!AssignCmd
  <2>5. CASE Table!StartFails(j)
    BY <2>5 DEF Table!StartFails
  <2>6. CASE Table!RunnerStarts(j)
    BY <2>6 DEF Table!RunnerStarts
  <2>7. CASE Table!FailJob(j)
    BY <2>7 DEF Table!FailJob
  <2>8. CASE Table!WaitReturns(j)
    BY <2>8 DEF Table!WaitReturns
  <2>9. CASE Table!WaiterRecords(j)
    <3>1. pc[j] = "reaped" /\ \E to \in {"end", "closing"} : pc' = [pc EXCEPT ![j] = to]
      BY <2>9 DEF Table!WaiterRecords
    <3>2. /\ status' = status \/ (status[j] # "cancelled"
                                  /\ \E s \in {"done", "failed"} : status' = [status EXCEPT ![j] = s])
          /\ UNCHANGED <<table, ring, proc>>
      BY <2>9 DEF Table!WaiterRecords
    <3> QED BY <3>1, <3>2
  <2>10. CASE Table!WaiterCloses(j)
    BY <2>10 DEF Table!WaiterCloses
  <2> QED BY <1>2, <2>1, <2>2, <2>3, <2>4, <2>5, <2>6, <2>7, <2>8, <2>9, <2>10 DEF Table!AgentStep
<1>3. ASSUME NEW j \in Agents, NEW how \in {"ok", "err"}, Table!RunnerExits(j, how)
      PROVE  TableInv' /\ \A i \in Agents : TableKeeps(i)
  BY <1>3 DEF Table!RunnerExits
<1>4. ASSUME NEW c \in Cancels, NEW j \in Agents, Table!CancelFinds(c, j) \/ Table!CancelMisses(c, j)
      PROVE  TableInv' /\ \A i \in Agents : TableKeeps(i)
  BY <1>4 DEF Table!CancelFinds, Table!CancelMisses
<1>5. ASSUME NEW c \in Cancels, Table!CancelStep(c)
      PROVE  TableInv' /\ \A i \in Agents : TableKeeps(i)
  <2>1. CASE Table!CancelMarks(c)
    BY <2>1 DEF Table!CancelMarks
  <2>2. ASSUME NEW how \in {"termed", "killed"}, NEW from \in SUBSET {"alive", "termed"},
               proc' = [proc EXCEPT ![target[c]] = IF @ \in from THEN how ELSE @],
               UNCHANGED <<table, pc, ring, status>>
        PROVE  TableInv' /\ \A i \in Agents : TableKeeps(i)
    <3>1. \A i \in Agents : /\ proc'[i] \in {proc[i], how}
                            /\ proc[i] = "none" => proc'[i] = "none"
      BY <2>2
    <3>2. proc' \in [Agents -> Table!ProcStates]
      BY <2>2
    <3> QED BY <2>2, <3>1, <3>2
  <2>3. CASE Table!CancelSignals(c)
    BY <2>2, <2>3 DEF Table!CancelSignals
  <2>4. CASE Table!CancelTimesOut(c)
    BY <2>2, <2>4 DEF Table!CancelTimesOut
  <2>5. CASE Table!CancelRecords(c)
    BY <2>5 DEF Table!CancelRecords
  <2>6. CASE Table!CancelRecordsCloses(c)
    BY <2>6 DEF Table!CancelRecordsCloses
  <2>7. CASE \/ Table!CancelSeesNoProcess(c) \/ Table!CancelSeesDone(c)
             \/ Table!CancelChecksDone(c) \/ Table!CancelCloses(c)
    BY <2>7 DEF Table!fields, Table!CancelSeesNoProcess, Table!CancelSeesDone, Table!CancelChecksDone, Table!CancelCloses
  <2> QED BY <1>5, <2>1, <2>3, <2>4, <2>5, <2>6, <2>7 DEF Table!CancelStep
<1>6. ASSUME Table!Tick \/ Table!EvictOldJobs
      PROVE  TableInv' /\ \A i \in Agents : TableKeeps(i)
  BY <1>6 DEF Table!Tick, Table!EvictOldJobs
<1>7. ASSUME UNCHANGED tableVars PROVE TableInv' /\ \A i \in Agents : TableKeeps(i)
  BY <1>7 DEF tableVars
<1> QED BY <1>1, <1>2, <1>3, <1>4, <1>5, <1>6, <1>7 DEF Table!Next

-----------------------------------------------------------------------------
(* A job a step has nothing to do with *)

\* The pipeline of a job is as it was.
Same(j) ==
  /\ fifo'[j] = fifo[j] /\ written'[j] = written[j] /\ silent'[j] = silent[j]
  /\ events'[j] = events[j] /\ count'[j] = count[j] /\ seen'[j] = seen[j]
  /\ ppc'[j] = ppc[j] /\ spc'[j] = spc[j] /\ line'[j] = line[j]
  /\ queue'[j] = queue[j] /\ inflight'[j] = inflight[j] /\ posted'[j] = posted[j]
  /\ drops'[j] = drops[j] /\ owed'[j] = owed[j]

LEMMA SameKeeps ==
  ASSUME NEW j \in Agents, JobInv(j), Same(j), TableInv, TableInv', TableKeeps(j)
  PROVE  JobInv(j)'
<1> USE DEF Same
<1>1. pc[j] \in Early
        => /\ Sent(j) = {} /\ events[j] = <<>> /\ line[j] = NoLine
           /\ ppc[j] = "none" /\ spc[j] = "none" /\ count[j] = 0 /\ Entries(events[j]) = {}
  BY DEF JobInv, Stages, Sent, Entries, InFlight, Over, Holding, Handling
<1>2. /\ Sent(j)' = Sent(j) /\ Scanned(j)' = Scanned(j) /\ Over(j)' = Over(j)
      /\ Holding(j)' = Holding(j) /\ Handling(j)' = Handling(j)
      /\ ReaderOpen(j)' = ReaderOpen(j)
      /\ \A e : InRing(j, e)' = InRing(j, e)
  BY DEF Sent, Entries, InFlight, Scanned, Over, Holding, Handling, ReaderOpen, InRing
<1>3. Bounded(j)' /\ RingOrder(j)' /\ DeliveryOrder(j)' /\ Accounted(j)'
  BY DEF JobInv, Bounded, RingOrder, DeliveryOrder, Accounted, Increasing
<1>4. Stages(j)'
  BY <1>2 DEF JobInv, Stages, TableKeeps, TableInv
<1>5. Numbers(j)'
  BY <1>1, <1>2 DEF JobInv, Numbers, TableKeeps, ReaderOpen
<1>6. SentBefore(j)'
  BY <1>1, <1>2 DEF JobInv, SentBefore, TableKeeps
<1>7. OneTerminal(j)'
  BY <1>1, <1>2 DEF JobInv, OneTerminal, TableKeeps, HasTerminal
<1>8. Polled(j)'
  BY <1>1, <1>2 DEF JobInv, Polled, TableKeeps
<1>9. Truthful(j)'
  BY <1>1, <1>2 DEF JobInv, Truthful, TableKeeps
<1> QED BY <1>3, <1>4, <1>5, <1>6, <1>7, <1>8, <1>9 DEF JobInv

-----------------------------------------------------------------------------
(* What each step of a job's pipeline does to its invariant *)

\* What a step of one job leaves alone.
Others(j) == \A i \in Agents \ {j} : Same(i)

\* The numbers of events, and that none of them is NoLine.
LEMMA EventFacts ==
  \A e \in Events : e # NoLine /\ e.seq \in Nat /\ e.kind \in Kinds \cup SyntheticKinds
  BY NoLineIsNoEvent, BoundsAreNat DEF Events

\* What es, the ring of a job, is after one more event, with c events counted.
Pushed(j, e, es, c) ==
  /\ es \in Seq(Events) /\ Len(es) <= RingCap
  /\ Increasing(es) /\ \A i \in DOMAIN es : es[i].seq <= c
  /\ Entries(es) \subseteq Entries(events[j]) \cup {e}
  /\ ring[j] => e \in Entries(es)
  /\ ring[j] => \A x \in Events :
       InRing(j, x) => x \in Entries(es) \/ (Len(es) = RingCap /\ x.seq < Head(es).seq)
  /\ \A i, k \in DOMAIN es : IsTerminal(es[i]) /\ IsTerminal(es[k]) => i = k
  /\ HasTerminal(es) => IsTerminal(e)

LEMMA PushKeepsRing ==
  ASSUME NEW j \in Agents, PipeTypes, Bounded(j), RingOrder(j), ~ HasTerminal(events[j]),
         NEW e \in Events, NEW n \in Nat, count[j] <= n, e.seq = n + 1,
         NEW es, NEW c, es = IF ring[j] THEN Ring!Remember(events[j], e) ELSE events[j], c = n + 1
  PROVE  Pushed(j, e, es, c)
<1>1. /\ events[j] \in Seq(Events) /\ Len(events[j]) <= RingCap /\ Increasing(events[j])
      /\ DOMAIN events[j] = 1 .. Len(events[j]) /\ Len(events[j]) \in Nat
      /\ \A i \in DOMAIN events[j] : events[j][i].seq <= n /\ events[j][i].seq \in Nat
    <2>1. events[j] \in Seq(Events) /\ count[j] \in Int
      BY BoundsAreNat DEF PipeTypes
    <2>2. \A i \in DOMAIN events[j] : events[j][i] \in Events
      BY <2>1
    <2> QED BY <2>1, <2>2, EventFacts DEF Bounded, RingOrder
<1>2. \A x \in Entries(events[j]) : x.seq < e.seq /\ x.seq \in Nat /\ x.seq <= c /\ x \in Events
  BY <1>1 DEF Entries
<1>3. CASE ~ ring[j]
  <2>1. es = events[j]
    BY <1>3
  <2> QED BY <1>1, <1>3, <2>1 DEF HasTerminal, Pushed
<1>4. CASE ring[j]
  <2> es = Ring!Remember(events[j], e)
    BY <1>4
  <2>1. /\ es \in Seq(Events) /\ Len(es) <= RingCap /\ es # <<>>
        /\ DOMAIN es = 1 .. Len(es) /\ Len(es) \in Nat \ {0}
        /\ e \in Entries(es)
        /\ Entries(es) \subseteq Entries(events[j]) \cup {e}
        /\ es[Len(es)] = e
        /\ \A i \in 1 .. Len(es) - 1 : es[i] \in Entries(events[j])
    BY <1>1, RememberContents
  <2>2. /\ Increasing(es)
        /\ \A x \in Entries(events[j]) :
             x \in Entries(es) \/ (Len(es) = RingCap /\ x.seq < Head(es).seq)
        /\ \A x \in Events : Len(events[j]) = RingCap /\ x.seq < Head(events[j]).seq
                               => Len(es) = RingCap /\ x.seq < Head(es).seq
    BY <1>1, <1>2, RememberOrder
  <2>3. \A i \in DOMAIN es : es[i] \in Entries(es)
    BY DEF Entries
  <2>4. \A i \in DOMAIN es : es[i].seq <= c
    BY <1>2, <2>1, <2>3
  <2>5. \A x \in Events :
          InRing(j, x) => x \in Entries(es) \/ (Len(es) = RingCap /\ x.seq < Head(es).seq)
    BY <2>2 DEF InRing
  <2>6. ASSUME NEW i \in DOMAIN es, IsTerminal(es[i])
        PROVE  i = Len(es) /\ IsTerminal(e)
    <3>1. \A x \in Entries(events[j]) : ~ IsTerminal(x)
      BY DEF HasTerminal, Entries
    <3>2. i \notin 1 .. Len(es) - 1
      BY <2>1, <2>6, <3>1
    <3> QED BY <2>1, <2>6, <3>2
  <2>7. \A i, k \in DOMAIN es : IsTerminal(es[i]) /\ IsTerminal(es[k]) => i = k
    BY <2>6
  <2>8. HasTerminal(es) => IsTerminal(e)
    BY <2>6 DEF HasTerminal
  <2> QED BY <1>4, <2>1, <2>2, <2>4, <2>5, <2>7, <2>8 DEF Pushed
<1> QED BY <1>3, <1>4

\* The runner writes a line.
LEMMA RunnerWritesKeeps ==
  ASSUME IInv, NEW j \in Agents, NEW kind \in Kinds, RunnerWrites(j, kind)
  PROVE  PipeTypes' /\ Others(j) /\ JobInv(j)'
<1> DEFINE e == Event(written[j] + 1, kind)
<1>1. /\ fifo[j] \in Seq(Events) /\ written[j] \in 0 .. MaxLines
      /\ JobInv(j) /\ PipeTypes
      /\ e \in Events /\ e.seq = written[j] + 1 /\ e.kind = kind /\ written[j] + 1 \in 0 .. MaxLines
  <2>1. fifo[j] \in Seq(Events) /\ written[j] \in 0 .. MaxLines /\ JobInv(j) /\ PipeTypes
    BY DEF IInv, PipeTypes
  <2>2. written[j] + 1 \in 0 .. MaxLines
    BY <2>1, BoundsAreNat DEF RunnerWrites
  <2>3. written[j] + 1 \in 0 .. MaxLines + 1
    BY <2>2, BoundsAreNat
  <2>4. e \in Events /\ e.seq = written[j] + 1 /\ e.kind = kind
    BY <2>3 DEF Event, Events
  <2> QED BY <2>1, <2>2, <2>4
<1>2. /\ fifo'[j] = IF ReaderOpen(j) THEN Append(fifo[j], e) ELSE fifo[j]
      /\ written'[j] = written[j] + 1 /\ ~ silent[j]
      /\ silent'[j] = (kind \in {"terminal", "garbled"})
      /\ UNCHANGED <<tableVars, jobVars, pusherVars, deliveryVars>>
      /\ ReaderOpen(j) => Len(fifo[j]) < PipeCap
      /\ proc[j] # "none"
  BY DEF RunnerWrites, IInv, PipeTypes
<1>3. PipeTypes' /\ Others(j)
  <2>1. fifo' \in [Agents -> Seq(Events)]
    <3>1. Append(fifo[j], e) \in Seq(Events)
      BY <1>1, AppendFacts
    <3>2. fifo' = fifo \/ fifo' = [fifo EXCEPT ![j] = Append(fifo[j], e)]
      BY DEF RunnerWrites
    <3> QED BY <1>1, <3>1, <3>2 DEF PipeTypes
  <2>2. \A i \in Agents \ {j} : fifo'[i] = fifo[i]
    BY <1>1 DEF RunnerWrites, PipeTypes
  <2>3. /\ written' \in [Agents -> 0 .. MaxLines] /\ silent' \in [Agents -> BOOLEAN]
        /\ \A i \in Agents \ {j} : written'[i] = written[i] /\ silent'[i] = silent[i]
    BY <1>1 DEF RunnerWrites, PipeTypes
  <2> QED BY <1>1, <2>1, <2>2, <2>3 DEF RunnerWrites, PipeTypes, Others, Same,
          jobVars, pusherVars, deliveryVars, tableVars
<1>4. /\ pc[j] \notin Early /\ UNCHANGED <<pc, proc, table, ring, status>>
      /\ UNCHANGED <<events, count, seen, ppc, spc, line, queue, inflight, posted, drops, owed>>
  BY <1>1, <1>2 DEF JobInv, Stages, jobVars, pusherVars, deliveryVars, tableVars
<1>5. /\ ReaderOpen(j)' = ReaderOpen(j) /\ Handling(j)' = Handling(j)
      /\ Holding(j)' = Holding(j) /\ Over(j)' = Over(j) /\ Sent(j)' = Sent(j)
      /\ \A x : InRing(j, x)' = InRing(j, x)
  BY <1>4 DEF ReaderOpen, Handling, Holding, Over, Sent, Entries, InFlight, InRing
<1>6. CASE ReaderOpen(j)
  <2>1. /\ Len(fifo'[j]) = Len(fifo[j]) + 1 /\ Len(fifo[j]) \in Nat
        /\ DOMAIN fifo'[j] = 1 .. Len(fifo[j]) + 1 /\ DOMAIN fifo[j] = 1 .. Len(fifo[j])
        /\ \A i \in 1 .. Len(fifo[j]) : fifo'[j][i] = fifo[j][i]
        /\ fifo'[j][Len(fifo[j]) + 1] = e
    BY <1>1, <1>2, <1>6, AppendFacts
  <2>2. Scanned(j)' = Scanned(j) /\ Scanned(j) \in Int
    <3>1. /\ Scanned(j)' = written'[j] - Len(fifo'[j])
          /\ Scanned(j) = written[j] - Len(fifo[j])
      BY DEF Scanned
    <3>2. written[j] \in Nat
      BY <1>1, BoundsAreNat
    <3>3. Len(fifo'[j]) \in Nat
      BY <2>1
    <3> QED BY <1>2, <2>1, <3>1, <3>2, <3>3
  <2>3. Bounded(j)'
    BY <1>1, <1>2, <1>4, <1>6, <2>1, BoundsAreNat DEF JobInv, Bounded
  <2>4. Stages(j)'
    BY <1>1, <1>4, <1>5, <1>6 DEF JobInv, Stages
  <2>5. Numbers(j)'
    <3>1. \A i \in DOMAIN fifo'[j] : fifo'[j][i].seq = Scanned(j) + i
      <4> TAKE i \in DOMAIN fifo'[j]
      <4>1. CASE i = Len(fifo[j]) + 1
        BY <1>1, <2>1, <4>1 DEF Scanned
      <4>2. CASE i # Len(fifo[j]) + 1
        <5>1. i \in DOMAIN fifo[j] /\ fifo'[j][i] = fifo[j][i]
          BY <2>1, <4>2
        <5> QED BY <1>1, <5>1 DEF JobInv, Numbers
      <4> QED BY <4>1, <4>2
    <3>2. Len(fifo'[j]) <= written'[j]
      BY <1>1, <1>2, <2>1 DEF JobInv, Numbers
    <3> QED BY <1>1, <1>4, <1>5, <2>2, <3>1, <3>2 DEF JobInv, Numbers
  <2>6. OneTerminal(j)'
    <3>1. \A i \in DOMAIN fifo[j] : ~ IsTerminal(fifo[j][i])
      BY <1>1, <1>2 DEF JobInv, OneTerminal
    <3>2. \A i \in DOMAIN fifo'[j] : IsTerminal(fifo'[j][i]) => silent'[j] /\ i = Len(fifo'[j])
      <4> SUFFICES ASSUME NEW i \in DOMAIN fifo'[j], IsTerminal(fifo'[j][i])
                   PROVE  silent'[j] /\ i = Len(fifo'[j])
        OBVIOUS
      <4>1. i = Len(fifo[j]) + 1
        BY <2>1, <3>1
      <4>2. kind = "terminal"
        BY <1>1, <2>1, <4>1 DEF IsTerminal, Kinds, SyntheticKinds
      <4> QED BY <1>2, <2>1, <4>1, <4>2
    <3>3. ~ (Handling(j) /\ IsTerminal(line[j])) /\ ~ (HasTerminal(events[j]) /\ ~ Over(j))
      BY <1>1, <1>2 DEF JobInv, OneTerminal
    <3>4. \A i, k \in DOMAIN events[j] :
            IsTerminal(events[j][i]) /\ IsTerminal(events[j][k]) => i = k
      BY <1>1 DEF JobInv, OneTerminal
    <3> QED BY <1>4, <1>5, <3>2, <3>3, <3>4 DEF OneTerminal, HasTerminal
  <2>7. Truthful(j)'
    <3>1. \A i \in DOMAIN fifo'[j] : fifo'[j][i].kind \in Kinds
      <4> TAKE i \in DOMAIN fifo'[j]
      <4> QED BY <1>1, <2>1 DEF JobInv, Truthful
    <3> QED BY <1>1, <1>4, <1>5, <3>1 DEF JobInv, Truthful
  <2>8. RingOrder(j)' /\ DeliveryOrder(j)' /\ Accounted(j)'
    BY <1>1, <1>4 DEF JobInv, RingOrder, DeliveryOrder, Accounted, Increasing
  <2>9. SentBefore(j)' /\ Polled(j)'
    BY <1>1, <1>4, <1>5, <2>2 DEF JobInv, SentBefore, Polled
  <2> QED BY <1>3, <2>3, <2>4, <2>5, <2>6, <2>7, <2>8, <2>9 DEF JobInv
<1>7. CASE ~ ReaderOpen(j)
  <2>1. /\ fifo'[j] = <<>> /\ fifo[j] = <<>> /\ Len(fifo[j]) = 0 /\ DOMAIN fifo[j] = {}
        /\ ~ Handling(j)
    BY <1>1, <1>2, <1>7 DEF JobInv, Stages, ReaderOpen, Handling
  <2>2. Scanned(j)' = Scanned(j) + 1 /\ Scanned(j) \in Nat
    <3>1. /\ Scanned(j)' = written'[j] - Len(fifo'[j])
          /\ Scanned(j) = written[j] - Len(fifo[j])
      BY DEF Scanned
    <3>2. written[j] \in Nat
      BY <1>1, BoundsAreNat
    <3>3. Len(fifo'[j]) \in Nat
      BY <2>1
    <3> QED BY <1>2, <2>1, <3>1, <3>2, <3>3
  <2>3. Bounded(j)' /\ Stages(j)'
    BY <1>1, <1>4, <1>5, <2>1 DEF JobInv, Stages, Bounded
  <2>4. Numbers(j)'
    <3>1. count[j] \in Nat
      BY <1>1, BoundsAreNat DEF PipeTypes
    <3> QED BY <1>1, <1>2, <1>4, <1>5, <1>7, <2>1, <2>2, <3>1 DEF JobInv, Numbers
  <2>5. OneTerminal(j)' /\ Truthful(j)'
    BY <1>1, <1>2, <1>4, <1>5, <2>1 DEF JobInv, OneTerminal, Truthful, HasTerminal
  <2>6. RingOrder(j)' /\ DeliveryOrder(j)' /\ Accounted(j)'
    BY <1>1, <1>4 DEF JobInv, RingOrder, DeliveryOrder, Accounted, Increasing
  <2>7. SentBefore(j)' /\ Polled(j)'
    BY <1>1, <1>4, <1>5, <1>7 DEF JobInv, SentBefore, Polled
  <2> QED BY <1>3, <2>3, <2>4, <2>5, <2>6, <2>7 DEF JobInv
<1> QED BY <1>3, <1>6, <1>7

\* The pusher takes a line from the FIFO.
LEMMA ScanLineKeeps ==
  ASSUME IInv, NEW j \in Agents, ScanLine(j)
  PROVE  PipeTypes' /\ Others(j) /\ JobInv(j)'
<1>1. /\ JobInv(j) /\ PipeTypes /\ fifo[j] \in Seq(Events) /\ fifo[j] # <<>>
      /\ ppc[j] = "scan"
  BY DEF IInv, PipeTypes, ScanLine
<1>2. /\ Tail(fifo[j]) \in Seq(Events)
      /\ Len(Tail(fifo[j])) = Len(fifo[j]) - 1
      /\ DOMAIN Tail(fifo[j]) = 1 .. Len(fifo[j]) - 1
      /\ DOMAIN fifo[j] = 1 .. Len(fifo[j]) /\ Len(fifo[j]) \in Nat \ {0}
      /\ \A i \in 1 .. Len(fifo[j]) - 1 : Tail(fifo[j])[i] = fifo[j][i + 1]
      /\ Head(fifo[j]) = fifo[j][1] /\ fifo[j][1] \in Events
  BY <1>1, TailFacts
<1>3. PipeTypes' /\ Others(j)
  BY <1>1, <1>2 DEF ScanLine, PipeTypes, Others, Same, jobVars, deliveryVars
<1>4. /\ fifo'[j] = Tail(fifo[j]) /\ line'[j] = fifo[j][1] /\ ppc'[j] = "have"
      /\ UNCHANGED <<pc, proc, table, ring, status>>
      /\ UNCHANGED <<written, silent, events, count, seen, spc, queue, inflight, posted, drops, owed>>
  BY <1>1, <1>2 DEF ScanLine, PipeTypes, jobVars, deliveryVars, tableVars
<1>5. /\ ReaderOpen(j) /\ ReaderOpen(j)' /\ spc[j] = "none" /\ pc[j] \notin Early
      /\ ~ Handling(j) /\ Handling(j)' /\ Holding(j)' /\ ~ Over(j) /\ ~ Over(j)'
      /\ Sent(j)' = Sent(j) /\ \A x : InRing(j, x)' = InRing(j, x)
  BY <1>1, <1>4 DEF JobInv, Stages, ReaderOpen, Handling, Holding, Over, Sent, Entries, InFlight, InRing
<1>6. /\ Scanned(j)' = Scanned(j) + 1 /\ Scanned(j) \in Int /\ count[j] \in Nat
      /\ written[j] \in Nat
  <2>1. written[j] \in Nat /\ count[j] \in Nat
    BY <1>1, BoundsAreNat DEF PipeTypes
  <2>2. Scanned(j)' = written'[j] - Len(fifo'[j]) /\ Scanned(j) = written[j] - Len(fifo[j])
    BY DEF Scanned
  <2> QED BY <1>2, <1>4, <2>1, <2>2
<1>7. fifo[j][1].seq = Scanned(j) + 1 /\ fifo[j][1] # NoLine /\ fifo[j][1].kind \in Kinds
  BY <1>1, <1>2, EventFacts DEF JobInv, Numbers, Truthful
<1>8. Bounded(j)' /\ Stages(j)'
  BY <1>1, <1>2, <1>4, <1>5, <1>7, BoundsAreNat DEF JobInv, Bounded, Stages
<1>9. Numbers(j)'
  <2>1. \A i \in DOMAIN fifo'[j] : fifo'[j][i].seq = Scanned(j)' + i
    <3> TAKE i \in DOMAIN fifo'[j]
    <3>1. fifo'[j][i] = fifo[j][i + 1] /\ i + 1 \in DOMAIN fifo[j] /\ i \in Nat
      BY <1>2, <1>4
    <3>2. fifo[j][i + 1].seq = Scanned(j) + (i + 1)
      BY <1>1, <3>1 DEF JobInv, Numbers
    <3> QED BY <1>6, <3>1, <3>2
  <2>2. Len(fifo'[j]) <= written'[j]
    BY <1>1, <1>2, <1>4, <1>6 DEF JobInv, Numbers
  <2>3. count[j] <= Scanned(j) /\ (j \in table => count[j] = Scanned(j))
    BY <1>1, <1>5 DEF JobInv, Numbers
  <2> QED BY <1>4, <1>5, <1>6, <1>7, <2>1, <2>2, <2>3 DEF Numbers
<1>10. RingOrder(j)' /\ DeliveryOrder(j)' /\ Accounted(j)'
  BY <1>1, <1>4 DEF JobInv, RingOrder, DeliveryOrder, Accounted, Increasing
<1>11. SentBefore(j)'
  <2> SUFFICES ASSUME NEW e \in Sent(j)
               PROVE  /\ e.seq < line'[j].seq /\ e.seq <= Scanned(j)'
                      /\ j \in table => e.seq <= count[j]
    BY <1>4, <1>5 DEF SentBefore
  <2>1. e.seq <= Scanned(j) /\ (j \in table => e.seq <= count[j])
    BY <1>1, <1>5 DEF JobInv, SentBefore
  <2>2. e.seq \in Nat
    BY <1>1, EventFacts DEF Sent, Entries, InFlight, PipeTypes
  <2> QED BY <1>4, <1>6, <1>7, <2>1, <2>2
<1>12. OneTerminal(j)'
  <2>1. ASSUME NEW i \in DOMAIN fifo'[j], IsTerminal(fifo'[j][i])
        PROVE  silent'[j] /\ i = Len(fifo'[j])
    <3>1. fifo'[j][i] = fifo[j][i + 1] /\ i + 1 \in DOMAIN fifo[j] /\ i \in Nat
      BY <1>2, <1>4
    <3> QED BY <1>1, <1>2, <1>4, <2>1, <3>1 DEF JobInv, OneTerminal
  <2>2. ASSUME IsTerminal(line'[j]) PROVE silent'[j] /\ fifo'[j] = <<>>
    <3>1. 1 \in DOMAIN fifo[j]
      BY <1>2
    <3>2. silent[j] /\ Len(fifo[j]) = 1
      BY <1>1, <1>4, <2>2, <3>1 DEF JobInv, OneTerminal
    <3> QED BY <1>2, <1>4, <3>2
  <2>3. ~ (HasTerminal(events[j]) /\ ~ Over(j))
    BY <1>1 DEF JobInv, OneTerminal
  <2>4. \A i, k \in DOMAIN events[j] :
          IsTerminal(events[j][i]) /\ IsTerminal(events[j][k]) => i = k
    BY <1>1 DEF JobInv, OneTerminal
  <2> QED BY <1>4, <1>5, <2>1, <2>2, <2>3, <2>4 DEF OneTerminal, HasTerminal
<1>13. Polled(j)'
  BY <1>1, <1>4, <1>5 DEF JobInv, Polled
<1>14. Truthful(j)'
  <2>1. \A i \in DOMAIN fifo'[j] : fifo'[j][i].kind \in Kinds
    <3> TAKE i \in DOMAIN fifo'[j]
    <3>1. fifo'[j][i] = fifo[j][i + 1] /\ i + 1 \in DOMAIN fifo[j]
      BY <1>2, <1>4
    <3> QED BY <1>1, <3>1 DEF JobInv, Truthful
  <2>2. line'[j].kind # "synthCancelled"
    BY <1>4, <1>7 DEF Kinds
  <2> QED BY <1>1, <1>4, <1>5, <2>1, <2>2 DEF JobInv, Truthful, Entries
<1> QED BY <1>3, <1>8, <1>9, <1>10, <1>11, <1>12, <1>13, <1>14 DEF JobInv

\* The pusher puts it in the ring.
LEMMA RingLineKeeps ==
  ASSUME IInv, NEW j \in Agents, RingLine(j)
  PROVE  PipeTypes' /\ Others(j) /\ JobInv(j)'
<1>1. /\ JobInv(j) /\ PipeTypes /\ ppc[j] = "have" /\ spc[j] = "none" /\ line[j] \in Events
      /\ count[j] \in Nat /\ written[j] \in Nat /\ written[j] <= MaxLines
      /\ events[j] \in Seq(Events) /\ Len(fifo[j]) \in Nat
  <2>1. JobInv(j) /\ PipeTypes /\ ppc[j] = "have"
    BY DEF IInv, RingLine
  <2>2. spc[j] = "none" /\ line[j] # NoLine
    BY <2>1 DEF JobInv, Stages, ReaderOpen, Holding, Handling
  <2>3. fifo[j] \in Seq(Events)
    BY <2>1 DEF PipeTypes
  <2> QED BY <2>1, <2>2, <2>3, BoundsAreNat DEF PipeTypes
<1>2. /\ line[j].seq = Scanned(j) /\ Scanned(j) \in Int /\ Scanned(j) <= MaxLines
      /\ j \in table => count[j] = Scanned(j) - 1
      /\ count[j] <= Scanned(j)
      /\ ~ HasTerminal(events[j])
  <2>1. Scanned(j) \in Int /\ Scanned(j) <= MaxLines
    BY <1>1, BoundsAreNat DEF Scanned
  <2> QED BY <1>1, <2>1 DEF JobInv, Numbers, OneTerminal, Handling, ReaderOpen, Over
<1>3. /\ ppc'[j] = IF IsTerminal(line[j]) THEN "ringed" ELSE "offer"
      /\ UNCHANGED <<pc, proc, table, ring, status>>
      /\ UNCHANGED <<fifo, written, silent, seen, spc, line, queue, inflight, posted, drops, owed>>
      /\ j \notin table => UNCHANGED <<count, events>>
      /\ j \in table => /\ count'[j] = count[j] + 1
                        /\ events'[j] = IF ring[j] THEN Ring!Remember(events[j], line[j]) ELSE events[j]
  BY <1>1 DEF RingLine, PipeTypes, runnerVars, deliveryVars, tableVars
<1>4. /\ ReaderOpen(j) /\ ReaderOpen(j)' /\ pc[j] \notin Early
      /\ Handling(j) /\ Handling(j)' /\ Holding(j) /\ Holding(j)' /\ ~ Over(j) /\ ~ Over(j)'
      /\ Sent(j)' = Sent(j) /\ Scanned(j)' = Scanned(j)
  BY <1>1, <1>3 DEF JobInv, Stages, ReaderOpen, Handling, Holding, Over, Sent, Entries, InFlight, Scanned
<1>5. j \in table => Pushed(j, line[j], events'[j], count'[j])
  <2> SUFFICES ASSUME j \in table PROVE Pushed(j, line[j], events'[j], count'[j])
    OBVIOUS
  <2>1. /\ count[j] <= count[j] /\ line[j].seq = count[j] + 1 /\ count'[j] = count[j] + 1
        /\ events'[j] = IF ring[j] THEN Ring!Remember(events[j], line[j]) ELSE events[j]
        /\ Bounded(j) /\ RingOrder(j)
    BY <1>1, <1>2, <1>3 DEF JobInv
  <2> QED BY <1>1, <1>2, <2>1, PushKeepsRing
<1>6. PipeTypes' /\ Others(j)
  <2>1. count' \in [Agents -> 0 .. MaxLines + 1] /\ \A i \in Agents \ {j} : count'[i] = count[i]
    <3>1. CASE j \in table
      <4>1. count[j] + 1 \in 0 .. MaxLines + 1
        BY <1>1, <1>2, <3>1, BoundsAreNat
      <4>2. count' = [count EXCEPT ![j] = count[j] + 1] /\ count \in [Agents -> 0 .. MaxLines + 1]
        BY <1>1, <3>1 DEF RingLine, PipeTypes
      <4> QED BY <4>1, <4>2
    <3>2. CASE j \notin table
      BY <1>1, <1>3, <3>2 DEF PipeTypes
    <3> QED BY <3>1, <3>2
  <2>2. events' \in [Agents -> Seq(Events)] /\ \A i \in Agents \ {j} : events'[i] = events[i]
    <3>1. CASE j \in table
      BY <1>1, <1>5, <3>1 DEF Pushed, RingLine, PipeTypes
    <3>2. CASE j \notin table
      BY <1>1, <1>3, <3>2 DEF PipeTypes
    <3> QED BY <3>1, <3>2
  <2>3. /\ ppc' \in [Agents -> {"none", "scan", "have", "ringed", "offer", "synth", "end"}]
        /\ \A i \in Agents \ {j} : ppc'[i] = ppc[i]
    BY <1>1 DEF RingLine, PipeTypes
  <2> QED BY <1>1, <2>1, <2>2, <2>3 DEF RingLine, PipeTypes, Others, Same, runnerVars, deliveryVars
<1>7. Bounded(j)' /\ Stages(j)' /\ RingOrder(j)'
  BY <1>1, <1>3, <1>4, <1>5 DEF Pushed, JobInv, Bounded, Stages, RingOrder
<1>8. Numbers(j)'
  BY <1>1, <1>2, <1>3, <1>4 DEF JobInv, Numbers
<1>9. DeliveryOrder(j)' /\ Accounted(j)'
  BY <1>1, <1>3 DEF JobInv, DeliveryOrder, Accounted, Increasing
<1>10. \A e \in Sent(j) : e \in Events /\ e.seq \in Nat
  BY <1>1, EventFacts DEF Sent, Entries, InFlight, PipeTypes
<1>11. SentBefore(j)'
  BY <1>1, <1>3, <1>4, <1>10 DEF JobInv, SentBefore
<1>12. OneTerminal(j)'
  <2>1. HasTerminal(events'[j]) => j \in table /\ IsTerminal(line[j])
    BY <1>2, <1>3, <1>5 DEF Pushed
  <2>2. \A i, k \in DOMAIN events'[j] :
          IsTerminal(events'[j][i]) /\ IsTerminal(events'[j][k]) => i = k
    BY <1>1, <1>3, <1>5 DEF Pushed, JobInv, OneTerminal
  <2> QED BY <1>1, <1>3, <1>4, <2>1, <2>2 DEF JobInv, OneTerminal, HasTerminal
<1>13. Polled(j)'
  BY <1>1, <1>3, <1>4, <1>5, <1>10 DEF Pushed, JobInv, Polled, InRing
<1>14. Truthful(j)'
  <2>1. Entries(events'[j]) \subseteq Entries(events[j]) \cup {line[j]}
    BY <1>3, <1>5 DEF Pushed
  <2> QED BY <1>1, <1>3, <1>4, <2>1, EventFacts DEF JobInv, Truthful, Entries
<1> QED BY <1>6, <1>7, <1>8, <1>9, <1>11, <1>12, <1>13, <1>14 DEF JobInv

\* The pusher marks a terminal event as seen.
LEMMA MarkTerminalEventSeenKeeps ==
  ASSUME IInv, NEW j \in Agents, MarkTerminalEventSeen(j)
  PROVE  PipeTypes' /\ Others(j) /\ JobInv(j)'
<1>1. JobInv(j) /\ PipeTypes /\ ppc[j] = "ringed" /\ pc[j] \notin Early
  BY DEF IInv, MarkTerminalEventSeen, JobInv, Stages
<1>2. PipeTypes' /\ Others(j)
  BY <1>1 DEF MarkTerminalEventSeen, PipeTypes, Others, Same, runnerVars, deliveryVars
<1>3. /\ ppc'[j] = "offer" /\ seen'[j] = (seen[j] \/ j \in table)
      /\ UNCHANGED <<pc, proc, table, ring, status>>
      /\ UNCHANGED <<fifo, written, silent, events, count, spc, line, queue, inflight, posted,
                     drops, owed>>
  BY <1>1 DEF MarkTerminalEventSeen, PipeTypes, runnerVars, deliveryVars, tableVars
<1>4. /\ ReaderOpen(j) /\ ReaderOpen(j)'
      /\ Handling(j) /\ Handling(j)' /\ Holding(j) /\ Holding(j)' /\ Over(j)' = Over(j)
      /\ Sent(j)' = Sent(j) /\ Scanned(j)' = Scanned(j) /\ \A x : InRing(j, x)' = InRing(j, x)
  BY <1>1, <1>3 DEF ReaderOpen, Handling, Holding, Over, Sent, Entries, InFlight, Scanned,
     InRing
<1>5. Bounded(j)' /\ Stages(j)' /\ Numbers(j)'
  BY <1>1, <1>3, <1>4 DEF JobInv, Bounded, Stages, Numbers
<1>6. RingOrder(j)' /\ DeliveryOrder(j)' /\ Accounted(j)'
  BY <1>1, <1>3 DEF JobInv, RingOrder, DeliveryOrder, Accounted, Increasing
<1>7. SentBefore(j)' /\ Polled(j)' /\ Truthful(j)'
  BY <1>1, <1>3, <1>4 DEF JobInv, SentBefore, Polled, Truthful
<1>8. OneTerminal(j)'
  BY <1>1, <1>3, <1>4 DEF JobInv, OneTerminal, HasTerminal
<1> QED BY <1>2, <1>5, <1>6, <1>7, <1>8 DEF JobInv

\* One event more on its way to the webhook: it comes behind all others.
LEMMA EnqueueKeepsOrder ==
  ASSUME NEW j \in Agents, JobInv(j), PipeTypes, Enqueue(j), line[j] \in Events, Holding(j)
  PROVE  /\ queue' \in [Agents -> Seq(Events)] /\ owed' \in [Agents -> Nat]
         /\ drops' \in [Agents -> Nat]
         /\ \A i \in Agents \ {j} : queue'[i] = queue[i] /\ owed'[i] = owed[i] /\ drops'[i] = drops[i]
         /\ Len(queue'[j]) <= QueueCap
         /\ Increasing(queue'[j])
         /\ Entries(queue'[j]) \subseteq Entries(queue[j]) \cup {line[j]}
         /\ owed'[j] = owed[j] + 1
         /\ drops'[j] + Len(queue'[j]) = drops[j] + Len(queue[j]) + 1
<1>1. /\ queue[j] \in Seq(Events) /\ Len(queue[j]) \in Nat /\ Len(queue[j]) <= QueueCap
      /\ owed[j] \in Nat /\ drops[j] \in Nat
      /\ queue \in [Agents -> Seq(Events)] /\ owed \in [Agents -> Nat] /\ drops \in [Agents -> Nat]
      /\ Increasing(queue[j])
  BY DEF PipeTypes, JobInv, Bounded, DeliveryOrder
<1>2. owed' = [owed EXCEPT ![j] = @ + 1]
  BY DEF Enqueue
<1>3. CASE Len(queue[j]) < QueueCap
  <2>1. queue' = [queue EXCEPT ![j] = Append(queue[j], line[j])] /\ drops' = drops
    BY <1>3 DEF Enqueue
  <2>2. /\ Append(queue[j], line[j]) \in Seq(Events)
        /\ Len(Append(queue[j], line[j])) = Len(queue[j]) + 1
        /\ DOMAIN Append(queue[j], line[j]) = 1 .. Len(queue[j]) + 1
        /\ DOMAIN queue[j] = 1 .. Len(queue[j])
        /\ \A i \in 1 .. Len(queue[j]) : Append(queue[j], line[j])[i] = queue[j][i]
        /\ Append(queue[j], line[j])[Len(queue[j]) + 1] = line[j]
        /\ Entries(Append(queue[j], line[j])) = Entries(queue[j]) \cup {line[j]}
    BY <1>1, AppendFacts
  <2>3. \A i \in DOMAIN queue[j] : queue[j][i].seq < line[j].seq
    BY DEF JobInv, SentBefore, Sent, Entries
  <2>4. Increasing(Append(queue[j], line[j]))
    <3> SUFFICES ASSUME NEW i \in DOMAIN Append(queue[j], line[j]),
                        NEW k \in DOMAIN Append(queue[j], line[j]), i < k
                 PROVE  Append(queue[j], line[j])[i].seq < Append(queue[j], line[j])[k].seq
      BY DEF Increasing
    <3>1. i \in DOMAIN queue[j] /\ Append(queue[j], line[j])[i] = queue[j][i]
      BY <1>1, <2>2
    <3>2. CASE k = Len(queue[j]) + 1
      BY <2>2, <2>3, <3>1, <3>2
    <3>3. CASE k # Len(queue[j]) + 1
      <4>1. k \in DOMAIN queue[j] /\ Append(queue[j], line[j])[k] = queue[j][k]
        BY <1>1, <2>2, <3>3
      <4> QED BY <1>1, <3>1, <4>1 DEF Increasing
    <3> QED BY <3>2, <3>3
  <2>5. queue'[j] = Append(queue[j], line[j])
    BY <1>1, <2>1
  <2>6. Len(queue'[j]) <= QueueCap
    BY <1>1, <1>3, <2>2, <2>5, BoundsAreNat
  <2>7. drops'[j] + Len(queue'[j]) = drops[j] + Len(queue[j]) + 1
    BY <1>1, <2>1, <2>2, <2>5
  <2>8. queue' \in [Agents -> Seq(Events)] /\ \A i \in Agents \ {j} : queue'[i] = queue[i]
    BY <1>1, <2>1, <2>2
  <2>9. Increasing(queue'[j]) /\ Entries(queue'[j]) \subseteq Entries(queue[j]) \cup {line[j]}
    BY <2>2, <2>4, <2>5
  <2> QED BY <1>1, <1>2, <2>1, <2>6, <2>7, <2>8, <2>9
<1>4. CASE ~ (Len(queue[j]) < QueueCap)
  <2>1. queue' = queue /\ drops' = [drops EXCEPT ![j] = @ + 1]
    BY <1>4 DEF Enqueue
  <2> QED BY <1>1, <1>2, <2>1
<1> QED BY <1>3, <1>4

\* The pusher offers the event for delivery.
LEMMA OfferLineKeeps ==
  ASSUME IInv, NEW j \in Agents, OfferLine(j)
  PROVE  PipeTypes' /\ Others(j) /\ JobInv(j)'
<1>1. /\ JobInv(j) /\ PipeTypes /\ ppc[j] = "offer" /\ spc[j] = "none" /\ pc[j] \notin Early
      /\ ReaderOpen(j) /\ Handling(j) /\ Holding(j) /\ ~ Over(j)
      /\ line[j] \in Events
  <2>1. JobInv(j) /\ PipeTypes /\ ppc[j] = "offer"
    BY DEF IInv, OfferLine
  <2> QED BY <2>1 DEF JobInv, Stages, ReaderOpen, Holding, Handling, PipeTypes, Over
<1>2. /\ queue' \in [Agents -> Seq(Events)] /\ owed' \in [Agents -> Nat]
      /\ drops' \in [Agents -> Nat]
      /\ \A i \in Agents \ {j} : queue'[i] = queue[i] /\ owed'[i] = owed[i] /\ drops'[i] = drops[i]
      /\ Len(queue'[j]) <= QueueCap
      /\ Increasing(queue'[j])
      /\ Entries(queue'[j]) \subseteq Entries(queue[j]) \cup {line[j]}
      /\ owed'[j] = owed[j] + 1
      /\ drops'[j] + Len(queue'[j]) = drops[j] + Len(queue[j]) + 1
  BY <1>1, EnqueueKeepsOrder DEF OfferLine
<1>3. /\ ppc'[j] = "scan" /\ line'[j] = NoLine
      /\ UNCHANGED <<pc, proc, table, ring, status>>
      /\ UNCHANGED <<fifo, written, silent, events, count, seen, spc, inflight, posted>>
  BY <1>1 DEF OfferLine, Enqueue, PipeTypes, runnerVars, jobVars, tableVars
<1>4. PipeTypes' /\ Others(j)
  BY <1>1, <1>2 DEF OfferLine, Enqueue, PipeTypes, Others, Same, runnerVars, jobVars
<1>5. /\ ReaderOpen(j)' /\ ~ Handling(j)' /\ ~ Holding(j)' /\ ~ Over(j)'
      /\ Scanned(j)' = Scanned(j) /\ \A x : InRing(j, x)' = InRing(j, x)
      /\ Sent(j)' \subseteq Sent(j) \cup {line[j]}
  BY <1>1, <1>2, <1>3 DEF ReaderOpen, Handling, Holding, Over, Sent, Entries, InFlight,
     Scanned, InRing
<1>6. Bounded(j)' /\ Stages(j)' /\ Numbers(j)'
  BY <1>1, <1>2, <1>3, <1>5 DEF JobInv, Bounded, Stages, Numbers
<1>7. RingOrder(j)'
  BY <1>1, <1>3 DEF JobInv, RingOrder, Increasing
<1>8. Accounted(j)'
  <2>1. Len(queue[j]) \in Nat /\ drops[j] \in Nat /\ Len(queue'[j]) \in Nat /\ drops'[j] \in Nat
    BY <1>1, <1>2 DEF PipeTypes
  <2> QED BY <1>1, <1>2, <1>3, <2>1 DEF JobInv, Accounted
<1>9. DeliveryOrder(j)'
  <2>1. \A e \in InFlight(j) \cup posted[j] : e.seq < line[j].seq
    BY <1>1 DEF JobInv, SentBefore, Sent
  <2> QED BY <1>1, <1>2, <1>3, <2>1 DEF JobInv, DeliveryOrder, InFlight
<1>10. SentBefore(j)'
  <2> SUFFICES ASSUME NEW e \in Sent(j) \cup {line[j]}
               PROVE  e.seq <= Scanned(j) /\ (j \in table => e.seq <= count[j])
    BY <1>1, <1>3, <1>5 DEF SentBefore
  <2>1. line[j].seq = Scanned(j) /\ (j \in table => count[j] = Scanned(j)) /\ line[j].seq \in Nat
    BY <1>1, EventFacts DEF JobInv, Numbers
  <2> QED BY <1>1, <2>1 DEF JobInv, SentBefore
<1>11. Polled(j)' /\ Truthful(j)'
  BY <1>1, <1>3, <1>5, EventFacts DEF JobInv, Polled, Truthful
<1>12. OneTerminal(j)'
  BY <1>1, <1>3, <1>5 DEF JobInv, OneTerminal, HasTerminal
<1> QED BY <1>4, <1>6, <1>7, <1>8, <1>9, <1>10, <1>11, <1>12 DEF JobInv

\* The stream ends.
LEMMA StreamEndsKeeps ==
  ASSUME IInv, NEW j \in Agents, StreamEnds(j)
  PROVE  PipeTypes' /\ Others(j) /\ JobInv(j)'
<1>1. /\ JobInv(j) /\ PipeTypes /\ ppc[j] = "scan" /\ spc[j] = "none" /\ pc[j] \notin Early
      /\ ReaderOpen(j) /\ ~ Handling(j) /\ ~ Holding(j) /\ ~ Over(j)
      /\ fifo[j] \in Seq(Events)
  <2>1. JobInv(j) /\ PipeTypes /\ ppc[j] = "scan"
    BY DEF IInv, StreamEnds
  <2> QED BY <2>1 DEF JobInv, Stages, ReaderOpen, Holding, Handling, PipeTypes, Over
<1>2. PipeTypes' /\ Others(j)
  <2>1. /\ fifo' = [fifo EXCEPT ![j] = <<>>] /\ ppc' = [ppc EXCEPT ![j] = "synth"]
        /\ spc' = [spc EXCEPT ![j] = "lookup"]
        /\ UNCHANGED <<written, silent, sentinel, jobVars, line, deliveryVars>>
    BY DEF StreamEnds
  <2>2. /\ fifo' \in [Agents -> Seq(Events)]
        /\ ppc' \in [Agents -> {"none", "scan", "have", "ringed", "offer", "synth", "end"}]
        /\ spc' \in [Agents -> {"none", "lookup", "await", "claimed", "hand", "end"}]
        /\ \A i \in Agents \ {j} : fifo'[i] = fifo[i] /\ ppc'[i] = ppc[i] /\ spc'[i] = spc[i]
    BY <1>1, <2>1 DEF PipeTypes
  <2> QED BY <1>1, <2>1, <2>2 DEF PipeTypes, Others, Same, jobVars, deliveryVars
<1>3. /\ ppc'[j] = "synth" /\ spc'[j] = "lookup" /\ fifo'[j] = <<>>
      /\ UNCHANGED <<pc, proc, table, ring, status>>
      /\ UNCHANGED <<written, silent, events, count, seen, line, queue, inflight, posted, drops, owed>>
  BY <1>1 DEF StreamEnds, PipeTypes, jobVars, deliveryVars, tableVars
<1>4. /\ ~ ReaderOpen(j)' /\ ~ Handling(j)' /\ ~ Holding(j)' /\ ~ Over(j)'
      /\ Sent(j)' = Sent(j) /\ \A x : InRing(j, x)' = InRing(j, x)
  BY <1>1, <1>3 DEF ReaderOpen, Handling, Holding, Over, Sent, Entries, InFlight, InRing
<1>5. /\ Len(fifo[j]) \in Nat /\ written[j] \in Nat /\ count[j] \in Nat
      /\ Len(fifo'[j]) = 0 /\ DOMAIN fifo'[j] = {}
      /\ count[j] <= written[j]
  <2>1. Len(fifo[j]) \in Nat /\ written[j] \in Nat /\ count[j] \in Nat
    BY <1>1, BoundsAreNat DEF PipeTypes
  <2>2. count[j] <= written[j] - Len(fifo[j])
    BY <1>1 DEF JobInv, Numbers, Scanned
  <2> QED BY <1>3, <2>1, <2>2
<1>6. Bounded(j)' /\ Stages(j)'
  BY <1>1, <1>3, <1>4, <1>5, BoundsAreNat DEF JobInv, Bounded, Stages
<1>7. Numbers(j)'
  <2>1. Scanned(j)' = written'[j] - Len(fifo'[j])
    BY DEF Scanned
  <2> QED BY <1>3, <1>4, <1>5, <2>1 DEF Numbers
<1>8. RingOrder(j)' /\ DeliveryOrder(j)' /\ Accounted(j)'
  BY <1>1, <1>3 DEF JobInv, RingOrder, DeliveryOrder, Accounted, Increasing
<1>9. SentBefore(j)' /\ Polled(j)'
  BY <1>1, <1>3, <1>4 DEF JobInv, SentBefore, Polled
<1>10. OneTerminal(j)' /\ Truthful(j)'
  BY <1>1, <1>3, <1>4, <1>5 DEF JobInv, OneTerminal, HasTerminal, Truthful
<1> QED BY <1>2, <1>6, <1>7, <1>8, <1>9, <1>10 DEF JobInv

\* The pusher ends.
LEMMA PusherEndsKeeps ==
  ASSUME IInv, NEW j \in Agents, PusherEnds(j)
  PROVE  PipeTypes' /\ Others(j) /\ JobInv(j)'
<1>1. JobInv(j) /\ PipeTypes /\ ppc[j] = "synth" /\ spc[j] = "end" /\ pc[j] \notin Early
  BY DEF IInv, PusherEnds, JobInv, Stages
<1>2. PipeTypes' /\ Others(j)
  BY <1>1 DEF PusherEnds, PipeTypes, Others, Same, runnerVars, jobVars, deliveryVars
<1>3. /\ ppc'[j] = "end"
      /\ UNCHANGED <<pc, proc, table, ring, status>>
      /\ UNCHANGED <<fifo, written, silent, events, count, seen, spc, line, queue, inflight, posted,
                     drops, owed>>
  BY <1>1 DEF PusherEnds, PipeTypes, runnerVars, jobVars, deliveryVars, tableVars
<1>4. /\ ~ ReaderOpen(j) /\ ~ ReaderOpen(j)' /\ ~ Handling(j) /\ ~ Handling(j)'
      /\ Holding(j)' = Holding(j) /\ Over(j) /\ Over(j)'
      /\ Sent(j)' = Sent(j) /\ Scanned(j)' = Scanned(j) /\ \A x : InRing(j, x)' = InRing(j, x)
  BY <1>1, <1>3 DEF ReaderOpen, Handling, Holding, Over, Sent, Entries, InFlight, Scanned,
     InRing
<1>5. Bounded(j)' /\ Stages(j)' /\ Numbers(j)'
  BY <1>1, <1>3, <1>4 DEF JobInv, Bounded, Stages, Numbers
<1>6. RingOrder(j)' /\ DeliveryOrder(j)' /\ Accounted(j)'
  BY <1>1, <1>3 DEF JobInv, RingOrder, DeliveryOrder, Accounted, Increasing
<1>7. SentBefore(j)' /\ Polled(j)' /\ Truthful(j)'
  BY <1>1, <1>3, <1>4 DEF JobInv, SentBefore, Polled, Truthful
<1>8. OneTerminal(j)'
  BY <1>1, <1>3, <1>4 DEF JobInv, OneTerminal, HasTerminal
<1> QED BY <1>2, <1>5, <1>6, <1>7, <1>8 DEF JobInv

-----------------------------------------------------------------------------
(* The synthesizer *)

\* It looks the job up, and claims the synthesis.
LEMMA SynthClaimsKeeps ==
  ASSUME IInv, NEW j \in Agents, SynthLooksUp(j) \/ ClaimTerminalSynthesis(j)
  PROVE  PipeTypes' /\ Others(j) /\ JobInv(j)'
<1>1. /\ JobInv(j) /\ PipeTypes /\ spc[j] \in {"lookup", "await"} /\ pc[j] \notin Early
      /\ ~ Over(j) /\ ~ Handling(j) /\ ~ ReaderOpen(j) /\ ~ Holding(j)
  <2>1. JobInv(j) /\ PipeTypes /\ spc[j] \in {"lookup", "await"}
    BY DEF IInv, SynthLooksUp, ClaimTerminalSynthesis
  <2> QED BY <2>1 DEF JobInv, Stages, Over, Handling, Holding, ReaderOpen
<1>2. PipeTypes' /\ Others(j)
  BY <1>1 DEF SynthLooksUp, ClaimTerminalSynthesis, PipeTypes, Others, Same, runnerVars, jobVars,
     deliveryVars
<1>3. /\ spc'[j] \in {"await", "claimed", "end"}
      /\ spc'[j] = "claimed" => j \in table /\ ~ seen[j]
      /\ seen'[j] = seen[j] \/ seen'[j]
      /\ UNCHANGED <<pc, proc, table, ring, status>>
      /\ UNCHANGED <<fifo, written, silent, events, count, ppc, line, queue, inflight, posted,
                     drops, owed>>
  BY <1>1 DEF SynthLooksUp, ClaimTerminalSynthesis, PipeTypes, runnerVars, jobVars, deliveryVars, tableVars
<1>4. /\ ~ ReaderOpen(j)' /\ ~ Handling(j)' /\ ~ Holding(j)'
      /\ Sent(j)' = Sent(j) /\ Scanned(j)' = Scanned(j) /\ \A x : InRing(j, x)' = InRing(j, x)
      /\ ppc[j] # "ringed"
  BY <1>1, <1>3 DEF ReaderOpen, Handling, Holding, Sent, Entries, InFlight, Scanned,
     InRing
<1>5. Bounded(j)' /\ Stages(j)' /\ Numbers(j)'
  BY <1>1, <1>3, <1>4 DEF JobInv, Bounded, Stages, Numbers, Over
<1>6. RingOrder(j)' /\ DeliveryOrder(j)' /\ Accounted(j)'
  BY <1>1, <1>3 DEF JobInv, RingOrder, DeliveryOrder, Accounted, Increasing
<1>7. SentBefore(j)' /\ Polled(j)' /\ Truthful(j)'
  BY <1>1, <1>3, <1>4 DEF JobInv, SentBefore, Polled, Truthful
<1>8. OneTerminal(j)'
  BY <1>1, <1>3, <1>4 DEF JobInv, OneTerminal, HasTerminal
<1> QED BY <1>2, <1>5, <1>6, <1>7, <1>8 DEF JobInv

\* It pushes the synthetic event.
LEMMA SynthPushesKeeps ==
  ASSUME IInv, NEW j \in Agents, SynthPushes(j)
  PROVE  PipeTypes' /\ Others(j) /\ JobInv(j)'
<1> DEFINE e == Event(count[j] + 1,
                      IF status[j] = "cancelled" THEN "synthCancelled" ELSE "synthError")
<1>1. /\ JobInv(j) /\ PipeTypes /\ spc[j] = "claimed" /\ pc[j] \notin Early
      /\ ~ Over(j) /\ ~ Handling(j) /\ ~ ReaderOpen(j) /\ line[j] = NoLine
      /\ fifo[j] = <<>> /\ count[j] \in Nat /\ events[j] \in Seq(Events)
      /\ ~ HasTerminal(events[j])
  <2>1. JobInv(j) /\ PipeTypes /\ spc[j] = "claimed"
    BY DEF IInv, SynthPushes
  <2>2. count[j] \in Nat /\ events[j] \in Seq(Events)
    BY <2>1, BoundsAreNat DEF PipeTypes
  <2>3. ~ HasTerminal(events[j])
    BY <2>1 DEF JobInv, OneTerminal, Over
  <2>4. /\ pc[j] \notin Early /\ ~ Over(j) /\ ~ Handling(j) /\ ~ ReaderOpen(j)
        /\ line[j] = NoLine /\ fifo[j] = <<>>
    BY <2>1 DEF JobInv, Stages, Over, Handling, Holding, ReaderOpen
  <2> QED BY <2>1, <2>2, <2>3, <2>4
<1>2. count[j] + 1 \in 0 .. MaxLines + 1
  <2>1. written[j] \in Nat /\ written[j] <= MaxLines /\ Len(fifo[j]) = 0
    BY <1>1, BoundsAreNat DEF PipeTypes
  <2>2. count[j] <= written[j] - Len(fifo[j])
    BY <1>1 DEF JobInv, Numbers, Scanned
  <2> QED BY <1>1, <2>1, <2>2, BoundsAreNat
<1>3. /\ e \in Events /\ e.seq = count[j] + 1 /\ e # NoLine
      /\ e.kind = "synthCancelled" => status[j] = "cancelled"
  <2>1. e \in Events
    BY <1>2 DEF Event, Events, SyntheticKinds
  <2> QED BY <2>1, EventFacts DEF Event
<1>4. /\ spc'[j] = "hand" /\ line'[j] = e /\ count'[j] = count[j] + 1
      /\ events'[j] = IF ring[j] THEN Ring!Remember(events[j], e) ELSE events[j]
      /\ UNCHANGED <<pc, proc, table, ring, status>>
      /\ UNCHANGED <<fifo, written, silent, seen, ppc, queue, inflight, posted, drops, owed>>
  BY <1>1 DEF SynthPushes, PipeTypes, runnerVars, deliveryVars, tableVars
<1> HIDE DEF e
<1>5. Pushed(j, e, events'[j], count'[j])
  <2>1. Bounded(j) /\ RingOrder(j) /\ count[j] <= count[j]
    BY <1>1 DEF JobInv
  <2> QED BY <1>1, <1>3, <1>4, <2>1, PushKeepsRing
<1>6. PipeTypes' /\ Others(j)
  <2>1. /\ count' = [count EXCEPT ![j] = count[j] + 1]
        /\ events' = [events EXCEPT ![j] = events'[j]]
        /\ line' = [line EXCEPT ![j] = e] /\ spc' = [spc EXCEPT ![j] = "hand"]
    BY <1>1 DEF SynthPushes, e, PipeTypes
  <2>2. events'[j] \in Seq(Events)
    BY <1>5 DEF Pushed
  <2>3. events' \in [Agents -> Seq(Events)] /\ \A i \in Agents \ {j} : events'[i] = events[i]
    BY <1>1, <2>1, <2>2 DEF PipeTypes
  <2>4. /\ count' \in [Agents -> 0 .. MaxLines + 1] /\ line' \in [Agents -> Events \cup {NoLine}]
        /\ spc' \in [Agents -> {"none", "lookup", "await", "claimed", "hand", "end"}]
        /\ \A i \in Agents \ {j} : count'[i] = count[i] /\ line'[i] = line[i] /\ spc'[i] = spc[i]
    BY <1>1, <1>2, <1>3, <2>1 DEF PipeTypes
  <2> QED BY <1>1, <2>3, <2>4 DEF SynthPushes, PipeTypes, Others, Same, runnerVars, deliveryVars
<1>7. /\ ~ ReaderOpen(j)' /\ ~ Handling(j)' /\ Holding(j)' /\ Over(j)'
      /\ Sent(j)' = Sent(j) /\ Scanned(j)' = Scanned(j)
  BY <1>1, <1>4 DEF ReaderOpen, Handling, Holding, Over, Sent, Entries, InFlight, Scanned
<1>8. Bounded(j)' /\ Stages(j)' /\ RingOrder(j)'
  BY <1>1, <1>3, <1>4, <1>5, <1>7 DEF JobInv, Bounded, Stages, RingOrder, Pushed, Over
<1>9. Numbers(j)' /\ DeliveryOrder(j)' /\ Accounted(j)'
  BY <1>1, <1>4, <1>7 DEF JobInv, Numbers, DeliveryOrder, Accounted, Increasing
<1>10. \A x \in Sent(j) : x \in Events /\ x.seq \in Nat
  BY <1>1, EventFacts DEF Sent, Entries, InFlight, PipeTypes
<1>11. SentBefore(j)'
  <2> SUFFICES ASSUME NEW x \in Sent(j) PROVE x.seq < line'[j].seq
    BY <1>4, <1>7 DEF SentBefore
  <2>1. x.seq <= count[j]
    BY <1>1 DEF JobInv, SentBefore
  <2> QED BY <1>1, <1>3, <1>4, <1>10, <2>1
<1>12. OneTerminal(j)'
  BY <1>1, <1>4, <1>5, <1>7 DEF JobInv, OneTerminal, Pushed
<1>13. Polled(j)'
  BY <1>1, <1>4, <1>5, <1>7, <1>10 DEF JobInv, Polled, InRing, Pushed
<1>14. Truthful(j)'
  <2>1. Entries(events'[j]) \subseteq Entries(events[j]) \cup {e}
    BY <1>5 DEF Pushed
  <2> QED BY <1>1, <1>3, <1>4, <1>7, <2>1 DEF JobInv, Truthful
<1> QED BY <1>6, <1>8, <1>9, <1>11, <1>12, <1>13, <1>14 DEF JobInv

\* It hands the event over.
LEMMA SynthHandsOverKeeps ==
  ASSUME IInv, NEW j \in Agents, SynthHandsOver(j)
  PROVE  PipeTypes' /\ Others(j) /\ JobInv(j)'
<1>1. /\ JobInv(j) /\ PipeTypes /\ spc[j] = "hand" /\ pc[j] \notin Early
      /\ Over(j) /\ ~ Handling(j) /\ ~ ReaderOpen(j) /\ Holding(j) /\ line[j] \in Events
  <2>1. JobInv(j) /\ PipeTypes /\ spc[j] = "hand"
    BY DEF IInv, SynthHandsOver
  <2> QED BY <2>1 DEF JobInv, Stages, Over, Handling, Holding, ReaderOpen, PipeTypes
<1>2. /\ spc'[j] = "end" /\ line'[j] = NoLine
      /\ UNCHANGED <<pc, proc, table, ring, status>>
      /\ UNCHANGED <<fifo, written, silent, events, count, seen, ppc>>
      /\ spc' = [spc EXCEPT ![j] = "end"] /\ line' = [line EXCEPT ![j] = NoLine]
      /\ UNCHANGED <<sentinel, webhookSet>> /\ posted' = posted
  BY <1>1 DEF SynthHandsOver, Enqueue, PipeTypes, runnerVars, jobVars, tableVars
<1>3. /\ ~ ReaderOpen(j)' /\ ~ Handling(j)' /\ ~ Holding(j)' /\ Over(j)'
      /\ Scanned(j)' = Scanned(j) /\ \A x : InRing(j, x)' = InRing(j, x)
  BY <1>1, <1>2 DEF ReaderOpen, Handling, Holding, Over, Scanned, InRing
<1>4. /\ fifo' \in [Agents -> Seq(Events)] /\ written' \in [Agents -> 0 .. MaxLines]
      /\ silent' \in [Agents -> BOOLEAN] /\ sentinel' \in [Agents -> BOOLEAN]
      /\ events' \in [Agents -> Seq(Events)] /\ count' \in [Agents -> 0 .. MaxLines + 1]
      /\ seen' \in [Agents -> BOOLEAN]
      /\ ppc' \in [Agents -> {"none", "scan", "have", "ringed", "offer", "synth", "end"}]
      /\ spc' \in [Agents -> {"none", "lookup", "await", "claimed", "hand", "end"}]
      /\ line' \in [Agents -> Events \cup {NoLine}]
      /\ posted' \in [Agents -> SUBSET Events]
      /\ webhookSet' \in BOOLEAN
  BY <1>1, <1>2 DEF PipeTypes
<1>5. /\ PipeTypes' /\ Others(j)
      /\ Len(queue'[j]) <= QueueCap
      /\ Sent(j)' \subseteq Sent(j) \cup {line[j]}
      /\ Accounted(j)' /\ DeliveryOrder(j)'
  <2>1. CASE ppc[j] # "none"
    <3>1. Enqueue(j)
      BY <2>1 DEF SynthHandsOver
    <3>2. /\ queue' \in [Agents -> Seq(Events)] /\ owed' \in [Agents -> Nat]
          /\ drops' \in [Agents -> Nat]
          /\ \A i \in Agents \ {j} : queue'[i] = queue[i] /\ owed'[i] = owed[i] /\ drops'[i] = drops[i]
          /\ Len(queue'[j]) <= QueueCap
          /\ Increasing(queue'[j])
          /\ Entries(queue'[j]) \subseteq Entries(queue[j]) \cup {line[j]}
          /\ owed'[j] = owed[j] + 1
          /\ drops'[j] + Len(queue'[j]) = drops[j] + Len(queue[j]) + 1
      BY <1>1, <3>1, EnqueueKeepsOrder
    <3>3. UNCHANGED <<inflight, attempts>>
      BY <3>1 DEF Enqueue
    <3>4. PipeTypes' /\ Others(j)
      <4>1. PipeTypes'
        BY <1>1, <1>2, <1>4, <3>2, <3>3 DEF PipeTypes
      <4>2. Others(j)
        BY <1>1, <1>2, <3>2, <3>3 DEF PipeTypes, Others, Same
      <4> QED BY <4>1, <4>2
    <3>5. Sent(j)' \subseteq Sent(j) \cup {line[j]}
      BY <1>2, <3>2, <3>3 DEF Sent, InFlight
    <3>6. Accounted(j)'
      <4>1. Len(queue[j]) \in Nat /\ drops[j] \in Nat /\ Len(queue'[j]) \in Nat /\ drops'[j] \in Nat
        BY <1>1, <3>2 DEF PipeTypes
      <4> QED BY <1>1, <3>2, <3>3, <4>1 DEF JobInv, Accounted
    <3>7. DeliveryOrder(j)'
      <4>1. \A e \in InFlight(j) \cup posted[j] : e.seq < line[j].seq
        BY <1>1 DEF JobInv, SentBefore, Sent
      <4> QED BY <1>1, <1>2, <3>2, <3>3, <4>1 DEF JobInv, DeliveryOrder, InFlight
    <3> QED BY <3>2, <3>4, <3>5, <3>6, <3>7
  <2>2. CASE ppc[j] = "none"
    <3>1. /\ queue[j] = <<>> /\ inflight[j] = NoLine /\ posted[j] = {}
      BY <1>1, <2>2 DEF JobInv, Stages
    <3>2. /\ inflight' = [inflight EXCEPT ![j] = line[j]] /\ attempts' = [attempts EXCEPT ![j] = 0]
          /\ owed' = [owed EXCEPT ![j] = @ + 1] /\ UNCHANGED <<queue, drops>>
      BY <2>2 DEF SynthHandsOver
    <3>3. PipeTypes' /\ Others(j)
      <4>1. 0 \in 0 .. MaxAttempts - 1
        BY SomethingFits
      <4>2. PipeTypes'
        <5>1. /\ inflight' \in [Agents -> Events \cup {NoLine}] /\ owed' \in [Agents -> Nat]
              /\ attempts' \in [Agents -> 0 .. MaxAttempts - 1]
          BY <1>1, <3>2, <4>1 DEF PipeTypes
        <5> QED BY <1>1, <1>4, <3>2, <5>1 DEF PipeTypes
      <4>3. Others(j)
        BY <1>1, <1>2, <3>2 DEF PipeTypes, Others, Same
      <4> QED BY <4>2, <4>3
    <3>4. Len(queue'[j]) <= QueueCap
      BY <1>1, <3>2 DEF JobInv, Bounded
    <3>5. inflight'[j] = line[j] /\ owed'[j] = owed[j] + 1 /\ line[j] # NoLine
      BY <1>1, <3>2, EventFacts DEF PipeTypes
    <3>6. Sent(j)' \subseteq Sent(j) \cup {line[j]}
      BY <1>2, <3>2, <3>5 DEF Sent, InFlight
    <3>7. Accounted(j)'
      <4>1. owed[j] \in Nat /\ drops[j] \in Nat /\ Len(queue[j]) = 0
        BY <1>1, <3>1 DEF PipeTypes
      <4> QED BY <1>1, <3>1, <3>2, <3>5, <4>1 DEF JobInv, Accounted
    <3>8. DeliveryOrder(j)'
      BY <1>1, <1>2, <3>1, <3>2 DEF JobInv, DeliveryOrder, Entries
    <3> QED BY <3>3, <3>4, <3>6, <3>7, <3>8
  <2> QED BY <2>1, <2>2
<1>6. Bounded(j)' /\ Stages(j)' /\ Numbers(j)' /\ RingOrder(j)'
  BY <1>1, <1>2, <1>3, <1>5 DEF JobInv, Bounded, Stages, Numbers, RingOrder, Increasing
<1>7. SentBefore(j)' /\ OneTerminal(j)'
  BY <1>1, <1>2, <1>3 DEF JobInv, SentBefore, OneTerminal, HasTerminal
<1>8. Polled(j)'
  <2> SUFFICES ASSUME j \in table, ring[j], NEW e \in Sent(j) \cup {line[j]} PROVE InRing(j, e)
    BY <1>1, <1>2, <1>3, <1>5 DEF Polled, Handling, Holding
  <2> QED BY <1>1 DEF JobInv, Polled
<1>9. Truthful(j)'
  <2>1. line[j] # NoLine
    BY <1>1, EventFacts
  <2> QED BY <1>1, <1>2, <1>5, <2>1 DEF JobInv, Truthful, Entries
<1> QED BY <1>5, <1>6, <1>7, <1>8, <1>9 DEF JobInv

-----------------------------------------------------------------------------
(* The deliverer *)

\* What all of its steps have in common: nothing is sent that was not sent before,
\* or waiting to be.
LEMMA DeliveryKeeps ==
  ASSUME IInv, NEW j \in Agents, PipeTypes', Others(j),
         queue[j] # <<>> \/ inflight[j] # NoLine,
         UNCHANGED <<tableVars, runnerVars, jobVars, pusherVars>>,
         Sent(j)' \subseteq Sent(j), DeliveryOrder(j)', Accounted(j)', Len(queue'[j]) <= QueueCap
  PROVE  PipeTypes' /\ Others(j) /\ JobInv(j)'
<1>1. JobInv(j) /\ ~ (ppc[j] = "none" /\ spc[j] # "end")
  BY DEF IInv, JobInv, Stages
<1>2. /\ UNCHANGED <<pc, proc, table, ring, status>>
      /\ UNCHANGED <<fifo, written, silent, events, count, seen, ppc, spc, line>>
  BY DEF runnerVars, jobVars, pusherVars, tableVars
<1>3. /\ ReaderOpen(j)' = ReaderOpen(j) /\ Handling(j)' = Handling(j) /\ Holding(j)' = Holding(j)
      /\ Over(j)' = Over(j) /\ Scanned(j)' = Scanned(j) /\ \A x : InRing(j, x)' = InRing(j, x)
  BY <1>2 DEF ReaderOpen, Handling, Holding, Over, Scanned, InRing
<1>4. Bounded(j)' /\ Stages(j)' /\ Numbers(j)' /\ RingOrder(j)'
  BY <1>1, <1>2, <1>3 DEF JobInv, Bounded, Stages, Numbers, RingOrder, Increasing
<1>5. SentBefore(j)' /\ OneTerminal(j)'
  BY <1>1, <1>2, <1>3 DEF JobInv, SentBefore, OneTerminal, HasTerminal
<1>6. Polled(j)'
  <2> SUFFICES ASSUME j \in table, ring[j]
               PROVE  /\ \A e \in Sent(j) : InRing(j, e)
                      /\ ppc[j] \in {"ringed", "offer"} \/ spc[j] = "hand" => InRing(j, line[j])
    BY <1>2, <1>3 DEF Polled
  <2> QED BY <1>1 DEF JobInv, Polled
<1>7. Truthful(j)'
  BY <1>1, <1>2 DEF JobInv, Truthful, Entries
<1> QED BY <1>4, <1>5, <1>6, <1>7 DEF JobInv

LEMMA TakeEventKeeps ==
  ASSUME IInv, NEW j \in Agents, TakeEvent(j)
  PROVE  PipeTypes' /\ Others(j) /\ JobInv(j)'
<1>1. /\ JobInv(j) /\ PipeTypes /\ queue[j] \in Seq(Events) /\ queue[j] # <<>>
      /\ inflight[j] = NoLine
  BY DEF IInv, PipeTypes, TakeEvent
<1>2. /\ Tail(queue[j]) \in Seq(Events)
      /\ Len(Tail(queue[j])) = Len(queue[j]) - 1
      /\ DOMAIN Tail(queue[j]) = 1 .. Len(queue[j]) - 1
      /\ DOMAIN queue[j] = 1 .. Len(queue[j]) /\ Len(queue[j]) \in Nat \ {0}
      /\ \A i \in 1 .. Len(queue[j]) - 1 : Tail(queue[j])[i] = queue[j][i + 1]
      /\ Head(queue[j]) = queue[j][1] /\ queue[j][1] \in Events
      /\ Entries(queue[j]) = {queue[j][1]} \cup Entries(Tail(queue[j]))
  BY <1>1, TailFacts
<1>3. /\ inflight'[j] = queue[j][1] /\ queue'[j] = Tail(queue[j]) /\ queue[j][1] # NoLine
      /\ UNCHANGED <<drops, posted, owed>>
  BY <1>1, <1>2, EventFacts DEF TakeEvent, PipeTypes
<1>4. PipeTypes' /\ Others(j)
  <2>1. /\ queue' \in [Agents -> Seq(Events)] /\ inflight' \in [Agents -> Events \cup {NoLine}]
        /\ attempts' \in [Agents -> 0 .. MaxAttempts - 1]
        /\ \A i \in Agents \ {j} : queue'[i] = queue[i] /\ inflight'[i] = inflight[i]
    BY <1>1, <1>2, SomethingFits DEF TakeEvent, PipeTypes
  <2> QED BY <1>1, <2>1 DEF TakeEvent, PipeTypes, Others, Same, runnerVars, jobVars, pusherVars
<1>5. Sent(j)' \subseteq Sent(j)
  BY <1>2, <1>3 DEF Sent, InFlight
<1>6. DeliveryOrder(j)'
  <2>1. Increasing(Tail(queue[j]))
    <3> SUFFICES ASSUME NEW i \in DOMAIN Tail(queue[j]), NEW k \in DOMAIN Tail(queue[j]), i < k
                 PROVE  Tail(queue[j])[i].seq < Tail(queue[j])[k].seq
      BY DEF Increasing
    <3>1. /\ i + 1 \in DOMAIN queue[j] /\ k + 1 \in DOMAIN queue[j] /\ i + 1 < k + 1
          /\ Tail(queue[j])[i] = queue[j][i + 1] /\ Tail(queue[j])[k] = queue[j][k + 1]
      BY <1>2
    <3> QED BY <1>1, <3>1 DEF JobInv, DeliveryOrder, Increasing
  <2>2. \A e \in Entries(Tail(queue[j])) : queue[j][1].seq < e.seq
    <3> SUFFICES ASSUME NEW i \in DOMAIN Tail(queue[j])
                 PROVE  queue[j][1].seq < Tail(queue[j])[i].seq
      BY DEF Entries
    <3>1. 1 \in DOMAIN queue[j] /\ i + 1 \in DOMAIN queue[j] /\ 1 < i + 1
      BY <1>2
    <3>2. Tail(queue[j])[i] = queue[j][i + 1]
      BY <1>2
    <3> QED BY <1>1, <3>1, <3>2 DEF JobInv, DeliveryOrder, Increasing
  <2>3. \A e \in posted[j], f \in Entries(queue[j]) : e.seq < f.seq
    BY <1>1 DEF JobInv, DeliveryOrder
  <2>4. \A e \in posted[j] : e.seq <= queue[j][1].seq
    <3>1. \A e \in posted[j] : e.seq \in Nat
      BY <1>1, EventFacts DEF PipeTypes
    <3>2. queue[j][1].seq \in Nat
      BY <1>2, EventFacts
    <3> QED BY <1>2, <2>3, <3>1, <3>2
  <2> QED BY <1>2, <1>3, <2>1, <2>2, <2>3, <2>4 DEF DeliveryOrder
<1>7. Accounted(j)'
  <2>1. owed[j] = drops[j] + Len(queue[j]) + 0 /\ drops[j] \in Nat
    BY <1>1 DEF JobInv, Accounted, PipeTypes
  <2> QED BY <1>2, <1>3, <2>1 DEF Accounted
<1>8. Len(queue'[j]) <= QueueCap
  BY <1>1, <1>2, <1>3, BoundsAreNat DEF JobInv, Bounded
<1> QED BY <1>1, <1>4, <1>5, <1>6, <1>7, <1>8, DeliveryKeeps DEF TakeEvent

\* An event leaves the deliverer, or stays with it, and may have reached the platform.
LEMMA PostKeeps ==
  ASSUME IInv, NEW j \in Agents, DropUnsent(j) \/ PostSucceeds(j) \/ PostFails(j)
  PROVE  PipeTypes' /\ Others(j) /\ JobInv(j)'
<1>1. /\ JobInv(j) /\ PipeTypes /\ inflight[j] # NoLine /\ inflight[j] \in Events
      /\ Len(queue[j]) \in Nat /\ drops[j] \in Nat /\ owed[j] \in Nat
      /\ owed[j] = drops[j] + Len(queue[j]) + 1
      /\ attempts[j] \in 0 .. MaxAttempts - 1
  <2>1. JobInv(j) /\ PipeTypes /\ inflight[j] # NoLine
    BY DEF IInv, DropUnsent, PostSucceeds, PostFails, Posts
  <2>2. Len(queue[j]) \in Nat /\ inflight[j] \in Events
    BY <2>1 DEF PipeTypes
  <2> QED BY <2>1, <2>2 DEF JobInv, Accounted, PipeTypes
<1>2. /\ UNCHANGED <<tableVars, runnerVars, jobVars, pusherVars, queue, webhookSet>>
      /\ posted' = posted \/ posted' = [posted EXCEPT ![j] = @ \cup {inflight[j]}]
      /\ \/ /\ inflight' = [inflight EXCEPT ![j] = NoLine] /\ UNCHANGED attempts
            /\ \/ drops' = [drops EXCEPT ![j] = drops[j] + 1] /\ UNCHANGED owed
               \/ owed' = [owed EXCEPT ![j] = owed[j] - 1] /\ UNCHANGED drops
         \/ /\ attempts[j] + 1 < MaxAttempts /\ attempts' = [attempts EXCEPT ![j] = attempts[j] + 1]
            /\ UNCHANGED <<inflight, drops, owed>>
  <2>1. CASE DropUnsent(j)
    BY <2>1 DEF DropUnsent
  <2>2. CASE PostSucceeds(j)
    BY <2>2 DEF PostSucceeds, Posts
  <2>3. ASSUME PostFails(j)
        PROVE  /\ UNCHANGED <<tableVars, runnerVars, jobVars, pusherVars, queue, webhookSet, owed>>
               /\ posted' = posted \/ posted' = [posted EXCEPT ![j] = @ \cup {inflight[j]}]
               /\ \/ /\ inflight' = [inflight EXCEPT ![j] = NoLine] /\ UNCHANGED attempts
                     /\ drops' = [drops EXCEPT ![j] = drops[j] + 1]
                  \/ /\ attempts[j] + 1 < MaxAttempts
                     /\ attempts' = [attempts EXCEPT ![j] = attempts[j] + 1]
                     /\ UNCHANGED <<inflight, drops>>
    BY <2>3 DEF PostFails, Posts
  <2> QED BY <2>1, <2>2, <2>3
<1>3. PipeTypes' /\ Others(j)
  <2>1. posted' \in [Agents -> SUBSET Events] /\ \A i \in Agents \ {j} : posted'[i] = posted[i]
    <3>1. posted \in [Agents -> SUBSET Events] /\ posted[j] \cup {inflight[j]} \in SUBSET Events
      BY <1>1 DEF PipeTypes
    <3>2. posted' = posted \/ posted' = [posted EXCEPT ![j] = @ \cup {inflight[j]}]
      BY <1>2
    <3> QED BY <3>1, <3>2
  <2>2. inflight' \in [Agents -> Events \cup {NoLine}] /\ \A i \in Agents \ {j} : inflight'[i] = inflight[i]
    BY <1>1, <1>2 DEF PipeTypes
  <2>3. drops' \in [Agents -> Nat] /\ \A i \in Agents \ {j} : drops'[i] = drops[i]
    <3>1. drops' = drops \/ drops' = [drops EXCEPT ![j] = drops[j] + 1]
      <4>1. CASE inflight' = inflight
        BY <1>2, <4>1
      <4>2. CASE inflight' # inflight
        BY <1>2, <4>2
      <4> QED BY <4>1, <4>2
    <3>2. drops \in [Agents -> Nat] /\ drops[j] + 1 \in Nat
      BY <1>1 DEF PipeTypes
    <3> QED BY <3>1, <3>2
  <2>4. owed' \in [Agents -> Nat] /\ \A i \in Agents \ {j} : owed'[i] = owed[i]
    <3>1. owed[j] - 1 \in Nat
      BY <1>1
    <3>2. owed' = owed \/ owed' = [owed EXCEPT ![j] = owed[j] - 1]
      BY <1>2
    <3> QED BY <1>1, <3>1, <3>2 DEF PipeTypes
  <2>5. attempts' \in [Agents -> 0 .. MaxAttempts - 1]
    <3>1. attempts[j] + 1 < MaxAttempts => attempts[j] + 1 \in 0 .. MaxAttempts - 1
      BY <1>1, SomethingFits
    <3> QED BY <1>1, <1>2, <3>1 DEF PipeTypes
  <2> QED BY <1>1, <1>2, <2>1, <2>2, <2>3, <2>4, <2>5 DEF PipeTypes, Others, Same, runnerVars, jobVars,
          pusherVars
<1>4. /\ queue'[j] = queue[j]
      /\ inflight'[j] \in {inflight[j], NoLine} /\ posted'[j] \subseteq posted[j] \cup {inflight[j]}
  BY <1>1, <1>2 DEF PipeTypes
<1>5. Sent(j)' \subseteq Sent(j)
  BY <1>1, <1>4 DEF Sent, InFlight, Entries
<1>6. DeliveryOrder(j)'
  <2>1. inflight[j].seq \in Nat /\ DeliveryOrder(j) /\ inflight[j] # NoLine
    BY <1>1, EventFacts DEF JobInv
  <2>2. Entries(queue[j])' = Entries(queue[j]) /\ Increasing(queue[j])'
    BY <1>4, <2>1 DEF DeliveryOrder, Entries, Increasing
  <2>3. /\ \A e \in Entries(queue[j]) : inflight[j].seq < e.seq
        /\ \A e \in posted[j], f \in Entries(queue[j]) : e.seq < f.seq
        /\ \A e \in posted[j] : e.seq <= inflight[j].seq
    BY <2>1 DEF DeliveryOrder
  <2>4. \A e \in posted'[j] : \/ e \in posted[j]
                             \/ e = inflight[j]
    BY <1>4
  <2>5. \A e \in posted'[j], f \in Entries(queue[j]) : e.seq < f.seq
    BY <2>3, <2>4
  <2>6. inflight'[j] # NoLine => inflight'[j] = inflight[j]
    BY <1>4
  <2>7. \A e \in posted'[j] : e.seq <= inflight[j].seq
    BY <2>1, <2>3, <2>4
  <2> QED BY <2>2, <2>3, <2>5, <2>6, <2>7 DEF DeliveryOrder
<1>7. Accounted(j)'
  <2>1. CASE inflight' = inflight
    BY <1>1, <1>2, <2>1 DEF Accounted, PipeTypes
  <2>2. CASE inflight' = [inflight EXCEPT ![j] = NoLine]
    <3>1. inflight'[j] = NoLine
      BY <1>1, <2>2 DEF PipeTypes
    <3>2. inflight' # inflight
      BY <1>1, <3>1
    <3>3. \/ owed'[j] = owed[j] - 1 /\ drops'[j] = drops[j]
          \/ owed'[j] = owed[j] /\ drops'[j] = drops[j] + 1
      BY <1>1, <1>2, <3>2 DEF PipeTypes
    <3> QED BY <1>1, <1>4, <3>1, <3>3 DEF Accounted
  <2> QED BY <1>2, <2>1, <2>2
<1>8. Len(queue'[j]) <= QueueCap
  BY <1>1, <1>4 DEF JobInv, Bounded
<1> QED BY <1>1, <1>2, <1>3, <1>5, <1>6, <1>7, <1>8, DeliveryKeeps

-----------------------------------------------------------------------------
(* The steps of a job that the pipeline takes part in *)

\* The runner starts, and the pusher with it.
LEMMA RunnerStartsKeeps ==
  ASSUME IInv, NEW j \in Agents, RunnerStarts(j)
  PROVE  PipeTypes' /\ Others(j) /\ JobInv(j)'
<1>1. JobInv(j) /\ PipeTypes /\ TableInv /\ pc[j] = "assigned" /\ pc[j] \in Early
  BY DEF IInv, RunnerStarts, Table!RunnerStarts, Early
<1>2. /\ ppc[j] = "none" /\ spc[j] = "none" /\ written[j] = 0 /\ fifo[j] = <<>> /\ queue[j] = <<>>
      /\ inflight[j] = NoLine /\ posted[j] = {} /\ events[j] = <<>> /\ count[j] = 0
      /\ line[j] = NoLine /\ Sent(j) = {}
  BY <1>1 DEF JobInv, Stages, ReaderOpen, Over, Holding, Handling, Sent, Entries, InFlight
<1>3. PipeTypes' /\ Others(j)
  BY <1>1 DEF RunnerStarts, PipeTypes, Others, Same, jobVars, deliveryVars
<1>4. /\ ppc'[j] = "scan" /\ pc'[j] = "waiting"
      /\ UNCHANGED <<table, ring, status>>
      /\ UNCHANGED <<fifo, written, silent, events, count, seen, spc, line, queue, inflight, posted,
                     drops, owed>>
  BY <1>1 DEF RunnerStarts, Table!RunnerStarts, PipeTypes, TableInv, jobVars, deliveryVars
<1>5. /\ ReaderOpen(j)' /\ ~ Handling(j)' /\ ~ Holding(j)' /\ ~ Over(j)'
      /\ Sent(j)' = {} /\ pc'[j] \notin Early
  BY <1>2, <1>4 DEF ReaderOpen, Handling, Holding, Over, Sent, Entries, InFlight, Early
<1>6. Scanned(j)' = 0
  BY <1>2, <1>4 DEF Scanned
<1>7. Bounded(j)' /\ Stages(j)' /\ Numbers(j)'
  BY <1>1, <1>2, <1>4, <1>5, <1>6 DEF JobInv, Bounded, Stages, Numbers
<1>8. RingOrder(j)' /\ DeliveryOrder(j)' /\ Accounted(j)'
  BY <1>1, <1>4 DEF JobInv, RingOrder, DeliveryOrder, Accounted, Increasing
<1>9. SentBefore(j)' /\ Polled(j)' /\ Truthful(j)'
  BY <1>1, <1>2, <1>4, <1>5 DEF JobInv, SentBefore, Polled, Truthful, Entries
<1>10. OneTerminal(j)'
  BY <1>1, <1>2, <1>4, <1>5 DEF JobInv, OneTerminal, HasTerminal
<1> QED BY <1>3, <1>7, <1>8, <1>9, <1>10 DEF JobInv

\* The job fails before it had a runner, and the synthesizer starts.
LEMMA FailJobKeeps ==
  ASSUME IInv, NEW j \in Agents, FailJob(j)
  PROVE  PipeTypes' /\ Others(j) /\ JobInv(j)'
<1>1. JobInv(j) /\ PipeTypes /\ TableInv /\ pc[j] = "failing" /\ pc[j] \in Early
  BY DEF IInv, FailJob, Table!FailJob, Early
<1>2. /\ ppc[j] = "none" /\ spc[j] = "none" /\ written[j] = 0 /\ fifo[j] = <<>> /\ queue[j] = <<>>
      /\ inflight[j] = NoLine /\ posted[j] = {} /\ events[j] = <<>> /\ count[j] = 0
      /\ line[j] = NoLine /\ Sent(j) = {}
  BY <1>1 DEF JobInv, Stages, ReaderOpen, Over, Holding, Handling, Sent, Entries, InFlight
<1>3. PipeTypes' /\ Others(j)
  BY <1>1 DEF FailJob, PipeTypes, Others, Same, runnerVars, jobVars, deliveryVars
<1>4. /\ spc'[j] = "lookup" /\ pc'[j] = "end"
      /\ UNCHANGED <<table, ring>>
      /\ UNCHANGED <<fifo, written, silent, events, count, seen, ppc, line, queue, inflight, posted,
                     drops, owed>>
  BY <1>1 DEF FailJob, Table!FailJob, PipeTypes, TableInv, runnerVars, jobVars, deliveryVars
<1>5. /\ ~ ReaderOpen(j)' /\ ~ Handling(j)' /\ ~ Holding(j)' /\ ~ Over(j)'
      /\ Sent(j)' = {} /\ pc'[j] \notin Early
  BY <1>2, <1>4 DEF ReaderOpen, Handling, Holding, Over, Sent, Entries, InFlight, Early
<1>6. Scanned(j)' = 0
  BY <1>2, <1>4 DEF Scanned
<1>7. Bounded(j)' /\ Stages(j)' /\ Numbers(j)'
  BY <1>1, <1>2, <1>4, <1>5, <1>6 DEF JobInv, Bounded, Stages, Numbers
<1>8. RingOrder(j)' /\ DeliveryOrder(j)' /\ Accounted(j)'
  BY <1>1, <1>4 DEF JobInv, RingOrder, DeliveryOrder, Accounted, Increasing
<1>9. SentBefore(j)' /\ Polled(j)' /\ Truthful(j)'
  BY <1>1, <1>2, <1>4, <1>5 DEF JobInv, SentBefore, Polled, Truthful, Entries
<1>10. OneTerminal(j)'
  BY <1>1, <1>2, <1>4, <1>5 DEF JobInv, OneTerminal, HasTerminal
<1> QED BY <1>3, <1>7, <1>8, <1>9, <1>10 DEF JobInv

-----------------------------------------------------------------------------
(* Every step keeps the invariant *)

LEMMA InitKeeps == Init => IInv
<1> SUFFICES ASSUME Init PROVE IInv
  OBVIOUS
<1>1. TableInv
  BY DEF Init, Table!Init, Table!Jobs, TableInv, Early, Table!JobPCs, Table!ProcStates
<1>2. PipeTypes
  BY BoundsAreNat, SomethingFits DEF Init, PipeTypes
<1>3. ASSUME NEW j \in Agents PROVE JobInv(j)
  <2>1. /\ pc[j] \in Early /\ proc[j] = "none" /\ table = {}
        /\ fifo[j] = <<>> /\ written[j] = 0 /\ events[j] = <<>> /\ count[j] = 0
        /\ ppc[j] = "none" /\ spc[j] = "none" /\ line[j] = NoLine /\ queue[j] = <<>>
        /\ inflight[j] = NoLine /\ posted[j] = {} /\ drops[j] = 0 /\ owed[j] = 0
    BY DEF Init, Table!Init, Table!Jobs, Early
  <2>2. /\ Len(fifo[j]) = 0 /\ Len(events[j]) = 0 /\ Len(queue[j]) = 0
        /\ DOMAIN fifo[j] = {} /\ DOMAIN events[j] = {} /\ DOMAIN queue[j] = {} /\ Scanned(j) = 0
    <3>1. Len(<<>>) = 0 /\ DOMAIN <<>> = {}
      OBVIOUS
    <3>2. Scanned(j) = 0
      <4>1. Scanned(j) = written[j] - Len(fifo[j])
        BY DEF Scanned
      <4>2. written[j] = 0 /\ Len(fifo[j]) = 0
        BY <2>1, <3>1
      <4> QED BY <4>1, <4>2
    <3> QED BY <2>1, <3>1, <3>2
  <2>3. /\ ~ ReaderOpen(j) /\ ~ Handling(j) /\ ~ Holding(j) /\ ~ Over(j) /\ Sent(j) = {}
        /\ Entries(events[j]) = {} /\ Entries(queue[j]) = {}
    BY <2>1, <2>2 DEF ReaderOpen, Handling, Holding, Over, Sent, Entries, InFlight
  <2>4. Bounded(j) /\ Stages(j) /\ Numbers(j) /\ RingOrder(j)
    BY <2>1, <2>2, <2>3, BoundsAreNat, SomethingFits DEF Bounded, Stages, Numbers, RingOrder, Increasing
  <2>5. DeliveryOrder(j) /\ SentBefore(j) /\ OneTerminal(j)
    BY <2>1, <2>2, <2>3 DEF DeliveryOrder, Increasing, SentBefore, OneTerminal, HasTerminal
  <2>6. Polled(j) /\ Truthful(j) /\ Accounted(j)
    BY <2>1, <2>2, <2>3 DEF Polled, Truthful, Accounted
  <2> QED BY <2>4, <2>5, <2>6 DEF JobInv
<1> QED BY <1>1, <1>2, <1>3 DEF IInv

\* The steps of the pipeline alone, and those that touch only one job's.
LEMMA PipelineStepKeeps ==
  ASSUME IInv, NEW j \in Agents,
         \/ PusherStep(j) \/ SynthStep(j) \/ DeliveryStep(j)
         \/ \E kind \in Kinds : RunnerWrites(j, kind)
  PROVE  UNCHANGED tableVars /\ PipeTypes' /\ Others(j) /\ JobInv(j)'
<1>1. ASSUME NEW kind \in Kinds, RunnerWrites(j, kind)
      PROVE  UNCHANGED tableVars /\ PipeTypes' /\ Others(j) /\ JobInv(j)'
  BY <1>1, RunnerWritesKeeps DEF RunnerWrites
<1>2. CASE ScanLine(j)
  BY <1>2, ScanLineKeeps DEF ScanLine
<1>3. CASE RingLine(j)
  BY <1>3, RingLineKeeps DEF RingLine
<1>4. CASE MarkTerminalEventSeen(j)
  BY <1>4, MarkTerminalEventSeenKeeps DEF MarkTerminalEventSeen
<1>5. CASE OfferLine(j)
  BY <1>5, OfferLineKeeps DEF OfferLine
<1>6. CASE StreamEnds(j)
  BY <1>6, StreamEndsKeeps DEF StreamEnds
<1>7. CASE PusherEnds(j)
  BY <1>7, PusherEndsKeeps DEF PusherEnds
<1>8. CASE SynthLooksUp(j) \/ ClaimTerminalSynthesis(j)
  BY <1>8, SynthClaimsKeeps DEF SynthLooksUp, ClaimTerminalSynthesis
<1>9. CASE SynthPushes(j)
  BY <1>9, SynthPushesKeeps DEF SynthPushes
<1>10. CASE SynthHandsOver(j)
  BY <1>10, SynthHandsOverKeeps DEF SynthHandsOver
<1>11. CASE TakeEvent(j)
  BY <1>11, TakeEventKeeps DEF TakeEvent
<1>12. CASE DropUnsent(j) \/ PostSucceeds(j) \/ PostFails(j)
  BY <1>12, PostKeeps DEF DropUnsent, PostSucceeds, PostFails
<1> QED BY <1>1, <1>2, <1>3, <1>4, <1>5, <1>6, <1>7, <1>8, <1>9, <1>10, <1>11, <1>12
        DEF PusherStep, SynthStep, DeliveryStep

\* Every step is one of JobTable's, or none of its business.
LEMMA TableMoves == [Next]_vars => [Table!Next]_tableVars
<1> SUFFICES ASSUME [Next]_vars PROVE Table!Next \/ UNCHANGED tableVars
  OBVIOUS
<1>1. CASE Environment
  BY <1>1 DEF Environment, Table!Next, Table!Jobs
<1>2. ASSUME NEW c \in Cancels, CancelStep(c) PROVE Table!Next
  BY <1>2 DEF CancelStep, Table!Next
<1>3. ASSUME NEW j \in Agents, NEW how \in {"ok", "err"}, RunnerExits(j, how) PROVE Table!Next
  BY <1>3 DEF RunnerExits, Table!Next
<1>4. ASSUME NEW j \in Agents, JobStep(j) PROVE Table!Next
  <2>1. Table!AgentStep(j)
    BY <1>4 DEF JobStep, RunnerStarts, WaitReturns, FailJob, Table!AgentStep
  <2> QED BY <2>1 DEF Table!Next
<1>5. ASSUME NEW j \in Agents,
             \/ PusherStep(j) \/ SynthStep(j) \/ DeliveryStep(j)
             \/ \E kind \in Kinds : RunnerWrites(j, kind)
      PROVE  UNCHANGED tableVars
  BY <1>5 DEF PusherStep, SynthStep, DeliveryStep, RunnerWrites, ScanLine, RingLine,
     MarkTerminalEventSeen, OfferLine, StreamEnds, PusherEnds, SynthLooksUp,
     ClaimTerminalSynthesis, SynthPushes, SynthHandsOver, TakeEvent, DropUnsent, PostSucceeds,
     PostFails
<1>6. CASE UNCHANGED vars
  BY <1>6 DEF vars
<1> QED BY <1>1, <1>2, <1>3, <1>4, <1>5, <1>6 DEF Next

LEMMA StepKeeps == IInv /\ [Next]_vars => IInv'
<1> SUFFICES ASSUME IInv, [Next]_vars PROVE IInv'
  OBVIOUS
<1>1. TableInv' /\ \A j \in Agents : TableKeeps(j)
  BY TableMoves, TableStep DEF IInv
<1>2. ASSUME NEW j \in Agents, PipeTypes', Others(j), JobInv(j)' PROVE IInv'
  <2>1. \A i \in Agents \ {j} : JobInv(i)'
    BY <1>1, <1>2, SameKeeps DEF Others, IInv
  <2> QED BY <1>1, <1>2, <2>1 DEF IInv
<1>3. ASSUME UNCHANGED <<fifo, written, silent, jobVars, pusherVars, deliveryVars>>,
             sentinel' \in [Agents -> BOOLEAN]
      PROVE  IInv'
  <2>1. PipeTypes'
    BY <1>3 DEF IInv, PipeTypes, jobVars, pusherVars, deliveryVars
  <2>2. \A j \in Agents : Same(j)
    BY <1>3 DEF Same, jobVars, pusherVars, deliveryVars
  <2>3. \A j \in Agents : JobInv(j)'
    BY <1>1, <2>2, SameKeeps DEF IInv
  <2> QED BY <1>1, <2>1, <2>3 DEF IInv
<1>4. ASSUME UNCHANGED pipeVars PROVE IInv'
  BY <1>3, <1>4 DEF pipeVars, runnerVars, jobVars, pusherVars, deliveryVars, IInv, PipeTypes
<1>5. ASSUME NEW j \in Agents, JobStep(j) PROVE IInv'
  <2>1. CASE RunnerStarts(j)
    BY <1>2, <2>1, RunnerStartsKeeps
  <2>2. CASE FailJob(j)
    BY <1>2, <2>2, FailJobKeeps
  <2>3. CASE WaitReturns(j)
    BY <1>3, <2>3 DEF WaitReturns, IInv, PipeTypes
  <2>4. CASE UNCHANGED pipeVars
    BY <1>4, <2>4
  <2> QED BY <1>5, <2>1, <2>2, <2>3, <2>4 DEF JobStep
<1>6. ASSUME NEW j \in Agents,
             \/ PusherStep(j) \/ SynthStep(j) \/ DeliveryStep(j)
             \/ \E kind \in Kinds : RunnerWrites(j, kind)
      PROVE  IInv'
  BY <1>2, <1>6, PipelineStepKeeps
<1>7. Environment \/ (\E c \in Cancels : CancelStep(c))
        \/ (\E j \in Agents, how \in {"ok", "err"} : RunnerExits(j, how)) \/ UNCHANGED vars
        => UNCHANGED pipeVars
  BY DEF Environment, CancelStep, RunnerExits, vars
<1> QED BY <1>4, <1>5, <1>6, <1>7 DEF Next

-----------------------------------------------------------------------------
(***************************************************************************)
(* The invariant holds in every reachable state.                           *)
(***************************************************************************)
THEOREM Invariance == Spec => []IInv
  BY InitKeeps, StepKeeps, PTL DEF Spec

(***************************************************************************)
(* The jobs of the pipeline are JobTable's: whatever is proved of JobTable *)
(* holds of them (job.go and agent_runner_tool.go under the pusher).       *)
(***************************************************************************)
THEOREM JobsAreJobTables == Spec => Table!Spec
<1>1. Init => Table!Init
  BY DEF Init
<1>2. [Next]_vars => [Table!Next]_Table!vars
  BY TableMoves DEF tableVars, Table!vars, Table!fields
<1> QED BY <1>1, <1>2, PTL DEF Spec, Table!Spec

-----------------------------------------------------------------------------
(* The types of JobTable's variables, which the pipeline changes with its own *)

LEMMA TableTypeStep == Table!TypeOK /\ [Table!Next]_tableVars => Table!TypeOK'
<1> USE IdsAreDistinct, EvictAfterIsNat
    DEF Table!TypeOK, Table!Jobs, Table!Final, Table!JobPCs, Table!ProcStates, Table!CancelPCs, Table!NotSet, Table!MaxAge
<1> SUFFICES ASSUME Table!TypeOK, [Table!Next]_tableVars PROVE Table!TypeOK'
  OBVIOUS
<1>1. ASSUME NEW j \in Table!Jobs, Table!StartJob(j) PROVE Table!TypeOK'
  BY <1>1 DEF Table!StartJob
<1>2. ASSUME NEW j \in Agents, Table!RejectArguments(j) PROVE Table!TypeOK'
  BY <1>2 DEF Table!RejectArguments, Table!fields
<1>3. ASSUME NEW j \in Agents, Table!AssignRing(j) PROVE Table!TypeOK'
  BY <1>3 DEF Table!AssignRing
<1>4. ASSUME NEW j \in Agents, Table!SetupFails(j) PROVE Table!TypeOK'
  BY <1>4 DEF Table!SetupFails, Table!fields
<1>5. ASSUME NEW j \in Agents, Table!AssignCmd(j) PROVE Table!TypeOK'
  BY <1>5 DEF Table!AssignCmd
<1>6. ASSUME NEW j \in Agents, Table!StartFails(j) PROVE Table!TypeOK'
  BY <1>6 DEF Table!StartFails, Table!fields
<1>7. ASSUME NEW j \in Agents, Table!RunnerStarts(j) PROVE Table!TypeOK'
  BY <1>7 DEF Table!RunnerStarts
<1>8. ASSUME NEW j \in Agents, Table!FailJob(j) PROVE Table!TypeOK'
  BY <1>8 DEF Table!FailJob, Table!Completion
<1>9. ASSUME NEW j \in Agents, Table!WaitReturns(j) PROVE Table!TypeOK'
  BY <1>9 DEF Table!WaitReturns, Table!fields
<1>10. ASSUME NEW j \in Agents, Table!WaiterRecords(j) PROVE Table!TypeOK'
  <2>1. /\ completedAge' \in [Table!Jobs -> Table!NotSet .. Table!MaxAge]
        /\ status' \in [Table!Jobs -> Table!Final \cup {"absent", "running"}]
        /\ error' \in [Table!Jobs -> BOOLEAN]
    <3>1. completedAge' \in [Table!Jobs -> Table!NotSet .. Table!MaxAge]
      BY <1>10 DEF Table!WaiterRecords, Table!Completion
    <3>2. CASE status[j] = "cancelled"
      BY <1>10, <3>1, <3>2 DEF Table!WaiterRecords
    <3>3. CASE status[j] # "cancelled"
      <4>1. status' \in [Table!Jobs -> Table!Final \cup {"absent", "running"}]
        BY <1>10, <3>3 DEF Table!WaiterRecords
      <4>2. error' \in [Table!Jobs -> BOOLEAN]
        BY <1>10, <3>3 DEF Table!WaiterRecords
      <4> QED BY <3>1, <4>1, <4>2
    <3> QED BY <3>2, <3>3
  <2>2. CASE done[j]
    BY <1>10, <2>1, <2>2, SMTT(30) DEF Table!WaiterRecords
  <2>3. CASE ~ done[j]
    <3>1. pc' = [pc EXCEPT ![j] = "closing"] /\ mu = Nobody /\ mu' = j /\ cpc' = cpc
      BY <1>10, <2>3 DEF Table!WaiterRecords
    <3>2. \A i \in Table!Jobs : pc'[i] = "closing" <=> mu' = i
      BY <3>1
    <3>3. \A c \in Cancels : /\ mu' = c => cpc'[c] \in {"nilClosing", "panicked"}
                            /\ cpc'[c] = "nilClosing" => mu' = c
      BY <3>1
    <3> QED BY <1>10, <2>1, <3>1, <3>2, <3>3 DEF Table!WaiterRecords
  <2> QED BY <2>2, <2>3
<1>11. ASSUME NEW j \in Agents, Table!WaiterCloses(j) PROVE Table!TypeOK'
  BY <1>11 DEF Table!WaiterCloses
<1>12. ASSUME NEW j \in Agents, NEW how \in {"ok", "err"}, Table!RunnerExits(j, how)
       PROVE  Table!TypeOK'
  BY <1>12 DEF Table!RunnerExits, Table!fields
<1>13. ASSUME NEW c \in Cancels, NEW j \in Table!Jobs, Table!CancelFinds(c, j) PROVE Table!TypeOK'
  BY <1>13 DEF Table!CancelFinds, Table!fields
<1>14. ASSUME NEW c \in Cancels, NEW j \in Table!Jobs, Table!CancelMisses(c, j) PROVE Table!TypeOK'
  BY <1>14 DEF Table!CancelMisses, Table!fields
<1>15. ASSUME NEW c \in Cancels, Table!CancelMarks(c) PROVE Table!TypeOK'
  BY <1>15 DEF Table!CancelMarks
<1>16. ASSUME NEW c \in Cancels, Table!CancelSignals(c) \/ Table!CancelSeesNoProcess(c)
       PROVE  Table!TypeOK'
  BY <1>16 DEF Table!CancelSignals, Table!CancelSeesNoProcess, Table!fields
<1>17. ASSUME NEW c \in Cancels, Table!CancelRecords(c) PROVE Table!TypeOK'
  <2>1. completedAge' \in [Table!Jobs -> Table!NotSet .. Table!MaxAge]
    <3>1. completedAge' = [completedAge EXCEPT ![target[c]] = Table!Completion(target[c])]
      BY <1>17 DEF Table!CancelRecords
    <3>2. CASE target[c] \in Table!Jobs
      <4>1. Table!Completion(target[c]) \in Table!NotSet .. Table!MaxAge
        BY <3>2 DEF Table!Completion
      <4> QED BY <3>1, <4>1
    <3>3. CASE target[c] \notin Table!Jobs
      BY <3>1, <3>3
    <3> QED BY <3>2, <3>3
  <2>2. CASE done[target[c]]
    BY <1>17, <2>1, <2>2 DEF Table!CancelRecords
  <2>3. CASE ~ done[target[c]]
    <3>1. cpc' = [cpc EXCEPT ![c] = "nilClosing"] /\ mu = Nobody /\ mu' = c /\ pc' = pc
      BY <1>17, <2>3 DEF Table!CancelRecords
    <3>2. \A i \in Table!Jobs : pc'[i] = "closing" <=> mu' = i
      BY <3>1
    <3>3. \A b \in Cancels : /\ mu' = b => cpc'[b] \in {"nilClosing", "panicked"}
                            /\ cpc'[b] = "nilClosing" => mu' = b
      BY <3>1
    <3> QED BY <1>17, <2>1, <3>1, <3>2, <3>3 DEF Table!CancelRecords
  <2> QED BY <2>2, <2>3
<1>18. ASSUME NEW c \in Cancels, Table!CancelRecordsCloses(c) PROVE Table!TypeOK'
  BY <1>18 DEF Table!CancelRecordsCloses
<1>19. ASSUME NEW c \in Cancels, Table!CancelSeesDone(c) PROVE Table!TypeOK'
  BY <1>19 DEF Table!CancelSeesDone, Table!fields
<1>20. ASSUME NEW c \in Cancels, Table!CancelTimesOut(c) PROVE Table!TypeOK'
  BY <1>20 DEF Table!CancelTimesOut, Table!fields
<1>21. ASSUME NEW c \in Cancels, Table!CancelChecksDone(c) PROVE Table!TypeOK'
  BY <1>21 DEF Table!CancelChecksDone, Table!fields
<1>22. ASSUME NEW c \in Cancels, Table!CancelCloses(c) PROVE Table!TypeOK'
  <2>1. cpc[c] = "closing" /\ mu # c
    BY <1>22 DEF Table!CancelCloses
  <2>2. CASE done[target[c]]
    BY <1>22, <2>1, <2>2 DEF Table!CancelCloses
  <2>3. CASE ~ done[target[c]]
    BY <1>22, <2>1, <2>3 DEF Table!CancelCloses
  <2> QED BY <2>2, <2>3
<1>23. CASE Table!Tick
  <2>1. /\ \A a \in 0 .. Table!MaxAge : Table!Older(a) \in 0 .. Table!MaxAge
        /\ \A a \in Table!NotSet .. Table!MaxAge : Table!Older(a) \in Table!NotSet .. Table!MaxAge
    BY DEF Table!Older
  <2>2. createdAge' \in [Table!Jobs -> 0 .. Table!MaxAge]
    BY <1>23, <2>1 DEF Table!Tick
  <2>3. completedAge' \in [Table!Jobs -> Table!NotSet .. Table!MaxAge]
    BY <1>23, <2>1 DEF Table!Tick
  <2>4. UNCHANGED <<table, status, error, result, done, ring, cmd, pc, proc, cpc, target, mu, crashed>>
    BY <1>23 DEF Table!Tick
  <2> QED BY <2>2, <2>3, <2>4
<1>24. CASE Table!EvictOldJobs
  BY <1>24 DEF Table!EvictOldJobs
<1>25. CASE UNCHANGED tableVars
  BY <1>25 DEF tableVars
<1> QED
  BY <1>1, <1>2, <1>3, <1>4, <1>5, <1>6, <1>7, <1>8, <1>9, <1>10, <1>11, <1>12,
     <1>13, <1>14, <1>15, <1>16, <1>17, <1>18, <1>19, <1>20, <1>21, <1>22,
     <1>23, <1>24, <1>25
  DEF Table!Next, Table!AgentStep, Table!CancelStep


LEMMA TableTypeInit == Table!Init => Table!TypeOK
<1> SUFFICES ASSUME Table!Init PROVE Table!TypeOK
  OBVIOUS
<1> USE IdsAreDistinct, EvictAfterIsNat DEF Table!Init, Table!Jobs
<1>1. 0 \in 0 .. Table!MaxAge /\ Table!NotSet \in Table!NotSet .. Table!MaxAge
  BY DEF Table!NotSet, Table!MaxAge
<1>2. \A j \in Table!Jobs : ~ (pc[j] = "closing") /\ mu # j
  OBVIOUS
<1>3. \A c \in Cancels : mu # c /\ cpc[c] # "nilClosing"
  OBVIOUS
<1> QED BY <1>1, <1>2, <1>3 DEF Table!TypeOK, Table!Final, Table!JobPCs, Table!ProcStates, Table!CancelPCs

(***************************************************************************)
(* The jobs keep their types, ages their bounds, and a held mutex is held  *)
(* by one goroutine in the middle of its critical section, next to all     *)
(* that pushers and deliverers do.                                         *)
(***************************************************************************)
THEOREM JobTypesHold == Spec => []Table!TypeOK
<1>1. Table!Spec => []Table!TypeOK
  <2>1. [Table!Next]_Table!vars => [Table!Next]_tableVars
    BY DEF Table!vars, Table!fields, tableVars
  <2> QED BY <2>1, TableTypeInit, TableTypeStep, PTL DEF Table!Spec
<1> QED BY <1>1, JobsAreJobTables, PTL

(***************************************************************************)
(* The FIFO, the ring and the queue never hold more than they may, and     *)
(* event numbers stay in range (job_event_pusher.go, job_events.go).       *)
(***************************************************************************)
THEOREM TypesHold == Spec => []PipelineTypeOK
<1>1. IInv => PipelineTypeOK
  BY DEF IInv, PipeTypes, JobInv, Bounded, PipelineTypeOK
<1> QED BY <1>1, Invariance, PTL

(***************************************************************************)
(* The whole type invariant: jobs and pipeline.                            *)
(***************************************************************************)
THEOREM TypesAreRight == Spec => []TypeOK
<1>1. Table!TypeOK /\ PipelineTypeOK => TypeOK
  BY DEF TypeOK
<1> QED BY <1>1, JobTypesHold, TypesHold, PTL

(***************************************************************************)
(* A job's ring never holds two terminal events (claimTerminalSynthesis    *)
(* against the runner's own).                                              *)
(***************************************************************************)
THEOREM TerminalIsOne == Spec => []AtMostOneTerminal
<1>1. IInv => AtMostOneTerminal
  BY DEF IInv, JobInv, OneTerminal, AtMostOneTerminal
<1> QED BY <1>1, Invariance, PTL

(***************************************************************************)
(* A synthetic terminal event sorts after every real event, whatever was   *)
(* lost (job.go:61-63).                                                    *)
(***************************************************************************)
THEOREM RingsAreOrdered == Spec => []RingIsOrdered
<1>1. IInv => RingIsOrdered
  BY DEF IInv, JobInv, RingOrder, Increasing, RingIsOrdered
<1> QED BY <1>1, Invariance, PTL

(***************************************************************************)
(* The poll path sees everything delivery sees (job_event_pusher.go:97-98),*)
(* or has forgotten it for newer events.                                   *)
(***************************************************************************)
THEOREM PollsSeeAll == Spec => []PollSeesWhatDeliverySees
<1>1. IInv => PollSeesWhatDeliverySees
  BY DEF IInv, JobInv, Polled, Sent, InRing, PollSeesWhatDeliverySees
<1> QED BY <1>1, Invariance, PTL

(***************************************************************************)
(* Every event offered to the webhook is acknowledged, counted as dropped, *)
(* or still on its way.                                                    *)
(***************************************************************************)
THEOREM NoEventIsLost == Spec => []EveryEventIsAccountedFor
<1>1. IInv => EveryEventIsAccountedFor
  BY DEF IInv, JobInv, Accounted, EveryEventIsAccountedFor
<1> QED BY <1>1, Invariance, PTL

(***************************************************************************)
(* A synthetic agent.cancelled is true of the job's status from then on.   *)
(***************************************************************************)
THEOREM CancelledIsTrue == Spec => []CancelledEventIsTrue
<1>1. IInv => CancelledEventIsTrue
  <2> SUFFICES ASSUME IInv, NEW j \in Agents, NEW e \in Entries(events[j]) \cup posted[j],
                      e.kind = "synthCancelled"
               PROVE  status[j] = "cancelled"
    BY DEF CancelledEventIsTrue
  <2> QED BY DEF IInv, JobInv, Truthful, Sent
<1> QED BY <1>1, Invariance, PTL

(***************************************************************************)
(* However often attempts fail and are repeated, and however late what was *)
(* given up arrives: no event reaches the platform before those before it  *)
(* were acknowledged or given up.                                          *)
(***************************************************************************)
THEOREM DeliveriesAreInOrder == Spec => []NothingOvertakes
<1>1. IInv => NothingOvertakes
  BY DEF IInv, JobInv, DeliveryOrder, NothingOvertakes, InFlight
<1> QED BY <1>1, Invariance, PTL

=============================================================================
