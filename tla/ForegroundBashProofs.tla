-------------------------- MODULE ForegroundBashProofs --------------------------
(***************************************************************************)
(* Proofs about BackgroundShells and ForegroundBash, for any number of     *)
(* processes, streams, readers and killers: what callers are told of a     *)
(* shell is true and complete, what they get of its output is new and in   *)
(* order, next to foreground calls with their kills as well; and what a    *)
(* foreground call answers is the truth.                                   *)
(***************************************************************************)
EXTENDS ForegroundBash, FiniteSetTheorems, SequenceTheorems, WellFoundedInduction, TLAPS

-----------------------------------------------------------------------------
(* The inductive invariant *)

Numbers == [Shells -> [Streams -> Nat]]

Types ==
  /\ proc \in [Shells -> {"none", "alive", "zombie", "reaped"}]
  /\ kids \in [Shells -> BOOLEAN] /\ monitored \in [Shells -> BOOLEAN]
  /\ exit \in [Shells -> {"none", "ok", "err"}]
  /\ wrote \in Numbers /\ copied \in Numbers /\ readAt \in Numbers
  /\ listed \subseteq Shells
  /\ exitCode \in [Shells -> {"none", "ok", "err"}]
  /\ done \in [Shells -> BOOLEAN]
  /\ rpc \in [Readers -> {"idle", "found", "read"}]
  /\ rshell \in [Readers -> Shells \cup {NoShell}]
  /\ filter \in [Readers -> {"none", "invalid"}]
  /\ fresh \in [Readers -> [Streams -> Seq(Nat)]]
  /\ kpc \in [Killers -> {"idle", "found", "checked", "killing", "answered"}]
  /\ kshell \in [Killers -> Shells \cup {NoShell}]
  /\ mu \in Readers \cup {Nobody}
  /\ shown \in [Shells -> [Streams -> Seq(Nat)]]
  /\ wasted \in [Shells -> [Streams -> SUBSET Nat]]
  /\ told \in [Shells -> {"running", "completed", "failed"}]

\* A process has an exit status once it has ended, and nothing before it runs.
ProcessesAreInOrder ==
  \A s \in Shells :
    /\ proc[s] = "none" => ~ kids[s]
    /\ proc[s] \in {"none", "alive"} <=> exit[s] = "none"
    /\ s \in listed => proc[s] # "none"
    /\ \A st \in Streams : readAt[s][st] <= copied[s][st] /\ copied[s][st] <= wrote[s][st]

\* Who is between reading and answering holds the lock; a shell that somebody
\* has found was started.
CallersAreInOrder ==
  /\ \A r \in Readers :
       /\ rpc[r] = "idle" <=> rshell[r] = NoShell
       /\ rpc[r] = "read" <=> mu = r
       /\ rpc[r] # "read" => \A st \in Streams : fresh[r][st] = <<>>
  /\ \A k \in Killers : kpc[k] \in {"found", "checked", "killing"} =>
       kshell[k] \in Shells /\ proc[kshell[k]] # "none"

\* Done is closed behind the last writer and the last chunk; what a caller holds
\* when it looks at Done was read after that, or Done was open then and still is.
OutcomesAreInOrder ==
  /\ \A s \in Shells : done[s] => WaitReturns(s) /\ exitCode[s] = exit[s]
  /\ \A s \in Shells : told[s] # "running" => readAt[s] = wrote[s] /\ told[s] = Status(s)
  /\ \A r \in Readers : rpc[r] = "read" /\ done[rshell[r]] => readAt[rshell[r]] = wrote[rshell[r]]

IInv == Types /\ ProcessesAreInOrder /\ CallersAreInOrder /\ OutcomesAreInOrder

-----------------------------------------------------------------------------
(* The output that is new *)

LEMMA FromTo ==
  ASSUME NEW a \in Nat, NEW b \in Nat, a <= b
  PROVE  /\ [i \in 1 .. b - a |-> a + i] \in Seq(Nat)
         /\ Len([i \in 1 .. b - a |-> a + i]) = b - a
<1>1. b - a \in Nat
  OBVIOUS
<1>2. \A i \in 1 .. b - a : a + i \in Nat
  OBVIOUS
<1> QED BY <1>1, <1>2

-----------------------------------------------------------------------------
(* Every step keeps the invariant *)

LEMMA InitKeeps == Init => IInv
  BY CallersAreDistinct DEF Init, IInv, Types, Numbers, Nothing, ProcessesAreInOrder,
     CallersAreInOrder, OutcomesAreInOrder

\* The processes and os/exec.
LEMMA ProcessStepKeeps ==
  ASSUME IInv, NEW s \in Shells, ProcessStep(s) PROVE IInv'
<1> USE DEF processVars, shellVars, readerVars, killerVars, history, IInv, Types, Numbers
<1>1. ASSUME NEW st \in Streams, Writes(s, st) PROVE IInv'
  <2>1. /\ wrote' \in Numbers
        /\ \A z \in Shells, q \in Streams :
             wrote'[z][q] = IF z = s /\ q = st THEN wrote[z][q] + 1 ELSE wrote[z][q]
    <3>1. wrote \in [Shells -> [Streams -> Nat]]
      OBVIOUS
    <3>2. wrote' = [wrote EXCEPT ![s][st] = @ + 1]
      BY <1>1 DEF Writes
    <3> HIDE DEF IInv, Types
    <3> QED BY <3>1, <3>2
  <2>2. ~ done[s]
    BY <1>1 DEF Writes, Writers, WaitReturns, OutcomesAreInOrder
  <2>3. ProcessesAreInOrder'
    <3>1. ASSUME NEW z \in Shells, NEW q \in Streams PROVE copied[z][q] <= wrote'[z][q]
      <4>1. copied[z][q] <= wrote[z][q] /\ copied[z][q] \in Nat /\ wrote[z][q] \in Nat
        BY DEF ProcessesAreInOrder
      <4>2. wrote'[z][q] = IF z = s /\ q = st THEN wrote[z][q] + 1 ELSE wrote[z][q]
        BY <2>1
      <4> HIDE DEF IInv, Types
      <4> QED BY <4>1, <4>2
    <3>2. UNCHANGED <<proc, kids, exit, listed, readAt, copied>>
      BY <1>1 DEF Writes
    <3> QED BY <3>1, <3>2 DEF ProcessesAreInOrder
  <2>4. \A z \in Shells : z # s => wrote'[z] = wrote[z]
    BY <1>1 DEF Writes
  <2>5. OutcomesAreInOrder'
    BY <1>1, <2>2, <2>4 DEF Writes, CallersAreInOrder, OutcomesAreInOrder, WaitReturns, Writers, Status
  <2>6. CallersAreInOrder'
    BY <1>1 DEF Writes, CallersAreInOrder
  <2> QED BY <1>1, <2>1, <2>3, <2>5, <2>6 DEF Writes
<1>2. ASSUME Forks(s) PROVE IInv'
  BY <1>2 DEF Forks, ProcessesAreInOrder, CallersAreInOrder, OutcomesAreInOrder, WaitReturns, Writers, Status
<1>3. ASSUME KidsEnd(s) PROVE IInv'
  <2>1. ProcessesAreInOrder' /\ CallersAreInOrder'
    BY <1>3 DEF KidsEnd, ProcessesAreInOrder, CallersAreInOrder
  <2>2. OutcomesAreInOrder'
    BY <1>3 DEF KidsEnd, OutcomesAreInOrder, WaitReturns, Writers, Status
  <2> QED BY <1>3, <2>1, <2>2 DEF KidsEnd
<1>4. ASSUME NEW how \in {"ok", "err"}, Exits(s, how) PROVE IInv'
  BY <1>4 DEF Exits, ProcessesAreInOrder, CallersAreInOrder, OutcomesAreInOrder, WaitReturns, Writers, Status
<1> QED BY <1>1, <1>2, <1>3, <1>4 DEF ProcessStep

\* os/exec, and the goroutine that waits for a shell.
LEMMA WaitStepKeeps ==
  ASSUME IInv, NEW s \in Shells, WaitStep(s) PROVE IInv'
<1> USE DEF processVars, shellVars, readerVars, killerVars, history, IInv, Types, Numbers
<1>1. ASSUME NEW st \in Streams, Copies(s, st) PROVE IInv'
  <2>1. /\ copied' \in Numbers
        /\ \A z \in Shells, q \in Streams :
             copied'[z][q] = IF z = s /\ q = st THEN copied[z][q] + 1 ELSE copied[z][q]
    <3>1. copied \in [Shells -> [Streams -> Nat]]
      OBVIOUS
    <3>2. copied' = [copied EXCEPT ![s][st] = @ + 1]
      BY <1>1 DEF Copies
    <3> HIDE DEF IInv, Types
    <3> QED BY <3>1, <3>2
  <2>2. ~ done[s]
    BY <1>1 DEF Copies, WaitReturns, OutcomesAreInOrder
  <2>3. ProcessesAreInOrder'
    <3>1. ASSUME NEW z \in Shells, NEW q \in Streams
          PROVE  readAt[z][q] <= copied'[z][q] /\ copied'[z][q] <= wrote[z][q]
      <4>1. /\ readAt[z][q] <= copied[z][q] /\ copied[z][q] <= wrote[z][q]
            /\ readAt[z][q] \in Nat /\ copied[z][q] \in Nat /\ wrote[z][q] \in Nat
        BY DEF ProcessesAreInOrder
      <4>2. z = s /\ q = st => copied[z][q] < wrote[z][q]
        BY <1>1 DEF Copies
      <4>3. copied'[z][q] = IF z = s /\ q = st THEN copied[z][q] + 1 ELSE copied[z][q]
        BY <2>1
      <4> HIDE DEF IInv, Types
      <4> QED BY <4>1, <4>2, <4>3
    <3>2. UNCHANGED <<proc, kids, exit, listed, readAt, wrote>>
      BY <1>1 DEF Copies
    <3> QED BY <3>1, <3>2 DEF ProcessesAreInOrder
  <2>4. CallersAreInOrder' /\ OutcomesAreInOrder'
    BY <1>1, <2>2 DEF Copies, CallersAreInOrder, OutcomesAreInOrder, WaitReturns, Writers, Status
  <2> QED BY <1>1, <2>1, <2>3, <2>4 DEF Copies
<1>2. ASSUME Reaps(s) PROVE IInv'
  BY <1>2 DEF Reaps, ProcessesAreInOrder, CallersAreInOrder, OutcomesAreInOrder, WaitReturns, Writers, Status
<1>3. ASSUME MonitorRecords(s) PROVE IInv'
  <2>1. \A r \in Readers : rpc[r] # "read"
    BY <1>3, CallersAreDistinct DEF MonitorRecords, CallersAreInOrder
  <2>2. told[s] = "running"
    BY <1>3 DEF MonitorRecords, OutcomesAreInOrder, Status
  <2> QED BY <1>3, <2>1, <2>2 DEF MonitorRecords, ProcessesAreInOrder, CallersAreInOrder,
               OutcomesAreInOrder, WaitReturns, Writers, Status
<1> QED BY <1>1, <1>2, <1>3 DEF WaitStep

LEMMA StartKeeps ==
  ASSUME IInv, NEW s \in Shells, StartBackground(s) PROVE IInv'
  BY DEF StartBackground, processVars, shellVars, readerVars, killerVars, history, IInv, Types,
     Numbers, ProcessesAreInOrder, CallersAreInOrder, OutcomesAreInOrder, WaitReturns, Writers, Status

\* bash_output.
LEMMA ReaderKeeps ==
  ASSUME IInv, NEW r \in Readers,
         ReaderStep(r) \/ \E s \in Shells : OutputFinds(r, s)
  PROVE  IInv'
<1> USE CallersAreDistinct DEF processVars, shellVars, readerVars, killerVars, history, IInv, Types, Numbers
<1>1. ASSUME NEW s \in Shells, OutputFinds(r, s) PROVE IInv'
  <2>1. PICK f \in {"none", "invalid"} : filter' = [filter EXCEPT ![r] = f]
    BY <1>1 DEF OutputFinds
  <2> QED BY <1>1, <2>1 DEF OutputFinds, ProcessesAreInOrder, CallersAreInOrder, OutcomesAreInOrder,
                 WaitReturns, Writers, Status
<1>2. ASSUME OutputReads(r) PROVE IInv'
  <2> DEFINE s == rshell[r]
  <2>1. s \in Shells
    BY <1>2 DEF OutputReads, CallersAreInOrder
  <2>2. New(s) \in [Streams -> Seq(Nat)]
    <3>1. ASSUME NEW st \in Streams PROVE New(s)[st] \in Seq(Nat)
      <4>1. /\ copied[s][st] \in Nat /\ readAt[s][st] \in Nat
            /\ readAt[s][st] <= copied[s][st]
        BY <2>1, <3>1 DEF ProcessesAreInOrder
      <4> QED BY <4>1, <3>1, FromTo DEF New
    <3> QED BY <3>1 DEF New
  <2>3. Types'
    BY <1>2, <2>1, <2>2 DEF OutputReads
  <2>4. ProcessesAreInOrder'
    BY <1>2, <2>1 DEF OutputReads, ProcessesAreInOrder
  <2>5. CallersAreInOrder'
    BY <1>2, <2>1 DEF OutputReads, CallersAreInOrder
  <2>6. done[s] => copied[s] = wrote[s]
    BY <2>1 DEF OutcomesAreInOrder, WaitReturns
  <2>7. OutcomesAreInOrder'
    BY <1>2, <2>1, <2>6 DEF OutputReads, OutcomesAreInOrder, CallersAreInOrder, WaitReturns, Writers, Status
  <2> QED BY <2>3, <2>4, <2>5, <2>7
<1>3. ASSUME OutputAnswers(r) PROVE IInv'
  <2> DEFINE s == rshell[r]
  <2>1. s \in Shells /\ fresh[r] \in [Streams -> Seq(Nat)]
    BY <1>3 DEF OutputAnswers, CallersAreInOrder
  <2>2. shown' \in [Shells -> [Streams -> Seq(Nat)]] /\ wasted' \in [Shells -> [Streams -> SUBSET Nat]]
    <3> DEFINE Added == [st \in Streams |-> shown[s][st] \o fresh[r][st]]
               Lost == [st \in Streams |-> wasted[s][st] \cup ToSet(fresh[r][st])]
    <3>1. shown \in [Shells -> [Streams -> Seq(Nat)]] /\ wasted \in [Shells -> [Streams -> SUBSET Nat]]
      OBVIOUS
    <3>2. \/ shown' = shown /\ wasted' = [wasted EXCEPT ![s] = Lost]
          \/ shown' = [shown EXCEPT ![s] = Added] /\ wasted' = wasted
      BY <1>3 DEF OutputAnswers
    <3> HIDE DEF IInv, Types
    <3>3. Added \in [Streams -> Seq(Nat)]
      BY <2>1, <3>1
    <3>4. Lost \in [Streams -> SUBSET Nat]
      <4>1. \A st \in Streams : ToSet(fresh[r][st]) \subseteq Nat
        BY <2>1 DEF ToSet
      <4> QED BY <2>1, <3>1, <4>1
    <3> HIDE DEF Added, Lost, s
    <3> QED BY <2>1, <3>1, <3>2, <3>3, <3>4
  <2>3. told' \in [Shells -> {"running", "completed", "failed"}]
    <3>1. told \in [Shells -> {"running", "completed", "failed"}]
      OBVIOUS
    <3>2. told' = told \/ told' = [told EXCEPT ![s] = Status(s)]
      BY <1>3 DEF OutputAnswers
    <3>3. Status(s) \in {"running", "completed", "failed"}
      BY DEF Status
    <3> HIDE DEF IInv, Types, s
    <3> QED BY <3>1, <3>2, <3>3
  <2>4. Types'
    <3>1. /\ UNCHANGED <<processVars, shellVars, kpc, kshell>> /\ mu' = Nobody
          /\ rpc' = [rpc EXCEPT ![r] = "idle"] /\ rshell' = [rshell EXCEPT ![r] = NoShell]
          /\ filter' = [filter EXCEPT ![r] = "none"]
          /\ fresh' = [fresh EXCEPT ![r] = [st \in Streams |-> <<>>]]
      BY <1>3 DEF OutputAnswers
    <3> QED BY <2>2, <2>3, <3>1
  <2>5. ProcessesAreInOrder' /\ CallersAreInOrder'
    BY <1>3, <2>1 DEF OutputAnswers, ProcessesAreInOrder, CallersAreInOrder
  <2>6. done[s] => readAt[s] = wrote[s]
    BY <1>3, <2>1 DEF OutputAnswers, OutcomesAreInOrder
  <2>7. OutcomesAreInOrder'
    <3>1. \A z \in Shells : told'[z] # told[z] => z = s /\ told'[z] = Status(s)
      BY <1>3, <2>1 DEF OutputAnswers
    <3>2. \A z \in Shells : Status(z)' = Status(z) /\ (Status(z) # "running" => done[z])
      BY <1>3 DEF OutputAnswers, Status
    <3>3. \A q \in Readers : rpc'[q] # "read"
      BY <1>3 DEF OutputAnswers, CallersAreInOrder
    <3>4. \A z \in Shells : done'[z] => WaitReturns(z)' /\ exitCode'[z] = exit'[z]
      BY <1>3 DEF OutputAnswers, OutcomesAreInOrder, WaitReturns, Writers
    <3>5. \A z \in Shells : told'[z] # "running" => readAt'[z] = wrote'[z] /\ told'[z] = Status(z)'
      <4> SUFFICES ASSUME NEW z \in Shells, told'[z] # "running"
                   PROVE  readAt[z] = wrote[z] /\ told'[z] = Status(z)
        BY <1>3, <3>2 DEF OutputAnswers
      <4>1. CASE told'[z] = told[z]
        BY <4>1 DEF OutcomesAreInOrder
      <4>2. CASE told'[z] # told[z]
        BY <4>2, <3>1, <3>2, <2>6
      <4> QED BY <4>1, <4>2
    <3> QED BY <3>3, <3>4, <3>5 DEF OutcomesAreInOrder
  <2> QED BY <2>4, <2>5, <2>7
<1> QED BY <1>1, <1>2, <1>3 DEF ReaderStep

\* kill_shell.  What it has found was started, and a signal changes how a process
\* ended only if that has not been waited for.
LEMMA KillerKeeps ==
  ASSUME IInv, NEW k \in Killers,
         KillerStep(k) \/ \E s \in Shells : KillFinds(k, s) \/ KillMisses(k, s)
  PROVE  IInv'
<1> USE DEF processVars, shellVars, readerVars, killerVars, history, IInv, Types, Numbers
<1>1. ASSUME NEW s \in Shells, KillFinds(k, s) PROVE IInv'
  <2>1. proc[s] # "none"
    BY <1>1 DEF KillFinds, ProcessesAreInOrder
  <2>2. CallersAreInOrder'
    BY <1>1, <2>1 DEF KillFinds, CallersAreInOrder
  <2> QED BY <1>1, <2>2 DEF KillFinds, ProcessesAreInOrder, OutcomesAreInOrder,
            WaitReturns, Writers, Status
<1>2. ASSUME NEW s \in Shells, KillMisses(k, s) PROVE IInv'
  <2>1. CallersAreInOrder'
    BY <1>2 DEF KillMisses, CallersAreInOrder
  <2> QED BY <1>2, <2>1 DEF KillMisses, ProcessesAreInOrder, OutcomesAreInOrder,
            WaitReturns, Writers, Status
<1>3. ASSUME KillChecks(k) PROVE IInv'
  <2>1. kpc[k] = "found" /\ kpc' = [kpc EXCEPT ![k] = kpc'[k]] /\ kpc'[k] \in {"answered", "checked"}
    BY <1>3 DEF KillChecks
  <2>2. CallersAreInOrder'
    BY <1>3, <2>1 DEF KillChecks, CallersAreInOrder
  <2>3. kpc' \in [Killers -> {"idle", "found", "checked", "killing", "answered"}]
    BY <2>1
  <2>4. UNCHANGED <<processVars, shellVars, readerVars, kshell, mu, history>>
    BY <1>3 DEF KillChecks
  <2> QED BY <2>2, <2>3, <2>4 DEF ProcessesAreInOrder, OutcomesAreInOrder,
            WaitReturns, Writers, Status
<1>4. ASSUME KillSignals(k) PROVE IInv'
  <2>1. kshell[k] \in Shells /\ proc[kshell[k]] # "none" /\ kpc[k] = "checked"
    BY <1>4 DEF KillSignals, CallersAreInOrder
  <2>2. kpc' = [kpc EXCEPT ![k] = kpc'[k]] /\ kpc'[k] \in {"answered", "killing"}
    BY <1>4 DEF KillSignals
  <2> DEFINE places == {"idle", "found", "checked", "killing", "answered"}
  <2>0. kpc' \in [Killers -> places]
    BY <2>2
  <2>3. CASE proc[kshell[k]] = "reaped"
    <3>1. CallersAreInOrder'
      BY <1>4, <2>1, <2>2, <2>3 DEF KillSignals, CallersAreInOrder
    <3>2. UNCHANGED <<processVars, shellVars, readerVars, kshell, mu, history>>
      BY <1>4, <2>3 DEF KillSignals
    <3> QED BY <2>0, <3>1, <3>2 DEF ProcessesAreInOrder, OutcomesAreInOrder,
              WaitReturns, Writers, Status
  <2>4. CASE proc[kshell[k]] # "reaped"
    <3>1. /\ proc' = [proc EXCEPT ![kshell[k]] = "zombie"]
          /\ exit' = [exit EXCEPT ![kshell[k]] = IF @ = "none" THEN "err" ELSE @]
          /\ UNCHANGED <<kids, wrote, monitored, shellVars, readerVars, kshell, mu, history>>
      BY <1>4, <2>4 DEF KillSignals
    <3>2. Types'
      <4>1. proc' \in [Shells -> {"none", "alive", "zombie", "reaped"}]
        BY <2>1, <3>1
      <4>2. exit' \in [Shells -> {"none", "ok", "err"}]
        BY <2>1, <3>1
      <4> QED BY <2>0, <3>1, <4>1, <4>2
    <3>3. ProcessesAreInOrder'
      BY <2>1, <2>4, <3>1 DEF ProcessesAreInOrder
    <3>4. CallersAreInOrder'
      BY <2>1, <2>2, <3>1 DEF CallersAreInOrder
    <3>5. OutcomesAreInOrder'
      BY <2>1, <2>4, <3>1 DEF OutcomesAreInOrder, WaitReturns, Writers, Status
    <3> QED BY <3>2, <3>3, <3>4, <3>5
  <2> QED BY <2>3, <2>4
<1>5. ASSUME KillRemoves(k) PROVE IInv'
  BY <1>5 DEF KillRemoves, ProcessesAreInOrder, CallersAreInOrder, OutcomesAreInOrder,
     WaitReturns, Writers, Status
<1> QED BY <1>1, <1>2, <1>3, <1>4, <1>5 DEF KillerStep

LEMMA StepKeeps == IInv /\ [Next]_vars => IInv'
<1> SUFFICES ASSUME IInv, [Next]_vars PROVE IInv'
  OBVIOUS
<1>1. CASE UNCHANGED vars
  BY <1>1 DEF vars, processVars, shellVars, readerVars, killerVars, history, IInv, Types, Numbers,
     ProcessesAreInOrder, CallersAreInOrder, OutcomesAreInOrder, WaitReturns, Writers, Status
<1>2. CASE Next
  BY <1>2, ProcessStepKeeps, WaitStepKeeps, StartKeeps, ReaderKeeps, KillerKeeps DEF Next
<1> QED BY <1>1, <1>2

-----------------------------------------------------------------------------
THEOREM Invariance == Spec => []IInv
  BY InitKeeps, StepKeeps, PTL DEF Spec

LEMMA FinalAnswersFollow == IInv => FinalAnswerIsTrue
<1> SUFFICES ASSUME IInv, NEW s \in Shells
             PROVE  /\ told[s] # "running" => ~ Writers(s) /\ readAt[s] = wrote[s] /\ told[s] = Status(s)
                    /\ Status(s) # "running" =>
                         exit[s] = (IF Status(s) = "completed" THEN "ok" ELSE "err")
  BY DEF FinalAnswerIsTrue
<1>1. Status(s) # "running" => done[s]
  BY DEF Status
<1>2. done[s] => WaitReturns(s) /\ exitCode[s] = exit[s] /\ exit[s] \in {"ok", "err"}
  BY DEF IInv, Types, ProcessesAreInOrder, OutcomesAreInOrder, WaitReturns
<1>3. told[s] # "running" => readAt[s] = wrote[s] /\ told[s] = Status(s)
  BY DEF IInv, OutcomesAreInOrder
<1> QED BY <1>1, <1>2, <1>3 DEF WaitReturns, Status

\* What a final status is worth, whoever asks and whatever else goes on: all the
\* output was taken before it, nobody can add to it, and it is how the command ended.
THEOREM FinalAnswersAreTrue == Spec => []FinalAnswerIsTrue
  BY FinalAnswersFollow, Invariance, PTL

-----------------------------------------------------------------------------
(* What is read is told once, in order *)

Rising(q) == \A i, k \in DOMAIN q : i < k => q[i] < q[k]

\* What a caller holds comes after all that was told before; the markers are
\* behind both.
MarkersAreInOrder ==
  \A s \in Shells, st \in Streams :
    /\ Rising(shown[s][st])
    /\ \A i \in DOMAIN shown[s][st] : shown[s][st][i] <= readAt[s][st]
    /\ \A r \in Readers : rshell[r] = s =>
         /\ Rising(fresh[r][st])
         /\ \A k \in DOMAIN fresh[r][st] : fresh[r][st][k] <= readAt[s][st]
         /\ \A i \in DOMAIN shown[s][st], k \in DOMAIN fresh[r][st] :
              shown[s][st][i] < fresh[r][st][k]

LEMMA RisingTogether ==
  ASSUME NEW p \in Seq(Nat), NEW q \in Seq(Nat), Rising(p), Rising(q),
         \A i \in DOMAIN p, k \in DOMAIN q : p[i] < q[k],
         NEW n \in Nat, \A i \in DOMAIN p : p[i] <= n, \A k \in DOMAIN q : q[k] <= n
  PROVE  Rising(p \o q) /\ \A i \in DOMAIN (p \o q) : (p \o q)[i] <= n
<1>1. ASSUME NEW i \in DOMAIN (p \o q)
      PROVE  \/ i \in DOMAIN p /\ (p \o q)[i] = p[i]
             \/ i > Len(p) /\ i - Len(p) \in DOMAIN q /\ (p \o q)[i] = q[i - Len(p)]
  OBVIOUS
<1>2. \A i \in DOMAIN (p \o q) : (p \o q)[i] <= n
  BY <1>1
<1>3. ASSUME NEW i \in DOMAIN (p \o q), NEW k \in DOMAIN (p \o q), i < k
      PROVE  (p \o q)[i] < (p \o q)[k]
  <2>1. i \in Nat /\ k \in Nat /\ Len(p) \in Nat /\ DOMAIN p = 1 .. Len(p)
    OBVIOUS
  <2>2. \/ i \in DOMAIN p /\ (p \o q)[i] = p[i]
        \/ i > Len(p) /\ i - Len(p) \in DOMAIN q /\ (p \o q)[i] = q[i - Len(p)]
    BY <1>1
  <2>3. \/ k \in DOMAIN p /\ (p \o q)[k] = p[k]
        \/ k > Len(p) /\ k - Len(p) \in DOMAIN q /\ (p \o q)[k] = q[k - Len(p)]
    BY <1>1
  <2>4. CASE i \in DOMAIN p /\ k \in DOMAIN p
    <3>1. (p \o q)[i] = p[i] /\ (p \o q)[k] = p[k]
      BY <2>1, <2>2, <2>3, <2>4
    <3> QED BY <3>1, <2>4, <1>3 DEF Rising
  <2>5. CASE i > Len(p) /\ k > Len(p)
    <3>1. /\ i - Len(p) \in DOMAIN q /\ (p \o q)[i] = q[i - Len(p)]
          /\ k - Len(p) \in DOMAIN q /\ (p \o q)[k] = q[k - Len(p)]
      BY <2>1, <2>2, <2>3, <2>5
    <3>2. i - Len(p) < k - Len(p)
      BY <2>1, <1>3
    <3> QED BY <3>1, <3>2 DEF Rising
  <2>6. CASE i \in DOMAIN p /\ k > Len(p)
    <3>1. (p \o q)[i] = p[i] /\ k - Len(p) \in DOMAIN q /\ (p \o q)[k] = q[k - Len(p)]
      BY <2>1, <2>2, <2>3, <2>6
    <3> QED BY <3>1, <2>6
  <2>7. ~ (i > Len(p) /\ k \in DOMAIN p)
    BY <2>1, <1>3
  <2> QED BY <2>2, <2>3, <2>4, <2>5, <2>6, <2>7
<1> QED BY <1>2, <1>3 DEF Rising

LEMMA SetOfBoth ==
  ASSUME NEW p \in Seq(Nat), NEW q \in Seq(Nat)
  PROVE  ToSet(p \o q) = ToSet(p) \cup ToSet(q)
<1>1. DOMAIN p = 1 .. Len(p) /\ DOMAIN q = 1 .. Len(q) /\ DOMAIN (p \o q) = 1 .. Len(p) + Len(q)
  OBVIOUS
<1>2. ASSUME NEW i \in DOMAIN (p \o q)
      PROVE  \/ i \in DOMAIN p /\ (p \o q)[i] = p[i]
             \/ i - Len(p) \in DOMAIN q /\ (p \o q)[i] = q[i - Len(p)]
  OBVIOUS
<1>3. ASSUME NEW i \in DOMAIN p PROVE i \in DOMAIN (p \o q) /\ (p \o q)[i] = p[i]
  OBVIOUS
<1>4. ASSUME NEW k \in DOMAIN q
      PROVE  Len(p) + k \in DOMAIN (p \o q) /\ (p \o q)[Len(p) + k] = q[k]
  OBVIOUS
<1>5. ToSet(p \o q) \subseteq ToSet(p) \cup ToSet(q)
  BY <1>2 DEF ToSet
<1>6. ToSet(p) \subseteq ToSet(p \o q)
  BY <1>3 DEF ToSet
<1>7. ToSet(q) \subseteq ToSet(p \o q)
  BY <1>4 DEF ToSet
<1> QED BY <1>5, <1>6, <1>7

LEMMA NewOutput ==
  ASSUME NEW s \in Shells, NEW st \in Streams, readAt[s][st] \in Nat, copied[s][st] \in Nat,
         readAt[s][st] <= copied[s][st]
  PROVE  /\ Rising(New(s)[st])
         /\ ToSet(New(s)[st]) = readAt[s][st] + 1 .. copied[s][st]
         /\ \A k \in DOMAIN New(s)[st] :
              New(s)[st][k] \in Nat /\ New(s)[st][k] <= copied[s][st] /\ New(s)[st][k] > readAt[s][st]
<1> DEFINE a == readAt[s][st]
           b == copied[s][st]
<1>1. DOMAIN New(s)[st] = 1 .. b - a /\ \A i \in 1 .. b - a : New(s)[st][i] = a + i
  BY DEF New
<1>2. \A c \in a + 1 .. b : c - a \in 1 .. b - a /\ a + (c - a) = c
  OBVIOUS
<1>3. ToSet(New(s)[st]) = a + 1 .. b
  <2>1. \A i \in 1 .. b - a : a + i \in a + 1 .. b
    OBVIOUS
  <2>2. ToSet(New(s)[st]) \subseteq a + 1 .. b
    BY <1>1, <2>1 DEF ToSet
  <2>3. ASSUME NEW c \in a + 1 .. b PROVE c \in ToSet(New(s)[st])
    <3>1. c - a \in DOMAIN New(s)[st] /\ New(s)[st][c - a] = c
      BY <1>1, <1>2
    <3> QED BY <3>1 DEF ToSet
  <2> QED BY <2>2, <2>3
<1>4. \A k \in DOMAIN New(s)[st] :
        New(s)[st][k] \in Nat /\ New(s)[st][k] <= b /\ New(s)[st][k] > a
  BY <1>1
<1>5. ASSUME NEW i \in DOMAIN New(s)[st], NEW k \in DOMAIN New(s)[st], i < k
      PROVE  New(s)[st][i] < New(s)[st][k]
  BY <1>1, <1>5
<1> QED BY <1>3, <1>4, <1>5 DEF Rising

InHand(s, st) == UNION {ToSet(fresh[r][st]) : r \in {q \in Readers : rshell[q] = s}}

LEMMA SkippedMeans ==
  NothingElseIsSkipped <=>
    \A s \in Shells, st \in Streams :
      1 .. readAt[s][st] = ToSet(shown[s][st]) \cup wasted[s][st] \cup InHand(s, st)
  BY DEF NothingElseIsSkipped, InHand

taken == <<readAt, shown, wasted, fresh, rshell>>

LEMMA OthersTakeNothing ==
  ASSUME IInv, [Next]_vars, ~ (\E r \in Readers : ReaderStep(r)),
         ~ (\E r \in Readers, s \in Shells : OutputFinds(r, s))
  PROVE  UNCHANGED taken
<1> USE DEF taken, processVars, shellVars, readerVars, killerVars, history
<1>1. CASE UNCHANGED vars
  BY <1>1 DEF vars
<1>2. ASSUME NEW s \in Shells, StartBackground(s) \/ ProcessStep(s) \/ WaitStep(s)
      PROVE  UNCHANGED taken
  BY <1>2 DEF StartBackground, ProcessStep, Writes, Forks, KidsEnd, Exits, WaitStep, Copies, Reaps,
     MonitorRecords
<1>3. ASSUME NEW k \in Killers, KillerStep(k) \/ \E s \in Shells : KillFinds(k, s) \/ KillMisses(k, s)
      PROVE  UNCHANGED taken
  BY <1>3 DEF KillerStep, KillFinds, KillMisses, KillChecks, KillSignals, KillRemoves
<1> QED BY <1>1, <1>2, <1>3 DEF Next

\* A caller who finds a shell holds nothing yet.
LEMMA FindingTakesNothing ==
  ASSUME IInv, NEW r \in Readers, NEW s \in Shells, OutputFinds(r, s)
  PROVE  /\ MarkersAreInOrder => MarkersAreInOrder'
         /\ NothingElseIsSkipped => NothingElseIsSkipped'
<1>1. /\ UNCHANGED <<readAt, shown, wasted, fresh>>
      /\ rshell' = [rshell EXCEPT ![r] = s]
      /\ rshell \in [Readers -> Shells \cup {NoShell}]
      /\ rshell[r] = NoShell /\ NoShell \notin Shells
      /\ \A st \in Streams : fresh[r][st] = <<>>
  BY CallersAreDistinct DEF OutputFinds, shellVars, history, IInv, Types, CallersAreInOrder
<1>2. \A st \in Streams : Rising(fresh[r][st]) /\ DOMAIN fresh[r][st] = {} /\ ToSet(fresh[r][st]) = {}
  BY <1>1 DEF Rising, ToSet
<1>3. MarkersAreInOrder => MarkersAreInOrder'
  BY <1>1, <1>2 DEF MarkersAreInOrder
<1>4. \A z \in Shells, st \in Streams : InHand(z, st)' = InHand(z, st)
  <2> SUFFICES ASSUME NEW z \in Shells, NEW st \in Streams
               PROVE  InHand(z, st)' = InHand(z, st)
    OBVIOUS
  <2>1. \A q \in Readers : q # r => (rshell'[q] = z <=> rshell[q] = z)
    BY <1>1
  <2> QED BY <1>1, <1>2, <2>1 DEF InHand
<1>5. NothingElseIsSkipped => NothingElseIsSkipped'
  <2> SUFFICES ASSUME NothingElseIsSkipped PROVE NothingElseIsSkipped'
    OBVIOUS
  <2>1. \A z \in Shells, st \in Streams :
          1 .. readAt'[z][st] = ToSet(shown'[z][st]) \cup wasted'[z][st] \cup InHand(z, st)'
    BY <1>1, <1>4, SkippedMeans
  <2> QED BY <2>1 DEF NothingElseIsSkipped, InHand
<1> QED BY <1>3, <1>5

\* Nobody holds anything while the lock is free, so that what is read follows
\* what was told.
LEMMA ReadingTakesWhatIsNew ==
  ASSUME IInv, NEW r \in Readers, OutputReads(r)
  PROVE  /\ MarkersAreInOrder => MarkersAreInOrder'
         /\ NothingElseIsSkipped => NothingElseIsSkipped'
<1> DEFINE s == rshell[r]
<1>1. /\ s \in Shells
      /\ UNCHANGED <<shown, wasted, rshell>>
      /\ fresh' = [fresh EXCEPT ![r] = New(s)] /\ fresh \in [Readers -> [Streams -> Seq(Nat)]]
      /\ readAt' = [readAt EXCEPT ![s] = copied[s]] /\ readAt \in [Shells -> [Streams -> Nat]]
      /\ shown \in [Shells -> [Streams -> Seq(Nat)]]
      /\ \A q \in Readers, st \in Streams : fresh[q][st] = <<>>
  <2>1. rpc[r] = "found" /\ mu = Nobody
    BY DEF OutputReads
  <2>2. s \in Shells
    BY <2>1 DEF IInv, Types, CallersAreInOrder
  <2>3. \A q \in Readers : rpc[q] # "read"
    BY <2>1, CallersAreDistinct DEF IInv, CallersAreInOrder
  <2>4. \A q \in Readers, st \in Streams : fresh[q][st] = <<>>
    BY <2>3 DEF IInv, CallersAreInOrder
  <2>5. /\ fresh' = [fresh EXCEPT ![r] = New(s)] /\ readAt' = [readAt EXCEPT ![s] = copied[s]]
        /\ UNCHANGED <<shown, wasted, rshell>>
    BY DEF OutputReads, history
  <2> QED BY <2>2, <2>4, <2>5 DEF IInv, Types, Numbers
<1>2. \A z \in Shells, st \in Streams :
        readAt[z][st] \in Nat /\ copied[z][st] \in Nat /\ readAt[z][st] <= copied[z][st]
  BY DEF IInv, Types, Numbers, ProcessesAreInOrder
<1>3. \A st \in Streams : /\ Rising(New(s)[st])
                          /\ ToSet(New(s)[st]) = readAt[s][st] + 1 .. copied[s][st]
                          /\ \A k \in DOMAIN New(s)[st] :
                               /\ New(s)[st][k] \in Nat
                               /\ New(s)[st][k] <= copied[s][st]
                               /\ New(s)[st][k] > readAt[s][st]
  BY <1>1, <1>2, NewOutput
<1>4. \A q \in Readers, st \in Streams :
        /\ fresh'[q][st] = IF q = r THEN New(s)[st] ELSE <<>>
        /\ DOMAIN (<<>>) = {} /\ Rising(<<>>) /\ ToSet(<<>>) = {}
  BY <1>1 DEF Rising, ToSet
<1>5. \A z \in Shells, st \in Streams :
        readAt'[z][st] = IF z = s THEN copied[s][st] ELSE readAt[z][st]
  BY <1>1
<1> HIDE DEF s
<1>6. ASSUME MarkersAreInOrder PROVE MarkersAreInOrder'
  <2> SUFFICES ASSUME NEW z \in Shells, NEW st \in Streams
               PROVE  /\ Rising(shown'[z][st])
                      /\ \A i \in DOMAIN shown'[z][st] : shown'[z][st][i] <= readAt'[z][st]
                      /\ \A q \in Readers : rshell'[q] = z =>
                           /\ Rising(fresh'[q][st])
                           /\ \A k \in DOMAIN fresh'[q][st] : fresh'[q][st][k] <= readAt'[z][st]
                           /\ \A i \in DOMAIN shown'[z][st], k \in DOMAIN fresh'[q][st] :
                                shown'[z][st][i] < fresh'[q][st][k]
    BY DEF MarkersAreInOrder
  <2>1. Rising(shown[z][st]) /\ \A i \in DOMAIN shown[z][st] : shown[z][st][i] <= readAt[z][st]
    BY <1>6 DEF MarkersAreInOrder
  <2>2. \A i \in DOMAIN shown[z][st] : shown[z][st][i] \in Nat
    BY <1>1
  <2>3. shown' = shown /\ rshell' = rshell /\ readAt[z][st] <= readAt'[z][st] /\ readAt'[z][st] \in Nat
    BY <1>1, <1>2, <1>5
  <2>4. \A i \in DOMAIN shown[z][st] : shown[z][st][i] <= readAt'[z][st]
    BY <1>2, <2>1, <2>2, <2>3
  <2>5. ASSUME NEW q \in Readers, rshell[q] = z
        PROVE  /\ Rising(fresh'[q][st])
               /\ \A k \in DOMAIN fresh'[q][st] : fresh'[q][st][k] <= readAt'[z][st]
               /\ \A i \in DOMAIN shown[z][st], k \in DOMAIN fresh'[q][st] :
                    shown[z][st][i] < fresh'[q][st][k]
    <3>1. CASE q # r
      BY <3>1, <1>4
    <3>2. CASE q = r
      <4>1. z = s /\ fresh'[q][st] = New(s)[st] /\ readAt'[z][st] = copied[s][st]
        BY <3>2, <2>5, <1>4, <1>5 DEF s
      <4>2. \A k \in DOMAIN New(s)[st] : New(s)[st][k] \in Int
        BY <1>3
      <4>3. ASSUME NEW i \in DOMAIN shown[z][st], NEW k \in DOMAIN New(s)[st]
            PROVE  shown[z][st][i] < New(s)[st][k]
        <5>1. shown[z][st][i] <= readAt[z][st] /\ New(s)[st][k] > readAt[z][st]
          BY <2>1, <4>1, <1>3
        <5>2. shown[z][st][i] \in Nat /\ New(s)[st][k] \in Int /\ readAt[z][st] \in Nat
          BY <2>2, <4>2, <1>2
        <5> QED BY <5>1, <5>2
      <4> QED BY <4>1, <4>3, <1>3
    <3> QED BY <3>1, <3>2
  <2> QED BY <2>1, <2>3, <2>4, <2>5
<1>7. ASSUME NothingElseIsSkipped PROVE NothingElseIsSkipped'
  <2> SUFFICES ASSUME NEW z \in Shells, NEW st \in Streams
               PROVE  1 .. readAt'[z][st] = ToSet(shown'[z][st]) \cup wasted'[z][st] \cup InHand(z, st)'
    BY DEF NothingElseIsSkipped, InHand
  <2>1. InHand(z, st) = {}
    BY <1>1, <1>4 DEF InHand
  <2>2. 1 .. readAt[z][st] = ToSet(shown[z][st]) \cup wasted[z][st]
    BY <1>7, <2>1, SkippedMeans
  <2>3. InHand(z, st)' = UNION {ToSet(fresh'[q][st]) : q \in {p \in Readers : rshell[p] = z}}
    BY <1>1 DEF InHand
  <2>4. CASE z # s
    <3>1. \A q \in Readers : rshell[q] = z => ToSet(fresh'[q][st]) = {}
      BY <2>4, <1>4 DEF s
    <3>2. InHand(z, st)' = {}
      BY <2>3, <3>1
    <3> QED BY <1>1, <1>5, <2>2, <2>4, <3>2
  <2>5. CASE z = s
    <3>1. \A q \in Readers : ToSet(fresh'[q][st]) = IF q = r THEN readAt[s][st] + 1 .. copied[s][st] ELSE {}
      BY <1>3, <1>4
    <3>2. InHand(z, st)' = readAt[s][st] + 1 .. copied[s][st]
      BY <2>3, <2>5, <3>1 DEF s
    <3>3. 1 .. copied[s][st] = (1 .. readAt[s][st]) \cup (readAt[s][st] + 1 .. copied[s][st])
      BY <1>2, <1>1
    <3> QED BY <1>1, <1>5, <2>2, <2>5, <3>2, <3>3
  <2> QED BY <2>4, <2>5
<1> QED BY <1>6, <1>7

\* What the caller held is told, or lost with its error.
LEMMA AnsweringTellsWhatWasHeld ==
  ASSUME IInv, NEW r \in Readers, OutputAnswers(r)
  PROVE  /\ MarkersAreInOrder => MarkersAreInOrder'
         /\ NothingElseIsSkipped => NothingElseIsSkipped'
<1> DEFINE s == rshell[r]
           Told(st) == shown[s][st] \o fresh[r][st]
<1>1. /\ rpc[r] = "read" /\ readAt' = readAt
      /\ rshell' = [rshell EXCEPT ![r] = NoShell]
      /\ fresh' = [fresh EXCEPT ![r] = [st \in Streams |-> <<>>]]
      /\ \/ /\ shown' = shown
            /\ wasted' = [wasted EXCEPT ![s] = [st \in Streams |-> @[st] \cup ToSet(fresh[r][st])]]
         \/ /\ shown' = [shown EXCEPT ![s] = [st \in Streams |-> Told(st)]]
            /\ wasted' = wasted
  BY DEF OutputAnswers, shellVars
<1>2. s \in Shells /\ NoShell \notin Shells
  BY <1>1, CallersAreDistinct DEF IInv, Types, CallersAreInOrder
<1>3. \A q \in Readers : q # r => \A st \in Streams : fresh[q][st] = <<>>
  BY <1>1 DEF IInv, CallersAreInOrder
<1>4. /\ shown \in [Shells -> [Streams -> Seq(Nat)]] /\ wasted \in [Shells -> [Streams -> SUBSET Nat]]
      /\ fresh \in [Readers -> [Streams -> Seq(Nat)]] /\ rshell \in [Readers -> Shells \cup {NoShell}]
      /\ readAt \in [Shells -> [Streams -> Nat]]
  BY DEF IInv, Types, Numbers
<1>5. \A q \in Readers, st \in Streams :
        fresh'[q][st] = <<>> /\ DOMAIN (<<>>) = {} /\ Rising(<<>>) /\ ToSet(<<>>) = {}
  BY <1>1, <1>3, <1>4 DEF Rising, ToSet
<1> HIDE DEF s
<1>6. \/ shown' = shown /\ \A z \in Shells, q \in Streams :
           wasted'[z][q] = IF z = s THEN wasted[s][q] \cup ToSet(fresh[r][q]) ELSE wasted[z][q]
      \/ wasted' = wasted /\ \A z \in Shells, q \in Streams :
           shown'[z][q] = IF z = s THEN Told(q) ELSE shown[z][q]
  <2> DEFINE Lost(st) == wasted[s][st] \cup ToSet(fresh[r][st])
  <2>1. CASE shown' = shown /\ wasted' = [wasted EXCEPT ![s] = [st \in Streams |-> Lost(st)]]
    <3> HIDE DEF Lost
    <3>1. \A z \in Shells, q \in Streams : wasted'[z][q] = IF z = s THEN Lost(q) ELSE wasted[z][q]
      BY <2>1, <1>2, <1>4
    <3> QED BY <3>1, <2>1 DEF Lost
  <2>2. CASE wasted' = wasted /\ shown' = [shown EXCEPT ![s] = [st \in Streams |-> Told(st)]]
    <3> HIDE DEF Told
    <3> QED BY <2>2, <1>2, <1>4
  <2> QED BY <2>1, <2>2, <1>1
<1>7. ASSUME MarkersAreInOrder PROVE MarkersAreInOrder'
  <2>1. ASSUME NEW z \in Shells, NEW st \in Streams
        PROVE  /\ Rising(shown'[z][st])
               /\ \A i \in DOMAIN shown'[z][st] : shown'[z][st][i] <= readAt[z][st]
    <3>1. CASE shown'[z][st] = shown[z][st]
      BY <3>1, <1>7 DEF MarkersAreInOrder
    <3>2. CASE shown'[z][st] # shown[z][st]
      <4>1. z = s /\ shown'[z][st] = Told(st)
        <5> HIDE DEF Told
        <5> QED BY <3>2, <1>6
      <4>2. /\ Rising(shown[s][st]) /\ Rising(fresh[r][st])
            /\ \A i \in DOMAIN shown[s][st] : shown[s][st][i] <= readAt[s][st]
            /\ \A k \in DOMAIN fresh[r][st] : fresh[r][st][k] <= readAt[s][st]
            /\ \A i \in DOMAIN shown[s][st], k \in DOMAIN fresh[r][st] :
                 shown[s][st][i] < fresh[r][st][k]
        BY <1>2, <1>7 DEF MarkersAreInOrder, s
      <4>3. shown[s][st] \in Seq(Nat) /\ fresh[r][st] \in Seq(Nat) /\ readAt[s][st] \in Nat
        BY <1>2, <1>4
      <4>4. Rising(Told(st)) /\ \A i \in DOMAIN Told(st) : Told(st)[i] <= readAt[s][st]
        <5> HIDE DEF Rising
        <5> QED BY <4>2, <4>3, RisingTogether
      <4> HIDE DEF Told
      <4> QED BY <4>1, <4>4
    <3> QED BY <3>1, <3>2
  <2> QED BY <2>1, <1>1, <1>5 DEF MarkersAreInOrder
<1>8. ASSUME NothingElseIsSkipped PROVE NothingElseIsSkipped'
  <2> SUFFICES ASSUME NEW z \in Shells, NEW st \in Streams
               PROVE  1 .. readAt'[z][st] = ToSet(shown'[z][st]) \cup wasted'[z][st] \cup InHand(z, st)'
    BY DEF NothingElseIsSkipped, InHand
  <2>1. InHand(z, st)' = {}
    BY <1>5 DEF InHand
  <2>2. \A q \in Readers : rshell[q] = z => ToSet(fresh[q][st]) =
                             IF q = r THEN ToSet(fresh[r][st]) ELSE {}
    BY <1>3, <1>5
  <2>3. InHand(z, st) = IF z = s THEN ToSet(fresh[r][st]) ELSE {}
    BY <2>2 DEF InHand, s
  <2>4. 1 .. readAt[z][st] = ToSet(shown[z][st]) \cup wasted[z][st] \cup InHand(z, st)
    BY <1>8, SkippedMeans
  <2>5. CASE z # s
    BY <2>1, <2>3, <2>4, <2>5, <1>1, <1>2, <1>4
  <2>6. CASE z = s
    <3>1. \/ shown'[z][st] = shown[z][st] /\ wasted'[z][st] = wasted[z][st] \cup ToSet(fresh[r][st])
          \/ shown'[z][st] = Told(st) /\ wasted'[z][st] = wasted[z][st]
      <4> HIDE DEF Told
      <4> QED BY <2>6, <1>6
    <3>2. ToSet(Told(st)) = ToSet(shown[z][st]) \cup ToSet(fresh[r][st])
      BY <2>6, <1>2, <1>4, SetOfBoth
    <3> HIDE DEF Told
    <3> QED BY <3>1, <3>2, <2>1, <2>3, <2>4, <2>6, <1>1
  <2> QED BY <2>5, <2>6
<1> QED BY <1>7, <1>8

LEMMA StepKeepsOrder ==
  IInv /\ [Next]_vars => /\ MarkersAreInOrder => MarkersAreInOrder'
                         /\ NothingElseIsSkipped => NothingElseIsSkipped'
<1> SUFFICES ASSUME IInv, [Next]_vars
             PROVE  /\ MarkersAreInOrder => MarkersAreInOrder'
                    /\ NothingElseIsSkipped => NothingElseIsSkipped'
  OBVIOUS
<1>1. ASSUME NEW r \in Readers, ReaderStep(r)
      PROVE  /\ MarkersAreInOrder => MarkersAreInOrder'
             /\ NothingElseIsSkipped => NothingElseIsSkipped'
  BY <1>1, ReadingTakesWhatIsNew, AnsweringTellsWhatWasHeld DEF ReaderStep
<1>2. ASSUME NEW r \in Readers, NEW s \in Shells, OutputFinds(r, s)
      PROVE  /\ MarkersAreInOrder => MarkersAreInOrder'
             /\ NothingElseIsSkipped => NothingElseIsSkipped'
  BY <1>2, FindingTakesNothing
<1>3. CASE UNCHANGED taken
  BY <1>3 DEF taken, MarkersAreInOrder, NothingElseIsSkipped
<1> QED BY <1>1, <1>2, <1>3, OthersTakeNothing

LEMMA InitKeepsOrder == Init => MarkersAreInOrder /\ NothingElseIsSkipped
<1> SUFFICES ASSUME Init PROVE MarkersAreInOrder /\ NothingElseIsSkipped
  OBVIOUS
<1>1. \A s \in Shells, st \in Streams :
        readAt[s][st] = 0 /\ shown[s][st] = <<>> /\ wasted[s][st] = {}
  BY DEF Init, Nothing
<1>2. \A r \in Readers : rshell[r] \notin Shells
  BY CallersAreDistinct DEF Init
<1>3. DOMAIN (<<>>) = {} /\ Rising(<<>>) /\ ToSet(<<>>) = {} /\ 1 .. 0 = {}
  BY DEF Rising, ToSet
<1>4. \A s \in Shells, st \in Streams : InHand(s, st) = {}
  BY <1>2 DEF InHand
<1> QED BY <1>1, <1>2, <1>3, <1>4, SkippedMeans DEF MarkersAreInOrder

LEMMA OutputIsNewFollows == MarkersAreInOrder => OutputIsNew
  BY DEF MarkersAreInOrder, OutputIsNew, Rising

\* No output is told twice, or out of order, however many callers there are and
\* whatever arrives while they read.
THEOREM OutputStaysNew == Spec => []OutputIsNew
  BY OutputIsNewFollows, InitKeeps, StepKeeps, InitKeepsOrder, StepKeepsOrder, PTL DEF Spec

\* What the markers have passed was told, is about to be, or was lost with the
\* error about an invalid filter.
THEOREM NothingStaysBehind == Spec => []NothingElseIsSkipped
  BY InitKeeps, StepKeeps, InitKeepsOrder, StepKeepsOrder, PTL DEF Spec

-----------------------------------------------------------------------------
(* The inductive invariant, with foreground calls *)

CallTypes ==
  /\ call \in [Shells -> {"none", "running", "answered"}]
  /\ ctx \in [Shells -> {"open", "deadline", "cancelled"}]
  /\ killed \in [Shells -> BOOLEAN]
  /\ interrupted \in [Shells -> BOOLEAN]
  /\ said \in [Shells -> {"none", "output", "tooBig", "exited", "timedOut", "failed"}]

\* A SIGKILL that ended a process is how that has ended; an answer was given when
\* there was no process, or nothing more could come of it.
CallsAreInOrder ==
  \A s \in Shells :
    /\ killed[s] => exit[s] = "err"
    /\ interrupted[s] => ctx[s] # "open"
    /\ call[s] # "answered" => said[s] = "none"
    /\ call[s] = "answered" => proc[s] = "none" \/ WaitReturns(s)
    /\ said[s] \in {"output", "tooBig", "exited"} => proc[s] # "none"

CallInv == CallTypes /\ CallsAreInOrder /\ ForegroundAnswerIsTrue

ShellInv == IInv /\ MarkersAreInOrder /\ NothingElseIsSkipped

BashInv == ShellInv /\ CallInv

-----------------------------------------------------------------------------
LEMMA BashInitKeeps == BashInit => BashInv
  BY InitKeeps, InitKeepsOrder DEF BashInit, Init, BashInv, ShellInv, CallInv, CallTypes, CallsAreInOrder,
     ForegroundAnswerIsTrue

\* How a process has ended does not change, and nothing comes of it any more once
\* it has been waited for.
EndStays(s) ==
  /\ exit[s] # "none" => exit'[s] = exit[s]
  /\ proc[s] # "none" => proc'[s] # "none"
  /\ WaitReturns(s) => WaitReturns(s)' /\ UNCHANGED <<copied[s], wrote[s]>>

LEMMA EndsStay ==
  ASSUME IInv, [Next]_vars, NEW s \in Shells PROVE EndStays(s)
<1> USE DEF processVars, shellVars, readerVars, killerVars, history
<1>0. /\ proc \in [Shells -> {"none", "alive", "zombie", "reaped"}] /\ kids \in [Shells -> BOOLEAN]
      /\ exit \in [Shells -> {"none", "ok", "err"}]
      /\ copied \in [Shells -> [Streams -> Nat]] /\ wrote \in [Shells -> [Streams -> Nat]]
      /\ \A z \in Shells : proc[z] \in {"none", "alive"} <=> exit[z] = "none"
      /\ \A z \in Shells : proc[z] = "none" => ~ kids[z]
  BY DEF IInv, Types, Numbers, ProcessesAreInOrder
<1>1. CASE UNCHANGED <<proc, kids, exit, copied, wrote>>
  BY <1>1 DEF EndStays, WaitReturns, Writers
<1>2. ASSUME NEW z \in Shells, StartBackground(z) PROVE EndStays(s)
  BY <1>0, <1>2 DEF StartBackground, EndStays, WaitReturns, Writers
<1>3. ASSUME NEW z \in Shells, NEW st \in Streams, Writes(z, st) PROVE EndStays(s)
  <2>1. Writers(z) /\ wrote' = [wrote EXCEPT ![z][st] = @ + 1] /\ UNCHANGED <<proc, kids, exit, copied>>
    BY <1>3 DEF Writes
  <2>2. s # z => wrote'[s] = wrote[s]
    BY <1>0, <2>1
  <2>3. s = z => ~ WaitReturns(s)
    BY <2>1 DEF WaitReturns
  <2> QED BY <2>1, <2>2, <2>3 DEF EndStays, WaitReturns, Writers
<1>4. ASSUME NEW z \in Shells, Forks(z) \/ KidsEnd(z) PROVE EndStays(s)
  BY <1>0, <1>4 DEF Forks, KidsEnd, EndStays, WaitReturns, Writers
<1>5. ASSUME NEW z \in Shells, NEW how \in {"ok", "err"}, Exits(z, how) PROVE EndStays(s)
  BY <1>0, <1>5 DEF Exits, EndStays, WaitReturns, Writers
<1>6. ASSUME NEW z \in Shells, NEW st \in Streams, Copies(z, st) PROVE EndStays(s)
  <2>1. /\ copied[z][st] < wrote[z][st] /\ copied' = [copied EXCEPT ![z][st] = @ + 1]
        /\ UNCHANGED <<proc, kids, exit, wrote>>
    BY <1>6 DEF Copies
  <2>2. s # z => copied'[s] = copied[s]
    BY <1>0, <2>1
  <2>3. s = z => ~ WaitReturns(s)
    <3>1. copied[z][st] # wrote[z][st]
      BY <1>0, <2>1
    <3> QED BY <3>1 DEF WaitReturns
  <2> QED BY <2>1, <2>2, <2>3 DEF EndStays, WaitReturns, Writers
<1>7. ASSUME NEW z \in Shells, Reaps(z) PROVE EndStays(s)
  BY <1>0, <1>7 DEF Reaps, EndStays, WaitReturns, Writers
<1>8. ASSUME NEW k \in Killers, KillSignals(k) PROVE EndStays(s)
  <2>1. CASE UNCHANGED processVars
    BY <1>8, <2>1, <1>1 DEF KillSignals
  <2>2. CASE proc[kshell[k]] # "reaped" /\ proc' = [proc EXCEPT ![kshell[k]] = "zombie"]
    <3>1. kshell[k] \in Shells /\ proc[kshell[k]] # "none"
      BY <1>8 DEF KillSignals, IInv, CallersAreInOrder
    <3>2. /\ exit' = [exit EXCEPT ![kshell[k]] = IF @ = "none" THEN "err" ELSE @]
          /\ UNCHANGED <<kids, copied, wrote>>
      BY <1>8, <2>2 DEF KillSignals
    <3> QED BY <1>0, <2>2, <3>1, <3>2 DEF EndStays, WaitReturns, Writers
  <2> QED BY <1>8, <2>1, <2>2 DEF KillSignals
<1>9. ASSUME NEW z \in Shells, MonitorRecords(z) PROVE EndStays(s)
  BY <1>1, <1>9 DEF MonitorRecords
<1>10. ASSUME NEW r \in Readers, ReaderStep(r) \/ \E z \in Shells : OutputFinds(r, z)
       PROVE  EndStays(s)
  BY <1>1, <1>10 DEF ReaderStep, OutputFinds, OutputReads, OutputAnswers
<1>11. ASSUME NEW k \in Killers,
              \/ KillChecks(k) \/ KillRemoves(k)
              \/ \E z \in Shells : KillFinds(k, z) \/ KillMisses(k, z)
       PROVE  EndStays(s)
  BY <1>1, <1>11 DEF KillChecks, KillRemoves, KillFinds, KillMisses
<1>12. CASE UNCHANGED vars
  BY <1>1, <1>12 DEF vars
<1>13. ASSUME NEW z \in Shells, StartBackground(z) \/ ProcessStep(z) \/ WaitStep(z)
       PROVE  EndStays(s)
  BY <1>2, <1>3, <1>4, <1>5, <1>6, <1>7, <1>9, <1>13 DEF ProcessStep, WaitStep
<1>14. ASSUME NEW k \in Killers,
              KillerStep(k) \/ \E z \in Shells : KillFinds(k, z) \/ KillMisses(k, z)
       PROVE  EndStays(s)
  BY <1>8, <1>11, <1>14 DEF KillerStep
<1> QED BY <1>10, <1>12, <1>13, <1>14 DEF Next

\* Nothing else starts a process than StartBackground.
OtherStep ==
  \/ \E s \in Shells : ProcessStep(s) \/ WaitStep(s)
  \/ \E r \in Readers, s \in Shells : OutputFinds(r, s)
  \/ \E r \in Readers : ReaderStep(r)
  \/ \E k \in Killers, s \in Shells : KillFinds(k, s) \/ KillMisses(k, s)
  \/ \E k \in Killers : KillerStep(k)

LEMMA OthersDoNotStart ==
  ASSUME IInv, OtherStep, NEW s \in Shells, proc[s] = "none" PROVE proc'[s] = "none"
<1> USE DEF processVars
<1>1. proc \in [Shells -> {"none", "alive", "zombie", "reaped"}]
  BY DEF IInv, Types
<1>2. ASSUME NEW z \in Shells, ProcessStep(z) PROVE proc'[s] = "none"
  BY <1>1, <1>2 DEF ProcessStep, Writes, Forks, KidsEnd, Exits
<1>3. ASSUME NEW z \in Shells, WaitStep(z) PROVE proc'[s] = "none"
  BY <1>1, <1>3 DEF WaitStep, Copies, Reaps, MonitorRecords
<1>4. ASSUME NEW r \in Readers, ReaderStep(r) \/ \E z \in Shells : OutputFinds(r, z)
      PROVE  proc'[s] = "none"
  BY <1>4 DEF ReaderStep, OutputFinds, OutputReads, OutputAnswers
<1>5. ASSUME NEW k \in Killers, KillSignals(k) PROVE proc'[s] = "none"
  <2>1. kshell[k] # s
    BY <1>5 DEF KillSignals, IInv, CallersAreInOrder
  <2> QED BY <1>1, <1>5, <2>1 DEF KillSignals
<1>6. ASSUME NEW k \in Killers,
             \/ KillChecks(k) \/ KillRemoves(k)
             \/ \E z \in Shells : KillFinds(k, z) \/ KillMisses(k, z)
      PROVE  proc'[s] = "none"
  BY <1>6 DEF KillChecks, KillRemoves, KillFinds, KillMisses
<1> QED BY <1>2, <1>3, <1>4, <1>5, <1>6 DEF OtherStep, KillerStep

\* Steps of shells and their callers do not change what foreground calls said.
LEMMA ShellStepsKeepCalls ==
  ASSUME IInv, CallInv, [Next]_vars, UNCHANGED callVars,
         \A s \in Shells : proc[s] = "none" /\ call[s] # "none" => proc'[s] = "none"
  PROVE  CallInv'
<1>1. \A s \in Shells : EndStays(s)
  BY EndsStay
<1>2. UNCHANGED <<call, ctx, killed, interrupted, said>>
  BY DEF callVars
<1>3. CallTypes'
  BY <1>2 DEF CallInv, CallTypes
<1>4. ASSUME NEW s \in Shells
      PROVE  call[s] = "answered" => (proc[s] = "none" /\ proc'[s] = "none") \/ WaitReturns(s)'
  <2>1. call[s] = "answered" => proc[s] = "none" \/ WaitReturns(s)
    BY DEF CallInv, CallsAreInOrder
  <2> QED BY <2>1, <1>1 DEF EndStays
<1>5. CallsAreInOrder'
  BY <1>1, <1>2, <1>4 DEF CallInv, CallsAreInOrder, EndStays
<1>6. ForegroundAnswerIsTrue'
  <2> SUFFICES ASSUME NEW s \in Shells
               PROVE  /\ said'[s] \in {"output", "tooBig"} =>
                           exit'[s] = "ok" /\ ~ killed'[s] /\ ~ Writers(s)' /\ copied'[s] = wrote'[s]
                      /\ said'[s] = "exited" => exit'[s] = "err" /\ ~ killed'[s]
                      /\ said'[s] = "timedOut" => killed'[s] \/ ctx'[s] = "deadline"
                      /\ said'[s] = "failed" => proc'[s] = "none" \/ ctx'[s] = "cancelled"
    BY DEF ForegroundAnswerIsTrue
  <2>1. said[s] # "none" => call[s] = "answered"
    BY DEF CallInv, CallsAreInOrder
  <2>2. said[s] \in {"output", "tooBig", "exited"} => WaitReturns(s)'
    BY <1>4, <2>1 DEF CallInv, CallsAreInOrder
  <2>3. exit[s] # "none" => exit'[s] = exit[s]
    BY <1>1 DEF EndStays
  <2>4. said[s] = "failed" => proc'[s] = "none" \/ ctx'[s] = "cancelled"
    <3>1. proc[s] = "none" /\ said[s] = "failed" => proc'[s] = "none"
      BY <1>1, <2>1 DEF EndStays
    <3> QED BY <3>1, <1>2 DEF CallInv, ForegroundAnswerIsTrue
  <2> QED BY <1>2, <2>2, <2>3, <2>4 DEF CallInv, ForegroundAnswerIsTrue, WaitReturns
<1> QED BY <1>3, <1>5, <1>6 DEF CallInv

\* A SIGKILL leaves alone what has been waited for, and so all that callers of
\* the shell tools rely on.
LEMMA KillKeepsShells ==
  ASSUME ShellInv, NEW s \in Shells, Kill(s),
         UNCHANGED <<kids, wrote, monitored, shellVars, readerVars, killerVars, mu, history>>
  PROVE  ShellInv'
<1> USE DEF shellVars, readerVars, killerVars, history
<1>1. /\ proc' = [proc EXCEPT ![s] = "zombie"] /\ proc[s] \in {"alive", "zombie"}
      /\ exit' = [exit EXCEPT ![s] = IF @ = "none" THEN "err" ELSE @]
      /\ UNCHANGED <<kids, wrote, listed, copied, readAt, exitCode, done, rpc, rshell, filter, fresh,
                     kpc, kshell, mu, shown, wasted, told>>
  BY DEF Kill
<1>2. Types'
  <2>1. proc' \in [Shells -> {"none", "alive", "zombie", "reaped"}]
    BY <1>1 DEF ShellInv, IInv, Types
  <2>2. exit' \in [Shells -> {"none", "ok", "err"}]
    BY <1>1 DEF ShellInv, IInv, Types
  <2> QED BY <1>1, <2>1, <2>2 DEF ShellInv, IInv, Types
<1>3. ProcessesAreInOrder'
  BY <1>1 DEF ShellInv, IInv, Types, ProcessesAreInOrder
<1>4. CallersAreInOrder'
  BY <1>1 DEF ShellInv, IInv, Types, CallersAreInOrder
<1>5. OutcomesAreInOrder'
  BY <1>1 DEF ShellInv, IInv, Types, OutcomesAreInOrder, WaitReturns, Writers, Status
<1>6. MarkersAreInOrder' /\ NothingElseIsSkipped'
  BY <1>1 DEF ShellInv, MarkersAreInOrder, NothingElseIsSkipped
<1> QED BY <1>2, <1>3, <1>4, <1>5, <1>6 DEF ShellInv, IInv

\* Nor does it change what was answered.
LEMMA KillKeepsCalls ==
  ASSUME IInv, CallInv, NEW s \in Shells, Kill(s),
         UNCHANGED <<kids, wrote, copied, call, ctx, said>>,
         interrupted' \in [Shells -> BOOLEAN],
         \A z \in Shells : interrupted'[z] => ctx[z] # "open"
  PROVE  CallInv'
<1>1. /\ proc' = [proc EXCEPT ![s] = "zombie"] /\ proc[s] \in {"alive", "zombie"}
      /\ exit' = [exit EXCEPT ![s] = IF @ = "none" THEN "err" ELSE @]
      /\ killed' = [killed EXCEPT ![s] = @ \/ exit[s] = "none"]
  BY DEF Kill
<1>2. /\ proc \in [Shells -> {"none", "alive", "zombie", "reaped"}]
      /\ exit \in [Shells -> {"none", "ok", "err"}] /\ killed \in [Shells -> BOOLEAN]
  BY DEF IInv, Types, CallInv, CallTypes
<1>3. call[s] # "answered"
  BY <1>1 DEF CallInv, CallsAreInOrder, WaitReturns
<1>4. said[s] = "none"
  BY <1>3 DEF CallInv, CallsAreInOrder
<1>5. \A z \in Shells : z # s => proc'[z] = proc[z] /\ exit'[z] = exit[z] /\ killed'[z] = killed[z]
  BY <1>1, <1>2
<1>6. CallTypes'
  <2>1. killed' \in [Shells -> BOOLEAN]
    BY <1>1, <1>2
  <2> QED BY <2>1 DEF CallInv, CallTypes
<1>7. killed'[s] => exit'[s] = "err"
  <2>1. killed[s] => exit[s] = "err"
    BY DEF CallInv, CallsAreInOrder
  <2>2. /\ exit'[s] = IF exit[s] = "none" THEN "err" ELSE exit[s]
        /\ killed'[s] <=> killed[s] \/ exit[s] = "none"
    BY <1>1, <1>2
  <2> QED BY <2>1, <2>2
<1>8. CallsAreInOrder'
  BY <1>3, <1>4, <1>5, <1>7 DEF CallInv, CallsAreInOrder, WaitReturns, Writers
<1>9. ForegroundAnswerIsTrue'
  BY <1>4, <1>5 DEF CallInv, ForegroundAnswerIsTrue, Writers
<1> QED BY <1>6, <1>8, <1>9 DEF CallInv

LEMMA StartKeepsAll ==
  ASSUME BashInv, NEW s \in Shells, StartForeground(s) PROVE BashInv'
<1> USE DEF shellVars, readerVars, killerVars, history
<1>1. /\ proc[s] = "none" /\ call[s] = "none"
      /\ UNCHANGED <<kids, exit, wrote, monitored, listed, copied, readAt, exitCode, done, rpc, rshell, filter, fresh,
                     kpc, kshell, mu, shown, wasted, told, ctx, killed, interrupted>>
      /\ \/ /\ proc' = [proc EXCEPT ![s] = "alive"] /\ call' = [call EXCEPT ![s] = "running"]
            /\ said' = said
         \/ /\ proc' = proc /\ call' = [call EXCEPT ![s] = "answered"]
            /\ said' = [said EXCEPT ![s] = "failed"]
  BY DEF StartForeground
<1>2. /\ proc \in [Shells -> {"none", "alive", "zombie", "reaped"}]
      /\ call \in [Shells -> {"none", "running", "answered"}]
      /\ said \in [Shells -> {"none", "output", "tooBig", "exited", "timedOut", "failed"}]
  BY DEF BashInv, ShellInv, IInv, Types, CallInv, CallTypes
<1>3. /\ proc' \in [Shells -> {"none", "alive", "zombie", "reaped"}]
      /\ call' \in [Shells -> {"none", "running", "answered"}]
      /\ said' \in [Shells -> {"none", "output", "tooBig", "exited", "timedOut", "failed"}]
  BY <1>1, <1>2
<1>4. /\ \A z \in Shells : z # s => proc'[z] = proc[z] /\ call'[z] = call[z] /\ said'[z] = said[z]
      /\ \/ proc'[s] = "alive" /\ call'[s] = "running" /\ said'[s] = said[s]
         \/ proc'[s] = "none" /\ call'[s] = "answered" /\ said'[s] = "failed"
  BY <1>1, <1>2
<1>5. Types'
  BY <1>1, <1>3 DEF BashInv, ShellInv, IInv, Types
<1>6. ProcessesAreInOrder'
  BY <1>1, <1>4 DEF BashInv, ShellInv, IInv, ProcessesAreInOrder
<1>12. CallersAreInOrder'
  <2>1. \A z \in Shells : proc[z] # "none" => proc'[z] # "none"
    BY <1>1, <1>4
  <2> QED BY <1>1, <2>1 DEF BashInv, ShellInv, IInv, CallersAreInOrder
<1>7. OutcomesAreInOrder'
  BY <1>1, <1>4 DEF BashInv, ShellInv, IInv, Types, OutcomesAreInOrder, WaitReturns, Writers, Status
<1>8. MarkersAreInOrder' /\ NothingElseIsSkipped'
  BY <1>1 DEF BashInv, ShellInv, MarkersAreInOrder, NothingElseIsSkipped
<1>9. CallTypes'
  BY <1>1, <1>3 DEF BashInv, CallInv, CallTypes
<1>10. CallsAreInOrder'
  BY <1>1, <1>4 DEF BashInv, CallInv, CallsAreInOrder, WaitReturns, Writers
<1>11. ForegroundAnswerIsTrue'
  BY <1>1, <1>4 DEF BashInv, CallInv, CallsAreInOrder, ForegroundAnswerIsTrue, Writers
<1> QED BY <1>5, <1>6, <1>7, <1>8, <1>9, <1>10, <1>11, <1>12 DEF BashInv, ShellInv, IInv, CallInv

\* The answer is made of an end that nothing changes any more.
LEMMA ReturnKeepsCalls ==
  ASSUME IInv, CallInv, NEW s \in Shells, Returns(s) PROVE CallInv'
<1>1. /\ call[s] = "running" /\ WaitReturns(s)
      /\ call' = [call EXCEPT ![s] = "answered"] /\ said' = [said EXCEPT ![s] = Answer(s)]
      /\ UNCHANGED <<proc, kids, exit, wrote, copied, ctx, killed, interrupted>>
  BY DEF Returns, vars, processVars, shellVars
<1>2. exit[s] \in {"ok", "err"}
  BY <1>1 DEF IInv, Types, ProcessesAreInOrder, WaitReturns
<1>3. ctx[s] \in {"open", "deadline", "cancelled"} /\ (interrupted[s] => ctx[s] # "open")
  BY DEF CallInv, CallTypes, CallsAreInOrder
<1>4. killed[s] => exit[s] = "err"
  BY DEF CallInv, CallsAreInOrder
<1>5. Answer(s) \in {"output", "tooBig", "exited", "timedOut", "failed"}
  BY DEF Answer
<1>6. /\ call' \in [Shells -> {"none", "running", "answered"}]
      /\ said' \in [Shells -> {"none", "output", "tooBig", "exited", "timedOut", "failed"}]
  BY <1>1, <1>5 DEF CallInv, CallTypes
<1>7. /\ \A z \in Shells : z # s => call'[z] = call[z] /\ said'[z] = said[z]
      /\ call'[s] = "answered" /\ said'[s] = Answer(s)
  BY <1>1 DEF CallInv, CallTypes
<1>8. CallTypes'
  BY <1>1, <1>6 DEF CallInv, CallTypes
<1>9. CallsAreInOrder'
  BY <1>1, <1>7 DEF CallInv, CallsAreInOrder, WaitReturns, Writers
<1>10. /\ Answer(s) \in {"output", "tooBig"} => exit[s] = "ok" /\ ~ killed[s]
       /\ Answer(s) = "exited" => exit[s] = "err" /\ ~ killed[s]
       /\ Answer(s) = "timedOut" => killed[s] \/ ctx[s] = "deadline"
       /\ Answer(s) = "failed" => ctx[s] = "cancelled"
  BY <1>2, <1>3, <1>4 DEF Answer
<1>11. ForegroundAnswerIsTrue'
  BY <1>1, <1>7, <1>10 DEF CallInv, ForegroundAnswerIsTrue, WaitReturns, Writers
<1> QED BY <1>8, <1>9, <1>11 DEF CallInv

LEMMA BashStepKeeps == BashInv /\ [BashNext]_bashVars => BashInv'
<1> SUFFICES ASSUME BashInv, [BashNext]_bashVars PROVE BashInv'
  OBVIOUS
<1> USE DEF BashInv
<1>1. ASSUME [Next]_vars PROVE ShellInv'
  BY <1>1, StepKeeps, StepKeepsOrder DEF ShellInv
<1>2. ASSUME OtherStep, UNCHANGED callVars PROVE BashInv'
  <2>1. [Next]_vars
    BY <1>2 DEF OtherStep, Next
  <2> QED BY <1>1, <1>2, <2>1, OthersDoNotStart, ShellStepsKeepCalls DEF ShellInv
<1>3. ASSUME NEW s \in Shells, call[s] = "none", StartBackground(s), UNCHANGED callVars PROVE BashInv'
  <2>1. [Next]_vars
    BY <1>3 DEF Next
  <2>2. \A z \in Shells : proc[z] = "none" /\ call[z] # "none" => proc'[z] = "none"
    BY <1>3 DEF StartBackground
  <2> QED BY <1>1, <1>3, <2>1, <2>2, ShellStepsKeepCalls DEF ShellInv
<1>4. ASSUME NEW s \in Shells, StartForeground(s) PROVE BashInv'
  BY <1>4, StartKeepsAll
<1>5. ASSUME NEW s \in Shells, ContextEnds(s) PROVE BashInv'
  <2>1. UNCHANGED vars /\ ShellInv'
    BY <1>1, <1>5 DEF ContextEnds
  <2>2. /\ call[s] = "running" /\ UNCHANGED <<proc, kids, exit, wrote, copied, call, killed, interrupted, said>>
        /\ \E why \in {"deadline", "cancelled"} : ctx' = [ctx EXCEPT ![s] = why]
    BY <1>5 DEF ContextEnds, vars, processVars, shellVars
  <2>3. CallInv'
    BY <2>2 DEF CallInv, CallTypes, CallsAreInOrder, ForegroundAnswerIsTrue, WaitReturns, Writers
  <2> QED BY <2>1, <2>3
<1>6. ASSUME NEW s \in Shells, KillsAtEnd(s) PROVE BashInv'
  <2>1. /\ interrupted' = [interrupted EXCEPT ![s] = TRUE] /\ ctx[s] # "open" /\ Kill(s)
        /\ UNCHANGED <<kids, wrote, monitored, shellVars, readerVars, killerVars, mu, history,
                       call, ctx, said>>
    BY <1>6 DEF KillsAtEnd
  <2>2. interrupted' \in [Shells -> BOOLEAN] /\ \A z \in Shells : interrupted'[z] => ctx[z] # "open"
    BY <2>1 DEF CallInv, CallTypes, CallsAreInOrder
  <2> QED BY <2>1, <2>2, KillKeepsShells, KillKeepsCalls DEF ShellInv, shellVars
<1>7. ASSUME NEW s \in Shells, KilledByOthers(s) PROVE BashInv'
  <2>1. /\ Kill(s)
        /\ UNCHANGED <<kids, wrote, monitored, shellVars, readerVars, killerVars, mu, history,
                       call, ctx, interrupted, said>>
    BY <1>7 DEF KilledByOthers
  <2>2. interrupted' \in [Shells -> BOOLEAN] /\ \A z \in Shells : interrupted'[z] => ctx[z] # "open"
    BY <2>1 DEF CallInv, CallTypes, CallsAreInOrder
  <2> QED BY <2>1, <2>2, KillKeepsShells, KillKeepsCalls DEF ShellInv, shellVars
<1>8. ASSUME NEW s \in Shells, Returns(s) PROVE BashInv'
  BY <1>1, <1>8, ReturnKeepsCalls DEF Returns, ShellInv
<1>9. CASE UNCHANGED bashVars
  <2>1. UNCHANGED vars /\ UNCHANGED callVars
    BY <1>9 DEF bashVars
  <2>2. \A s \in Shells : proc'[s] = proc[s]
    BY <2>1 DEF vars, processVars
  <2> QED BY <1>1, <2>1, <2>2, ShellStepsKeepCalls DEF ShellInv
<1> QED BY <1>2, <1>3, <1>4, <1>5, <1>6, <1>7, <1>8, <1>9 DEF BashNext, ForegroundStep, OtherStep

THEOREM BashInvariance == BashSpec => []BashInv
  BY BashInitKeeps, BashStepKeeps, PTL DEF BashSpec

\* What a foreground call answers is true, and all there is to say: whichever of
\* the end of the process, of its context and of its pipes came first, and
\* whoever killed it.
THEOREM AnswersAreTrue == BashSpec => []ForegroundAnswerIsTrue
<1>1. BashInv => ForegroundAnswerIsTrue
  BY DEF BashInv, CallInv
<1> QED BY <1>1, BashInvariance, PTL

\* What a final status is worth: all the output was taken before it, nobody can
\* add to it, and it is how the command ended.
THEOREM StatusesAreTrue == BashSpec => []FinalAnswerIsTrue
<1>1. BashInv => FinalAnswerIsTrue
  BY FinalAnswersFollow DEF BashInv, ShellInv
<1> QED BY <1>1, BashInvariance, PTL

\* No output of a shell is told twice, or out of order.
THEOREM OutputIsAlwaysNew == BashSpec => []OutputIsNew
<1>1. BashInv => OutputIsNew
  BY OutputIsNewFollows DEF BashInv, ShellInv
<1> QED BY <1>1, BashInvariance, PTL

\* What the markers of a shell have passed was told, is about to be, or was lost
\* with the error about an invalid filter.
THEOREM NothingIsSkipped == BashSpec => []NothingElseIsSkipped
<1>1. BashInv => NothingElseIsSkipped
  BY DEF BashInv, ShellInv
<1> QED BY <1>1, BashInvariance, PTL

-----------------------------------------------------------------------------
(* Sums over a set *)

LEMMA SetInduction ==
  ASSUME NEW I \in SUBSET Nat, 0 \in I, \A n \in I : n + 1 \in I
  PROVE  I = Nat
<1> SUFFICES ASSUME I # Nat PROVE FALSE
  OBVIOUS
<1> DEFINE B == {0 .. k : k \in Nat \ I}
<1>1. B # {}
  OBVIOUS
<1>2. B \subseteq FiniteSubsetsOf(Nat)
  <2>1. ASSUME NEW k \in Nat PROVE IsFiniteSet(0 .. k) /\ 0 .. k \in SUBSET Nat
    BY FS_Interval
  <2> QED BY <2>1 DEF FiniteSubsetsOf
<1>3. IsWellFoundedOn(StrictSubsetOrdering(Nat), FiniteSubsetsOf(Nat))
  BY FS_StrictSubsetOrderingWellFounded
<1>4. \E x \in B : \A y \in B : ~ (<<y, x>> \in StrictSubsetOrdering(Nat))
  BY <1>1, <1>2, <1>3, WFMin
<1>5. PICK k \in Nat \ I : \A j \in Nat \ I : ~ (<<0 .. j, 0 .. k>> \in StrictSubsetOrdering(Nat))
  BY <1>4
<1>6. k # 0 /\ k - 1 \in Nat
  OBVIOUS
<1>7. k - 1 \notin I
  BY <1>6
<1>8. 0 .. (k-1) \subseteq 0 .. k /\ 0 .. (k-1) # 0 .. k /\ 0 .. k \subseteq Nat
  BY <1>6
<1>9. <<0 .. (k-1), 0 .. k>> \in StrictSubsetOrdering(Nat)
  BY <1>8 DEF StrictSubsetOrdering
<1> QED BY <1>5, <1>6, <1>7, <1>9

First(s) == CHOOSE x \in s : TRUE

\* What the sum over a set is made of: its first element, and the sum of the rest.
Sums(S, h, f) ==
  [s \in SUBSET S |-> IF s = {} THEN 0 ELSE h[First(s)] + f[s \ {First(s)}]]

LEMMA Smaller ==
  ASSUME NEW S, IsFiniteSet(S), NEW s \in SUBSET S, s # {}
  PROVE  /\ First(s) \in s /\ s \ {First(s)} \in SUBSET S
         /\ Cardinality(s \ {First(s)}) = Cardinality(s) - 1
         /\ Cardinality(s) \in Nat \ {0}
<1>1. First(s) \in s
  BY DEF First
<1>2. IsFiniteSet(s)
  BY FS_Subset
<1>3. Cardinality(s) \in Nat /\ Cardinality(s) # 0
  BY <1>2, FS_CardinalityType, FS_EmptySet
<1>4. Cardinality(s \ {First(s)}) = Cardinality(s) - 1
  BY <1>1, <1>2, FS_RemoveElement
<1> QED BY <1>1, <1>3, <1>4

LEMMA SumsExist ==
  ASSUME NEW S, IsFiniteSet(S), NEW h
  PROVE  \E f : f = Sums(S, h, f)
<1> DEFINE Upto(f, n) == \A s \in SUBSET S : Cardinality(s) <= n => f[s] = Sums(S, h, f)[s]
           I == {n \in Nat : \E f : Upto(f, n)}
<1>1. \A s \in SUBSET S : Cardinality(s) \in Nat /\ (Cardinality(s) <= 0 => s = {})
  BY FS_Subset, FS_CardinalityType, FS_EmptySet
<1>2. 0 \in I
  <2>1. Upto([s \in SUBSET S |-> 0], 0)
    BY <1>1 DEF Sums
  <2> QED BY <2>1
<1>3. ASSUME NEW n \in I PROVE n + 1 \in I
  <2>1. PICK f : Upto(f, n)
    BY <1>3
  <2> DEFINE g == Sums(S, h, f)
  <2>2. ASSUME NEW s \in SUBSET S, Cardinality(s) <= n + 1 PROVE g[s] = Sums(S, h, g)[s]
    <3>1. CASE s = {}
      BY <3>1 DEF Sums
    <3>2. CASE s # {}
      <4>1. s \ {First(s)} \in SUBSET S /\ Cardinality(s \ {First(s)}) <= n
        BY <3>2, <2>2, <1>1, Smaller
      <4>2. f[s \ {First(s)}] = g[s \ {First(s)}]
        BY <4>1, <2>1
      <4> QED BY <3>2, <4>1, <4>2 DEF Sums
    <3> QED BY <3>1, <3>2
  <2>3. Upto(g, n + 1)
    BY <2>2
  <2> QED BY <2>3
<1>4. I = Nat
  <2> HIDE DEF I
  <2>1. I \in SUBSET Nat
    BY DEF I
  <2> QED BY <2>1, <1>2, <1>3, SetInduction
<1>5. Cardinality(S) \in Nat /\ \A s \in SUBSET S : Cardinality(s) <= Cardinality(S)
  BY FS_CardinalityType, FS_Subset
<1>6. PICK f : Upto(f, Cardinality(S))
  BY <1>4, <1>5
<1>7. \A s \in SUBSET S : f[s] = Sums(S, h, f)[s]
  BY <1>5, <1>6
<1> DEFINE g == [s \in SUBSET S |-> f[s]]
<1>8. \A s \in SUBSET S : g[s] = Sums(S, h, g)[s]
  BY <1>7, Smaller DEF Sums
<1>9. g = Sums(S, h, g)
  BY <1>8 DEF Sums
<1> QED BY <1>9

LEMMA SumIsNoLess ==
  ASSUME NEW S, IsFiniteSet(S), NEW h \in [S -> Nat], NEW x \in S
  PROVE  /\ MapThenSumSet(LAMBDA y : h[y], S) \in Nat
         /\ h[x] <= MapThenSumSet(LAMBDA y : h[y], S)
<1> DEFINE f == CHOOSE g : g = Sums(S, h, g)
           Fine(s) == f[s] \in Nat /\ \A y \in s : h[y] <= f[s]
           I == {n \in Nat : \A s \in SUBSET S : Cardinality(s) = n => Fine(s)}
<1>1. f = Sums(S, h, f)
  BY SumsExist
<1>2. MapThenSumSet(LAMBDA y : h[y], S) = f[S]
  BY DEF MapThenSumSet, MapThenFoldSet, Sums, First
<1>3. 0 \in I
  <2> SUFFICES ASSUME NEW s \in SUBSET S, Cardinality(s) = 0 PROVE Fine(s)
    OBVIOUS
  <2>1. s = {}
    BY FS_Subset, FS_EmptySet
  <2> HIDE DEF f
  <2> QED BY <2>1, <1>1 DEF Sums
<1>4. ASSUME NEW n \in I PROVE n + 1 \in I
  <2> SUFFICES ASSUME NEW s \in SUBSET S, Cardinality(s) = n + 1 PROVE Fine(s)
    OBVIOUS
  <2> DEFINE a == First(s)
  <2>0. s # {}
    <3>1. Cardinality(s) # 0
      BY <1>4
    <3> QED BY <3>1, FS_EmptySet
  <2>1. a \in s /\ s \ {a} \in SUBSET S /\ Cardinality(s \ {a}) = n
    BY <2>0, Smaller
  <2>2. Fine(s \ {a})
    BY <2>1, <1>4
  <2> HIDE DEF f
  <2>3. f[s] = h[a] + f[s \ {a}]
    BY <2>0, <1>1 DEF Sums
  <2> HIDE DEF a
  <2>4. h[a] \in Nat
    BY <2>1
  <2>5. f[s \ {a}] \in Nat /\ f[s] \in Nat
    BY <2>2, <2>3, <2>4
  <2>6. ASSUME NEW y \in s PROVE h[y] <= f[s]
    <3>1. h[y] \in Nat
      OBVIOUS
    <3>2. y = a \/ h[y] <= f[s \ {a}]
      BY <2>2
    <3> HIDE DEF Fine
    <3> QED BY <2>3, <2>4, <2>5, <3>1, <3>2
  <2> QED BY <2>5, <2>6
<1>5. I = Nat
  <2> HIDE DEF I
  <2>1. I \in SUBSET Nat
    BY DEF I
  <2> QED BY <2>1, <1>3, <1>4, SetInduction
<1>6. Fine(S)
  <2>1. Cardinality(S) \in I
    BY <1>5, FS_CardinalityType
  <2> QED BY <2>1
<1> QED BY <1>2, <1>6

-----------------------------------------------------------------------------
(* Type correctness *)

\* What the type invariant says over BashInv: the bound on what is written, the
\* answers, and that who waits for a process does not change while it runs.
Bounds ==
  /\ exitCode \in [Shells -> {"ok", "err"}]
  /\ answer \in [Killers -> {"none", "notFound", "completed", "failed", "killed"}]
  /\ \A s \in Shells, st \in Streams : wrote[s][st] <= MaxChunks

Waiters ==
  \A s \in Shells :
    /\ said[s] # "none" <=> call[s] = "answered"
    /\ proc[s] # "none" => (monitored[s] <=> call[s] = "none")
    /\ proc[s] = "none" => ~ monitored[s]

LEMMA InitIsBounded == BashInit => Bounds /\ Waiters
  BY MaxChunksIsNat DEF BashInit, Init, Nothing, Bounds, Waiters

LEMMA WritesAreBounded ==
  ASSUME IInv, NEW s \in Shells, NEW st \in Streams, Writes(s, st),
         \A z \in Shells, q \in Streams : wrote[z][q] <= MaxChunks
  PROVE  \A z \in Shells, q \in Streams : wrote'[z][q] <= MaxChunks
<1>1. wrote \in [Shells -> [Streams -> Nat]] /\ wrote[s] \in [Streams -> Nat]
  BY DEF IInv, Types, Numbers
<1>2. wrote' = [wrote EXCEPT ![s][st] = @ + 1] /\ Total(s) < MaxChunks
  BY DEF Writes
<1>3. Total(s) \in Nat /\ wrote[s][st] <= Total(s)
  <2> DEFINE h == wrote[s]
  <2> HIDE DEF h
  <2>1. h \in [Streams -> Nat]
    BY <1>1 DEF h
  <2>2. /\ MapThenSumSet(LAMBDA y : h[y], Streams) \in Nat
        /\ h[st] <= MapThenSumSet(LAMBDA y : h[y], Streams)
    BY <2>1, StreamsAreFinite, SumIsNoLess
  <2> QED BY <2>2 DEF h, Total
<1>4. wrote[s][st] + 1 <= MaxChunks
  BY <1>1, <1>2, <1>3, MaxChunksIsNat
<1>5. \A z \in Shells, q \in Streams :
        wrote'[z][q] = IF z = s /\ q = st THEN wrote[s][st] + 1 ELSE wrote[z][q]
  BY <1>1, <1>2
<1> QED BY <1>4, <1>5

LEMMA ProcessesAreBounded ==
  ASSUME IInv, Bounds, NEW s \in Shells, ProcessStep(s) \/ WaitStep(s)
  PROVE  Bounds'
<1> USE DEF processVars, shellVars, killerVars
<1>1. ASSUME NEW st \in Streams, Writes(s, st) PROVE Bounds'
  BY <1>1, WritesAreBounded DEF Bounds, Writes
<1>2. CASE Forks(s) \/ KidsEnd(s) \/ (\E how \in {"ok", "err"} : Exits(s, how)) \/ Reaps(s)
  BY <1>2 DEF Bounds, Forks, KidsEnd, Exits, Reaps
<1>3. ASSUME NEW st \in Streams, Copies(s, st) PROVE Bounds'
  BY <1>3 DEF Bounds, Copies
<1>4. CASE MonitorRecords(s)
  <2>1. exit[s] \in {"ok", "err"}
    <3>1. proc[s] = "reaped"
      BY <1>4 DEF MonitorRecords, WaitReturns
    <3>2. exit[s] # "none"
      BY <3>1 DEF IInv, ProcessesAreInOrder
    <3>3. exit \in [Shells -> {"none", "ok", "err"}]
      BY DEF IInv, Types
    <3> QED BY <3>2, <3>3
  <2>2. exitCode' \in [Shells -> {"ok", "err"}]
    BY <1>4, <2>1 DEF MonitorRecords, Bounds
  <2> QED BY <1>4, <2>2 DEF MonitorRecords, Bounds
<1> QED BY <1>1, <1>2, <1>3, <1>4 DEF ProcessStep, WaitStep

LEMMA KillersAreBounded ==
  ASSUME Bounds, NEW k \in Killers,
         KillerStep(k) \/ \E s \in Shells : KillFinds(k, s) \/ KillMisses(k, s)
  PROVE  Bounds'
<1> USE DEF processVars, shellVars, killerVars
<1>1. UNCHANGED <<exitCode, wrote>>
  BY DEF KillerStep, KillFinds, KillMisses, KillChecks, KillSignals, KillRemoves
<1>2. \/ UNCHANGED answer
      \/ \E a \in {"notFound", "completed", "failed", "killed"} : answer' = [answer EXCEPT ![k] = a]
  BY DEF KillerStep, KillFinds, KillMisses, KillChecks, KillSignals, KillRemoves
<1> QED BY <1>1, <1>2 DEF Bounds

LEMMA BashStepIsBounded == BashInv /\ Bounds /\ [BashNext]_bashVars => Bounds'
<1> SUFFICES ASSUME BashInv, Bounds, [BashNext]_bashVars PROVE Bounds'
  OBVIOUS
<1> USE DEF vars, processVars, shellVars, killerVars
<1>1. ASSUME UNCHANGED <<exitCode, answer, wrote>> PROVE Bounds'
  BY <1>1 DEF Bounds
<1>2. ASSUME NEW s \in Shells, ForegroundStep(s) PROVE Bounds'
  BY <1>1, <1>2 DEF ForegroundStep, StartForeground, ContextEnds, KillsAtEnd, KilledByOthers, Returns
<1>3. ASSUME NEW s \in Shells, StartBackground(s) PROVE Bounds'
  BY <1>1, <1>3 DEF StartBackground
<1>4. ASSUME NEW r \in Readers, ReaderStep(r) \/ \E s \in Shells : OutputFinds(r, s) PROVE Bounds'
  BY <1>1, <1>4 DEF ReaderStep, OutputFinds, OutputReads, OutputAnswers
<1>5. CASE UNCHANGED bashVars
  BY <1>1, <1>5 DEF bashVars
<1> QED BY <1>2, <1>3, <1>4, <1>5, ProcessesAreBounded, KillersAreBounded DEF BashNext, BashInv, ShellInv

\* A process of a shell goes on as one, and its waiter stays.
LEMMA OthersKeepWaiters ==
  ASSUME IInv, OtherStep, UNCHANGED callVars, Waiters PROVE Waiters'
<1> USE DEF processVars
<1>1. UNCHANGED <<call, said>>
  BY DEF callVars
<1>2. \A s \in Shells : proc[s] = "none" => proc'[s] = "none"
  BY OthersDoNotStart
<1>3. UNCHANGED monitored
  BY DEF OtherStep, ProcessStep, Writes, Forks, KidsEnd, Exits, WaitStep, Copies, Reaps, MonitorRecords,
     OutputFinds, ReaderStep, OutputReads, OutputAnswers, KillerStep, KillFinds, KillMisses,
     KillChecks, KillSignals, KillRemoves
<1>4. \A s \in Shells : proc[s] # "none" => proc'[s] # "none"
  <2>1. [Next]_vars
    BY DEF OtherStep, Next
  <2> QED BY <2>1, EndsStay DEF EndStays
<1> QED BY <1>1, <1>2, <1>3, <1>4 DEF Waiters

LEMMA BashStepKeepsWaiters == BashInv /\ Waiters /\ [BashNext]_bashVars => Waiters'
<1> SUFFICES ASSUME BashInv, Waiters, [BashNext]_bashVars PROVE Waiters'
  OBVIOUS
<1> USE DEF vars, processVars
<1>0. /\ proc \in [Shells -> {"none", "alive", "zombie", "reaped"}] /\ monitored \in [Shells -> BOOLEAN]
      /\ call \in [Shells -> {"none", "running", "answered"}]
      /\ said \in [Shells -> {"none", "output", "tooBig", "exited", "timedOut", "failed"}]
  <2>1. Types /\ CallTypes
    BY DEF BashInv, ShellInv, IInv, CallInv
  <2>2. proc \in [Shells -> {"none", "alive", "zombie", "reaped"}]
    BY <2>1 DEF Types
  <2>3. monitored \in [Shells -> BOOLEAN]
    BY <2>1 DEF Types
  <2>4. /\ call \in [Shells -> {"none", "running", "answered"}]
        /\ said \in [Shells -> {"none", "output", "tooBig", "exited", "timedOut", "failed"}]
    BY <2>1 DEF CallTypes
  <2> QED BY <2>2, <2>3, <2>4
<1>1. ASSUME OtherStep, UNCHANGED callVars PROVE Waiters'
  BY <1>1, OthersKeepWaiters DEF BashInv, ShellInv
<1>2. ASSUME NEW s \in Shells, call[s] = "none", StartBackground(s), UNCHANGED callVars PROVE Waiters'
  BY <1>0, <1>2 DEF StartBackground, callVars, Waiters
<1>3. ASSUME NEW s \in Shells, StartForeground(s) PROVE Waiters'
  BY <1>0, <1>3 DEF StartForeground, Waiters
<1>4. ASSUME NEW s \in Shells, ContextEnds(s) PROVE Waiters'
  BY <1>4 DEF ContextEnds, Waiters
<1>5. ASSUME NEW s \in Shells, KillsAtEnd(s) \/ KilledByOthers(s) PROVE Waiters'
  BY <1>0, <1>5 DEF KillsAtEnd, KilledByOthers, Kill, Waiters
<1>6. ASSUME NEW s \in Shells, Returns(s) PROVE Waiters'
  <2>1. /\ call[s] = "running" /\ call' = [call EXCEPT ![s] = "answered"]
        /\ said' = [said EXCEPT ![s] = Answer(s)] /\ UNCHANGED <<proc, monitored>>
    BY <1>6 DEF Returns
  <2>2. Answer(s) # "none"
    BY DEF Answer
  <2> QED BY <1>0, <2>1, <2>2 DEF Waiters
<1>7. CASE UNCHANGED bashVars
  BY <1>7 DEF bashVars, callVars, Waiters
<1> QED BY <1>1, <1>2, <1>3, <1>4, <1>5, <1>6, <1>7 DEF BashNext, ForegroundStep, OtherStep

\* What a caller holds or was told of a stream lies below its marker.
LEMMA OutputIsBounded ==
  ASSUME BashInv, Bounds, NEW st \in Streams
  PROVE  /\ \A s \in Shells : readAt[s][st] \in 0 .. MaxChunks
         /\ \A s \in Shells : copied[s][st] \in 0 .. MaxChunks /\ wrote[s][st] \in 0 .. MaxChunks
         /\ \A s \in Shells : shown[s][st] \in Seq(1 .. MaxChunks) /\ wasted[s][st] \subseteq 1 .. MaxChunks
         /\ \A r \in Readers : fresh[r][st] \in Seq(1 .. MaxChunks)
<1>1. ASSUME NEW s \in Shells
      PROVE  /\ readAt[s][st] \in 0 .. MaxChunks /\ copied[s][st] \in 0 .. MaxChunks
             /\ wrote[s][st] \in 0 .. MaxChunks /\ 1 .. readAt[s][st] \subseteq 1 .. MaxChunks
  <2>1. readAt[s][st] \in Nat /\ copied[s][st] \in Nat /\ wrote[s][st] \in Nat
    BY DEF BashInv, ShellInv, IInv, Types, Numbers
  <2>2. readAt[s][st] <= copied[s][st] /\ copied[s][st] <= wrote[s][st]
    BY DEF BashInv, ShellInv, IInv, ProcessesAreInOrder
  <2>3. wrote[s][st] <= MaxChunks
    BY DEF Bounds
  <2> QED BY <2>1, <2>2, <2>3, MaxChunksIsNat
<1>2. \A s \in Shells : 1 .. readAt[s][st] = ToSet(shown[s][st]) \cup wasted[s][st] \cup InHand(s, st)
  BY SkippedMeans DEF BashInv, ShellInv
<1>3. ASSUME NEW q \in Seq(Nat), ToSet(q) \subseteq 1 .. MaxChunks PROVE q \in Seq(1 .. MaxChunks)
  <2>1. q \in [1 .. Len(q) -> Nat] /\ Len(q) \in Nat
    OBVIOUS
  <2>2. \A i \in 1 .. Len(q) : q[i] \in 1 .. MaxChunks
    BY <1>3, <2>1 DEF ToSet
  <2>3. q \in [1 .. Len(q) -> 1 .. MaxChunks]
    BY <2>1, <2>2
  <2> DEFINE S == 1 .. MaxChunks
  <2>4. q \in [1 .. Len(q) -> S]
    BY <2>3
  <2> HIDE DEF S
  <2>5. q \in Seq(S)
    BY <2>1, <2>4, SeqDef
  <2> QED BY <2>5 DEF S
<1>4. ASSUME NEW s \in Shells
      PROVE  shown[s][st] \in Seq(1 .. MaxChunks) /\ wasted[s][st] \subseteq 1 .. MaxChunks
  <2>1. ToSet(shown[s][st]) \subseteq 1 .. MaxChunks /\ wasted[s][st] \subseteq 1 .. MaxChunks
    BY <1>1, <1>2
  <2>2. shown[s][st] \in Seq(Nat)
    BY DEF BashInv, ShellInv, IInv, Types
  <2> QED BY <1>3, <2>1, <2>2
<1>5. ASSUME NEW r \in Readers PROVE fresh[r][st] \in Seq(1 .. MaxChunks)
  <2>1. fresh[r][st] \in Seq(Nat)
    BY DEF BashInv, ShellInv, IInv, Types
  <2>2. CASE rpc[r] # "read"
    <3>1. fresh[r][st] = <<>>
      BY <2>2 DEF BashInv, ShellInv, IInv, CallersAreInOrder
    <3> QED BY <3>1
  <2>3. CASE rpc[r] = "read"
    <3>1. rshell[r] \in Shells
      BY <2>3 DEF BashInv, ShellInv, IInv, Types, CallersAreInOrder
    <3>2. ToSet(fresh[r][st]) \subseteq InHand(rshell[r], st)
      BY DEF InHand
    <3>3. ToSet(fresh[r][st]) \subseteq 1 .. MaxChunks
      BY <1>1, <1>2, <3>1, <3>2
    <3> QED BY <1>3, <2>1, <3>3
  <2> QED BY <2>2, <2>3
<1> QED BY <1>1, <1>4, <1>5

LEMMA TypesFollow == BashInv /\ Bounds /\ Waiters => BashTypeOK
<1> SUFFICES ASSUME BashInv, Bounds, Waiters PROVE BashTypeOK
  OBVIOUS
<1>1. wrote \in Counts /\ copied \in Counts /\ readAt \in Counts
  <2>1. wrote \in Numbers /\ copied \in Numbers /\ readAt \in Numbers
    BY DEF BashInv, ShellInv, IInv, Types
  <2> QED BY <2>1, OutputIsBounded DEF Counts, Numbers
<1>2. TypeOK
  <2>1. Types /\ CallersAreInOrder
    BY DEF BashInv, ShellInv, IInv
  <2>2. /\ \A r \in Readers, st \in Streams : fresh[r][st] \in Seq(1 .. MaxChunks)
        /\ \A s \in Shells, st \in Streams : shown[s][st] \in Seq(1 .. MaxChunks)
        /\ \A s \in Shells, st \in Streams : wasted[s][st] \subseteq 1 .. MaxChunks
    BY OutputIsBounded
  <2>3. \A r \in Readers : rpc[r] = "read" <=> mu = r
    BY <2>1 DEF CallersAreInOrder
  <2> QED BY <1>1, <2>1, <2>2, <2>3 DEF TypeOK, Types, Bounds
<1> QED BY <1>2 DEF BashTypeOK, BashInv, CallInv, CallTypes, Waiters

\* Every variable keeps its type and its bound, and a process has a call that waits
\* for it or a goroutine, never both, from when it is started to the end.
THEOREM TypesAreRight == BashSpec => []BashTypeOK
  BY BashInitKeeps, BashStepKeeps, InitIsBounded, BashStepIsBounded, BashStepKeepsWaiters, TypesFollow,
     PTL DEF BashSpec

=============================================================================
