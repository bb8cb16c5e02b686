---------------------------- MODULE BackgroundShells ----------------------------
(***************************************************************************)
(* Commands run in the background, and the three tools that look after     *)
(* them (internal/tools/bash.go, bash_output.go, kill_shell.go,            *)
(* list_shells.go): bash_output returns what a shell wrote since the last  *)
(* call, kill_shell kills a shell and forgets it, list_shells shows how    *)
(* each one stands.                                                        *)
(*                                                                         *)
(* What a process writes is counted in chunks: chunk n of a stream is the  *)
(* n-th one written to it.  A chunk passes from the pipe into the shell's  *)
(* SyncBuffer by a goroutine of os/exec, and cmd.Wait returns when the     *)
(* process is gone and both pipes have been read to their end: not before  *)
(* every child that inherited them has exited too.                         *)
(***************************************************************************)
EXTENDS Integers, Sequences, FiniteSetsExt, SequencesExt

CONSTANTS Shells,     \* shell ids
          Readers,    \* callers of bash_output
          Killers,    \* callers of kill_shell
          Streams,    \* stdout and stderr
          MaxChunks,  \* how much each shell writes, to all of them (a bound)
          NoShell, Nobody

ASSUME CallersAreDistinct ==
  /\ Readers \cap Killers = {}
  /\ Nobody \notin Readers
  /\ NoShell \notin Shells
ASSUME StreamsAreFinite == IsFiniteSet(Streams)
ASSUME MaxChunksIsNat == MaxChunks \in Nat

VARIABLES
  \* the process of each shell
  proc,      \* "none", "alive", "zombie" (not waited for yet), "reaped"
  kids,      \* whether a child that holds its pipes is running
  exit,      \* how it ended, "none" while it has not
  wrote,     \* the chunks written to each stream
  monitored, \* whether a goroutine of executeBackground waits for it
  \* the BackgroundShell
  listed,    \* the ids in State.BackgroundShells
  copied,    \* the length of each SyncBuffer
  readAt,    \* LastStdoutReadAt, LastStderrReadAt
  exitCode,  \* ExitCode: "ok" is 0, its initial value
  done,      \* whether Done is closed
  \* the callers: where they are, the shell they found, what they hold
  rpc, rshell, filter, fresh,
  kpc, kshell, answer,
  mu,        \* the reader who holds State.Mu across steps
  \* history
  shown,     \* the chunks of each stream that callers of bash_output got
  wasted,    \* those read for callers who got an error instead
  told       \* the last status bash_output gave

processVars == <<proc, kids, exit, wrote, monitored>>
shellVars == <<listed, copied, readAt, exitCode, done>>
readerVars == <<rpc, rshell, filter, fresh>>
killerVars == <<kpc, kshell, answer>>
history == <<shown, wasted, told>>
vars == <<processVars, shellVars, readerVars, killerVars, mu, history>>

Nothing == [s \in Shells |-> [st \in Streams |-> 0]]

Init ==
  /\ proc = [s \in Shells |-> "none"]
  /\ kids = [s \in Shells |-> FALSE]
  /\ exit = [s \in Shells |-> "none"]
  /\ wrote = Nothing
  /\ monitored = [s \in Shells |-> FALSE]
  /\ listed = {}
  /\ copied = Nothing
  /\ readAt = Nothing
  /\ exitCode = [s \in Shells |-> "ok"]
  /\ done = [s \in Shells |-> FALSE]
  /\ rpc = [r \in Readers |-> "idle"]
  /\ rshell = [r \in Readers |-> NoShell]
  /\ filter = [r \in Readers |-> "none"]
  /\ fresh = [r \in Readers |-> [st \in Streams |-> <<>>]]
  /\ kpc = [k \in Killers |-> "idle"]
  /\ kshell = [k \in Killers |-> NoShell]
  /\ answer = [k \in Killers |-> "none"]
  /\ mu = Nobody
  /\ shown = [s \in Shells |-> [st \in Streams |-> <<>>]]
  /\ wasted = [s \in Shells |-> [st \in Streams |-> {}]]
  /\ told = [s \in Shells |-> "running"]

-----------------------------------------------------------------------------
(* The processes (outside the repository) *)

\* Somebody has the pipes of the shell open for writing.
Writers(s) == proc[s] = "alive" \/ kids[s]

Total(s) == MapThenSumSet(LAMBDA st : wrote[s][st], Streams)

Writes(s, st) ==
  /\ Writers(s) /\ Total(s) < MaxChunks
  /\ wrote' = [wrote EXCEPT ![s][st] = @ + 1]
  /\ UNCHANGED <<proc, kids, exit, monitored, shellVars, readerVars, killerVars, mu, history>>

Forks(s) ==
  /\ proc[s] = "alive"
  /\ kids' = [kids EXCEPT ![s] = TRUE]
  /\ UNCHANGED <<proc, exit, wrote, monitored, shellVars, readerVars, killerVars, mu, history>>

KidsEnd(s) ==
  /\ kids[s]
  /\ kids' = [kids EXCEPT ![s] = FALSE]
  /\ UNCHANGED <<proc, exit, wrote, monitored, shellVars, readerVars, killerVars, mu, history>>

Exits(s, how) ==
  /\ proc[s] = "alive"
  /\ proc' = [proc EXCEPT ![s] = "zombie"]
  /\ exit' = [exit EXCEPT ![s] = how]
  /\ UNCHANGED <<kids, wrote, monitored, shellVars, readerVars, killerVars, mu, history>>

\* os/exec: a chunk is copied into the SyncBuffer of its stream.
Copies(s, st) ==
  /\ copied[s][st] < wrote[s][st]
  /\ copied' = [copied EXCEPT ![s][st] = @ + 1]
  /\ UNCHANGED <<processVars, listed, readAt, exitCode, done,
                 readerVars, killerVars, mu, history>>

\* os/exec: the process is waited for, before the pipes are.
Reaps(s) ==
  /\ proc[s] = "zombie"
  /\ proc' = [proc EXCEPT ![s] = "reaped"]
  /\ UNCHANGED <<kids, exit, wrote, monitored, shellVars, readerVars, killerVars, mu, history>>

\* os/exec: cmd.Wait may return.
WaitReturns(s) == proc[s] = "reaped" /\ ~ Writers(s) /\ copied[s] = wrote[s]

-----------------------------------------------------------------------------
(* executeBackground, and its goroutine *)

\* The process is started, and the shell registered under a new id.
StartBackground(s) ==
  /\ proc[s] = "none" /\ mu = Nobody
  /\ proc' = [proc EXCEPT ![s] = "alive"]
  /\ monitored' = [monitored EXCEPT ![s] = TRUE]
  /\ listed' = listed \cup {s}
  /\ UNCHANGED <<kids, exit, wrote, copied, readAt, exitCode, done,
                 readerVars, killerVars, mu, history>>

\* Slips: the outcome is recorded without the lock, or not at all once kill_shell
\* has removed the shell.
MonitorUnlocked(s) ==
  /\ monitored[s] /\ ~ done[s] /\ WaitReturns(s)
  /\ exitCode' = [exitCode EXCEPT ![s] = exit[s]]
  /\ done' = [done EXCEPT ![s] = TRUE]
  /\ UNCHANGED <<processVars, listed, copied, readAt, readerVars, killerVars, mu, history>>
MonitorOfListed(s) ==
  /\ monitored[s] /\ ~ done[s] /\ WaitReturns(s) /\ mu = Nobody /\ s \in listed
  /\ exitCode' = [exitCode EXCEPT ![s] = exit[s]]
  /\ done' = [done EXCEPT ![s] = TRUE]
  /\ UNCHANGED <<processVars, listed, copied, readAt, readerVars, killerVars, mu, history>>

\* The goroutine that waits for the shell records how it ended, and closes Done.
MonitorRecords(s) ==
  /\ monitored[s] /\ ~ done[s] /\ WaitReturns(s) /\ mu = Nobody
  /\ exitCode' = [exitCode EXCEPT ![s] = exit[s]]
  /\ done' = [done EXCEPT ![s] = TRUE]
  /\ UNCHANGED <<processVars, listed, copied, readAt, readerVars, killerVars, mu, history>>

\* How list_shells and bash_output see a shell.
Status(s) == IF ~ done[s] THEN "running"
             ELSE IF exitCode[s] = "ok" THEN "completed" ELSE "failed"

-----------------------------------------------------------------------------
(* executeBashOutput *)

\* The shell is looked up, and the lock released again.  The filter is a
\* pattern every line matches (or none is given), or it is no pattern at all.
OutputFinds(r, s) ==
  /\ rpc[r] = "idle" /\ mu = Nobody /\ s \in listed
  /\ rpc' = [rpc EXCEPT ![r] = "found"]
  /\ rshell' = [rshell EXCEPT ![r] = s]
  /\ \E f \in {"none", "invalid"} : filter' = [filter EXCEPT ![r] = f]
  /\ UNCHANGED <<processVars, shellVars, fresh, killerVars, mu, history>>

New(s) == [st \in Streams |->
             [i \in 1 .. copied[s][st] - readAt[s][st] |-> readAt[s][st] + i]]

\* Slips: the lock is not taken again, or only one of the two markers is moved.
OutputReadsUnlocked(r) ==
  LET s == rshell[r] IN
  /\ rpc[r] = "found" /\ mu = Nobody
  /\ fresh' = [fresh EXCEPT ![r] = New(s)]
  /\ readAt' = [readAt EXCEPT ![s] = copied[s]]
  /\ rpc' = [rpc EXCEPT ![r] = "read"]
  /\ UNCHANGED <<processVars, listed, copied, exitCode, done,
                 rshell, filter, killerVars, mu, history>>
OutputMovesOneMarker(r) ==
  LET s == rshell[r]
      first == CHOOSE st \in Streams : TRUE
  IN  /\ rpc[r] = "found" /\ mu = Nobody
      /\ mu' = r
      /\ fresh' = [fresh EXCEPT ![r] = New(s)]
      /\ readAt' = [readAt EXCEPT ![s][first] = copied[s][first]]
      /\ rpc' = [rpc EXCEPT ![r] = "read"]
      /\ UNCHANGED <<processVars, listed, copied, exitCode, done,
                     rshell, filter, killerVars, history>>

\* With the lock held from here on, what is new is read and the markers moved.
\* (The streams are read one after the other; neither depends on the other.)
OutputReads(r) ==
  LET s == rshell[r] IN
  /\ rpc[r] = "found" /\ mu = Nobody
  /\ mu' = r
  /\ fresh' = [fresh EXCEPT ![r] = New(s)]
  /\ readAt' = [readAt EXCEPT ![s] = copied[s]]
  /\ rpc' = [rpc EXCEPT ![r] = "read"]
  /\ UNCHANGED <<processVars, listed, copied, exitCode, done,
                 rshell, filter, killerVars, history>>

\* A slip: with a final status, what is new is not put in the answer any more.
OutputAnswersFinal(r) ==
  LET s == rshell[r] IN
  /\ rpc[r] = "read"
  /\ IF filter[r] = "invalid" \/ done[s]
     THEN UNCHANGED shown
     ELSE shown' = [shown EXCEPT ![s] = [st \in Streams |-> @[st] \o fresh[r][st]]]
  /\ wasted' = IF filter[r] = "invalid"
               THEN [wasted EXCEPT ![s] = [st \in Streams |-> @[st] \cup ToSet(fresh[r][st])]]
               ELSE wasted
  /\ told' = [told EXCEPT ![s] = IF filter[r] = "invalid" THEN @ ELSE Status(s)]
  /\ mu' = Nobody
  /\ rpc' = [rpc EXCEPT ![r] = "idle"]
  /\ rshell' = [rshell EXCEPT ![r] = NoShell]
  /\ filter' = [filter EXCEPT ![r] = "none"]
  /\ fresh' = [fresh EXCEPT ![r] = [st \in Streams |-> <<>>]]
  /\ UNCHANGED <<processVars, shellVars, killerVars>>
\* The status is read after the output.  An invalid filter is noticed last: the
\* caller gets an error and nothing else.
OutputAnswers(r) ==
  LET s == rshell[r] IN
  /\ rpc[r] = "read"
  /\ IF filter[r] = "invalid"
     THEN /\ wasted' = [wasted EXCEPT ![s] = [st \in Streams |-> @[st] \cup ToSet(fresh[r][st])]]
          /\ UNCHANGED <<shown, told>>
     ELSE /\ shown' = [shown EXCEPT ![s] = [st \in Streams |-> @[st] \o fresh[r][st]]]
          /\ told' = [told EXCEPT ![s] = Status(s)]
          /\ UNCHANGED wasted
  /\ mu' = Nobody
  /\ rpc' = [rpc EXCEPT ![r] = "idle"]
  /\ rshell' = [rshell EXCEPT ![r] = NoShell]
  /\ filter' = [filter EXCEPT ![r] = "none"]
  /\ fresh' = [fresh EXCEPT ![r] = [st \in Streams |-> <<>>]]
  /\ UNCHANGED <<processVars, shellVars, killerVars>>

-----------------------------------------------------------------------------
(* executeKillShell *)

KillFinds(k, s) ==
  /\ kpc[k] \in {"idle", "answered"} /\ mu = Nobody /\ s \in listed
  /\ kpc' = [kpc EXCEPT ![k] = "found"]
  /\ kshell' = [kshell EXCEPT ![k] = s]
  /\ UNCHANGED <<processVars, shellVars, readerVars, answer, mu, history>>

KillMisses(k, s) ==
  /\ kpc[k] \in {"idle", "answered"} /\ mu = Nobody /\ proc[s] # "none" /\ s \notin listed
  /\ kpc' = [kpc EXCEPT ![k] = "answered"]
  /\ answer' = [answer EXCEPT ![k] = "notFound"]
  /\ UNCHANGED <<processVars, shellVars, readerVars, kshell, mu, history>>

\* Done is looked at without the lock.
KillChecks(k) ==
  /\ kpc[k] = "found"
  /\ IF done[kshell[k]]
     THEN /\ kpc' = [kpc EXCEPT ![k] = "answered"]
          /\ answer' = [answer EXCEPT ![k] = "completed"]
     ELSE kpc' = [kpc EXCEPT ![k] = "checked"] /\ UNCHANGED answer
  /\ UNCHANGED <<processVars, shellVars, readerVars, kshell, mu, history>>

\* Only the shell itself gets the SIGKILL, not its children.  Process.Kill
\* fails once the process has been waited for.
KillSignals(k) ==
  LET s == kshell[k] IN
  /\ kpc[k] = "checked"
  /\ IF proc[s] = "reaped"
     THEN /\ kpc' = [kpc EXCEPT ![k] = "answered"]
          /\ answer' = [answer EXCEPT ![k] = "failed"]
          /\ UNCHANGED processVars
     ELSE /\ kpc' = [kpc EXCEPT ![k] = "killing"]
          /\ proc' = [proc EXCEPT ![s] = "zombie"]
          /\ exit' = [exit EXCEPT ![s] = IF @ = "none" THEN "err" ELSE @]
          /\ UNCHANGED <<kids, wrote, monitored, answer>>
  /\ UNCHANGED <<shellVars, readerVars, kshell, mu, history>>

\* After 100 ms the shell is forgotten, whatever has become of its process.
KillRemoves(k) ==
  LET s == kshell[k] IN
  /\ kpc[k] = "killing" /\ mu = Nobody
  /\ listed' = listed \ {s}
  /\ kpc' = [kpc EXCEPT ![k] = "answered"]
  /\ answer' = [answer EXCEPT ![k] = "killed"]
  /\ UNCHANGED <<processVars, copied, readAt, exitCode, done, readerVars, kshell, mu, history>>

-----------------------------------------------------------------------------
ProcessStep(s) ==
  \/ \E st \in Streams : Writes(s, st)
  \/ Forks(s)
  \/ KidsEnd(s)
  \/ \E how \in {"ok", "err"} : Exits(s, how)

WaitStep(s) == (\E st \in Streams : Copies(s, st)) \/ Reaps(s) \/ MonitorRecords(s)

ReaderStep(r) == OutputReads(r) \/ OutputAnswers(r)

KillerStep(k) == KillChecks(k) \/ KillSignals(k) \/ KillRemoves(k)

Next ==
  \/ \E s \in Shells : StartBackground(s) \/ ProcessStep(s) \/ WaitStep(s)
  \/ \E r \in Readers, s \in Shells : OutputFinds(r, s)
  \/ \E r \in Readers : ReaderStep(r)
  \/ \E k \in Killers, s \in Shells : KillFinds(k, s) \/ KillMisses(k, s)
  \/ \E k \in Killers : KillerStep(k)

Spec == Init /\ [][Next]_vars

(***************************************************************************)
(* Goroutines that can go on do; sync.RWMutex is fair, so nobody waits for *)
(* the lock for ever, however many calls take it in between.  Nothing is   *)
(* assumed of the processes.                                               *)
(***************************************************************************)
Fairness ==
  /\ \A s \in Shells : \A st \in Streams : WF_vars(Copies(s, st))
  /\ \A s \in Shells : WF_vars(Reaps(s)) /\ SF_vars(MonitorRecords(s))
  /\ \A r \in Readers : SF_vars(OutputReads(r)) /\ WF_vars(OutputAnswers(r))
  /\ \A k \in Killers : /\ WF_vars(KillChecks(k)) /\ WF_vars(KillSignals(k))
                        /\ SF_vars(KillRemoves(k))

FairSpec == Spec /\ Fairness

-----------------------------------------------------------------------------
(***************************************************************************)
(* Type invariant.  Who is between reading and answering holds the lock.   *)
(***************************************************************************)
Counts == [Shells -> [Streams -> 0 .. MaxChunks]]

TypeOK ==
  /\ proc \in [Shells -> {"none", "alive", "zombie", "reaped"}]
  /\ kids \in [Shells -> BOOLEAN] /\ monitored \in [Shells -> BOOLEAN]
  /\ exit \in [Shells -> {"none", "ok", "err"}]
  /\ wrote \in Counts /\ copied \in Counts /\ readAt \in Counts
  /\ listed \subseteq Shells
  /\ exitCode \in [Shells -> {"ok", "err"}]
  /\ done \in [Shells -> BOOLEAN]
  /\ rpc \in [Readers -> {"idle", "found", "read"}]
  /\ rshell \in [Readers -> Shells \cup {NoShell}]
  /\ filter \in [Readers -> {"none", "invalid"}]
  /\ \A r \in Readers, st \in Streams : fresh[r][st] \in Seq(1 .. MaxChunks)
  /\ kpc \in [Killers -> {"idle", "found", "checked", "killing", "answered"}]
  /\ kshell \in [Killers -> Shells \cup {NoShell}]
  /\ answer \in [Killers -> {"none", "notFound", "completed", "failed", "killed"}]
  /\ mu \in Readers \cup {Nobody}
  /\ \A r \in Readers : rpc[r] = "read" <=> mu = r
  /\ \A s \in Shells, st \in Streams : shown[s][st] \in Seq(1 .. MaxChunks)
  /\ \A s \in Shells, st \in Streams : wasted[s][st] \subseteq 1 .. MaxChunks
  /\ told \in [Shells -> {"running", "completed", "failed"}]

(***************************************************************************)
(* "Always returns only new output since the last check" (BashOutputTool): *)
(* no two answers, to whomever, contain the same output, and in the order  *)
(* in which the lock lets them be made they follow what was written.       *)
(***************************************************************************)
OutputIsNew ==
  \A s \in Shells, st \in Streams : \A i, k \in DOMAIN shown[s][st] :
    i < k => shown[s][st][i] < shown[s][st][k]

(***************************************************************************)
(* "These position markers ensure API consumers always see new data since  *)
(* their last call" (bash_output.go:44): what the markers have passed was  *)
(* returned or is about to be, with one exception.  A call with an invalid *)
(* filter moves them, and its output is never returned.                    *)
(***************************************************************************)
NothingElseIsSkipped ==
  \A s \in Shells, st \in Streams :
    LET inHand == UNION {ToSet(fresh[r][st]) : r \in {q \in Readers : rshell[q] = s}}
    IN 1 .. readAt[s][st] = ToSet(shown[s][st]) \cup wasted[s][st] \cup inHand

(***************************************************************************)
(* A caller who reads "completed" or "failed" may stop asking: that answer *)
(* and the ones before it took all the output there will ever be, although *)
(* the status is looked at after the output.  And it is how the command    *)
(* ended, which list_shells says as well; one that was killed has failed.  *)
(***************************************************************************)
FinalAnswerIsTrue ==
  \A s \in Shells :
    /\ told[s] # "running" => ~ Writers(s) /\ readAt[s] = wrote[s] /\ told[s] = Status(s)
    /\ Status(s) # "running" => exit[s] = (IF Status(s) = "completed" THEN "ok" ELSE "err")

(***************************************************************************)
(* kill_shell answers within its 100 ms even if a child of the shell keeps *)
(* the pipes open for ever, so that cmd.Wait never returns.                *)
(***************************************************************************)
KillsReturn == \A k \in Killers : kpc[k] = "found" ~> kpc[k] = "answered"

(***************************************************************************)
(* When everything that could write to a shell's pipes has ended, the      *)
(* shell is seen to have ended, killed and forgotten or not.               *)
(***************************************************************************)
EndIsSeen ==
  \A s \in Shells :
    (monitored[s] /\ proc[s] \in {"zombie", "reaped"} /\ ~ kids[s]) ~> done[s]

=============================================================================
