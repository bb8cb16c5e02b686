----------------------------- MODULE ForegroundBash -----------------------------
(***************************************************************************)
(* The bash tool (internal/tools/bash.go): a command runs in the           *)
(* background, as a shell of BackgroundShells, or in the foreground, where *)
(* the call waits for it, for the timeout at most.  Both are processes     *)
(* whose pipes are read by os/exec; in the foreground the two streams go   *)
(* to one buffer.                                                          *)
(*                                                                         *)
(* When the context of a foreground call ends, a goroutine of os/exec      *)
(* kills the process.  As WaitDelay is not set, cmd.Run still waits until  *)
(* everybody who holds the pipes has gone.                                 *)
(***************************************************************************)
EXTENDS BackgroundShells

CONSTANT MaxOutput  \* how much checkOutputSize lets pass, in chunks

VARIABLES
  call,         \* the foreground call of each process: "none", "running", "answered"
  ctx,          \* its context: "open", ended by the "deadline" or "cancelled"
  killed,       \* whether the process was ended by a SIGKILL
  interrupted,  \* whether os/exec has killed it, and will report the context's end
  said          \* how the call was answered

callVars == <<call, ctx, killed, interrupted, said>>
bashVars == <<vars, callVars>>

BashInit ==
  /\ Init
  /\ call = [s \in Shells |-> "none"]
  /\ ctx = [s \in Shells |-> "open"]
  /\ killed = [s \in Shells |-> FALSE]
  /\ interrupted = [s \in Shells |-> FALSE]
  /\ said = [s \in Shells |-> "none"]

-----------------------------------------------------------------------------
\* executeBashCommand without run_in_background.  The process starts, or not.
StartForeground(s) ==
  /\ proc[s] = "none" /\ call[s] = "none"
  /\ \/ /\ proc' = [proc EXCEPT ![s] = "alive"]
        /\ call' = [call EXCEPT ![s] = "running"]
        /\ UNCHANGED said
     \/ /\ call' = [call EXCEPT ![s] = "answered"]
        /\ said' = [said EXCEPT ![s] = "failed"]
        /\ UNCHANGED proc
  /\ UNCHANGED <<kids, exit, wrote, monitored, shellVars, readerVars, killerVars, mu, history,
                 ctx, killed, interrupted>>

\* The time is up, or the request is over before that.
ContextEnds(s) ==
  /\ call[s] = "running" /\ ctx[s] = "open"
  /\ \E why \in {"deadline", "cancelled"} : ctx' = [ctx EXCEPT ![s] = why]
  /\ UNCHANGED <<vars, call, killed, interrupted, said>>

\* The process gets a SIGKILL.  One that has ended keeps its exit status.
Kill(s) ==
  /\ proc[s] \in {"alive", "zombie"}
  /\ proc' = [proc EXCEPT ![s] = "zombie"]
  /\ exit' = [exit EXCEPT ![s] = IF @ = "none" THEN "err" ELSE @]
  /\ killed' = [killed EXCEPT ![s] = @ \/ exit[s] = "none"]

\* A slip: only the timeout kills the command, not the end of the request.
KillsAtDeadline(s) ==
  /\ ctx[s] = "deadline" /\ ~ interrupted[s]
  /\ Kill(s)
  /\ interrupted' = [interrupted EXCEPT ![s] = TRUE]
  /\ UNCHANGED <<kids, wrote, monitored, shellVars, readerVars, killerVars, mu, history,
                 call, ctx, said>>

\* os/exec kills the process once the context has ended, unless it was waited for.
KillsAtEnd(s) ==
  /\ ctx[s] # "open" /\ ~ interrupted[s]
  /\ Kill(s)
  /\ interrupted' = [interrupted EXCEPT ![s] = TRUE]
  /\ UNCHANGED <<kids, wrote, monitored, shellVars, readerVars, killerVars, mu, history,
                 call, ctx, said>>

\* Somebody else kills it: the kernel, short of memory, or another command.
KilledByOthers(s) ==
  /\ call[s] = "running" /\ proc[s] = "alive"
  /\ Kill(s)
  /\ UNCHANGED <<kids, wrote, monitored, shellVars, readerVars, killerVars, mu, history,
                 call, ctx, interrupted, said>>

Size(s) == MapThenSumSet(LAMBDA st : copied[s][st], Streams)

\* What executeForeground makes of the error of cmd.Run: a failure of the process
\* comes before the end of the context, and "signal: killed" passes for a timeout.
Answer(s) ==
  IF exit[s] = "err" THEN (IF killed[s] THEN "timedOut" ELSE "exited")
  ELSE IF interrupted[s] THEN (IF ctx[s] = "deadline" THEN "timedOut" ELSE "failed")
  ELSE IF Size(s) > MaxOutput THEN "tooBig" ELSE "output"

\* A slip: the pipes are not waited for.
ReturnsEarly(s) ==
  /\ call[s] = "running" /\ proc[s] = "reaped"
  /\ call' = [call EXCEPT ![s] = "answered"]
  /\ said' = [said EXCEPT ![s] = Answer(s)]
  /\ UNCHANGED <<vars, ctx, killed, interrupted>>

\* cmd.Run returns, and executeForeground answers.
Returns(s) ==
  /\ call[s] = "running" /\ WaitReturns(s)
  /\ call' = [call EXCEPT ![s] = "answered"]
  /\ said' = [said EXCEPT ![s] = Answer(s)]
  /\ UNCHANGED <<vars, ctx, killed, interrupted>>

-----------------------------------------------------------------------------
ForegroundStep(s) ==
  \/ StartForeground(s) \/ ContextEnds(s)
  \/ KillsAtEnd(s) \/ KilledByOthers(s) \/ Returns(s)

\* A process that a foreground call has started is not started again.
BashNext ==
  \/ \E s \in Shells : ForegroundStep(s)
  \/ \E s \in Shells : call[s] = "none" /\ StartBackground(s) /\ UNCHANGED callVars
  \/ \E s \in Shells : (ProcessStep(s) \/ WaitStep(s)) /\ UNCHANGED callVars
  \/ \E r \in Readers, s \in Shells : OutputFinds(r, s) /\ UNCHANGED callVars
  \/ \E r \in Readers : ReaderStep(r) /\ UNCHANGED callVars
  \/ \E k \in Killers, s \in Shells :
       (KillFinds(k, s) \/ KillMisses(k, s)) /\ UNCHANGED callVars
  \/ \E k \in Killers : KillerStep(k) /\ UNCHANGED callVars

\* Timers fire and goroutines go on; nothing is assumed of processes here either.
BashFairness ==
  /\ Fairness
  /\ \A s \in Shells : WF_bashVars(KillsAtEnd(s)) /\ WF_bashVars(Returns(s))

BashSpec == BashInit /\ [][BashNext]_bashVars /\ BashFairness

-----------------------------------------------------------------------------
(***************************************************************************)
(* Type invariant.  A process has a call that waits for it or a goroutine, *)
(* never both.                                                             *)
(***************************************************************************)
BashTypeOK ==
  /\ TypeOK
  /\ call \in [Shells -> {"none", "running", "answered"}]
  /\ ctx \in [Shells -> {"open", "deadline", "cancelled"}]
  /\ killed \in [Shells -> BOOLEAN]
  /\ interrupted \in [Shells -> BOOLEAN]
  /\ said \in [Shells -> {"none", "output", "tooBig", "exited", "timedOut", "failed"}]
  /\ \A s \in Shells : /\ said[s] # "none" <=> call[s] = "answered"
                       /\ proc[s] # "none" => (monitored[s] <=> call[s] = "none")

(***************************************************************************)
(* What a foreground call answers is the whole truth: output is that of a  *)
(* command that succeeded, all of it, with nobody left who could add to    *)
(* it; an exit code is one the command chose itself; and only a command    *)
(* that somebody has killed, or tried to, has timed out or failed.         *)
(***************************************************************************)
ForegroundAnswerIsTrue ==
  \A s \in Shells :
    /\ said[s] \in {"output", "tooBig"} =>
         exit[s] = "ok" /\ ~ killed[s] /\ ~ Writers(s) /\ copied[s] = wrote[s]
    /\ said[s] = "exited" => exit[s] = "err" /\ ~ killed[s]
    /\ said[s] = "timedOut" => killed[s] \/ ctx[s] = "deadline"
    /\ said[s] = "failed" => proc[s] = "none" \/ ctx[s] = "cancelled"

(***************************************************************************)
(* "Foreground commands use context timeout to enforce synchronous         *)
(* execution limits" (bash.go:61-62): a call whose time is up, or whose    *)
(* caller is gone, is answered, unless the command has left children that  *)
(* hold its pipes.  (Then it is not: see the README.)  kill_shell answers  *)
(* even so.                                                                *)
(***************************************************************************)
CallsReturn ==
  /\ \A s \in Shells :
       (call[s] = "running" /\ ctx[s] # "open") ~> (call[s] = "answered" \/ kids[s])
  /\ KillsReturn

=============================================================================
