------------------------------ MODULE CommitPush ------------------------------
(***************************************************************************)
(* commit_workspace (internal/tools/commit_workspace.go): stage all of the *)
(* workspace, commit, push to main; if others have pushed, rebase onto     *)
(* what they did and push once more.                                       *)
(*                                                                         *)
(* Every git command is a step of its own.  Between them the workspace is  *)
(* edited, others push, other calls of the tool run (it takes no lock),    *)
(* and the context of the request may end, after which no further command  *)
(* is started.                                                             *)
(*                                                                         *)
(* A commit is the set of changes it makes to tracked files, a history is  *)
(* the sequence of its commits, and the hash of a commit stands for the    *)
(* history up to it: a rebased commit has another one.                     *)
(***************************************************************************)
EXTENDS Integers, Sequences, FiniteSets, SequencesExt

CONSTANTS Calls,        \* those who call commit_workspace, again and again
          MaxCalls,     \* how often they do, together (a bound)
          MaxChanges,   \* how many changes are made, here and elsewhere (a bound)
          Markers,      \* conflict markers, as a change
          NotRebasing

ASSUME BoundsAreNat == MaxCalls \in Nat /\ MaxChanges \in Nat
ASSUME NotRebasingIsNoHistory == NotRebasing \notin Seq(SUBSET (Nat \cup {Markers}))

VARIABLES
  \* the workspace
  dirty, staged,  \* changes in the working tree, and in the index
  head,           \* the history of HEAD
  saved,          \* that of the branch while it is being rebased
  \* the repository it is pushed to
  remote,
  made, called,   \* how many changes and calls there were
  \* each call: where it is, whether its context has ended, what it answers
  pc, ended, sha, answer,
  \* history: what the call found in the workspace, whether no other came between
  work, alone

treeVars == <<dirty, staged, head, saved>>
callVars == <<pc, ended, sha, answer, work, alone>>
vars == <<treeVars, remote, made, called, callVars>>

Has(history) == UNION ToSet(history)
FastForward == IsPrefix(remote, head)

Init ==
  /\ dirty = {} /\ staged = {} /\ head = <<>> /\ saved = NotRebasing
  /\ remote = <<>> /\ made = 0 /\ called = 0
  /\ pc = [c \in Calls |-> "idle"]
  /\ ended = [c \in Calls |-> FALSE]
  /\ sha = [c \in Calls |-> <<>>]
  /\ answer = [c \in Calls |-> "none"]
  /\ work = [c \in Calls |-> {}]
  /\ alone = [c \in Calls |-> TRUE]

Goes(c, to) == pc' = [pc EXCEPT ![c] = to] /\ UNCHANGED <<ended, sha, answer, work, alone>>

Answers(c, a) ==
  /\ pc' = [pc EXCEPT ![c] = "idle"]
  /\ ended' = [ended EXCEPT ![c] = FALSE]
  /\ answer' = [answer EXCEPT ![c] = a]
  /\ UNCHANGED <<sha, work, alone>>

-----------------------------------------------------------------------------
(* Around the tool *)

Edits ==
  /\ made < MaxChanges
  /\ made' = made + 1
  /\ dirty' = dirty \cup {made + 1}
  /\ UNCHANGED <<staged, head, saved, remote, called, callVars>>

OthersPush ==
  /\ made < MaxChanges
  /\ made' = made + 1
  /\ remote' = Append(remote, {made + 1})
  /\ UNCHANGED <<treeVars, called, callVars>>

ContextEnds(c) ==
  /\ pc[c] # "idle" /\ ~ ended[c]
  /\ ended' = [ended EXCEPT ![c] = TRUE]
  /\ UNCHANGED <<treeVars, remote, made, called, pc, sha, answer, work, alone>>

-----------------------------------------------------------------------------
(* CommitWorkspace *)

Starts(c) ==
  /\ pc[c] = "idle" /\ called < MaxCalls
  /\ called' = called + 1
  /\ pc' = [pc EXCEPT ![c] = "add"]
  /\ sha' = [sha EXCEPT ![c] = <<>>]
  /\ answer' = [answer EXCEPT ![c] = "none"]
  /\ work' = [work EXCEPT ![c] = dirty \cup staged \cup Has(head)]
  /\ alone' = [d \in Calls |-> IF d = c THEN \A e \in Calls \ {c} : pc[e] = "idle"
                                        ELSE alone[d] /\ pc[d] = "idle"]
  /\ UNCHANGED <<treeVars, remote, made, ended>>

\* A command that fails, or is not started, ends the call with an error.
CommandFails(c) ==
  /\ pc[c] \in {"add", "status", "commit", "push", "push again"}
  /\ Answers(c, "error")
  /\ UNCHANGED <<treeVars, remote, made, called>>

Adds(c) ==
  /\ pc[c] = "add" /\ ~ ended[c]
  /\ staged' = staged \cup dirty /\ dirty' = {}
  /\ Goes(c, "status")
  /\ UNCHANGED <<head, saved, remote, made, called>>

\* git status --porcelain shows what is staged and what is not.
LooksAtStatus(c) ==
  /\ pc[c] = "status" /\ ~ ended[c]
  /\ Goes(c, IF staged \cup dirty = {} THEN "push" ELSE "commit")
  /\ UNCHANGED <<treeVars, remote, made, called>>

\* There must be something staged, and nothing unmerged.  If git is killed when
\* the commit is made, the call does not know that it was.
Commits(c) ==
  /\ pc[c] = "commit" /\ ~ ended[c]
  /\ staged # {} /\ Markers \notin dirty
  /\ head' = Append(head, staged) /\ staged' = {}
  /\ Goes(c, "rev-parse") \/ Answers(c, "error")
  /\ UNCHANGED <<dirty, saved, remote, made, called>>

\* If that fails there is no hash in the answer, but it is pushed all the same.
RevParses(c, works) ==
  /\ pc[c] = "rev-parse"
  /\ works => ~ ended[c]
  /\ sha' = IF works THEN [sha EXCEPT ![c] = head] ELSE sha
  /\ pc' = [pc EXCEPT ![c] = "push"]
  /\ UNCHANGED <<treeVars, remote, made, called, ended, answer, work, alone>>

-----------------------------------------------------------------------------
(* pushWithRebaseRetry *)

Pushes(c) ==
  /\ pc[c] = "push" /\ ~ ended[c]
  /\ IF FastForward THEN remote' = head /\ Answers(c, "pushed")
                    ELSE UNCHANGED remote /\ Goes(c, "pull")
  /\ UNCHANGED <<treeVars, made, called>>

\* The push is carried out, but the connection breaks before git knows.
AnswerIsLost(c) ==
  /\ pc[c] \in {"push", "push again"} /\ ~ ended[c] /\ FastForward
  /\ remote' = head /\ Answers(c, "error")
  /\ UNCHANGED <<treeVars, made, called>>

\* What HEAD has and the remote has not, in its order.
Mine ==
  LET left == {i \in DOMAIN head : head[i] \notin ToSet(remote)}
      Nth(k) == CHOOSE i \in left : Cardinality({j \in left : j < i}) = k - 1
  IN [k \in 1 .. Cardinality(left) |-> head[Nth(k)]]

\* git pull --rebase starts on a clean tree, and if no rebase is under way.
CanRebase == dirty = {} /\ staged = {} /\ saved = NotRebasing

\* Slip: a rebase that succeeds is taken for a push.
RebasesOnly(c) ==
  /\ pc[c] = "pull" /\ ~ ended[c] /\ CanRebase
  /\ head' = remote \o Mine
  /\ Answers(c, "pushed")
  /\ UNCHANGED <<dirty, staged, saved, remote, made, called>>
Rebases(c) ==
  /\ pc[c] = "pull" /\ ~ ended[c] /\ CanRebase
  /\ head' = remote \o Mine
  /\ Goes(c, "push again")
  /\ UNCHANGED <<dirty, staged, saved, remote, made, called>>

\* The n-th of its own commits conflicts with one of the others.
Conflicts(c, n) ==
  /\ pc[c] = "pull" /\ ~ ended[c] /\ CanRebase
  /\ n \in DOMAIN Mine /\ ~ IsPrefix(remote, head)
  /\ saved' = head
  /\ head' = remote \o SubSeq(Mine, 1, n - 1)
  /\ dirty' = Mine[n] \cup {Markers}
  /\ Goes(c, "abort")
  /\ UNCHANGED <<staged, remote, made, called>>

\* The context ends while it runs: git pull is killed, the rebase it has started
\* is not, and is waited for.
PullIsKilled(c) ==
  /\ pc[c] = "pull" /\ ~ ended[c] /\ CanRebase
  /\ head' = remote \o Mine
  /\ pc' = [pc EXCEPT ![c] = "abort"]
  /\ ended' = [ended EXCEPT ![c] = TRUE]
  /\ UNCHANGED <<dirty, staged, saved, remote, made, called, sha, answer, work, alone>>

\* It cannot start, or is not started, or the remote cannot be reached.
PullFails(c) ==
  /\ pc[c] = "pull"
  /\ Goes(c, "abort")
  /\ UNCHANGED <<treeVars, remote, made, called>>

\* Slip: the commit that conflicts is skipped.
Skips(c) ==
  /\ pc[c] = "abort"
  /\ IF ended[c] \/ saved = NotRebasing
     THEN UNCHANGED treeVars
     ELSE saved' = NotRebasing /\ dirty' = {} /\ staged' = {} /\ UNCHANGED head
  /\ Answers(c, "error")
  /\ UNCHANGED <<remote, made, called>>

\* git rebase --abort, with the same context as the pull: back to the branch as
\* it was, whatever is in the tree.  Its own failure is ignored.
Aborts(c) ==
  /\ pc[c] = "abort"
  /\ IF ended[c] \/ saved = NotRebasing
     THEN UNCHANGED treeVars
     ELSE head' = saved /\ saved' = NotRebasing /\ dirty' = {} /\ staged' = {}
  /\ Answers(c, "error")
  /\ UNCHANGED <<remote, made, called>>

\* The second push is the last, whatever becomes of it.
PushesAgain(c) ==
  /\ pc[c] = "push again" /\ ~ ended[c] /\ FastForward
  /\ remote' = head /\ Answers(c, "pushed")
  /\ UNCHANGED <<treeVars, made, called>>

-----------------------------------------------------------------------------
Call(c) ==
  \/ Starts(c) \/ CommandFails(c)
  \/ Adds(c) \/ LooksAtStatus(c) \/ Commits(c) \/ \E works \in BOOLEAN : RevParses(c, works)
  \/ Pushes(c) \/ AnswerIsLost(c) \/ Rebases(c) \/ PullFails(c) \/ PullIsKilled(c)
  \/ \E n \in DOMAIN Mine : Conflicts(c, n)
  \/ Aborts(c) \/ PushesAgain(c)

Next ==
  \/ Edits \/ OthersPush
  \/ \E c \in Calls : Call(c) \/ ContextEnds(c)

Spec == Init /\ [][Next]_vars

-----------------------------------------------------------------------------
(***************************************************************************)
(* What is committed on the branch, here or by others, is never lost: not  *)
(* by a push that is rejected, a rebase, its conflict, a context that ends *)
(* in the middle, or another call at the same time.                        *)
(***************************************************************************)
Committed == Has(remote) \cup Has(IF saved = NotRebasing THEN head ELSE saved)

CommittedIsKept == [][Committed \subseteq Committed']_vars

(***************************************************************************)
(* A call that answers "pushed" has published everything it found in the   *)
(* workspace and every change of the commit it names, rebased or not, and  *)
(* whatever had become of earlier calls; if no other ran at the same time. *)
(***************************************************************************)
PushedIsPublished ==
  \A c \in Calls :
    answer[c] = "pushed" /\ alone[c] => work[c] \cup Has(sha[c]) \subseteq Has(remote)

-----------------------------------------------------------------------------
(* What the repository says and the code does not keep *)

(***************************************************************************)
(* "On true content conflicts ... the rebase aborts and the function       *)
(* returns a clear error"; only a human can resolve them safely            *)
(* (commit_workspace.go:139-142): no conflict markers are published.       *)
(***************************************************************************)
ConflictsAreNotPublished == Markers \notin Has(remote)
=============================================================================
