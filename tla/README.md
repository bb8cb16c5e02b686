# A TLA+ model of claude-tools-mcp

claude-tools-mcp is a Go server that gives an agent its tools over HTTP: files,
shells, long-running jobs, agent runners, and publication of the workspace.
This directory models the parts of it that have state and concurrency, checks
them with TLC, and proves what matters most with TLAPS.  Line numbers below are
those of `src/`, with `internal/tools/` left out.

1. [Inventory](#1-inventory)
2. [Modules](#2-modules)
3. [What the runs show](#3-what-the-runs-show)
4. [Bounds](#4-bounds)
5. [Fairness](#5-fairness)
6. [Proofs](#6-proofs)
7. [Where code and documentation disagree](#7-where-code-and-documentation-disagree)
8. [What is not modelled](#8-what-is-not-modelled)
9. [Plan](#9-plan)

## 1. Inventory

All server state is in one `State` (server.go) shared by all requests; each
request is a goroutine, and jobs and background shells leave goroutines behind.
`State.Mu` guards three maps: `Jobs`, `BackgroundShells`, `ReadFiles`; what the
entries point to is written partly with and partly without it.

| Component | State it keeps | Operations | Correct if |
|---|---|---|---|
| Event ring (job_events.go) | array, head, length | Push, Snapshot | a snapshot is the last N events in order |
| Job table (job.go, agent_runner_tool.go, server.go, cmd/.../async_handler.go, job_handlers.go) | `Jobs`: status, result, error, times, `Done`, `Cmd` | StartJob, runAgentJob, failJob, GetJob, CancelAgentJob, evictOldJobs | a poll reports what happened; `Done` closes once and after the outcome; cancelling stops the runner; a finished job stays for a while and then goes |
| Agent event pipeline (job_event_pusher.go) | FIFO, ring, `EventCount`, `TerminalEventSeen`, delivery queue, `WebhookDrops` | scan, push, queue, post with retries, synthesize | one terminal event, seen by the poll; no event sent before an earlier one is done with, nothing lost uncounted; a slow webhook never blocks the runner |
| Background shells (bash.go, bash_output.go, kill_shell.go, list_shells.go) | `BackgroundShells`: two buffers, two read markers, exit code, `Done` | start, monitor, bash_output, kill_shell, list_shells | all output once and in order; a final status is true and comes with the rest of the output |
| File guard (read.go, write.go, edit.go) | `ReadFiles`: time of the last read | read, write, edit | nothing is overwritten that the caller has not seen |
| Edit text (edit.go, common.go) | none | replace, modifiedLines, snippet | exactly the requested change is made and shown |
| Commit and push (commit_workspace.go) | the git repository | add, commit, push, pull --rebase, abort | what is committed is never lost; "pushed" means published |
| Dist sync (commit_workspace.go, r2.go) | objects in R2; per call: local files, upload slots, errors | walk, upload, list, delete | a sync without errors makes the site equal to dist/; failures take no page down; uploads/ is left alone; it answers |
| R2 store (r2.go, assets.go, docs.go, userdata.go) | objects with ETags | read, conditional write, conditional delete, list | no acknowledged update is lost; "mismatch" is said only of what has changed |
| Foreground bash (bash.go) | the process, its context | run with a timeout | answers in time with the true outcome and all output |
| Limits and ranges (constraints.go, read.go, common.go) | none | checkOutputSize, calculateLineRange, limitLines, catN | what is asked for is shown, slices stay in range, output is bounded |
| Filter and log (bash_output.go, bash.go) | the part of a line held back | filterOutput, linePrefixWriter | lines stay whole however the output arrives |
| Searches (glob.go, grep.go, raw_read.go) | none | search, read | the first results are shown whole; the rest is I/O |
| Server (cmd/claude-tools-mcp/main.go) | none | routing, authentication, shutdown | library calls |

**Interactions.** An asynchronous call (async_handler.go) becomes a job; the
job `dev_run_agent` starts a runner process and an event pusher that reads the
runner's FIFO.  The pusher writes the job's ring, which `GET /jobs/{id}/events`
reads, and feeds a deliverer that posts to the platform.  The waiter of the
runner, cancel requests and the evictor change the same job.  Shells, their
monitor goroutines and the shell tools share `BackgroundShells`.  Read, write
and edit share `ReadFiles` and the file system with every other program.
`commit_workspace` shares the working tree with all of them, the remote
repository with everyone who pushes to it, and the site's objects with other
calls of it.  The tools for assets, docs and user data share objects with every
other client of the buckets.

**What is hard.** Channels closed by several parties, some without the lock;
status set in one critical section and acted on in another; processes that
ignore SIGTERM, die in the middle of a line, or leave children that hold their
pipes; full FIFOs and queues; posts whose answer is lost, or that arrive after they were given up; time stamps compared
with other time stamps, which need not go forward; files modified between two looks; git commands cut off
by the end of a request; requests to an object store that are repeated, or
arrive after they were given up; output that arrives in arbitrary pieces.  `PROJECT.json` lists each of these at its line, under
"hazards", with the properties that would show it going wrong.

## 2. Modules

| Module | Models | Builds on |
|---|---|---|
| `BoundedLog` | what an event ring promises: a log of the last `Cap` events | |
| `EventRing` | the circular array; implements `BoundedLog` under the refinement mapping `window <- Snapshot` | `BoundedLog` |
| `JobTable` | jobs, cancellation, eviction | |
| `AgentPipeline` | runner, FIFO, pusher, ring, queue, webhook, synthesis | `JobTable` (its actions), `BoundedLog` (as the ring) |
| `BackgroundShells` | shells, monitor, bash_output, kill_shell | |
| `ForegroundBash` | the bash tool: foreground calls, timeouts, kills | `BackgroundShells` (the same processes) |
| `FileGuard` | read-before-write by modification times | |
| `EditText` | replacement, changed lines, snippet | |
| `TextTools` | read ranges, filter, log, limits of grep | `EditText` (texts, and edits as one more tool) |
| `CommitPush` | stage, commit, push, rebase, push again | |
| `AssetTools` | conditional reads, writes and deletes of one R2 object | |
| `DistSync` | the site in R2 made equal to dist/ | |
| `R2Tools` | both uses of R2, side by side, for TLC | `AssetTools`, `DistSync` |
| `EventRingProofs`, `JobTableProofs`, `AgentPipelineProofs`, `FileGuardProofs`, `CommitPushProofs` | theorems | the module of that name |
| `ForegroundBashProofs` | theorems about shells and foreground calls | `ForegroundBash` |
| `R2ToolsProofs` | theorems about assets, the site, and both | `R2Tools` |
| `TextToolsProofs` | theorems about edits and the other tools | `TextTools` |

Definitions marked as a *slip* are not part of a specification: they are
variants of an action with a plausible mistake, and the properties are tested
by putting one of them in the action's place.

### Atomicity

A critical section of `State.Mu` that nothing can interfere with is one step,
guarded by `mu = Nobody`.  It is several steps where something outside the lock
can come between: in `JobTable`, the test of a `Done` channel and its close,
because `CancelAgentJob` closes `Done` without the lock
(agent_runner_tool.go:264-268); in `BackgroundShells`, reading output and
reading the status, because output goes on arriving.  Accesses without the lock
are steps of their own.  So is every access to the file system in `FileGuard`
and every git command in `CommitPush`.

### JobTable

`status`, `error`, `result`, `done`, `cmd`, `createdAge`, `completedAge` are the
fields of `Job`; values of results and texts of errors are reduced to whether
there is one, times to ages that stop at `EvictAfter + 1`.  `pc` is the
goroutine of a job: "tool" for a generic job; for an agent job "starting",
"setup", "assigned" (the `Cmd` is in the job), "waiting" (the runner runs),
"reaped", "closing", or "failing" on its way to `failJob`.  `proc` is the
runner's process.  `cpc` is a cancel request: it finds its job, marks it
(`CancelMarks`), and then signals, waits, kills and closes, or, if there is no
process, records the completion and closes; it looks for the process without
the lock (`CancelSeesNoProcess`).  A double close in a goroutine sets
`crashed`, since nothing recovers it; in a request it leaves the request
"panicked", since net/http recovers it, with the lock kept if it was held.

### AgentPipeline

An `INSTANCE` of `JobTable` without generic jobs; its actions happen with what
they mean for the pipeline (a started runner opens the FIFO and starts the
pusher, a reaped one closes the server's end, `failJob` starts a synthesizer).
A line is its number and its kind: a span, a terminal event, one longer than
the scanner's buffer, or one that was cut short.  `ppc` is the pusher (scan,
ring, mark as terminal, offer), `spc` the synthesizer (look up, wait for
`Done`, claim, push, hand over), and the deliverer has `inflight`.  An attempt to
post is answered, or fails, be it that nothing came back within the 30 seconds
of the client; its request arrives at any moment after that or never.  `posted`
are the events there was an attempt for, of which any may arrive next, also once
more.

### BackgroundShells

A process writes chunks, forks children, exits; os/exec copies the chunks to the
`SyncBuffer`s, reaps the process, and lets `cmd.Wait` return only when every
holder of the pipes is gone.  `shown` and `told` record what callers got, `wasted`
what was taken by a call that then failed.  A filter either matches every line
or is invalid.  `monitored` says that a process was started in the background
and has a goroutine that waits for it.

### ForegroundBash

The same processes, one of which may be started by a foreground call instead.
`ctx` is the context of the call, which ends by the deadline or because the
request is over; then a goroutine of os/exec kills the process (`interrupted`),
unless it has been waited for.  `killed` says that a SIGKILL ended it, whoever
sent it.  `Returns` is the end of `cmd.Run` and the answer `executeForeground`
makes of the exit, the context and the output: all three may have ended in any
order.

### FileGuard

One file.  Its contents are version numbers.  Its modification time may become
any with each modification, earlier ones included: clocks are coarse and may be
set back, and mv, tar, cp -p and rsync -t bring the time of another file.  A call
holds the time and the version it has seen; other programs write and delete the
file at any moment.  `lost` records versions overwritten by a tool, `known`
those a tool has read or written, `raced` those that came while another call was
under way, `outdated` those that came with a time no later than the recorded one
or one that a call has in hand, so that no comparison can tell them.  `os.WriteFile` empties the file
(`Truncates`), writes it piece by piece (`WritesPart`, `Fills`), and may fail before
any of them (`WriteFails`); what is there in between nobody has seen, so it is a
version of its own that is not known until a tool reads it.  An edit goes on with
the same write.

### EditText

One edit of one text.  `Matches` finds what `strings.Count` counts, from the left
and without overlaps; `ModifiedLines` is `modifiedLines`, and the snippet is cut
as `executeEdit` cuts it.

### TextTools

Every text of `EditText`, given to one of five tools.  `CalculateLineRange` works
on ints that wrap (`Wrapped`).  For the filter and the log the text is the output
of a command: `at` is how much of it has arrived, and each call takes one more
piece of any size, so that a line may come in several.  `whole` records that
pieces so far have ended where lines end.  Regular expressions are reduced to
three: none, one that matches every line but the empty one, and one that matches
only that.

### AssetTools

One object and callers that read it and then write or delete it.  A body is the
set of contributions in it, and a writer adds its own to what it has read, so
that a lost update shows; the ETag stands for the body.  `expected` is the
argument: "nil" (left out, or null), "empty" (create only), or the "etag" of what
was read.  A request is one or more attempts of the SDK: an attempt is answered
(and carried out by the service in one step, condition and all), or gets no
answer, and then it may still arrive at any later moment (`late`).  `docs.go` and
`userdata.go` are the same handlers for other buckets; some definitions are
mapped to their lines.

### DistSync

Files and objects are numbered in the order of their keys; a file is the number
of the build that wrote it.  The walk looks at one file per step, each upload
takes a slot, reads its file as it is *then*, and puts it; the listing takes a
page per step; deletions go one by one.  Builds go on changing dist/ all the
while, another call may be syncing, every request may fail, and one that was
given up may arrive later (`strays`).  `calm` says of a sync that nothing it
looks at has changed since it began, `rivals` are the syncs it has shared the
site with, and `steady` the files in dist/ since the beginning.

### CommitPush

A commit is the set of changes it makes, a history the sequence of its commits.
`saved` is the branch during a rebase, while `head` is detached.  Between any two
git commands the workspace is edited, others push, other calls run, or the
request's context ends, after which `exec.CommandContext` starts nothing more.
`alone` says of a call that no other has been under way since it began.
That git behaves as the actions say when a rebase is under way, when the tree is
not clean, and when `git pull` is killed was tried out with git itself.

## 3. What the runs show

| Run | Properties | Shows |
|---|---|---|
| `ring` | TypeOK, ImplementsBoundedLog | the array behaves like a log at every position of the head, before and after it fills |
| `jobs` | TypeOK, DoneMeansFinal, OutcomeIsTrue, CancelSticks, GraceAfterFinish, CancelsReturn, FinishedJobsLeave | with two cancel requests racing the runner's exit, the tool's return and the evictor, a poll sees "done" and "failed" only where they are true, and an outcome whenever `Done` is closed; a cancelled agent job stays cancelled; a runner that ignores SIGTERM holds up no request; the table empties |
| `pipeline` | TypeOK, AtMostOneTerminal, RingIsOrdered, PollSeesWhatDeliverySees, EveryEventIsAccountedFor, CancelledEventIsTrue, NothingOvertakes, FifoDrains, TerminalReachesPoll | the claims about events, with everything full and everything failing; no event is sent before those before it are acknowledged or given up; a post that never returns does not stop the FIFO; every job that got a ring gets a terminal event there, and polls see it unless a line in the ring is no JSON |
| `shells` | BashTypeOK, OutputIsNew, NothingElseIsSkipped, FinalAnswerIsTrue, ForegroundAnswerIsTrue, EndIsSeen, CallsReturn | two readers, a killer, and a child that keeps the pipes, on a process in the background or the foreground; only a call that fails takes output with it; kill_shell does not hang; an end is seen; a foreground answer is true and complete, and comes when the time is up unless a child is left |
| `files` | TypeOK, OnlyRacesGoUnseen | the guard's gap is no wider than known: a race within a call, and a version whose time is no later than one the tools go by; also with writes that fail half way: what they leave must be read before it is overwritten |
| `text` | RangeIsTheChange, OneOccurrenceChanges, ReadShowsWhatWasAsked, LinesStayWhole, GrepShowsFirstLines | one occurrence changes, and the range found is the smallest that holds the change; read shows the lines asked for, and no slice leaves the file unless the sum overflows; filter and log keep lines whole; grep's two limits cut at line ends |
| `commit` | PushedIsPublished, CommittedIsKept | two callers, conflicts, interruptions: no commit on the branch is lost, and "pushed" is true of a call that ran alone |
| `r2` | TypeOK, AckedIsKept, MismatchMeansChanged, CleanSyncMirrors, PagesStayUp, SyncsReturn | repeated and late attempts lose no acknowledged write; "mismatch" is never a false alarm; a sync that reports no error has mirrored dist/, even next to another one; partial failure takes no page down; slots are given back |

The other runs, expected to end in a violation, are in section 7.

`jobs` and the pipeline allow deadlock, since jobs end and ids are not reused;
so do the others, whose bounds run out.  `ring` does not.

## 4. Bounds

* `EventRing`: four slots, three events.  Every full ring over these events is
  reached at every head; wrapping shows in the second round.
* `JobTable`: one agent job, one generic job, two cancel requests,
  `EvictAfter` = 0: an age is within it or over it, and more makes no
  difference.  Jobs meet only at `State.Mu` and in the evictor, so a second job
  of a kind adds interleavings and nothing to see; the theorems hold for any
  number.  Two requests are needed for two closers besides the waiter.
* `AgentPipeline`: two lines (`MaxLines`), a FIFO and a queue of one (both
  fill), a ring of two (it forgets as soon as a synthetic event follows two
  lines), two attempts per post (one retry).  Full means the same at any size.
* `ForegroundBash` with `BackgroundShells`: one process, two readers, two chunks, on the same stream or
  on different ones.  Two chunks make order, repetition and omission visible;
  processes share nothing but the lock.  `MaxOutput` is one chunk, so that output
  is within the limit or above it.
* `FileGuard`: two calls, three modifications, two modification times.  Three
  modifications are one to read, one to miss, one that overwrites; a write that is
  not cut short takes two.  The code only compares times: with two of them the next
  version's is earlier, the same, or later.  The theorem holds without these bounds.
* `EditText`: texts of up to six characters and strings of up to three over one
  letter and the newline: up to seven lines, overlapping matches, changes at
  the start, the end, and over all of the text.
* `TextTools`: the same texts; offsets and limits are four-bit ints, so that every
  sum that can overflow does; limits of two and three lines and four characters,
  below what the texts have.
* `AssetTools`: two callers, three attempts (the SDK's default), one read and one
  write or delete each.  Two suffice for one to overwrite the other, and an
  attempt can be lost, late and repeated; the theorems hold for any number.
* `DistSync`: two syncs, three keys of which one is under uploads/, one slot, one
  build, one stray request, pages of one object.  Two files outside uploads/ are
  one that is kept and one that goes, two pages, and more than the slots; dist/
  starts with all files or the first, the site with all.
* `CommitPush`: two callers, three calls, three changes (`MaxChanges`, which
  others' pushes count in).  One change each here and there make a conflict; a
  third is committed in the middle of it.  Each conflict can leave one more commit on main, so calls are bounded too; three
  are one that is cut off, one that finds what it left, and one after that.

## 5. Fairness

Weak fairness for the steps of the server's goroutines: the Go scheduler runs
what can run, timers fire, tickers tick.  `BackgroundShells` has strong fairness
for steps that wait for `State.Mu`, which others keep taking: Go's mutexes hand
the lock to whoever has waited for long.  `JobTable` needs only weak fairness: there a step is disabled by the mutex only while a
close is pending, which happens at most once per request and once per job.

A process killed with SIGKILL exits; os/exec copies what is in a pipe.  Nothing
is assumed of tools (they may never return), of runners (they may never exit,
and may ignore SIGTERM), of the children of a shell, of callers, or of the
webhook (`DeliveryStep` has no fairness at all in `AgentPipeline`).  `CommitPush`,
`FileGuard`, `EditText`, `TextTools`, `AssetTools` and `EventRing` have no liveness
properties and no fairness.

`ForegroundBash` adds the timer's kill and the return of `cmd.Run`.  In `DistSync`
an upload ends: it is carried out, or the SDK's attempts are spent; that an
attempt gets no answer is never the only thing that goes on happening.  Builds,
strays and the begin of a call have no fairness.

## 6. Proofs

TLAPS checks these for every value of the constants, from the ASSUMEs of the
modules alone.  Those say that ids are distinct and that bounds are natural
numbers, positive where the code's are (the ring of the pipeline, the attempts of
a delivery or of the SDK, the upload slots, the limits of `read` and `grep`); that values
which stand for nothing (`NoEvent`, `NoLine`, `NotRebasing`) are none of the
things they are told from; that a process has finitely many streams (it has two);
and that no file has as many lines as there are ints.

Some of what is proved is about data of any length: sums over streams, texts,
histories.  There `SetInduction` is the induction: a set of natural numbers with 0
that has n + 1 with every n is `Nat`.  It follows from the library's theorem that
the strict subsets of finite sets are well founded, and unlike the library's own
induction theorems it takes a set in place of a predicate.

**EventRing.**  `TypeCorrect` and `RingImplementsLog`.  `TypeOK` is inductive: it
says that the head is 0 until the ring is full and that the slots in use are
those below the length.  `PushRecords` shows that one push appends to the
snapshot and drops its first event when the ring is full; it rests on three
lemmas about `%` by the capacity.  A capacity of 0 is included.

**JobTable.**  `Invariance` is about `IInv`: the types with the owner of the mutex,
`DoneMeansFinal`, `OutcomeIsTrue`, and three facts those need.
`StatusFollowsGoroutine`: "done" and "failed" are written only by the goroutine
of the job, with a completion time.  `RunnerFollowsGoroutine`: there is a runner
exactly where the goroutine waits for it; `OutcomeIsTrue` needs it, because the
waiter decides by how the runner exited.  `MarkedStaysFinal`: past
`CancelMarks`, the target has an outcome nothing resets; `DoneMeansFinal` needs
it, since a request closes `Done` many steps after it marked the job, without
the lock.  `TypeCorrect`, `DoneIsFinal` and `OutcomesAreTrue` follow, and so do
the action properties `CancellationSticks` and `GraceIsGiven`.

**AgentPipeline.**  The invariant is one per job, `JobInv`, because a step concerns
one job: `SameKeeps` says that the others' hold on, and `TableStep` which few facts
of JobTable the pipeline relies on (a job past its early stages does not come back
to them, nor to the table; it keeps its ring and stays cancelled).  `Numbers` ties
the count of a listed job to how many lines have left the FIFO, `SentBefore` says
that what comes next has a greater number than all that was sent.  From these two
follow the order in the ring and the order of delivery (`DeliveryOrder`, of which
`NothingOvertakes` is a part), for the synthetic event too, whose number is the count
and not a line's.  `TypesAreRight` is the types of all
variables, the table's own (`JobTypesHold`) and each ring's included.  `OneTerminal` is about the race of the
two terminal events: once the runner's is in the ring nothing follows it in the
FIFO, and while the job is listed it is marked before anybody claims the synthesis.
`RememberOrder` is the lemma about a ring that forgets, which `PollsSeeAll` rests
on.  `JobsAreJobTables` carries the theorems of JobTable over to the jobs here,
`TypeOK`'s conjunct about them included.  The capacity of the ring and the number
of attempts are assumed to be at least one, as they are in the code.

**FileGuard.**  `OnlyRacesGoUnseen` looks at the moment of an overwrite; what makes
it true was decided when the time was recorded.  `IInv` adds `TimesAreRight`:
a recorded time not older than the file means that the file's version is known,
raced, or outdated (`RecordIsTrustworthy`), so it is for calls past their check
(`CheckedIsSafe`), and readers, writers and editors hold times that will keep
this so when they record them; a call in the middle of its write finds its own
half of the file there, or what is safe to overwrite (`TornIsOwnOrSafe`).
Nothing is assumed of modification times.  A new version whose time is later than
all of `GoneBy` cannot pass for an old one (`FileStep`, with `Newer`); any other is
in `outdated`.  `NoOtherGap` is the theorem, for any calls and any times.

**AssetTools.**  `AckedIsKept` is inductive together with the types, which relate
the argument of a call to what it has read and its attempts to where it is.
`CarryKeeps` is the lemma about a request that the service carries out, in time
or late, once or again: what goes from the object is what the caller saw, or
what it said it did not care about.  `Answered` and `LateArrives` both rest on
it.  `NoUpdateIsLost` is the theorem, for any number of callers and of attempts.
`AlarmsAreTrue` needs one fact more, `SeenUnlessMoved`: from its read on, the object
is what a caller saw, unless something changed it, be it an attempt of its own.

**DistSync.**  `NoPageGoesDown` rests on `SInv`: a walk has every file that has been
there all along in its `localFiles` or still before it, what is put is a file, and
no deletion of such a page is on its way.  `CleanSyncsMirror` needs `MInv` as
well.  `Quiet` is the condition of the property; `AllLookRight` says that a sync
nothing has disturbed has seen dist/ as it is, `RivalsAreKnown` that whoever is
under way is among the rivals, so that its steps only improve the site, and
`QuietSyncsMirror` how far the mirror has come, for every place of the sync.  Both
hold for any number of syncs, keys, slots, builds and late requests.
`SlotsAreThoseOfUploads` says that every slot of the semaphore belongs to an
upload that runs, with which a slot more is always below the bound; the types
follow.  `EachIsItself` carries the theorems about each half of `R2Tools` to both
together: a step of one is a stutter of the other.  `TypeCorrect` is one of them.

**BackgroundShells.**  `IInv` has three parts besides the types.
`ProcessesAreInOrder`: a marker is behind what was copied, which is behind what
was written.  `CallersAreInOrder`: who has read and not answered holds the lock.
`OutcomesAreInOrder`: `Done` is closed behind the last writer and the last chunk,
and a caller that finds it closed has read all there will be.
`FinalAnswerIsTrue` needs all three.  That output is new rests on
`MarkersAreInOrder`, which adds to `OutputIsNew` that what is told or in hand is
behind the marker, and that what is in hand comes after what was told;
`NothingElseIsSkipped` is inductive with it.

**ForegroundBash.**  The invariant of the shells must hold with foreground calls
and their kills next to them, since `BashSpec` is what the run checks; the lemmas
about shells are about steps, not about `Spec`, and are used again.
`CallsAreInOrder` says which end of a process, of its context and of the call
goes with which; `EndsStay` is the lemma an answer stays true by: how a process
ended, and what it wrote, is fixed once it has been waited for.  `TypesAreRight`
adds the bound on what is written, which concerns the sum over the streams of a
process and so needs that a term is no more than the sum (`SumsExist`,
`SumIsNoLess`), and `Waiters`: who waits for a process, its call or its monitor, is
decided when it starts.

**CommitPush.**  `IInv` is the types, `CallsAreInOrder`, `WorkIsInHand`, and
`PushedIsPublished`.  `WorkIsInHand` says where the work is that a call alone has
found in the workspace: in the tree or in the index, then in the index or in HEAD,
then in HEAD together with what was committed.  A step of one call concerns only
that call (`OwnStep`), because a call that is alone has all others idle
(`OthersAreInHand`).  The rebase is the hard part: `MineIsAllThatIsLeft` says that
what it takes along is every commit the remote has not, and `RebaseKeepsBoth` that
putting them on top of the remote loses no change of either.  `NoCommitIsLost` is
the action property, from `RemoteGrows` and `BranchStays`.  `Mine` picks commits by
their rank, since what `SelectSeq` keeps cannot be expanded by the provers.

**EditText.**  `Matches`, `Replacing` and `Split` recurse over a text.  Three lemmas
say of the recursions what is needed of them: `MatchesStep` (what is found from a
place on), `FlattenStep`, `UptoStep`.  By induction every occurrence is covered by
a match (`MatchesCover`): strings.Count skips only what overlaps, and one
match means the first occurrence (`OneIsFound`).  `ReplacingOne` says what is
replaced at one place.  `OneIsRight` is the theorem; its invariant remembers that
the edit was made where it had one match.  `RangeIsRight` needs of
`modifiedLines` that the counts at both ends are the longest and do not overlap
(`LeadingIsLongest`, `TrailingIsLongest`), and then that a shorter range would make
one of them longer (`RangeIsLeast`).

**TextTools.**  `ReadsWhatWasAsked` is about all ints of any width.  The argument is
`RangeIsAsked`: where the sum does not wrap beyond the end of the ints, it is exact
or behind the last line either way (`WrappedIsItself`, `RangeEnds`), and the lines
asked for are an interval, which in order is what the slice is (`IntervalInOrder`).

`LinesAreWhole` is about output of any length in any pieces.  It rests on how `Split`
goes on when a text is continued: by one character (`SplitAppend`: a newline begins a
line, all else goes to the last one), and from that, by induction over the text
(`SeqInduction`), by a piece (`SplitConcat`).  `LogInv` says of `linePrefixWriter`
that what it has logged and what it holds back are the lines of what has arrived.
For the filter, `Matched` says what is right: the lines that match, each with its
newline, the last with none if it has none.  `FilterIsRight` shows that Join over
what matches, with the newline put back, is that; `MatchedConcat`, that two answers
make one if the first ended a line; `FilterInv` remembers that every piece did.

`GrepIsRight` compares two ways to the same lines: the caller's limit counts lines and
joins them again, the server's counts newlines, and each trims or keeps what is at the
end.  `CutIsLines` says that both end at a newline of the same number, so that all is
about positions in the trimmed text.  `LimitsMeet` shows, by which limit is the
smaller, that what is shown and what is allowed differ only by newlines at the end,
and that what is shown is no more than one character longer; so nothing is "too big"
without reason.

`InOrder` and `Selected` pick by rank, for the reason given for `Mine`.

**Only model-checked.**  Liveness, which TLAPS cannot prove under fairness:
`CancelsReturn`, `FinishedJobsLeave`, `FifoDrains`, `TerminalReachesPoll`, `EndIsSeen`,
`CallsReturn` and `SyncsReturn`.  Every invariant and every action property that a run
finds to hold is also a theorem.

## 7. Where code and documentation disagree

Four of these are runs, whose one property says what the repository says, and
which TLC refutes by a behaviour of the code.

| Run | What happens |
|---|---|
| `double_close` | cancelling a generic job closes `Done`, and its goroutine closes it again when the tool returns: the server panics |
| `cancel` | a request that comes before the runner has started answers "cancelled"; the runner is started and never signalled |
| `edit_answer` | an edit that removes lines near the end writes the file and panics |
| `commit_markers` | when the context ends after a conflict, the abort is not run; the next call commits and pushes the conflict markers |

The others are no runs.  The passing properties are stated so that they allow
exactly these cases and nothing more, or the case lies outside of them.

* A cancel request closes `Done` without the lock (agent_runner_tool.go:264-268)
  and can meet the close of the runner's waiter: a double close as well.
* A cancelled job has no completion time until its runner exits, and is evicted
  by its age since creation (job.go:162-165), although "every status-flip site
  sets it" (152-153).  `GraceAfterFinish` is about jobs nobody cancelled.
* A job with bad arguments has no ring for its terminal event (job.go:94-98
  against agent_runner_tool.go:213-216).  `TerminalReachesPoll` is about jobs with
  a ring.
* One line that is no JSON empties the answer to every poll as long as the ring
  holds it (job_handlers.go:53).  `TerminalReachesPoll` makes that exception.
* bash_output with an invalid filter moves the markers (bash_output.go:50-51)
  and returns no output (71-82), although callers "always see new data since
  their last call" (44).  `NothingElseIsSkipped` allows only that.
* A shell that was reaped while a child holds its pipes passes for running, and
  killing it fails (kill_shell.go:34-37), which the look at `Done` is there to
  prevent (24-27).
* What others write between check and write is overwritten unseen
  (write.go:23-40, edit.go:95-116).  `OnlyRacesGoUnseen` allows such races.
* A file put in place with an older modification time than it had, or the same
  (by mv, tar, cp -p, rsync -t, within a tick of the clock, or when the clock was
  set back), counts as unmodified (write.go:32, edit.go:148): it is overwritten
  unseen, although the check is there to "detect if the file has been modified
  externally since it was last read" (write.go:21).  `OnlyRacesGoUnseen` allows
  that for times no later than the recorded one, or than one that a call in
  progress has in hand, and for no others.
* An event whose attempt was given up after 30 seconds (job_event_pusher.go:31-34,
  303) may reach the platform after its repetition and after later events: what
  comes out of order is an older event.  `NothingOvertakes` says that no event is
  sent before those before it have an answer or are given up.
* An oversized line, numbered by the runner, never reaches the ring; the synthetic event
  that follows may have the same number.  `RingIsOrdered` is about numbers in the
  ring.
* A read that shows nothing (binary, too long, past the end) still entitles its
  caller to overwrite: the time is recorded first (read.go:31), although a read
  "ensures the user has visibility into the file content" (edit.go:138-139).
* "aa" counts as unique in "aaa" (edit.go:67 against 157).
  `OneOccurrenceChanges` says that no other kind of repetition does.
* The snippet's lines are off by one against their numbers: `modifiedLines`
  counts lines from 1, the slice at edit.go:39 from 0.
* With another call stopped in the middle of a rebase, HEAD is the remote's own:
  pushing it succeeds, and the call answers "pushed" with nothing published.
  `PushedIsPublished` is about calls that ran alone.
* `write_asset` says that `expected_etag` null means create only (assets.go:93,
  99); a null is decoded to nil like a field left out, and overwrites whatever
  is there (156).  write_doc and write_userdata say `""`, which is what the code
  does for all three.  `AckedIsKept` takes a null for what the code takes it for.
* A conditional write whose answer is lost is repeated by the SDK and finds its
  own ETag changed: the caller is told "mismatch" of a write that is there.
  `MismatchMeansChanged` counts that as a change.  An attempt without a condition
  that arrives late can bring back an object that was deleted since.
* Two syncs that saw different builds: the deletions of the one that saw the older
  build remove the newer one's files from the site, and both report no error.
  A build that empties dist/ and fills it again while a sync walks it takes the
  site down.  `CleanSyncMirrors` is about syncs during which dist/ did not change.
* A foreground call does not end at its timeout while a child of the command holds
  the pipes (bash.go:98, without WaitDelay), although foreground commands
  "use context timeout to enforce synchronous execution limits" (61-62).
  `CallsReturn` makes that exception.
* Any SIGKILL, the kernel's too, is answered as a timeout (bash.go:113), and so is
  a command that succeeded just when the time was up, whose output is dropped.
  `ForegroundAnswerIsTrue` says that only a command somebody killed, or whose
  deadline passed, is answered so.
* An offset in the file with a limit near the largest int makes read panic: the
  sum wraps (read.go:96) and the slice ends before it begins.
  `ReadShowsWhatWasAsked` leaves out these arguments.
* A filter sees a line that comes in two calls of bash_output as two lines, and a
  pattern that matches the empty line doubles the newline at the end
  (bash_output.go:118-130).  `LinesStayWhole` leaves these out.
* Job.cancel is called only when the goroutine of a job ends (job.go:107,
  agent_runner_tool.go:73): cancelling a generic job does not stop its tool.
* What is committed on the detached head of a rebase left over is dropped by the
  abort of a later call, if its push had failed.  `CommittedIsKept` is about the
  branch.

## 8. What is not modelled

* The searches of glob and grep and raw_read: I/O and pattern matching, no state.
  The listing tools of R2: one request per page, no state; the pages are modelled
  in `DistSync`.
* Routing, authentication, the MCP transport: libraries.  Shutdown: main calls
  `http.Server.Shutdown`, which waits for requests; jobs and shells end with the
  process, and nothing in the repository is there to see it.
* Inside the modelled parts: a job's result and error texts; tokens and the author's identity in `commit_workspace`; untracked
  files, which git's pull and abort leave alone; the order of the two streams in
  the output of a foreground call; binary files and files above the size limit;
  the digits of line numbers in the size of an output; a delete with an empty
  ETag.
* Assumed of what is outside: the object store carries out a request and its
  condition in one step and honours If-Match on deletes (as the mock of the tests
  does); a listing shows every object that was there all along.

## 9. Plan

Done: the server's own concurrency (job table, pipeline, shells, foreground
calls), what loses users' data (files, edits, commits, objects, the site), and
what the tools make of text.

What is left to model: a listing that changes under the feet of list_assets.

What is left to prove: of what the runs check, only liveness, which is out of the
prover's reach.
