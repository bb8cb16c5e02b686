------------------------------- MODULE FileGuard -------------------------------
(***************************************************************************)
(* How the read, write and edit tools keep a caller from overwriting what  *)
(* it has not seen (internal/tools/read.go, write.go, edit.go): a file     *)
(* must have been read, and not been modified since.  "Since" is decided   *)
(* by modification times kept in State.ReadFiles.                          *)
(*                                                                         *)
(* One file, any number of calls that run at once (each HTTP request and   *)
(* each asynchronous job is a goroutine), and other programs that modify   *)
(* the file.  A content is a version number, new with every modification.  *)
(* It comes with any modification time: that of a clock, which is coarse   *)
(* and may be set back, or that of another file, as with mv, tar, cp -p    *)
(* and rsync -t.                                                           *)
(* Every access to the file system is a step; os.WriteFile is several, and *)
(* can fail before each: it empties the file, then writes the content.     *)
(***************************************************************************)
EXTENDS Integers

CONSTANTS Calls,       \* tool calls
          MaxVersion,  \* how often the file is modified (a bound)
          MaxTime      \* the latest modification time (a bound)

ASSUME BoundsAreNat == MaxVersion \in Nat /\ MaxTime \in Nat

VARIABLES
  \* the file system
  present, version, mtime,
  last,      \* the newest version number there is
  \* the server
  readTime,  \* ReadFiles of the file, NotRead if it has no entry
  \* each call: where it is, the time and the version it holds
  pc, time, got,
  \* history
  hadTimes,  \* modification times the file has had
  known,     \* versions a tool has read or written
  raced,     \* versions of others, and half-written ones, that came while
             \* another call was under way
  outdated,  \* those that came with a time no later than one a tool goes by
  lost       \* versions overwritten by a tool

fileVars == <<present, version, mtime, last, hadTimes>>
callVars == <<pc, time, got>>
history == <<known, raced, outdated, lost>>
vars == <<fileVars, readTime, callVars, history>>

NotRead == -1
NoTime == -1
Times == 0 .. MaxTime

Init ==
  /\ present \in BOOLEAN
  /\ version = 0 /\ last = 0 /\ mtime \in Times /\ hadTimes = {mtime}
  /\ readTime = NotRead
  /\ pc = [c \in Calls |-> "idle"]
  /\ time = [c \in Calls |-> NoTime]
  /\ got = [c \in Calls |-> 0]
  /\ known = {} /\ raced = {} /\ outdated = {} /\ lost = {}

\* The file gets a content nobody has seen, and a time of whatever origin.
Modify == /\ last < MaxVersion
          /\ last' = last + 1
          /\ version' = last + 1
          /\ mtime' \in Times
          /\ hadTimes' = hadTimes \cup {mtime'}
          /\ present' = TRUE

\* The call is over: answered, or refused with an error.
Returns(c) == /\ pc' = [pc EXCEPT ![c] = "idle"]
              /\ time' = [time EXCEPT ![c] = NoTime]
              /\ got' = [got EXCEPT ![c] = 0]

Goes(c, to) == pc' = [pc EXCEPT ![c] = to] /\ UNCHANGED <<time, got>>

-----------------------------------------------------------------------------
(* executeRead *)

\* validateFileForRead: its time is taken before the file is read.
ReadStats(c) ==
  /\ pc[c] = "idle" /\ present
  /\ time' = [time EXCEPT ![c] = mtime]
  /\ pc' = [pc EXCEPT ![c] = "readStat"]
  /\ UNCHANGED <<fileVars, readTime, got, history>>

ReadsFile(c) ==
  /\ pc[c] = "readStat"
  /\ IF present
     THEN /\ got' = [got EXCEPT ![c] = version]
          /\ pc' = [pc EXCEPT ![c] = "readFile"]
          /\ UNCHANGED time
     ELSE Returns(c)
  /\ UNCHANGED <<fileVars, readTime, history>>

\* Slips: what is recorded is the time the file has now, or that of a clock.
ReadRecordsLate(c) ==
  /\ pc[c] = "readFile"
  /\ readTime' = mtime
  /\ known' = known \cup {got[c]}
  /\ Returns(c)
  /\ UNCHANGED <<fileVars, raced, outdated, lost>>
ReadRecordsNow(c) ==
  /\ pc[c] = "readFile"
  /\ readTime' \in Times
  /\ known' = known \cup {got[c]}
  /\ Returns(c)
  /\ UNCHANGED <<fileVars, raced, outdated, lost>>

\* The time is recorded before the answer is made: whether that shows the
\* content, or is an error (binary, no such offset, too long), changes nothing.
ReadRecords(c) ==
  /\ pc[c] = "readFile"
  /\ readTime' = time[c]
  /\ known' = known \cup {got[c]}
  /\ Returns(c)
  /\ UNCHANGED <<fileVars, raced, outdated, lost>>

-----------------------------------------------------------------------------
(* executeWrite *)

\* A file that does not exist is not looked up.
WriteStats(c) ==
  /\ pc[c] = "idle"
  /\ IF present
     THEN /\ time' = [time EXCEPT ![c] = mtime]
          /\ pc' = [pc EXCEPT ![c] = "writeStat"]
          /\ UNCHANGED got
     ELSE Goes(c, "writes")
  /\ UNCHANGED <<fileVars, readTime, history>>

\* Refused unless it was read, and is not newer than that.
WriteChecks(c) ==
  /\ pc[c] = "writeStat"
  /\ IF readTime # NotRead /\ ~ time[c] > readTime THEN Goes(c, "writes") ELSE Returns(c)
  /\ UNCHANGED <<fileVars, readTime, history>>

Overwritten == IF present THEN {version} ELSE {}

\* Between its first and its last look at the file's time, a write or an edit
\* cannot tell a version that comes then from the one it looked at.
UnderWay == {c \in Calls : pc[c] \in {"writeStat", "writes", "torn", "written", "editStat"}}

\* The times a check is made against, now or by a call that has got hold of it.
GoneBy == {readTime} \cup {time[c] : c \in {c \in Calls : pc[c] \in {"readFile", "editTime"}}}

\* A version comes that no tool knows the whole of: calls may confuse it with the
\* one before, and its time may not tell that it is new.
Unseen(others) ==
  /\ raced' = IF others # {} THEN raced \cup {last + 1} ELSE raced
  /\ outdated' = IF \E t \in GoneBy : mtime' <= t THEN outdated \cup {last + 1} ELSE outdated

\* The file is empty, or holds a part of the content: nobody has seen it so.
LeavesHalf(c) ==
  /\ Modify /\ Unseen(UnderWay \ {c})
  /\ pc' = [pc EXCEPT ![c] = "torn"]
  /\ got' = [got EXCEPT ![c] = last + 1]
  /\ UNCHANGED <<readTime, time, known>>

\* os.WriteFile opens the file, which empties it ...
Truncates(c) ==
  /\ pc[c] = "writes" /\ LeavesHalf(c)
  /\ lost' = lost \cup Overwritten

\* ... and the content arrives in pieces.
WritesPart(c) ==
  /\ pc[c] = "torn" /\ present /\ LeavesHalf(c)
  /\ lost' = lost \cup (Overwritten \ {got[c]})

\* The last of it goes into the file that was opened: what others have put into it
\* since is overwritten; if they put another in its place, or none, that stays.
Fills(c) ==
  /\ pc[c] = "torn"
  /\ \/ /\ present /\ Modify
        /\ known' = known \cup {last + 1}
        /\ lost' = lost \cup (Overwritten \ {got[c]})
     \/ /\ ~ present \/ version # got[c]
        /\ UNCHANGED <<fileVars, known, lost>>
  /\ Goes(c, "written")
  /\ UNCHANGED <<readTime, raced, outdated>>

\* An error returns at once: ReadFiles keeps the time it has, the file stays as it is.
WriteFails(c) ==
  /\ pc[c] \in {"writes", "torn"}
  /\ Returns(c)
  /\ UNCHANGED <<fileVars, readTime, history>>

\* The new time is looked up and recorded under the lock.  (Edits end like this
\* too, from "writes" on.)
Restats(c) ==
  /\ pc[c] = "written"
  /\ readTime' = IF present THEN mtime ELSE readTime
  /\ Returns(c)
  /\ UNCHANGED <<fileVars, history>>

-----------------------------------------------------------------------------
(* executeEdit: applyMultipleEdits *)

\* validateFileForEdit looks up the recorded time first ...
EditLooksUp(c) ==
  /\ pc[c] = "idle" /\ readTime # NotRead
  /\ time' = [time EXCEPT ![c] = readTime]
  /\ pc' = [pc EXCEPT ![c] = "editTime"]
  /\ UNCHANGED <<fileVars, readTime, got, history>>

\* ... and compares it with that of the file, if there is one.
EditChecks(c) ==
  /\ pc[c] = "editTime"
  /\ IF present /\ mtime > time[c] THEN Returns(c) ELSE Goes(c, "editStat")
  /\ UNCHANGED <<fileVars, readTime, history>>

\* The old string is looked for in what is read now; the edit may find nothing
\* to replace.
EditReads(c, applies) ==
  /\ pc[c] = "editStat"
  /\ IF present /\ applies THEN Goes(c, "writes") ELSE Returns(c)
  /\ UNCHANGED <<fileVars, readTime, history>>

-----------------------------------------------------------------------------
(* Other programs *)

OtherWrites ==
  /\ Modify
  /\ Unseen(UnderWay)
  /\ UNCHANGED <<readTime, callVars, known, lost>>

OtherDeletes ==
  /\ present
  /\ present' = FALSE
  /\ UNCHANGED <<version, mtime, last, hadTimes, readTime, callVars, history>>

-----------------------------------------------------------------------------
ReadStep(c) == ReadStats(c) \/ ReadsFile(c) \/ ReadRecords(c)

WriteStep(c) ==
  \/ WriteStats(c) \/ WriteChecks(c)
  \/ Truncates(c) \/ WritesPart(c) \/ Fills(c) \/ WriteFails(c)
  \/ Restats(c)

EditStep(c) ==
  \/ EditLooksUp(c) \/ EditChecks(c)
  \/ \E applies \in BOOLEAN : EditReads(c, applies)

Next ==
  \/ \E c \in Calls : ReadStep(c) \/ WriteStep(c) \/ EditStep(c)
  \/ OtherWrites \/ OtherDeletes

Spec == Init /\ [][Next]_vars

-----------------------------------------------------------------------------
(***************************************************************************)
(* Type invariant.  A recorded time, or one a call has in hand, is one the *)
(* file has had (never the one the server's clock shows).                  *)
(***************************************************************************)
Versions == 0 .. last

PCs == {"idle", "readStat", "readFile", "writeStat", "writes", "torn", "written",
        "editTime", "editStat"}

TypeOK ==
  /\ present \in BOOLEAN
  /\ last \in Nat /\ version \in Versions
  /\ mtime \in hadTimes /\ hadTimes \subseteq Times
  /\ readTime \in hadTimes \cup {NotRead}
  /\ pc \in [Calls -> PCs]
  /\ time \in [Calls -> hadTimes \cup {NoTime}]
  /\ got \in [Calls -> Versions]
  /\ known \subseteq Versions /\ raced \subseteq Versions
  /\ outdated \subseteq Versions /\ lost \subseteq Versions

(***************************************************************************)
(* "Detect if the file has been modified externally since it was last      *)
(* read" (write.go:21): what a write or an edit overwrites was read or     *)
(* written by a tool before; unless another program modified the file in   *)
(* the very moments in which a call had looked and not finished, or the    *)
(* version came with a time no later than one a tool goes by, which no     *)
(* check can tell.  However reads, writes and edits run at once, and       *)
(* wherever they fail, nothing else gets lost unseen: not what a write     *)
(* that failed has left of the file, which is new as well.                 *)
(***************************************************************************)
OnlyRacesGoUnseen == lost \subseteq known \cup raced \cup outdated

-----------------------------------------------------------------------------
(* The inductive invariant behind OnlyRacesGoUnseen *)

Safe == version \in known \cup raced \cup outdated

(***************************************************************************)
(* If the file is no newer than the recorded time, overwriting it is safe; *)
(* so it is for calls that have passed the check or have just written.     *)
(***************************************************************************)
RecordIsTrustworthy == present /\ mtime <= readTime => Safe
CheckedIsSafe ==
  \A c \in Calls :
    pc[c] \in {"writes", "written", "editStat"} => (present => Safe)

(***************************************************************************)
(* What calls hold that have not got so far: a read, the version that goes *)
(* with its time; a write, the time of the file unless it raced; an edit,  *)
(* a time as trustworthy as the recorded one.                              *)
(***************************************************************************)
ReadersAreRight ==
  \A c \in Calls :
    pc[c] = "readFile" /\ present /\ mtime <= time[c] => Safe \/ version = got[c]
WritersAreRight ==
  \A c \in Calls : pc[c] = "writeStat" /\ present => Safe \/ mtime = time[c]
TornIsOwnOrSafe ==
  \A c \in Calls : pc[c] = "torn" /\ present => Safe \/ version = got[c]
EditorsAreRight ==
  \A c \in Calls : pc[c] = "editTime" /\ present /\ mtime <= time[c] => Safe

TimesAreRight ==
  /\ RecordIsTrustworthy /\ CheckedIsSafe
  /\ ReadersAreRight /\ WritersAreRight /\ TornIsOwnOrSafe /\ EditorsAreRight

IInv == TypeOK /\ OnlyRacesGoUnseen /\ TimesAreRight

=============================================================================
