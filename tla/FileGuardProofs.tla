---------------------------- MODULE FileGuardProofs ----------------------------
(***************************************************************************)
(* Proofs about FileGuard, for any set of calls, any number of             *)
(* modifications and any time.                                             *)
(***************************************************************************)
EXTENDS FileGuard, TLAPS

\* A call that returns, or goes on, leaves the others where they are.
LEMMA TypeStep == TypeOK /\ [Next]_vars => TypeOK'
<1> SUFFICES ASSUME TypeOK, [Next]_vars PROVE TypeOK'
  OBVIOUS
<1> USE BoundsAreNat DEF TypeOK, Versions, PCs
<1>1. ASSUME NEW c \in Calls, ReadStep(c) PROVE TypeOK'
  <2>1. CASE ReadStats(c)
    BY <2>1 DEF ReadStats, fileVars, history
  <2>2. CASE ReadsFile(c)
    BY <2>2 DEF ReadsFile, Returns, fileVars, history
  <2>3. ASSUME ReadRecords(c) PROVE TypeOK'
    <3>1. got[c] \in 0 .. last /\ time[c] \in hadTimes \cup {NotRead}
      BY DEF NotRead, NoTime
    <3>2. known' \subseteq 0 .. last
      BY <2>3, <3>1 DEF ReadRecords
    <3>3. readTime' \in hadTimes \cup {NotRead} /\ UNCHANGED <<fileVars, raced, outdated, lost>>
      BY <2>3, <3>1 DEF ReadRecords
    <3>4. pc' \in [Calls -> PCs] /\ time' \in [Calls -> hadTimes \cup {NoTime}]
          /\ got' \in [Calls -> 0 .. last]
      BY <2>3 DEF ReadRecords, Returns
    <3> QED BY <3>2, <3>3, <3>4 DEF fileVars
  <2> QED BY <1>1, <2>1, <2>2, <2>3 DEF ReadStep
<1>2. ASSUME NEW c \in Calls, WriteStep(c) PROVE TypeOK'
  <2>1. CASE WriteStats(c)
    BY <2>1 DEF WriteStats, Goes, fileVars, history
  <2>2. CASE WriteChecks(c)
    BY <2>2 DEF WriteChecks, Goes, Returns, fileVars, history
  <2>3. CASE Truncates(c) \/ WritesPart(c)
    <3>0. LeavesHalf(c)
      BY <2>3 DEF Truncates, WritesPart
    <3>1. /\ last' \in Nat /\ 0 .. last \subseteq 0 .. last' /\ last + 1 \in 0 .. last'
          /\ version' \in 0 .. last' /\ present' \in BOOLEAN
      BY <3>0 DEF LeavesHalf, Modify
    <3>2. /\ mtime' \in hadTimes' /\ hadTimes \subseteq hadTimes' /\ hadTimes' \subseteq Times
          /\ UNCHANGED <<readTime, time, known>>
      BY <3>0 DEF LeavesHalf, Modify
    <3>3. raced' \subseteq 0 .. last' /\ outdated' \subseteq 0 .. last'
      BY <3>0, <3>1 DEF LeavesHalf, Unseen
    <3>4. lost' \subseteq 0 .. last'
      BY <2>3, <3>1 DEF Truncates, WritesPart, Overwritten
    <3>5. pc' \in [Calls -> PCs] /\ got' \in [Calls -> 0 .. last']
      BY <3>0, <3>1 DEF LeavesHalf
    <3>6. /\ time' \in [Calls -> hadTimes' \cup {NoTime}] /\ known' \subseteq 0 .. last'
          /\ readTime' \in hadTimes' \cup {NotRead}
      BY <3>1, <3>2
    <3> QED BY <3>1, <3>2, <3>3, <3>4, <3>5, <3>6
  <2>4. CASE Fills(c)
    <3>1. /\ pc' \in [Calls -> PCs]
          /\ UNCHANGED <<readTime, time, got, raced, outdated>>
      BY <2>4 DEF Fills, Goes
    <3>2. CASE UNCHANGED <<fileVars, known, lost>>
      BY <3>1, <3>2 DEF fileVars
    <3>3. CASE /\ Modify
               /\ known' = known \cup {last + 1}
               /\ lost' = lost \cup (Overwritten \ {got[c]})
      <4>1. /\ last' \in Nat /\ 0 .. last \subseteq 0 .. last' /\ last + 1 \in 0 .. last'
            /\ version' \in 0 .. last' /\ present' \in BOOLEAN
            /\ mtime' \in hadTimes' /\ hadTimes \subseteq hadTimes' /\ hadTimes' \subseteq Times
        BY <3>3 DEF Modify
      <4>2. known' \subseteq 0 .. last'
        BY <3>3, <4>1
      <4>3. lost' \subseteq 0 .. last'
        BY <3>3, <4>1 DEF Overwritten
      <4>4. /\ time' \in [Calls -> hadTimes' \cup {NoTime}]
            /\ readTime' \in hadTimes' \cup {NotRead}
            /\ got' \in [Calls -> 0 .. last']
            /\ raced' \subseteq 0 .. last' /\ outdated' \subseteq 0 .. last'
        BY <3>1, <4>1
      <4> QED BY <3>1, <4>1, <4>2, <4>3, <4>4
    <3> QED BY <2>4, <3>2, <3>3 DEF Fills
  <2>5. CASE WriteFails(c)
    BY <2>5 DEF WriteFails, Returns, fileVars, history
  <2>6. CASE Restats(c)
    BY <2>6 DEF Restats, Returns, fileVars, history
  <2> QED BY <1>2, <2>1, <2>2, <2>3, <2>4, <2>5, <2>6 DEF WriteStep
<1>3. ASSUME NEW c \in Calls, EditStep(c) PROVE TypeOK'
  <2>1. CASE EditLooksUp(c)
    BY <2>1 DEF EditLooksUp, fileVars, history
  <2>2. CASE EditChecks(c)
    BY <2>2 DEF EditChecks, Goes, Returns, fileVars, history
  <2>3. ASSUME NEW applies \in BOOLEAN, EditReads(c, applies) PROVE TypeOK'
    BY <2>3 DEF EditReads, Goes, Returns, fileVars, history
  <2> QED BY <1>3, <2>1, <2>2, <2>3 DEF EditStep
<1>4. CASE OtherWrites
  BY <1>4 DEF OtherWrites, Modify, Unseen, callVars
<1>5. CASE OtherDeletes
  BY <1>5 DEF OtherDeletes, callVars, history
<1>6. CASE UNCHANGED vars
  BY <1>6 DEF vars, fileVars, callVars, history
<1> QED BY <1>1, <1>2, <1>3, <1>4, <1>5, <1>6 DEF Next

-----------------------------------------------------------------------------
\* The time of the file is later than all that tools go by when a version comes
\* that is neither known nor raced nor outdated.
Newer == \A t \in GoneBy : ~ mtime' <= t

LEMMA FileStep ==
  ASSUME TypeOK, [Next]_vars
  PROVE  \/ UNCHANGED <<version, mtime>> /\ (present' => present)
         \/ present' /\ version' \in (known \cup raced \cup outdated)'
         \/ OtherWrites /\ UnderWay = {} /\ Newer
         \/ \E c \in Calls : LeavesHalf(c) /\ UnderWay \subseteq {c} /\ Newer
<1>1. ASSUME NEW c \in Calls, ReadStep(c) PROVE UNCHANGED <<present, version, mtime>>
  BY <1>1 DEF ReadStep, ReadStats, ReadsFile, ReadRecords, fileVars
<1>2. ASSUME NEW c \in Calls, WriteStats(c) \/ WriteChecks(c) \/ WriteFails(c) \/ Restats(c)
      PROVE  UNCHANGED <<present, version, mtime>>
  BY <1>2 DEF WriteStats, WriteChecks, WriteFails, Restats, fileVars
<1>3. ASSUME NEW c \in Calls, LeavesHalf(c)
      PROVE  \/ present' /\ version' \in (raced \cup outdated)'
             \/ UnderWay \subseteq {c} /\ Newer
  BY <1>3 DEF LeavesHalf, Modify, Unseen, Newer
<1>4. ASSUME NEW c \in Calls, Fills(c)
      PROVE  \/ UNCHANGED <<present, version, mtime>>
             \/ present' /\ version' \in known'
  BY <1>4 DEF Fills, Modify, fileVars
<1>5. ASSUME NEW c \in Calls, EditStep(c) PROVE UNCHANGED <<present, version, mtime>>
  BY <1>5 DEF EditStep, EditLooksUp, EditChecks, EditReads, fileVars
<1>6. ASSUME OtherWrites
      PROVE  \/ present' /\ version' \in (raced \cup outdated)'
             \/ UnderWay = {} /\ Newer
  BY <1>6 DEF OtherWrites, Modify, Unseen, Newer
<1>7. CASE OtherDeletes
  BY <1>7 DEF OtherDeletes
<1>8. CASE UNCHANGED vars
  BY <1>8 DEF vars, fileVars
<1> QED BY <1>1, <1>2, <1>3, <1>4, <1>5, <1>6, <1>7, <1>8 DEF Next, WriteStep, Truncates, WritesPart

\* What tools know, and what raced or was outdated, is never forgotten.
Told == known \cup raced \cup outdated

LEMMA KnowledgeGrows ==
  ASSUME [Next]_vars PROVE Told \subseteq Told'
<1>1. ASSUME NEW c \in Calls, ReadStep(c) \/ WriteStep(c) \/ EditStep(c)
      PROVE Told \subseteq Told'
  BY <1>1 DEF ReadStep, ReadStats, ReadsFile, ReadRecords, WriteStep, WriteStats, WriteChecks,
              Truncates, WritesPart, LeavesHalf, Unseen, Fills, WriteFails, Restats,
              EditStep, EditLooksUp, EditChecks, EditReads, history, Told
<1>2. CASE OtherWrites
  BY <1>2 DEF OtherWrites, Unseen, Told
<1>3. CASE OtherDeletes \/ UNCHANGED vars
  BY <1>3 DEF OtherDeletes, vars, history, Told
<1> QED BY <1>1, <1>2, <1>3 DEF Next

\* What is overwritten was safe to overwrite, or the call's own.
LEMMA LossStep == IInv /\ [Next]_vars => OnlyRacesGoUnseen'
<1> SUFFICES ASSUME IInv, [Next]_vars PROVE OnlyRacesGoUnseen'
  OBVIOUS
<1>1. Told \subseteq Told'
  BY KnowledgeGrows
<1>2. ASSUME NEW c \in Calls, pc[c] = "writes" PROVE Overwritten \subseteq Told
  BY <1>2 DEF IInv, TimesAreRight, CheckedIsSafe, Safe, Overwritten, Told
<1>3. ASSUME NEW c \in Calls, pc[c] = "torn"
      PROVE  Overwritten \ {got[c]} \subseteq Told
  BY <1>3 DEF IInv, TimesAreRight, TornIsOwnOrSafe, Safe, Overwritten, Told
<1>4. \/ lost' = lost
      \/ \E c \in Calls : pc[c] = "writes" /\ lost' = lost \cup Overwritten
      \/ \E c \in Calls : pc[c] = "torn" /\ lost' = lost \cup (Overwritten \ {got[c]})
  <2>1. ASSUME NEW c \in Calls, ReadStep(c) \/ EditStep(c) PROVE lost' = lost
    BY <2>1 DEF ReadStep, ReadStats, ReadsFile, ReadRecords,
                EditStep, EditLooksUp, EditChecks, EditReads, history
  <2>2. ASSUME NEW c \in Calls, WriteStep(c)
        PROVE \/ lost' = lost
              \/ pc[c] = "writes" /\ lost' = lost \cup Overwritten
              \/ pc[c] = "torn" /\ lost' = lost \cup (Overwritten \ {got[c]})
    BY <2>2 DEF WriteStep, WriteStats, WriteChecks, Truncates, WritesPart, Fills, WriteFails, Restats,
                history
  <2>3. CASE OtherWrites \/ OtherDeletes \/ UNCHANGED vars
    BY <2>3 DEF OtherWrites, OtherDeletes, vars, history
  <2> QED BY <2>1, <2>2, <2>3 DEF Next
<1> QED BY <1>1, <1>2, <1>3, <1>4 DEF IInv, OnlyRacesGoUnseen, Told

\* While the file stays as it is, a call takes its next look at it.
LEMMA CallStep ==
  ASSUME IInv, NEW c \in Calls, ReadStep(c) \/ WriteStep(c) \/ EditStep(c),
         UNCHANGED <<version, mtime>>, present' => present
  PROVE  TimesAreRight'
<1> USE DEF IInv, TypeOK, TimesAreRight, RecordIsTrustworthy, CheckedIsSafe, ReadersAreRight,
            WritersAreRight, TornIsOwnOrSafe, EditorsAreRight, Safe
<1>0. mtime \in Int /\ readTime \in Int /\ time[c] \in Int
  <2>1. hadTimes \cup {NotRead, NoTime} \subseteq Int
    BY BoundsAreNat DEF Times, NotRead, NoTime
  <2> QED BY <2>1
<1>1. CASE ReadStats(c)
  BY <1>1 DEF ReadStats, fileVars, history
<1>2. CASE ReadsFile(c)
  BY <1>2 DEF ReadsFile, Returns, fileVars, history
<1>3. ASSUME ReadRecords(c) PROVE TimesAreRight'
  BY <1>3 DEF ReadRecords, Returns, fileVars
<1>4. CASE WriteStats(c)
  BY <1>4 DEF WriteStats, Goes, fileVars, history
<1>5. CASE WriteChecks(c)
  BY <1>0, <1>5 DEF WriteChecks, Goes, Returns, fileVars, history
<1>6. CASE Truncates(c) \/ WritesPart(c)
  BY <1>6 DEF Truncates, WritesPart, LeavesHalf, Modify, Versions
<1>7. CASE Restats(c)
  BY <1>7 DEF Restats, Returns, fileVars, history
<1>8. CASE EditLooksUp(c)
  BY <1>8 DEF EditLooksUp, fileVars, history
<1>9. CASE EditChecks(c)
  BY <1>0, <1>9 DEF EditChecks, Goes, Returns, fileVars, history
<1>10. ASSUME NEW applies \in BOOLEAN, EditReads(c, applies) PROVE TimesAreRight'
  BY <1>10 DEF EditReads, Goes, Returns, fileVars, history
<1>11. CASE Fills(c)
  BY <1>11 DEF Fills, Modify, Goes, Versions
<1>12. CASE WriteFails(c)
  BY <1>12 DEF WriteFails, Returns, history
<1> QED BY <1>1, <1>2, <1>3, <1>4, <1>5, <1>6, <1>7, <1>8, <1>9, <1>10, <1>11, <1>12
        DEF ReadStep, WriteStep, EditStep

\* While the file stays as it is, nobody else changes what calls rely on.
LEMMA OthersStep ==
  ASSUME IInv, OtherWrites \/ OtherDeletes \/ UNCHANGED vars,
         UNCHANGED <<version, mtime>>, present' => present
  PROVE  TimesAreRight'
<1>1. CASE OtherWrites
  BY <1>1 DEF OtherWrites, Modify, IInv, TypeOK, Versions
<1>2. CASE OtherDeletes \/ UNCHANGED vars
  <2>1. UNCHANGED <<readTime, pc, time, got, known, raced, outdated>>
    BY <1>2 DEF OtherDeletes, vars, callVars, history
  <2> QED BY <2>1 DEF IInv, TimesAreRight, RecordIsTrustworthy, CheckedIsSafe,
                      ReadersAreRight, WritersAreRight, TornIsOwnOrSafe, EditorsAreRight, Safe
<1> QED BY <1>1, <1>2

LEMMA InvStep == IInv /\ [Next]_vars => IInv'
<1> SUFFICES ASSUME IInv, [Next]_vars PROVE IInv'
  OBVIOUS
<1>1. TypeOK'
  BY TypeStep DEF IInv
<1>2. OnlyRacesGoUnseen'
  BY LossStep
<1>3. CASE UNCHANGED <<version, mtime>> /\ (present' => present)
  <2>1. TimesAreRight'
    BY <1>3, CallStep, OthersStep DEF Next
  <2> QED BY <1>1, <1>2, <2>1 DEF IInv
<1> USE DEF TimesAreRight, RecordIsTrustworthy, CheckedIsSafe, ReadersAreRight,
            WritersAreRight, TornIsOwnOrSafe, EditorsAreRight, Safe
<1>4. CASE present' /\ version' \in (known \cup raced \cup outdated)'
  BY <1>1, <1>2, <1>4 DEF IInv
<1>5. CASE OtherWrites /\ UnderWay = {} /\ Newer
  <2>1. readTime' = readTime /\ \A c \in Calls : pc'[c] = pc[c] /\ time'[c] = time[c]
    BY <1>5 DEF OtherWrites, callVars
  <2>2. RecordIsTrustworthy' /\ ReadersAreRight' /\ EditorsAreRight'
    BY <1>5, <2>1 DEF Newer, GoneBy
  <2>3. CheckedIsSafe' /\ WritersAreRight' /\ TornIsOwnOrSafe'
    BY <1>5, <2>1 DEF UnderWay
  <2> QED BY <1>1, <1>2, <2>2, <2>3 DEF IInv
<1>6. ASSUME NEW c \in Calls, LeavesHalf(c), UnderWay \subseteq {c}, Newer PROVE IInv'
  <2>1. /\ pc'[c] = "torn" /\ got'[c] = version'
        /\ \A d \in Calls \ {c} : pc'[d] = pc[d]
        /\ readTime' = readTime /\ time' = time
    BY <1>6 DEF LeavesHalf, Modify, IInv, TypeOK
  <2>2. RecordIsTrustworthy' /\ ReadersAreRight' /\ EditorsAreRight'
    BY <1>6, <2>1 DEF Newer, GoneBy
  <2>3. \A d \in Calls \ {c} :
          pc'[d] \notin {"writeStat", "writes", "torn", "written", "editStat"}
    BY <1>6, <2>1 DEF UnderWay
  <2>4. CheckedIsSafe' /\ WritersAreRight' /\ TornIsOwnOrSafe'
    BY <2>1, <2>3
  <2> QED BY <1>1, <1>2, <2>2, <2>4 DEF IInv
<1> QED BY <1>3, <1>4, <1>5, <1>6, FileStep DEF IInv

-----------------------------------------------------------------------------
LEMMA InitInv == Init => IInv
BY BoundsAreNat DEF Init, IInv, TypeOK, Times, Versions, PCs, NotRead, NoTime, OnlyRacesGoUnseen,
   TimesAreRight, RecordIsTrustworthy, CheckedIsSafe, ReadersAreRight, WritersAreRight, TornIsOwnOrSafe,
   EditorsAreRight, Safe

(***************************************************************************)
(* The invariant of FileGuard is one, for any set of calls that run at     *)
(* once, and whatever modification times other programs and the clock give *)
(* the file.                                                               *)
(***************************************************************************)
THEOREM Invariance == Spec => []IInv
BY InitInv, InvStep, PTL DEF Spec

(***************************************************************************)
(* Every variable keeps its type, and every modification time the server   *)
(* has recorded is one the file has had.                                   *)
(***************************************************************************)
THEOREM TypeCorrect == Spec => []TypeOK
<1>1. IInv => TypeOK
  BY DEF IInv
<1> QED BY <1>1, Invariance, PTL

(***************************************************************************)
(* Whatever the interleaving of reads, writes, edits and other programs,   *)
(* and whatever times the file gets, a tool overwrites nothing unseen but  *)
(* what raced with a call or came with a time no later than one a tool     *)
(* goes by, not even what a failed write has left: the check by            *)
(* modification time leaves these two gaps and no other.                   *)
(***************************************************************************)
THEOREM NoOtherGap == Spec => []OnlyRacesGoUnseen
<1>1. IInv => OnlyRacesGoUnseen
  BY DEF IInv
<1> QED BY <1>1, Invariance, PTL
=============================================================================
