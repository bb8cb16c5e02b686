----------------------------- MODULE R2ToolsProofs ------------------------------
(***************************************************************************)
(* Proofs about the uses of R2.                                            *)
(*                                                                         *)
(* AssetTools, for any number of callers and of attempts: no write that    *)
(* was answered "ok" is lost to somebody who did not ask for it to go, and *)
(* no ETagMismatchError is a false alarm.                                  *)
(*                                                                         *)
(* DistSync, for any number of syncs, files, slots, builds and requests    *)
(* that arrive late: no sync takes a page down that has been in dist/ all  *)
(* along, none touches uploads/, and one that reports no error has made    *)
(* the site what dist/ is, if nothing came in between.                     *)
(*                                                                         *)
(* R2Tools: what holds of each of the two holds of them together.          *)
(***************************************************************************)
EXTENDS R2Tools, FiniteSetTheorems, TLAPS

-----------------------------------------------------------------------------
(* AssetTools: the inductive invariant *)

AssetInv == AssetTypeOK /\ AckedIsKept

\* What a request does to the object, carried out once more or for the first
\* time, loses nothing: what goes was seen, or nobody cared what it was.
LEMMA CarryKeeps ==
  ASSUME AssetTypeOK, AckedIsKept, NEW c \in Callers, pc[c] \in {"called", "answered"}, Carry(c)
  PROVE  /\ object' \in Bodies /\ gone' \in Bodies /\ moved' \in [Callers -> BOOLEAN]
         /\ acked \subseteq object' \cup gone'
         /\ Holds(c) => object' = Body(c)
<1>1. Body(c) \in Bodies /\ AskedToGo(c) \in Bodies
  BY DEF AssetTypeOK, Bodies, Body, AskedToGo
<1>2. CASE ~ Holds(c)
  BY <1>2 DEF Carry, AssetTypeOK, AckedIsKept
<1>3. CASE Holds(c)
  <2>1. object' = Body(c) /\ gone' = gone \cup AskedToGo(c)
    BY <1>3 DEF Carry
  <2>2. moved' \in [Callers -> BOOLEAN]
    BY <1>3 DEF Carry, AssetTypeOK
  <2>3. object \subseteq Body(c) \cup AskedToGo(c)
    <3>1. CASE expected[c] = "nil"
      BY <3>1 DEF AskedToGo
    <3>2. CASE expected[c] = "empty"
      <4>1. object = {}
        BY <3>2, <1>3 DEF AssetTypeOK, Holds, Condition, WriteCondition
      <4> QED BY <4>1
    <3>3. CASE expected[c] = "etag"
      <4>1. object = saw[c]
        BY <3>3, <1>3 DEF AssetTypeOK, Holds, Condition, WriteCondition, DeleteCondition, Matches
      <4>2. op[c] = "put" \/ op[c] = "delete"
        BY DEF AssetTypeOK
      <4> QED BY <4>1, <4>2, <3>3 DEF Body, AskedToGo
    <3> QED BY <3>1, <3>2, <3>3 DEF AssetTypeOK
  <2> QED BY <2>1, <2>2, <2>3, <1>1 DEF AssetTypeOK, AckedIsKept, Bodies
<1> QED BY <1>2, <1>3

\* Every step keeps the types, and what was acknowledged.
LEMMA AssetStepKeeps == AssetInv /\ [AssetNext]_assetVars => AssetInv'
<1> SUFFICES ASSUME AssetInv, [AssetNext]_assetVars PROVE AssetInv'
  OBVIOUS
<1> USE SeedIsNoCaller, MaxAttemptsIsPositive DEF AssetInv
<1>1. CASE UNCHANGED assetVars
  BY <1>1 DEF assetVars, callVars, AssetTypeOK, AckedIsKept, Bodies
<1>2. ASSUME NEW c \in Callers, Reads(c) PROVE AssetInv'
  <2>1. /\ saw' \in [Callers -> Bodies] /\ moved' \in [Callers -> BOOLEAN]
        /\ pc' \in [Callers -> {"start", "read", "called", "answered"}]
    BY <1>2 DEF Reads, AssetTypeOK
  <2>2. expected[c] = "nil"
    BY <1>2 DEF Reads, AssetTypeOK
  <2> QED BY <1>2, <2>1, <2>2 DEF Reads, AssetTypeOK, AckedIsKept, Bodies
<1>3. ASSUME NEW c \in Callers, NEW o \in {"put", "delete"}, NEW e \in {"nil", "empty", "etag"},
             Calls(c, o, e)
      PROVE  AssetInv'
  BY <1>3 DEF Calls, AssetTypeOK, AckedIsKept, Bodies
<1>4. ASSUME NEW c \in Callers, Answered(c) PROVE AssetInv'
  <2>1. pc[c] = "called" /\ Carry(c)
    BY <1>4 DEF Answered
  <2>2. /\ object' \in Bodies /\ gone' \in Bodies /\ moved' \in [Callers -> BOOLEAN]
        /\ acked \subseteq object' \cup gone'
        /\ Holds(c) => object' = Body(c)
    BY <2>1, CarryKeeps
  <2>3. PICK r \in Response(c) : Finish(c, ToolReply(r))
    BY <1>4 DEF Answered
  <2>4. ToolReply(r) \in {"ok", "mismatch", "error"}
    BY DEF ToolReply
  <2>5. acked' \in Bodies
    BY <1>4 DEF Answered, AssetTypeOK, Bodies
  <2>6. AssetTypeOK'
    BY <1>4, <2>2, <2>3, <2>4, <2>5 DEF Answered, Finish, AssetTypeOK, Bodies
  <2>7. CASE reply'[c] = "ok" /\ op[c] = "put"
    <3>1. reply'[c] = ToolReply(r)
      BY <2>3 DEF Finish, AssetTypeOK
    <3>2. r = "ok"
      BY <3>1, <2>7 DEF ToolReply
    <3>3. Holds(c)
      BY <3>2, <2>3, <2>7 DEF Response
    <3>4. c \in object'
      BY <3>3, <2>2, <2>7 DEF Body
    <3> QED BY <1>4, <2>2, <2>6, <2>7, <3>4 DEF Answered, AckedIsKept
  <2>8. CASE ~ (reply'[c] = "ok" /\ op[c] = "put")
    BY <1>4, <2>2, <2>6, <2>8 DEF Answered, AckedIsKept
  <2> QED BY <2>7, <2>8
<1>5. ASSUME NEW c \in Callers, AttemptLost(c) PROVE AssetInv'
  BY <1>5 DEF AttemptLost, Finish, AssetTypeOK, AckedIsKept, Bodies
<1>6. ASSUME NEW c \in Callers, LateArrives(c) PROVE AssetInv'
  <2>1. Carry(c) /\ late[c] > 0
    BY <1>6 DEF LateArrives
  <2>2. pc[c] \in {"called", "answered"}
    BY <2>1 DEF AssetTypeOK
  <2>3. /\ object' \in Bodies /\ gone' \in Bodies /\ moved' \in [Callers -> BOOLEAN]
        /\ acked \subseteq object' \cup gone'
    BY <2>1, <2>2, CarryKeeps
  <2>4. late' \in [Callers -> 0 .. MaxAttempts] /\ \A d \in Callers : late'[d] <= late[d]
    BY <1>6 DEF LateArrives, AssetTypeOK
  <2>5. UNCHANGED <<pc, saw, op, expected, attempts, reply, acked>>
    BY <1>6 DEF LateArrives, callVars
  <2>6. \A d \in Callers : late[d] = 0 => late'[d] = 0
    BY <2>4 DEF AssetTypeOK
  <2>7. \A d \in Callers : attempts[d] > late[d] => attempts[d] > late'[d]
    BY <2>4 DEF AssetTypeOK
  <2> QED BY <2>3, <2>4, <2>5, <2>6, <2>7 DEF AssetTypeOK, AckedIsKept
<1> QED BY <1>1, <1>2, <1>3, <1>4, <1>5, <1>6 DEF AssetNext

\* It holds at first.
LEMMA AssetInitKeeps == AssetInit => AssetInv
  BY SeedIsNoCaller, MaxAttemptsIsPositive DEF AssetInit, AssetInv, AssetTypeOK, AckedIsKept, Bodies

\* Type correctness: the types, and that a request is under way exactly from
\* the call to the answer.
THEOREM RequestsAreTyped == AssetSpec => []AssetTypeOK
<1>1. AssetInv => AssetTypeOK
  BY DEF AssetInv
<1> QED BY <1>1, AssetInitKeeps, AssetStepKeeps, PTL DEF AssetSpec

\* A write answered "ok" is in the object until somebody asks for that object to
\* be overwritten or deleted: the conditions of write_asset and delete_asset, and
\* the retries of the SDK, lose no update.
THEOREM NoUpdateIsLost == AssetSpec => []AckedIsKept
<1>1. AssetInv => AckedIsKept
  BY DEF AssetInv
<1> QED BY <1>1, AssetInitKeeps, AssetStepKeeps, PTL DEF AssetSpec

-----------------------------------------------------------------------------
(* AssetTools: mismatches *)

\* As long as a caller does not know better, the object is what it has read.
SeenUnlessMoved == \A c \in Callers : pc[c] # "start" /\ ~ moved[c] => object = saw[c]

AlarmInv == SeenUnlessMoved /\ MismatchMeansChanged

\* What a request does to the object, the others can tell.
LEMMA CarryShows ==
  ASSUME AssetTypeOK, NEW c \in Callers, Carry(c), NEW d \in Callers
  PROVE  /\ moved[d] => moved'[d]
         /\ ~ moved'[d] => ~ moved[d] /\ object' = object
<1>1. CASE ~ Holds(c)
  BY <1>1 DEF Carry
<1>2. CASE Holds(c)
  <2>1. object' = Body(c) /\ moved'[d] = (moved[d] \/ object # Body(c))
    BY <1>2 DEF Carry
  <2> QED BY <2>1
<1> QED BY <1>1, <1>2

\* A condition that does not hold was put on an object that has changed, or that
\* its caller knew to be there.
LEMMA AlarmIsTrue ==
  ASSUME AssetTypeOK, SeenUnlessMoved, NEW c \in Callers, pc[c] = "called", ~ Holds(c)
  PROVE  moved[c] \/ (expected[c] = "empty" /\ saw[c] # {})
<1> SUFFICES ASSUME ~ moved[c] PROVE expected[c] = "empty" /\ saw[c] # {}
  OBVIOUS
<1>1. object = saw[c]
  BY DEF SeenUnlessMoved
<1>2. CASE Condition(c) = "absent" /\ object # {}
  <2>1. expected[c] = "empty"
    BY <1>2 DEF Condition, WriteCondition, DeleteCondition
  <2> QED BY <1>1, <1>2, <2>1
<1>3. CASE Condition(c) = "match" /\ ~ Matches(c)
  <2>1. expected[c] = "etag"
    BY <1>3 DEF AssetTypeOK, Condition, WriteCondition, DeleteCondition
  <2>2. saw[c] # {}
    BY <2>1 DEF AssetTypeOK
  <2> QED BY <1>1, <1>3, <2>1, <2>2 DEF Matches
<1> QED BY <1>2, <1>3 DEF Holds

LEMMA AlarmsStayTrue == AssetInv /\ AlarmInv /\ [AssetNext]_assetVars => AlarmInv'
<1> SUFFICES ASSUME AssetInv, AlarmInv, [AssetNext]_assetVars PROVE AlarmInv'
  OBVIOUS
<1> USE DEF AssetInv, AlarmInv
<1>1. CASE UNCHANGED assetVars
  BY <1>1 DEF assetVars, callVars, SeenUnlessMoved, MismatchMeansChanged
<1>2. ASSUME NEW c \in Callers, Reads(c) PROVE AlarmInv'
  <2>1. /\ saw' = [saw EXCEPT ![c] = object] /\ moved' = [moved EXCEPT ![c] = FALSE]
        /\ UNCHANGED <<object, expected, reply>> /\ reply[c] = "none"
        /\ \A d \in Callers \ {c} : pc'[d] = pc[d]
    BY <1>2 DEF Reads, AssetTypeOK
  <2>2. /\ saw'[c] = object /\ reply'[c] = "none"
        /\ \A d \in Callers \ {c} : saw'[d] = saw[d] /\ moved'[d] = moved[d]
    BY <2>1 DEF AssetTypeOK
  <2> QED BY <2>1, <2>2 DEF SeenUnlessMoved, MismatchMeansChanged
<1>3. ASSUME NEW c \in Callers, NEW o \in {"put", "delete"}, NEW e \in {"nil", "empty", "etag"},
             Calls(c, o, e)
      PROVE  AlarmInv'
  BY <1>3 DEF Calls, AssetTypeOK, SeenUnlessMoved, MismatchMeansChanged
<1>4. ASSUME NEW c \in Callers, Answered(c) PROVE AlarmInv'
  <2>1. /\ pc[c] = "called" /\ Carry(c) /\ UNCHANGED <<saw, expected>>
        /\ \A d \in Callers \ {c} : pc'[d] = pc[d] /\ reply'[d] = reply[d]
    BY <1>4 DEF Answered, Finish
  <2>2. PICK r \in Response(c) : Finish(c, ToolReply(r))
    BY <1>4 DEF Answered
  <2>3. reply'[c] = "mismatch" => ~ Holds(c)
    <3>1. reply'[c] = ToolReply(r)
      BY <2>2 DEF Finish, AssetTypeOK
    <3> QED BY <2>2, <3>1 DEF ToolReply, Response
  <2>4. reply'[c] = "mismatch" => moved[c] \/ (expected[c] = "empty" /\ saw[c] # {})
    BY <2>1, <2>3, AlarmIsTrue
  <2>5. \A d \in Callers : /\ moved[d] => moved'[d]
                           /\ ~ moved'[d] => ~ moved[d] /\ object' = object
    BY <2>1, CarryShows
  <2>6. SeenUnlessMoved'
    BY <2>1, <2>5 DEF SeenUnlessMoved
  <2>7. MismatchMeansChanged'
    BY <2>1, <2>4, <2>5 DEF MismatchMeansChanged
  <2> QED BY <2>6, <2>7
<1>5. ASSUME NEW c \in Callers, AttemptLost(c) PROVE AlarmInv'
  BY <1>5 DEF AttemptLost, Finish, AssetTypeOK, SeenUnlessMoved, MismatchMeansChanged
<1>6. ASSUME NEW c \in Callers, LateArrives(c) PROVE AlarmInv'
  <2>1. Carry(c) /\ UNCHANGED <<pc, saw, expected, reply>>
    BY <1>6 DEF LateArrives, callVars
  <2>2. \A d \in Callers : /\ moved[d] => moved'[d]
                           /\ ~ moved'[d] => ~ moved[d] /\ object' = object
    BY <2>1, CarryShows
  <2> QED BY <2>1, <2>2 DEF SeenUnlessMoved, MismatchMeansChanged
<1> QED BY <1>1, <1>2, <1>3, <1>4, <1>5, <1>6 DEF AssetNext

\* An ETagMismatchError is never a false alarm: the object is not what the caller
\* has read any more, or the caller asked to create what it knew was there.
THEOREM AlarmsAreTrue == AssetSpec => []MismatchMeansChanged
<1>1. AssetInit => AlarmInv
  BY DEF AssetInit, AlarmInv, SeenUnlessMoved, MismatchMeansChanged
<1>2. AlarmInv => MismatchMeansChanged
  BY DEF AlarmInv
<1> QED BY <1>1, <1>2, AssetInitKeeps, AssetStepKeeps, AlarmsStayTrue, PTL DEF AssetSpec

-----------------------------------------------------------------------------
(* DistSync: the inductive invariant *)

Places == {"idle", "walking", "uploading", "listing", "deleting", "answered"}
Pages == Keys \ Uploads

SyncRecords ==
  [at : Places, cursor : Nat, local : SUBSET Pages, waiting : SUBSET Pages,
   putting : SUBSET (Pages \X (Nat \ {0})), slots : Int, errs : BOOLEAN, found : SUBSET Keys]

\* What is put is a page, and is something.
SiteTypes ==
  /\ dist \in [Keys -> Nat] /\ site \in [Keys -> Nat]
  /\ builds \in Nat
  /\ strays \subseteq Pages \X Nat
  /\ steady \subseteq Keys
  /\ sync \in [Syncs -> SyncRecords]

\* A walk meets the files that have been there all along, one after the other,
\* unless it fails.
Meets(c, k) ==
  \/ c.at = "answered" /\ c.errs
  \/ k \in c.local
  \/ c.at \in {"idle", "walking"} /\ c.cursor < k

WalksMeetSteadyFiles == \A y \in Syncs : \A k \in steady \cap Pages : Meets(sync[y], k)

\* Such a file is there, and nobody has asked for its page to be deleted.
StraysSpareSteadyFiles == \A k \in steady : dist[k] # 0 /\ <<k, 0>> \notin strays

SInv == SiteTypes /\ WalksMeetSteadyFiles /\ StraysSpareSteadyFiles

-----------------------------------------------------------------------------
LEMMA SiteInitKeeps == SiteInit => SInv
<1> SUFFICES ASSUME SiteInit PROVE SInv
  OBVIOUS
<1>1. SiteTypes
  BY DEF SiteInit, FirstVersion, SiteTypes, SyncRecords, Places
<1>2. WalksMeetSteadyFiles
  <2>1. \A y \in Syncs : sync[y].at = "idle" /\ sync[y].cursor = 0
    BY DEF SiteInit
  <2>2. \A k \in Pages : 0 < k
    BY LastKeyIsNat DEF Pages, Keys
  <2> QED BY <2>1, <2>2 DEF WalksMeetSteadyFiles, Meets
<1>3. StraysSpareSteadyFiles
  BY DEF SiteInit, StraysSpareSteadyFiles
<1> QED BY <1>1, <1>2, <1>3 DEF SInv

\* A step that changes one sync, and nothing else that its walk relies on.
LEMMA OneSyncMoves ==
  ASSUME SInv, NEW y \in Syncs, NEW c \in SyncRecords, sync' = [sync EXCEPT ![y] = c],
         \A k \in steady \cap Pages : Meets(c, k),
         UNCHANGED <<dist, builds, steady>>,
         site' \in [Keys -> Nat], strays' \subseteq Pages \X Nat,
         \A k \in steady : <<k, 0>> \in strays' => <<k, 0>> \in strays
  PROVE  SInv'
<1>1. SiteTypes'
  BY DEF SInv, SiteTypes
<1>2. WalksMeetSteadyFiles'
  <2>1. \A z \in Syncs : sync'[z] = IF z = y THEN c ELSE sync[z]
    BY DEF SInv, SiteTypes
  <2> QED BY <2>1 DEF SInv, WalksMeetSteadyFiles
<1>3. StraysSpareSteadyFiles'
  BY DEF SInv, StraysSpareSteadyFiles
<1> QED BY <1>1, <1>2, <1>3 DEF SInv

-----------------------------------------------------------------------------
(* The steps of a sync *)

LEMMA FailsKeeps ==
  ASSUME SInv, NEW y \in Syncs, Fails(y), UNCHANGED <<dist, builds, site, strays, siteHistory>>
  PROVE  SInv'
<1> DEFINE c == [sync[y] EXCEPT !.at = "answered", !.errs = TRUE]
<1>1. c \in SyncRecords /\ c.at = "answered" /\ c.errs
  BY DEF SInv, SiteTypes, SyncRecords, Places
<1>2. sync' = [sync EXCEPT ![y] = c]
  BY DEF Fails
<1>3. \A k \in steady \cap Pages : Meets(c, k)
  BY <1>1 DEF Meets
<1> HIDE DEF c
<1> QED BY <1>1, <1>2, <1>3, OneSyncMoves DEF SInv, SiteTypes, siteHistory

\* The walk passes no steady file without adding it to localFiles.
LEMMA WalkKeeps ==
  ASSUME SInv, NEW y \in Syncs, Begins(y) \/ Walks(y) PROVE SInv'
<1> DEFINE s == sync[y]
<1>1. s \in SyncRecords /\ \A k \in steady \cap Pages : Meets(s, k)
  BY DEF SInv, SiteTypes, WalksMeetSteadyFiles
<1>2. CASE Begins(y)
  <2> DEFINE c == [s EXCEPT !.at = "walking"]
  <2>1. c \in SyncRecords /\ c.cursor = s.cursor /\ c.local = s.local /\ c.at = "walking"
    BY <1>1 DEF SyncRecords, Places
  <2>2. s.at = "idle" /\ sync' = [sync EXCEPT ![y] = c]
    BY <1>2 DEF Begins, At
  <2>3. \A k \in steady \cap Pages : Meets(c, k)
    BY <1>1, <2>1, <2>2 DEF Meets
  <2>4. UNCHANGED <<dist, builds, site, strays, steady>>
    BY <1>2 DEF Begins
  <2> HIDE DEF c
  <2> QED BY <2>1, <2>2, <2>3, <2>4, OneSyncMoves DEF SInv, SiteTypes
<1>3. CASE Walks(y)
  <2> DEFINE k == s.cursor + 1
             seen == IF dist[k] # 0 /\ k \notin Uploads THEN {k} ELSE {}
  <2>1. s.at = "walking" /\ UNCHANGED <<dist, builds, site, strays, siteHistory>>
    BY <1>3 DEF Walks, At
  <2>2. s.cursor \in Nat /\ s.local \subseteq Pages
    BY <1>1 DEF SyncRecords
  <2>3. \A j \in steady \cap Pages : j \in s.local \cup seen \/ k < j
    <3>1. TAKE j \in steady \cap Pages
    <3>2. j \in s.local \/ s.cursor < j
      BY <1>1, <2>1 DEF Meets
    <3>3. j \in Nat /\ dist[j] # 0 /\ j \notin Uploads
      <4>1. dist[j] # 0
        BY DEF SInv, StraysSpareSteadyFiles
      <4>2. j \in Nat
        BY LastKeyIsNat DEF Pages, Keys
      <4> QED BY <4>1, <4>2 DEF Pages
    <3>4. j = k => j \in seen
      BY <3>3
    <3> QED BY <2>2, <3>2, <3>3, <3>4
  <2>4. CASE Fails(y)
    BY <2>1, <2>4, FailsKeeps
  <2>5. ASSUME k <= LastKey PROVE seen \subseteq Pages /\ k \in Nat
    BY <2>2, <2>5, LastKeyIsNat DEF Pages, Keys
  <2>6. ASSUME k < LastKey, sync' = [sync EXCEPT ![y].cursor = k, ![y].local = @ \cup seen]
        PROVE  SInv'
    <3> DEFINE c == [s EXCEPT !.cursor = k, !.local = @ \cup seen]
    <3>0. seen \subseteq Pages /\ k \in Nat
      BY <2>2, <2>5, <2>6, LastKeyIsNat
    <3> HIDE DEF seen, k
    <3>1. c \in SyncRecords /\ c.at = s.at /\ c.cursor = k /\ c.local = s.local \cup seen
      BY <1>1, <2>2, <3>0 DEF SyncRecords
    <3>2. \A j \in steady \cap Pages : Meets(c, j)
      BY <2>1, <2>3, <3>1 DEF Meets
    <3>3. sync' = [sync EXCEPT ![y] = c]
      BY <2>6
    <3> HIDE DEF c
    <3> QED BY <2>1, <3>1, <3>2, <3>3, OneSyncMoves DEF SInv, SiteTypes, siteHistory
  <2>7. ASSUME k = LastKey,
               sync' = [sync EXCEPT ![y].at = "uploading", ![y].local = @ \cup seen,
                                    ![y].waiting = s.local \cup seen]
        PROVE  SInv'
    <3> DEFINE c == [s EXCEPT !.at = "uploading", !.local = @ \cup seen,
                              !.waiting = s.local \cup seen]
    <3>0. seen \subseteq Pages /\ \A j \in steady \cap Pages : ~ k < j
      BY <2>2, <2>5, <2>7, LastKeyIsNat DEF Pages, Keys
    <3> HIDE DEF seen, k
    <3>1. c \in SyncRecords /\ c.local = s.local \cup seen
      BY <1>1, <2>2, <3>0 DEF SyncRecords, Places
    <3>2. \A j \in steady \cap Pages : Meets(c, j)
      BY <2>3, <3>0, <3>1 DEF Meets
    <3>3. sync' = [sync EXCEPT ![y] = c]
      BY <2>7
    <3> HIDE DEF c
    <3> QED BY <2>1, <3>1, <3>2, <3>3, OneSyncMoves DEF SInv, SiteTypes, siteHistory
  <2> QED BY <1>3, <2>4, <2>6, <2>7 DEF Walks
<1> QED BY <1>2, <1>3

\* From the end of the walk on, a sync keeps its localFiles.
LEMMA LaterStepsMeet ==
  ASSUME SInv, NEW y \in Syncs, sync[y].at \in {"uploading", "listing", "deleting"},
         NEW c \in SyncRecords, c.local = sync[y].local
  PROVE  \A k \in steady \cap Pages : Meets(c, k)
BY DEF SInv, WalksMeetSteadyFiles, Meets

\* The goroutines of the uploads put what they have read, and that is a file.
LEMMA UploadKeeps ==
  ASSUME SInv, NEW y \in Syncs, UploadStep(y) PROVE SInv'
<1> DEFINE Follows(c, d) == /\ c.at = d.at /\ c.cursor = d.cursor /\ c.local = d.local
                            /\ d.errs => c.errs
<1> DEFINE s == sync[y]
<1>1. s \in SyncRecords /\ \A k \in steady \cap Pages : Meets(s, k)
  BY DEF SInv, SiteTypes, WalksMeetSteadyFiles
<1>2. ASSUME NEW c \in SyncRecords, sync' = [sync EXCEPT ![y] = c], Follows(c, s),
             UNCHANGED <<dist, builds, steady>>,
             site' \in [Keys -> Nat], strays' \subseteq Pages \X Nat,
             \A k \in steady : <<k, 0>> \in strays' => <<k, 0>> \in strays
      PROVE  SInv'
  <2>1. \A k \in steady \cap Pages : Meets(c, k)
    BY <1>1, <1>2 DEF Meets
  <2> QED BY <1>2, <2>1, OneSyncMoves
<1>3. ASSUME NEW k \in Keys, Opens(y, k) PROVE SInv'
  <2>1. k \in Pages /\ dist[k] \in Nat
    BY <1>1, <1>3 DEF Opens, SyncRecords, Pages, SInv, SiteTypes
  <2>2. site \in [Keys -> Nat] /\ strays \subseteq Pages \X Nat
    BY DEF SInv, SiteTypes
  <2>3. UNCHANGED <<dist, builds, site, strays, steady>>
    BY <1>3 DEF Opens, siteHistory
  <2>4. CASE dist[k] = 0
    <3> DEFINE c == [s EXCEPT !.waiting = @ \ {k}, !.errs = TRUE]
    <3>1. c \in SyncRecords /\ Follows(c, s)
      BY <1>1 DEF SyncRecords
    <3>2. sync' = [sync EXCEPT ![y] = c]
      BY <1>3, <2>4 DEF Opens
    <3> HIDE DEF c
    <3> QED BY <1>2, <2>2, <2>3, <3>1, <3>2
  <2>5. CASE dist[k] # 0
    <3> DEFINE c == [s EXCEPT !.waiting = @ \ {k}, !.slots = @ + 1,
                              !.putting = @ \cup {<<k, dist[k]>>}]
    <3>0. /\ s.putting \cup {<<k, dist[k]>>} \in SUBSET (Pages \X (Nat \ {0}))
          /\ s.slots + 1 \in Int /\ s.waiting \ {k} \in SUBSET Pages
      BY <1>1, <2>1, <2>5 DEF SyncRecords
    <3>1. c \in SyncRecords /\ Follows(c, s)
      BY <1>1, <3>0 DEF SyncRecords
    <3>2. sync' = [sync EXCEPT ![y] = c]
      BY <1>3, <2>5 DEF Opens
    <3> HIDE DEF c
    <3> QED BY <1>2, <2>2, <2>3, <3>1, <3>2
  <2> QED BY <2>4, <2>5
<1>4. ASSUME NEW k \in Keys, NEW v \in Versions, <<k, v>> \in s.putting
      PROVE  k \in Pages /\ v \in Nat \ {0}
  BY <1>1, <1>4 DEF SyncRecords
<1>5. ASSUME NEW k, NEW v
      PROVE  /\ s.putting \ {<<k, v>>} \in SUBSET (Pages \X (Nat \ {0}))
             /\ s.slots - 1 \in Int
  BY <1>1 DEF SyncRecords
<1>6. ASSUME NEW k \in Keys, NEW v \in Versions, Puts(y, k, v) PROVE SInv'
  <2> DEFINE c == [s EXCEPT !.putting = @ \ {<<k, v>>}, !.slots = @ - 1]
  <2>1. c \in SyncRecords /\ Follows(c, s)
    BY <1>1, <1>5 DEF SyncRecords
  <2>2. sync' = [sync EXCEPT ![y] = c] /\ UNCHANGED <<dist, builds, strays, steady>>
    BY <1>6 DEF Puts, siteHistory
  <2>3. site' \in [Keys -> Nat] /\ strays' \subseteq Pages \X Nat
    BY <1>4, <1>6 DEF Puts, SInv, SiteTypes
  <2> HIDE DEF c
  <2> QED BY <1>2, <2>1, <2>2, <2>3
<1>7. ASSUME NEW k \in Keys, NEW v \in Versions, PutLost(y, k, v) PROVE SInv'
  <2>1. /\ site' \in [Keys -> Nat] /\ strays' \subseteq Pages \X Nat
        /\ \A j \in steady : <<j, 0>> \in strays' => <<j, 0>> \in strays
        /\ UNCHANGED <<dist, builds, steady>>
    <3>1. strays' \subseteq strays \cup {<<k, v>>} /\ k \in Pages /\ v \in Nat /\ v # 0
      BY <1>4, <1>7 DEF PutLost, GivesUp
    <3>2. UNCHANGED <<dist, builds, site, steady>>
      BY <1>7 DEF PutLost, siteHistory
    <3> QED BY <3>1, <3>2 DEF SInv, SiteTypes
  <2>2. CASE UNCHANGED sync
    BY <1>1, <1>2, <2>1, <2>2 DEF SInv, SiteTypes
  <2>3. CASE sync' = [sync EXCEPT ![y].putting = @ \ {<<k, v>>}, ![y].slots = @ - 1, ![y].errs = TRUE]
    <3> DEFINE c == [s EXCEPT !.putting = @ \ {<<k, v>>}, !.slots = @ - 1, !.errs = TRUE]
    <3>1. c \in SyncRecords /\ Follows(c, s)
      BY <1>1, <1>5 DEF SyncRecords
    <3>2. sync' = [sync EXCEPT ![y] = c]
      BY <2>3
    <3> HIDE DEF c
    <3> QED BY <1>2, <2>1, <3>1, <3>2
  <2> QED BY <1>7, <2>2, <2>3 DEF PutLost
<1> QED BY <1>3, <1>6, <1>7 DEF UploadStep

\* What is found stale was not met by the walk, and is no upload.
LEMMA StaleIsNotSteady ==
  ASSUME SInv, NEW y \in Syncs, sync[y].at = "deleting", NEW k \in Stale(y)
  PROVE  k \in Pages /\ k \notin steady
BY DEF SInv, SiteTypes, SyncRecords, Stale, Pages, WalksMeetSteadyFiles, Meets

\* The end of the uploads, the listing, the deletions, the answer.
LEMMA CleanUpKeeps ==
  ASSUME SInv, NEW y \in Syncs, AwaitsUploads(y) \/ Lists(y) \/ Deletes(y) \/ Returns(y)
  PROVE  SInv'
<1> DEFINE s == sync[y]
<1>1. s \in SyncRecords /\ site \in [Keys -> Nat] /\ strays \subseteq Pages \X Nat
  BY DEF SInv, SiteTypes
<1>2. ASSUME NEW c \in SyncRecords, sync' = [sync EXCEPT ![y] = c], c.local = s.local,
             s.at \in {"uploading", "listing", "deleting"}, UNCHANGED <<dist, builds, steady>>,
             site' \in [Keys -> Nat], strays' \subseteq Pages \X Nat,
             \A k \in steady : <<k, 0>> \in strays' => <<k, 0>> \in strays
      PROVE  SInv'
  BY <1>2, LaterStepsMeet, OneSyncMoves
<1>3. CASE AwaitsUploads(y)
  <2> DEFINE c == [s EXCEPT !.at = "listing", !.cursor = 0]
  <2>1. c \in SyncRecords /\ c.local = s.local
    BY <1>1 DEF SyncRecords, Places
  <2>2. /\ s.at = "uploading" /\ sync' = [sync EXCEPT ![y] = c]
        /\ UNCHANGED <<dist, builds, site, strays, steady>>
    BY <1>3 DEF AwaitsUploads, At, siteHistory
  <2> HIDE DEF c
  <2> QED BY <1>1, <1>2, <2>1, <2>2
<1>4. CASE Lists(y)
  <2>1. s.at = "listing" /\ UNCHANGED <<dist, builds, site, strays, siteHistory>>
    BY <1>4 DEF Lists, At
  <2>2. CASE Fails(y)
    BY <2>1, <2>2, FailsKeeps
  <2>3. CASE sync' = [sync EXCEPT ![y].at = "deleting"]
    <3> DEFINE c == [s EXCEPT !.at = "deleting"]
    <3>1. c \in SyncRecords /\ c.local = s.local
      BY <1>1 DEF SyncRecords, Places
    <3>2. sync' = [sync EXCEPT ![y] = c]
      BY <2>3
    <3> HIDE DEF c
    <3> QED BY <1>1, <1>2, <2>1, <3>1, <3>2 DEF siteHistory
  <2>4. ASSUME NEW k \in Firsts(Rest(y)), NEW place \in {"deleting", "listing"},
               sync' = [sync EXCEPT ![y].found = @ \cup {k}, ![y].cursor = k, ![y].at = place]
        PROVE  SInv'
    <3> DEFINE c == [s EXCEPT !.found = @ \cup {k}, !.cursor = k, !.at = place]
    <3>1. k \in Keys /\ k \in Nat
      BY LastKeyIsNat DEF Firsts, Rest, Keys
    <3>2. c \in SyncRecords /\ c.local = s.local
      BY <1>1, <3>1 DEF SyncRecords, Places
    <3>3. sync' = [sync EXCEPT ![y] = c]
      BY <2>4
    <3> HIDE DEF c
    <3> QED BY <1>1, <1>2, <2>1, <3>2, <3>3 DEF siteHistory
  <2> QED BY <1>4, <2>2, <2>3, <2>4 DEF Lists
<1>5. CASE Deletes(y)
  <2>1. s.at = "deleting" /\ UNCHANGED <<dist, builds, steady>>
    BY <1>5 DEF Deletes, At, siteHistory
  <2>2. PICK k \in Firsts(Stale(y)) :
          \/ /\ site' = [site EXCEPT ![k] = 0]
             /\ sync' = [sync EXCEPT ![y].found = @ \ {k}]
             /\ UNCHANGED strays
          \/ /\ GivesUp(k, 0)
             /\ sync' = [sync EXCEPT ![y].found = @ \ {k}, ![y].errs = TRUE]
             /\ UNCHANGED site
    BY <1>5 DEF Deletes
  <2>3. k \in Pages /\ k \notin steady
    BY <2>1, StaleIsNotSteady DEF Firsts
  <2>4. CASE /\ site' = [site EXCEPT ![k] = 0]
             /\ sync' = [sync EXCEPT ![y].found = @ \ {k}]
             /\ UNCHANGED strays
    <3> DEFINE c == [s EXCEPT !.found = @ \ {k}]
    <3>1. c \in SyncRecords /\ c.local = s.local
      BY <1>1 DEF SyncRecords
    <3>2. sync' = [sync EXCEPT ![y] = c] /\ site' \in [Keys -> Nat]
      BY <1>1, <2>4
    <3> HIDE DEF c
    <3> QED BY <1>1, <1>2, <2>1, <2>4, <3>1, <3>2
  <2>5. CASE /\ GivesUp(k, 0)
             /\ sync' = [sync EXCEPT ![y].found = @ \ {k}, ![y].errs = TRUE]
             /\ UNCHANGED site
    <3> DEFINE c == [s EXCEPT !.found = @ \ {k}, !.errs = TRUE]
    <3>1. c \in SyncRecords /\ c.local = s.local
      BY <1>1 DEF SyncRecords
    <3>2. sync' = [sync EXCEPT ![y] = c] /\ site' \in [Keys -> Nat]
      BY <1>1, <2>5
    <3>3. strays' \subseteq strays \cup {<<k, 0>>}
      BY <2>5 DEF GivesUp
    <3>4. /\ strays' \subseteq Pages \X Nat
          /\ \A j \in steady : <<j, 0>> \in strays' => <<j, 0>> \in strays
      BY <1>1, <2>3, <3>3
    <3> HIDE DEF c
    <3> QED BY <1>2, <2>1, <3>1, <3>2, <3>4
  <2> QED BY <2>2, <2>4, <2>5
<1>6. CASE Returns(y)
  <2> DEFINE c == [s EXCEPT !.at = "answered"]
  <2>1. c \in SyncRecords /\ c.local = s.local
    BY <1>1 DEF SyncRecords, Places
  <2>2. /\ s.at = "deleting" /\ sync' = [sync EXCEPT ![y] = c]
        /\ UNCHANGED <<dist, builds, site, strays, steady>>
    BY <1>6 DEF Returns, At, siteHistory
  <2> HIDE DEF c
  <2> QED BY <1>1, <1>2, <2>1, <2>2
<1> QED BY <1>3, <1>4, <1>5, <1>6

\* An attempt of a deletion that is lost moves no sync, and asks for no steady page.
LEMMA DeleteLostKeeps ==
  ASSUME SInv, NEW y \in Syncs, DeleteLost(y) PROVE SInv'
<1>1. sync[y].at = "deleting" /\ UNCHANGED <<dist, builds, site, sync, steady>>
  BY DEF DeleteLost, At, siteHistory
<1>2. PICK k \in Stale(y) : strays' \subseteq strays \cup {<<k, 0>>}
  BY DEF DeleteLost, Firsts, GivesUp
<1>3. k \in Pages /\ k \notin steady
  BY <1>1, StaleIsNotSteady
<1>4. SiteTypes'
  BY <1>1, <1>2, <1>3 DEF SInv, SiteTypes
<1>5. WalksMeetSteadyFiles' /\ StraysSpareSteadyFiles'
  BY <1>1, <1>2, <1>3 DEF SInv, WalksMeetSteadyFiles, StraysSpareSteadyFiles
<1> QED BY <1>4, <1>5 DEF SInv

-----------------------------------------------------------------------------
(* Every step keeps the invariant *)

LEMMA SiteStepKeeps == SInv /\ [SiteNext]_siteVars => SInv'
<1> SUFFICES ASSUME SInv, [SiteNext]_siteVars PROVE SInv'
  OBVIOUS
<1>1. ASSUME NEW k \in Keys, Builds(k) PROVE SInv'
  <2>1. PICK v \in {0, builds + 2} : dist' = [dist EXCEPT ![k] = v]
    BY <1>1 DEF Builds
  <2>2. SiteTypes'
    BY <1>1, <2>1 DEF Builds, SInv, SiteTypes
  <2>3. steady' \subseteq steady /\ UNCHANGED <<strays, sync>>
    BY <1>1 DEF Builds
  <2>4. WalksMeetSteadyFiles'
    BY <2>3 DEF SInv, WalksMeetSteadyFiles
  <2>5. StraysSpareSteadyFiles'
    <3>1. \A j \in steady' : dist'[j] # 0
      <4>1. \A j \in Keys : dist'[j] = IF j = k THEN v ELSE dist[j]
        BY <2>1 DEF SInv, SiteTypes
      <4>2. dist'[k] = 0 => k \notin steady'
        BY <1>1 DEF Builds
      <4> QED BY <2>3, <4>1, <4>2 DEF SInv, SiteTypes, StraysSpareSteadyFiles
    <3> QED BY <2>3, <3>1 DEF SInv, StraysSpareSteadyFiles
  <2> QED BY <2>2, <2>4, <2>5 DEF SInv
<1>2. ASSUME NEW k \in Keys, NEW v \in Versions, StrayArrives(k, v) PROVE SInv'
  <2>1. SiteTypes'
    <3>1. v \in Nat
      BY <1>2 DEF StrayArrives, SInv, SiteTypes
    <3> QED BY <1>2, <3>1 DEF StrayArrives, SInv, SiteTypes
  <2> QED BY <1>2, <2>1 DEF StrayArrives, SInv, WalksMeetSteadyFiles, StraysSpareSteadyFiles
<1>3. ASSUME NEW y \in Syncs, Begins(y) \/ SyncStep(y) \/ UploadStep(y) PROVE SInv'
  BY <1>3, WalkKeeps, CleanUpKeeps, UploadKeeps DEF SyncStep
<1>4. CASE UNCHANGED siteVars
  BY <1>4 DEF siteVars, siteHistory, SInv, SiteTypes, WalksMeetSteadyFiles, StraysSpareSteadyFiles
<1> QED BY <1>1, <1>2, <1>3, <1>4, DeleteLostKeeps DEF SiteNext

(***************************************************************************)
(* The invariant of DistSync is one: no walk misses a file that has been   *)
(* there all along, and nobody has asked for its page to be deleted.       *)
(***************************************************************************)
THEOREM SiteInvariance == SiteSpec => []SInv
BY SiteInitKeeps, SiteStepKeeps, PTL DEF SiteSpec

-----------------------------------------------------------------------------
(* No page goes down *)

PageStays ==
  /\ \A k \in steady' : site[k] # 0 => site'[k] # 0
  /\ \A k \in Uploads : site'[k] = site[k]

\* An object is only given what is no file where its file is not steady.
LEMMA OneObjectChanges ==
  ASSUME SInv, NEW k \in Pages, NEW v \in Nat, site' = [site EXCEPT ![k] = v],
         steady' = steady, v = 0 => k \notin steady
  PROVE  PageStays
<1>1. \A j \in Keys : site'[j] = IF j = k THEN v ELSE site[j]
  BY DEF SInv, SiteTypes
<1>2. steady \subseteq Keys /\ Uploads \subseteq Keys /\ k \notin Uploads
  BY UploadsAreKeys DEF SInv, SiteTypes, Pages
<1> QED BY <1>1, <1>2 DEF PageStays

LEMMA StepKeepsPages == SInv /\ [SiteNext]_siteVars => [PageStays]_siteVars
<1> SUFFICES ASSUME SInv, SiteNext PROVE PageStays
  OBVIOUS
<1>1. CASE site' = site
  BY <1>1 DEF PageStays
<1>2. ASSUME NEW k \in Keys, NEW v \in Versions, StrayArrives(k, v) PROVE PageStays
  <2>1. <<k, v>> \in strays /\ site' = [site EXCEPT ![k] = v] /\ steady' = steady
    BY <1>2 DEF StrayArrives
  <2>2. k \in Pages /\ v \in Nat /\ (v = 0 => k \notin steady)
    BY <2>1 DEF SInv, SiteTypes, StraysSpareSteadyFiles
  <2> QED BY <2>1, <2>2, OneObjectChanges
<1>3. ASSUME NEW y \in Syncs, NEW k \in Keys, NEW v \in Versions, Puts(y, k, v) PROVE PageStays
  <2>1. <<k, v>> \in sync[y].putting /\ site' = [site EXCEPT ![k] = v] /\ steady' = steady
    BY <1>3 DEF Puts, siteHistory
  <2>2. k \in Pages /\ v \in Nat \ {0}
    BY <2>1 DEF SInv, SiteTypes, SyncRecords
  <2> QED BY <2>1, <2>2, OneObjectChanges
<1>4. ASSUME NEW y \in Syncs, Deletes(y) PROVE PageStays
  <2>1. sync[y].at = "deleting" /\ steady' = steady
    BY <1>4 DEF Deletes, At, siteHistory
  <2>2. PICK k \in Stale(y) : site' = [site EXCEPT ![k] = 0] \/ site' = site
    BY <1>4 DEF Deletes, Firsts
  <2>3. k \in Pages /\ k \notin steady
    BY <2>1, StaleIsNotSteady
  <2> QED BY <1>1, <2>1, <2>2, <2>3, OneObjectChanges
<1>5. ASSUME NEW y \in Syncs, Begins(y) \/ SyncStep(y) \/ UploadStep(y) PROVE PageStays
  <2>1. ASSUME site' # site
        PROVE  \/ Deletes(y)
               \/ \E k \in Keys, v \in Versions : Puts(y, k, v)
    BY <1>5, <2>1 DEF Begins, SyncStep, UploadStep, Walks, AwaitsUploads, Lists, Returns, Opens,
       PutLost
  <2> QED BY <1>1, <1>3, <1>4, <2>1
<1>6. CASE (\E k \in Keys : Builds(k)) \/ (\E y \in Syncs : DeleteLost(y))
  BY <1>1, <1>6 DEF Builds, DeleteLost
<1> QED BY <1>2, <1>5, <1>6 DEF SiteNext

(***************************************************************************)
(* However many syncs, builds and late requests there are, and whichever   *)
(* uploads, deletions and listings fail: no page goes down whose file has  *)
(* been in dist/ all along, and nothing under uploads/ is touched.         *)
(***************************************************************************)
THEOREM NoPageGoesDown == SiteSpec => PagesStayUp
<1>1. PagesStayUp <=> [][PageStays]_siteVars
  BY DEF PagesStayUp, PageStays
<1> QED BY <1>1, SiteInvariance, StepKeepsPages, PTL DEF SiteSpec
-----------------------------------------------------------------------------
(* A sync without errors mirrors dist/ *)

HistoryTypes == calm \in [Syncs -> BOOLEAN] /\ rivals \in [Syncs -> SUBSET Syncs]

\* A sync that has not begun has nothing; only uploading does anything wait.
Resting(c) ==
  /\ c.at = "idle" => c.cursor = 0 /\ c.local = {}
  /\ c.at # "uploading" => c.waiting = {} /\ c.putting = {}

\* What a sync has seen of dist/ is what is there.
LooksRight(c) ==
  /\ \A k \in Keys, v \in Nat : <<k, v>> \in c.putting => v = dist[k]
  /\ \A k \in c.local : dist[k] # 0
  /\ \A k \in Pages : dist[k] # 0 => Meets(c, k)

\* What it has done to the site so far, if nothing failed.
Uploaded(c, objects) ==
  \A k \in c.local : \/ objects[k] = dist[k]
                      \/ c.at \in {"idle", "walking"}
                      \/ k \in c.waiting
                      \/ <<k, dist[k]>> \in c.putting
CleanedUp(c, objects) ==
  \A k \in Pages : dist[k] = 0 =>
    \/ objects[k] = 0
    \/ c.at \in {"idle", "walking", "uploading"}
    \/ c.at = "listing" /\ c.cursor < k
    \/ c.at \in {"listing", "deleting"} /\ k \in c.found
Mirrors(c, objects) == Uploaded(c, objects) /\ CleanedUp(c, objects)

Quiet(y) == \A z \in rivals[y] \cup {y} : calm[z]

AllRest == \A y \in Syncs : Resting(sync[y])
AllLookRight == \A y \in Syncs : calm[y] => LooksRight(sync[y])

\* Whoever is under way is one of the rivals of a sync.
RivalsAreKnown ==
  \A y, z \in Syncs :
    sync[y].at # "idle" /\ sync[z].at \notin {"idle", "answered"} => z \in rivals[y] \cup {y}

QuietSyncsMirror ==
  \A y \in Syncs :
    sync[y].at # "idle" /\ Quiet(y) /\ ~ sync[y].errs => Mirrors(sync[y], site)

MInv == HistoryTypes /\ AllRest /\ AllLookRight /\ RivalsAreKnown /\ QuietSyncsMirror

-----------------------------------------------------------------------------
LEMMA InitMirrors == SiteInit => MInv
<1> SUFFICES ASSUME SiteInit PROVE MInv
  OBVIOUS
<1>1. /\ HistoryTypes
      /\ \A y \in Syncs : /\ sync[y].at = "idle" /\ sync[y].cursor = 0
                         /\ sync[y].local = {} /\ sync[y].waiting = {} /\ sync[y].putting = {}
  BY DEF SiteInit, HistoryTypes
<1>2. \A k \in Pages : 0 < k
  BY LastKeyIsNat DEF Pages, Keys
<1> QED BY <1>1, <1>2 DEF MInv, AllRest, Resting, AllLookRight, LooksRight, Meets, RivalsAreKnown,
           QuietSyncsMirror

\* An object that becomes what dist/ holds is a step towards the mirror.
Improves == \A k \in Keys : site'[k] = site[k] \/ site'[k] = dist[k]

LEMMA ImprovingKeeps ==
  ASSUME NEW c \in SyncRecords, Mirrors(c, site), Improves PROVE Mirrors(c, site')
<1>1. c.local \subseteq Keys /\ Pages \subseteq Keys
  BY DEF SyncRecords, Pages
<1>2. Uploaded(c, site')
  BY <1>1 DEF Mirrors, Uploaded, Improves
<1>3. CleanedUp(c, site')
  BY <1>1 DEF Mirrors, CleanedUp, Improves
<1> QED BY <1>2, <1>3 DEF Mirrors

\* A sync under way does a step.  If it is calm the step improves the site, and
\* the others it is a rival of may rely on that.
LEMMA OneSyncMirrors ==
  ASSUME SInv, MInv, NEW y \in Syncs, NEW c \in SyncRecords, sync' = [sync EXCEPT ![y] = c],
         UNCHANGED <<dist, calm, rivals>>,
         sync[y].at \notin {"idle", "answered"}, c.at # "idle",
         Resting(c), calm[y] => LooksRight(c) /\ Improves,
         Quiet(y) /\ ~ c.errs => Mirrors(c, site')
  PROVE  MInv'
<1>1. \A z \in Syncs : sync'[z] = IF z = y THEN c ELSE sync[z]
  BY DEF SInv, SiteTypes
<1>2. HistoryTypes' /\ AllRest'
  BY <1>1 DEF MInv, HistoryTypes, AllRest, Resting
<1>3. AllLookRight'
  BY <1>1 DEF MInv, AllLookRight, LooksRight, Meets
<1>4. RivalsAreKnown'
  BY <1>1 DEF MInv, RivalsAreKnown
<1>5. QuietSyncsMirror'
  <2>1. SUFFICES ASSUME NEW z \in Syncs, sync'[z].at # "idle", Quiet(z), ~ sync'[z].errs
                 PROVE  Mirrors(sync'[z], site')
    BY DEF QuietSyncsMirror, Quiet, Mirrors, Uploaded, CleanedUp
  <2>2. CASE z = y
    BY <1>1, <2>1, <2>2
  <2>3. CASE z # y
    <3>1. calm[y]
      BY <1>1, <2>1, <2>3 DEF MInv, RivalsAreKnown, Quiet
    <3>2. sync[z] \in SyncRecords /\ sync'[z] = sync[z]
      BY <1>1, <2>3 DEF SInv, SiteTypes
    <3>3. Mirrors(sync[z], site)
      BY <2>1, <3>2 DEF MInv, QuietSyncsMirror
    <3> QED BY <3>1, <3>2, <3>3, ImprovingKeeps
  <2> QED BY <2>2, <2>3
<1> QED BY <1>2, <1>3, <1>4, <1>5 DEF MInv

-----------------------------------------------------------------------------
(* The steps of a sync *)

\* What is known of a sync that is under way.
LEMMA ActiveMeans ==
  ASSUME SInv, MInv, NEW y \in Syncs, sync[y].at # "idle"
  PROVE  /\ sync[y] \in SyncRecords /\ Resting(sync[y])
         /\ calm[y] => LooksRight(sync[y])
         /\ Quiet(y) => calm[y]
         /\ Quiet(y) /\ ~ sync[y].errs => Mirrors(sync[y], site)
BY DEF SInv, SiteTypes, MInv, AllRest, AllLookRight, QuietSyncsMirror, Quiet

LEMMA FailsMirrors ==
  ASSUME SInv, MInv, NEW y \in Syncs, Fails(y), sync[y].at \in {"walking", "listing"},
         UNCHANGED <<dist, builds, site, strays, siteHistory>>
  PROVE  MInv'
<1> DEFINE s == sync[y]
           c == [s EXCEPT !.at = "answered", !.errs = TRUE]
<1>1. s \in SyncRecords /\ Resting(s) /\ (calm[y] => LooksRight(s))
  BY ActiveMeans
<1>2. /\ c \in SyncRecords /\ c.at = "answered" /\ c.errs
      /\ c.local = s.local /\ c.waiting = s.waiting /\ c.putting = s.putting
  BY <1>1 DEF SyncRecords, Places
<1>3. sync' = [sync EXCEPT ![y] = c]
  BY DEF Fails
<1> HIDE DEF c
<1>4. Resting(c) /\ (calm[y] => LooksRight(c))
  BY <1>1, <1>2 DEF Resting, LooksRight, Meets
<1> QED BY <1>2, <1>3, <1>4, OneSyncMirrors DEF siteHistory, Improves

LEMMA BeginMirrors ==
  ASSUME SInv, MInv, NEW y \in Syncs, Begins(y) PROVE MInv'
<1> DEFINE s == sync[y]
           c == [s EXCEPT !.at = "walking"]
<1>1. s \in SyncRecords /\ s.at = "idle" /\ Resting(s) /\ (calm[y] => LooksRight(s))
  BY DEF Begins, At, SInv, SiteTypes, MInv, AllRest, AllLookRight
<1>2. /\ c.at = "walking" /\ c.cursor = s.cursor /\ c.local = s.local
      /\ c.waiting = s.waiting /\ c.putting = s.putting
  BY <1>1 DEF SyncRecords
<1>3. \A z \in Syncs : sync'[z] = IF z = y THEN c ELSE sync[z]
  BY DEF Begins, SInv, SiteTypes
<1>4. \A z \in Syncs : rivals'[z] = IF z = y THEN UnderWay
                                   ELSE IF At(z, "idle") THEN {} ELSE rivals[z] \cup {y}
  BY DEF Begins
<1>5. UNCHANGED <<dist, site, calm>>
  BY DEF Begins
<1> HIDE DEF c
<1>6. HistoryTypes'
  BY <1>5 DEF Begins, MInv, HistoryTypes, UnderWay
<1>7. AllRest'
  BY <1>1, <1>2, <1>3 DEF MInv, AllRest, Resting
<1>8. AllLookRight'
  <2>1. calm[y] => LooksRight(c)
    BY <1>1, <1>2 DEF LooksRight, Meets
  <2> QED BY <1>3, <1>5, <2>1 DEF MInv, AllLookRight, LooksRight, Meets
<1>9. RivalsAreKnown'
  BY <1>2, <1>3, <1>4 DEF MInv, RivalsAreKnown, UnderWay, At
<1>10. QuietSyncsMirror'
  <2>1. SUFFICES ASSUME NEW z \in Syncs, sync'[z].at # "idle", Quiet(z)', ~ sync'[z].errs
                 PROVE  Mirrors(sync'[z], site)
    BY <1>5 DEF QuietSyncsMirror, Mirrors, Uploaded, CleanedUp
  <2>2. CASE z = y
    BY <1>2, <1>3, <2>2 DEF Mirrors, Uploaded, CleanedUp
  <2>3. CASE z # y
    <3>1. sync'[z] = sync[z] /\ rivals[z] \subseteq rivals'[z]
      BY <1>3, <1>4, <2>1, <2>3 DEF At
    <3>2. Quiet(z)
      BY <1>5, <2>1, <3>1 DEF Quiet
    <3> QED BY <2>1, <3>1, <3>2 DEF MInv, QuietSyncsMirror
  <2> QED BY <2>2, <2>3
<1> QED BY <1>6, <1>7, <1>8, <1>9, <1>10 DEF MInv

LEMMA WalkMirrors ==
  ASSUME SInv, MInv, NEW y \in Syncs, Walks(y) PROVE MInv'
<1> DEFINE s == sync[y]
           k == s.cursor + 1
           seen == IF dist[k] # 0 /\ k \notin Uploads THEN {k} ELSE {}
<1>1. s.at = "walking" /\ UNCHANGED <<dist, builds, site, strays, siteHistory>>
  BY DEF Walks, At
<1>2. s \in SyncRecords /\ Resting(s) /\ (calm[y] => LooksRight(s))
  BY <1>1, ActiveMeans
<1>3. s.cursor \in Nat /\ s.local \subseteq Pages /\ s.waiting = {} /\ s.putting = {}
  BY <1>1, <1>2 DEF SyncRecords, Resting
<1>4. ASSUME calm[y]
      PROVE  /\ \A j \in s.local \cup seen : dist[j] # 0
             /\ \A j \in Pages : dist[j] # 0 => j \in s.local \cup seen \/ k < j
  <2>1. ASSUME NEW j \in Pages, dist[j] # 0 PROVE j \in s.local \cup seen \/ k < j
    <3>1. j \in s.local \/ s.cursor < j
      BY <1>1, <1>2, <1>4, <2>1 DEF LooksRight, Meets
    <3>2. j \in Nat /\ j \notin Uploads
      BY LastKeyIsNat DEF Pages, Keys
    <3>3. j = k => j \in seen
      BY <2>1, <3>2
    <3> QED BY <1>3, <3>1, <3>2, <3>3
  <2>2. \A j \in s.local \cup seen : dist[j] # 0
    BY <1>2, <1>4 DEF LooksRight
  <2> QED BY <2>1, <2>2
<1>5. ASSUME k <= LastKey PROVE seen \subseteq Pages /\ k \in Nat
  BY <1>3, <1>5, LastKeyIsNat DEF Pages, Keys
<1>6. CASE Fails(y)
  BY <1>1, <1>6, FailsMirrors
<1>7. ASSUME k < LastKey, sync' = [sync EXCEPT ![y].cursor = k, ![y].local = @ \cup seen]
      PROVE  MInv'
  <2> DEFINE c == [s EXCEPT !.cursor = k, !.local = @ \cup seen]
  <2>1. seen \subseteq Pages /\ k \in Nat
    BY <1>3, <1>5, <1>7, LastKeyIsNat
  <2> HIDE DEF seen, k
  <2>2. /\ c \in SyncRecords /\ c.at = "walking" /\ c.cursor = k /\ c.local = s.local \cup seen
        /\ c.waiting = {} /\ c.putting = {}
    BY <1>1, <1>2, <1>3, <2>1 DEF SyncRecords
  <2>3. sync' = [sync EXCEPT ![y] = c]
    BY <1>7
  <2> HIDE DEF c
  <2>4. Resting(c) /\ Mirrors(c, site')
    BY <2>2 DEF Resting, Mirrors, Uploaded, CleanedUp
  <2>5. calm[y] => LooksRight(c) /\ Improves
    BY <1>1, <1>4, <2>2 DEF LooksRight, Meets, Improves
  <2> QED BY <1>1, <2>2, <2>3, <2>4, <2>5, OneSyncMirrors DEF siteHistory
<1>8. ASSUME k = LastKey,
             sync' = [sync EXCEPT ![y].at = "uploading", ![y].local = @ \cup seen,
                                  ![y].waiting = s.local \cup seen]
      PROVE  MInv'
  <2> DEFINE c == [s EXCEPT !.at = "uploading", !.local = @ \cup seen,
                            !.waiting = s.local \cup seen]
  <2>1. seen \subseteq Pages /\ \A j \in Pages : ~ k < j
    BY <1>3, <1>5, <1>8, LastKeyIsNat DEF Pages, Keys
  <2> HIDE DEF seen, k
  <2>2. /\ c \in SyncRecords /\ c.at = "uploading" /\ c.local = s.local \cup seen
        /\ c.waiting = c.local /\ c.putting = {}
    BY <1>2, <1>3, <2>1 DEF SyncRecords, Places
  <2>3. sync' = [sync EXCEPT ![y] = c]
    BY <1>8
  <2> HIDE DEF c
  <2>4. Resting(c) /\ Mirrors(c, site')
    BY <2>2 DEF Resting, Mirrors, Uploaded, CleanedUp
  <2>5. calm[y] => LooksRight(c) /\ Improves
    BY <1>1, <1>4, <2>1, <2>2 DEF LooksRight, Meets, Improves
  <2> QED BY <1>1, <2>2, <2>3, <2>4, <2>5, OneSyncMirrors DEF siteHistory
<1> QED BY <1>6, <1>7, <1>8 DEF Walks

LEMMA UploadMirrors ==
  ASSUME SInv, MInv, NEW y \in Syncs, UploadStep(y) PROVE MInv'
<1> DEFINE s == sync[y]
<1>1. s \in SyncRecords
  BY DEF SInv, SiteTypes
<1>2. ASSUME s.waiting # {} \/ s.putting # {}
      PROVE  /\ s.at = "uploading"
             /\ calm[y] => LooksRight(s)
             /\ Quiet(y) => calm[y]
             /\ Quiet(y) /\ ~ s.errs => Mirrors(s, site)
  <2>1. s.at = "uploading"
    BY <1>2 DEF MInv, AllRest, Resting
  <2> QED BY <2>1, ActiveMeans
\* Of an upload that goes on, it is enough to know what it has put where.
<1>3. ASSUME NEW c \in SyncRecords, sync' = [sync EXCEPT ![y] = c], s.at = "uploading",
             c.at = s.at, c.local = s.local, UNCHANGED <<dist, calm, rivals>>,
             calm[y] => LooksRight(s) /\ Improves
                        /\ \A k \in Keys, v \in Nat : <<k, v>> \in c.putting => v = dist[k],
             Quiet(y) /\ ~ c.errs => Uploaded(c, site')
      PROVE  MInv'
  <2>1. calm[y] => LooksRight(c)
    BY <1>3 DEF LooksRight, Meets
  <2>2. Resting(c) /\ CleanedUp(c, site')
    BY <1>3 DEF Resting, CleanedUp
  <2> QED BY <1>3, <2>1, <2>2, OneSyncMirrors DEF Mirrors
<1>4. ASSUME NEW k \in Keys, Opens(y, k) PROVE MInv'
  <2>1. k \in s.waiting /\ UNCHANGED <<dist, builds, site, strays, siteHistory>>
    BY <1>4 DEF Opens
  <2>2. k \in Pages /\ dist[k] \in Nat /\ s.putting \subseteq Pages \X (Nat \ {0})
    BY <1>1, <2>1 DEF SyncRecords, Pages, SInv, SiteTypes
  <2>3. CASE dist[k] = 0
    <3> DEFINE c == [s EXCEPT !.waiting = @ \ {k}, !.errs = TRUE]
    <3>1. c \in SyncRecords /\ c.local = s.local /\ c.at = s.at /\ c.errs /\ c.putting = s.putting
      BY <1>1 DEF SyncRecords
    <3>2. sync' = [sync EXCEPT ![y] = c]
      BY <1>4, <2>3 DEF Opens
    <3> HIDE DEF c
    <3>3. calm[y] => Improves /\ \A j \in Keys, v \in Nat : <<j, v>> \in c.putting => v = dist[j]
      BY <1>2, <2>1, <3>1 DEF LooksRight, Improves
    <3> QED BY <1>2, <1>3, <2>1, <3>1, <3>2, <3>3 DEF siteHistory
  <2>4. CASE dist[k] # 0
    <3> DEFINE c == [s EXCEPT !.waiting = @ \ {k}, !.slots = @ + 1,
                              !.putting = @ \cup {<<k, dist[k]>>}]
    <3>0. /\ s.putting \cup {<<k, dist[k]>>} \in SUBSET (Pages \X (Nat \ {0}))
          /\ s.slots + 1 \in Int /\ s.waiting \ {k} \in SUBSET Pages
      BY <1>1, <2>2, <2>4 DEF SyncRecords
    <3>1. /\ c \in SyncRecords /\ c.local = s.local /\ c.at = s.at /\ c.errs = s.errs
          /\ c.putting = s.putting \cup {<<k, dist[k]>>} /\ c.waiting = s.waiting \ {k}
      BY <1>1, <3>0 DEF SyncRecords
    <3>2. sync' = [sync EXCEPT ![y] = c]
      BY <1>4, <2>4 DEF Opens
    <3> HIDE DEF c
    <3>3. calm[y] => Improves /\ \A j \in Keys, v \in Nat : <<j, v>> \in c.putting => v = dist[j]
      BY <1>2, <2>1, <3>1 DEF LooksRight, Improves
    <3>4. Quiet(y) /\ ~ c.errs => Uploaded(c, site')
      BY <1>2, <2>1, <3>1 DEF Mirrors, Uploaded
    <3> QED BY <1>2, <1>3, <2>1, <3>1, <3>2, <3>3, <3>4 DEF siteHistory
  <2> QED BY <2>3, <2>4
<1>5. ASSUME NEW k, NEW v
      PROVE  /\ s.putting \ {<<k, v>>} \in SUBSET (Pages \X (Nat \ {0}))
             /\ s.slots - 1 \in Int
  BY <1>1 DEF SyncRecords
<1>6. ASSUME NEW k \in Keys, NEW v \in Versions, Puts(y, k, v) PROVE MInv'
  <2> DEFINE c == [s EXCEPT !.putting = @ \ {<<k, v>>}, !.slots = @ - 1]
  <2>1. /\ <<k, v>> \in s.putting /\ site' = [site EXCEPT ![k] = v]
        /\ sync' = [sync EXCEPT ![y] = c] /\ UNCHANGED <<dist, builds, strays, siteHistory>>
    BY <1>6 DEF Puts
  <2>2. /\ c \in SyncRecords /\ c.local = s.local /\ c.at = s.at /\ c.errs = s.errs
        /\ c.putting = s.putting \ {<<k, v>>} /\ c.waiting = s.waiting
    BY <1>1, <1>5 DEF SyncRecords
  <2> HIDE DEF c
  <2>3. /\ v \in Nat /\ (calm[y] => v = dist[k]) /\ s.local \subseteq Keys
        /\ \A j \in Keys : site'[j] = IF j = k THEN v ELSE site[j]
    BY <1>1, <1>2, <2>1 DEF LooksRight, SyncRecords, SInv, SiteTypes, Pages
  <2>4. calm[y] => Improves /\ \A j \in Keys, w \in Nat : <<j, w>> \in c.putting => w = dist[j]
    BY <1>2, <2>1, <2>2, <2>3 DEF LooksRight, Improves
  <2>5. Quiet(y) /\ ~ c.errs => Uploaded(c, site')
    BY <1>2, <2>1, <2>2, <2>3 DEF Mirrors, Uploaded
  <2> QED BY <1>2, <1>3, <2>1, <2>2, <2>4, <2>5 DEF siteHistory
<1>7. ASSUME NEW k \in Keys, NEW v \in Versions, PutLost(y, k, v) PROVE MInv'
  <2>1. <<k, v>> \in s.putting /\ UNCHANGED <<dist, builds, site, siteHistory>>
    BY <1>7 DEF PutLost
  <2>2. CASE UNCHANGED sync
    BY <2>1, <2>2 DEF siteHistory, MInv, HistoryTypes, AllRest, Resting, AllLookRight, LooksRight, Meets,
       RivalsAreKnown, QuietSyncsMirror, Quiet, Mirrors, Uploaded, CleanedUp
  <2>3. CASE sync' = [sync EXCEPT ![y].putting = @ \ {<<k, v>>}, ![y].slots = @ - 1, ![y].errs = TRUE]
    <3> DEFINE c == [s EXCEPT !.putting = @ \ {<<k, v>>}, !.slots = @ - 1, !.errs = TRUE]
    <3>1. /\ c \in SyncRecords /\ c.local = s.local /\ c.at = s.at /\ c.errs
          /\ c.putting = s.putting \ {<<k, v>>}
      BY <1>1, <1>5 DEF SyncRecords
    <3>2. sync' = [sync EXCEPT ![y] = c]
      BY <2>3
    <3> HIDE DEF c
    <3>3. calm[y] => Improves /\ \A j \in Keys, w \in Nat : <<j, w>> \in c.putting => w = dist[j]
      BY <1>2, <2>1, <3>1 DEF LooksRight, Improves
    <3> QED BY <1>2, <1>3, <2>1, <3>1, <3>2, <3>3 DEF siteHistory
  <2> QED BY <1>7, <2>2, <2>3 DEF PutLost
<1> QED BY <1>4, <1>6, <1>7 DEF UploadStep

LEMMA CleanUpMirrors ==
  ASSUME SInv, MInv, NEW y \in Syncs, AwaitsUploads(y) \/ Lists(y) \/ Deletes(y) \/ Returns(y)
  PROVE  MInv'
<1> DEFINE s == sync[y]
<1>1. s.at \in {"uploading", "listing", "deleting"}
  BY DEF AwaitsUploads, Lists, Deletes, Returns, At
<1>2. /\ s \in SyncRecords /\ Resting(s)
      /\ calm[y] => LooksRight(s)
      /\ Quiet(y) => calm[y]
      /\ Quiet(y) /\ ~ s.errs => Mirrors(s, site)
  BY <1>1, ActiveMeans
\* Nothing is uploaded any more.
<1>3. ASSUME NEW c \in SyncRecords, sync' = [sync EXCEPT ![y] = c], UNCHANGED <<dist, calm, rivals>>,
             c.at \in {"listing", "deleting", "answered"}, c.local = s.local,
             s.waiting = {}, s.putting = {}, c.waiting = {}, c.putting = {},
             calm[y] => Improves,
             Quiet(y) /\ ~ c.errs => ~ s.errs /\ CleanedUp(c, site')
      PROVE  MInv'
  <2>1. calm[y] => LooksRight(c)
    BY <1>1, <1>2, <1>3 DEF LooksRight, Meets
  <2>2. Quiet(y) /\ ~ c.errs => Uploaded(c, site')
    <3>1. SUFFICES ASSUME Quiet(y), ~ c.errs PROVE \A k \in c.local : site'[k] = dist[k]
      BY DEF Uploaded
    <3>2. \A k \in s.local : site[k] = dist[k] /\ k \in Keys
      BY <1>1, <1>2, <1>3, <3>1 DEF Mirrors, Uploaded, SyncRecords, Pages
    <3>3. Improves
      BY <1>2, <1>3, <3>1
    <3> QED BY <1>3, <3>2, <3>3 DEF Improves
  <2>3. Resting(c)
    BY <1>3 DEF Resting
  <2> QED BY <1>1, <1>3, <2>1, <2>2, <2>3, OneSyncMirrors DEF Mirrors
<1>4. \A k \in Pages : 0 < k
  BY LastKeyIsNat DEF Pages, Keys
<1>5. CASE AwaitsUploads(y)
  <2> DEFINE c == [s EXCEPT !.at = "listing", !.cursor = 0]
  <2>1. /\ c \in SyncRecords /\ c.at = "listing" /\ c.cursor = 0 /\ c.local = s.local
        /\ c.waiting = s.waiting /\ c.putting = s.putting /\ c.errs = s.errs
    BY <1>2 DEF SyncRecords, Places
  <2>2. /\ s.waiting = {} /\ s.putting = {} /\ sync' = [sync EXCEPT ![y] = c]
        /\ UNCHANGED <<dist, site, calm, rivals>>
    BY <1>5 DEF AwaitsUploads, siteHistory
  <2> HIDE DEF c
  <2>3. CleanedUp(c, site') /\ Improves
    BY <1>4, <2>1, <2>2 DEF CleanedUp, Improves
  <2> QED BY <1>3, <2>1, <2>2, <2>3
<1>6. CASE Lists(y)
  <2>1. s.at = "listing" /\ UNCHANGED <<dist, builds, site, strays, siteHistory>>
    BY <1>6 DEF Lists, At
  <2>2. s.waiting = {} /\ s.putting = {} /\ Improves
    BY <1>2, <2>1 DEF Resting, Improves
  <2>3. CASE Fails(y)
    BY <2>1, <2>3, FailsMirrors
  <2>4. CASE Rest(y) = {} /\ sync' = [sync EXCEPT ![y].at = "deleting"]
    <3> DEFINE c == [s EXCEPT !.at = "deleting"]
    <3>1. /\ c \in SyncRecords /\ c.at = "deleting" /\ c.local = s.local /\ c.found = s.found
          /\ c.waiting = s.waiting /\ c.putting = s.putting /\ c.errs = s.errs
      BY <1>2 DEF SyncRecords, Places
    <3>2. sync' = [sync EXCEPT ![y] = c]
      BY <2>4
    <3> HIDE DEF c
    <3>3. \A k \in Pages : site[k] = 0 \/ ~ s.cursor < k
      BY <1>2, <2>4, LastKeyIsNat DEF Rest, Pages, Keys, SyncRecords
    <3>4. Quiet(y) /\ ~ c.errs => CleanedUp(c, site')
      BY <1>2, <2>1, <3>1, <3>3 DEF Mirrors, CleanedUp
    <3> QED BY <1>3, <2>1, <2>2, <3>1, <3>2, <3>4 DEF siteHistory
  <2>5. ASSUME NEW k \in Firsts(Rest(y)),
               sync' = [sync EXCEPT ![y].found = @ \cup {k}, ![y].cursor = k,
                                    ![y].at = IF Rest(y) = {k} THEN "deleting" ELSE "listing"]
        PROVE  MInv'
    <3> DEFINE place == IF Rest(y) = {k} THEN "deleting" ELSE "listing"
               c == [s EXCEPT !.found = @ \cup {k}, !.cursor = k, !.at = place]
    <3>1. k \in Keys /\ k \in Nat /\ place \in {"deleting", "listing"}
      BY LastKeyIsNat DEF Firsts, Rest, Keys
    <3>2. \A j \in Pages : site[j] = 0 \/ ~ s.cursor < j \/ j = k \/ (place = "listing" /\ k < j)
      <4>1. SUFFICES ASSUME NEW j \in Pages, site[j] # 0, s.cursor < j, j # k
                     PROVE  place = "listing" /\ k < j
        OBVIOUS
      <4>2. j \in Rest(y) /\ j \in Nat
        BY <4>1, LastKeyIsNat DEF Rest, Pages, Keys
      <4>3. k <= j
        BY <4>2 DEF Firsts
      <4> QED BY <3>1, <4>1, <4>2, <4>3
    <3>3. sync' = [sync EXCEPT ![y] = c]
      BY <2>5
    <3> HIDE DEF place
    <3>4. /\ c \in SyncRecords /\ c.at = place /\ c.local = s.local /\ c.found = s.found \cup {k}
          /\ c.cursor = k /\ c.waiting = s.waiting /\ c.putting = s.putting /\ c.errs = s.errs
      BY <1>2, <3>1 DEF SyncRecords, Places
    <3> HIDE DEF c
    <3>5. Quiet(y) /\ ~ c.errs => CleanedUp(c, site')
      BY <1>2, <2>1, <3>1, <3>2, <3>4 DEF Mirrors, CleanedUp
    <3> QED BY <1>3, <2>1, <2>2, <3>1, <3>3, <3>4, <3>5 DEF siteHistory
  <2> QED BY <1>6, <2>3, <2>4, <2>5 DEF Lists
<1>7. CASE Deletes(y)
  <2>1. s.at = "deleting" /\ UNCHANGED <<dist, builds, siteHistory>>
    BY <1>7 DEF Deletes, At
  <2>2. s.waiting = {} /\ s.putting = {}
    BY <1>2, <2>1 DEF Resting
  <2>3. PICK k \in Firsts(Stale(y)) :
          \/ /\ site' = [site EXCEPT ![k] = 0]
             /\ sync' = [sync EXCEPT ![y].found = @ \ {k}]
          \/ /\ site' = site
             /\ sync' = [sync EXCEPT ![y].found = @ \ {k}, ![y].errs = TRUE]
    BY <1>7 DEF Deletes
  <2>4. k \in Pages /\ k \in Keys /\ k \notin s.local
    BY <1>2 DEF Firsts, Stale, SyncRecords, Pages
  <2>5. calm[y] => dist[k] = 0
    BY <1>2, <2>1, <2>4 DEF LooksRight, Meets
  <2>6. CASE /\ site' = [site EXCEPT ![k] = 0]
             /\ sync' = [sync EXCEPT ![y].found = @ \ {k}]
    <3> DEFINE c == [s EXCEPT !.found = @ \ {k}]
    <3>1. /\ c \in SyncRecords /\ c.at = s.at /\ c.local = s.local /\ c.found = s.found \ {k}
          /\ c.waiting = s.waiting /\ c.putting = s.putting /\ c.errs = s.errs
      BY <1>2 DEF SyncRecords
    <3>2. sync' = [sync EXCEPT ![y] = c]
      BY <2>6
    <3> HIDE DEF c
    <3>3. \A j \in Keys : site'[j] = IF j = k THEN 0 ELSE site[j]
      BY <2>6 DEF SInv, SiteTypes
    <3>4. calm[y] => Improves
      BY <2>5, <3>3 DEF Improves
    <3>5. Quiet(y) /\ ~ c.errs => CleanedUp(c, site')
      BY <1>2, <2>1, <3>1, <3>3 DEF Mirrors, CleanedUp, Pages
    <3> QED BY <1>3, <2>1, <2>2, <3>1, <3>2, <3>4, <3>5 DEF siteHistory
  <2>7. CASE /\ site' = site
             /\ sync' = [sync EXCEPT ![y].found = @ \ {k}, ![y].errs = TRUE]
    <3> DEFINE c == [s EXCEPT !.found = @ \ {k}, !.errs = TRUE]
    <3>1. /\ c \in SyncRecords /\ c.at = s.at /\ c.local = s.local
          /\ c.waiting = s.waiting /\ c.putting = s.putting /\ c.errs
      BY <1>2 DEF SyncRecords
    <3>2. sync' = [sync EXCEPT ![y] = c] /\ Improves
      BY <2>7 DEF Improves
    <3> HIDE DEF c
    <3> QED BY <1>3, <2>1, <2>2, <3>1, <3>2 DEF siteHistory
  <2> QED BY <2>3, <2>6, <2>7
<1>8. CASE Returns(y)
  <2> DEFINE c == [s EXCEPT !.at = "answered"]
  <2>1. /\ s.at = "deleting" /\ Stale(y) = {} /\ sync' = [sync EXCEPT ![y] = c]
        /\ UNCHANGED <<dist, builds, site, strays, siteHistory>>
    BY <1>8 DEF Returns, At
  <2>2. s.waiting = {} /\ s.putting = {} /\ Improves
    BY <1>2, <2>1 DEF Resting, Improves
  <2>3. /\ c \in SyncRecords /\ c.at = "answered" /\ c.local = s.local
        /\ c.waiting = s.waiting /\ c.putting = s.putting /\ c.errs = s.errs
    BY <1>2 DEF SyncRecords, Places
  <2> HIDE DEF c
  <2>4. Quiet(y) /\ ~ c.errs => CleanedUp(c, site')
    <3>1. SUFFICES ASSUME Quiet(y), ~ c.errs, NEW k \in Pages, dist[k] = 0 PROVE site[k] = 0
      BY <2>1 DEF CleanedUp
    <3>2. site[k] = 0 \/ k \in s.found
      BY <1>2, <2>1, <2>3, <3>1 DEF Mirrors, CleanedUp
    <3>3. k \notin s.local
      BY <1>2, <3>1 DEF LooksRight
    <3> QED BY <2>1, <3>2, <3>3 DEF Stale, Pages
  <2> QED BY <1>3, <2>1, <2>2, <2>3, <2>4 DEF siteHistory
<1> QED BY <1>5, <1>6, <1>7, <1>8

-----------------------------------------------------------------------------
(* What happens around the syncs *)

\* Whoever has looked at dist/ is not calm any more.
LEMMA BuildMirrors ==
  ASSUME SInv, MInv, NEW k \in Keys, Builds(k) PROVE MInv'
<1>1. /\ \A z \in Syncs : calm'[z] = (calm[z] /\ sync[z].at = "idle")
      /\ UNCHANGED <<site, strays, sync, rivals>>
  BY DEF Builds
<1>2. \A j \in Pages : 0 < j
  BY LastKeyIsNat DEF Pages, Keys
<1>3. HistoryTypes' /\ AllRest' /\ RivalsAreKnown'
  <2>1. HistoryTypes'
    BY <1>1 DEF Builds, MInv, HistoryTypes
  <2> QED BY <1>1, <2>1 DEF MInv, AllRest, Resting, RivalsAreKnown
<1>4. AllLookRight'
  <2>1. SUFFICES ASSUME NEW y \in Syncs, calm'[y] PROVE LooksRight(sync[y])'
    BY <1>1 DEF AllLookRight
  <2>2. /\ sync[y].at = "idle" /\ sync[y].cursor = 0
        /\ sync[y].local = {} /\ sync[y].putting = {}
    BY <1>1, <2>1 DEF MInv, AllRest, Resting
  <2> QED BY <1>1, <1>2, <2>2 DEF LooksRight, Meets
<1>5. QuietSyncsMirror'
  BY <1>1 DEF QuietSyncsMirror, Quiet
<1> QED BY <1>3, <1>4, <1>5 DEF MInv

\* Whoever is still calm when a late request has arrived finds its page better.
LEMMA StrayMirrors ==
  ASSUME SInv, MInv, NEW k \in Keys, NEW v \in Versions, StrayArrives(k, v) PROVE MInv'
<1>1. /\ \A z \in Syncs : calm'[z] = (calm[z] /\ (v = dist[k] \/ sync[z].at = "idle"))
      /\ site' = [site EXCEPT ![k] = v] /\ UNCHANGED <<dist, sync, rivals>>
  BY DEF StrayArrives
<1>2. HistoryTypes' /\ AllRest' /\ RivalsAreKnown'
  <2>1. HistoryTypes'
    BY <1>1 DEF StrayArrives, MInv, HistoryTypes
  <2> QED BY <1>1, <2>1 DEF MInv, AllRest, Resting, RivalsAreKnown
<1>3. AllLookRight'
  BY <1>1 DEF MInv, AllLookRight, LooksRight, Meets
<1>4. QuietSyncsMirror'
  <2>1. SUFFICES ASSUME NEW y \in Syncs, sync[y].at # "idle", Quiet(y)', ~ sync[y].errs
                 PROVE  Mirrors(sync[y], site')
    BY <1>1 DEF QuietSyncsMirror, Mirrors, Uploaded, CleanedUp
  <2>2. Quiet(y) /\ v = dist[k]
    BY <1>1, <2>1 DEF Quiet, MInv, HistoryTypes
  <2>3. Improves
    BY <1>1, <2>2 DEF Improves, SInv, SiteTypes
  <2>4. sync[y] \in SyncRecords /\ Mirrors(sync[y], site)
    BY <2>1, <2>2 DEF SInv, SiteTypes, MInv, QuietSyncsMirror
  <2> QED BY <2>3, <2>4, ImprovingKeeps
<1> QED BY <1>2, <1>3, <1>4 DEF MInv

LEMMA StepMirrors == SInv /\ MInv /\ [SiteNext]_siteVars => MInv'
<1> SUFFICES ASSUME SInv, MInv, [SiteNext]_siteVars PROVE MInv'
  OBVIOUS
<1>1. ASSUME NEW k \in Keys, Builds(k) \/ \E v \in Versions : StrayArrives(k, v) PROVE MInv'
  BY <1>1, BuildMirrors, StrayMirrors
<1>2. ASSUME NEW y \in Syncs, Begins(y) \/ SyncStep(y) \/ UploadStep(y) PROVE MInv'
  BY <1>2, BeginMirrors, WalkMirrors, CleanUpMirrors, UploadMirrors DEF SyncStep
<1>3. CASE UNCHANGED siteVars \/ \E y \in Syncs : DeleteLost(y)
  BY <1>3 DEF DeleteLost, siteVars, siteHistory, MInv, HistoryTypes, AllRest, Resting, AllLookRight, LooksRight,
     Meets, RivalsAreKnown, QuietSyncsMirror, Quiet, Mirrors, Uploaded, CleanedUp
<1> QED BY <1>1, <1>2, <1>3 DEF SiteNext

\* When all is done, what was met is uploaded, and what was not is deleted.
LEMMA MirrorsFollow == SInv /\ MInv => CleanSyncMirrors
<1> SUFFICES ASSUME SInv, MInv, NEW y \in Syncs, At(y, "answered"), ~ sync[y].errs, Quiet(y)
             PROVE  \A k \in Pages : site[k] = dist[k]
  BY DEF CleanSyncMirrors, Quiet, Pages
<1>1. /\ sync[y].at = "answered" /\ Resting(sync[y]) /\ LooksRight(sync[y])
      /\ Mirrors(sync[y], site)
  BY ActiveMeans DEF At
<1>2. sync[y].waiting = {} /\ sync[y].putting = {}
  BY <1>1 DEF Resting
<1>3. \A k \in sync[y].local : site[k] = dist[k]
  BY <1>1, <1>2 DEF Mirrors, Uploaded
<1>4. ASSUME NEW k \in Pages, dist[k] = 0 PROVE site[k] = 0
  BY <1>1, <1>4 DEF Mirrors, CleanedUp
<1>5. ASSUME NEW k \in Pages, dist[k] # 0 PROVE site[k] = dist[k]
  BY <1>1, <1>3, <1>5 DEF LooksRight, Meets
<1> QED BY <1>4, <1>5

(***************************************************************************)
(* A sync that reports no error has made the site what dist/ is, however   *)
(* many others there are, if none of them saw dist/ change and no late     *)
(* request came in between.                                                *)
(***************************************************************************)
THEOREM CleanSyncsMirror == SiteSpec => []CleanSyncMirrors
<1>1. SiteSpec => []MInv
  BY InitMirrors, StepMirrors, SiteInvariance, PTL DEF SiteSpec
<1> QED BY <1>1, SiteInvariance, MirrorsFollow, PTL

-----------------------------------------------------------------------------
(* DistSync: types and slots *)

SlotRecords ==
  [at : Places, cursor : {0} \cup Keys, local : SUBSET Keys, waiting : SUBSET Keys,
   putting : SUBSET (Keys \X Versions), slots : 0 .. MaxSlots, errs : BOOLEAN,
   found : SUBSET Keys]

\* An upload has a slot as long as it puts, and none while it waits for one; before
\* the walk has ended there is none.
SlotsAreTaken(c) ==
  /\ IsFiniteSet(c.putting) /\ c.slots = Cardinality(c.putting)
  /\ c.at \in {"idle", "walking"} => c.waiting = {} /\ c.putting = {}
  /\ \A p \in c.putting : p[1] \notin c.waiting

SlotInv == SiteTypeOK /\ \A y \in Syncs : SlotsAreTaken(sync[y])

LEMMA SiteInitHasSlots == SiteInit => SlotInv
<1> SUFFICES ASSUME SiteInit PROVE SlotInv
  OBVIOUS
<1>1. 0 \in Versions /\ 1 \in Versions /\ 0 \in 0 .. MaxBuilds /\ 0 \in 0 .. MaxSlots
  BY MaxBuildsIsNat, SlotsArePositive DEF Versions
<1>2. dist \in [Keys -> Versions] /\ site \in [Keys -> Versions]
  BY <1>1 DEF SiteInit, FirstVersion
<1>3. \A y \in Syncs : SlotsAreTaken(sync[y])
  BY FS_EmptySet DEF SiteInit, SlotsAreTaken
<1>4. \A y \in Syncs : sync[y].slots = Cardinality(sync[y].putting)
  BY <1>3 DEF SlotsAreTaken
<1> QED BY <1>1, <1>2, <1>3, <1>4 DEF SiteInit, SlotInv, SiteTypeOK

\* A step that changes one sync.
LEMMA OneSyncHasSlots ==
  ASSUME SlotInv, NEW y \in Syncs, NEW c \in SlotRecords, sync' = [sync EXCEPT ![y] = c],
         SlotsAreTaken(c), UNCHANGED <<dist, builds, calm, steady>>,
         rivals' \in [Syncs -> SUBSET Syncs],
         site' \in [Keys -> Versions], strays' \subseteq Keys \X Versions
  PROVE  SlotInv'
<1>1. sync \in [Syncs -> SlotRecords]
  BY DEF SlotInv, SiteTypeOK, SlotRecords, Places
<1>2. sync' \in [Syncs -> SlotRecords] /\ \A z \in Syncs : sync'[z] = IF z = y THEN c ELSE sync[z]
  BY <1>1
<1>3. \A z \in Syncs : SlotsAreTaken(sync'[z])
  BY <1>2 DEF SlotInv
<1>4. \A z \in Syncs : sync'[z].slots = Cardinality(sync'[z].putting)
  BY <1>3 DEF SlotsAreTaken
<1>5. SiteTypeOK'
  BY <1>2, <1>4 DEF SlotInv, SiteTypeOK, SlotRecords, Places
<1> QED BY <1>3, <1>5 DEF SlotInv

LEMMA FailsHasSlots ==
  ASSUME SlotInv, NEW y \in Syncs, Fails(y), UNCHANGED <<dist, builds, site, strays, siteHistory>>
  PROVE  SlotInv'
<1> DEFINE c == [sync[y] EXCEPT !.at = "answered", !.errs = TRUE]
<1>1. sync[y] \in SlotRecords /\ SlotsAreTaken(sync[y])
  BY DEF SlotInv, SiteTypeOK, SlotRecords, Places
<1>2. /\ c \in SlotRecords /\ c.at = "answered" /\ c.putting = sync[y].putting
      /\ c.slots = sync[y].slots /\ c.waiting = sync[y].waiting
  BY <1>1 DEF SlotRecords, Places
<1>3. sync' = [sync EXCEPT ![y] = c]
  BY DEF Fails
<1> HIDE DEF c
<1>4. SlotsAreTaken(c)
  BY <1>1, <1>2 DEF SlotsAreTaken
<1> QED BY <1>2, <1>3, <1>4, OneSyncHasSlots DEF SlotInv, SiteTypeOK, siteHistory

LEMMA WalkHasSlots ==
  ASSUME SlotInv, NEW y \in Syncs, Begins(y) \/ Walks(y) PROVE SlotInv'
<1> DEFINE s == sync[y]
<1>1. s \in SlotRecords /\ SlotsAreTaken(s)
  BY DEF SlotInv, SiteTypeOK, SlotRecords, Places
<1>2. CASE Begins(y)
  <2> DEFINE c == [s EXCEPT !.at = "walking"]
  <2>1. /\ c \in SlotRecords /\ c.at = "walking" /\ c.putting = s.putting
        /\ c.slots = s.slots /\ c.waiting = s.waiting
    BY <1>1 DEF SlotRecords, Places
  <2>2. s.at = "idle" /\ sync' = [sync EXCEPT ![y] = c]
        /\ UNCHANGED <<dist, builds, site, strays, calm, steady>>
    BY <1>2 DEF Begins, At
  <2>3. rivals' \in [Syncs -> SUBSET Syncs]
    BY <1>2 DEF Begins, UnderWay, SlotInv, SiteTypeOK
  <2> HIDE DEF c
  <2>4. SlotsAreTaken(c)
    BY <1>1, <2>1, <2>2 DEF SlotsAreTaken
  <2> QED BY <2>1, <2>2, <2>3, <2>4, OneSyncHasSlots DEF SlotInv, SiteTypeOK
<1>3. CASE Walks(y)
  <2> DEFINE k == s.cursor + 1
             seen == IF dist[k] # 0 /\ k \notin Uploads THEN {k} ELSE {}
  <2>1. s.at = "walking" /\ UNCHANGED <<dist, builds, site, strays, siteHistory>>
    BY <1>3 DEF Walks, At
  <2>2. s.cursor \in Nat /\ s.waiting = {} /\ s.putting = {}
    BY <1>1, <2>1, LastKeyIsNat DEF SlotRecords, SlotsAreTaken, Keys
  <2>3. CASE Fails(y)
    BY <2>1, <2>3, FailsHasSlots
  <2>4. ASSUME k <= LastKey PROVE seen \subseteq Keys /\ k \in Keys
    BY <2>2, <2>4, LastKeyIsNat DEF Keys
  <2>5. ASSUME k < LastKey, sync' = [sync EXCEPT ![y].cursor = k, ![y].local = @ \cup seen]
        PROVE  SlotInv'
    <3> DEFINE c == [s EXCEPT !.cursor = k, !.local = @ \cup seen]
    <3>0. seen \subseteq Keys /\ k \in Keys
      BY <2>2, <2>4, <2>5, LastKeyIsNat
    <3> HIDE DEF seen, k
    <3>1. /\ c \in SlotRecords /\ c.putting = s.putting
          /\ c.slots = s.slots /\ c.waiting = s.waiting
      BY <1>1, <3>0 DEF SlotRecords
    <3>2. sync' = [sync EXCEPT ![y] = c]
      BY <2>5
    <3> HIDE DEF c
    <3>3. SlotsAreTaken(c)
      BY <1>1, <2>2, <3>1 DEF SlotsAreTaken
    <3> QED BY <2>1, <3>1, <3>2, <3>3, OneSyncHasSlots DEF SlotInv, SiteTypeOK, siteHistory
  <2>6. ASSUME k = LastKey, sync' = [sync EXCEPT ![y].at = "uploading",
                                                 ![y].local = @ \cup seen,
                                                 ![y].waiting = s.local \cup seen]
        PROVE  SlotInv'
    <3> DEFINE c == [s EXCEPT !.at = "uploading", !.local = @ \cup seen,
                              !.waiting = s.local \cup seen]
    <3>0. seen \subseteq Keys
      BY <2>2, <2>4, <2>6, LastKeyIsNat
    <3> HIDE DEF seen, k
    <3>1. /\ c \in SlotRecords /\ c.putting = s.putting /\ c.at = "uploading"
          /\ c.slots = s.slots
      BY <1>1, <3>0 DEF SlotRecords, Places
    <3>2. sync' = [sync EXCEPT ![y] = c]
      BY <2>6
    <3> HIDE DEF c
    <3>3. SlotsAreTaken(c)
      BY <1>1, <2>2, <3>1 DEF SlotsAreTaken
    <3> QED BY <2>1, <3>1, <3>2, <3>3, OneSyncHasSlots DEF SlotInv, SiteTypeOK, siteHistory
  <2> QED BY <1>3, <2>3, <2>5, <2>6 DEF Walks
<1> QED BY <1>2, <1>3

\* A request given up is typed.
LEMMA GivenUpIsTyped ==
  ASSUME SiteTypeOK, NEW k \in Keys, NEW v \in Versions, GivesUp(k, v)
  PROVE  strays' \subseteq Keys \X Versions
BY DEF SiteTypeOK, GivesUp

\* A slot is taken by the upload that gets it, and given back by the one that ends.
LEMMA UploadHasSlots ==
  ASSUME SlotInv, NEW y \in Syncs, UploadStep(y) PROVE SlotInv'
<1> DEFINE s == sync[y]
<1>1. s \in SlotRecords /\ SlotsAreTaken(s)
  BY DEF SlotInv, SiteTypeOK, SlotRecords, Places
<1>2. /\ s.putting \subseteq Keys \X Versions /\ IsFiniteSet(s.putting)
      /\ s.slots = Cardinality(s.putting) /\ s.slots \in Nat /\ s.slots <= MaxSlots
      /\ s.waiting \subseteq Keys
  BY <1>1, SlotsArePositive DEF SlotRecords, SlotsAreTaken
<1>3. ASSUME NEW k \in Keys, Opens(y, k) PROVE SlotInv'
  <2>1. /\ k \in s.waiting /\ s.slots < MaxSlots /\ UNCHANGED <<dist, builds, site, strays, siteHistory>>
        /\ s.at \notin {"idle", "walking"}
    BY <1>1, <1>3 DEF Opens, SlotsAreTaken
  <2>2. CASE dist[k] = 0
    <3> DEFINE c == [s EXCEPT !.waiting = @ \ {k}, !.errs = TRUE]
    <3>1. /\ c \in SlotRecords /\ c.putting = s.putting /\ c.slots = s.slots /\ c.at = s.at
          /\ c.waiting \subseteq s.waiting
      BY <1>1 DEF SlotRecords
    <3>2. sync' = [sync EXCEPT ![y] = c]
      BY <1>3, <2>2 DEF Opens
    <3> HIDE DEF c
    <3>3. SlotsAreTaken(c)
      BY <1>1, <2>1, <3>1 DEF SlotsAreTaken
    <3> QED BY <2>1, <3>1, <3>2, <3>3, OneSyncHasSlots DEF SlotInv, SiteTypeOK, siteHistory
  <2>3. CASE dist[k] # 0
    <3> DEFINE p == <<k, dist[k]>>
               c == [s EXCEPT !.waiting = @ \ {k}, !.slots = @ + 1, !.putting = @ \cup {p}]
    <3>1. p \in Keys \X Versions /\ p[1] = k
      BY DEF SlotInv, SiteTypeOK
    <3>2. sync' = [sync EXCEPT ![y] = c]
      BY <1>3, <2>3 DEF Opens
    <3> HIDE DEF p
    <3>3. p \notin s.putting
      BY <1>1, <2>1, <3>1 DEF SlotsAreTaken
    <3>4. s.slots + 1 \in 0 .. MaxSlots
      BY <1>2, <2>1, SlotsArePositive
    <3>5. /\ c \in SlotRecords /\ c.putting = s.putting \cup {p} /\ c.slots = s.slots + 1
          /\ c.at = s.at /\ c.waiting = s.waiting \ {k}
      BY <1>1, <3>1, <3>4 DEF SlotRecords
    <3> HIDE DEF c
    <3>6. IsFiniteSet(c.putting) /\ Cardinality(c.putting) = s.slots + 1
      BY <1>2, <3>3, <3>5, FS_AddElement
    <3>7. SlotsAreTaken(c)
      BY <1>1, <2>1, <3>1, <3>5, <3>6 DEF SlotsAreTaken
    <3> QED BY <2>1, <3>2, <3>5, <3>7, OneSyncHasSlots DEF SlotInv, SiteTypeOK, siteHistory
  <2> QED BY <2>2, <2>3
<1>4. ASSUME NEW k \in Keys, NEW v \in Versions, <<k, v>> \in s.putting,
             NEW e \in BOOLEAN,
             sync' = [sync EXCEPT ![y] = [s EXCEPT !.putting = @ \ {<<k, v>>}, !.slots = @ - 1,
                                                   !.errs = e]],
             UNCHANGED <<dist, builds, siteHistory>>,
             site' \in [Keys -> Versions], strays' \subseteq Keys \X Versions
      PROVE  SlotInv'
  <2> DEFINE p == <<k, v>>
             c == [s EXCEPT !.putting = @ \ {p}, !.slots = @ - 1, !.errs = e]
  <2>1. p \in s.putting /\ sync' = [sync EXCEPT ![y] = c]
    BY <1>4
  <2> HIDE DEF p
  <2>2. /\ IsFiniteSet(s.putting \ {p}) /\ Cardinality(s.putting \ {p}) = s.slots - 1
        /\ Cardinality(s.putting \ {p}) \in Nat
    BY <1>2, <2>1, FS_RemoveElement, FS_CardinalityType
  <2>3. s.slots - 1 \in 0 .. MaxSlots
    BY <1>2, <2>2, SlotsArePositive
  <2>4. /\ c \in SlotRecords /\ c.putting = s.putting \ {p} /\ c.slots = s.slots - 1
        /\ c.at = s.at /\ c.waiting = s.waiting
    BY <1>1, <2>3 DEF SlotRecords
  <2> HIDE DEF c
  <2>5. SlotsAreTaken(c)
    BY <1>1, <2>1, <2>2, <2>4 DEF SlotsAreTaken
  <2>6. UNCHANGED <<dist, builds, calm, steady, rivals>>
    BY <1>4 DEF siteHistory
  <2> QED BY <1>4, <2>1, <2>4, <2>5, <2>6, OneSyncHasSlots DEF SlotInv, SiteTypeOK
<1>5. ASSUME NEW k \in Keys, NEW v \in Versions, Puts(y, k, v) PROVE SlotInv'
  <2>1. /\ <<k, v>> \in s.putting /\ UNCHANGED <<dist, builds, siteHistory, strays>>
        /\ site' = [site EXCEPT ![k] = v]
    BY <1>5 DEF Puts
  <2>2. site' \in [Keys -> Versions] /\ strays' \subseteq Keys \X Versions
    BY <2>1 DEF SlotInv, SiteTypeOK
  <2>3. s.errs \in BOOLEAN
    BY <1>1 DEF SlotRecords
  <2>4. sync' = [sync EXCEPT ![y] = [s EXCEPT !.putting = @ \ {<<k, v>>}, !.slots = @ - 1,
                                              !.errs = s.errs]]
    BY <1>1, <1>5 DEF Puts, SlotRecords
  <2> HIDE DEF s
  <2> QED BY <1>4, <2>1, <2>2, <2>3, <2>4
<1>6. ASSUME NEW k \in Keys, NEW v \in Versions, PutLost(y, k, v) PROVE SlotInv'
  <2>1. /\ <<k, v>> \in s.putting /\ UNCHANGED <<dist, builds, siteHistory, site>>
        /\ GivesUp(k, v)
    BY <1>6 DEF PutLost
  <2>2. site' \in [Keys -> Versions] /\ strays' \subseteq Keys \X Versions
    BY <2>1, GivenUpIsTyped DEF SlotInv, SiteTypeOK
  <2>3. CASE UNCHANGED sync
    BY <2>1, <2>2, <2>3 DEF SlotInv, SiteTypeOK, siteHistory
  <2>4. CASE sync' = [sync EXCEPT ![y].putting = @ \ {<<k, v>>}, ![y].slots = @ - 1,
                                  ![y].errs = TRUE]
    <3>1. sync' = [sync EXCEPT ![y] = [s EXCEPT !.putting = @ \ {<<k, v>>}, !.slots = @ - 1,
                                                !.errs = TRUE]]
      BY <2>4
    <3> HIDE DEF s
    <3> QED BY <1>4, <2>1, <2>2, <3>1
  <2> QED BY <1>6, <2>3, <2>4 DEF PutLost
<1> QED BY <1>3, <1>5, <1>6 DEF UploadStep

LEMMA CleanUpHasSlots ==
  ASSUME SlotInv, NEW y \in Syncs, AwaitsUploads(y) \/ Lists(y) \/ Deletes(y) \/ Returns(y)
  PROVE  SlotInv'
<1> DEFINE s == sync[y]
<1>1. s \in SlotRecords /\ SlotsAreTaken(s)
  BY DEF SlotInv, SiteTypeOK, SlotRecords, Places
<1>2. ASSUME NEW c \in SlotRecords, sync' = [sync EXCEPT ![y] = c],
             c.putting = s.putting, c.slots = s.slots, c.waiting = s.waiting,
             c.at \notin {"idle", "walking"},
             UNCHANGED <<dist, builds, siteHistory>>,
             site' \in [Keys -> Versions], strays' \subseteq Keys \X Versions
      PROVE  SlotInv'
  <2>1. SlotsAreTaken(c)
    BY <1>1, <1>2 DEF SlotsAreTaken
  <2> QED BY <1>2, <2>1, OneSyncHasSlots DEF SlotInv, SiteTypeOK, siteHistory
<1>3. site \in [Keys -> Versions] /\ strays \subseteq Keys \X Versions
  BY DEF SlotInv, SiteTypeOK
<1>4. CASE AwaitsUploads(y)
  <2> DEFINE c == [s EXCEPT !.at = "listing", !.cursor = 0]
  <2>1. /\ c \in SlotRecords /\ c.putting = s.putting /\ c.slots = s.slots
        /\ c.waiting = s.waiting /\ c.at = "listing"
    BY <1>1 DEF SlotRecords, Places
  <2>2. sync' = [sync EXCEPT ![y] = c] /\ UNCHANGED <<dist, builds, site, strays, siteHistory>>
    BY <1>4 DEF AwaitsUploads
  <2> HIDE DEF c
  <2> QED BY <1>2, <1>3, <2>1, <2>2
<1>5. CASE Lists(y)
  <2>1. s.at = "listing" /\ UNCHANGED <<dist, builds, site, strays, siteHistory>>
    BY <1>5 DEF Lists, At
  <2>2. CASE Fails(y)
    BY <2>1, <2>2, FailsHasSlots
  <2>3. CASE sync' = [sync EXCEPT ![y].at = "deleting"]
    <3> DEFINE c == [s EXCEPT !.at = "deleting"]
    <3>1. /\ c \in SlotRecords /\ c.putting = s.putting /\ c.slots = s.slots
          /\ c.waiting = s.waiting /\ c.at = "deleting"
      BY <1>1 DEF SlotRecords, Places
    <3>2. sync' = [sync EXCEPT ![y] = c]
      BY <2>3
    <3> HIDE DEF c
    <3> QED BY <1>2, <1>3, <2>1, <3>1, <3>2
  <2>4. ASSUME NEW k \in Keys, NEW to \in {"deleting", "listing"},
               sync' = [sync EXCEPT ![y].found = @ \cup {k}, ![y].cursor = k, ![y].at = to]
        PROVE  SlotInv'
    <3> DEFINE c == [s EXCEPT !.found = @ \cup {k}, !.cursor = k, !.at = to]
    <3>1. /\ c \in SlotRecords /\ c.putting = s.putting /\ c.slots = s.slots
          /\ c.waiting = s.waiting /\ c.at = to
      BY <1>1 DEF SlotRecords, Places
    <3>2. sync' = [sync EXCEPT ![y] = c]
      BY <2>4
    <3> HIDE DEF c
    <3> QED BY <1>2, <1>3, <2>1, <3>1, <3>2
  <2>5. Firsts(Rest(y)) \subseteq Keys
    BY DEF Firsts, Rest
  <2> QED BY <1>5, <2>2, <2>3, <2>4, <2>5 DEF Lists
<1>6. CASE Deletes(y)
  <2>1. s.at = "deleting" /\ UNCHANGED <<dist, builds, siteHistory>>
    BY <1>6 DEF Deletes, At
  <2>2. PICK k \in Firsts(Stale(y)) :
          \/ /\ site' = [site EXCEPT ![k] = 0]
             /\ sync' = [sync EXCEPT ![y].found = @ \ {k}]
             /\ UNCHANGED strays
          \/ /\ GivesUp(k, 0)
             /\ sync' = [sync EXCEPT ![y].found = @ \ {k}, ![y].errs = TRUE]
             /\ UNCHANGED site
    BY <1>6 DEF Deletes
  <2>3. k \in Keys /\ 0 \in Versions
    BY <1>1, MaxBuildsIsNat DEF Firsts, Stale, SlotRecords, Versions
  <2>4. site' \in [Keys -> Versions] /\ strays' \subseteq Keys \X Versions
    BY <1>3, <2>2, <2>3, GivenUpIsTyped DEF SlotInv
  <2>5. ASSUME NEW e \in BOOLEAN,
               sync' = [sync EXCEPT ![y] = [s EXCEPT !.found = @ \ {k}, !.errs = e]]
        PROVE  SlotInv'
    <3> DEFINE c == [s EXCEPT !.found = @ \ {k}, !.errs = e]
    <3>1. /\ c \in SlotRecords /\ c.putting = s.putting /\ c.slots = s.slots
          /\ c.waiting = s.waiting /\ c.at = s.at
      BY <1>1 DEF SlotRecords, Places
    <3>2. sync' = [sync EXCEPT ![y] = c]
      BY <2>5
    <3> HIDE DEF c
    <3> QED BY <1>2, <2>1, <2>4, <3>1, <3>2
  <2>6. CASE sync' = [sync EXCEPT ![y].found = @ \ {k}]
    <3>1. s.errs \in BOOLEAN /\ sync' = [sync EXCEPT ![y] = [s EXCEPT !.found = @ \ {k}, !.errs = s.errs]]
      BY <1>1, <2>6 DEF SlotRecords
    <3> QED BY <2>5, <3>1
  <2>7. CASE sync' = [sync EXCEPT ![y].found = @ \ {k}, ![y].errs = TRUE]
    BY <2>5, <2>7
  <2> QED BY <2>2, <2>6, <2>7
<1>7. CASE Returns(y)
  <2> DEFINE c == [s EXCEPT !.at = "answered"]
  <2>1. /\ c \in SlotRecords /\ c.putting = s.putting /\ c.slots = s.slots
        /\ c.waiting = s.waiting /\ c.at = "answered"
    BY <1>1 DEF SlotRecords, Places
  <2>2. sync' = [sync EXCEPT ![y] = c] /\ UNCHANGED <<dist, builds, site, strays, siteHistory>>
    BY <1>7 DEF Returns
  <2> HIDE DEF c
  <2> QED BY <1>2, <1>3, <2>1, <2>2
<1> QED BY <1>4, <1>5, <1>6, <1>7

LEMMA DeleteLostHasSlots ==
  ASSUME SlotInv, NEW y \in Syncs, DeleteLost(y) PROVE SlotInv'
<1>1. PICK k \in Stale(y) : GivesUp(k, 0)
  BY DEF DeleteLost, Firsts
<1>2. k \in Keys /\ 0 \in Versions
  BY MaxBuildsIsNat DEF SlotInv, SiteTypeOK, Stale, Versions
<1>3. strays' \subseteq Keys \X Versions
  BY <1>1, <1>2, GivenUpIsTyped DEF SlotInv
<1> QED BY <1>3 DEF DeleteLost, SlotInv, SiteTypeOK, siteHistory

LEMMA SiteStepHasSlots == SlotInv /\ [SiteNext]_siteVars => SlotInv'
<1> SUFFICES ASSUME SlotInv, [SiteNext]_siteVars PROVE SlotInv'
  OBVIOUS
<1>1. ASSUME NEW k \in Keys, Builds(k) PROVE SlotInv'
  <2>1. PICK v \in {0, builds + 2} : dist' = [dist EXCEPT ![k] = v]
    BY <1>1 DEF Builds
  <2>2. builds < MaxBuilds /\ builds' = builds + 1 /\ UNCHANGED <<site, strays, sync, rivals>>
    BY <1>1 DEF Builds
  <2>3. builds \in 0 .. MaxBuilds
    BY DEF SlotInv, SiteTypeOK
  <2>4. v \in Versions /\ builds' \in 0 .. MaxBuilds
    BY <2>2, <2>3, MaxBuildsIsNat DEF Versions
  <2>5. dist' \in [Keys -> Versions]
    BY <2>1, <2>4 DEF SlotInv, SiteTypeOK
  <2>6. calm' \in [Syncs -> BOOLEAN] /\ steady' \subseteq Keys
    BY <1>1 DEF Builds, SlotInv, SiteTypeOK
  <2> QED BY <2>2, <2>4, <2>5, <2>6 DEF SlotInv, SiteTypeOK
<1>2. ASSUME NEW k \in Keys, NEW v \in Versions, StrayArrives(k, v) PROVE SlotInv'
  <2>1. site' \in [Keys -> Versions] /\ strays' \subseteq Keys \X Versions /\ calm' \in [Syncs -> BOOLEAN]
    BY <1>2 DEF StrayArrives, SlotInv, SiteTypeOK
  <2> QED BY <1>2, <2>1 DEF StrayArrives, SlotInv, SiteTypeOK
<1>3. ASSUME NEW y \in Syncs, Begins(y) \/ SyncStep(y) \/ UploadStep(y) PROVE SlotInv'
  BY <1>3, WalkHasSlots, UploadHasSlots, CleanUpHasSlots DEF SyncStep
<1>4. CASE UNCHANGED siteVars
  BY <1>4 DEF siteVars, siteHistory, SlotInv, SiteTypeOK
<1> QED BY <1>1, <1>2, <1>3, <1>4, DeleteLostHasSlots DEF SiteNext

\* Type correctness: no more uploads at a time than there are slots, and the slots
\* taken are those of the uploads in hand, whatever files are gone and puts lost.
THEOREM SlotsAreThoseOfUploads == SiteSpec => []SiteTypeOK
<1>1. SlotInv => SiteTypeOK
  BY DEF SlotInv
<1> QED BY <1>1, SiteInitHasSlots, SiteStepHasSlots, PTL DEF SiteSpec

-----------------------------------------------------------------------------
(* R2Tools *)

\* Each of the two uses of R2 behaves as its own module says, next to the other.
THEOREM EachIsItself == Spec => AssetSpec /\ SiteSpec
<1>1. Init => AssetInit /\ SiteInit
  BY DEF Init
<1>2. [Next]_r2Vars => [AssetNext]_assetVars /\ [SiteNext]_siteVars
  BY DEF Next, r2Vars
<1> QED BY <1>1, <1>2, PTL DEF Spec, AssetSpec, SiteSpec

\* So types and slots stay in range for both.
THEOREM TypeCorrect == Spec => []TypeOK
<1>1. AssetTypeOK /\ SiteTypeOK => TypeOK
  BY DEF TypeOK
<1> QED BY <1>1, EachIsItself, RequestsAreTyped, SlotsAreThoseOfUploads, PTL

=============================================================================
