-------------------------------- MODULE DistSync --------------------------------
(***************************************************************************)
(* The end of commit_workspace: syncDistToR2 (commit_workspace.go) makes   *)
(* the site's objects in R2 what dist/ holds.  It walks dist/, uploads     *)
(* every file in a goroutine of its own, a few at a time, then lists the   *)
(* objects (listBucketObjects, r2.go) and deletes those that the walk did  *)
(* not meet, except under uploads/.  Builds go on changing dist/, another  *)
(* call may be syncing at the same time, and requests fail.                *)
(*                                                                         *)
(* Files and objects are numbered in the order of their keys.  What one    *)
(* holds is the number of the build that wrote it; 0 is no file.           *)
(***************************************************************************)
EXTENDS Integers, FiniteSets

CONSTANTS Syncs,      \* calls of commit_workspace with sync_dist
          LastKey,    \* files and objects are 1 .. LastKey (a bound)
          Uploads,    \* those under uploads/
          FirstFiles, \* what dist/ may hold at first: sets of keys
          FirstSites, \* and the site
          MaxSlots,   \* uploads at a time
          MaxBuilds,  \* changes to dist/ (a bound)
          MaxStrays   \* requests given up and still on their way (a bound)

Keys == 1 .. LastKey
Versions == 0 .. MaxBuilds + 1

ASSUME LastKeyIsNat == LastKey \in Nat
ASSUME UploadsAreKeys == Uploads \subseteq Keys
ASSUME SlotsArePositive == MaxSlots \in Nat \ {0}
ASSUME MaxBuildsIsNat == MaxBuilds \in Nat

VARIABLES
  dist,      \* the files in dist/
  builds,    \* how often builds have changed one
  site,      \* the objects
  strays,    \* <<key, version>> of requests given up that may still arrive
  sync,      \* the calls of syncDistToR2: where each is, the last key of its walk or
             \* listing, localFiles, uploads waiting for a slot, <<key, version>> of
             \* those being put, slots taken, whether there are errors, objects found
  \* history
  calm,      \* nothing a sync has looked at has changed since it began
  rivals,    \* the syncs under way when it began, and those begun later
  steady     \* files that have been in dist/ all along

siteHistory == <<calm, rivals, steady>>
siteVars == <<dist, builds, site, strays, sync, siteHistory>>

FirstVersion(F) == [k \in Keys |-> IF k \in F THEN 1 ELSE 0]

SiteInit ==
  /\ \E F \in FirstFiles : dist = FirstVersion(F)
  /\ builds = 0
  /\ \E F \in FirstSites : site = FirstVersion(F)
  /\ strays = {}
  /\ sync = [y \in Syncs |-> [at |-> "idle", cursor |-> 0, local |-> {}, waiting |-> {},
                              putting |-> {}, slots |-> 0, errs |-> FALSE, found |-> {}]]
  /\ calm = [y \in Syncs |-> TRUE]
  /\ rivals = [y \in Syncs |-> {}]
  /\ steady = {k \in Keys : dist[k] # 0}

-----------------------------------------------------------------------------
(* Outside the repository: builds, and requests that were given up *)

\* A build writes or removes a file.
Builds(k) ==
  /\ builds < MaxBuilds
  /\ builds' = builds + 1
  /\ \E v \in {0, builds + 2} : dist' = [dist EXCEPT ![k] = v] /\ dist' # dist
  /\ calm' = [y \in Syncs |-> calm[y] /\ sync[y].at = "idle"]
  /\ steady' = IF dist'[k] = 0 THEN steady \ {k} ELSE steady
  /\ UNCHANGED <<site, strays, sync, rivals>>

\* A request that gets no answer is lost, or still on its way.
GivesUp(k, v) ==
  \/ UNCHANGED strays
  \/ Cardinality(strays) < MaxStrays /\ strays' = strays \cup {<<k, v>>}

\* A request given up arrives: the object becomes what that was to make of it.
StrayArrives(k, v) ==
  /\ <<k, v>> \in strays
  /\ strays' = strays \ {<<k, v>>}
  /\ site' = [site EXCEPT ![k] = v]
  /\ calm' = [y \in Syncs |-> calm[y] /\ (v = dist[k] \/ sync[y].at = "idle")]
  /\ UNCHANGED <<dist, builds, sync, rivals, steady>>

-----------------------------------------------------------------------------
(* syncDistToR2 *)

At(y, place) == sync[y].at = place
UnderWay == {y \in Syncs : sync[y].at \notin {"idle", "answered"}}
Fails(y) == sync' = [sync EXCEPT ![y].at = "answered", ![y].errs = TRUE]

Begins(y) ==
  /\ At(y, "idle")
  /\ sync' = [sync EXCEPT ![y].at = "walking"]
  /\ rivals' = [z \in Syncs |-> IF z = y THEN UnderWay
                                ELSE IF At(z, "idle") THEN {} ELSE rivals[z] \cup {y}]
  /\ UNCHANGED <<dist, builds, site, strays, calm, steady>>

\* The walk comes to the next file; those under uploads/ are left out.  At its
\* end every file gets its goroutine.  With an error, or no dist/, that is all.
Walks(y) ==
  LET k == sync[y].cursor + 1
      seen == IF dist[k] # 0 /\ k \notin Uploads THEN {k} ELSE {}
  IN  /\ At(y, "walking")
      /\ \/ Fails(y)
         \/ k < LastKey /\ sync' = [sync EXCEPT ![y].cursor = k, ![y].local = @ \cup seen]
         \/ k = LastKey /\ sync' = [sync EXCEPT ![y].at = "uploading",
                                                ![y].local = @ \cup seen,
                                                ![y].waiting = sync[y].local \cup seen]
      /\ UNCHANGED <<dist, builds, site, strays, siteHistory>>

\* A slip: the slot is not given back if the file cannot be read.
OpensAndKeepsSlot(y, k) ==
  /\ k \in sync[y].waiting /\ sync[y].slots < MaxSlots
  /\ sync' = [sync EXCEPT ![y].waiting = @ \ {k}, ![y].slots = @ + 1,
                          ![y].errs = @ \/ dist[k] = 0,
                          ![y].putting = IF dist[k] = 0 THEN @ ELSE @ \cup {<<k, dist[k]>>}]
  /\ UNCHANGED <<dist, builds, site, strays, siteHistory>>

\* An upload gets its slot and reads its file, which may be gone by now.
Opens(y, k) ==
  /\ k \in sync[y].waiting /\ sync[y].slots < MaxSlots
  /\ sync' = IF dist[k] = 0
             THEN [sync EXCEPT ![y].waiting = @ \ {k}, ![y].errs = TRUE]
             ELSE [sync EXCEPT ![y].waiting = @ \ {k}, ![y].slots = @ + 1,
                               ![y].putting = @ \cup {<<k, dist[k]>>}]
  /\ UNCHANGED <<dist, builds, site, strays, siteHistory>>

Puts(y, k, v) ==
  /\ <<k, v>> \in sync[y].putting
  /\ site' = [site EXCEPT ![k] = v]
  /\ sync' = [sync EXCEPT ![y].putting = @ \ {<<k, v>>}, ![y].slots = @ - 1]
  /\ UNCHANGED <<dist, builds, strays, siteHistory>>

\* A slip: a file whose upload failed counts as gone.
PutLostForgetsFile(y, k, v) ==
  /\ <<k, v>> \in sync[y].putting
  /\ GivesUp(k, v)
  /\ sync' = [sync EXCEPT ![y].putting = @ \ {<<k, v>>}, ![y].slots = @ - 1,
                          ![y].errs = TRUE, ![y].local = @ \ {k}]
  /\ UNCHANGED <<dist, builds, site, siteHistory>>

\* An attempt gets no answer.  The SDK repeats it, or the upload has failed.
PutLost(y, k, v) ==
  /\ <<k, v>> \in sync[y].putting
  /\ GivesUp(k, v)
  /\ \/ UNCHANGED sync
     \/ sync' = [sync EXCEPT ![y].putting = @ \ {<<k, v>>}, ![y].slots = @ - 1,
                             ![y].errs = TRUE]
  /\ UNCHANGED <<dist, builds, site, siteHistory>>

\* wg.Wait.
AwaitsUploads(y) ==
  /\ At(y, "uploading") /\ sync[y].waiting = {} /\ sync[y].putting = {}
  /\ sync' = [sync EXCEPT ![y].at = "listing", ![y].cursor = 0]
  /\ UNCHANGED <<dist, builds, site, strays, siteHistory>>

Firsts(S) == {k \in S : \A j \in S : k <= j}
Rest(y) == {k \in Keys : site[k] # 0 /\ k > sync[y].cursor}

\* A slip: there is no page after the first.
ListsOnePage(y) ==
  /\ At(y, "listing")
  /\ sync' = [sync EXCEPT ![y].at = "deleting", ![y].found = Firsts(Rest(y))]
  /\ UNCHANGED <<dist, builds, site, strays, siteHistory>>

\* The next page, of one object, from where the last one ended; the listing goes
\* on as long as a page says there is more.  With an error nothing is deleted.
Lists(y) ==
  /\ At(y, "listing")
  /\ \/ Fails(y)
     \/ Rest(y) = {} /\ sync' = [sync EXCEPT ![y].at = "deleting"]
     \/ \E k \in Firsts(Rest(y)) :
          sync' = [sync EXCEPT ![y].found = @ \cup {k}, ![y].cursor = k,
                               ![y].at = IF Rest(y) = {k} THEN "deleting" ELSE "listing"]
  /\ UNCHANGED <<dist, builds, site, strays, siteHistory>>

Stale(y) == sync[y].found \ (sync[y].local \cup Uploads)

\* Stale objects are deleted one after the other, whether or not one fails.
Deletes(y) ==
  /\ At(y, "deleting")
  /\ \E k \in Firsts(Stale(y)) :
     \/ /\ site' = [site EXCEPT ![k] = 0]
        /\ sync' = [sync EXCEPT ![y].found = @ \ {k}]
        /\ UNCHANGED strays
     \/ /\ GivesUp(k, 0)
        /\ sync' = [sync EXCEPT ![y].found = @ \ {k}, ![y].errs = TRUE]
        /\ UNCHANGED site
  /\ UNCHANGED <<dist, builds, siteHistory>>

\* An attempt of a deletion gets no answer, and the SDK repeats it.
DeleteLost(y) ==
  /\ At(y, "deleting")
  /\ \E k \in Firsts(Stale(y)) : GivesUp(k, 0)
  /\ UNCHANGED <<dist, builds, site, sync, siteHistory>>

Returns(y) ==
  /\ At(y, "deleting") /\ Stale(y) = {}
  /\ sync' = [sync EXCEPT ![y].at = "answered"]
  /\ UNCHANGED <<dist, builds, site, strays, siteHistory>>

-----------------------------------------------------------------------------
UploadStep(y) == \E k \in Keys : \/ Opens(y, k)
                                 \/ \E v \in Versions : Puts(y, k, v) \/ PutLost(y, k, v)

SyncStep(y) == Walks(y) \/ AwaitsUploads(y) \/ Lists(y) \/ Deletes(y) \/ Returns(y)

SiteNext ==
  \/ \E k \in Keys : Builds(k) \/ \E v \in Versions : StrayArrives(k, v)
  \/ \E y \in Syncs : Begins(y) \/ SyncStep(y) \/ UploadStep(y) \/ DeleteLost(y)

SiteSpec == SiteInit /\ [][SiteNext]_siteVars

(***************************************************************************)
(* The goroutines go on.  A request is answered at last, or its attempts   *)
(* are spent, or the context of the call ends: an upload ends.             *)
(***************************************************************************)
SiteFairness ==
  \A y \in Syncs :
    /\ WF_siteVars(SyncStep(y))
    /\ \A k \in Keys : WF_siteVars(Opens(y, k))
    /\ \A k \in Keys, v \in Versions :
         WF_siteVars((Puts(y, k, v) \/ PutLost(y, k, v)) /\ sync' # sync)

-----------------------------------------------------------------------------
(***************************************************************************)
(* Type invariant.  The slots taken are those of the uploads in hand.      *)
(***************************************************************************)
SiteTypeOK ==
  /\ dist \in [Keys -> Versions] /\ site \in [Keys -> Versions]
  /\ builds \in 0 .. MaxBuilds
  /\ strays \subseteq Keys \X Versions
  /\ sync \in [Syncs -> [at : {"idle", "walking", "uploading", "listing", "deleting", "answered"},
                         cursor : {0} \cup Keys, local : SUBSET Keys, waiting : SUBSET Keys,
                         putting : SUBSET (Keys \X Versions), slots : 0 .. MaxSlots,
                         errs : BOOLEAN, found : SUBSET Keys]]
  /\ \A y \in Syncs : sync[y].slots = Cardinality(sync[y].putting)
  /\ calm \in [Syncs -> BOOLEAN]
  /\ rivals \in [Syncs -> SUBSET Syncs]
  /\ steady \subseteq Keys

(***************************************************************************)
(* A sync that reports no error has made the site what dist/ is, and more  *)
(* than one sync at once does no harm, if they have seen the same dist/.   *)
(* Not so if dist/ has changed since one of them began, or a request of    *)
(* an earlier sync arrived late.                                           *)
(***************************************************************************)
CleanSyncMirrors ==
  \A y \in Syncs :
    At(y, "answered") /\ ~ sync[y].errs /\ (\A z \in rivals[y] \cup {y} : calm[z])
      => \A k \in Keys \ Uploads : site[k] = dist[k]

(***************************************************************************)
(* Partial failure takes no page down: what was on the site and is in      *)
(* dist/ all along stays on the site, whichever uploads, deletions and     *)
(* listings fail, and however many syncs there are.  And "excluding        *)
(* uploads/" (commit_workspace.go:348): nothing there is written or        *)
(* deleted by a sync, whether or not dist/ has such a directory.           *)
(***************************************************************************)
PagesStayUp ==
  [][/\ \A k \in steady' : site[k] # 0 => site'[k] # 0
     /\ \A k \in Uploads : site'[k] = site[k]]_siteVars

(***************************************************************************)
(* A sync answers, however many files wait for a slot, and however many    *)
(* of them are gone when they get it.                                      *)
(***************************************************************************)
SyncsReturn == \A y \in Syncs : At(y, "walking") ~> At(y, "answered")

=============================================================================
