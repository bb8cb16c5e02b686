-------------------------------- MODULE R2Tools ---------------------------------
(***************************************************************************)
(* The two uses of R2: AssetTools, in the buckets for assets and data, and *)
(* DistSync, in the bucket for sites.  No request of the one touches an    *)
(* object of the other, so a behaviour is one or the other, never both.    *)
(***************************************************************************)
EXTENDS AssetTools, DistSync

VARIABLE bucket  \* "assets" or "sites"

r2Vars == <<bucket, assetVars, siteVars>>

\* Whichever bucket is not used stays in one initial state.
Init ==
  /\ bucket \in {"assets", "sites"}
  /\ AssetInit /\ SiteInit
  /\ bucket = "sites" => object = {}
  /\ bucket = "assets" => /\ dist = FirstVersion(CHOOSE F \in FirstFiles : TRUE)
                          /\ site = FirstVersion(CHOOSE F \in FirstSites : TRUE)

Next == \/ bucket = "assets" /\ AssetNext /\ UNCHANGED <<bucket, siteVars>>
        \/ bucket = "sites" /\ SiteNext /\ UNCHANGED <<bucket, assetVars>>

Spec == Init /\ [][Next]_r2Vars /\ SiteFairness

-----------------------------------------------------------------------------
(***************************************************************************)
(* Type invariant: those of the two, of which the first ties the attempts  *)
(* of a request to where its caller is, and the second the upload slots    *)
(* to the uploads in hand.                                                 *)
(***************************************************************************)
TypeOK == AssetTypeOK /\ SiteTypeOK

=============================================================================
