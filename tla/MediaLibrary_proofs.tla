------------------------ MODULE MediaLibrary_proofs ------------------------
(***************************************************************************)
(* Theorems about the media library, for any number of images, settings,   *)
(* cameras and uploads and for any bound.                                  *)
(***************************************************************************)
EXTENDS MediaLibrary, FiniteSetTheorems, TLAPS

-----------------------------------------------------------------------------
(* Streams and renditions *)

AssetIDs == [image : Images, row : Nat]

\* A rendition of an image for some settings.
Proper(r) == r.image \in Images /\ r.set \in Settings

Matches(r, a) == r.image = a.image /\ r.asset = a.row

StreamTyped ==
  /\ assets \in [Images -> Nat]
  /\ want \in [Cams -> Settings]
  /\ DOMAIN stream = Cams /\ DOMAIN edit = Cams /\ DOMAIN regen = Cams
  /\ \A c \in Cams :
       /\ DOMAIN stream[c] = {"asset", "rend"} /\ stream[c].asset \in AssetIDs
       /\ DOMAIN regen[c] = {"at", "asset", "cur", "set", "rend"}
  /\ \A row \in rends : Proper(row.id)
  /\ DOMAIN del = {"at", "asset", "dirs"}
  /\ del.at # "idle" => del.asset \in AssetIDs

\* The rendition an edit or a regeneration is about to point a stream at is
\* one of the asset it points it at.
PointersMatch ==
  \A c \in Cams :
    /\ edit[c].at = "tx" => /\ edit[c].asset \in AssetIDs /\ Matches(edit[c].rend, edit[c].asset)
                            /\ edit[c].set \in Settings \cup {"keep"}
    /\ regen[c].at = "rend" => regen[c].asset \in AssetIDs /\ regen[c].set \in Settings
    /\ regen[c].at = "upsert" => regen[c].asset \in AssetIDs /\ Matches(regen[c].rend, regen[c].asset)

StreamInv == StreamTyped /\ PointersMatch /\ StreamRenditionMatches

\* So is the one a prepare job is about to point the stream at.
PlannerInv ==
  /\ DOMAIN planner = {"at", "only", "todo", "cam", "asset", "cur", "set", "rend"}
  /\ planner.todo \subseteq Cams /\ planner.cam \subseteq Cams
  /\ planner.at = "rend" => planner.asset \in AssetIDs /\ planner.set \in Settings
  /\ planner.at = "upsert" => planner.asset \in AssetIDs /\ Matches(planner.rend, planner.asset)

\* ensureRenditionRow: the row it returns is of the asset and the settings,
\* and is there afterwards.
LEMMA EnsuredRow ==
  ASSUME NEW a \in AssetIDs, NEW s \in Settings
  PROVE  /\ Proper(ensureRenditionRow(a, s)) /\ Matches(ensureRenditionRow(a, s), a)
         /\ EnsureRow(a, s) =>
              \E new \in SUBSET {[id |-> ensureRenditionRow(a, s), old |-> FALSE]} :
                rends' = rends \cup new /\ \E row \in rends' : row.id = ensureRenditionRow(a, s)
<1> DEFINE found == GetRenditionByParams(a, s)
           r == ensureRenditionRow(a, s)
<1>1. CASE found # {}
  <2>1. r \in found BY <1>1 DEF ensureRenditionRow
  <2>2. PICK row \in rends : row.id = r /\ r.image = a.image /\ r.asset = a.row /\ r.set = s
    BY <2>1 DEF GetRenditionByParams
  <2>3. EnsureRow(a, s) => rends' = rends BY <1>1 DEF EnsureRow
  <2> HIDE DEF r
  <2>4. Proper(r) /\ Matches(r, a) BY <2>2 DEF AssetIDs, Proper, Matches
  <2>5. EnsureRow(a, s) => \E new \in SUBSET {[id |-> r, old |-> FALSE]} :
                             rends' = rends \cup new /\ \E x \in rends' : x.id = r
    <3> SUFFICES ASSUME rends' = rends
                 PROVE  \E new \in SUBSET {[id |-> r, old |-> FALSE]} :
                          rends' = rends \cup new /\ \E x \in rends' : x.id = r
      BY <2>3
    <3>1. {} \in SUBSET {[id |-> r, old |-> FALSE]} /\ rends' = rends \cup {} OBVIOUS
    <3>2. \E x \in rends' : x.id = r BY <2>2
    <3> QED BY <3>1, <3>2
  <2> QED BY <2>4, <2>5 DEF r
<1>2. CASE found = {}
  <2>1. r = NewRendition(a, s) BY <1>2 DEF ensureRenditionRow
  <2>2. r.image = a.image /\ r.asset = a.row /\ r.set = s BY <2>1 DEF NewRendition
  <2>3. EnsureRow(a, s) => rends' = rends \cup {[id |-> r, old |-> FALSE]}
    BY <1>2, <2>1 DEF EnsureRow, InsertRendition
  <2> HIDE DEF r
  <2>4. Proper(r) /\ Matches(r, a) BY <2>2 DEF AssetIDs, Proper, Matches
  <2>5. EnsureRow(a, s) => \E new \in SUBSET {[id |-> r, old |-> FALSE]} :
                             rends' = rends \cup new /\ \E x \in rends' : x.id = r
    <3> DEFINE row == [id |-> r, old |-> FALSE]
    <3> SUFFICES ASSUME rends' = rends \cup {row}
                 PROVE  \E new \in SUBSET {row} : rends' = rends \cup new /\ \E x \in rends' : x.id = r
      BY <2>3
    <3>1. row.id = r OBVIOUS
    <3> HIDE DEF row
    <3>2. \E x \in rends' : x.id = r BY <3>1
    <3> QED BY <3>2
  <2> QED BY <2>4, <2>5 DEF r
<1> QED BY <1>1, <1>2

\* Rows are added, of images of the library, and what streams point to and
\* what is in progress stays.
LEMMA RowsAdded ==
  ASSUME StreamInv, UNCHANGED <<assets, want, stream, del>>,
         rends \subseteq rends', \A row \in rends' : row \in rends \/ Proper(row.id)
  PROVE  /\ StreamRenditionMatches'
         /\ assets' \in [Images -> Nat] /\ want' \in [Cams -> Settings] /\ DOMAIN stream' = Cams
         /\ \A c \in Cams : DOMAIN stream'[c] = {"asset", "rend"} /\ stream'[c].asset \in AssetIDs
         /\ \A row \in rends' : Proper(row.id)
         /\ DOMAIN del' = {"at", "asset", "dirs"} /\ (del'.at # "idle" => del'.asset \in AssetIDs)
BY DEF StreamInv, StreamTyped, StreamRenditionMatches, GetAsset, GetRendition

\* The checks of an edit find an asset and a rendition that match.
LEMMA UpdateCameraStreamStep == ASSUME StreamInv, NEW c \in Cams, UpdateCameraStream(c) PROVE StreamInv'
<1>1. PICK i \in {x \in Images : GetAssetBySHA256(x)} \cup {"keep"}, s \in Settings \cup {"keep"} :
        LET a == IF i = "keep" THEN stream[c].asset ELSE Asset(i)
            v == IF s = "keep" THEN want[c] ELSE s
        IN /\ EnsureRow(a, v)
           /\ edit' = [edit EXCEPT ![c] =
                [at |-> "tx", asset |-> a, set |-> s, rend |-> ensureRenditionRow(a, v)]]
  BY DEF UpdateCameraStream
<1> DEFINE a == IF i = "keep" THEN stream[c].asset ELSE Asset(i)
           v == IF s = "keep" THEN want[c] ELSE s
           r == ensureRenditionRow(a, v)
<1>2. a \in AssetIDs /\ v \in Settings
  BY DEF Asset, AssetIDs, StreamInv, StreamTyped
<1>3. EnsureRow(a, v) /\ edit' = [edit EXCEPT ![c] = [at |-> "tx", asset |-> a, set |-> s, rend |-> r]]
  BY <1>1
<1> HIDE DEF a, v
<1>4. Proper(r) /\ Matches(r, a) BY <1>2, EnsuredRow
<1>5. PICK new \in SUBSET {[id |-> r, old |-> FALSE]} : rends' = rends \cup new
  BY <1>2, <1>3, EnsuredRow
<1> HIDE DEF r
<1>6. UNCHANGED <<assets, want, stream, regen, del>>
  BY DEF UpdateCameraStream, assetVars, camVars, regenVars
<1>7. rends \subseteq rends' /\ \A row \in rends' : row \in rends \/ Proper(row.id) BY <1>4, <1>5
<1>8. StreamRenditionMatches' /\ StreamTyped'
  BY <1>3, <1>6, <1>7, RowsAdded DEF StreamInv, StreamTyped
<1>9. PointersMatch'
  BY <1>2, <1>3, <1>4, <1>6 DEF StreamInv, StreamTyped, PointersMatch
<1> QED BY <1>8, <1>9 DEF StreamInv

\* Only the regenerations move, none of them to a point where it is about to
\* read or write the stream.
LEMMA RegenMoves ==
  ASSUME StreamInv, UNCHANGED <<assets, want, stream, rends, edit, del>>,
         DOMAIN regen' = Cams,
         \A c \in Cams : regen'[c] = regen[c] \/
           (DOMAIN regen'[c] = {"at", "asset", "cur", "set", "rend"}
              /\ regen'[c].at \notin {"rend", "upsert"})
  PROVE  StreamInv'
<1>1. StreamTyped' /\ StreamRenditionMatches'
  BY DEF StreamInv, StreamTyped, StreamRenditionMatches, GetAsset, GetRendition
<1>2. PointersMatch' BY DEF StreamInv, PointersMatch
<1> QED BY <1>1, <1>2 DEF StreamInv

\* The other edits keep what an edit under way has found.
LEMMA EditSteps ==
  ASSUME StreamInv, NEW c \in Cams, UpdateCameraConfig(c) \/ regenerateStreamsLater(c)
  PROVE  StreamInv'
<1>1. CASE UpdateCameraConfig(c)
  <2>1. UNCHANGED <<assets, stream, rends, regen, del>> BY <1>1 DEF UpdateCameraConfig, assetVars, rendVars, regenVars
  <2>2. want' \in [Cams -> Settings] BY <1>1 DEF UpdateCameraConfig, StreamInv, StreamTyped
  <2>3. edit' = [edit EXCEPT ![c] = [NoEdit EXCEPT !.at = "notify"]] BY <1>1 DEF UpdateCameraConfig
  <2>4. StreamTyped' /\ StreamRenditionMatches'
    BY <2>1, <2>2, <2>3 DEF StreamInv, StreamTyped, StreamRenditionMatches, GetAsset, GetRendition
  <2>5. PointersMatch' BY <2>1, <2>3 DEF StreamInv, StreamTyped, PointersMatch, NoEdit
  <2> QED BY <2>4, <2>5 DEF StreamInv
<1>2. CASE regenerateStreamsLater(c)
  <2>1. UNCHANGED <<assets, want, stream, rends, del>>
    BY <1>2 DEF regenerateStreamsLater, assetVars, rendVars, camVars
  <2>2. edit' = [edit EXCEPT ![c] = NoEdit] BY <1>2 DEF regenerateStreamsLater
  <2>3. regen' = regen \/ regen' = [regen EXCEPT ![c].at = "debounce"] BY <1>2 DEF regenerateStreamsLater
  <2>4. StreamTyped' /\ StreamRenditionMatches'
    BY <2>1, <2>2, <2>3 DEF StreamInv, StreamTyped, StreamRenditionMatches, GetAsset, GetRendition
  <2>5. PointersMatch' BY <2>1, <2>2, <2>3 DEF StreamInv, StreamTyped, PointersMatch, NoEdit
  <2> QED BY <2>4, <2>5 DEF StreamInv
<1> QED BY <1>1, <1>2

\* A stream is pointed at a rendition of the asset it is given.
LEMMA StreamPointed ==
  ASSUME StreamInv, NEW c \in Cams, NEW a \in AssetIDs, NEW r, StreamFits(a, r), Matches(r, a),
         UpsertCameraStream(c, a, r), UNCHANGED <<assets, rends>>
  PROVE  /\ StreamRenditionMatches' /\ DOMAIN stream' = Cams
         /\ \A d \in Cams : DOMAIN stream'[d] = {"asset", "rend"} /\ stream'[d].asset \in AssetIDs
BY DEF StreamInv, StreamTyped, StreamFits, Matches, UpsertCameraStream, StreamRenditionMatches,
       GetAsset, GetRendition

\* The transaction of an edit points the stream at what was found, unless a
\* row is gone.
LEMMA UpdateCameraStreamTxStep ==
  ASSUME StreamInv, NEW c \in Cams, UpdateCameraStreamTx(c) PROVE StreamInv'
<1> DEFINE e == edit[c]
<1>1. /\ e.asset \in AssetIDs /\ Matches(e.rend, e.asset) /\ e.set \in Settings \cup {"keep"}
  BY DEF UpdateCameraStreamTx, StreamInv, PointersMatch
<1>2. UNCHANGED <<assets, rends, regen, del>> BY DEF UpdateCameraStreamTx, assetVars, rendVars, regenVars
<1>3. CASE StreamFits(e.asset, e.rend)
  <2>1. UpsertCameraStream(c, e.asset, e.rend) /\ edit' = [edit EXCEPT ![c] = [NoEdit EXCEPT !.at = "notify"]]
        /\ want' = [want EXCEPT ![c] = IF e.set = "keep" THEN want[c] ELSE e.set]
    BY <1>3 DEF UpdateCameraStreamTx
  <2>2. /\ StreamRenditionMatches' /\ DOMAIN stream' = Cams
        /\ \A d \in Cams : DOMAIN stream'[d] = {"asset", "rend"} /\ stream'[d].asset \in AssetIDs
    BY <1>1, <1>2, <1>3, <2>1, StreamPointed
  <2>3. StreamTyped' BY <1>1, <1>2, <2>1, <2>2 DEF StreamInv, StreamTyped
  <2>4. PointersMatch' BY <1>2, <2>1 DEF StreamInv, StreamTyped, PointersMatch, NoEdit
  <2> QED BY <2>2, <2>3, <2>4 DEF StreamInv
<1>4. CASE ~StreamFits(e.asset, e.rend)
  <2>1. edit' = [edit EXCEPT ![c] = NoEdit] /\ UNCHANGED <<want, stream>>
    BY <1>4 DEF UpdateCameraStreamTx, camVars
  <2>2. StreamTyped' /\ StreamRenditionMatches'
    BY <1>2, <2>1 DEF StreamInv, StreamTyped, StreamRenditionMatches, GetAsset, GetRendition
  <2>3. PointersMatch' BY <1>2, <2>1 DEF StreamInv, StreamTyped, PointersMatch, NoEdit
  <2> QED BY <2>2, <2>3 DEF StreamInv
<1> QED BY <1>3, <1>4

\* The steps of a regeneration that touch no row keep the invariant.
LEMMA RegenSteps ==
  ASSUME StreamInv, NEW c \in Cams,
         RegenRound(c) \/ encodeRendition(c) \/ RegenAgain(c) \/ RegenEnd(c)
  PROVE  StreamInv'
<1>1. UNCHANGED <<assets, want, stream, rends, edit, del>>
  BY DEF RegenRound, encodeRendition, RegenAgain, RegenEnd, assetVars, rendVars, camVars, editVars
<1>2. \/ regen' = [regen EXCEPT ![c].at = "load"]
      \/ regen' = [regen EXCEPT ![c].at = "wait"]
      \/ regen' = [regen EXCEPT ![c].at = IF regens[c] = "again" THEN "debounce" ELSE "exit"]
      \/ regen' = [regen EXCEPT ![c] = NoRegen]
      \/ regen' = [regen EXCEPT ![c] = [NoRegen EXCEPT !.at = "ran"]]
  BY DEF RegenRound, encodeRendition, RegenAgain, RegenEnd, Ran
<1>3. /\ DOMAIN regen' = Cams
      /\ \A d \in Cams : regen'[d] = regen[d] \/
           (DOMAIN regen'[d] = {"at", "asset", "cur", "set", "rend"} /\ regen'[d].at \notin {"rend", "upsert"})
  BY <1>2 DEF StreamInv, StreamTyped, NoRegen
<1> QED BY <1>1, <1>3, RegenMoves

\* A regeneration loads the asset of the stream.
LEMMA loadBundleStep == ASSUME StreamInv, NEW c \in Cams, loadBundle(c) PROVE StreamInv'
<1>1. UNCHANGED <<assets, want, stream, rends, edit, del>>
  BY DEF loadBundle, assetVars, rendVars, camVars, editVars
<1>2. regen' = [regen EXCEPT ![c] = [NoRegen EXCEPT
                 !.at = "rend", !.asset = stream[c].asset, !.cur = stream[c].rend, !.set = want[c]]]
  BY DEF loadBundle
<1>3. StreamTyped' /\ StreamRenditionMatches'
  BY <1>1, <1>2 DEF StreamInv, StreamTyped, StreamRenditionMatches, GetAsset, GetRendition, NoRegen
<1>4. PointersMatch' BY <1>1, <1>2 DEF StreamInv, StreamTyped, PointersMatch, NoRegen
<1> QED BY <1>3, <1>4 DEF StreamInv

\* A regeneration finds or makes the row of the asset it loaded.
LEMMA streamRenditionStep == ASSUME StreamInv, NEW c \in Cams, streamRendition(c) PROVE StreamInv'
<1>1. UNCHANGED <<assets, want, stream, edit, del>> BY DEF streamRendition, assetVars, camVars, editVars
<1>2. CASE ~GetAsset(regen[c].asset)
  <2>1. rends' = rends /\ regen' = [regen EXCEPT ![c] = [NoRegen EXCEPT !.at = "ran"]]
    BY <1>2 DEF streamRendition, Ran
  <2>2. /\ DOMAIN regen' = Cams
        /\ \A d \in Cams : regen'[d] = regen[d] \/
             (DOMAIN regen'[d] = {"at", "asset", "cur", "set", "rend"} /\ regen'[d].at \notin {"rend", "upsert"})
    BY <2>1 DEF StreamInv, StreamTyped, NoRegen
  <2> QED BY <1>1, <2>1, <2>2, RegenMoves
<1>3. CASE GetAsset(regen[c].asset)
  <2> DEFINE a == regen[c].asset
             s == regen[c].set
             r == ensureRenditionRow(a, s)
  <2>1. a \in AssetIDs /\ s \in Settings BY DEF streamRendition, StreamInv, PointersMatch
  <2>2. EnsureRow(a, s) /\ regen' = [regen EXCEPT ![c] = [regen[c] EXCEPT
                 !.at = IF regen[c].cur = r THEN "encode" ELSE "upsert", !.rend = r]]
    BY <1>3 DEF streamRendition
  <2>3. Proper(r) /\ Matches(r, a) BY <2>1, EnsuredRow
  <2>4. PICK new \in SUBSET {[id |-> r, old |-> FALSE]} : rends' = rends \cup new
    BY <2>1, <2>2, EnsuredRow
  <2> HIDE DEF r
  <2>5. rends \subseteq rends' /\ \A row \in rends' : row \in rends \/ Proper(row.id) BY <2>3, <2>4
  <2>6. StreamRenditionMatches' /\ StreamTyped'
    BY <1>1, <2>2, <2>5, RowsAdded DEF StreamInv, StreamTyped
  <2>7. PointersMatch' BY <1>1, <2>1, <2>2, <2>3 DEF StreamInv, StreamTyped, PointersMatch
  <2> QED BY <2>6, <2>7 DEF StreamInv
<1> QED BY <1>2, <1>3

\* A regeneration points the stream at asset and rendition together.
LEMMA PointStreamStep == ASSUME StreamInv, NEW c \in Cams, PointStream(c) PROVE StreamInv'
<1> DEFINE g == regen[c]
<1>1. UNCHANGED <<assets, want, rends, edit, del>> BY DEF PointStream, assetVars, rendVars, editVars
<1>2. g.asset \in AssetIDs /\ Matches(g.rend, g.asset) BY DEF PointStream, StreamInv, PointersMatch
<1>3. CASE StreamFits(g.asset, g.rend)
  <2>1. UpsertCameraStream(c, g.asset, g.rend) /\ regen' = [regen EXCEPT ![c].at = "encode"]
    BY <1>3 DEF PointStream
  <2>2. /\ StreamRenditionMatches' /\ DOMAIN stream' = Cams
        /\ \A d \in Cams : DOMAIN stream'[d] = {"asset", "rend"} /\ stream'[d].asset \in AssetIDs
    BY <1>1, <1>2, <1>3, <2>1, StreamPointed
  <2>3. StreamTyped' BY <1>1, <2>1, <2>2 DEF StreamInv, StreamTyped
  <2>4. PointersMatch' BY <1>1, <2>1 DEF StreamInv, StreamTyped, PointersMatch
  <2> QED BY <2>2, <2>3, <2>4 DEF StreamInv
<1>4. CASE ~StreamFits(g.asset, g.rend)
  <2>1. stream' = stream /\ regen' = [regen EXCEPT ![c] = [NoRegen EXCEPT !.at = "ran"]]
    BY <1>4 DEF PointStream, Ran
  <2>2. /\ DOMAIN regen' = Cams
        /\ \A d \in Cams : regen'[d] = regen[d] \/
             (DOMAIN regen'[d] = {"at", "asset", "cur", "set", "rend"} /\ regen'[d].at \notin {"rend", "upsert"})
    BY <2>1 DEF StreamInv, StreamTyped, NoRegen
  <2> QED BY <1>1, <2>1, <2>2, RegenMoves
<1> QED BY <1>3, <1>4

\* What a plan does to its own state.
LEMMA PlannerMoves ==
  ASSUME PlannerInv,
         \/ planner' = NoPlanner \/ UNCHANGED planner
         \/ \E r : Planned(r)
         \/ planner' = [NoPlanner EXCEPT !.at = "cams", !.only = planner.only, !.todo = Cams]
  PROVE  PlannerInv'
<1>1. CASE planner' = NoPlanner BY <1>1 DEF PlannerInv, NoPlanner
<1>2. CASE UNCHANGED planner BY <1>2 DEF PlannerInv
<1>3. ASSUME NEW r, Planned(r) PROVE PlannerInv' BY <1>3 DEF PlannerInv, Planned, NoPlanner
<1>4. CASE planner' = [NoPlanner EXCEPT !.at = "cams", !.only = planner.only, !.todo = Cams]
  BY <1>4 DEF PlannerInv, NoPlanner
<1> QED BY <1>1, <1>2, <1>3, <1>4

\* The plan finds or makes the row of the asset it loaded.
LEMMA PlanRenditionStep ==
  ASSUME StreamInv, PlannerInv, PlanRendition PROVE StreamInv' /\ PlannerInv'
<1>1. UNCHANGED <<assets, want, stream, edit, regen, del>>
  BY DEF PlanRendition, assetVars, camVars, editVars, regenVars
<1>2. CASE ~GetAsset(planner.asset)
  <2>1. rends' = rends /\ planner' = NoPlanner BY <1>2 DEF PlanRendition, PlanFails
  <2>2. StreamInv' BY <1>1, <2>1 DEF StreamInv, StreamTyped, PointersMatch, StreamRenditionMatches, GetAsset, GetRendition
  <2> QED BY <2>1, <2>2, PlannerMoves
<1>3. CASE GetAsset(planner.asset)
  <2> DEFINE a == planner.asset
             s == planner.set
             r == ensureRenditionRow(a, s)
  <2>1. a \in AssetIDs /\ s \in Settings BY DEF PlanRendition, PlannerInv
  <2>2. /\ EnsureRow(a, s)
        /\ Planned(r) \/ planner' = [planner EXCEPT !.at = "upsert", !.rend = r]
    BY <1>3 DEF PlanRendition
  <2>3. Proper(r) /\ Matches(r, a) BY <2>1, EnsuredRow
  <2>4. PICK new \in SUBSET {[id |-> r, old |-> FALSE]} : rends' = rends \cup new
    BY <2>1, <2>2, EnsuredRow
  <2> HIDE DEF r
  <2>5. rends \subseteq rends' /\ \A row \in rends' : row \in rends \/ Proper(row.id) BY <2>3, <2>4
  <2>6. StreamRenditionMatches' /\ StreamTyped'
    BY <1>1, <2>5, RowsAdded DEF StreamInv, StreamTyped
  <2>7. PointersMatch' BY <1>1 DEF StreamInv, PointersMatch
  <2>8. PlannerInv'
    <3>1. CASE Planned(r) BY <3>1, PlannerMoves
    <3>2. CASE planner' = [planner EXCEPT !.at = "upsert", !.rend = r]
      BY <2>1, <2>3, <3>2 DEF PlannerInv
    <3> QED BY <2>2, <3>1, <3>2
  <2> QED BY <2>6, <2>7, <2>8 DEF StreamInv
<1> QED BY <1>2, <1>3

\* The plan points a camera's stream at asset and rendition together.
LEMMA PlanStreamStep ==
  ASSUME StreamInv, PlannerInv, PlanStream PROVE StreamInv' /\ PlannerInv'
<1> DEFINE g == planner
<1>1. UNCHANGED <<assets, want, rends, edit, regen, del>>
  BY DEF PlanStream, assetVars, rendVars, editVars, regenVars
<1>2. g.asset \in AssetIDs /\ Matches(g.rend, g.asset) BY DEF PlanStream, PlannerInv
<1>3. CASE StreamFits(g.asset, g.rend)
  <2>1. PICK c \in planner.cam : UpsertCameraStream(c, g.asset, g.rend) BY <1>3 DEF PlanStream
  <2>2. c \in Cams BY <2>1 DEF PlannerInv
  <2>3. Planned(g.rend) BY <1>3 DEF PlanStream
  <2>4. /\ StreamRenditionMatches' /\ DOMAIN stream' = Cams
        /\ \A d \in Cams : DOMAIN stream'[d] = {"asset", "rend"} /\ stream'[d].asset \in AssetIDs
    BY <1>1, <1>2, <1>3, <2>1, <2>2, StreamPointed
  <2>5. StreamTyped' BY <1>1, <2>4 DEF StreamInv, StreamTyped
  <2>6. PointersMatch' BY <1>1 DEF StreamInv, PointersMatch
  <2>7. PlannerInv' BY <2>3, PlannerMoves
  <2> QED BY <2>4, <2>5, <2>6, <2>7 DEF StreamInv
<1>4. CASE ~StreamFits(g.asset, g.rend)
  <2>1. stream' = stream /\ planner' = NoPlanner BY <1>4 DEF PlanStream, PlanFails
  <2>2. StreamInv'
    BY <1>1, <2>1 DEF StreamInv, StreamTyped, PointersMatch, StreamRenditionMatches, GetAsset, GetRendition
  <2> QED BY <2>1, <2>2, PlannerMoves
<1> QED BY <1>3, <1>4

\* A prepare job plans on what it read of each camera.
LEMMA PlanSteps == ASSUME StreamInv, PlannerInv, PlanStep PROVE StreamInv' /\ PlannerInv'
<1>1. CASE PlanRendition BY <1>1, PlanRenditionStep
<1>2. CASE PlanStream BY <1>2, PlanStreamStep
<1>3. CASE runPrepareRenditions \/ plannedRenditions \/ PlanSaved
  <2>1. UNCHANGED <<assets, want, stream, rends, edit, regen, del>>
    BY <1>3 DEF runPrepareRenditions, plannedRenditions, PlanSaved, assetVars, rendVars, camVars, editVars, regenVars
  <2>2. StreamInv'
    BY <2>1 DEF StreamInv, StreamTyped, PointersMatch, StreamRenditionMatches, GetAsset, GetRendition
  <2>3. CASE runPrepareRenditions BY <2>2, <2>3 DEF runPrepareRenditions, PlannerInv, NoPlanner
  <2>4. CASE plannedRenditions
    <3>1. PICK c \in planner.todo :
            planner' = IF planner.only \in {NoAsset, stream[c].asset}
                       THEN [planner EXCEPT !.at = "rend", !.todo = @ \ {c}, !.cam = {c},
                               !.asset = stream[c].asset, !.cur = stream[c].rend, !.set = want[c]]
                       ELSE [planner EXCEPT !.todo = @ \ {c}]
      BY <2>4 DEF plannedRenditions
    <3>2. c \in Cams BY <3>1 DEF PlannerInv
    <3>3. stream[c].asset \in AssetIDs /\ want[c] \in Settings BY <3>2 DEF StreamInv, StreamTyped
    <3> QED BY <2>2, <2>4, <3>1, <3>2, <3>3 DEF plannedRenditions, PlannerInv
  <2>5. CASE PlanSaved BY <2>2, <2>5, PlannerMoves DEF PlanSaved
  <2> QED BY <1>3, <2>2, <2>3, <2>4, <2>5
<1> QED BY <1>1, <1>2, <1>3 DEF PlanStep

\* The row goes, and the streams that point to it with it.
LEMMA CollectRowStep == ASSUME StreamInv, CollectRow PROVE StreamInv'
<1>1. UNCHANGED <<assets, want, edit, regen, del>> BY DEF CollectRow, assetVars, editVars, regenVars
<1>2. rends' = {row \in rends : row.id # col.item}
      /\ stream' = [c \in Cams |-> IF stream[c].rend = col.item
                                   THEN [stream[c] EXCEPT !.rend = NoRend] ELSE stream[c]]
  BY DEF CollectRow, DeleteRendition
<1>3. StreamTyped' /\ PointersMatch' BY <1>1, <1>2 DEF StreamInv, StreamTyped, PointersMatch
<1>4. StreamRenditionMatches'
  BY <1>1, <1>2 DEF StreamInv, StreamTyped, StreamRenditionMatches, GetAsset, GetRendition
<1> QED BY <1>3, <1>4 DEF StreamInv

\* Rows that grow old stay the rows they are.
LEMMA DayPassesStep == ASSUME StreamInv, DayPasses PROVE StreamInv'
<1>1. UNCHANGED <<assets, want, stream, edit, regen, del>>
  BY DEF DayPasses, assetVars, camVars, editVars, regenVars
<1>2. rends' = {[row EXCEPT !.old = TRUE] : row \in rends} BY DEF DayPasses
<1>3. \A row \in rends : [row EXCEPT !.old = TRUE].id = row.id OBVIOUS
<1>4. (\A row \in rends' : \E x \in rends : row.id = x.id) /\ (\A x \in rends : \E row \in rends' : row.id = x.id)
  BY <1>2, <1>3
<1>5. StreamTyped' /\ PointersMatch' BY <1>1, <1>4 DEF StreamInv, StreamTyped, PointersMatch
<1>6. StreamRenditionMatches' BY <1>1, <1>4 DEF StreamInv, StreamRenditionMatches, GetAsset, GetRendition
<1> QED BY <1>5, <1>6 DEF StreamInv

\* made is counted up, and row IDs are not used twice.
MadeTyped == made \in [Images -> Nat] /\ \A u \in Uploaders : up[u].image \in Images

\* An upload inserts an image under a row number that was never used.
LEMMA InsertAssetStep ==
  ASSUME StreamInv, MadeTyped, NEW u \in Uploaders, InsertAsset(u) PROVE StreamInv'
<1> DEFINE i == up[u].image
<1>1. UNCHANGED <<want, stream, rends, edit, regen, del>>
  BY DEF InsertAsset, rendVars, camVars, editVars, regenVars
<1>2. assets' = assets \/ (assets[i] = 0 /\ assets' = [assets EXCEPT ![i] = made[i] + 1])
  BY DEF InsertAsset, GetAssetBySHA256
<1>3. i \in Images /\ made[i] \in Nat BY DEF MadeTyped
<1>4. StreamTyped' /\ PointersMatch' BY <1>1, <1>2, <1>3 DEF StreamInv, StreamTyped, PointersMatch
<1>5. StreamRenditionMatches'
  BY <1>1, <1>2, <1>3 DEF StreamInv, StreamTyped, StreamRenditionMatches, GetAsset, GetRendition, AssetIDs
<1> QED BY <1>4, <1>5 DEF StreamInv

\* The row of an image and the rows of its renditions go when no stream has
\* the image.
LEMMA DeleteSteps == ASSUME StreamInv, DeleteAssetBegin \/ DeleteStep PROVE StreamInv'
<1>1. UNCHANGED <<want, stream, edit, regen>>
  BY DEF DeleteAssetBegin, DeleteStep, DeleteAsset, DeleteAssetFile, DeleteAssetDirs, camVars, editVars, regenVars
<1>2. PointersMatch' BY <1>1 DEF StreamInv, PointersMatch
<1>3. DOMAIN del' = {"at", "asset", "dirs"} /\ (del'.at # "idle" => del'.asset \in AssetIDs)
  <2>1. CASE DeleteAssetBegin BY <2>1 DEF DeleteAssetBegin, Asset, AssetIDs, StreamInv, StreamTyped
  <2>2. CASE DeleteAsset
    <3>1. del' = [del EXCEPT !.at = "idle", !.asset = NoAsset, !.dirs = {}] \/ del' = [del EXCEPT !.at = "file"]
      BY <2>2 DEF DeleteAsset
    <3> QED BY <2>2, <3>1 DEF DeleteAsset, StreamInv, StreamTyped
  <2>3. CASE DeleteAssetFile BY <2>3 DEF DeleteAssetFile, StreamInv, StreamTyped
  <2>4. CASE DeleteAssetDirs BY <2>4 DEF DeleteAssetDirs
  <2> QED BY <2>1, <2>2, <2>3, <2>4 DEF DeleteStep
<1>4. CASE UNCHANGED <<assets, rends>>
  BY <1>1, <1>2, <1>3, <1>4 DEF StreamInv, StreamTyped, StreamRenditionMatches, GetAsset, GetRendition
<1>5. CASE DeleteAsset /\ ~UNCHANGED <<assets, rends>>
  <2>1. /\ \A c \in Cams : stream[c].asset # del.asset
        /\ assets' = [assets EXCEPT ![del.asset.image] = IF GetAsset(del.asset) THEN 0 ELSE assets[del.asset.image]]
        /\ rends' = {row \in rends : row.id.image # del.asset.image \/ row.id.asset # del.asset.row}
    BY <1>5 DEF DeleteAsset
  <2>2. del.asset \in AssetIDs BY <1>5 DEF DeleteAsset, StreamInv, StreamTyped
  <2>3. StreamTyped' BY <1>1, <1>3, <2>1, <2>2 DEF StreamInv, StreamTyped, AssetIDs
  <2>4. \A c \in Cams : stream[c].asset.image # del.asset.image \/ stream[c].asset.row # del.asset.row
    BY <2>1, <2>2 DEF StreamInv, StreamTyped, AssetIDs
  <2>5. StreamRenditionMatches'
    BY <1>1, <2>1, <2>2, <2>4 DEF StreamInv, StreamTyped, StreamRenditionMatches, GetAsset, GetRendition, AssetIDs
  <2> QED BY <1>2, <2>3, <2>5 DEF StreamInv
<1>6. DeleteAsset \/ UNCHANGED <<assets, rends>>
  BY DEF DeleteAssetBegin, DeleteStep, DeleteAssetFile, DeleteAssetDirs, assetVars, rendVars
<1> QED BY <1>4, <1>5, <1>6

\* The jobs, the rest of the collector and the uploads leave the rows alone.
LEMMA JobSteps == ASSUME StreamInv, (\E k \in Keys : JobStep(k)) \/ PrepareStep PROVE StreamInv'
<1>1. UNCHANGED <<assets, want, stream, rends, edit, del>>
  BY DEF JobStep, PrepareStep, runRendition, EncodeStep, EncodeAcquire, EncodeStream, EncodeSnapshot,
         EncodeUnlock, RenditionDone, prepareOne, PrepareRetry, PrepareDone, assetVars, rendVars, camVars, editVars
<1>2. \/ UNCHANGED regen
      \/ \E k \in Keys : regen' = [c \in Cams |-> IF regen[c].at = "wait" /\ Key(regen[c].rend) = k
                                                 THEN [NoRegen EXCEPT !.at = "ran"] ELSE regen[c]]
  BY DEF JobStep, PrepareStep, runRendition, EncodeStep, EncodeAcquire, EncodeStream, EncodeSnapshot,
         EncodeUnlock, RenditionDone, prepareOne, PrepareRetry, PrepareDone, regenVars, EndJob
<1>3. /\ DOMAIN regen' = Cams
      /\ \A d \in Cams : regen'[d] = regen[d] \/
           (DOMAIN regen'[d] = {"at", "asset", "cur", "set", "rend"} /\ regen'[d].at \notin {"rend", "upsert"})
  <2>1. CASE UNCHANGED regen BY <2>1 DEF StreamInv, StreamTyped
  <2>2. CASE ~UNCHANGED regen
    <3>1. PICK k \in Keys : regen' = [c \in Cams |-> IF regen[c].at = "wait" /\ Key(regen[c].rend) = k
                                                 THEN [NoRegen EXCEPT !.at = "ran"] ELSE regen[c]]
      BY <1>2, <2>2
    <3>2. \A d \in Cams : regen'[d] = regen[d] \/ regen'[d] = [NoRegen EXCEPT !.at = "ran"] BY <3>1
    <3>3. DOMAIN [NoRegen EXCEPT !.at = "ran"] = {"at", "asset", "cur", "set", "rend"}
          /\ [NoRegen EXCEPT !.at = "ran"].at \notin {"rend", "upsert"}
      BY DEF NoRegen
    <3> QED BY <3>1, <3>2, <3>3
  <2> QED BY <2>1, <2>2
<1> QED BY <1>1, <1>3, RegenMoves

\* What only touches files, locks and lists keeps the invariant.
LEMMA OtherSteps ==
  ASSUME StreamInv,
         \/ \E u \in Uploaders : UploadAsset(u) \/ storeAsset(u)
         \/ CollectList \/ CollectTake \/ CollectDir \/ SweepStep \/ UNCHANGED vars
         \/ \E e \in Encoders : ResumeJob(e) \/ CancelJob(e)
  PROVE  StreamInv'
<1>1. UNCHANGED <<assets, want, stream, rends, edit, regen, del>>
  BY DEF UploadAsset, storeAsset, CollectList, CollectTake, CollectDir, SweepStep, sweepRenditionDirs, ReadDir,
         SweepCheck, SweepRemove, SweepEnd, ResumeJob, CancelJob, vars,
         assetVars, rendVars, camVars, editVars, regenVars
<1> QED BY <1>1 DEF StreamInv, StreamTyped, PointersMatch, StreamRenditionMatches, GetAsset, GetRendition

-----------------------------------------------------------------------------
(* Images and their files *)

\* A crash leaves the store, and streams as they are; what was about to be
\* written is forgotten.
LEMMA RestartStep == ASSUME StreamInv, PlannerInv, Restart PROVE StreamInv' /\ PlannerInv'
<1>1. /\ UNCHANGED <<assets, want, stream, rends>>
      /\ edit' = [c \in Cams |-> NoEdit] /\ regen' = [c \in Cams |-> NoRegen]
      /\ del' = [at |-> "idle", asset |-> NoAsset, dirs |-> {}]
  BY DEF Restart, assetVars, camVars
<1>2. StreamTyped' /\ StreamRenditionMatches'
  BY <1>1 DEF StreamInv, StreamTyped, StreamRenditionMatches, GetAsset, GetRendition, NoRegen
<1>3. PointersMatch' BY <1>1 DEF PointersMatch, NoEdit, NoRegen
<1>4. PlannerInv' BY PlannerMoves DEF Restart
<1> QED BY <1>2, <1>3, <1>4 DEF StreamInv

\* The file is written before the row and removed after it; an upload that
\* meets the removal is remembered.
FileInv ==
  /\ MadeTyped
  /\ DOMAIN up = Uploaders /\ \A u \in Uploaders : DOMAIN up[u] = {"at", "image"}
  /\ \A i \in Images : assets[i] # 0 => i \in files \cup overlap
  /\ \A u \in Uploaders : up[u].at = "insert" => up[u].image \in files \cup overlap
  /\ del.at = "row" => GetAsset(del.asset)
  /\ del.at = "file" =>
       \/ del.asset.image \in overlap
       \/ /\ assets[del.asset.image] = 0
          /\ \A u \in Uploaders : up[u].at # "idle" => up[u].image # del.asset.image

\* The test pattern and the image of the streams are there at the start.
LEMMA FileInit == Init => StreamInv /\ PlannerInv /\ FileInv
<1> SUFFICES ASSUME Init PROVE StreamInv /\ PlannerInv /\ FileInv OBVIOUS
<1>1. PICK i \in Images \ {Builtin} :
        stream = [c \in Cams |-> [asset |-> [image |-> i, row |-> 1],
                   rend |-> [image |-> i, asset |-> 1, set |-> want[c], gen |-> 1]]]
  BY DEF Init
<1>2. /\ assets = [j \in Images |-> IF j = Builtin THEN 0 ELSE 1] /\ made = assets
      /\ files = Images \ {Builtin} /\ want \in [Cams -> Settings]
      /\ rends = {[id |-> stream[c].rend, old |-> FALSE] : c \in Cams}
      /\ edit = [c \in Cams |-> NoEdit] /\ regen = [c \in Cams |-> NoRegen]
      /\ up = [u \in Uploaders |-> [at |-> "idle", image |-> Builtin]]
      /\ del = [at |-> "idle", asset |-> NoAsset, dirs |-> {}]
  BY DEF Init
<1>3. \A c \in Cams : /\ stream[c].asset \in AssetIDs /\ GetAsset(stream[c].asset)
                      /\ DOMAIN stream[c] = {"asset", "rend"}
                      /\ Proper(stream[c].rend) /\ Matches(stream[c].rend, stream[c].asset)
  BY <1>1, <1>2 DEF AssetIDs, GetAsset, Proper, Matches
<1>4. \A c \in Cams : \E row \in rends : row.id = stream[c].rend
  <2> SUFFICES ASSUME NEW c \in Cams PROVE \E row \in rends : row.id = stream[c].rend OBVIOUS
  <2>1. [id |-> stream[c].rend, old |-> FALSE] \in rends
        /\ [id |-> stream[c].rend, old |-> FALSE].id = stream[c].rend
    BY <1>2
  <2> QED BY <2>1
<1>5. StreamRenditionMatches BY <1>3, <1>4 DEF StreamRenditionMatches, GetRendition, Matches
<1>6. \A row \in rends : Proper(row.id) BY <1>2, <1>3
<1>7. StreamTyped
  <2>1. DOMAIN stream = Cams BY <1>1
  <2>2. assets \in [Images -> Nat] BY <1>2
  <2>3. del.at = "idle" /\ DOMAIN del = {"at", "asset", "dirs"} BY <1>2
  <2> QED BY <1>2, <1>3, <1>6, <2>1, <2>2, <2>3 DEF StreamTyped, NoRegen
<1>8. PointersMatch BY <1>2 DEF PointersMatch, NoEdit, NoRegen
<1>9. FileInv
  <2>1. MadeTyped BY <1>2, LibraryAssumption DEF MadeTyped
  <2>2. DOMAIN up = Uploaders /\ \A u \in Uploaders : DOMAIN up[u] = {"at", "image"} /\ up[u].at = "idle"
    BY <1>2
  <2>3. \A j \in Images : assets[j] # 0 => j \in files \cup overlap
    BY <1>2
  <2>4. del.at = "idle" BY <1>2
  <2> QED BY <2>1, <2>2, <2>3, <2>4 DEF FileInv
<1>10. PlannerInv BY DEF Init, PlannerInv, NoPlanner
<1> QED BY <1>5, <1>7, <1>8, <1>9, <1>10 DEF StreamInv

\* An upload writes the file before the row.
LEMMA UploadFiles ==
  ASSUME StreamInv, FileInv, NEW u \in Uploaders, UploadAsset(u) \/ storeAsset(u) \/ InsertAsset(u)
  PROVE  FileInv'
<1>1. CASE UploadAsset(u)
  <2>1. PICK i \in Images : up' = [up EXCEPT ![u] = [at |-> "write", image |-> i]] BY <1>1 DEF UploadAsset
  <2>2. UNCHANGED <<assets, made, files, del>> BY <1>1 DEF UploadAsset, assetVars
  <2>3. overlap \subseteq overlap'
        /\ (del.at = "file" /\ i = del.asset.image => del.asset.image \in overlap')
    <3>1. up'[u].at # "idle" /\ up'[u].image = i BY <2>1 DEF FileInv
    <3> QED BY <1>1, <2>2, <3>1 DEF UploadAsset, Overlapping
  <2>4. \A w \in Uploaders : w # u => up'[w] = up[w] BY <2>1 DEF FileInv
  <2>5. up'[u].at = "write" /\ up'[u].image = i /\ DOMAIN up'[u] = {"at", "image"} /\ DOMAIN up' = Uploaders
    BY <2>1 DEF FileInv
  <2>6. del'.at = "file" => \/ del'.asset.image \in overlap'
                           \/ /\ assets'[del'.asset.image] = 0
                              /\ \A w \in Uploaders : up'[w].at # "idle" => up'[w].image # del'.asset.image
    BY <2>2, <2>3, <2>4, <2>5 DEF FileInv
  <2> QED BY <2>2, <2>3, <2>4, <2>5, <2>6 DEF FileInv, MadeTyped, GetAsset
<1>2. CASE storeAsset(u)
  <2>1. up' = [up EXCEPT ![u].at = "insert"] /\ files' = files \cup {up[u].image} /\ up[u].at = "write"
        /\ UNCHANGED <<assets, made, del, overlap>>
    BY <1>2 DEF storeAsset, runVars
  <2> QED BY <2>1 DEF FileInv, MadeTyped, GetAsset
<1>3. CASE InsertAsset(u)
  <2> DEFINE i == up[u].image
  <2>1. i \in Images /\ made[i] \in Nat /\ assets[i] \in Nat /\ DOMAIN assets = Images
    BY DEF FileInv, MadeTyped, StreamInv, StreamTyped
  <2>2. up' = [up EXCEPT ![u].at = "idle"] /\ UNCHANGED <<files, del, overlap>> /\ up[u].at = "insert"
    BY <1>3 DEF InsertAsset, runVars
  <2>3. CASE assets[i] # 0
    <3>1. UNCHANGED <<assets, made>> BY <1>3, <2>3 DEF InsertAsset, GetAssetBySHA256
    <3> QED BY <2>2, <3>1 DEF FileInv, MadeTyped, GetAsset
  <2>4. CASE assets[i] = 0
    <3>1. made' = [made EXCEPT ![i] = made[i] + 1] /\ assets' = [assets EXCEPT ![i] = made[i] + 1]
      BY <1>3, <2>4 DEF InsertAsset, GetAssetBySHA256
    <3>2. i \in files \cup overlap BY <2>2 DEF FileInv
    <3>3. MadeTyped' BY <2>1, <2>2, <3>1 DEF FileInv, MadeTyped
    <3>4. \A j \in Images : assets'[j] # 0 => j \in files' \cup overlap'
      BY <2>1, <2>2, <3>1, <3>2 DEF FileInv
    <3>5. del.at = "row" => GetAsset(del.asset)'
      BY <2>1, <2>2, <2>4, <3>1 DEF FileInv, GetAsset
    <3>6. del.at = "file" => \/ del.asset.image \in overlap
                             \/ /\ assets'[del.asset.image] = 0
                                /\ \A w \in Uploaders : up'[w].at # "idle" => up'[w].image # del.asset.image
      <4> SUFFICES ASSUME del.at = "file", del.asset.image \notin overlap
                   PROVE  /\ assets'[del.asset.image] = 0
                          /\ \A w \in Uploaders : up'[w].at # "idle" => up'[w].image # del.asset.image
        OBVIOUS
      <4>1. /\ assets[del.asset.image] = 0
            /\ \A w \in Uploaders : up[w].at # "idle" => up[w].image # del.asset.image
        BY DEF FileInv
      <4>2. i # del.asset.image BY <2>2, <4>1
      <4>3. assets'[del.asset.image] = assets[del.asset.image] BY <3>1, <4>2
      <4>4. \A w \in Uploaders : up'[w].at # "idle" => up[w].at # "idle" /\ up'[w].image = up[w].image
        BY <2>2 DEF FileInv
      <4> QED BY <4>1, <4>3, <4>4
    <3> QED BY <2>2, <3>3, <3>4, <3>5, <3>6 DEF FileInv
  <2> QED BY <2>3, <2>4
<1> QED BY <1>1, <1>2, <1>3

\* A deletion removes the row before the file.
LEMMA DeleteFiles == ASSUME StreamInv, FileInv, DeleteAssetBegin \/ DeleteStep PROVE FileInv'
<1>1. UNCHANGED <<made, up>>
  BY DEF DeleteAssetBegin, DeleteStep, DeleteAsset, DeleteAssetFile, DeleteAssetDirs, assetVars, upVars
<1>2. CASE DeleteAssetBegin
  <2>1. UNCHANGED <<assets, files, overlap>> BY <1>2 DEF DeleteAssetBegin, assetVars, runVars
  <2>2. PICK i \in Images : /\ assets[i] # 0 /\ del'.at = "row"
                            /\ del'.asset = [image |-> i, row |-> assets[i]]
    BY <1>2 DEF DeleteAssetBegin, GetAssetBySHA256, Asset
  <2>3. GetAsset(del'.asset) BY <2>2 DEF GetAsset
  <2>4. GetAsset(del.asset)' BY <2>1, <2>3 DEF GetAsset
  <2> QED BY <1>1, <2>1, <2>2, <2>4 DEF FileInv, MadeTyped
<1>3. CASE DeleteAsset
  <2>1. UNCHANGED files /\ GetAsset(del.asset) /\ del.asset \in AssetIDs
    BY <1>3 DEF DeleteAsset, FileInv, StreamInv, StreamTyped
  <2>2. overlap \subseteq overlap' BY <1>3 DEF DeleteAsset, Overlapping, runVars
  <2>3. \/ del'.at = "idle" /\ UNCHANGED assets
        \/ /\ del'.at = "file" /\ del'.asset = del.asset
           /\ assets' = [assets EXCEPT ![del.asset.image] = 0]
    <3>1. \/ del' = [del EXCEPT !.at = "idle", !.asset = NoAsset, !.dirs = {}] /\ UNCHANGED assets
          \/ /\ del' = [del EXCEPT !.at = "file"]
             /\ assets' = [assets EXCEPT ![del.asset.image] = 0]
      BY <1>3, <2>1 DEF DeleteAsset
    <3> QED BY <3>1 DEF StreamInv, StreamTyped
  <2>4. del'.at = "file" =>
          \/ del'.asset.image \in overlap'
          \/ \A u \in Uploaders : up'[u].at # "idle" => up'[u].image # del'.asset.image
    <3> SUFFICES ASSUME del'.at = "file"
                 PROVE  \/ del'.asset.image \in overlap'
                        \/ \A u \in Uploaders : up'[u].at # "idle" => up'[u].image # del'.asset.image
      OBVIOUS
    <3>1. Overlapping BY <1>3 DEF DeleteAsset, StreamInv, StreamTyped
    <3> QED BY <3>1 DEF Overlapping
  <2>5. \A i \in Images : assets'[i] # 0 => assets[i] # 0 BY <2>3 DEF StreamInv, StreamTyped
  <2>6. del'.at = "file" => assets'[del'.asset.image] = 0
    BY <2>1, <2>3 DEF StreamInv, StreamTyped, AssetIDs
  <2> QED BY <1>1, <2>1, <2>2, <2>3, <2>4, <2>5, <2>6 DEF FileInv, MadeTyped
<1>4. CASE DeleteAssetFile
  <2>1. /\ files' = files \ {del.asset.image} /\ del'.at = "dirs"
        /\ UNCHANGED <<assets, overlap>> /\ del.at = "file"
    BY <1>4 DEF DeleteAssetFile, StreamInv, StreamTyped, runVars
  <2> QED BY <1>1, <2>1 DEF FileInv, MadeTyped
<1>5. CASE DeleteAssetDirs
  BY <1>1, <1>5 DEF DeleteAssetDirs, assetVars, FileInv, MadeTyped
<1> QED BY <1>2, <1>3, <1>4, <1>5 DEF DeleteStep

\* A crash ends uploads and deletions where they are.
LEMMA RestartFiles == ASSUME FileInv, Restart PROVE FileInv'
<1>1. /\ UNCHANGED <<assets, made, files, overlap>>
      /\ up' = [u \in Uploaders |-> [at |-> "idle", image |-> Builtin]]
      /\ del' = [at |-> "idle", asset |-> NoAsset, dirs |-> {}]
  BY DEF Restart, assetVars
<1> QED BY <1>1, LibraryAssumption DEF FileInv, MadeTyped

\* Nothing else touches the files of images.
LEMMA OtherFiles ==
  ASSUME FileInv,
         \/ \E c \in Cams : UpdateCameraStream(c) \/ UpdateCameraConfig(c) \/ EditStep(c) \/ RegenStep(c)
         \/ (\E k \in Keys : JobStep(k)) \/ PlanStep \/ PrepareStep
         \/ (\E e \in Encoders : ResumeJob(e) \/ CancelJob(e))
         \/ CollectList \/ CollectStep \/ SweepStep \/ DayPasses \/ UNCHANGED vars
  PROVE  FileInv'
<1>1. UNCHANGED <<assets, made, files, up, del, overlap>>
  <2>1. CASE \E c \in Cams : UpdateCameraStream(c) \/ UpdateCameraConfig(c) \/ EditStep(c) \/ RegenStep(c)
    BY <2>1 DEF UpdateCameraStream, UpdateCameraConfig, EditStep, RegenStep, UpdateCameraStreamTx,
           regenerateStreamsLater, RegenRound, loadBundle, streamRendition, PointStream, encodeRendition,
           RegenAgain, RegenEnd, assetVars, upVars, runVars
  <2>2. CASE (\E k \in Keys : JobStep(k)) \/ PrepareStep
    BY <2>2 DEF JobStep, PrepareStep, runRendition, EncodeStep, EncodeAcquire, EncodeStream, EncodeSnapshot,
           EncodeUnlock, RenditionDone, prepareOne, PrepareRetry, PrepareDone, assetVars, upVars, runVars
  <2>3. CASE PlanStep \/ \E e \in Encoders : ResumeJob(e) \/ CancelJob(e)
    BY <2>3 DEF PlanStep, runPrepareRenditions, plannedRenditions, PlanRendition, PlanStream, PlanSaved,
           ResumeJob, CancelJob, assetVars, upVars, runVars
  <2>4. CASE CollectList \/ CollectStep \/ SweepStep \/ DayPasses \/ UNCHANGED vars
    BY <2>4 DEF CollectList, CollectStep, CollectTake, CollectRow, CollectDir, SweepStep, sweepRenditionDirs,
           ReadDir, SweepCheck, SweepRemove, SweepEnd, DayPasses, vars, assetVars, upVars, runVars
  <2> QED BY <2>1, <2>2, <2>3, <2>4
<1> QED BY <1>1 DEF FileInv, MadeTyped, GetAsset

\* Only a plan, a crash and a cancel touch what a plan remembers.
LEMMA PlannerKept ==
  ASSUME PlannerInv, [Next]_vars, ~PlanStep, ~Restart PROVE PlannerInv'
<1>1. planner' = planner \/ planner' = NoPlanner
  <2>1. CASE \E c \in Cams : UpdateCameraStream(c) \/ UpdateCameraConfig(c) \/ EditStep(c) \/ RegenStep(c)
    BY <2>1 DEF UpdateCameraStream, UpdateCameraConfig, EditStep, RegenStep, UpdateCameraStreamTx,
           regenerateStreamsLater, RegenRound, loadBundle, streamRendition, PointStream, encodeRendition,
           RegenAgain, RegenEnd, encVars, planVars
  <2>2. CASE (\E k \in Keys : JobStep(k)) \/ PrepareStep
    BY <2>2 DEF JobStep, PrepareStep, runRendition, EncodeStep, EncodeAcquire, EncodeStream, EncodeSnapshot,
           EncodeUnlock, RenditionDone, prepareOne, PrepareRetry, PrepareDone, encVars, planVars
  <2>3. CASE \E e \in Encoders : ResumeJob(e) \/ CancelJob(e)
    BY <2>3 DEF ResumeJob, CancelJob, planVars
  <2>4. CASE CollectList \/ CollectStep \/ SweepStep \/ DayPasses \/ UNCHANGED vars
    BY <2>4 DEF CollectList, CollectStep, CollectTake, CollectRow, CollectDir, SweepStep, sweepRenditionDirs,
           ReadDir, SweepCheck, SweepRemove, SweepEnd, DayPasses, vars, encVars, planVars
  <2>5. CASE (\E u \in Uploaders : UploadAsset(u) \/ UploadStep(u)) \/ DeleteAssetBegin \/ DeleteStep
    BY <2>5 DEF UploadAsset, UploadStep, storeAsset, InsertAsset, DeleteAssetBegin, DeleteStep, DeleteAsset,
           DeleteAssetFile, DeleteAssetDirs, encVars, planVars
  <2> QED BY <2>1, <2>2, <2>3, <2>4, <2>5 DEF Next
<1> QED BY <1>1, PlannerMoves

\* Every step keeps streams, rows and files as they should be.
LEMMA LibraryStep ==
  StreamInv /\ PlannerInv /\ FileInv /\ [Next]_vars => StreamInv' /\ PlannerInv' /\ FileInv'
<1> SUFFICES ASSUME StreamInv, PlannerInv, FileInv, [Next]_vars PROVE StreamInv' /\ PlannerInv' /\ FileInv' OBVIOUS
<1>0. PlannerInv' BY PlannerKept, PlanSteps, RestartStep
<1> SUFFICES StreamInv' /\ FileInv' BY <1>0
<1>1. ASSUME NEW u \in Uploaders, UploadAsset(u) \/ UploadStep(u) PROVE StreamInv' /\ FileInv'
  <2>1. FileInv' BY <1>1, UploadFiles DEF UploadStep
  <2>2. StreamInv' BY <1>1, OtherSteps, InsertAssetStep DEF UploadStep, FileInv
  <2> QED BY <2>1, <2>2
<1>2. CASE DeleteAssetBegin \/ DeleteStep BY <1>2, DeleteSteps, DeleteFiles
<1>3. ASSUME NEW c \in Cams, UpdateCameraStream(c) \/ UpdateCameraConfig(c) \/ EditStep(c) \/ RegenStep(c)
      PROVE  StreamInv' /\ FileInv'
  <2>1. FileInv' BY <1>3, OtherFiles
  <2>2. CASE UpdateCameraStream(c) BY <2>1, <2>2, UpdateCameraStreamStep
  <2>3. CASE UpdateCameraConfig(c) BY <2>1, <2>3, EditSteps
  <2>4. CASE EditStep(c) BY <2>1, <2>4, UpdateCameraStreamTxStep, EditSteps DEF EditStep
  <2>5. CASE RegenStep(c)
    BY <2>1, <2>5, RegenSteps, loadBundleStep, streamRenditionStep, PointStreamStep DEF RegenStep
  <2> QED BY <1>3, <2>2, <2>3, <2>4, <2>5
<1>4. CASE (\E k \in Keys : JobStep(k)) \/ PrepareStep BY <1>4, JobSteps, OtherFiles
<1>5. CASE PlanStep BY <1>5, PlanSteps, OtherFiles
<1>6. CASE CollectList \/ CollectStep \/ SweepStep
  <2>1. FileInv' BY <1>6, OtherFiles
  <2>2. StreamInv' BY <1>6, OtherSteps, CollectRowStep DEF CollectStep
  <2> QED BY <2>1, <2>2
<1>7. CASE DayPasses BY <1>7, DayPassesStep, OtherFiles
<1>8. CASE Restart BY <1>8, RestartStep, RestartFiles
<1>9. CASE (\E e \in Encoders : ResumeJob(e) \/ CancelJob(e)) \/ UNCHANGED vars BY <1>9, OtherSteps, OtherFiles
<1> QED BY <1>1, <1>2, <1>3, <1>4, <1>5, <1>6, <1>7, <1>8, <1>9 DEF Next

\* They are so in every state.
LEMMA LibraryAlways == Spec => [](StreamInv /\ PlannerInv /\ FileInv)
BY FileInit, LibraryStep, PTL DEF Spec

\* Whatever uploads, deletions, edits, regenerations, plans, collections and
\* crashes run together, the image of a camera stream exists, and so does the
\* rendition the stream points to, which is one of that image.
THEOREM StreamRenditionMatchesAlways == Spec => []StreamRenditionMatches
<1>1. StreamInv => StreamRenditionMatches BY DEF StreamInv
<1> QED BY <1>1, LibraryAlways, PTL

\* storeAsset writes the file before the row and DeleteAsset removes it after
\* the row, so an image in the store has its file at every point of every
\* upload, deletion and crash, unless an upload of it was under way while the
\* file of its deleted row was removed.
THEOREM ImageFileKeptAlways == Spec => []ImageFileKept
<1>1. FileInv => ImageFileKept BY DEF FileInv, ImageFileKept, GetAssetBySHA256
<1> QED BY <1>1, LibraryAlways, PTL

-----------------------------------------------------------------------------
(* Encode locks *)

Using(e)   == enc[e].at \in {"wait", "hold", "snapshot", "unlock", "drop"}
Holding(e) == enc[e].at \in {"hold", "snapshot", "unlock"}

\* The encoders with a reference to the lock of a key, and whether the
\* collector has one that it also holds.
Users(k) == {e \in Encoders : Using(e) /\ Key(enc[e].rend) = k}
Collecting(k) == col.at \in {"row", "dir"} /\ Key(col.item) = k

\* Encoders without a rendition.
Resting(e) ==
  enc[e].at = "idle" \/ (e = Prepare /\ enc[e].at \in {"next", "plan", "interrupted"})

LockTyped ==
  /\ DOMAIN enc = Encoders
  /\ \A e \in Encoders :
       /\ DOMAIN enc[e] = {"at", "rend", "lock", "ok"}
       /\ Resting(e) \/ Key(enc[e].rend) \in Keys
  /\ DOMAIN locks = Keys
  /\ \A k \in Keys : DOMAIN locks[k] = {"obj", "refs"} /\ locks[k].refs \in Nat
  /\ DOMAIN col = {"at", "todo", "item", "lock", "keys"}
  /\ \A r \in col.todo : Key(r) \in Keys
  /\ col.at \in {"row", "dir"} => Key(col.item) \in Keys

\* Every reference is counted, so the entry stays while there is a user and
\* all users of a key have the lock of the map; a holder has it locked.
KeyInv(k) ==
  /\ locks[k].obj = 0 <=> locks[k].refs = 0
  /\ locks[k].refs >= Cardinality(Users(k)) + (IF Collecting(k) THEN 1 ELSE 0)
  /\ \A e \in Users(k) : enc[e].lock = locks[k].obj
  /\ Collecting(k) => col.lock = locks[k].obj
  /\ \A e \in Users(k) : Holding(e) => <<k, locks[k].obj>> \in held
  /\ Collecting(k) => <<k, locks[k].obj>> \in held
  /\ \A e, f \in Users(k) : Holding(e) /\ Holding(f) => e = f
  /\ Collecting(k) => \A e \in Users(k) : ~Holding(e)

LockInv == LockTyped /\ \A k \in Keys : KeyInv(k)

\* There are finitely many users of encode locks, so references can be
\* counted.
LEMMA EncodersFinite == IsFiniteSet(Encoders)
BY FS_Product, FS_Singleton, FS_Union, LibraryAssumption DEF Encoders, Keys, LibraryAssumption

\* So the users of one lock are finite, now and after a step.
LEMMA UsersFinite ==
  ASSUME NEW k
  PROVE  /\ IsFiniteSet(Users(k)) /\ Cardinality(Users(k)) \in Nat
         /\ IsFiniteSet(Users(k)') /\ Cardinality(Users(k)') \in Nat
<1>1. Users(k) \in SUBSET Encoders /\ Users(k)' \in SUBSET Encoders BY DEF Users, Encoders, Keys
<1>2. IsFiniteSet(Users(k)) /\ IsFiniteSet(Users(k)') BY <1>1, EncodersFinite, FS_Subset
<1> QED BY <1>2, FS_CardinalityType

\* The number of a new lock differs from those in use, so there is one.
LEMMA LockIsFresh == ASSUME NEW k \in Keys PROVE LockOf(k) # 0
<1> DEFINE S == {x \in Encoders : Key(enc[x].rend) = k}
           T == {enc[e].lock : e \in S}
           L == LockObjects(k)
           n == Cardinality(L)
<1>1. IsFiniteSet(T)
  <2> DEFINE f == [e \in S |-> enc[e].lock]
  <2>1. f \in Surjection(S, T) BY DEF Surjection
  <2>2. IsFiniteSet(S) BY EncodersFinite, FS_Subset
  <2> HIDE DEF f, S, T
  <2> QED BY <2>1, <2>2, FS_Surjection
<1>2. IsFiniteSet(L)
  <2>1. IsFiniteSet({col.lock}) /\ IsFiniteSet({}) BY FS_Singleton, FS_EmptySet
  <2>2. L = T \cup (IF col.at # "idle" /\ Key(col.item) = k THEN {col.lock} ELSE {}) BY DEF LockObjects
  <2>3. L = T \cup {col.lock} \/ L = T \cup {} BY <2>2
  <2> HIDE DEF L, T
  <2> QED BY <1>1, <2>1, <2>3, FS_Union
<1> HIDE DEF L
<1>3. n \in Nat BY <1>2, FS_CardinalityType
<1>4. \E m \in 1 .. n + 1 : m \notin L
  <2> SUFFICES ASSUME 1 .. n + 1 \subseteq L PROVE FALSE OBVIOUS
  <2>1. Cardinality(1 .. n + 1) <= n BY <1>2, FS_Subset
  <2>2. Cardinality(1 .. n + 1) = n + 1 BY <1>3, FS_Interval
  <2> QED BY <1>3, <2>1, <2>2
<1>5. CASE locks[k].obj # 0 BY <1>5 DEF LockOf
<1>6. CASE locks[k].obj = 0
  <2>1. LockOf(k) = CHOOSE m \in 1 .. n + 1 : m \notin L BY <1>6 DEF LockOf, L
  <2>2. LockOf(k) \in 1 .. n + 1 BY <1>4, <2>1
  <2> QED BY <1>3, <2>2
<1> QED BY <1>5, <1>6

\* What a step must leave alone for a key to keep its invariant.
LEMMA KeyUntouched ==
  ASSUME NEW k \in Keys, KeyInv(k), locks'[k] = locks[k],
         \A l : <<k, l>> \in held => <<k, l>> \in held',
         Users(k)' = Users(k),
         \A e \in Users(k) : enc'[e].lock = enc[e].lock /\ (Holding(e)' => Holding(e)),
         Collecting(k)' <=> Collecting(k), Collecting(k) => col'.lock = col.lock
  PROVE  KeyInv(k)'
<1> DEFINE n == Cardinality(Users(k))
<1>1. Cardinality(Users(k)') = n OBVIOUS
<1>2. (locks[k].refs >= Cardinality(Users(k)) + (IF Collecting(k) THEN 1 ELSE 0))' BY DEF KeyInv
<1>3. \A e \in Users(k)' : enc'[e].lock = locks'[k].obj BY DEF KeyInv
<1>4. \A e \in Users(k)' : Holding(e)' => <<k, locks'[k].obj>> \in held' BY DEF KeyInv
<1>5. \A e, f \in Users(k)' : Holding(e)' /\ Holding(f)' => e = f BY DEF KeyInv
<1>6. Collecting(k)' => \A e \in Users(k)' : ~Holding(e)' BY DEF KeyInv
<1> QED BY <1>2, <1>3, <1>4, <1>5, <1>6 DEF KeyInv

\* With no entry there is no user.
LEMMA NoEntryNoUser ==
  ASSUME NEW k \in Keys, KeyInv(k), locks[k].refs \in Nat, locks[k].obj = 0
  PROVE  Users(k) = {} /\ ~Collecting(k)
<1>1. Cardinality(Users(k)) \in Nat /\ IsFiniteSet(Users(k)) BY UsersFinite
<1>2. Cardinality(Users(k)) = 0 /\ ~Collecting(k) BY <1>1 DEF KeyInv
<1> QED BY <1>1, <1>2, FS_EmptySet

\* Encoders that do not use a lock before or after a step move freely.
LEMMA OutsideMoves ==
  ASSUME LockInv, UNCHANGED <<locks, held, col>>, DOMAIN enc' = Encoders,
         \A e \in Encoders : enc'[e] = enc[e] \/
           /\ ~Using(e) /\ ~Using(e)'
           /\ DOMAIN enc'[e] = {"at", "rend", "lock", "ok"}
           /\ Resting(e)' \/ Key(enc'[e].rend) \in Keys
  PROVE  LockInv'
<1>1. LockTyped' BY DEF LockInv, LockTyped, Resting
<1>2. ASSUME NEW k \in Keys PROVE KeyInv(k)'
  <2>1. Users(k)' = Users(k) BY DEF Users, Using
  <2>2. \A e \in Users(k) : enc'[e].lock = enc[e].lock /\ (Holding(e)' => Holding(e))
    BY DEF Users, Using, Holding
  <2>3. Collecting(k)' <=> Collecting(k) BY DEF Collecting
  <2> QED BY <2>1, <2>2, <2>3, KeyUntouched DEF LockInv
<1> QED BY <1>1, <1>2 DEF LockInv

\* A holder goes on, to unlocking at last.
LEMMA HolderMoves ==
  ASSUME LockInv, NEW e \in Encoders, Holding(e), UNCHANGED <<locks, held, col>>,
         NEW at \in {"snapshot", "unlock"}, NEW ok,
         enc' = [enc EXCEPT ![e].at = at] \/ enc' = [enc EXCEPT ![e].at = at, ![e].ok = ok]
  PROVE  LockInv'
<1>1. /\ DOMAIN enc' = Encoders
      /\ \A f \in Encoders : /\ DOMAIN enc'[f] = DOMAIN enc[f]
                             /\ enc'[f].rend = enc[f].rend /\ enc'[f].lock = enc[f].lock
                             /\ enc'[f].at = IF f = e THEN at ELSE enc[f].at
  BY DEF LockInv, LockTyped
<1>2. LockTyped' BY <1>1 DEF LockInv, LockTyped, Holding, Resting
<1>3. ASSUME NEW k \in Keys PROVE KeyInv(k)'
  <2>1. Users(k)' = Users(k) BY <1>1 DEF Users, Using, Holding
  <2>2. \A f \in Users(k) : enc'[f].lock = enc[f].lock /\ (Holding(f)' => Holding(f))
    BY <1>1 DEF Users, Holding
  <2>3. Collecting(k)' <=> Collecting(k) BY DEF Collecting
  <2> QED BY <2>1, <2>2, <2>3, KeyUntouched DEF LockInv
<1> QED BY <1>2, <1>3 DEF LockInv

\* A reference more: the entry of the map is found or made.
LEMMA TakeRefStep ==
  ASSUME LockInv, NEW e \in Encoders, NEW r, Key(r) \in Keys, ~Using(e), TakeRef(e, r),
         UNCHANGED <<held, col>>
  PROVE  LockInv'
<1> DEFINE q == Key(r)
           l == LockOf(q)
<1>1. /\ locks' = [locks EXCEPT ![q] = [obj |-> l, refs |-> locks[q].refs + 1]]
      /\ enc' = [enc EXCEPT ![e] = [Idle EXCEPT !.at = "wait", !.rend = r, !.lock = l]]
  BY DEF TakeRef, encodeLock
<1>2. l # 0 BY LockIsFresh
<1>3. locks[q].obj # 0 => l = locks[q].obj BY DEF LockOf
<1> HIDE DEF l
<1>4. \A f \in Encoders : f # e => enc'[f] = enc[f] BY <1>1 DEF LockInv, LockTyped
<1>5. /\ DOMAIN enc'[e] = {"at", "rend", "lock", "ok"}
      /\ enc'[e].at = "wait" /\ enc'[e].rend = r /\ enc'[e].lock = l
  BY <1>1 DEF LockInv, LockTyped, Idle
<1>6. LockTyped' BY <1>1, <1>4, <1>5 DEF LockInv, LockTyped, Resting
<1>7. Using(e)' /\ ~Holding(e)' /\ enc'[e].lock = l /\ enc'[e].rend = r BY <1>5 DEF Using, Holding
<1>8. ASSUME NEW k \in Keys, k # q PROVE KeyInv(k)'
  <2>1. Users(k)' = Users(k) BY <1>4, <1>7, <1>8 DEF Users, Using
  <2>2. \A f \in Users(k) : enc'[f].lock = enc[f].lock /\ (Holding(f)' => Holding(f))
    BY <1>4, <1>7 DEF Users, Using, Holding
  <2>3. (Collecting(k)' <=> Collecting(k)) /\ locks'[k] = locks[k] BY <1>1, <1>8 DEF Collecting, LockInv, LockTyped
  <2> QED BY <2>1, <2>2, <2>3, KeyUntouched DEF LockInv
<1>9. KeyInv(q)'
  <2>1. Users(q)' = Users(q) \cup {e} /\ e \notin Users(q) BY <1>4, <1>7 DEF Users, Using
  <2>2. locks'[q].obj = l /\ locks'[q].refs = locks[q].refs + 1 /\ locks[q].refs \in Nat
    BY <1>1 DEF LockInv, LockTyped
  <2>3. Collecting(q)' <=> Collecting(q) BY DEF Collecting
  <2>4. locks[q].obj = 0 => Users(q) = {} /\ ~Collecting(q) BY <2>2, NoEntryNoUser DEF LockInv
  <2>5. Cardinality(Users(q)') = Cardinality(Users(q)) + 1 /\ Cardinality(Users(q)) \in Nat
    BY <2>1, UsersFinite, FS_AddElement
  <2>6. KeyInv(q) BY DEF LockInv
  <2>7. \A f \in Users(q) : f # e /\ f \in Encoders /\ enc'[f] = enc[f] /\ (Holding(f)' <=> Holding(f))
    BY <1>4, <2>1 DEF Users, Holding
  <2>8. (locks[q].refs >= Cardinality(Users(q)) + (IF Collecting(q) THEN 1 ELSE 0))'
    BY <2>2, <2>3, <2>5, <2>6 DEF KeyInv
  <2>9. (locks[q].obj = 0 <=> locks[q].refs = 0)' BY <1>2, <2>2
  <2>10. \A f \in Users(q)' : enc'[f].lock = locks'[q].obj
    BY <1>3, <1>7, <2>1, <2>2, <2>4, <2>6, <2>7 DEF KeyInv
  <2>11. Collecting(q)' => col'.lock = locks'[q].obj /\ <<q, locks'[q].obj>> \in held'
    BY <1>3, <2>2, <2>3, <2>4, <2>6 DEF KeyInv
  <2>12. \A f \in Users(q)' : Holding(f)' => f \in Users(q) /\ Holding(f)
    BY <1>7, <2>1, <2>7
  <2>13. \A f \in Users(q)' : Holding(f)' => <<q, locks'[q].obj>> \in held'
    BY <1>3, <2>2, <2>4, <2>6, <2>12 DEF KeyInv
  <2>14. \A f, g \in Users(q)' : Holding(f)' /\ Holding(g)' => f = g BY <2>6, <2>12 DEF KeyInv
  <2>15. Collecting(q)' => \A f \in Users(q)' : ~Holding(f)' BY <2>3, <2>6, <2>12 DEF KeyInv
  <2> HIDE DEF q
  <2> QED BY <2>8, <2>9, <2>10, <2>11, <2>13, <2>14, <2>15 DEF KeyInv
<1> QED BY <1>6, <1>8, <1>9 DEF LockInv

\* The lock is taken when nobody has it locked.
LEMMA EncodeAcquireStep == ASSUME LockInv, NEW e \in Encoders, EncodeAcquire(e) PROVE LockInv'
<1>0. PICK q, l : q = Key(enc[e].rend) /\ l = enc[e].lock OBVIOUS
<1>1. /\ enc[e].at = "wait" /\ <<q, l>> \notin held /\ held' = held \cup {<<q, l>>}
      /\ enc' = [enc EXCEPT ![e].at = "hold"] /\ UNCHANGED <<locks, col>>
  BY <1>0 DEF EncodeAcquire, EncAt
<1>2. /\ DOMAIN enc' = Encoders
      /\ \A f \in Encoders : /\ DOMAIN enc'[f] = DOMAIN enc[f]
                             /\ enc'[f].rend = enc[f].rend /\ enc'[f].lock = enc[f].lock
                             /\ enc'[f].at = IF f = e THEN "hold" ELSE enc[f].at
  BY <1>1 DEF LockInv, LockTyped
<1>3. LockTyped' BY <1>1, <1>2 DEF LockInv, LockTyped, Resting
<1>4. \A k : Users(k)' = Users(k) BY <1>1, <1>2 DEF Users, Using
<1>5. e \in Users(q) /\ q \in Keys BY <1>0, <1>1 DEF Users, Using, LockInv, LockTyped, Resting
<1>6. \A f \in Encoders : f # e => (Holding(f)' <=> Holding(f)) BY <1>2 DEF Holding
<1>7. \A k : Collecting(k)' <=> Collecting(k) BY <1>1 DEF Collecting
<1>8. ASSUME NEW k \in Keys, k # q PROVE KeyInv(k)'
  <2>1. \A f \in Users(k) : f # e /\ enc'[f].lock = enc[f].lock /\ (Holding(f)' => Holding(f))
    BY <1>0, <1>2, <1>6, <1>8 DEF Users
  <2>2. Users(k)' = Users(k) /\ (Collecting(k)' <=> Collecting(k)) BY <1>4, <1>7
  <2> QED BY <1>1, <2>1, <2>2, KeyUntouched DEF LockInv
<1>9. KeyInv(q)'
  <2>1. KeyInv(q) BY <1>5 DEF LockInv
  <2>2. l = locks[q].obj BY <1>0, <1>5, <2>1 DEF KeyInv
  <2>3. ~Collecting(q) /\ \A f \in Users(q) : ~Holding(f) BY <1>1, <2>1, <2>2 DEF KeyInv
  <2>4. Users(q)' = Users(q) /\ ~Collecting(q)' BY <1>4, <1>7, <2>3
  <2>5. \A f \in Users(q) : f # e => ~Holding(f)' BY <1>6, <2>3 DEF Users
  <2>6. \A f \in Users(q) : enc'[f].lock = locks'[q].obj BY <1>1, <1>2, <2>1 DEF KeyInv, Users
  <2>7. (locks[q].refs >= Cardinality(Users(q)) + (IF Collecting(q) THEN 1 ELSE 0))'
    <3>1. Cardinality(Users(q)') = Cardinality(Users(q)) BY <2>4
    <3> QED BY <1>1, <2>1, <2>3, <2>4, <3>1 DEF KeyInv
  <2>8. (locks[q].obj = 0 <=> locks[q].refs = 0)' BY <1>1, <2>1 DEF KeyInv
  <2>9. <<q, locks'[q].obj>> \in held' BY <1>1, <2>2
  <2> QED BY <2>4, <2>5, <2>6, <2>7, <2>8, <2>9 DEF KeyInv
<1> QED BY <1>3, <1>8, <1>9 DEF LockInv

\* It is given back by its holder alone.
LEMMA EncodeUnlockStep == ASSUME LockInv, NEW e \in Encoders, EncodeUnlock(e) PROVE LockInv'
<1>0. PICK q, l : q = Key(enc[e].rend) /\ l = enc[e].lock OBVIOUS
<1>1. /\ enc[e].at = "unlock" /\ held' = held \ {<<q, l>>}
      /\ enc' = [enc EXCEPT ![e].at = "drop"] /\ UNCHANGED <<locks, col>>
  BY <1>0 DEF EncodeUnlock, EncAt
<1>2. /\ DOMAIN enc' = Encoders
      /\ \A f \in Encoders : /\ DOMAIN enc'[f] = DOMAIN enc[f]
                             /\ enc'[f].rend = enc[f].rend /\ enc'[f].lock = enc[f].lock
                             /\ enc'[f].at = IF f = e THEN "drop" ELSE enc[f].at
  BY <1>1 DEF LockInv, LockTyped
<1>3. LockTyped' BY <1>1, <1>2 DEF LockInv, LockTyped, Resting
<1>4. \A k : Users(k)' = Users(k) BY <1>1, <1>2 DEF Users, Using
<1>5. e \in Users(q) /\ q \in Keys /\ Holding(e) /\ ~Holding(e)'
  BY <1>0, <1>1, <1>2 DEF Users, Using, Holding, LockInv, LockTyped, Resting
<1>6. \A f \in Encoders : Holding(f)' => Holding(f) /\ f # e BY <1>2, <1>5 DEF Holding
<1>7. \A k : Collecting(k)' <=> Collecting(k) BY <1>1 DEF Collecting
<1>8. ASSUME NEW k \in Keys, k # q PROVE KeyInv(k)'
  <2>1. \A f \in Users(k) : enc'[f].lock = enc[f].lock /\ (Holding(f)' => Holding(f))
    BY <1>2, <1>6 DEF Users
  <2>2. Users(k)' = Users(k) /\ (Collecting(k)' <=> Collecting(k)) BY <1>4, <1>7
  <2>3. \A x : <<k, x>> \in held => <<k, x>> \in held' BY <1>1, <1>8
  <2> QED BY <1>1, <2>1, <2>2, <2>3, KeyUntouched DEF LockInv
<1>9. KeyInv(q)'
  <2>1. KeyInv(q) BY <1>5 DEF LockInv
  <2>2. ~Collecting(q) /\ \A f \in Users(q) : Holding(f) => f = e BY <1>5, <2>1 DEF KeyInv
  <2>3. Users(q)' = Users(q) /\ ~Collecting(q)' BY <1>4, <1>7, <2>2
  <2>4. \A f \in Users(q) : ~Holding(f)' BY <1>6, <2>2 DEF Users
  <2>5. \A f \in Users(q) : enc'[f].lock = locks'[q].obj BY <1>1, <1>2, <2>1 DEF KeyInv, Users
  <2>6. (locks[q].refs >= Cardinality(Users(q)) + (IF Collecting(q) THEN 1 ELSE 0))'
    <3>1. Cardinality(Users(q)') = Cardinality(Users(q)) BY <2>3
    <3> QED BY <1>1, <2>1, <2>2, <2>3, <3>1 DEF KeyInv
  <2>7. (locks[q].obj = 0 <=> locks[q].refs = 0)' BY <1>1, <2>1 DEF KeyInv
  <2> QED BY <2>3, <2>4, <2>5, <2>6, <2>7 DEF KeyInv
<1> QED BY <1>3, <1>8, <1>9 DEF LockInv

\* What dropEncodeLock leaves in the map.
LEMMA Dropped ==
  ASSUME LockTyped, NEW q \in Keys, dropEncodeLock(q)
  PROVE  /\ DOMAIN locks' = Keys
         /\ \A k \in Keys : k # q => locks'[k] = locks[k]
         /\ DOMAIN locks'[q] = {"obj", "refs"}
         /\ locks[q].refs <= 1 => locks'[q].obj = 0 /\ locks'[q].refs = 0
         /\ locks[q].refs > 1 => locks'[q].obj = locks[q].obj /\ locks'[q].refs = locks[q].refs - 1
         /\ locks'[q].refs \in Nat
<1>1. locks[q].refs \in Nat /\ DOMAIN locks = Keys /\ DOMAIN locks[q] = {"obj", "refs"} BY DEF LockTyped
<1>2. CASE locks[q].refs <= 1
  <2>1. locks' = [locks EXCEPT ![q] = [obj |-> 0, refs |-> 0]] BY <1>2 DEF dropEncodeLock
  <2> QED BY <1>1, <1>2, <2>1
<1>3. CASE ~(locks[q].refs <= 1)
  <2>1. locks' = [locks EXCEPT ![q] = [obj |-> locks[q].obj, refs |-> locks[q].refs - 1]] BY <1>3 DEF dropEncodeLock
  <2> QED BY <1>1, <1>3, <2>1
<1> QED BY <1>2, <1>3

\* A reference less: the entry goes with the last user.
LEMMA EncoderDrops ==
  ASSUME LockInv, NEW e \in Encoders, enc[e].at = "drop", dropEncodeLock(Key(enc[e].rend)),
         UNCHANGED <<held, col>>, DOMAIN enc' = Encoders,
         \A f \in Encoders : f # e => enc'[f] = enc[f],
         DOMAIN enc'[e] = {"at", "rend", "lock", "ok"}, ~Using(e)',
         Resting(e)' \/ Key(enc'[e].rend) \in Keys
  PROVE  LockInv'
<1>0. PICK q : q = Key(enc[e].rend) OBVIOUS
<1>1. q \in Keys /\ e \in Users(q) /\ ~Holding(e) /\ ~Holding(e)'
  BY <1>0 DEF LockInv, LockTyped, Users, Using, Holding, Resting
<1>2. /\ DOMAIN locks' = Keys
      /\ \A k \in Keys : k # q => locks'[k] = locks[k]
      /\ DOMAIN locks'[q] = {"obj", "refs"}
      /\ locks[q].refs <= 1 => locks'[q].obj = 0 /\ locks'[q].refs = 0
      /\ locks[q].refs > 1 => locks'[q].obj = locks[q].obj /\ locks'[q].refs = locks[q].refs - 1
      /\ locks'[q].refs \in Nat
  BY <1>0, <1>1, Dropped DEF LockInv
<1>3. LockTyped' BY <1>2 DEF LockInv, LockTyped, Resting
<1>4. \A f \in Encoders : Holding(f)' <=> Holding(f) BY <1>1 DEF Holding
<1>5. ASSUME NEW k \in Keys, k # q PROVE KeyInv(k)'
  <2>1. Users(k)' = Users(k) BY <1>0, <1>5 DEF Users, Using
  <2>2. \A f \in Users(k) : enc'[f].lock = enc[f].lock /\ (Holding(f)' => Holding(f))
    BY <1>0, <1>4, <1>5 DEF Users
  <2>3. Collecting(k)' <=> Collecting(k) BY DEF Collecting
  <2> QED BY <1>2, <1>5, <2>1, <2>2, <2>3, KeyUntouched DEF LockInv
<1>6. KeyInv(q)'
  <2>1. KeyInv(q) /\ locks[q].refs \in Nat BY <1>1 DEF LockInv, LockTyped
  <2>2. Users(q)' = Users(q) \ {e} BY <1>0 DEF Users, Using
  <2>3. Cardinality(Users(q)') = Cardinality(Users(q)) - 1 /\ Cardinality(Users(q)) \in Nat
        /\ Cardinality(Users(q)') \in Nat /\ IsFiniteSet(Users(q)')
    BY <1>1, <2>2, UsersFinite, FS_RemoveElement
  <2>4. Collecting(q)' <=> Collecting(q) BY DEF Collecting
  <2>5. \A f \in Users(q)' : f \in Users(q) /\ enc'[f] = enc[f] /\ (Holding(f)' <=> Holding(f))
    BY <1>4, <2>2 DEF Users
  <2>6. CASE locks[q].refs <= 1
    <3>1. Cardinality(Users(q)') = 0 /\ ~Collecting(q) BY <2>1, <2>3, <2>6 DEF KeyInv
    <3>2. Users(q)' = {} BY <2>3, <3>1, FS_EmptySet
    <3>3. (locks[q].refs >= Cardinality(Users(q)) + (IF Collecting(q) THEN 1 ELSE 0))'
      BY <1>2, <2>4, <2>6, <3>1
    <3> QED BY <1>2, <2>4, <2>6, <3>1, <3>2, <3>3 DEF KeyInv
  <2>7. CASE ~(locks[q].refs <= 1)
    <3>1. locks'[q].obj = locks[q].obj /\ locks'[q].refs = locks[q].refs - 1 BY <1>2, <2>1, <2>7
    <3>2. (locks[q].refs >= Cardinality(Users(q)) + (IF Collecting(q) THEN 1 ELSE 0))'
      BY <2>1, <2>3, <2>4, <3>1 DEF KeyInv
    <3>3. (locks[q].obj = 0 <=> locks[q].refs = 0)' BY <2>1, <2>7, <3>1 DEF KeyInv
    <3>4. \A f \in Users(q)' : enc'[f].lock = locks'[q].obj BY <2>1, <2>5, <3>1 DEF KeyInv
    <3>5. \A f \in Users(q)' : Holding(f)' => <<q, locks'[q].obj>> \in held'
      BY <2>1, <2>5, <3>1 DEF KeyInv
    <3>6. \A f, g \in Users(q)' : Holding(f)' /\ Holding(g)' => f = g BY <2>1, <2>5 DEF KeyInv
    <3>7. Collecting(q)' => /\ col'.lock = locks'[q].obj /\ <<q, locks'[q].obj>> \in held'
                            /\ \A f \in Users(q)' : ~Holding(f)'
      BY <2>1, <2>4, <2>5, <3>1 DEF KeyInv
    <3> QED BY <3>2, <3>3, <3>4, <3>5, <3>6, <3>7 DEF KeyInv
  <2> QED BY <2>6, <2>7
<1> QED BY <1>3, <1>5, <1>6 DEF LockInv

\* The collector takes a reference, and keeps its lock when it is free.
LEMMA CollectTakeStep == ASSUME LockInv, CollectTake PROVE LockInv'
<1>1. PICK r \in col.todo :
        /\ encodeLock(Key(r))
        /\ \/ /\ <<Key(r), LockOf(Key(r))>> \in held
              /\ col' = [col EXCEPT !.todo = col.todo \ {r}]
              /\ UNCHANGED held
           \/ /\ <<Key(r), LockOf(Key(r))>> \notin held
              /\ held' = held \cup {<<Key(r), LockOf(Key(r))>>}
              /\ col' = [col EXCEPT !.at = "row", !.item = r, !.lock = LockOf(Key(r))]
  BY DEF CollectTake
<1>2. PICK q, l : q = Key(r) /\ l = LockOf(Key(r)) OBVIOUS
<1>3. col.at = "items" /\ UNCHANGED enc BY DEF CollectTake, encVars
<1>4. q \in Keys BY <1>1, <1>2 DEF LockInv, LockTyped
<1>5. locks' = [locks EXCEPT ![q] = [obj |-> l, refs |-> locks[q].refs + 1]] BY <1>1, <1>2 DEF encodeLock
<1>6. l # 0 /\ (locks[q].obj # 0 => l = locks[q].obj) BY <1>2, <1>4, LockIsFresh DEF LockOf
<1>7. /\ locks[q].refs \in Nat /\ locks'[q].obj = l /\ locks'[q].refs = locks[q].refs + 1
      /\ \A k \in Keys : k # q => locks'[k] = locks[k]
  BY <1>4, <1>5 DEF LockInv, LockTyped
<1>8. /\ \A k : Users(k)' = Users(k) /\ Cardinality(Users(k)') = Cardinality(Users(k))
      /\ \A e : (Holding(e)' <=> Holding(e)) /\ enc'[e] = enc[e]
  <2>1. \A k : Users(k)' = Users(k) BY <1>3 DEF Users, Using
  <2> QED BY <1>3, <2>1 DEF Holding
<1>9. KeyInv(q) /\ Cardinality(Users(q)) \in Nat BY <1>4, UsersFinite DEF LockInv
<1>10. \A k : ~Collecting(k) BY <1>3 DEF Collecting
<1>11. locks[q].obj = 0 => Users(q) = {} BY <1>4, <1>7, <1>9, NoEntryNoUser
<1>12. CASE /\ col' = [col EXCEPT !.todo = col.todo \ {r}] /\ UNCHANGED held
  <2>1. LockTyped' BY <1>3, <1>4, <1>5, <1>7, <1>12 DEF LockInv, LockTyped, Resting
  <2>2. \A k : ~Collecting(k)' BY <1>3, <1>12 DEF Collecting, LockInv, LockTyped
  <2>3. ASSUME NEW k \in Keys, k # q PROVE KeyInv(k)'
    BY <1>7, <1>8, <1>10, <1>12, <2>2, <2>3, KeyUntouched DEF LockInv
  <2>4. KeyInv(q)'
    <3>1. (locks[q].refs >= Cardinality(Users(q)) + (IF Collecting(q) THEN 1 ELSE 0))'
      BY <1>7, <1>8, <1>9, <1>10, <2>2 DEF KeyInv
    <3>2. \A e \in Users(q)' : enc'[e].lock = locks'[q].obj BY <1>6, <1>7, <1>8, <1>9, <1>11 DEF KeyInv
    <3>3. \A e \in Users(q)' : Holding(e)' => <<q, locks'[q].obj>> \in held'
      BY <1>6, <1>7, <1>8, <1>9, <1>11, <1>12 DEF KeyInv
    <3>4. \A e, f \in Users(q)' : Holding(e)' /\ Holding(f)' => e = f BY <1>8, <1>9 DEF KeyInv
    <3>5. (locks[q].obj = 0 <=> locks[q].refs = 0)' BY <1>6, <1>7
    <3> QED BY <2>2, <3>1, <3>2, <3>3, <3>4, <3>5 DEF KeyInv
  <2> QED BY <2>1, <2>3, <2>4 DEF LockInv
<1>13. CASE /\ <<q, l>> \notin held /\ held' = held \cup {<<q, l>>}
            /\ col' = [col EXCEPT !.at = "row", !.item = r, !.lock = l]
  <2>1. /\ col'.at = "row" /\ col'.item = r /\ col'.lock = l /\ col'.todo = col.todo
        /\ DOMAIN col' = {"at", "todo", "item", "lock", "keys"}
    BY <1>13 DEF LockInv, LockTyped
  <2>2. LockTyped' BY <1>2, <1>3, <1>4, <1>5, <1>7, <2>1 DEF LockInv, LockTyped, Resting
  <2>3. \A k : Collecting(k)' <=> k = q BY <1>2, <2>1 DEF Collecting
  <2>4. ASSUME NEW k \in Keys, k # q PROVE KeyInv(k)'
    BY <1>7, <1>8, <1>10, <1>13, <2>3, <2>4, KeyUntouched DEF LockInv
  <2>5. KeyInv(q)'
    <3>1. (locks[q].refs >= Cardinality(Users(q)) + (IF Collecting(q) THEN 1 ELSE 0))'
      BY <1>7, <1>8, <1>9, <1>10, <2>3 DEF KeyInv
    <3>2. \A e \in Users(q)' : enc'[e].lock = locks'[q].obj BY <1>6, <1>7, <1>8, <1>9, <1>11 DEF KeyInv
    <3>3. \A e \in Users(q)' : ~Holding(e)'
      BY <1>6, <1>8, <1>9, <1>11, <1>13 DEF KeyInv
    <3>4. col'.lock = locks'[q].obj /\ <<q, locks'[q].obj>> \in held' BY <1>7, <1>13, <2>1
    <3>5. (locks[q].obj = 0 <=> locks[q].refs = 0)' BY <1>6, <1>7
    <3> QED BY <3>1, <3>2, <3>3, <3>4, <3>5 DEF KeyInv
  <2> QED BY <2>2, <2>4, <2>5 DEF LockInv
<1> QED BY <1>1, <1>2, <1>12, <1>13

\* The collector gives back its lock and its reference.
LEMMA CollectDirStep == ASSUME LockInv, CollectDir PROVE LockInv'
<1>1. PICK q, l : q = Key(col.item) /\ l = col.lock OBVIOUS
<1>2. /\ col.at = "dir" /\ UNCHANGED enc /\ held' = held \ {<<q, l>>} /\ dropEncodeLock(q)
      /\ col' = [col EXCEPT !.at = "items", !.todo = col.todo \ {col.item}, !.item = NoRend, !.lock = 0]
  BY <1>1 DEF CollectDir, encVars
<1>3. q \in Keys /\ (\A k : Collecting(k) <=> k = q) BY <1>1, <1>2 DEF LockInv, LockTyped, Collecting
<1>4. /\ DOMAIN locks' = Keys
      /\ \A k \in Keys : k # q => locks'[k] = locks[k]
      /\ DOMAIN locks'[q] = {"obj", "refs"}
      /\ locks[q].refs <= 1 => locks'[q].obj = 0 /\ locks'[q].refs = 0
      /\ locks[q].refs > 1 => locks'[q].obj = locks[q].obj /\ locks'[q].refs = locks[q].refs - 1
      /\ locks'[q].refs \in Nat
  BY <1>2, <1>3, Dropped DEF LockInv
<1>5. col'.at = "items" /\ col'.todo \subseteq col.todo /\ DOMAIN col' = {"at", "todo", "item", "lock", "keys"}
  BY <1>2 DEF LockInv, LockTyped
<1>6. \A k : ~Collecting(k)' BY <1>5 DEF Collecting
<1>7. LockTyped' BY <1>2, <1>4, <1>5 DEF LockInv, LockTyped, Resting
<1>8. /\ \A k : Users(k)' = Users(k) /\ Cardinality(Users(k)') = Cardinality(Users(k))
      /\ \A e : (Holding(e)' <=> Holding(e)) /\ enc'[e] = enc[e]
  <2>1. \A k : Users(k)' = Users(k) BY <1>2 DEF Users, Using
  <2> QED BY <1>2, <2>1 DEF Holding
<1>9. ASSUME NEW k \in Keys, k # q PROVE KeyInv(k)'
  <2>1. \A x : <<k, x>> \in held => <<k, x>> \in held' BY <1>2, <1>9
  <2> QED BY <1>3, <1>4, <1>6, <1>8, <1>9, <2>1, KeyUntouched DEF LockInv
<1>10. KeyInv(q)'
  <2>1. KeyInv(q) /\ Collecting(q) /\ locks[q].refs \in Nat BY <1>3 DEF LockInv, LockTyped
  <2>2. /\ Cardinality(Users(q)) \in Nat /\ IsFiniteSet(Users(q)) BY UsersFinite
  <2>3. \A e \in Users(q)' : ~Holding(e)' BY <1>8, <2>1 DEF KeyInv
  <2>4. CASE locks[q].refs <= 1
    <3>1. Cardinality(Users(q)) = 0 BY <2>1, <2>2, <2>4 DEF KeyInv
    <3>2. Users(q)' = {} BY <1>8, <2>2, <3>1, FS_EmptySet
    <3>3. (locks[q].refs >= Cardinality(Users(q)) + (IF Collecting(q) THEN 1 ELSE 0))'
      BY <1>4, <1>6, <1>8, <2>4, <3>1
    <3> QED BY <1>4, <1>6, <2>4, <3>2, <3>3 DEF KeyInv
  <2>5. CASE ~(locks[q].refs <= 1)
    <3>1. locks'[q].obj = locks[q].obj /\ locks'[q].refs = locks[q].refs - 1 BY <1>4, <2>1, <2>5
    <3>2. (locks[q].refs >= Cardinality(Users(q)) + (IF Collecting(q) THEN 1 ELSE 0))'
      BY <1>6, <1>8, <2>1, <2>2, <3>1 DEF KeyInv
    <3>3. (locks[q].obj = 0 <=> locks[q].refs = 0)' BY <2>1, <2>5, <3>1 DEF KeyInv
    <3>4. \A e \in Users(q)' : enc'[e].lock = locks'[q].obj BY <1>8, <2>1, <3>1 DEF KeyInv
    <3> QED BY <1>6, <2>3, <3>2, <3>3, <3>4 DEF KeyInv
  <2> QED BY <2>4, <2>5
<1> QED BY <1>7, <1>9, <1>10 DEF LockInv

\* Otherwise the collector lists, removes a row or sweeps.
LEMMA CollectorMoves ==
  ASSUME LockInv, StreamTyped, CollectList \/ CollectRow \/ SweepStep PROVE LockInv'
<1>1. UNCHANGED <<enc, locks, held>>
  BY DEF CollectList, CollectRow, SweepStep, sweepRenditionDirs, ReadDir, SweepCheck, SweepRemove, SweepEnd,
         encVars, lockVars
<1>2. \/ /\ col.at \notin {"row", "dir"} /\ col'.at \notin {"row", "dir"}
         /\ DOMAIN col' = {"at", "todo", "item", "lock", "keys"}
         /\ col'.todo \subseteq ListUnusedRenditions \cup col.todo
      \/ col.at = "row" /\ col' = [col EXCEPT !.at = "dir"]
  <2>1. CASE CollectList BY <2>1 DEF CollectList, NoCollect
  <2>2. CASE CollectRow BY <2>2 DEF CollectRow
  <2>3. CASE sweepRenditionDirs BY <2>3 DEF sweepRenditionDirs, LockInv, LockTyped
  <2>4. CASE ReadDir BY <2>4 DEF ReadDir, LockInv, LockTyped
  <2>5. CASE SweepCheck
    <3>1. col.at = "dirs" BY <2>5 DEF SweepCheck
    <3>2. PICK k \in col.keys :
            col' = IF k \in aged THEN [col EXCEPT !.at = "remove", !.keys = @ \ {k},
                                        !.item = [NoRend EXCEPT !.image = k[1], !.set = k[2]]]
                   ELSE [col EXCEPT !.keys = @ \ {k}]
      BY <2>5 DEF SweepCheck
    <3> QED BY <3>1, <3>2 DEF LockInv, LockTyped
  <2>6. CASE SweepRemove BY <2>6 DEF SweepRemove, LockInv, LockTyped
  <2>7. CASE SweepEnd BY <2>7 DEF SweepEnd, NoCollect
  <2> QED BY <2>1, <2>2, <2>3, <2>4, <2>5, <2>6, <2>7 DEF SweepStep
<1>3. \A r \in ListUnusedRenditions : Key(r) \in Keys
  BY DEF ListUnusedRenditions, StreamTyped, Proper, Key, Keys
<1>4. LockTyped' BY <1>1, <1>2, <1>3 DEF LockInv, LockTyped, Resting
<1>5. \A k : (Collecting(k)' <=> Collecting(k)) /\ (Collecting(k) => col'.lock = col.lock)
  BY <1>2 DEF Collecting, LockInv, LockTyped
<1>6. ASSUME NEW k \in Keys PROVE KeyInv(k)'
  <2>1. Users(k)' = Users(k) /\ \A e : Holding(e)' <=> Holding(e) BY <1>1 DEF Users, Using, Holding
  <2> QED BY <1>1, <1>5, <2>1, KeyUntouched DEF LockInv
<1> QED BY <1>4, <1>6 DEF LockInv

\* A row names one of the keys.
LEMMA RowIsProper == ASSUME StreamTyped, NEW r, GetRendition(r) PROVE Key(r) \in Keys
BY DEF StreamTyped, GetRendition, Proper, Key, Keys

\* A regeneration that submits a rendition job takes no lock.
LEMMA encodeRenditionLock ==
  ASSUME LockInv, StreamTyped, NEW c \in Cams, encodeRendition(c) PROVE LockInv'
<1>1. PICK r : r = regen[c].rend OBVIOUS
<1>2. UNCHANGED <<locks, held, col>> BY DEF encodeRendition, lockVars
<1>3. CASE UNCHANGED enc BY <1>2, <1>3, OutsideMoves DEF LockInv, LockTyped
<1>4. CASE ~UNCHANGED enc
  <2>1. /\ GetRendition(r)
        /\ enc' = [enc EXCEPT ![Key(r)] =
                     IF enc[Key(r)].at = "idle" THEN [Idle EXCEPT !.at = "queued", !.rend = r]
                     ELSE IF enc[Key(r)].at = "interrupted" THEN [enc[Key(r)] EXCEPT !.at = "queued"]
                     ELSE enc[Key(r)]]
    BY <1>1, <1>4 DEF encodeRendition
  <2>2. Key(r) \in Keys BY <2>1, RowIsProper
  <2>3. Key(r) \in Encoders BY <2>2 DEF Encoders
  <2>4. \A e \in Encoders : e # Key(r) => enc'[e] = enc[e] BY <2>1 DEF LockInv, LockTyped
  <2>5. \/ enc'[Key(r)] = enc[Key(r)]
        \/ /\ enc[Key(r)].at \in {"idle", "interrupted"} /\ enc'[Key(r)].at = "queued"
           /\ Key(enc'[Key(r)].rend) \in Keys
           /\ DOMAIN enc'[Key(r)] = {"at", "rend", "lock", "ok"}
    <3>1. Key(r) # Prepare BY <2>2, LibraryAssumption DEF Keys, Prepare
    <3>2. CASE enc[Key(r)].at = "idle" BY <2>1, <2>2, <2>3, <3>2 DEF LockInv, LockTyped, Idle
    <3>3. CASE enc[Key(r)].at = "interrupted"
      BY <2>1, <2>3, <3>1, <3>3 DEF LockInv, LockTyped, Resting
    <3>4. CASE enc[Key(r)].at \notin {"idle", "interrupted"} BY <2>1, <2>3, <3>4 DEF LockInv, LockTyped
    <3> QED BY <3>2, <3>3, <3>4
  <2>6. DOMAIN enc' = Encoders BY <2>1 DEF LockInv, LockTyped
  <2>7. \A e \in Encoders : enc'[e] = enc[e] \/
           /\ ~Using(e) /\ ~Using(e)'
           /\ DOMAIN enc'[e] = {"at", "rend", "lock", "ok"}
           /\ Resting(e)' \/ Key(enc'[e].rend) \in Keys
    <3> SUFFICES ASSUME NEW e \in Encoders, enc'[e] # enc[e]
                 PROVE  /\ ~Using(e) /\ ~Using(e)'
                        /\ DOMAIN enc'[e] = {"at", "rend", "lock", "ok"}
                        /\ Resting(e)' \/ Key(enc'[e].rend) \in Keys
      OBVIOUS
    <3>1. e = Key(r) BY <2>4
    <3> QED BY <2>2, <2>5, <3>1 DEF Using
  <2> QED BY <1>2, <2>6, <2>7, OutsideMoves
<1> QED BY <1>3, <1>4

\* An encoder that has no lock starts, ends or goes back to its plan.
LEMMA EncoderRests ==
  ASSUME LockInv, NEW e \in Encoders, ~Using(e), UNCHANGED <<locks, held, col>>,
         \/ enc' = [enc EXCEPT ![e] = Idle]
         \/ e = Prepare /\ (\E at \in {"next", "plan", "idle"} : enc' = [enc EXCEPT ![e].at = at])
  PROVE  LockInv'
<1>1. DOMAIN enc' = Encoders /\ \A f \in Encoders : f # e => enc'[f] = enc[f] BY DEF LockInv, LockTyped
<1>2. /\ DOMAIN enc'[e] = {"at", "rend", "lock", "ok"}
      /\ enc'[e].at = "idle" \/ (e = Prepare /\ enc'[e].at \in {"next", "plan", "idle"})
  BY DEF LockInv, LockTyped, Idle
<1>3. ~Using(e)' /\ Resting(e)' BY <1>2 DEF Using, Resting
<1> QED BY <1>1, <1>2, <1>3, OutsideMoves

\* A job that takes, uses and gives back an encode lock keeps the count.
LEMMA EncodeStepLock == ASSUME LockInv, NEW e \in Encoders, EncodeStep(e) PROVE LockInv'
<1>1. CASE EncodeAcquire(e) BY <1>1, EncodeAcquireStep
<1>2. CASE EncodeUnlock(e) BY <1>2, EncodeUnlockStep
<1>3. CASE EncodeStream(e) \/ EncodeSnapshot(e)
  <2>1. Holding(e) /\ UNCHANGED <<locks, held, col>>
    BY <1>3 DEF EncodeStream, EncodeSnapshot, Holding, lockVars
  <2>2. \E at \in {"snapshot", "unlock"}, ok \in BOOLEAN :
          enc' = [enc EXCEPT ![e].at = at] \/ enc' = [enc EXCEPT ![e].at = at, ![e].ok = ok]
    BY <1>3 DEF EncodeStream, EncodeSnapshot, EncodePart, EncAt
  <2> QED BY <2>1, <2>2, HolderMoves
<1> QED BY <1>1, <1>2, <1>3 DEF EncodeStep

\* So does a rendition job from its start to its end.
LEMMA JobLock == ASSUME LockInv, StreamTyped, NEW k \in Keys, JobStep(k) PROVE LockInv'
<1>1. k \in Encoders BY DEF Encoders
<1>2. CASE runRendition(k)
  <2>1. ~Using(k) /\ UNCHANGED <<held, col>> BY <1>2 DEF runRendition, Using
  <2>2. PICK r : r = enc[k].rend OBVIOUS
  <2>3. CASE GetRendition(r) /\ TakeRef(k, r) BY <1>1, <2>1, <2>3, RowIsProper, TakeRefStep
  <2>4. CASE EndJob(k) /\ UNCHANGED locks BY <1>1, <2>1, <2>4, EncoderRests DEF EndJob, Resting
  <2> QED BY <1>2, <2>2, <2>3, <2>4 DEF runRendition
<1>3. CASE EncodeStep(k) BY <1>1, <1>3, EncodeStepLock
<1>4. CASE RenditionDone(k)
  <2>1. /\ enc[k].at = "drop" /\ dropEncodeLock(Key(enc[k].rend)) /\ UNCHANGED <<held, col>>
        /\ enc' = [enc EXCEPT ![k] = Idle]
    BY <1>4 DEF RenditionDone, EndJob
  <2>2. DOMAIN enc' = Encoders /\ (\A f \in Encoders : f # k => enc'[f] = enc[f]) /\ enc'[k] = Idle
    BY <1>1, <2>1 DEF LockInv, LockTyped
  <2>3. DOMAIN enc'[k] = {"at", "rend", "lock", "ok"} /\ enc'[k].at = "idle" BY <2>2 DEF Idle
  <2>4. ~Using(k)' /\ Resting(k)' BY <2>3 DEF Using, Resting
  <2> QED BY <1>1, <2>1, <2>2, <2>3, <2>4, EncoderDrops
<1> QED BY <1>2, <1>3, <1>4 DEF JobStep

\* So does the prepare job, one rendition after the other.
LEMMA PrepareLock ==
  ASSUME LockInv, StreamTyped, PlanStep \/ PrepareStep PROVE LockInv'
<1>1. Prepare \in Encoders BY DEF Prepare, Encoders
<1>2. CASE PlanStep
  <2>1. ~Using(Prepare) /\ UNCHANGED <<locks, held, col>>
    BY <1>2 DEF PlanStep, runPrepareRenditions, plannedRenditions, PlanRendition, PlanStream, PlanSaved, Using, lockVars
  <2>2. \/ UNCHANGED enc \/ enc' = [enc EXCEPT ![Prepare] = Idle]
        \/ \E at \in {"next", "plan", "idle"} : enc' = [enc EXCEPT ![Prepare].at = at]
    BY <1>2 DEF PlanStep, runPrepareRenditions, plannedRenditions, PlanRendition, PlanStream, PlanSaved,
                PlanFails, EncAt
  <2>3. CASE UNCHANGED enc BY <2>1, <2>3, OutsideMoves DEF LockInv, LockTyped
  <2>4. CASE ~UNCHANGED enc BY <1>1, <2>1, <2>2, <2>4, EncoderRests
  <2> QED BY <2>3, <2>4
<1>3. CASE prepareOne
  <2>1. enc[Prepare].at = "next" /\ ~Using(Prepare) /\ UNCHANGED <<held, col>> BY <1>3 DEF prepareOne, Using
  <2>2. CASE EncAt(Prepare, "idle") /\ UNCHANGED locks BY <1>1, <2>1, <2>2, EncoderRests DEF EncAt
  <2>3. CASE UNCHANGED <<enc, locks>> BY <2>1, <2>3, OutsideMoves DEF LockInv, LockTyped
  <2>4. ASSUME NEW r \in plan, GetRendition(r), TakeRef(Prepare, r) PROVE LockInv'
    BY <1>1, <2>1, <2>4, RowIsProper, TakeRefStep
  <2> QED BY <1>3, <2>2, <2>3, <2>4 DEF prepareOne
<1>4. CASE PrepareRetry
  <2>1. PICK r : r = enc[Prepare].rend OBVIOUS
  <2>2. ~Using(Prepare) /\ UNCHANGED <<held, col>> /\ TakeRef(Prepare, r)
    BY <1>4, <2>1 DEF PrepareRetry, Using
  <2>3. Key(r) \in Keys BY <1>1, <1>4, <2>1 DEF PrepareRetry, LockInv, LockTyped, Resting
  <2> QED BY <1>1, <2>2, <2>3, TakeRefStep
<1>5. CASE EncodeStep(Prepare) BY <1>1, <1>5, EncodeStepLock
<1>6. CASE PrepareDone
  <2>1. /\ enc[Prepare].at = "drop" /\ dropEncodeLock(Key(enc[Prepare].rend)) /\ UNCHANGED <<held, col>>
    BY <1>6 DEF PrepareDone
  <2>2. \/ enc' = [enc EXCEPT ![Prepare] = [Idle EXCEPT !.at = "next"]]
        \/ enc' = [enc EXCEPT ![Prepare].at = "queued"]
        \/ enc' = [enc EXCEPT ![Prepare] = Idle]
    BY <1>6 DEF PrepareDone, EncAt
  <2>3. DOMAIN enc' = Encoders /\ (\A f \in Encoders : f # Prepare => enc'[f] = enc[f])
    BY <1>1, <2>2 DEF LockInv, LockTyped
  <2>4. /\ DOMAIN enc'[Prepare] = {"at", "rend", "lock", "ok"}
        /\ \/ enc'[Prepare].at \in {"idle", "next"}
           \/ enc'[Prepare].at = "queued" /\ enc'[Prepare].rend = enc[Prepare].rend
    BY <1>1, <2>2 DEF LockInv, LockTyped, Idle
  <2>5. Key(enc[Prepare].rend) \in Keys BY <1>1, <2>1 DEF LockInv, LockTyped, Resting
  <2>6. ~Using(Prepare)' BY <2>4 DEF Using
  <2>7. Resting(Prepare)' \/ Key(enc'[Prepare].rend) \in Keys BY <2>4, <2>5 DEF Resting
  <2> QED BY <1>1, <2>1, <2>3, <2>4, <2>6, <2>7, EncoderDrops
<1> QED BY <1>2, <1>3, <1>4, <1>5, <1>6 DEF PrepareStep

\* What a crash interrupted waits without a lock, or is queued again.
LEMMA ResumeLock ==
  ASSUME LockInv, NEW e \in Encoders, ResumeJob(e) \/ CancelJob(e) PROVE LockInv'
<1>1. enc[e].at = "interrupted" /\ ~Using(e) /\ UNCHANGED <<locks, held, col>>
  BY DEF ResumeJob, CancelJob, Using, lockVars
<1>2. CASE CancelJob(e) BY <1>1, <1>2, EncoderRests DEF CancelJob
<1>3. CASE ResumeJob(e) /\ e = Prepare
  <2>1. \E at \in {"next", "plan", "idle"} : enc' = [enc EXCEPT ![e].at = at] BY <1>3 DEF ResumeJob
  <2> QED BY <1>1, <1>3, <2>1, EncoderRests
<1>4. CASE ResumeJob(e) /\ e # Prepare
  <2>1. enc' = [enc EXCEPT ![e].at = "queued"] BY <1>4 DEF ResumeJob
  <2>2. Key(enc[e].rend) \in Keys BY <1>1, <1>4 DEF LockInv, LockTyped, Resting
  <2>3. DOMAIN enc' = Encoders /\ \A f \in Encoders : f # e => enc'[f] = enc[f]
    BY <2>1 DEF LockInv, LockTyped
  <2>4. enc'[e].at = "queued" /\ enc'[e].rend = enc[e].rend /\ DOMAIN enc'[e] = {"at", "rend", "lock", "ok"}
    BY <2>1 DEF LockInv, LockTyped
  <2>5. ~Using(e)' BY <2>4 DEF Using
  <2> QED BY <1>1, <2>2, <2>3, <2>4, <2>5, OutsideMoves
<1> QED BY <1>2, <1>3, <1>4

\* A crash takes the map of locks with all their users.
LEMMA RestartLock == ASSUME LockInv, Restart PROVE LockInv'
<1>1. /\ enc' = [e \in Encoders |->
           IF enc[e].at = "idle" \/ (e # Prepare /\ enc[e].at = "queued") THEN enc[e]
           ELSE [Idle EXCEPT !.at = "interrupted", !.rend = IF e = Prepare THEN NoRend ELSE enc[e].rend]]
      /\ locks' = [k \in Keys |-> [obj |-> 0, refs |-> 0]] /\ col' = NoCollect
  BY DEF Restart
<1>2. \A e \in Encoders : DOMAIN enc'[e] = {"at", "rend", "lock", "ok"}
                           /\ enc'[e].at \in {"idle", "queued", "interrupted"}
  <2> SUFFICES ASSUME NEW e \in Encoders
               PROVE  DOMAIN enc'[e] = {"at", "rend", "lock", "ok"} /\ enc'[e].at \in {"idle", "queued", "interrupted"}
    OBVIOUS
  <2>1. CASE enc[e].at = "idle" \/ (e # Prepare /\ enc[e].at = "queued")
    <3>1. enc'[e] = enc[e] BY <1>1, <2>1
    <3> QED BY <2>1, <3>1 DEF LockInv, LockTyped
  <2>2. CASE ~(enc[e].at = "idle" \/ (e # Prepare /\ enc[e].at = "queued"))
    <3>1. enc'[e] = [Idle EXCEPT !.at = "interrupted", !.rend = IF e = Prepare THEN NoRend ELSE enc[e].rend]
      BY <1>1, <2>2
    <3> QED BY <3>1 DEF Idle
  <2> QED BY <2>1, <2>2
<1>3. \A e \in Encoders : (Resting(e) \/ Key(enc[e].rend) \in Keys)'
  <2> SUFFICES ASSUME NEW e \in Encoders PROVE Resting(e)' \/ Key(enc'[e].rend) \in Keys OBVIOUS
  <2>1. CASE enc[e].at = "idle" \/ (e # Prepare /\ enc[e].at = "queued")
    <3>1. enc'[e] = enc[e] BY <1>1, <2>1
    <3> QED BY <3>1 DEF LockInv, LockTyped, Resting
  <2>2. CASE ~(enc[e].at = "idle" \/ (e # Prepare /\ enc[e].at = "queued")) /\ e = Prepare
    <3>1. enc'[e].at = "interrupted" BY <1>1, <2>2 DEF Idle
    <3> QED BY <2>2, <3>1 DEF Resting
  <2>3. CASE ~(enc[e].at = "idle" \/ (e # Prepare /\ enc[e].at = "queued")) /\ e # Prepare
    <3>1. enc'[e].rend = enc[e].rend BY <1>1, <2>3 DEF Idle
    <3> QED BY <2>3, <3>1 DEF LockInv, LockTyped, Resting
  <2> QED BY <2>1, <2>2, <2>3
<1>4. LockTyped' BY <1>1, <1>2, <1>3 DEF LockTyped, NoCollect
<1>5. ASSUME NEW k \in Keys PROVE KeyInv(k)'
  <2>1. Users(k)' = {} /\ ~Collecting(k)' BY <1>1, <1>2 DEF Users, Using, Collecting, NoCollect
  <2>2. Cardinality(Users(k)') = 0 BY <2>1, FS_EmptySet
  <2>3. locks'[k].obj = 0 /\ locks'[k].refs = 0 BY <1>1
  <2> QED BY <2>1, <2>2, <2>3 DEF KeyInv
<1> QED BY <1>4, <1>5 DEF LockInv

\* The directories are those of the keys.
DirsTyped == DOMAIN dirs = Keys

\* Every step keeps the counts and the holders of the encode locks.
LEMMA LockStep ==
  StreamInv /\ LockInv /\ DirsTyped /\ [Next]_vars => LockInv' /\ DirsTyped'
<1> SUFFICES ASSUME StreamInv, LockInv, DirsTyped, [Next]_vars PROVE LockInv' /\ DirsTyped' OBVIOUS
<1>1. StreamTyped BY DEF StreamInv
<1>2. DirsTyped'
  <2>1. CASE \E k \in Keys : JobStep(k)
    BY <2>1 DEF DirsTyped, JobStep, runRendition, EncodeStep, EncodeAcquire, EncodeStream, EncodeSnapshot,
           EncodePart, EncodeUnlock, RenditionDone, rendVars
  <2>2. CASE PrepareStep
    BY <2>2 DEF DirsTyped, PrepareStep, prepareOne, PrepareRetry, EncodeStep, EncodeAcquire, EncodeStream,
           EncodeSnapshot, EncodePart, EncodeUnlock, PrepareDone, rendVars
  <2>3. CASE DeleteAssetBegin \/ DeleteStep \/ CollectList \/ CollectStep \/ DayPasses
    BY <2>3 DEF DirsTyped, DeleteAssetBegin, DeleteStep, DeleteAsset, DeleteAssetFile, DeleteAssetDirs,
           CollectList, CollectStep, CollectTake, CollectRow, CollectDir, RemoveAll, DayPasses, rendVars
  <2>4. CASE (\E u \in Uploaders : UploadAsset(u) \/ UploadStep(u)) \/ UNCHANGED vars
    BY <2>4 DEF DirsTyped, UploadAsset, UploadStep, storeAsset, InsertAsset, vars, rendVars
  <2>5. CASE \E c \in Cams : UpdateCameraStream(c) \/ UpdateCameraConfig(c) \/ EditStep(c) \/ RegenStep(c)
    BY <2>5 DEF DirsTyped, UpdateCameraStream, UpdateCameraConfig, EditStep, RegenStep, UpdateCameraStreamTx,
           regenerateStreamsLater, RegenRound, loadBundle, streamRendition, PointStream, encodeRendition,
           RegenAgain, RegenEnd, rendVars
  <2>6. CASE PlanStep \/ SweepStep
    BY <2>6 DEF DirsTyped, PlanStep, runPrepareRenditions, plannedRenditions, PlanRendition, PlanStream, PlanSaved,
           SweepStep, sweepRenditionDirs, ReadDir, SweepCheck, SweepRemove, SweepEnd, RemoveAll, rendVars
  <2>7. CASE Restart \/ \E e \in Encoders : ResumeJob(e) \/ CancelJob(e)
    BY <2>7 DEF DirsTyped, Restart, ResumeJob, CancelJob, rendVars
  <2> QED BY <2>1, <2>2, <2>3, <2>4, <2>5, <2>6, <2>7 DEF Next
<1>3. CASE UNCHANGED <<enc, locks, held, col>>
  BY <1>2, <1>3, OutsideMoves DEF LockInv, LockTyped
<1>4. ASSUME NEW u \in Uploaders, UploadAsset(u) \/ UploadStep(u) PROVE LockInv'
  BY <1>3, <1>4 DEF UploadAsset, UploadStep, storeAsset, InsertAsset, encVars, lockVars
<1>5. CASE DeleteAssetBegin \/ DeleteStep
  BY <1>2, <1>3, <1>5 DEF DeleteAssetBegin, DeleteStep, DeleteAsset, DeleteAssetFile, DeleteAssetDirs, encVars, lockVars
<1>6. ASSUME NEW c \in Cams, UpdateCameraStream(c) \/ UpdateCameraConfig(c) \/ EditStep(c) \/ RegenStep(c)
      PROVE  LockInv'
  <2>1. CASE encodeRendition(c) BY <1>1, <2>1, encodeRenditionLock
  <2>2. CASE ~encodeRendition(c)
    BY <1>3, <1>6, <2>2 DEF UpdateCameraStream, UpdateCameraConfig, EditStep, RegenStep, UpdateCameraStreamTx,
           regenerateStreamsLater, RegenRound, loadBundle, streamRendition, PointStream,
           RegenAgain, RegenEnd, encVars, lockVars
  <2> QED BY <2>1, <2>2
<1>7. CASE (\E k \in Keys : JobStep(k)) \/ PlanStep \/ PrepareStep BY <1>1, <1>2, <1>7, JobLock, PrepareLock
<1>8. CASE CollectList \/ CollectStep \/ SweepStep
  BY <1>1, <1>2, <1>8, CollectTakeStep, CollectDirStep, CollectorMoves DEF CollectStep
<1>9. CASE DayPasses \/ UNCHANGED vars BY <1>2, <1>3, <1>9 DEF DayPasses, vars, encVars, lockVars
<1>10. CASE Restart \/ \E e \in Encoders : ResumeJob(e) \/ CancelJob(e) BY <1>2, <1>10, RestartLock, ResumeLock
<1> QED BY <1>2, <1>4, <1>5, <1>6, <1>7, <1>8, <1>9, <1>10 DEF Next

\* No lock exists at the start.
LEMMA LockInit == Init => LockInv /\ DirsTyped
<1> SUFFICES ASSUME Init PROVE LockInv /\ DirsTyped OBVIOUS
<1>1. /\ enc = [e \in Encoders |-> Idle] /\ locks = [k \in Keys |-> [obj |-> 0, refs |-> 0]]
      /\ col = NoCollect /\ dirs = [k \in Keys |-> {}]
  BY DEF Init
<1>2. LockTyped /\ DirsTyped BY <1>1 DEF LockTyped, DirsTyped, Idle, NoCollect, Resting
<1>3. ASSUME NEW k \in Keys PROVE KeyInv(k)
  <2>1. Users(k) = {} /\ ~Collecting(k) BY <1>1 DEF Users, Using, Collecting, Idle, NoCollect
  <2>2. Cardinality(Users(k)) = 0 BY <2>1, FS_EmptySet
  <2>3. locks[k].obj = 0 /\ locks[k].refs = 0 BY <1>1
  <2> QED BY <2>1, <2>2, <2>3 DEF KeyInv
<1> QED BY <1>2, <1>3 DEF LockInv

\* The locks are as they should be in every state.
LEMMA LockAlways == Spec => [](LockInv /\ DirsTyped)
<1>1. Init => LockInv /\ DirsTyped BY LockInit
<1>2. StreamInv /\ LockInv /\ DirsTyped /\ [Next]_vars => LockInv' /\ DirsTyped' BY LockStep
<1> QED BY <1>1, <1>2, LibraryAlways, PTL DEF Spec

\* Whoever encodes holds the lock, and the collector keeps it from everybody.
LEMMA EncodersHold == ASSUME LockInv, NEW k \in Keys
                      PROVE  /\ Encoding(k) \subseteq {e \in Users(k) : Holding(e)}
                             /\ \A e, f \in Encoding(k) : e = f
                             /\ Collecting(k) => Encoding(k) = {}
<1>1. Encoding(k) \subseteq {e \in Users(k) : Holding(e)} BY DEF Encoding, Holders, Users, Using, Holding
<1> QED BY <1>1 DEF LockInv, KeyInv

\* encodeLock and dropEncodeLock count the references to the lock of a key,
\* so two encoders of one rendition, or one and the collector, are never at
\* its directory together.
THEOREM OneEncoderAlways == Spec => []OneEncoder
<1>1. LockInv => OneEncoder
  <2> SUFFICES ASSUME LockInv, NEW k \in Keys
               PROVE  /\ Cardinality(Encoding(k)) <= 1
                      /\ col.at \in {"row", "dir"} /\ Key(col.item) = k => Encoding(k) = {}
    BY DEF OneEncoder
  <2>1. CASE Encoding(k) = {} BY <2>1, FS_EmptySet
  <2>2. CASE Encoding(k) # {}
    <3>1. PICK e : Encoding(k) = {e} BY <2>2, EncodersHold
    <3>2. Cardinality(Encoding(k)) = 1 BY <3>1, FS_Singleton
    <3> QED BY <3>2, EncodersHold DEF Collecting
  <2> QED BY <2>1, <2>2, EncodersHold DEF Collecting
<1> QED BY <1>1, LockAlways, PTL

-----------------------------------------------------------------------------
(* Whole renditions *)

\* What an encoder has published is there for as long as it holds the lock,
\* unless its directory went under it.
WholeAt(e) ==
  LET k == Key(enc[e].rend) IN
  /\ enc[e].at = "snapshot" => "stream" \in dirs[k] \/ k \in robbed
  /\ enc[e].at = "unlock" /\ enc[e].ok => Parts \subseteq dirs[k] \/ k \in robbed

WholeInv == \A e \in Encoders : WholeAt(e)

Publishing(e) == enc[e].at \in {"snapshot", "unlock"}

\* What a step must leave alone for an encoder's files to stay.
LEMMA WholeKept ==
  ASSUME WholeInv, NEW e \in Encoders, ~Publishing(e)' \/ enc'[e] = enc[e],
         NEW k, k = Key(enc[e].rend), k \in robbed => k \in robbed',
         (Publishing(e) => Parts \cap dirs[k] \subseteq dirs'[k]) \/ k \in robbed'
  PROVE  WholeAt(e)'
<1>1. CASE ~Publishing(e)' BY <1>1 DEF Publishing, WholeAt
<1>2. CASE Publishing(e)' /\ enc'[e] = enc[e]
  <2>1. Key(enc'[e].rend) = k BY <1>2
  <2>2. Publishing(e) BY <1>2 DEF Publishing
  <2>3. CASE k \in robbed' BY <2>1, <2>3 DEF WholeAt, Key
  <2>4. CASE k \notin robbed'
    <3>1. Parts \cap dirs[k] \subseteq dirs'[k] BY <2>2, <2>4
    <3>2. /\ enc[e].at = "snapshot" => "stream" \in dirs[k]
          /\ enc[e].at = "unlock" /\ enc[e].ok => Parts \subseteq dirs[k]
      BY <2>4 DEF WholeInv, WholeAt
    <3> QED BY <1>2, <2>1, <3>1, <3>2 DEF WholeAt, Key, Parts
  <2> QED BY <2>3, <2>4
<1> QED BY <1>1, <1>2

\* Steps that leave the files alone and let no encoder publish.
LEMMA QuietSteps ==
  ASSUME WholeInv, UNCHANGED dirs, robbed \subseteq robbed',
         \A e \in Encoders : ~Publishing(e)' \/ enc'[e] = enc[e]
  PROVE  WholeInv'
BY WholeKept DEF WholeInv

\* Removals without the encode lock are remembered.
LEMMA RobSteps == ASSUME WholeInv, DirsTyped, LockInv, DeleteAssetDirs \/ SweepRemove PROVE WholeInv'
<1>1. PICK ks : RemoveAll(ks) /\ Rob(ks) /\ UNCHANGED enc
  BY DEF DeleteAssetDirs, SweepRemove, encVars
<1> SUFFICES ASSUME NEW e \in Encoders PROVE WholeAt(e)' BY DEF WholeInv
<1>2. PICK k : k = Key(enc[e].rend) OBVIOUS
<1>3. k \in robbed => k \in robbed' BY <1>1 DEF Rob
<1>4. (Publishing(e) => Parts \cap dirs[k] \subseteq dirs'[k]) \/ k \in robbed'
  <2> SUFFICES ASSUME Publishing(e), k \notin robbed' PROVE dirs[k] \subseteq dirs'[k] OBVIOUS
  <2>1. e \in Holders(k) BY <1>2 DEF Holders, Publishing
  <2>2. k \notin ks BY <1>1, <2>1 DEF Rob
  <2>3. k \in Keys BY <1>2 DEF Publishing, LockInv, LockTyped, Resting
  <2> QED BY <1>1, <2>2, <2>3 DEF RemoveAll
<1> QED BY <1>1, <1>2, <1>3, <1>4, WholeKept

\* The collector removes a directory that nobody works on.
LEMMA CollectDirWhole == ASSUME WholeInv, DirsTyped, LockInv, CollectDir PROVE WholeInv'
<1>1. RemoveAll({Key(col.item)}) /\ UNCHANGED <<enc, robbed>> BY DEF CollectDir, encVars, runVars
<1> SUFFICES ASSUME NEW e \in Encoders PROVE WholeAt(e)' BY DEF WholeInv
<1>2. PICK k : k = Key(enc[e].rend) OBVIOUS
<1>3. Publishing(e) => Parts \cap dirs[k] \subseteq dirs'[k]
  <2> SUFFICES ASSUME Publishing(e) PROVE dirs[k] \subseteq dirs'[k] OBVIOUS
  <2>1. k \in Keys /\ e \in Users(k) /\ Holding(e)
    BY <1>2 DEF Publishing, LockInv, LockTyped, Resting, Users, Using, Holding
  <2>2. ~Collecting(k) BY <2>1 DEF LockInv, KeyInv
  <2>3. k # Key(col.item) BY <2>2 DEF Collecting, CollectDir
  <2> QED BY <1>1, <2>1, <2>3 DEF RemoveAll
<1> QED BY <1>1, <1>2, <1>3, WholeKept

\* One holder per key: what an encoder publishes or unlocks is its own.
LEMMA EncodeStepWhole ==
  ASSUME WholeInv, DirsTyped, LockInv, NEW e \in Encoders, EncodeStep(e) PROVE WholeInv'
<1>1. CASE EncodeAcquire(e)
  <2>1. enc' = [enc EXCEPT ![e].at = "hold"] /\ UNCHANGED <<dirs, robbed>>
    BY <1>1 DEF EncodeAcquire, EncAt, rendVars, runVars
  <2>2. \A f \in Encoders : ~Publishing(f)' \/ enc'[f] = enc[f]
    BY <2>1 DEF Publishing, LockInv, LockTyped
  <2> QED BY <2>1, <2>2, QuietSteps
<1>2. CASE ~EncodeAcquire(e)
  <2>1. PICK k : k = Key(enc[e].rend) OBVIOUS
  <2>2. /\ Holding(e) /\ e \in Users(k) /\ k \in Keys
    BY <1>2, <2>1 DEF EncodeStep, EncodeStream, EncodeSnapshot, EncodeUnlock, Holding, Users, Using,
              LockInv, LockTyped, Resting
  <2>3. \A f \in Encoders : f # e => enc'[f] = enc[f]
    BY <1>2 DEF EncodeStep, EncodeStream, EncodeSnapshot, EncodeUnlock, EncodePart, EncAt, LockInv, LockTyped
  <2>4. \A f \in Encoders : f # e /\ Publishing(f) => Key(enc[f].rend) \in Keys \ {k}
    <3> SUFFICES ASSUME NEW f \in Encoders, f # e, Publishing(f) PROVE Key(enc[f].rend) \in Keys \ {k} OBVIOUS
    <3>1. Holding(f) /\ Using(f) /\ Key(enc[f].rend) \in Keys
      BY DEF Publishing, Holding, Using, LockInv, LockTyped, Resting
    <3>2. Key(enc[f].rend) = k => f \in Users(k) BY <3>1 DEF Users
    <3> QED BY <2>2, <3>1, <3>2 DEF LockInv, KeyInv
  <2>5. \A j \in Keys \ {k} : dirs'[j] = dirs[j] /\ (j \in robbed => j \in robbed')
    BY <1>2, <2>1 DEF EncodeStep, EncodeStream, EncodeSnapshot, EncodeUnlock, EncodePart, DirsTyped, rendVars, runVars
  <2>6. ASSUME NEW f \in Encoders, f # e
        PROVE  WholeAt(f)'
    <3>1. PICK j : j = Key(enc[f].rend) OBVIOUS
    <3>2. CASE ~Publishing(f)
      <4>1. ~Publishing(f)' BY <2>3, <2>6, <3>2 DEF Publishing
      <4> QED BY <4>1 DEF Publishing, WholeAt
    <3>3. CASE Publishing(f)
      <4>1. j \in Keys \ {k} /\ enc'[f] = enc[f] BY <2>3, <2>4, <2>6, <3>1, <3>3
      <4> QED BY <2>5, <3>1, <4>1, WholeKept
    <3> QED BY <3>2, <3>3
  <2>7. /\ enc'[e].at = "snapshot" => "stream" \in dirs'[k] \/ k \in robbed'
        /\ enc'[e].at = "unlock" /\ enc'[e].ok => Parts \subseteq dirs'[k] \/ k \in robbed'
    <3>1. CASE EncodeStream(e)
      BY <2>1, <2>2, <3>1 DEF EncodeStream, EncodePart, EncAt, Ready, Parts, DirsTyped, LockInv, LockTyped
    <3>2. CASE EncodeSnapshot(e)
      <4>1. "stream" \in dirs[k] \/ k \in robbed BY <2>1, <3>2 DEF EncodeSnapshot, WholeInv, WholeAt
      <4> QED BY <2>1, <2>2, <3>2, <4>1 DEF EncodeSnapshot, EncodePart, Parts, DirsTyped, LockInv, LockTyped, runVars
    <3>3. CASE EncodeUnlock(e) BY <3>3 DEF EncodeUnlock, EncAt, LockInv, LockTyped
    <3> QED BY <1>2, <3>1, <3>2, <3>3 DEF EncodeStep
  <2>8. Key(enc'[e].rend) = k
    <3>1. enc'[e].rend = enc[e].rend
      BY <1>2 DEF EncodeStep, EncodeStream, EncodeSnapshot, EncodeUnlock, EncodePart, EncAt, LockInv, LockTyped
    <3> QED BY <2>1, <3>1
  <2>9. WholeAt(e)'
    BY <2>7, <2>8 DEF WholeAt, Key
  <2> QED BY <2>6, <2>9 DEF WholeInv
<1> QED BY <1>1, <1>2

\* An encoder that begins or ends publishes nothing.
LEMMA OthersRest ==
  ASSUME LockInv, NEW e \in Encoders,
         \/ UNCHANGED enc
         \/ enc' = [enc EXCEPT ![e] = Idle]
         \/ enc' = [enc EXCEPT ![e] = [Idle EXCEPT !.at = "next"]]
         \/ \E r, l : enc' = [enc EXCEPT ![e] = [Idle EXCEPT !.at = "wait", !.rend = r, !.lock = l]]
         \/ \E at \in {"plan", "next", "idle", "queued"} : enc' = [enc EXCEPT ![e].at = at]
  PROVE  \A f \in Encoders : ~Publishing(f)' \/ enc'[f] = enc[f]
<1>1. \A f \in Encoders : f # e => enc'[f] = enc[f] BY DEF LockInv, LockTyped
<1>2. enc'[e] = enc[e] \/ enc'[e].at \notin {"snapshot", "unlock"}
  <2>1. ASSUME NEW r, NEW l, enc' = [enc EXCEPT ![e] = [Idle EXCEPT !.at = "wait", !.rend = r, !.lock = l]]
        PROVE  enc'[e].at \notin {"snapshot", "unlock"}
    BY <2>1 DEF Idle, LockInv, LockTyped
  <2>2. ASSUME NEW at \in {"plan", "next", "idle", "queued"}, enc' = [enc EXCEPT ![e].at = at]
        PROVE  enc'[e].at \notin {"snapshot", "unlock"}
    BY <2>2 DEF LockInv, LockTyped
  <2>3. ASSUME enc' = [enc EXCEPT ![e] = Idle]
        PROVE  enc'[e].at \notin {"snapshot", "unlock"}
    BY <2>3 DEF Idle, LockInv, LockTyped
  <2>4. ASSUME enc' = [enc EXCEPT ![e] = [Idle EXCEPT !.at = "next"]]
        PROVE  enc'[e].at \notin {"snapshot", "unlock"}
    BY <2>4 DEF Idle, LockInv, LockTyped
  <2>5. CASE UNCHANGED enc BY <2>5
  <2> QED BY <2>1, <2>2, <2>3, <2>4, <2>5
<1> QED BY <1>1, <1>2 DEF Publishing

\* The other steps of the jobs begin or end an encoding.
LEMMA JobWhole ==
  ASSUME WholeInv, DirsTyped, LockInv, (\E k \in Keys : JobStep(k)) \/ PrepareStep \/ PlanStep
  PROVE  WholeInv'
<1>1. CASE \E e \in Encoders : EncodeStep(e) BY <1>1, EncodeStepWhole
<1>2. CASE ~\E e \in Encoders : EncodeStep(e)
  <2>1. Prepare \in Encoders /\ Keys \subseteq Encoders BY DEF Prepare, Encoders
  <2>2. UNCHANGED <<dirs, robbed>>
    BY <1>2, <2>1 DEF JobStep, runRendition, RenditionDone, PrepareStep, prepareOne, PrepareRetry, PrepareDone,
           PlanStep, runPrepareRenditions, plannedRenditions, PlanRendition, PlanStream, PlanSaved, rendVars, runVars
  <2>3. ASSUME NEW k \in Keys, JobStep(k) PROVE \A e \in Encoders : ~Publishing(e)' \/ enc'[e] = enc[e]
    <3>1. \/ enc' = [enc EXCEPT ![k] = Idle]
          \/ \E r, l : enc' = [enc EXCEPT ![k] = [Idle EXCEPT !.at = "wait", !.rend = r, !.lock = l]]
      BY <1>2, <2>1, <2>3 DEF JobStep, runRendition, RenditionDone, TakeRef, EndJob
    <3> QED BY <2>1, <3>1, OthersRest
  <2>4. ASSUME PrepareStep \/ PlanStep PROVE \A e \in Encoders : ~Publishing(e)' \/ enc'[e] = enc[e]
    <3>1. \/ UNCHANGED enc
          \/ enc' = [enc EXCEPT ![Prepare] = Idle]
          \/ enc' = [enc EXCEPT ![Prepare] = [Idle EXCEPT !.at = "next"]]
          \/ \E r, l : enc' = [enc EXCEPT ![Prepare] = [Idle EXCEPT !.at = "wait", !.rend = r, !.lock = l]]
          \/ \E at \in {"plan", "next", "idle", "queued"} : enc' = [enc EXCEPT ![Prepare].at = at]
      <4>1. CASE PlanStep
        BY <4>1 DEF PlanStep, runPrepareRenditions, plannedRenditions, PlanRendition, PlanStream, PlanSaved,
                PlanFails, EncAt
      <4>2. CASE PrepareStep
        BY <1>2, <2>1, <4>2 DEF PrepareStep, prepareOne, PrepareRetry, PrepareDone, TakeRef, EncAt
      <4> QED BY <2>4, <4>1, <4>2
    <3> QED BY <2>1, <3>1, OthersRest
  <2> QED BY <2>2, <2>3, <2>4, QuietSteps
<1> QED BY <1>1, <1>2

\* Joining, resuming or canceling a job does not publish, and a crash leaves
\* no encoder at work.
LEMMA OutsideWhole ==
  ASSUME WholeInv, DirsTyped, LockInv,
         Restart \/ (\E e \in Encoders : ResumeJob(e) \/ CancelJob(e)) \/ \E c \in Cams : encodeRendition(c)
  PROVE  WholeInv'
<1>1. CASE Restart
  <2>1. \A e \in Encoders : ~Publishing(e)'
    <3> SUFFICES ASSUME NEW e \in Encoders PROVE enc'[e].at \notin {"snapshot", "unlock"} BY DEF Publishing
    <3>1. CASE enc[e].at = "idle" \/ (e # Prepare /\ enc[e].at = "queued")
      <4>1. enc'[e] = enc[e] BY <1>1, <3>1 DEF Restart
      <4> QED BY <3>1, <4>1
    <3>2. CASE ~(enc[e].at = "idle" \/ (e # Prepare /\ enc[e].at = "queued"))
      <4>1. enc'[e] = [Idle EXCEPT !.at = "interrupted", !.rend = IF e = Prepare THEN NoRend ELSE enc[e].rend]
        BY <1>1, <3>2 DEF Restart
      <4> QED BY <4>1 DEF Idle
    <3> QED BY <3>1, <3>2
  <2> QED BY <2>1 DEF WholeInv, WholeAt, Publishing
<1>2. CASE \E e \in Encoders : ResumeJob(e) \/ CancelJob(e)
  <2>1. UNCHANGED <<dirs, robbed>> BY <1>2 DEF ResumeJob, CancelJob, rendVars, runVars
  <2>2. PICK e \in Encoders : ResumeJob(e) \/ CancelJob(e) BY <1>2
  <2>3. \/ enc' = [enc EXCEPT ![e] = Idle]
        \/ \E at \in {"queued", "next", "plan"} : enc' = [enc EXCEPT ![e].at = at]
    BY <2>2 DEF ResumeJob, CancelJob
  <2>4. \A f \in Encoders : ~Publishing(f)' \/ enc'[f] = enc[f]
    BY <2>3 DEF Idle, Publishing, LockInv, LockTyped
  <2> QED BY <2>1, <2>4, QuietSteps
<1>3. CASE \E c \in Cams : encodeRendition(c)
  <2>1. UNCHANGED <<dirs, robbed>> BY <1>3 DEF encodeRendition, rendVars, runVars
  <2>2. \/ UNCHANGED enc
        \/ \E x, r : enc' = [enc EXCEPT ![x] =
             IF enc[x].at = "idle" THEN [Idle EXCEPT !.at = "queued", !.rend = r]
             ELSE IF enc[x].at = "interrupted" THEN [enc[x] EXCEPT !.at = "queued"] ELSE enc[x]]
    BY <1>3 DEF encodeRendition
  <2>3. \A f \in Encoders : ~Publishing(f)' \/ enc'[f] = enc[f]
    <3>1. CASE UNCHANGED enc BY <3>1
    <3>2. ASSUME NEW x, NEW r, NEW f \in Encoders,
                 enc' = [enc EXCEPT ![x] =
                   IF enc[x].at = "idle" THEN [Idle EXCEPT !.at = "queued", !.rend = r]
                   ELSE IF enc[x].at = "interrupted" THEN [enc[x] EXCEPT !.at = "queued"] ELSE enc[x]]
          PROVE  ~Publishing(f)' \/ enc'[f] = enc[f]
      <4>1. f # x => enc'[f] = enc[f] BY <3>2 DEF LockInv, LockTyped
      <4>2. f = x => enc'[f] = enc[f] \/ enc'[f].at = "queued" BY <3>2 DEF LockInv, LockTyped, Idle
      <4> QED BY <4>1, <4>2 DEF Publishing
    <3> QED BY <2>2, <3>1, <3>2
  <2> QED BY <2>1, <2>3, QuietSteps
<1> QED BY <1>1, <1>2, <1>3

\* Every step leaves whole what encoders have published.
LEMMA WholeStep == WholeInv /\ LockInv /\ DirsTyped /\ [Next]_vars => WholeInv'
<1> SUFFICES ASSUME WholeInv, LockInv, DirsTyped, [Next]_vars PROVE WholeInv' OBVIOUS
<1>1. CASE UNCHANGED <<enc, dirs, robbed>> BY <1>1, QuietSteps
<1>2. CASE (\E u \in Uploaders : UploadAsset(u) \/ UploadStep(u)) \/ DayPasses \/ UNCHANGED vars
  BY <1>1, <1>2 DEF UploadAsset, UploadStep, storeAsset, InsertAsset, DayPasses, vars, encVars, rendVars, runVars
<1>3. CASE DeleteAssetBegin \/ DeleteStep
  <2>1. CASE DeleteAssetDirs BY <2>1, RobSteps
  <2>2. CASE ~DeleteAssetDirs
    BY <1>1, <1>3, <2>2 DEF DeleteAssetBegin, DeleteStep, DeleteAsset, DeleteAssetFile, encVars, rendVars, runVars
  <2> QED BY <2>1, <2>2
<1>4. ASSUME NEW c \in Cams, UpdateCameraStream(c) \/ UpdateCameraConfig(c) \/ EditStep(c) \/ RegenStep(c)
      PROVE  WholeInv'
  <2>1. CASE encodeRendition(c) BY <2>1, OutsideWhole
  <2>2. CASE ~encodeRendition(c)
    BY <1>1, <1>4, <2>2 DEF UpdateCameraStream, UpdateCameraConfig, EditStep, RegenStep, UpdateCameraStreamTx,
           regenerateStreamsLater, RegenRound, loadBundle, streamRendition, PointStream,
           RegenAgain, RegenEnd, encVars, rendVars, runVars
  <2> QED BY <2>1, <2>2
<1>5. CASE (\E k \in Keys : JobStep(k)) \/ PlanStep \/ PrepareStep BY <1>5, JobWhole
<1>6. CASE CollectList \/ CollectStep \/ SweepStep
  <2>1. CASE CollectDir BY <2>1, CollectDirWhole
  <2>2. CASE SweepRemove BY <2>2, RobSteps
  <2>3. CASE ~CollectDir /\ ~SweepRemove
    BY <1>1, <1>6, <2>3 DEF CollectList, CollectStep, CollectTake, CollectRow, SweepStep, sweepRenditionDirs,
           ReadDir, SweepCheck, SweepEnd, encVars, rendVars, runVars
  <2> QED BY <2>1, <2>2, <2>3
<1>7. CASE Restart \/ \E e \in Encoders : ResumeJob(e) \/ CancelJob(e) BY <1>7, OutsideWhole
<1> QED BY <1>2, <1>3, <1>4, <1>5, <1>6, <1>7 DEF Next

\* However attempts fail and crashes come between, an encoder that ends well
\* leaves both files of its rendition, unless a deletion of the image or the
\* sweep of stray directories removed its directory while it worked; the
\* collector never does.
THEOREM EncodedIsWholeAlways == Spec => []EncodedIsWhole
<1>1. Init => WholeInv BY DEF Init, WholeInv, WholeAt, Idle
<1>2. WholeInv => EncodedIsWhole BY DEF WholeInv, WholeAt, EncodedIsWhole, Ready
<1> QED BY <1>1, <1>2, WholeStep, LockAlways, PTL DEF Spec
=============================================================================
