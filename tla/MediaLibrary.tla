---------------------------- MODULE MediaLibrary ----------------------------
(***************************************************************************)
(* Images, renditions and the jobs that encode them                        *)
(* (backend/internal/app/assets.go, prepare.go, backend/internal/media).   *)
(*                                                                         *)
(* An image (asset) and the encoder settings of a camera stream name a     *)
(* rendition: a row of the store and a directory with a stream and a       *)
(* snapshot.  Rendition jobs, the prepare job, the regenerations that      *)
(* follow an edit, the hourly collector, uploads and deletions all touch   *)
(* them, each taking the store and the file system one call at a time.     *)
(***************************************************************************)
EXTENDS Integers, FiniteSets

CONSTANTS
  Images,      \* contents of an image; the SHA-256 of the code
  Builtin,     \* the test pattern, one of Images
  Settings,    \* encoder settings of a stream
  Cams,        \* cameras, with one stream each
  Uploaders,   \* concurrent calls of UploadAsset and ensureBuiltinAsset
  NoCall,      \* no goroutine holds builtinMu
  MaxEdits,    \* bound: changes of one camera's stream
  MaxUploads,  \* bound: rows InsertAsset has made for one image
  MaxRefs,     \* bound: references to one encode lock
  MaxBusy,     \* bound: calls and background tasks under way at once
  MaxRestarts  \* bound: crashes of the backend

ASSUME LibraryAssumption ==
  /\ Builtin \in Images /\ NoCall \notin Uploaders
  /\ IsFiniteSet(Images) /\ IsFiniteSet(Settings)
  /\ {"none", "keep", "prepare"} \cap Settings = {}
  /\ {MaxEdits, MaxUploads, MaxRefs, MaxBusy, MaxRestarts} \subseteq Nat

VARIABLES
  assets,   \* table assets: the row of each image, 0 when there is none
  made,     \* rows InsertAsset has made for each image (row IDs are unique)
  files,    \* images with a file in the assets directory
  rends,    \* table renditions
  dirs,     \* files in the directory of each rendition
  aged,     \* directories last written over an hour ago
  stream,   \* table camera_streams: the asset and the rendition of each camera
  want,     \* table camera_state: the encoder settings of each camera
  edit,     \* the call of UpdateCameraStream or UpdateCameraConfig on a camera
  edits,    \* edits so far
  regens,   \* Service.regens: the entry of each camera and its again flag
  regen,    \* the goroutine of regenerateStreamsLater
  enc,      \* the rendition job of each key, and the prepare job
  plan,     \* renditions the prepare job has yet to do
  planner,  \* the prepare job while it plans
  locks,    \* Service.encodes
  held,     \* encode locks that are locked
  up,       \* uploads
  builtinMu,
  del,      \* the call of DeleteAsset
  col,      \* collectRenditions and sweepRenditionDirs
  restarts, \* crashes so far
  overlap,  \* history: images uploaded while the file of a deleted row was removed
  robbed    \* history: directories removed under the encoder that works on them

assetVars == <<assets, made, files>>
rendVars  == <<rends, dirs, aged>>
camVars   == <<stream, want>>
editVars  == <<edit, edits>>
regenVars == <<regens, regen>>
planVars  == <<plan, planner>>
encVars   == <<enc, planVars>>
lockVars  == <<locks, held>>
upVars    == <<up, builtinMu>>
runVars   == <<restarts, overlap, robbed>>
vars == <<assetVars, rendVars, camVars, editVars, regenVars, encVars, lockVars,
          upVars, del, col, runVars>>

-----------------------------------------------------------------------------
(* Identifiers *)

Keys == Images \X Settings                    \* Params.Key(sha256)

\* A directory may also hold "tmp", what an encoding left unfinished.
Parts == {"stream", "snapshot"}
Encoders == Keys \cup {<<Builtin, "prepare">>}

\* The prepare job is the encoder that belongs to no key.
Prepare == <<Builtin, "prepare">>

NoAsset == [image |-> Builtin, row |-> 0]
NoRend  == [image |-> Builtin, asset |-> 0, set |-> "none", gen |-> 0]

\* The cache key of a rendition: its image's content and its settings.
Key(r) == <<r.image, r.set>>

Asset(i) == [image |-> i, row |-> assets[i]]

Idle == [at |-> "idle", rend |-> NoRend, lock |-> 0, ok |-> FALSE]
NoPlanner == [at |-> "idle", only |-> NoAsset, todo |-> {}, cam |-> {},
              asset |-> NoAsset, cur |-> NoRend, set |-> "none", rend |-> NoRend]
NoEdit == [at |-> "idle", asset |-> NoAsset, set |-> "none", rend |-> NoRend]

\* Calls and tasks under way, for the bound on how many there are.
Busy ==
  Cardinality({u \in Uploaders : up[u].at # "idle"})
    + Cardinality({c \in Cams : edit[c].at # "idle" \/ regen[c].at # "idle"})
    + Cardinality({x \in {<<1, del.at>>, <<2, enc[Prepare].at>>, <<3, col.at>>} :
                    x[2] \notin {"idle", "interrupted"}})

-----------------------------------------------------------------------------
(* Statements of the store *)

GetAsset(a) == a.row # 0 /\ assets[a.image] = a.row

GetAssetBySHA256(i) == assets[i] # 0

GetRendition(r) == \E row \in rends : row.id = r

GetRenditionByParams(a, s) ==
  {row.id : row \in {x \in rends : x.id.image = a.image /\ x.id.asset = a.row /\ x.id.set = s}}

ListRenditionsWithAsset == {Key(row.id) : row \in rends}

\* Rows over a day old that no camera stream points to.
ListUnusedRenditions ==
  {row.id : row \in {x \in rends : x.old /\ \A c \in Cams : stream[c].rend # x.id}}

\* Every reference to a rendition ID, so that a new row gets a fresh one.
InUse ==
  {row.id : row \in rends} \cup {stream[c].rend : c \in Cams}
    \cup {regen[c].rend : c \in Cams} \cup {regen[c].cur : c \in Cams}
    \cup {edit[c].rend : c \in Cams}
    \cup {enc[e].rend : e \in Encoders} \cup plan \cup {planner.cur, planner.rend}
    \cup col.todo

NewRendition(a, s) ==
  LET ids == {r \in InUse : r.image = a.image /\ r.asset = a.row /\ r.set = s}
      g == CHOOSE n \in 1 .. Cardinality(ids) + 1 : \A r \in ids : r.gen # n
  IN [image |-> a.image, asset |-> a.row, set |-> s, gen |-> g]

\* INSERT ... ON CONFLICT DO NOTHING of a pending rendition.
InsertRendition(r) ==
  rends' = rends \cup {[id |-> r, old |-> FALSE]}

\* DELETE by ID: camera streams that point to it lose it (SET NULL).
DeleteRendition(r) ==
  /\ rends' = {row \in rends : row.id # r}
  /\ stream' = [c \in Cams |-> IF stream[c].rend = r
                               THEN [stream[c] EXCEPT !.rend = NoRend] ELSE stream[c]]

\* The two foreign keys of camera_streams.
StreamFits(a, r) == GetAsset(a) /\ GetRendition(r)

UpsertCameraStream(c, a, r) ==
  stream' = [stream EXCEPT ![c] = [asset |-> a, rend |-> r]]

-----------------------------------------------------------------------------
(* Encode locks *)

\* Lock objects of key k that some goroutine still holds or waits for.
LockObjects(k) ==
  {enc[e].lock : e \in {x \in Encoders : Key(enc[x].rend) = k}} \cup
  (IF col.at # "idle" /\ Key(col.item) = k THEN {col.lock} ELSE {})

\* The lock of a key: the one of the map, or a new one.
LockOf(k) ==
  IF locks[k].obj # 0 THEN locks[k].obj
  ELSE CHOOSE n \in 1 .. Cardinality(LockObjects(k)) + 1 : n \notin LockObjects(k)

encodeLock(k) ==
  locks' = [locks EXCEPT ![k] = [obj |-> LockOf(k), refs |-> locks[k].refs + 1]]

\* A bug: the entry goes with the first caller that is done.
dropEncodeLockEarly(k) ==
  locks' = [locks EXCEPT ![k] = [obj |-> 0, refs |-> 0]]

dropEncodeLock(k) ==
  locks' = [locks EXCEPT ![k] =
    IF locks[k].refs <= 1 THEN [obj |-> 0, refs |-> 0]
    ELSE [obj |-> locks[k].obj, refs |-> locks[k].refs - 1]]

-----------------------------------------------------------------------------
(* Uploads *)

\* ensureBuiltinAsset, for the test pattern, holds builtinMu until it is done.
ensureBuiltinAsset(u, i) ==
  IF i = Builtin THEN builtinMu = NoCall /\ builtinMu' = u ELSE UNCHANGED builtinMu

\* An upload is under way while the file of a deleted row is removed.
Overlapping ==
  overlap' = IF del'.at = "file"
                  /\ \E u \in Uploaders : up'[u].at # "idle" /\ up'[u].image = del'.asset.image
             THEN overlap \cup {del'.asset.image} ELSE overlap

\* UploadAsset and storeAsset up to the first look at the store.
UploadAsset(u) ==
  /\ up[u].at = "idle" /\ Busy < MaxBusy
  /\ \E i \in Images :
       /\ made[i] < MaxUploads
       /\ ~GetAssetBySHA256(i)
       /\ ensureBuiltinAsset(u, i)
       /\ up' = [up EXCEPT ![u] = [at |-> "write", image |-> i]]
  /\ UNCHANGED <<assetVars, rendVars, camVars, editVars, regenVars, encVars, lockVars,
                 del, col, restarts, robbed>>
  /\ Overlapping

\* The content is written to a temporary file and renamed into place.
storeAsset(u) ==
  /\ up[u].at = "write"
  /\ files' = files \cup {up[u].image}
  /\ up' = [up EXCEPT ![u].at = "insert"]
  /\ UNCHANGED <<assets, made, rendVars, camVars, editVars, regenVars, encVars, lockVars,
                 builtinMu, del, col, runVars>>

\* A second upload of the same content meets the UNIQUE constraint and
\* returns the row that is there.
InsertAsset(u) ==
  /\ up[u].at = "insert"
  /\ LET i == up[u].image IN
       IF GetAssetBySHA256(i) THEN UNCHANGED <<assets, made>>
       ELSE /\ made' = [made EXCEPT ![i] = @ + 1]
            /\ assets' = [assets EXCEPT ![i] = made[i] + 1]
  /\ up' = [up EXCEPT ![u].at = "idle"]
  /\ builtinMu' = IF builtinMu = u THEN NoCall ELSE builtinMu
  /\ UNCHANGED <<files, rendVars, camVars, editVars, regenVars, encVars, lockVars,
                 del, col, runVars>>

-----------------------------------------------------------------------------
(* Deletion of an image *)

\* The built-in pattern is refused; the directories of the renditions are
\* listed before the row goes.
DeleteAssetBegin ==
  /\ del.at = "idle" /\ Busy < MaxBusy
  /\ \E i \in Images \ {Builtin} :
       /\ GetAssetBySHA256(i)
       /\ del' = [at |-> "row", asset |-> Asset(i),
                  dirs |-> {Key(row.id) : row \in {x \in rends :
                              x.id.image = i /\ x.id.asset = assets[i]}}]
  /\ UNCHANGED <<assetVars, rendVars, camVars, editVars, regenVars, encVars, lockVars,
                 upVars, col, runVars>>

\* A bug: the file goes before the store says whether a camera uses it.
DeleteAssetFileFirst ==
  /\ del.at = "row"
  /\ files' = files \ {del.asset.image}
  /\ del' = [at |-> "idle", asset |-> NoAsset, dirs |-> {}]
  /\ UNCHANGED <<assets, made, rendVars, camVars, editVars, regenVars, encVars, lockVars,
                 upVars, col, runVars>>

\* A foreign key keeps the image of a camera; the renditions cascade.
DeleteAsset ==
  /\ del.at = "row"
  /\ \/ /\ \E c \in Cams : stream[c].asset = del.asset
        /\ del' = [del EXCEPT !.at = "idle", !.asset = NoAsset, !.dirs = {}]
        /\ UNCHANGED <<assets, rends>>
     \/ /\ \A c \in Cams : stream[c].asset # del.asset
        /\ del' = [del EXCEPT !.at = "file"]
        /\ assets' = [assets EXCEPT ![del.asset.image] =
                        IF GetAsset(del.asset) THEN 0 ELSE @]
        /\ rends' = {row \in rends : row.id.image # del.asset.image
                                       \/ row.id.asset # del.asset.row}
  /\ UNCHANGED <<made, files, dirs, aged, camVars, editVars, regenVars, encVars, lockVars,
                 upVars, col, restarts, robbed>>
  /\ Overlapping

DeleteAssetFile ==
  /\ del.at = "file"
  /\ files' = files \ {del.asset.image}
  /\ del' = [del EXCEPT !.at = "dirs"]
  /\ UNCHANGED <<assets, made, rendVars, camVars, editVars, regenVars, encVars, lockVars,
                 upVars, col, runVars>>

\* os.RemoveAll of directories, without their encode locks.
RemoveAll(ks) ==
  /\ dirs' = [k \in Keys |-> IF k \in ks THEN {} ELSE dirs[k]]
  /\ aged' = aged \ ks

\* Encoders that hold the lock of key k, and those at work on its files.
Holders(k)  == {e \in Encoders : enc[e].at \in {"hold", "snapshot", "unlock"} /\ Key(enc[e].rend) = k}
Encoding(k) == {e \in Holders(k) : enc[e].at # "unlock"}

Rob(ks) == robbed' = robbed \cup {k \in ks : Holders(k) # {}}

DeleteAssetDirs ==
  /\ del.at = "dirs"
  /\ RemoveAll(del.dirs) /\ Rob(del.dirs)
  /\ del' = [at |-> "idle", asset |-> NoAsset, dirs |-> {}]
  /\ UNCHANGED <<assetVars, rends, camVars, editVars, regenVars, encVars, lockVars,
                 upVars, col, restarts, overlap>>

-----------------------------------------------------------------------------
(* Changes of a camera's stream *)

\* ensureRenditionRow: the row of an asset for the settings, inserted as
\* pending when there is none.
ensureRenditionRow(a, s) ==
  LET found == GetRenditionByParams(a, s)
  IN IF found # {} THEN CHOOSE r \in found : TRUE ELSE NewRendition(a, s)

\* What ensureRenditionRow leaves in the store.
EnsureRow(a, s) ==
  IF GetRenditionByParams(a, s) # {} THEN UNCHANGED rends
  ELSE InsertRendition(NewRendition(a, s))

\* UpdateCameraStream up to its transaction: a new image, new settings or
\* both; what is not given comes from the camera as it is now.
UpdateCameraStream(c) ==
  /\ edit[c].at = "idle" /\ edits[c] < MaxEdits /\ (Busy < MaxBusy \/ regen[c].at # "idle")
  /\ edits' = [edits EXCEPT ![c] = @ + 1]
  /\ \E i \in {x \in Images : GetAssetBySHA256(x)} \cup {"keep"}, s \in Settings \cup {"keep"} :
       LET a == IF i = "keep" THEN stream[c].asset ELSE Asset(i)
           v == IF s = "keep" THEN want[c] ELSE s
       IN /\ <<i, s>> # <<"keep", "keep">>
          /\ GetAsset(a)
          /\ EnsureRow(a, v)
          /\ edit' = [edit EXCEPT ![c] =
               [at |-> "tx", asset |-> a, set |-> s, rend |-> ensureRenditionRow(a, v)]]
  /\ UNCHANGED <<assetVars, dirs, aged, camVars, regenVars, encVars, lockVars, upVars, del, col, runVars>>

\* Its transaction, refused when the asset or the rendition went meanwhile.
UpdateCameraStreamTx(c) ==
  /\ edit[c].at = "tx"
  /\ LET e == edit[c] IN
       IF StreamFits(e.asset, e.rend)
       THEN /\ UpsertCameraStream(c, e.asset, e.rend)
            /\ want' = [want EXCEPT ![c] = IF e.set = "keep" THEN @ ELSE e.set]
            /\ edit' = [edit EXCEPT ![c] = [NoEdit EXCEPT !.at = "notify"]]
       ELSE /\ edit' = [edit EXCEPT ![c] = NoEdit]
            /\ UNCHANGED camVars
  /\ UNCHANGED <<assetVars, rendVars, edits, regenVars, encVars, lockVars, upVars, del, col, runVars>>

\* UpdateCameraConfig, or a change from the emulated API, of a parameter
\* bound to the encoder: only the camera's state is written.
UpdateCameraConfig(c) ==
  /\ edit[c].at = "idle" /\ edits[c] < MaxEdits /\ (Busy < MaxBusy \/ regen[c].at # "idle")
  /\ edits' = [edits EXCEPT ![c] = @ + 1]
  /\ \E s \in Settings : want' = [want EXCEPT ![c] = s]
  /\ edit' = [edit EXCEPT ![c] = [NoEdit EXCEPT !.at = "notify"]]
  /\ UNCHANGED <<assetVars, rendVars, stream, regenVars, encVars, lockVars, upVars, del, col, runVars>>

\* The call both end with: the goroutine that runs is asked for a further
\* round, or one is started.
regenerateStreamsLater(c) ==
  /\ edit[c].at = "notify"
  /\ edit' = [edit EXCEPT ![c] = NoEdit]
  /\ \/ /\ regens[c] # "none"
        /\ regens' = [regens EXCEPT ![c] = "again"]
        /\ UNCHANGED regen
     \/ /\ regens[c] = "none"
        /\ regens' = [regens EXCEPT ![c] = "once"]
        /\ regen' = [regen EXCEPT ![c].at = "debounce"]
  /\ UNCHANGED <<assetVars, rendVars, camVars, edits, encVars, lockVars, upVars, del, col, runVars>>

-----------------------------------------------------------------------------
(* Regeneration of a camera's streams *)

NoRegen == [at |-> "idle", asset |-> NoAsset, cur |-> NoRend, set |-> "none", rend |-> NoRend]

\* The end of one round, whatever became of it.
Ran(c) == regen' = [regen EXCEPT ![c] = [NoRegen EXCEPT !.at = "ran"]]

\* After the debounce, again is cleared before anything is read.
RegenRound(c) ==
  /\ regen[c].at = "debounce"
  /\ regens' = [regens EXCEPT ![c] = "once"]
  /\ regen' = [regen EXCEPT ![c].at = "load"]
  /\ UNCHANGED <<assetVars, rendVars, camVars, editVars, encVars, lockVars, upVars, del, col, runVars>>

\* loadBundle: the stream and the parameter values, as they are now.
loadBundle(c) ==
  /\ regen[c].at = "load"
  /\ regen' = [regen EXCEPT ![c] = [NoRegen EXCEPT
                 !.at = "rend", !.asset = stream[c].asset, !.cur = stream[c].rend, !.set = want[c]]]
  /\ UNCHANGED <<assetVars, rendVars, camVars, editVars, regens, encVars, lockVars, upVars, del, col, runVars>>

\* streamRendition up to the upsert.
streamRendition(c) ==
  /\ regen[c].at = "rend"
  /\ LET g == regen[c] IN
       IF ~GetAsset(g.asset) THEN Ran(c) /\ UNCHANGED rends
       ELSE LET r == ensureRenditionRow(g.asset, g.set) IN
            /\ EnsureRow(g.asset, g.set)
            /\ regen' = [regen EXCEPT ![c] = [g EXCEPT
                 !.at = IF g.cur = r THEN "encode" ELSE "upsert", !.rend = r]]
  /\ UNCHANGED <<assetVars, dirs, aged, camVars, editVars, regens, encVars, lockVars, upVars, del, col, runVars>>

\* A bug: the upsert leaves the asset of the stream as it finds it.
PointStreamRendition(c) ==
  /\ regen[c].at = "upsert"
  /\ IF StreamFits(regen[c].asset, regen[c].rend)
     THEN /\ stream' = [stream EXCEPT ![c].rend = regen[c].rend]
          /\ regen' = [regen EXCEPT ![c].at = "encode"]
     ELSE Ran(c) /\ UNCHANGED stream
  /\ UNCHANGED <<assetVars, rendVars, want, editVars, regens, encVars, lockVars, upVars, del, col, runVars>>

\* The stream is pointed at the rendition and at the asset the bundle had.
PointStream(c) ==
  /\ regen[c].at = "upsert"
  /\ IF StreamFits(regen[c].asset, regen[c].rend)
     THEN /\ UpsertCameraStream(c, regen[c].asset, regen[c].rend)
          /\ regen' = [regen EXCEPT ![c].at = "encode"]
     ELSE Ran(c) /\ UNCHANGED stream
  /\ UNCHANGED <<assetVars, rendVars, want, editVars, regens, encVars, lockVars, upVars, del, col, runVars>>

Ready(k) == Parts \subseteq dirs[k]

\* encodeRendition: nothing to do, or join the job of the rendition, resume
\* the one a crash interrupted or submit one, and wait for it.
encodeRendition(c) ==
  /\ regen[c].at = "encode"
  /\ LET r == regen[c].rend IN
       \/ /\ ~GetRendition(r) \/ Ready(Key(r))
          /\ Ran(c) /\ UNCHANGED enc
       \/ /\ GetRendition(r) /\ ~Ready(Key(r))
          /\ enc' = [enc EXCEPT ![Key(r)] =
                       IF @.at = "idle" THEN [Idle EXCEPT !.at = "queued", !.rend = r]
                       ELSE IF @.at = "interrupted" THEN [@ EXCEPT !.at = "queued"] ELSE @]
          /\ regen' = [regen EXCEPT ![c].at = "wait"]
  /\ UNCHANGED <<assetVars, rendVars, camVars, editVars, regens, planVars, lockVars, upVars, del, col, runVars>>

\* The round ended; was another one asked for meanwhile?
RegenAgain(c) ==
  /\ regen[c].at = "ran"
  /\ regen' = [regen EXCEPT ![c].at = IF regens[c] = "again" THEN "debounce" ELSE "exit"]
  /\ UNCHANGED <<assetVars, rendVars, camVars, editVars, regens, encVars, lockVars, upVars, del, col, runVars>>

\* The deferred delete, in a critical section of its own.
RegenEnd(c) ==
  /\ regen[c].at = "exit"
  /\ regens' = [regens EXCEPT ![c] = "none"]
  /\ regen' = [regen EXCEPT ![c] = NoRegen]
  /\ UNCHANGED <<assetVars, rendVars, camVars, editVars, encVars, lockVars, upVars, del, col, runVars>>

-----------------------------------------------------------------------------
(* Encoding *)

EncAt(e, at) == enc' = [enc EXCEPT ![e].at = at]

\* The end of the rendition job of key k: the rounds that wait for it go on.
EndJob(k) ==
  /\ enc' = [enc EXCEPT ![k] = Idle]
  /\ regen' = [c \in Cams |-> IF regen[c].at = "wait" /\ Key(regen[c].rend) = k
                              THEN [NoRegen EXCEPT !.at = "ran"] ELSE regen[c]]

\* encodeSteps begins with a reference to the lock of its key.
TakeRef(e, r) ==
  /\ encodeLock(Key(r))
  /\ enc' = [enc EXCEPT ![e] = [Idle EXCEPT !.at = "wait", !.rend = r, !.lock = LockOf(Key(r))]]

\* runRendition finds its rendition, or ends because it is gone.
runRendition(k) ==
  /\ enc[k].at = "queued"
  /\ \/ GetRendition(enc[k].rend) /\ TakeRef(k, enc[k].rend) /\ UNCHANGED regen
     \/ ~GetRendition(enc[k].rend) /\ EndJob(k) /\ UNCHANGED locks
  /\ UNCHANGED <<assetVars, rendVars, camVars, editVars, regens, planVars, held, upVars, del, col, runVars>>

\* A prepare job plans, for all cameras or for those with one image.
runPrepareRenditions ==
  /\ enc[Prepare].at = "idle" /\ Busy < MaxBusy
  /\ EncAt(Prepare, "plan")
  /\ \E only \in {NoAsset} \cup {Asset(i) : i \in {x \in Images : GetAssetBySHA256(x)}} :
       planner' = [NoPlanner EXCEPT !.at = "cams", !.only = only, !.todo = Cams]
  /\ UNCHANGED <<assetVars, rendVars, camVars, editVars, regenVars, plan, lockVars, upVars, del, col, runVars>>

\* plannedRenditions: the bundle of the next camera is loaded.
plannedRenditions ==
  /\ enc[Prepare].at = "plan" /\ planner.at = "cams"
  /\ \E c \in planner.todo :
       planner' = IF planner.only \in {NoAsset, stream[c].asset}
                  THEN [planner EXCEPT !.at = "rend", !.todo = @ \ {c}, !.cam = {c},
                          !.asset = stream[c].asset, !.cur = stream[c].rend, !.set = want[c]]
                  ELSE [planner EXCEPT !.todo = @ \ {c}]
  /\ UNCHANGED <<assetVars, rendVars, camVars, editVars, regenVars, enc, plan, lockVars, upVars, del, col, runVars>>

PlanFails ==
  enc' = [enc EXCEPT ![Prepare] = Idle] /\ planner' = NoPlanner /\ plan' = {}

\* The camera is planned; its rendition is listed once.
Planned(r) ==
  /\ planner' = [NoPlanner EXCEPT !.at = "cams", !.only = planner.only, !.todo = planner.todo]
  /\ plan' = plan \cup {r}

\* streamRendition for the camera that was loaded, up to the upsert.
PlanRendition ==
  /\ enc[Prepare].at = "plan" /\ planner.at = "rend"
  /\ IF ~GetAsset(planner.asset) THEN PlanFails /\ UNCHANGED rends
     ELSE LET r == ensureRenditionRow(planner.asset, planner.set) IN
          /\ EnsureRow(planner.asset, planner.set)
          /\ IF planner.cur = r THEN Planned(r)
             ELSE planner' = [planner EXCEPT !.at = "upsert", !.rend = r] /\ UNCHANGED plan
          /\ UNCHANGED enc
  /\ UNCHANGED <<assetVars, dirs, aged, camVars, editVars, regenVars, lockVars, upVars, del, col, runVars>>

\* A bug: the upsert leaves the asset of the stream as it finds it.
PlanStreamRendition ==
  /\ enc[Prepare].at = "plan" /\ planner.at = "upsert"
  /\ IF StreamFits(planner.asset, planner.rend)
     THEN /\ stream' = [c \in Cams |-> IF c \in planner.cam
                          THEN [stream[c] EXCEPT !.rend = planner.rend] ELSE stream[c]]
          /\ Planned(planner.rend)
          /\ UNCHANGED enc
     ELSE PlanFails /\ UNCHANGED stream
  /\ UNCHANGED <<assetVars, rendVars, want, editVars, regenVars, lockVars, upVars, del, col, runVars>>

\* The upsert, with the asset the bundle had.
PlanStream ==
  /\ enc[Prepare].at = "plan" /\ planner.at = "upsert"
  /\ IF StreamFits(planner.asset, planner.rend)
     THEN /\ \E c \in planner.cam : UpsertCameraStream(c, planner.asset, planner.rend)
          /\ Planned(planner.rend)
          /\ UNCHANGED enc
     ELSE PlanFails /\ UNCHANGED stream
  /\ UNCHANGED <<assetVars, rendVars, want, editVars, regenVars, lockVars, upVars, del, col, runVars>>

\* The plan is saved as the checkpoint of the job.
PlanSaved ==
  /\ enc[Prepare].at = "plan" /\ planner.at = "cams" /\ planner.todo = {}
  /\ EncAt(Prepare, "next")
  /\ planner' = NoPlanner
  /\ UNCHANGED <<assetVars, rendVars, camVars, editVars, regenVars, plan, lockVars, upVars, del, col, runVars>>

\* prepareOne: gone, ready, or to be encoded.
prepareOne ==
  /\ enc[Prepare].at = "next"
  /\ \/ plan = {} /\ EncAt(Prepare, "idle") /\ UNCHANGED <<plan, locks>>
     \/ \E r \in plan :
          \/ /\ ~GetRendition(r) \/ Ready(Key(r))
             /\ plan' = plan \ {r}
             /\ UNCHANGED <<enc, locks>>
          \/ /\ GetRendition(r) /\ ~Ready(Key(r))
             /\ TakeRef(Prepare, r)
             /\ UNCHANGED plan
  /\ UNCHANGED <<assetVars, rendVars, camVars, editVars, regenVars, planner, held, upVars, del, col, runVars>>

PrepareRetry ==
  /\ enc[Prepare].at = "queued"
  /\ TakeRef(Prepare, enc[Prepare].rend)
  /\ UNCHANGED <<assetVars, rendVars, camVars, editVars, regenVars, planVars, held, upVars, del, col, runVars>>

\* encodeSteps, one call after the other.
EncodeAcquire(e) ==
  /\ enc[e].at = "wait"
  /\ LET l == <<Key(enc[e].rend), enc[e].lock>> IN l \notin held /\ held' = held \cup {l}
  /\ EncAt(e, "hold")
  /\ UNCHANGED <<assetVars, rendVars, camVars, editVars, regenVars, planVars, locks, upVars, del, col, runVars>>

\* EncodeStream and EncodeSnapshot write a temporary file and publish it by a
\* rename, or fail, which may leave it; without the image they always fail.
EncodePart(e, part, next) ==
  LET k == Key(enc[e].rend) IN
  \/ /\ k[1] \in files
     /\ dirs' = [dirs EXCEPT ![k] = (@ \ {"tmp"}) \cup {part}]
     /\ aged' = aged \ {k}
     /\ enc' = [enc EXCEPT ![e].at = next, ![e].ok = TRUE]
  \/ /\ enc' = [enc EXCEPT ![e].at = "unlock", ![e].ok = FALSE]
     /\ \/ UNCHANGED <<dirs, aged>>
        \/ dirs' = [dirs EXCEPT ![k] = @ \cup {"tmp"}] /\ aged' = aged \ {k}

\* A bug: whatever an earlier attempt left is taken for its checkpoint.
EncodeStreamLeftover(e) ==
  /\ enc[e].at = "hold"
  /\ LET k == Key(enc[e].rend) IN
       IF dirs[k] # {} THEN EncAt(e, "snapshot") /\ UNCHANGED <<dirs, aged>>
       ELSE EncodePart(e, "stream", "snapshot")
  /\ UNCHANGED <<assetVars, rends, camVars, editVars, regenVars, planVars, lockVars, upVars, del, col, runVars>>

\* Ready: nothing to do.  The stream file is the checkpoint of a job that
\* was interrupted after it.
EncodeStream(e) ==
  /\ enc[e].at = "hold"
  /\ LET k == Key(enc[e].rend) IN
       \/ /\ Ready(k)
          /\ enc' = [enc EXCEPT ![e].at = "unlock", ![e].ok = TRUE]
          /\ UNCHANGED <<dirs, aged>>
       \/ /\ ~Ready(k) /\ "stream" \in dirs[k]
          /\ EncAt(e, "snapshot") /\ UNCHANGED <<dirs, aged>>
       \/ "stream" \notin dirs[k] /\ EncodePart(e, "stream", "snapshot")
  /\ UNCHANGED <<assetVars, rends, camVars, editVars, regenVars, planVars, lockVars, upVars, del, col, runVars>>

EncodeSnapshot(e) ==
  /\ enc[e].at = "snapshot"
  /\ EncodePart(e, "snapshot", "unlock")
  /\ UNCHANGED <<assetVars, rends, camVars, editVars, regenVars, planVars, lockVars, upVars, del, col, runVars>>

\* The deferred Unlock; the deferred dropEncodeLock comes next.
EncodeUnlock(e) ==
  /\ enc[e].at = "unlock"
  /\ held' = held \ {<<Key(enc[e].rend), enc[e].lock>>}
  /\ EncAt(e, "drop")
  /\ robbed' = robbed \ {Key(enc[e].rend)}
  /\ UNCHANGED <<assetVars, rendVars, camVars, editVars, regenVars, planVars, locks, upVars, del, col,
                 restarts, overlap>>

\* The end of a rendition job.
RenditionDone(k) ==
  /\ enc[k].at = "drop"
  /\ dropEncodeLock(Key(enc[k].rend))
  /\ EndJob(k)
  /\ UNCHANGED <<assetVars, rendVars, camVars, editVars, regens, planVars, held, upVars, del, col, runVars>>

\* The end of one rendition of the prepare job: after a failure it asks
\* whether to retry, skip it (what it does unanswered) or stop.
PrepareDone ==
  /\ enc[Prepare].at = "drop"
  /\ dropEncodeLock(Key(enc[Prepare].rend))
  /\ \/ /\ plan' = plan \ {enc[Prepare].rend}
        /\ enc' = [enc EXCEPT ![Prepare] = [Idle EXCEPT !.at = "next"]]
     \/ ~enc[Prepare].ok /\ EncAt(Prepare, "queued") /\ UNCHANGED plan
     \/ ~enc[Prepare].ok /\ plan' = {} /\ enc' = [enc EXCEPT ![Prepare] = Idle]
  /\ UNCHANGED <<assetVars, rendVars, camVars, editVars, regenVars, planner, held, upVars, del, col, runVars>>

-----------------------------------------------------------------------------
(* The collector *)

NoCollect == [at |-> "idle", todo |-> {}, item |-> NoRend, lock |-> 0, keys |-> {}]

CollectList ==
  /\ col.at = "idle" /\ Busy < MaxBusy
  /\ col' = [NoCollect EXCEPT !.at = "items", !.todo = ListUnusedRenditions]
  /\ UNCHANGED <<assetVars, rendVars, camVars, editVars, regenVars, encVars, lockVars, upVars, del, runVars>>

\* encodeLock and TryLock; one that is being encoded is left alone, and so
\* is the reference that was taken to its lock.
CollectTake ==
  /\ col.at = "items"
  /\ \E r \in col.todo :
       LET k == Key(r) IN
       /\ encodeLock(k)
       /\ \/ /\ <<k, LockOf(k)>> \in held
             /\ locks[k].refs < MaxRefs
             /\ col' = [col EXCEPT !.todo = @ \ {r}]
             /\ UNCHANGED held
          \/ /\ <<k, LockOf(k)>> \notin held
             /\ held' = held \cup {<<k, LockOf(k)>>}
             /\ col' = [col EXCEPT !.at = "row", !.item = r, !.lock = LockOf(k)]
  /\ UNCHANGED <<assetVars, rendVars, camVars, editVars, regenVars, encVars, upVars, del, runVars>>

\* The row goes whatever points to it by now.
CollectRow ==
  /\ col.at = "row"
  /\ DeleteRendition(col.item)
  /\ col' = [col EXCEPT !.at = "dir"]
  /\ UNCHANGED <<assetVars, dirs, aged, want, editVars, regenVars, encVars, lockVars, upVars, del, runVars>>

CollectDir ==
  /\ col.at = "dir"
  /\ RemoveAll({Key(col.item)})
  /\ held' = held \ {<<Key(col.item), col.lock>>}
  /\ dropEncodeLock(Key(col.item))
  /\ col' = [col EXCEPT !.at = "items", !.todo = col.todo \ {col.item}, !.item = NoRend, !.lock = 0]
  /\ UNCHANGED <<assetVars, rends, camVars, editVars, regenVars, encVars, upVars, del, runVars>>

\* sweepRenditionDirs lists the keys of the rows ...
sweepRenditionDirs ==
  /\ col.at = "items" /\ col.todo = {}
  /\ col' = [col EXCEPT !.at = "known", !.keys = ListRenditionsWithAsset]
  /\ UNCHANGED <<assetVars, rendVars, camVars, editVars, regenVars, encVars, lockVars, upVars, del, runVars>>

\* ... and then the other directories (young ones are skipped below anyway) ...
ReadDir ==
  /\ col.at = "known"
  /\ col' = [col EXCEPT !.at = "dirs", !.keys = aged \ col.keys]
  /\ UNCHANGED <<assetVars, rendVars, camVars, editVars, regenVars, encVars, lockVars, upVars, del, runVars>>

\* ... looks at the age of each ...
SweepCheck ==
  /\ col.at = "dirs"
  /\ \E k \in col.keys :
       col' = IF k \in aged THEN [col EXCEPT !.at = "remove", !.keys = @ \ {k},
                                   !.item = [NoRend EXCEPT !.image = k[1], !.set = k[2]]]
              ELSE [col EXCEPT !.keys = @ \ {k}]
  /\ UNCHANGED <<assetVars, rendVars, camVars, editVars, regenVars, encVars, lockVars, upVars, del, runVars>>

\* ... and removes it, without its encode lock.
SweepRemove ==
  /\ col.at = "remove"
  /\ RemoveAll({Key(col.item)}) /\ Rob({Key(col.item)})
  /\ col' = [col EXCEPT !.at = "dirs", !.item = NoRend]
  /\ UNCHANGED <<assetVars, rends, camVars, editVars, regenVars, encVars, lockVars, upVars, del,
                 restarts, overlap>>

SweepEnd ==
  /\ col.at = "dirs" /\ col.keys = {}
  /\ col' = NoCollect
  /\ UNCHANGED <<assetVars, rendVars, camVars, editVars, regenVars, encVars, lockVars, upVars, del, runVars>>

-----------------------------------------------------------------------------
(* Crashes and time *)

\* The backend dies: what is in memory is gone, a job that runs is interrupted
\* and an encoding may leave its temporary file.  The store keeps the jobs with
\* their checkpoints: a plan that was not saved is made again.
Restart ==
  /\ restarts < MaxRestarts /\ restarts' = restarts + 1
  /\ \E half \in SUBSET {k \in Keys : Encoding(k) # {}} :
       /\ dirs' = [k \in Keys |-> IF k \in half THEN dirs[k] \cup {"tmp"} ELSE dirs[k]]
       /\ aged' = aged \ half
  /\ enc' = [e \in Encoders |->
       IF enc[e].at = "idle" \/ (e # Prepare /\ enc[e].at = "queued") THEN enc[e]
       ELSE [Idle EXCEPT !.at = "interrupted", !.rend = IF e = Prepare THEN NoRend ELSE enc[e].rend]]
  /\ planner' = IF planner.at = "idle" THEN planner
                ELSE [NoPlanner EXCEPT !.at = "cams", !.only = planner.only, !.todo = Cams]
  /\ plan' = IF planner.at = "idle" THEN plan ELSE {}
  /\ edit' = [c \in Cams |-> NoEdit]
  /\ regens' = [c \in Cams |-> "none"] /\ regen' = [c \in Cams |-> NoRegen]
  /\ locks' = [k \in Keys |-> [obj |-> 0, refs |-> 0]] /\ held' = {}
  /\ up' = [u \in Uploaders |-> [at |-> "idle", image |-> Builtin]] /\ builtinMu' = NoCall
  /\ del' = [at |-> "idle", asset |-> NoAsset, dirs |-> {}]
  /\ col' = NoCollect
  /\ robbed' = {}
  /\ UNCHANGED <<assetVars, rends, camVars, edits, overlap>>

\* An interrupted job is resumed from its checkpoint, or canceled.
ResumeJob(e) ==
  /\ enc[e].at = "interrupted"
  /\ e = Prepare => Busy < MaxBusy
  /\ enc' = [enc EXCEPT ![e].at =
       IF e # Prepare THEN "queued" ELSE IF planner.at = "idle" THEN "next" ELSE "plan"]
  /\ UNCHANGED <<assetVars, rendVars, camVars, editVars, regenVars, planVars, lockVars, upVars, del, col, runVars>>

CancelJob(e) ==
  /\ enc[e].at = "interrupted"
  /\ enc' = [enc EXCEPT ![e] = Idle]
  /\ IF e = Prepare THEN plan' = {} /\ planner' = NoPlanner ELSE UNCHANGED planVars
  /\ UNCHANGED <<assetVars, rendVars, camVars, editVars, regenVars, lockVars, upVars, del, col, runVars>>

Quiet ==
  /\ \A c \in Cams : edit[c].at = "idle" /\ regen[c].at \in {"idle", "debounce"}
  /\ \A e \in Encoders : enc[e].at \in {"idle", "interrupted"}
  /\ \A u \in Uploaders : up[u].at = "idle"
  /\ del.at = "idle" /\ col.at = "idle"

\* A day passes: every call above has a timeout of minutes, so all of them
\* have ended by then, and every row and directory is old.
DayPasses ==
  /\ Quiet
  /\ rends' = {[row EXCEPT !.old = TRUE] : row \in rends}
  /\ aged' = {k \in Keys : dirs[k] # {}}
  /\ UNCHANGED <<assetVars, dirs, camVars, editVars, regenVars, encVars, lockVars, upVars, del, col, runVars>>

-----------------------------------------------------------------------------
(* Specification *)

\* A node with uploaded images and every camera on one of them; the test
\* pattern could not be made at its first start.
Init ==
  /\ assets = [i \in Images |-> IF i = Builtin THEN 0 ELSE 1] /\ made = assets
  /\ files = Images \ {Builtin}
  /\ want \in [Cams -> Settings]
  /\ \E i \in Images \ {Builtin} :
       stream = [c \in Cams |-> [asset |-> [image |-> i, row |-> 1],
         rend |-> [image |-> i, asset |-> 1, set |-> want[c], gen |-> 1]]]
  /\ rends = {[id |-> stream[c].rend, old |-> FALSE] : c \in Cams}
  /\ dirs = [k \in Keys |-> {}] /\ aged = {}
  /\ edit = [c \in Cams |-> NoEdit] /\ edits = [c \in Cams |-> 0]
  /\ regens = [c \in Cams |-> "none"] /\ regen = [c \in Cams |-> NoRegen]
  /\ enc = [e \in Encoders |-> Idle] /\ plan = {} /\ planner = NoPlanner
  /\ locks = [k \in Keys |-> [obj |-> 0, refs |-> 0]] /\ held = {}
  /\ up = [u \in Uploaders |-> [at |-> "idle", image |-> Builtin]] /\ builtinMu = NoCall
  /\ del = [at |-> "idle", asset |-> NoAsset, dirs |-> {}]
  /\ col = NoCollect
  /\ restarts = 0 /\ overlap = {} /\ robbed = {}

RegenStep(c) ==
  \/ RegenRound(c) \/ loadBundle(c) \/ streamRendition(c) \/ PointStream(c)
  \/ encodeRendition(c) \/ RegenAgain(c) \/ RegenEnd(c)

EditStep(c) == UpdateCameraStreamTx(c) \/ regenerateStreamsLater(c)

EncodeStep(e) ==
  EncodeAcquire(e) \/ EncodeStream(e) \/ EncodeSnapshot(e) \/ EncodeUnlock(e)

JobStep(k) == runRendition(k) \/ EncodeStep(k) \/ RenditionDone(k)

PlanStep ==
  runPrepareRenditions \/ plannedRenditions \/ PlanRendition \/ PlanStream \/ PlanSaved

PrepareStep == prepareOne \/ PrepareRetry \/ EncodeStep(Prepare) \/ PrepareDone

UploadStep(u) == storeAsset(u) \/ InsertAsset(u)

DeleteStep == DeleteAsset \/ DeleteAssetFile \/ DeleteAssetDirs

CollectStep ==
  CollectTake \/ CollectRow \/ CollectDir

SweepStep ==
  sweepRenditionDirs \/ ReadDir \/ SweepCheck \/ SweepRemove \/ SweepEnd

Next ==
  \/ \E u \in Uploaders : UploadAsset(u) \/ UploadStep(u)
  \/ DeleteAssetBegin \/ DeleteStep
  \/ \E c \in Cams : \/ UpdateCameraStream(c) \/ UpdateCameraConfig(c) \/ EditStep(c)
                     \/ RegenStep(c)
  \/ \E k \in Keys : JobStep(k)
  \/ PlanStep \/ PrepareStep
  \/ CollectList \/ CollectStep \/ SweepStep
  \/ Restart \/ (\E e \in Encoders : ResumeJob(e) \/ CancelJob(e))
  \/ DayPasses

Spec == Init /\ [][Next]_vars

-----------------------------------------------------------------------------
(* Properties *)

\* encodeLock: a rendition job, the prepare job and the collector may reach
\* one rendition at once, and never work on its directory together.
OneEncoder ==
  \A k \in Keys :
    /\ Cardinality(Encoding(k)) <= 1
    /\ col.at \in {"row", "dir"} /\ Key(col.item) = k => Encoding(k) = {}

\* streamRendition, UpdateCameraStream and the foreign keys: the rendition a
\* camera stream points to exists and is one of the stream's own image.
StreamRenditionMatches ==
  \A c \in Cams :
    /\ GetAsset(stream[c].asset)
    /\ stream[c].rend # NoRend =>
         /\ GetRendition(stream[c].rend)
         /\ stream[c].rend.image = stream[c].asset.image
         /\ stream[c].rend.asset = stream[c].asset.row

\* storeAsset and DeleteAsset: an image in the store has its file, also after
\* crashes, unless an upload of it met the removal of the file of its deleted row.
ImageFileKept ==
  \A i \in Images : GetAssetBySHA256(i) => i \in files \/ i \in overlap

\* encodeSteps: an encoder that ends well leaves a whole rendition, also one
\* that goes on where a failure or a crash stopped another, unless its
\* directory was removed under it, which the collector never does.
EncodedIsWhole ==
  \A e \in Encoders : enc[e].at = "unlock" /\ enc[e].ok =>
    LET k == Key(enc[e].rend) IN Ready(k) \/ k \in robbed

\* DeleteAsset: "removes an unused asset", so the file of an image that a
\* camera uses stays.
UsedImageKept ==
  \A c \in Cams : stream[c].asset.image \in files

\* UpdateCameraStream: the last change of a camera's picture wins, so the
\* regeneration that follows an edit leaves the picture alone.
LastImageWins ==
  [][\A c \in Cams : stream'[c].asset # stream[c].asset => edit[c].at = "tx"]_vars
=============================================================================
