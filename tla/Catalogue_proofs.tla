--------------------------- MODULE Catalogue_proofs ---------------------------
(***************************************************************************)
(* Theorems about the stored cameras, for any number of requests at once,  *)
(* any names, addresses and protocols and any limit.                       *)
(***************************************************************************)
EXTENDS Catalogue, FiniteSetTheorems, WellFoundedInduction, TLAPS

-----------------------------------------------------------------------------
(* Rows: what a transaction checks again keeps, whatever was read before.  *)

RowsInv == cameras = [c \in Ids |-> cameras[c]] /\ RowsConsistent

\* A transaction writes its row or fails: a row it writes has a name, an
\* address and a MAC of its own and links to targets that exist.
LEMMA TxKeeps ==
  ASSUME RowsInv, NEW c \in Ids, NEW row, Tx(c, row), UNCHANGED targets
  PROVE  RowsInv'
<1>1. CASE UNCHANGED cameras BY <1>1 DEF RowsInv, RowsConsistent, ListCameras
<1>2. CASE ~UniqueViolated(c, row) /\ ~ForeignKeyViolated(row) /\ cameras' = [cameras EXCEPT ![c] = row]
  <2>1. cameras'[c] = row /\ \A d \in Ids : d # c => cameras'[d] = cameras[d]
    BY <1>2 DEF RowsInv
  <2>2. \A d \in ListCameras' : d # c => d \in ListCameras BY <2>1 DEF ListCameras
  <2>3. \A d \in ListCameras' \ {c} :
          cameras'[d].name # row.name /\ cameras'[d].ip # row.ip /\ cameras'[d].mac # row.mac
    BY <1>2, <2>1, <2>2 DEF UniqueViolated, ListCameras
  <2>4. \A d, e \in ListCameras' : d # e =>
          /\ cameras'[d].name # cameras'[e].name
          /\ cameras'[d].ip # cameras'[e].ip
          /\ cameras'[d].mac # cameras'[e].mac
    <3> SUFFICES ASSUME NEW d \in ListCameras', NEW e \in ListCameras', d # e
                 PROVE  /\ cameras'[d].name # cameras'[e].name
                        /\ cameras'[d].ip # cameras'[e].ip
                        /\ cameras'[d].mac # cameras'[e].mac
      OBVIOUS
    <3>1. CASE d = c BY <2>1, <2>3, <3>1
    <3>2. CASE e = c BY <2>1, <2>3, <3>2
    <3>3. CASE d # c /\ e # c
      <4>1. d \in ListCameras /\ e \in ListCameras /\ d \in Ids /\ e \in Ids
        BY <2>2, <3>3 DEF ListCameras
      <4> QED BY <2>1, <3>3, <4>1 DEF RowsInv, RowsConsistent
    <3> QED BY <3>1, <3>2, <3>3
  <2>5. \A d \in ListCameras' : cameras'[d].links \subseteq targets'
    <3> SUFFICES ASSUME NEW d \in ListCameras' PROVE cameras'[d].links \subseteq targets' OBVIOUS
    <3>1. CASE d = c BY <1>2, <2>1, <3>1 DEF ForeignKeyViolated
    <3>2. CASE d # c
      <4>1. d \in ListCameras /\ d \in Ids BY <2>2, <3>2 DEF ListCameras
      <4> QED BY <2>1, <3>2, <4>1 DEF RowsInv, RowsConsistent
    <3> QED BY <3>1, <3>2
  <2>6. cameras' = [d \in Ids |-> cameras'[d]] BY <1>2 DEF RowsInv
  <2> QED BY <2>4, <2>5, <2>6 DEF RowsInv, RowsConsistent
<1> QED BY <1>1, <1>2 DEF Tx

\* What only reads, or only writes what a request has in mind, keeps the rows.
LEMMA RowsSame ==
  ASSUME RowsInv, UNCHANGED cameras, targets \subseteq targets'
  PROVE  RowsInv'
BY DEF RowsInv, RowsConsistent, ListCameras

\* The requests that read and decide, and those that write.
Reading(w) ==
  \/ \E n \in AskedNames, ip \in AskedIPs, mac \in {0} \cup AskedMACs, ts \in SUBSET TargetIds :
       CreateCamera(w, n, ip, mac, ts)
  \/ \E c \in Ids, n \in AskedNames, ip \in AskedIPs : CloneAsked(w, c, n, ip)
  \/ BulkCameras(w) \/ CloneNext(w) \/ CloneGone(w) \/ Admit(w) \/ ChangeStep(w)
  \/ \E t \in TargetIds : DeleteTarget(w, t)

\* The steps of a request that read and check write no row.
LEMMA ReadingWritesNothing ==
  ASSUME NEW w \in Workers, Reading(w) PROVE UNCHANGED <<cameras, targets>>
<1>1. CASE ChangeStep(w)
  BY <1>1 DEF ChangeStep, UpdateName, UpdateTargets, UpdateNetwork, SetCameraProtocols, ResetCamera, Edit
<1>2. CASE ~ChangeStep(w)
  BY <1>2 DEF Reading, CreateCamera, CloneAsked, BulkCameras, cloneNext, CloneNext, CloneCamera,
              CloneGone, Admit, DeleteTarget
<1> QED BY <1>1, <1>2

\* RN-05, RN-12: checkUnique and DeleteTarget read outside of the
\* transactions, and the UNIQUE indexes and foreign keys make up for it: two
\* cameras never share a name, an address or a MAC, and no link is dangling.
THEOREM RowsConsistentAlways == CatalogueSpec => []RowsConsistent
<1>1. CatalogueInit => RowsInv
  <2> SUFFICES ASSUME CatalogueInit PROVE RowsInv OBVIOUS
  <2>1. cameras = [c \in Ids |-> cameras[c]] BY DEF CatalogueInit
  <2>2. \A c, d \in ListCameras : c = d BY DEF CatalogueInit, ListCameras
  <2>3. \A c \in ListCameras : cameras[c].links = {}
    BY DEF CatalogueInit, ListCameras, FirstCamera
  <2> QED BY <2>1, <2>2, <2>3 DEF RowsInv, RowsConsistent
<1>2. RowsInv /\ [CatalogueNext]_catalogueVars => RowsInv'
  <2> SUFFICES ASSUME RowsInv, [CatalogueNext]_catalogueVars PROVE RowsInv' OBVIOUS
  <2>1. ASSUME NEW w \in Workers, Reading(w) PROVE RowsInv'
    BY <2>1, ReadingWritesNothing, RowsSame
  <2>2. ASSUME NEW w \in Workers, InsertCamera(w) PROVE RowsInv'
    <3>1. CASE req[w].id \in Ids BY <2>2, <3>1, TxKeeps DEF InsertCamera
    <3>2. CASE req[w].id \notin Ids
      <4>1. UNCHANGED cameras BY <2>2, <3>2 DEF InsertCamera, Tx, RowsInv
      <4> QED BY <2>2, <4>1, RowsSame DEF InsertCamera
    <3> QED BY <3>1, <3>2
  <2>3. ASSUME NEW w \in Workers, UpdateCamera(w) \/ StoreProtocols(w) \/ StoreReset(w) PROVE RowsInv'
    <3>1. UNCHANGED targets BY <2>3 DEF UpdateCamera, StoreProtocols, StoreReset
    <3>2. UNCHANGED cameras \/ \E row : Tx(req[w].id, row)
      BY <2>3 DEF UpdateCamera, StoreProtocols, StoreReset
    <3>3. CASE UNCHANGED cameras BY <3>1, <3>3, RowsSame
    <3>4. ASSUME NEW row, Tx(req[w].id, row), req[w].id \in Ids PROVE RowsInv'
      BY <3>1, <3>4, TxKeeps
    <3>5. ASSUME NEW row, Tx(req[w].id, row), req[w].id \notin Ids PROVE RowsInv'
      <4>1. UNCHANGED cameras BY <3>5 DEF Tx, RowsInv
      <4> QED BY <3>3, <4>1
    <3> QED BY <3>2, <3>3, <3>4, <3>5
  <2>4. ASSUME NEW w \in Workers, DropTarget(w) PROVE RowsInv'
    <3>1. CASE UNCHANGED targets BY <2>4, <3>1, RowsSame DEF DropTarget
    <3>2. CASE CamerasUsingTarget(req[w].target) = {} /\ targets' = targets \ {req[w].target}
      <4>1. UNCHANGED cameras BY <2>4 DEF DropTarget
      <4>2. \A c \in ListCameras : cameras[c].links \subseteq targets'
        BY <3>2 DEF CamerasUsingTarget, RowsInv, RowsConsistent
      <4> QED BY <4>1, <4>2 DEF RowsInv, RowsConsistent, ListCameras
    <3> QED BY <2>4, <3>1, <3>2 DEF DropTarget
  <2>5. ASSUME NEW c \in Ids, DeleteCamera(c) PROVE RowsInv'
    <3>1. cameras' = [cameras EXCEPT ![c] = NoRow] /\ UNCHANGED targets BY <2>5 DEF DeleteCamera
    <3>2. \A d \in ListCameras' : d \in ListCameras /\ d \in Ids /\ cameras'[d] = cameras[d]
      BY <3>1 DEF RowsInv, ListCameras
    <3>3. cameras' = [d \in Ids |-> cameras'[d]] BY <3>1 DEF RowsInv
    <3>4. \A d, e \in ListCameras' : d # e => /\ cameras'[d].name # cameras'[e].name
                                              /\ cameras'[d].ip # cameras'[e].ip
                                              /\ cameras'[d].mac # cameras'[e].mac
      BY <3>2 DEF RowsInv, RowsConsistent
    <3>5. \A d \in ListCameras' : cameras'[d].links \subseteq targets'
      BY <3>1, <3>2 DEF RowsInv, RowsConsistent
    <3> QED BY <3>3, <3>4, <3>5 DEF RowsInv, RowsConsistent
  <2>6. CASE (\E t \in TargetIds : InsertTarget(t)) \/ ArchiveProfile
    BY <2>6, RowsSame DEF InsertTarget, ArchiveProfile
  <2>7. CASE UNCHANGED catalogueVars BY <2>7, RowsSame DEF catalogueVars
  <2> QED BY <2>1, <2>2, <2>3, <2>4, <2>5, <2>6, <2>7 DEF CatalogueNext, NewStep, Reading
<1> QED BY <1>1, <1>2, PTL DEF CatalogueSpec, RowsInv
-----------------------------------------------------------------------------
(* Ports: what a request carries from its read to its write is free of     *)
(* clashes, and a write takes the protocols of one request as a whole.     *)

RowFields == {"name", "ip", "mac", "protos", "links"}

\* What a request has in mind to write.
PortsCarried(r) ==
  /\ r.at \in {"admit", "insert"} =>
       /\ DOMAIN r = {"at", "op", "id", "row"}
       /\ DOMAIN r.row = RowFields /\ ~PortsClash(r.row.protos)
  /\ r.at = "protocols" => ~PortsClash(r.protos)
  /\ r.at \in {"update", "protocols", "reset"} => r.id \in Ids
  /\ r.at = "clone" => r.src \in Ids
  /\ r.at = "update" => r.what \in {"name", "targets", "network"}

PortsInv ==
  /\ cameras = [c \in Ids |-> cameras[c]]
  /\ \A c \in ListCameras : DOMAIN cameras[c] = RowFields
  /\ PortsDistinct
  /\ req = [w \in Workers |-> req[w]]
  /\ \A w \in Workers : PortsCarried(req[w])

\* The protocols of the profile do not clash.
LEMMA ProfilePorts == ~PortsClash(instancePort)
BY DEF PortsClash, instancePort

\* A request goes on with what it carries.
LEMMA PortsAsked ==
  ASSUME PortsInv, NEW w \in Workers, NEW r, Ask(w, r), PortsCarried(r), UNCHANGED cameras
  PROVE  PortsInv'
<1>1. \A v \in Workers : req'[v] = IF v = w THEN r ELSE req[v] BY DEF Ask, PortsInv
<1>2. \A v \in Workers : PortsCarried(req'[v]) BY <1>1 DEF PortsInv
<1>3. (\A v \in Workers : PortsCarried(req[v]))' BY <1>2 DEF PortsCarried
<1>4. req' = [v \in Workers |-> req'[v]] BY DEF Ask, PortsInv
<1> QED BY <1>3, <1>4 DEF PortsInv, PortsDistinct, ListCameras

\* A request is answered, and the row it wrote has no clash.
LEMMA PortsWritten ==
  ASSUME PortsInv, NEW w \in Workers, Answered(w), NEW c, NEW row, Tx(c, row),
         DOMAIN row = RowFields, ~PortsClash(row.protos)
  PROVE  PortsInv'
<1>1. PortsCarried(Resting) BY DEF PortsCarried, Resting
<1>2. (\A v \in Workers : PortsCarried(req[v]))' /\ (req = [v \in Workers |-> req[v]])'
  <2>1. \A v \in Workers : req'[v] = IF v = w THEN Resting ELSE req[v] BY DEF Answered, Ask, PortsInv
  <2>2. \A v \in Workers : PortsCarried(req'[v]) BY <1>1, <2>1 DEF PortsInv
  <2>3. req' = [v \in Workers |-> req'[v]] BY DEF Answered, Ask, PortsInv
  <2> QED BY <2>2, <2>3 DEF PortsCarried
<1>3. \A d \in Ids : cameras'[d] = cameras[d] \/ (d = c /\ cameras'[d] = row)
  BY DEF Tx, PortsInv
<1>4. cameras' = [d \in Ids |-> cameras'[d]] BY DEF Tx, PortsInv
<1>5. \A d \in ListCameras' : DOMAIN cameras'[d] = RowFields /\ ~PortsClash(cameras'[d].protos)
  BY <1>3 DEF PortsInv, PortsDistinct, ListCameras
<1>6. (\A d \in ListCameras : DOMAIN cameras[d] = RowFields)' /\ PortsDistinct'
  BY <1>5 DEF PortsDistinct, PortsClash
<1> QED BY <1>2, <1>4, <1>6 DEF PortsInv

\* A camera that exists, and so has an ID.
LEMMA PortsRow ==
  ASSUME PortsInv, NEW c \in Ids, cameras[c] # NoRow
  PROVE  DOMAIN cameras[c] = RowFields /\ ~PortsClash(cameras[c].protos)
BY DEF PortsInv, PortsDistinct, ListCameras

\* RN-04: SetCameraProtocols checks the ports of the bundle it read, and
\* StoreProtocols and StoreReset write all the protocols of a camera, so
\* that overlapping edits never leave two of them on one port.
THEOREM PortsDistinctAlways == CatalogueSpec => []PortsDistinct
<1>1. CatalogueInit => PortsInv
  <2> SUFFICES ASSUME CatalogueInit PROVE PortsInv OBVIOUS
  <2>1. cameras = [c \in Ids |-> cameras[c]] BY DEF CatalogueInit
  <2>2. \A c \in ListCameras : DOMAIN cameras[c] = RowFields /\ cameras[c].protos = instancePort
    BY DEF CatalogueInit, ListCameras, FirstCamera, RowFields
  <2>3. \A w \in Workers : req[w] = Resting BY DEF CatalogueInit
  <2>4. \A w \in Workers : PortsCarried(req[w]) BY <2>3 DEF PortsCarried, Resting
  <2>5. req = [w \in Workers |-> req[w]] BY DEF CatalogueInit
  <2>6. \A c \in ListCameras : ~PortsClash(cameras[c].protos) BY <2>2, ProfilePorts
  <2> QED BY <2>1, <2>2, <2>4, <2>5, <2>6 DEF PortsInv, PortsDistinct
<1>2. PortsInv /\ [CatalogueNext]_catalogueVars => PortsInv'
  <2> SUFFICES ASSUME PortsInv, [CatalogueNext]_catalogueVars PROVE PortsInv' OBVIOUS
  <2>1. ASSUME NEW w \in Workers, NewStep(w) PROVE PortsInv'
    <3>1. ASSUME NEW id, NEW op \in {"create", "clone"}, NEW row, DOMAIN row = RowFields,
                 ~PortsClash(row.protos), UNCHANGED cameras,
                 Ask(w, [at |-> "admit", op |-> op, id |-> id, row |-> row])
          PROVE  PortsInv'
      <4> DEFINE r == [at |-> "admit", op |-> op, id |-> id, row |-> row]
      <4>1. PortsCarried(r) BY <3>1 DEF PortsCarried
      <4> QED BY <3>1, <4>1, PortsAsked
    <3>2. ASSUME NEW n, NEW a, NEW m, NEW protos, NEW ts, ~PortsClash(protos)
          PROVE  LET row == NewRow(n, a, m, protos, ts) IN
                 DOMAIN row = RowFields /\ ~PortsClash(row.protos)
      BY <3>2 DEF NewRow, RowFields
    <3>3. ASSUME NEW src \in Ids, NEW n, NEW a, CloneCamera(w, src, n, a) PROVE PortsInv'
      <4>1. ~PortsClash(cameras[src].protos) BY <3>3, PortsRow DEF CloneCamera
      <4> DEFINE row == NewRow(n, a, 0, cameras[src].protos, cameras[src].links)
      <4>2. DOMAIN row = RowFields /\ ~PortsClash(row.protos) BY <3>2, <4>1
      <4>3. Ask(w, [at |-> "admit", op |-> "clone", id |-> issued + 1, row |-> row]) /\ UNCHANGED cameras
        BY <3>3 DEF CloneCamera
      <4> HIDE DEF row
      <4> QED BY <3>1, <4>2, <4>3
    <3>4. ASSUME NEW n \in AskedNames, NEW ip \in AskedIPs, NEW mac \in {0} \cup AskedMACs,
                 NEW ts \in SUBSET TargetIds, CreateCamera(w, n, ip, mac, ts)
          PROVE  PortsInv'
      <4> DEFINE row == NewRow(n, ip, mac, instancePort, ts)
      <4>1. DOMAIN row = RowFields /\ ~PortsClash(row.protos) BY <3>2, ProfilePorts
      <4>2. Ask(w, [at |-> "admit", op |-> "create", id |-> issued + 1, row |-> row]) /\ UNCHANGED cameras
        BY <3>4 DEF CreateCamera
      <4> HIDE DEF row
      <4> QED BY <3>1, <4>1, <4>2
    <3>5. CASE BulkCameras(w)
      <4>1. PICK src \in ListCameras : cloneNext(w, src) BY <3>5 DEF BulkCameras
      <4>2. PICK n, ip : Ask(w, [at |-> "clone", src |-> src, name |-> n, ip |-> ip]) /\ UNCHANGED cameras
        BY <4>1 DEF cloneNext
      <4>3. PortsCarried([at |-> "clone", src |-> src, name |-> n, ip |-> ip])
        BY <4>1 DEF PortsCarried, ListCameras
      <4> QED BY <4>2, <4>3, PortsAsked
    <3>6. CASE CloneNext(w)
      <4>1. req[w].src \in Ids BY <3>6 DEF CloneNext, PortsInv, PortsCarried
      <4> QED BY <3>3, <3>6, <4>1 DEF CloneNext
    <3>7. CASE CloneGone(w)
      <4>1. PortsCarried(Resting) BY DEF PortsCarried, Resting
      <4> QED BY <3>7, <4>1, PortsAsked DEF CloneGone, Answered
    <3>8. CASE Admit(w)
      <4>1. PortsCarried(Resting) BY DEF PortsCarried, Resting
      <4>2. PortsCarried([req[w] EXCEPT !.at = "insert"])
        BY <3>8 DEF Admit, PortsInv, PortsCarried
      <4> QED BY <3>8, <4>1, <4>2, PortsAsked DEF Admit, Answered
    <3>9. CASE InsertCamera(w)
      <4>1. DOMAIN req[w].row = RowFields /\ ~PortsClash(req[w].row.protos)
        BY <3>9 DEF InsertCamera, PortsInv, PortsCarried
      <4> QED BY <3>9, <4>1, PortsWritten DEF InsertCamera
    <3> QED BY <2>1, <3>3, <3>4, <3>5, <3>6, <3>7, <3>8, <3>9 DEF NewStep, CloneAsked
  <2>2. ASSUME NEW w \in Workers, ChangeStep(w) PROVE PortsInv'
    <3>1. \E r : Ask(w, r) /\ PortsCarried(r) /\ UNCHANGED cameras
      <4>1. PICK c \in Ids :
              \/ \E n \in AskedNames : UpdateName(w, c, n)
              \/ \E ts \in SUBSET TargetIds : UpdateTargets(w, c, ts)
              \/ \E ip \in AskedIPs, mac \in {0} \cup AskedMACs : UpdateNetwork(w, c, ip, mac)
              \/ \E i \in Protocols, on \in BOOLEAN, port \in Protocols : SetCameraProtocols(w, c, i, on, port)
              \/ \E scope \in {"settings", "full"} : ResetCamera(w, c, scope)
        BY <2>2 DEF ChangeStep
      <4>2. ASSUME NEW n \in AskedNames, UpdateName(w, c, n)
            PROVE  \E r : Ask(w, r) /\ PortsCarried(r) /\ UNCHANGED cameras
        <5> DEFINE r == [at |-> "update", id |-> c, what |-> "name", name |-> n]
        <5>1. PortsCarried(r) BY DEF PortsCarried
        <5> QED BY <4>2, <5>1 DEF UpdateName, Edit
      <4>3. ASSUME NEW ts \in SUBSET TargetIds, UpdateTargets(w, c, ts)
            PROVE  \E r : Ask(w, r) /\ PortsCarried(r) /\ UNCHANGED cameras
        <5> DEFINE r == [at |-> "update", id |-> c, what |-> "targets", name |-> cameras[c].name, links |-> ts]
        <5>1. PortsCarried(r) BY DEF PortsCarried
        <5> QED BY <4>3, <5>1 DEF UpdateTargets, Edit
      <4>4. ASSUME NEW ip \in AskedIPs, NEW mac \in {0} \cup AskedMACs, UpdateNetwork(w, c, ip, mac)
            PROVE  \E r : Ask(w, r) /\ PortsCarried(r) /\ UNCHANGED cameras
        <5> DEFINE net == [ip |-> ip, mac |-> IF mac = 0 THEN cameras[c].mac ELSE mac]
                   r == [at |-> "update", id |-> c, what |-> "network", name |-> cameras[c].name, net |-> net]
        <5>1. PortsCarried(r) BY DEF PortsCarried
        <5>2. Ask(w, r) /\ UNCHANGED cameras BY <4>4 DEF UpdateNetwork, Edit
        <5> QED BY <5>1, <5>2
      <4>5. ASSUME NEW i \in Protocols, NEW on \in BOOLEAN, NEW port \in Protocols,
                   SetCameraProtocols(w, c, i, on, port)
            PROVE  \E r : Ask(w, r) /\ PortsCarried(r) /\ UNCHANGED cameras
        <5> DEFINE new == [cameras[c].protos EXCEPT ![i] = [on |-> on, port |-> port]]
                   r == [at |-> "protocols", id |-> c, inst |-> i, protos |-> new]
        <5>1. ~PortsClash(new) /\ Ask(w, r) /\ UNCHANGED cameras BY <4>5 DEF SetCameraProtocols, Edit
        <5> HIDE DEF new
        <5>2. PortsCarried(r) BY <5>1 DEF PortsCarried
        <5> QED BY <5>1, <5>2
      <4>6. ASSUME NEW scope \in {"settings", "full"}, ResetCamera(w, c, scope)
            PROVE  \E r : Ask(w, r) /\ PortsCarried(r) /\ UNCHANGED cameras
        <5> DEFINE r == [at |-> "reset", id |-> c, scope |-> scope]
        <5>1. PortsCarried(r) BY DEF PortsCarried
        <5> QED BY <4>6, <5>1 DEF ResetCamera, Edit
      <4> QED BY <4>1, <4>2, <4>3, <4>4, <4>5, <4>6
    <3> QED BY <3>1, PortsAsked
  <2>3. ASSUME NEW w \in Workers, Answered(w), UNCHANGED cameras PROVE PortsInv'
    <3>1. PortsCarried(Resting) BY DEF PortsCarried, Resting
    <3> QED BY <2>3, <3>1, PortsAsked DEF Answered
  <2>4. ASSUME NEW w \in Workers, UpdateCamera(w), cameras[req[w].id] # NoRow PROVE PortsInv'
    <3> DEFINE r == req[w]
               old == cameras[r.id]
               row == UpdateCameraMeta(old, r.name)
    <3>1. r.id \in Ids /\ r.what \in {"name", "targets", "network"}
      BY <2>4 DEF UpdateCamera, PortsInv, PortsCarried
    <3>2. DOMAIN old = RowFields /\ ~PortsClash(old.protos) BY <2>4, <3>1, PortsRow
    <3>3. \E new \in {row, InsertCameraTarget(DeleteCameraTargets(row), r.links),
                      UpdateCameraNetwork(row, r.net)} : Tx(r.id, new)
      BY <2>4, <3>1 DEF UpdateCamera
    <3>4. \A new \in {row, InsertCameraTarget(DeleteCameraTargets(row), r.links),
                      UpdateCameraNetwork(row, r.net)} :
            DOMAIN new = RowFields /\ new.protos = old.protos
      BY <3>2 DEF UpdateCameraMeta, InsertCameraTarget, DeleteCameraTargets, UpdateCameraNetwork, RowFields
    <3> QED BY <2>4, <3>2, <3>3, <3>4, PortsWritten DEF UpdateCamera
  <2>5. ASSUME NEW w \in Workers, StoreProtocols(w), cameras[req[w].id] # NoRow PROVE PortsInv'
    <3> DEFINE r == req[w]
               row == UpdateCameraProtocol(cameras[r.id], r.protos)
    <3>1. r.id \in Ids /\ ~PortsClash(r.protos) BY <2>5 DEF StoreProtocols, PortsInv, PortsCarried
    <3>2. DOMAIN cameras[r.id] = RowFields BY <2>5, <3>1, PortsRow
    <3>3. DOMAIN row = RowFields /\ row.protos = r.protos
      BY <3>2 DEF UpdateCameraProtocol, RowFields
    <3>4. Tx(r.id, row) /\ Answered(w) BY <2>5 DEF StoreProtocols
    <3> HIDE DEF row
    <3> QED BY <3>1, <3>3, <3>4, PortsWritten
  <2>6. ASSUME NEW w \in Workers, StoreReset(w), cameras[req[w].id] # NoRow PROVE PortsInv'
    <3> DEFINE r == req[w]
               row == UpdateCameraProtocol(cameras[r.id], instancePort)
               full == UpdateCameraNetwork(row, [ip |-> FactoryIP, mac |-> r.id])
    <3>1. r.id \in Ids BY <2>6 DEF StoreReset, PortsInv, PortsCarried
    <3>2. DOMAIN cameras[r.id] = RowFields BY <2>6, <3>1, PortsRow
    <3>3. DOMAIN row = RowFields /\ row.protos = instancePort
      BY <3>2 DEF UpdateCameraProtocol, RowFields
    <3>4. DOMAIN full = RowFields /\ full.protos = instancePort
      BY <3>3 DEF UpdateCameraNetwork, RowFields
    <3>5. (Tx(r.id, row) \/ Tx(r.id, full)) /\ Answered(w) BY <2>6 DEF StoreReset
    <3> HIDE DEF row, full
    <3> QED BY <3>3, <3>4, <3>5, PortsWritten, ProfilePorts
  <2>7. ASSUME NEW w \in Workers, NEW t \in TargetIds, DeleteTarget(w, t) PROVE PortsInv'
    <3>1. PortsCarried([at |-> "target", target |-> t]) BY DEF PortsCarried
    <3> QED BY <2>7, <3>1, PortsAsked DEF DeleteTarget
  <2>8. ASSUME NEW w \in Workers,
               UpdateCamera(w) \/ StoreProtocols(w) \/ StoreReset(w) \/ DropTarget(w)
        PROVE  PortsInv'
    BY <2>3, <2>4, <2>5, <2>6, <2>8 DEF UpdateCamera, StoreProtocols, StoreReset, DropTarget
  <2>9. ASSUME NEW c \in Ids, DeleteCamera(c) PROVE PortsInv'
    <3>1. cameras' = [cameras EXCEPT ![c] = NoRow] /\ UNCHANGED req BY <2>9 DEF DeleteCamera
    <3>2. \A d \in ListCameras' : d \in ListCameras /\ d \in Ids /\ cameras'[d] = cameras[d]
      BY <3>1 DEF PortsInv, ListCameras
    <3>3. cameras' = [d \in Ids |-> cameras'[d]] BY <3>1 DEF PortsInv
    <3>4. (\A d \in ListCameras : DOMAIN cameras[d] = RowFields)' BY <3>2 DEF PortsInv
    <3>5. PortsDistinct' BY <3>2 DEF PortsInv, PortsDistinct, PortsClash
    <3>6. (req = [w \in Workers |-> req[w]] /\ \A w \in Workers : PortsCarried(req[w]))'
      BY <3>1 DEF PortsInv, PortsCarried
    <3> QED BY <3>3, <3>4, <3>5, <3>6 DEF PortsInv
  <2>10. CASE UNCHANGED <<cameras, req>>
    BY <2>10 DEF PortsInv, PortsDistinct, ListCameras, PortsCarried
  <2> QED BY <2>1, <2>2, <2>7, <2>8, <2>9, <2>10
          DEF CatalogueNext, InsertTarget, ArchiveProfile, catalogueVars
<1> QED BY <1>1, <1>2, PTL DEF CatalogueSpec, PortsInv

-----------------------------------------------------------------------------
(* The limit: a request that may insert was admitted while another camera  *)
(* fitted, and the others are at most the rest of the requests.            *)

Inserting == {w \in Workers : req[w].at = "insert"}

LimitInv ==
  /\ cameras = [c \in Ids |-> cameras[c]] /\ req = [w \in Workers |-> req[w]]
  /\ CountCameras + Cardinality(Inserting) <= MaxCameras + Cardinality(Workers) - 1

\* The numbers the limit is about.
LEMMA LimitNumbers ==
  /\ IsFiniteSet(ListCameras) /\ CountCameras \in Nat
  /\ IsFiniteSet(Inserting) /\ Cardinality(Inserting) \in Nat
  /\ Cardinality(Inserting) <= Cardinality(Workers)
  /\ MaxCameras \in Nat \ {0} /\ Cardinality(Workers) \in Nat \ {0}
<1>1. IsFiniteSet(Ids) BY FS_Interval, CatalogueAssumption DEF Ids, CatalogueAssumption
<1>2. ListCameras \subseteq Ids /\ Inserting \subseteq Workers BY DEF ListCameras, Inserting
<1>3. IsFiniteSet(ListCameras) /\ CountCameras \in Nat
  BY <1>1, <1>2, FS_Subset, FS_CardinalityType DEF CountCameras
<1>4. IsFiniteSet(Workers) /\ Workers # {} /\ MaxCameras \in Nat \ {0}
  BY CatalogueAssumption DEF CatalogueAssumption
<1>5. /\ IsFiniteSet(Inserting) /\ Cardinality(Inserting) <= Cardinality(Workers)
  BY <1>2, <1>4, FS_Subset
<1>6. Cardinality(Inserting) \in Nat /\ Cardinality(Workers) \in Nat
  BY <1>4, <1>5, FS_CardinalityType
<1>7. Cardinality(Workers) # 0 BY <1>4, FS_EmptySet
<1> QED BY <1>3, <1>4, <1>5, <1>6, <1>7

\* The numbers of the limit are finite after a step too.
LEMMA LimitNumbersNext ==
  /\ IsFiniteSet(ListCameras') /\ CountCameras' \in Nat
  /\ IsFiniteSet(Inserting') /\ Cardinality(Inserting') \in Nat
  /\ Cardinality(Inserting') <= Cardinality(Workers)
<1>1. IsFiniteSet(Ids) BY FS_Interval, CatalogueAssumption DEF Ids, CatalogueAssumption
<1>2. ListCameras' \subseteq Ids /\ Inserting' \subseteq Workers BY DEF ListCameras, Inserting
<1>3. IsFiniteSet(ListCameras') /\ Cardinality(ListCameras') \in Nat
  BY <1>1, <1>2, FS_Subset, FS_CardinalityType
<1>4. IsFiniteSet(Workers) BY CatalogueAssumption DEF CatalogueAssumption
<1>5. IsFiniteSet(Inserting') /\ Cardinality(Inserting') <= Cardinality(Workers)
  BY <1>2, <1>4, FS_Subset
<1>6. Cardinality(Inserting') \in Nat BY <1>5, FS_CardinalityType
<1> QED BY <1>3, <1>5, <1>6 DEF CountCameras

\* What neither adds a camera nor lets a request insert keeps the limit.
LEMMA LimitKept ==
  ASSUME LimitInv, ListCameras' \subseteq ListCameras, Inserting' \subseteq Inserting,
         cameras' = [c \in Ids |-> cameras'[c]], req' = [w \in Workers |-> req'[w]]
  PROVE  LimitInv'
<1>1. Cardinality(ListCameras') <= CountCameras BY LimitNumbers, FS_Subset DEF CountCameras
<1>2. Cardinality(Inserting') <= Cardinality(Inserting) BY LimitNumbers, FS_Subset
<1>3. CountCameras' = Cardinality(ListCameras') BY DEF CountCameras
<1>4. CountCameras' + Cardinality(Inserting') <= MaxCameras + Cardinality(Workers) - 1
  BY <1>1, <1>2, <1>3, LimitNumbers, LimitNumbersNext DEF LimitInv
<1> QED BY <1>4 DEF LimitInv

\* A request that goes on to anything but the insert.
LEMMA LimitAsked ==
  ASSUME LimitInv, NEW w \in Workers, NEW r, Ask(w, r), r.at # "insert",
         ListCameras' \subseteq ListCameras, cameras' = [c \in Ids |-> cameras'[c]]
  PROVE  LimitInv'
<1>1. \A v \in Workers : req'[v] = IF v = w THEN r ELSE req[v] BY DEF Ask, LimitInv
<1>2. Inserting' \subseteq Inserting BY <1>1 DEF Inserting
<1>3. req' = [v \in Workers |-> req'[v]] BY DEF Ask, LimitInv
<1> QED BY <1>2, <1>3, LimitKept

\* A write to a camera that exists adds none.
LEMMA LimitWritten ==
  ASSUME LimitInv, NEW c, NEW row, Tx(c, row), c \in Ids => cameras[c] # NoRow
  PROVE  ListCameras' \subseteq ListCameras /\ cameras' = [d \in Ids |-> cameras'[d]]
BY DEF Tx, LimitInv, ListCameras

\* RN-16: AdmitCreate reads the number of cameras before the transaction, so
\* requests at the same time may pass the limit together, but never by more
\* than all of them but one.
THEOREM LimitPassedOnlyByRacesAlways == CatalogueSpec => []LimitPassedOnlyByRaces
<1>1. CatalogueInit => LimitInv
  <2> SUFFICES ASSUME CatalogueInit PROVE LimitInv OBVIOUS
  <2>1. \A w \in Workers : req[w].at = "none" BY DEF CatalogueInit, Resting
  <2>2. Inserting = {} BY <2>1 DEF Inserting
  <2>3. ListCameras \subseteq {1} BY DEF CatalogueInit, ListCameras
  <2>4. Cardinality(ListCameras) <= Cardinality({1}) BY <2>3, FS_Singleton, FS_Subset
  <2>5. CountCameras <= 1 BY <2>4, FS_Singleton DEF CountCameras
  <2>6. Cardinality(Inserting) = 0 BY <2>2, FS_EmptySet
  <2>7. CountCameras + Cardinality(Inserting) <= MaxCameras + Cardinality(Workers) - 1
    BY <2>5, <2>6, LimitNumbers
  <2>8. cameras = [c \in Ids |-> cameras[c]] /\ req = [w \in Workers |-> req[w]] BY DEF CatalogueInit
  <2> QED BY <2>7, <2>8 DEF LimitInv
<1>2. LimitInv /\ [CatalogueNext]_catalogueVars => LimitInv'
  <2> SUFFICES ASSUME LimitInv, [CatalogueNext]_catalogueVars PROVE LimitInv' OBVIOUS
  <2>0. cameras = [c \in Ids |-> cameras[c]] /\ req = [w \in Workers |-> req[w]] BY DEF LimitInv
  <2>1. ASSUME NEW w \in Workers, NEW r, Ask(w, r), r.at # "insert", UNCHANGED cameras PROVE LimitInv'
    <3>1. ListCameras' \subseteq ListCameras /\ cameras' = [c \in Ids |-> cameras'[c]]
      BY <2>0, <2>1 DEF ListCameras
    <3> QED BY <2>1, <3>1, LimitAsked
  <2>2. Resting.at # "insert" BY DEF Resting
  <2>3. ASSUME NEW w \in Workers, Reading(w), ~Admit(w) PROVE LimitInv'
    <3>1. CASE ChangeStep(w)
      <4>1. ASSUME NEW c, NEW r, Edit(w, c, r), r.at # "insert" PROVE LimitInv'
        BY <2>1, <4>1 DEF Edit
      <4>2. CASE \E c \in Ids, n \in AskedNames : UpdateName(w, c, n)
        BY <4>1, <4>2 DEF UpdateName
      <4>3. CASE \E c \in Ids, ts \in SUBSET TargetIds : UpdateTargets(w, c, ts)
        BY <4>1, <4>3 DEF UpdateTargets
      <4>4. CASE \E c \in Ids, ip \in AskedIPs, mac \in {0} \cup AskedMACs : UpdateNetwork(w, c, ip, mac)
        BY <4>1, <4>4 DEF UpdateNetwork
      <4>5. CASE \E c \in Ids, i \in Protocols, on \in BOOLEAN, port \in Protocols :
                   SetCameraProtocols(w, c, i, on, port)
        BY <4>1, <4>5 DEF SetCameraProtocols
      <4>6. CASE \E c \in Ids, scope \in {"settings", "full"} : ResetCamera(w, c, scope)
        BY <4>1, <4>6 DEF ResetCamera
      <4> QED BY <3>1, <4>2, <4>3, <4>4, <4>5, <4>6 DEF ChangeStep
    <3>2. CASE ~ChangeStep(w)
      <4>1. CASE \E n \in AskedNames, ip \in AskedIPs, mac \in {0} \cup AskedMACs, ts \in SUBSET TargetIds :
                   CreateCamera(w, n, ip, mac, ts)
        BY <2>1, <4>1 DEF CreateCamera
      <4>2. ASSUME NEW c, NEW n, NEW ip, CloneCamera(w, c, n, ip) PROVE LimitInv'
        BY <2>1, <4>2 DEF CloneCamera
      <4>3. CASE (\E c \in Ids, n \in AskedNames, ip \in AskedIPs : CloneAsked(w, c, n, ip)) \/ CloneNext(w)
        BY <4>2, <4>3 DEF CloneAsked, CloneNext
      <4>4. CASE BulkCameras(w) BY <2>1, <4>4 DEF BulkCameras, cloneNext
      <4>5. CASE CloneGone(w) BY <2>1, <2>2, <4>5 DEF CloneGone, Answered
      <4>6. CASE \E t \in TargetIds : DeleteTarget(w, t) BY <2>1, <4>6 DEF DeleteTarget
      <4> QED BY <2>3, <3>2, <4>1, <4>3, <4>4, <4>5, <4>6 DEF Reading
    <3> QED BY <3>1, <3>2
  <2>4. ASSUME NEW w \in Workers, Admit(w) PROVE LimitInv'
    <3>1. UNCHANGED cameras BY <2>4 DEF Admit
    <3>2. CASE Answered(w) BY <2>1, <2>2, <3>1, <3>2 DEF Answered
    <3>3. CASE AdmitCreate /\ req' = [req EXCEPT ![w] = [req[w] EXCEPT !.at = "insert"]]
      <4>1. CountCameras' = CountCameras BY <3>1 DEF CountCameras, ListCameras
      <4>2. CountCameras + 1 <= MaxCameras BY <3>3 DEF AdmitCreate
      <4>3. CountCameras' + Cardinality(Inserting') <= MaxCameras + Cardinality(Workers) - 1
        BY <4>1, <4>2, LimitNumbers, LimitNumbersNext
      <4>4. cameras' = [c \in Ids |-> cameras'[c]] /\ req' = [v \in Workers |-> req'[v]]
        BY <2>0, <3>1, <3>3
      <4> QED BY <4>3, <4>4 DEF LimitInv
    <3> QED BY <2>4, <3>2, <3>3 DEF Admit, Ask
  <2>5. ASSUME NEW w \in Workers, InsertCamera(w) PROVE LimitInv'
    <3> DEFINE new == req[w].id
    <3>1. w \in Inserting /\ Tx(new, req[w].row) /\ req' = [req EXCEPT ![w] = Resting]
      BY <2>5 DEF InsertCamera, Inserting, Answered, Ask
    <3>2. Inserting' = Inserting \ {w} BY <2>0, <2>2, <3>1 DEF Inserting
    <3>3. Cardinality(Inserting \ {w}) = Cardinality(Inserting) - 1
      BY <3>1, LimitNumbers, FS_RemoveElement
    <3>4. Cardinality(Inserting') = Cardinality(Inserting) - 1 BY <3>2, <3>3
    <3>5. ListCameras' \subseteq ListCameras \cup {new} BY <2>0, <3>1 DEF Tx, ListCameras
    <3>6. /\ IsFiniteSet(ListCameras \cup {new})
          /\ Cardinality(ListCameras \cup {new}) \in {CountCameras, CountCameras + 1}
      BY LimitNumbers, FS_AddElement DEF CountCameras
    <3>7. Cardinality(ListCameras') <= Cardinality(ListCameras \cup {new}) BY <3>5, <3>6, FS_Subset
    <3>8. CountCameras' = Cardinality(ListCameras') BY DEF CountCameras
    <3> HIDE DEF new
    <3>9. CountCameras' <= CountCameras + 1 BY <3>6, <3>7, <3>8, LimitNumbers, LimitNumbersNext
    <3>10. CountCameras' + Cardinality(Inserting') <= MaxCameras + Cardinality(Workers) - 1
      BY <3>4, <3>9, LimitNumbers, LimitNumbersNext DEF LimitInv
    <3>11. cameras' = [c \in Ids |-> cameras'[c]] /\ req' = [v \in Workers |-> req'[v]]
      BY <2>0, <3>1 DEF Tx
    <3> QED BY <3>10, <3>11 DEF LimitInv
  <2>6. ASSUME NEW w \in Workers, UpdateCamera(w) \/ StoreProtocols(w) \/ StoreReset(w) PROVE LimitInv'
    <3>1. UNCHANGED cameras \/ (cameras[req[w].id] # NoRow /\ \E row : Tx(req[w].id, row))
      BY <2>6 DEF UpdateCamera, StoreProtocols, StoreReset
    <3>2. ListCameras' \subseteq ListCameras /\ cameras' = [d \in Ids |-> cameras'[d]]
      BY <2>0, <3>1, LimitWritten DEF ListCameras
    <3>3. Ask(w, Resting) BY <2>6 DEF UpdateCamera, StoreProtocols, StoreReset, Answered
    <3> QED BY <2>2, <3>2, <3>3, LimitAsked
  <2>7. ASSUME NEW w \in Workers, DropTarget(w) PROVE LimitInv'
    BY <2>1, <2>2, <2>7 DEF DropTarget, Answered
  <2>8. CASE \/ \E c \in Ids : DeleteCamera(c)
             \/ (\E t \in TargetIds : InsertTarget(t)) \/ ArchiveProfile \/ UNCHANGED catalogueVars
    <3>1. UNCHANGED req BY <2>8 DEF DeleteCamera, InsertTarget, ArchiveProfile, catalogueVars
    <3>2. ListCameras' \subseteq ListCameras /\ cameras' = [d \in Ids |-> cameras'[d]]
      BY <2>0, <2>8 DEF DeleteCamera, InsertTarget, ArchiveProfile, catalogueVars, ListCameras
    <3>3. Inserting' \subseteq Inserting /\ req' = [w \in Workers |-> req'[w]]
      BY <2>0, <3>1 DEF Inserting
    <3> QED BY <3>2, <3>3, LimitKept
  <2> QED BY <2>3, <2>4, <2>5, <2>6, <2>7, <2>8 DEF CatalogueNext, NewStep, Reading
<1>3. LimitInv => LimitPassedOnlyByRaces
  BY LimitNumbers DEF LimitInv, LimitPassedOnlyByRaces
<1> QED BY <1>1, <1>2, <1>3, PTL DEF CatalogueSpec

-----------------------------------------------------------------------------
(* What cloneNext picks.                                                   *)

\* A set of numbers that is not empty has its Min, which is one of them.
LEMMA MinOfNaturals ==
  ASSUME NEW S, S \subseteq Nat, S # {} PROVE Min(S) \in S /\ \A y \in S : Min(S) <= y
<1>1. PICK x \in S : \A y \in S : <<y, x>> \notin OpToRel(<, Nat)
  BY NatLessThanWellFounded, WFMin
<1>2. \A y \in S : ~(y < x) BY <1>1 DEF OpToRel
<1>3. \A y \in S : x <= y BY <1>2
<1> QED BY <1>3 DEF Min

\* nextHost and freeCloneName: a clone is offered an address of the subnet
\* that is a host, not the gateway, and that no camera has, and a name that
\* no camera has, whenever there is one.
THEOREM CloneOffersFree ==
  ASSUME NEW from \in Nat
  PROVE  /\ \A a \in nextFreeIP(from) : a \in Hosts /\ a # Gateway /\ CameraIDByIP(a) = {}
         /\ \A n \in freeCloneName : n \in Names /\ CameraIDByName(n) = {}
         /\ freeCloneName = {} => \A n \in Names : CameraIDByName(n) # {}
<1>1. \A n \in freeCloneName : n \in Names /\ CameraIDByName(n) = {}
  <2> DEFINE free == {n \in Names : CameraIDByName(n) = {}}
  <2>1. free \subseteq Nat BY CatalogueAssumption DEF CatalogueAssumption
  <2>2. free # {} => Min(free) \in free BY <2>1, MinOfNaturals
  <2> QED BY <2>2 DEF freeCloneName
<1>2. freeCloneName = {} => \A n \in Names : CameraIDByName(n) # {}
  BY DEF freeCloneName
<1>3. \A a \in nextFreeIP(from) : a \in Hosts \ (ListCameraNetworks \cup {Gateway})
  <2> DEFINE used == ListCameraNetworks \cup {Gateway}
             free == {i \in 1..(SubnetSize - 1) : (from + i) % SubnetSize \in Hosts \ used}
  <2>1. free \subseteq Nat BY CatalogueAssumption DEF CatalogueAssumption
  <2>2. free # {} => Min(free) \in free BY <2>1, MinOfNaturals
  <2> QED BY <2>2 DEF nextFreeIP, nextHost
<1>4. \A a : a \notin ListCameraNetworks => CameraIDByIP(a) = {}
  BY DEF ListCameraNetworks, CameraIDByIP
<1> QED BY <1>1, <1>2, <1>3, <1>4
=============================================================================
