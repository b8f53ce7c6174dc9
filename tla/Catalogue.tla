----------------------------- MODULE Catalogue -----------------------------
(***************************************************************************)
(* The stored cameras and what requests of the panel do to them at the     *)
(* same time: create, clone (one camera, or the next free name and address *)
(* of a bulk action), update, protocols, reset and delete, with the event  *)
(* targets and the profile they refer to.                                  *)
(*                                                                         *)
(* A request reads first, outside of any transaction, and refuses what it  *)
(* can see is wrong; then one transaction writes, and fails as a whole     *)
(* when it meets a UNIQUE index or a foreign key.  What a transaction      *)
(* checks again may be read in one step with the rest; the two things it   *)
(* does not check again, the archived mark of the profile and the number   *)
(* of cameras, are read in steps of their own.  Names are told apart up to *)
(* case; an address is its offset in the subnet; the MAC derived from an   *)
(* ID is the ID.                                                           *)
(***************************************************************************)
EXTENDS Integers, FiniteSets, FiniteSetsExt

CONSTANTS Workers,      \* requests under way at once
          MaxIds,       \* bound: cameras ever created
          Names,        \* numbers: the names "copy", "copy-2", ...
          AskedNames,   \* the names, addresses and MACs requests ask for
          AskedIPs,
          AskedMACs,
          SubnetSize,   \* addresses of the subnet
          Gateway,      \* the address of the gateway
          Protocols,    \* engine instances of the profile, from 1
          TargetIds,
          MaxCameras,   \* the limit of the settings
          MaxRequests,  \* bound: requests
          NoRow

ASSUME CatalogueAssumption ==
  /\ {MaxIds, MaxRequests, SubnetSize, Gateway} \subseteq Nat
  /\ MaxCameras \in Nat \ {0} /\ IsFiniteSet(Workers) /\ Workers # {}
  /\ Names \subseteq Nat /\ AskedNames \subseteq Names
  /\ AskedIPs \subseteq 1..(SubnetSize - 2) /\ AskedMACs \subseteq 1..MaxIds

VARIABLES
  cameras,   \* the row of a camera and what it owns, by ID, or NoRow
  issued,    \* IDs given so far
  asked,     \* requests so far
  targets,   \* the rows of targets
  archived,  \* the profile is archived
  req        \* req[w]: what the request w is about to do

catalogueVars == <<cameras, issued, asked, targets, archived, req>>

Ids == 1..MaxIds
Hosts == 1..(SubnetSize - 2)
FactoryIP == 1 + (Gateway % (SubnetSize - 2))
Resting == [at |-> "none"]

\* The protocols of the profile: an instance has a port of its own.
instancePort == [i \in Protocols |-> [on |-> TRUE, port |-> i]]

\* A camera as it is created, with no targets.
FirstCamera(n, a) == [name |-> n, ip |-> a, mac |-> 1, protos |-> instancePort, links |-> {}]

\* No camera yet, or one.
CatalogueInit ==
  /\ \/ cameras = [c \in Ids |-> NoRow] /\ issued = 0
     \/ /\ \E n \in AskedNames, a \in AskedIPs :
             cameras = [c \in Ids |-> IF c = 1 THEN FirstCamera(n, a) ELSE NoRow]
        /\ issued = 1
  /\ asked = 0
  /\ targets = TargetIds
  /\ archived = FALSE
  /\ req = [w \in Workers |-> Resting]

-----------------------------------------------------------------------------
(* Queries.                                                                 *)

ListCameras == {c \in Ids : cameras[c] # NoRow}
CountCameras == Cardinality(ListCameras)
CameraIDByName(n) == {c \in ListCameras : cameras[c].name = n}
CameraIDByIP(a)   == {c \in ListCameras : cameras[c].ip = a}
CameraIDByMAC(m)  == {c \in ListCameras : cameras[c].mac = m}
CamerasUsingTarget(t) == {c \in ListCameras : t \in cameras[c].links}
ListCameraNetworks == {cameras[c].ip : c \in ListCameras}

\* checkUniqueNetwork: nobody but the camera itself has the address or the MAC.
checkUniqueNetwork(self, ip, mac) ==
  CameraIDByIP(ip) \cup CameraIDByMAC(mac) \subseteq {self}

checkUnique(name, ip, mac) ==
  CameraIDByName(name) = {} /\ checkUniqueNetwork(0, ip, mac)

\* A bug: the limit counts the cameras there are, not the new one.
AdmitCreateOneMore == CountCameras <= MaxCameras

\* admitCreate: one more camera stays within the limit.
AdmitCreate == CountCameras + 1 <= MaxCameras

\* Two enabled protocols listen on one port.
PortsClash(protos) ==
  \E i, j \in Protocols : i # j /\ protos[i].on /\ protos[j].on /\ protos[i].port = protos[j].port

\* nextHost: the first free host after an address, around the subnet; its
\* first and last addresses are no hosts.
nextHost(from, used) ==
  LET offset(i) == (from + i) % SubnetSize
      free == {i \in 1..(SubnetSize - 1) : offset(i) \in Hosts \ used}
  IN  IF free = {} THEN {} ELSE {offset(Min(free))}

nextFreeIP(ip) == nextHost(ip, ListCameraNetworks \cup {Gateway})

\* freeCloneName: the first copy of the name nobody has.
freeCloneName ==
  LET free == {n \in Names : CameraIDByName(n) = {}}
  IN  IF free = {} THEN {} ELSE {Min(free)}

-----------------------------------------------------------------------------
(* Transactions.                                                            *)

\* A bug: the index of the addresses is missing.
UniqueViolatedNoIP(c, row) == \E o \in ListCameras \ {c} :
  cameras[o].name = row.name \/ cameras[o].mac = row.mac

\* The UNIQUE indexes of the names, the addresses and the MACs.
UniqueViolated(c, row) == \E o \in ListCameras \ {c} :
  cameras[o].name = row.name \/ cameras[o].ip = row.ip \/ cameras[o].mac = row.mac

ForeignKeyViolated(row) == ~(row.links \subseteq targets)

\* The row is written, or the whole transaction fails.
Tx(c, row) ==
  cameras' = IF UniqueViolated(c, row) \/ ForeignKeyViolated(row) THEN cameras
             ELSE [cameras EXCEPT ![c] = row]

UpdateCameraMeta(row, name) == [row EXCEPT !.name = name]
UpdateCameraNetwork(row, net) == [row EXCEPT !.ip = net.ip, !.mac = net.mac]
UpdateCameraProtocol(row, protos) == [row EXCEPT !.protos = protos]
DeleteCameraTargets(row) == [row EXCEPT !.links = {}]
InsertCameraTarget(row, ts) == [row EXCEPT !.links = @ \cup ts]

Ask(w, r) == req' = [req EXCEPT ![w] = r]
Answered(w) == Ask(w, Resting)
Requested == asked < MaxRequests /\ asked' = asked + 1
Begin(w) == req[w] = Resting /\ Requested

-----------------------------------------------------------------------------
(* New cameras.                                                             *)

\* The row a new camera gets: its own ID, or the MAC of the request.
NewRow(name, ip, mac, protos, ts) ==
  [name |-> name, ip |-> ip, mac |-> IF mac = 0 THEN issued + 1 ELSE mac,
   protos |-> protos, links |-> ts]

\* CreateCamera finds the profile and that it is still offered.
CreateCamera(w, name, ip, mac, ts) ==
  /\ Begin(w) /\ issued < MaxIds
  /\ ~archived
  /\ issued' = issued + 1
  /\ Ask(w, [at |-> "admit", op |-> "create", id |-> issued + 1,
             row |-> NewRow(name, ip, mac, instancePort, ts)])
  /\ UNCHANGED <<cameras, targets, archived>>

\* CloneCamera: the copy has what the bundle of its source holds, and an
\* address and a name of its own.
CloneCamera(w, src, name, ip) ==
  /\ issued < MaxIds
  /\ cameras[src] # NoRow /\ ~archived
  /\ issued' = issued + 1
  /\ Ask(w, [at |-> "admit", op |-> "clone", id |-> issued + 1,
             row |-> NewRow(name, ip, 0, cameras[src].protos, cameras[src].links)])
  /\ UNCHANGED <<cameras, targets, archived>>

\* cloneNext picks a name and an address, and then clones as a request would.
cloneNext(w, src) ==
  /\ Begin(w) /\ cameras[src] # NoRow
  /\ \E name \in freeCloneName, ip \in nextFreeIP(cameras[src].ip) :
       Ask(w, [at |-> "clone", src |-> src, name |-> name, ip |-> ip])
  /\ UNCHANGED <<cameras, issued, targets, archived>>

\* BulkCameras: the clone of one camera after the other; what fails for one
\* camera is told, and the next is cloned all the same.
BulkCameras(w) == \E src \in ListCameras : cloneNext(w, src)

CloneNext(w) ==
  /\ req[w].at = "clone"
  /\ CloneCamera(w, req[w].src, req[w].name, req[w].ip)
  /\ UNCHANGED asked

CloneAsked(w, src, name, ip) == Begin(w) /\ CloneCamera(w, src, name, ip)

\* The source or its profile went meanwhile.
CloneGone(w) ==
  /\ req[w].at = "clone" /\ (cameras[req[w].src] = NoRow \/ archived)
  /\ Answered(w)
  /\ UNCHANGED <<cameras, issued, asked, targets, archived>>

\* The targets of a create, the names and addresses, and the limit.
Admit(w) ==
  LET r == req[w] IN
  /\ r.at = "admit"
  /\ IF /\ r.op = "create" => r.row.links \subseteq targets
        /\ checkUnique(r.row.name, r.row.ip, r.row.mac)
        /\ AdmitCreate
     THEN Ask(w, [r EXCEPT !.at = "insert"])
     ELSE Answered(w)
  /\ UNCHANGED <<cameras, issued, asked, targets, archived>>

\* The transaction of CreateCamera and of CloneCamera.
InsertCamera(w) ==
  /\ req[w].at = "insert"
  /\ Tx(req[w].id, req[w].row)
  /\ Answered(w)
  /\ UNCHANGED <<issued, asked, targets, archived>>

-----------------------------------------------------------------------------
(* Edits of a camera.                                                       *)

Edit(w, c, r) ==
  /\ Begin(w) /\ cameras[c] # NoRow
  /\ Ask(w, r)
  /\ UNCHANGED <<cameras, issued, targets, archived>>

\* UpdateCamera: the name, the targets or the network; the name is written
\* from the bundle when the request has none, the MAC too.
UpdateName(w, c, name) ==
  /\ CameraIDByName(name) \subseteq {c}
  /\ Edit(w, c, [at |-> "update", id |-> c, what |-> "name", name |-> name])

UpdateTargets(w, c, ts) ==
  /\ ts \subseteq targets
  /\ cameras[c] # NoRow
  /\ Edit(w, c, [at |-> "update", id |-> c, what |-> "targets", name |-> cameras[c].name, links |-> ts])

UpdateNetwork(w, c, ip, mac) ==
  /\ cameras[c] # NoRow
  /\ LET net == [ip |-> ip, mac |-> IF mac = 0 THEN cameras[c].mac ELSE mac] IN
       /\ checkUniqueNetwork(c, net.ip, net.mac)
       /\ Edit(w, c, [at |-> "update", id |-> c, what |-> "network", name |-> cameras[c].name, net |-> net])

\* The transaction; with the camera gone it updates no row, and a link to it
\* fails.
UpdateCamera(w) ==
  LET r == req[w]
      row == UpdateCameraMeta(cameras[r.id], r.name)
  IN
  /\ r.at = "update"
  /\ IF cameras[r.id] = NoRow THEN UNCHANGED cameras
     ELSE Tx(r.id, CASE r.what = "name"    -> row
                     [] r.what = "targets" -> InsertCameraTarget(DeleteCameraTargets(row), r.links)
                     [] r.what = "network" -> UpdateCameraNetwork(row, r.net))
  /\ Answered(w)
  /\ UNCHANGED <<issued, asked, targets, archived>>

\* SetCameraProtocols: the protocols of the bundle with what the request
\* changes; clashing ports are refused.
SetCameraProtocols(w, c, i, on, port) ==
  /\ cameras[c] # NoRow
  /\ LET next == [cameras[c].protos EXCEPT ![i] = [on |-> on, port |-> port]] IN
       /\ ~PortsClash(next)
       /\ Edit(w, c, [at |-> "protocols", id |-> c, inst |-> i, protos |-> next])

\* A bug: only the protocol of the request is written.
StoreProtocolsNamed(w) ==
  LET r == req[w] IN
  /\ r.at = "protocols"
  /\ IF cameras[r.id] = NoRow THEN UNCHANGED cameras
     ELSE Tx(r.id, UpdateCameraProtocol(cameras[r.id],
                     [cameras[r.id].protos EXCEPT ![r.inst] = r.protos[r.inst]]))
  /\ Answered(w)
  /\ UNCHANGED <<issued, asked, targets, archived>>

\* Its transaction writes every protocol, those of the bundle too.
StoreProtocols(w) ==
  LET r == req[w] IN
  /\ r.at = "protocols"
  /\ IF cameras[r.id] = NoRow THEN UNCHANGED cameras
     ELSE Tx(r.id, UpdateCameraProtocol(cameras[r.id], r.protos))
  /\ Answered(w)
  /\ UNCHANGED <<issued, asked, targets, archived>>

\* ResetCamera: a full reset needs the factory address to be free.
ResetCamera(w, c, scope) ==
  /\ scope = "full" => checkUniqueNetwork(c, FactoryIP, c)
  /\ Edit(w, c, [at |-> "reset", id |-> c, scope |-> scope])

\* Its transaction: the protocols of the profile, all enabled, and the
\* network.
StoreReset(w) ==
  LET r == req[w]
      row == UpdateCameraProtocol(cameras[r.id], instancePort)
  IN
  /\ r.at = "reset"
  /\ IF cameras[r.id] = NoRow THEN UNCHANGED cameras
     ELSE Tx(r.id, IF r.scope = "full" THEN UpdateCameraNetwork(row, [ip |-> FactoryIP, mac |-> r.id])
                   ELSE row)
  /\ Answered(w)
  /\ UNCHANGED <<issued, asked, targets, archived>>

\* The row and everything it owns; its session ended before.
DeleteCamera(c) ==
  /\ cameras[c] # NoRow
  /\ Requested
  /\ cameras' = [cameras EXCEPT ![c] = NoRow]
  /\ UNCHANGED <<issued, targets, archived, req>>

-----------------------------------------------------------------------------
(* Targets and the profile.                                                 *)

InsertTarget(t) ==
  /\ t \notin targets
  /\ Requested
  /\ targets' = targets \cup {t}
  /\ UNCHANGED <<cameras, issued, archived, req>>

\* DeleteTarget looks for cameras that use the target ...
DeleteTarget(w, t) ==
  /\ Begin(w) /\ t \in targets
  /\ CamerasUsingTarget(t) = {}
  /\ Ask(w, [at |-> "target", target |-> t])
  /\ UNCHANGED <<cameras, issued, targets, archived>>

\* ... and deletes it; the foreign key of the links refuses it when one
\* came meanwhile.
DropTarget(w) ==
  /\ req[w].at = "target"
  /\ targets' = IF CamerasUsingTarget(req[w].target) = {} THEN targets \ {req[w].target} ELSE targets
  /\ Answered(w)
  /\ UNCHANGED <<cameras, issued, asked, archived>>

ArchiveProfile ==
  /\ Requested
  /\ archived' = ~archived
  /\ UNCHANGED <<cameras, issued, targets, req>>

ChangeStep(w) ==
  \E c \in Ids :
    \/ \E n \in AskedNames : UpdateName(w, c, n)
    \/ \E ts \in SUBSET TargetIds : UpdateTargets(w, c, ts)
    \/ \E ip \in AskedIPs, mac \in {0} \cup AskedMACs : UpdateNetwork(w, c, ip, mac)
    \/ \E i \in Protocols, on \in BOOLEAN, port \in Protocols : SetCameraProtocols(w, c, i, on, port)
    \/ \E scope \in {"settings", "full"} : ResetCamera(w, c, scope)

NewStep(w) ==
  \/ \E n \in AskedNames, ip \in AskedIPs, mac \in {0} \cup AskedMACs, ts \in SUBSET TargetIds :
       CreateCamera(w, n, ip, mac, ts)
  \/ \E c \in Ids, n \in AskedNames, ip \in AskedIPs : CloneAsked(w, c, n, ip)
  \/ BulkCameras(w)
  \/ CloneNext(w) \/ CloneGone(w) \/ Admit(w) \/ InsertCamera(w)

CatalogueNext ==
  \/ \E w \in Workers :
       \/ NewStep(w) \/ ChangeStep(w)
       \/ UpdateCamera(w) \/ StoreProtocols(w) \/ StoreReset(w)
       \/ DropTarget(w) \/ \E t \in TargetIds : DeleteTarget(w, t)
  \/ \E c \in Ids : DeleteCamera(c)
  \/ \E t \in TargetIds : InsertTarget(t)
  \/ ArchiveProfile

CatalogueSpec == CatalogueInit /\ [][CatalogueNext]_catalogueVars

-----------------------------------------------------------------------------
(* Properties.                                                              *)

\* RN-05, RN-12: two cameras never have one name, address or MAC, and a
\* camera only links targets that exist, whatever the requests read before
\* their transactions (checkUnique, checkUniqueNetwork, DeleteTarget).
RowsConsistent ==
  /\ \A c, d \in ListCameras : c # d =>
       /\ cameras[c].name # cameras[d].name
       /\ cameras[c].ip # cameras[d].ip
       /\ cameras[c].mac # cameras[d].mac
  /\ \A c \in ListCameras : cameras[c].links \subseteq targets

\* RN-04: the enabled protocols of a camera listen on ports of their own,
\* also when edits of its protocols and a reset overlap.
PortsDistinct == \A c \in ListCameras : ~PortsClash(cameras[c].protos)

\* RN-16: the limit on cameras is read before the insert, so requests at the
\* same time may pass it together, but never by more than all of them but
\* one.
LimitPassedOnlyByRaces == CountCameras <= MaxCameras + Cardinality(Workers) - 1
=============================================================================
