--------------------------- MODULE CameraSettings ---------------------------
(***************************************************************************)
(* The settings of one camera, kept twice: in the database and in the      *)
(* camera process.  A starting session gives the process what it loaded    *)
(* (supervisor.go, camera/runtime.go configure); an edit of the panel is   *)
(* stored first and sent to a running camera after                         *)
(* (UpdateCameraConfig, SetCameraUsers, UpdateTarget with reloadTargets);  *)
(* a client of the emulated API changes the process first, which reports   *)
(* it to be stored (camera/state.go Set, supervisor.go clientChanges).     *)
(* No lock covers two of these steps.                                      *)
(*                                                                         *)
(* The accounts are a version number, each edit a newer one; one native    *)
(* parameter and the set of enabled targets stand for the rest.            *)
(***************************************************************************)
EXTENDS Naturals, Sequences, FiniteSets

CONSTANTS Editors,          \* requests of the panel, one edit each
          Clients,          \* connections to the emulated API
          ParamValues,      \* values of the native parameter
          LinkedTargets,    \* targets linked to the camera
          MaxClientChanges, \* bound: changes by clients
          MaxSessions,      \* bound: starts of the camera
          NoCamera          \* no camera process

Settings == [param : ParamValues, users : Nat, targets : SUBSET LinkedTargets]

ASSUME SettingsAssumption ==
  /\ MaxClientChanges \in Nat /\ MaxSessions \in Nat
  /\ ParamValues # {} /\ NoCamera \notin ParamValues \cup Settings

VARIABLES
  db,          \* the settings in the database
  held,        \* the settings of the camera process
  bundle,      \* what the session loaded when it started
  session,     \* none, starting or running
  generation,  \* how many sessions started
  down,        \* requests the camera has not handled
  up,          \* changes the service has not stored
  client,      \* client[c]: what Set has applied and not reported, or NoCamera
  changed, \* changes made by clients
  edit,        \* edit[e]: where a request of the panel is
  raced        \* some change overlapped with another one, or with a start

settingsVars == <<db, held, bundle, session, generation, down, up, client,
                  changed, edit, raced>>

SettingsInit ==
  /\ db = [param |-> CHOOSE v \in ParamValues : TRUE, users |-> 0, targets |-> LinkedTargets]
  /\ held = NoCamera /\ bundle = db
  /\ session = "none" /\ generation = 0
  /\ down = <<>> /\ up = <<>>
  /\ client = [c \in Clients |-> NoCamera] /\ changed = 0
  /\ edit = [e \in Editors |-> [at |-> "new", kind |-> "none", val |-> 0, gen |-> 0]]
  /\ raced = FALSE

\* The statements on the settings.  New accounts replace all the old ones.
ListCameraState == db.param
ListCameraUsers == db.users
ListCameraTargets == db.targets
UpsertCameraState(v) == [db EXCEPT !.param = v]
InsertCameraUser == [db EXCEPT !.users = @ + 1]

\* The reads of a bundle are several; they take one step here.
loadBundle ==
  [param |-> ListCameraState, users |-> ListCameraUsers, targets |-> ListCameraTargets]

Editing == {e \in Editors : edit[e].at \notin {"new", "done"}}
Reporting == {c \in Clients : client[c] # NoCamera}

\* Nothing is under way.
Quiet == Editing = {} /\ Reporting = {} /\ up = <<>> /\ down = <<>>

-----------------------------------------------------------------------------
(* The session.                                                             *)

\* StartCamera or retryStart loads the bundle the whole session starts from.
\* A start from a quiet database heals whatever had come apart.
StartLoad ==
  /\ session = "none" /\ generation < MaxSessions
  /\ session' = "starting"
  /\ generation' = generation + 1
  /\ bundle' = loadBundle
  /\ raced' = ~Quiet
  /\ UNCHANGED <<db, held, down, up, client, changed, edit>>

\* buildConfigure and configure, after the streams are prepared: the camera
\* serves from here, with what was loaded before.
Configure ==
  /\ session = "starting" /\ held = NoCamera
  /\ held' = bundle
  /\ UNCHANGED <<db, bundle, session, generation, down, up, client, changed, edit, raced>>

\* The camera said ready: from here it is active.
BecomeRunning ==
  /\ session = "starting" /\ held # NoCamera
  /\ session' = "running"
  /\ UNCHANGED <<db, held, bundle, generation, down, up, client, changed, edit, raced>>

\* The session ends, by a stop or a crash: requests return without a reply,
\* and what the camera wrote before it ended is still handled.
SessionEnds ==
  /\ session # "none"
  /\ session' = "none" /\ held' = NoCamera /\ down' = <<>>
  /\ client' = [c \in Clients |-> NoCamera]
  /\ edit' = [e \in Editors |-> IF edit[e].at = "wait" THEN [edit[e] EXCEPT !.at = "done"] ELSE edit[e]]
  /\ UNCHANGED <<db, bundle, generation, up, changed, raced>>

-----------------------------------------------------------------------------
(* Edits of the panel.                                                      *)

\* The transaction of UpdateCameraConfig, SetCameraUsers or UpdateTarget.
Store(e, kind, val, new) ==
  /\ edit[e].at = "new"
  /\ db' = new
  /\ edit' = [edit EXCEPT ![e] = [at |-> "stored", kind |-> kind, val |-> val, gen |-> 0]]
  /\ raced' = (raced \/ ~Quiet \/ session = "starting")
  /\ UNCHANGED <<held, bundle, session, generation, down, up, client, changed>>

\* persistChanges of UpdateCameraConfig.
UpdateCameraConfig(e, v) == Store(e, "param", v, UpsertCameraState(v))

\* A new list of accounts.
SetCameraUsers(e) == Store(e, "users", ListCameraUsers + 1, InsertCameraUser)

\* A target is disabled or enabled again.
UpdateTarget(e, t) ==
  Store(e, "targets", 0, [db EXCEPT !.targets = IF t \in @ THEN @ \ {t} ELSE @ \cup {t}])

\* After the audit entry: is a camera running?  reloadTargets loads the
\* targets now.
CheckActive(e) ==
  /\ edit[e].at = "stored"
  /\ edit' = [edit EXCEPT ![e] =
       IF session # "running" THEN [@ EXCEPT !.at = "done"]
       ELSE [@ EXCEPT !.at = "send", !.gen = generation,
                      !.val = IF edit[e].kind = "targets" THEN ListCameraTargets ELSE edit[e].val]]
  /\ UNCHANGED <<db, held, bundle, session, generation, down, up, client, changed, raced>>

\* The request goes to the session found active, or fails with it.
Send(e) ==
  /\ edit[e].at = "send"
  /\ IF session = "running" /\ edit[e].gen = generation
     THEN /\ down' = Append(down, [by |-> e, kind |-> edit[e].kind, val |-> edit[e].val])
          /\ edit' = [edit EXCEPT ![e].at = "wait"]
     ELSE edit' = [edit EXCEPT ![e].at = "done"] /\ UNCHANGED down
  /\ UNCHANGED <<db, held, bundle, session, generation, up, client, changed, raced>>

\* A bug: the accounts only take effect at the next start.
HandleRequestNoUsers ==
  LET m == Head(down) IN
  /\ down # <<>> /\ down' = Tail(down)
  /\ held' = CASE m.kind = "param"   -> [held EXCEPT !.param = m.val]
               [] m.kind = "users"   -> held
               [] m.kind = "targets" -> IF m.val = {} THEN held ELSE [held EXCEPT !.targets = m.val]
  /\ edit' = [edit EXCEPT ![m.by].at = "done"]
  /\ UNCHANGED <<db, bundle, session, generation, up, client, changed, raced>>

\* state.set and reload in the camera.  Reload omits an empty list of
\* targets from its message, and the camera keeps the list it has.
HandleRequest ==
  LET m == Head(down) IN
  /\ down # <<>> /\ down' = Tail(down)
  /\ held' = CASE m.kind = "param"   -> [held EXCEPT !.param = m.val]
               [] m.kind = "users"   -> [held EXCEPT !.users = m.val]
               [] m.kind = "targets" -> IF m.val = {} THEN held ELSE [held EXCEPT !.targets = m.val]
  /\ edit' = [edit EXCEPT ![m.by].at = "done"]
  /\ UNCHANGED <<db, bundle, session, generation, up, client, changed, raced>>

-----------------------------------------------------------------------------
(* Changes by clients of the camera.                                        *)

\* stateStore.Set applies the change under its lock ...
ClientSet(c, v) ==
  /\ held # NoCamera /\ client[c] = NoCamera
  /\ changed < MaxClientChanges
  /\ held.param # v
  /\ held' = [held EXCEPT !.param = v]
  /\ client' = [client EXCEPT ![c] = v]
  /\ changed' = changed + 1
  /\ raced' = (raced \/ ~Quiet)
  /\ UNCHANGED <<db, bundle, session, generation, down, up, edit>>

\* ... and reports it after it released the lock.
ClientReport(c) ==
  /\ client[c] # NoCamera
  /\ up' = Append(up, client[c])
  /\ client' = [client EXCEPT ![c] = NoCamera]
  /\ UNCHANGED <<db, held, bundle, session, generation, down, changed, edit, raced>>

\* clientChanges checks the report against the profile and stores it.
clientChanges ==
  /\ up # <<>> /\ up' = Tail(up)
  /\ db' = UpsertCameraState(Head(up))
  /\ UNCHANGED <<held, bundle, session, generation, down, client, changed, edit, raced>>

SettingsNext ==
  \/ StartLoad \/ Configure \/ BecomeRunning \/ SessionEnds
  \/ \E e \in Editors :
       \/ \E v \in ParamValues : UpdateCameraConfig(e, v)
       \/ SetCameraUsers(e)
       \/ \E t \in LinkedTargets : UpdateTarget(e, t)
       \/ CheckActive(e) \/ Send(e)
  \/ HandleRequest
  \/ \E c \in Clients : ClientReport(c) \/ \E v \in ParamValues : ClientSet(c, v)
  \/ clientChanges

SettingsSpec == SettingsInit /\ [][SettingsNext]_settingsVars

-----------------------------------------------------------------------------
(* Properties.                                                              *)

\* When nothing is under way, a running camera and the database agree,
\* unless since the start of the session one change overlapped with another
\* or came while the camera started.  (An empty list of targets is the case
\* of DisabledTargetsReachCamera.)
AgreeUnlessRaced ==
  ~raced /\ Quiet /\ session = "running" =>
    /\ held.param = db.param
    /\ held.users = db.users
    /\ db.targets # {} => held.targets = db.targets

\* "UpdateTarget changes a target; running cameras get it immediately."
\* When nothing raced and nothing is under way, the targets of a running
\* camera are the enabled ones.
DisabledTargetsReachCamera ==
  ~raced /\ Quiet /\ session = "running" => held.targets = db.targets
=============================================================================
