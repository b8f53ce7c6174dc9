----------------------------- MODULE NetHelper -----------------------------
(***************************************************************************)
(* The network helper (backend/internal/netctl/helper_linux.go,            *)
(* netns_linux.go, link_linux.go, run_linux.go): the privileged process    *)
(* that creates and deletes cameras.  Every request is handled by its own  *)
(* goroutine, so creations and deletions of one camera interleave, and the *)
(* order of the messages is not the order of their handling.  A request is *)
(* handled once; a creation names the camProc it makes.  Shutdown deletes  *)
(* every camera on threads of its own, named by the camera.                *)
(***************************************************************************)
EXTENDS Integers, FiniteSets

CONSTANTS
  Cams,
  Reqs,                \* requests of the service
  Nobody,              \* no camProc
  maxHelperRequests,
  MaxFailures,         \* bound: steps that fail
  MaxStarts            \* bound: starts of the helper

ASSUME HelperAssumption ==
  /\ maxHelperRequests \in Nat \ {0} /\ {MaxFailures, MaxStarts} \subseteq Nat
  /\ Nobody \notin Reqs /\ Cams \cap Reqs = {}

VARIABLES
  up,        \* the helper: up, stopping (Shutdown) or down
  starts, failures,
  kind, cam, \* of a thread: create or delete, and its camera
  pc,        \* where the thread is
  cams,      \* Helper.cams
  ns,        \* camProc.ns # nil
  running,   \* camProcs whose process runs
  deleting,  \* camProc.deleting
  created,   \* camProc.created is closed
  target,    \* the camProc a delete found
  taken,     \* the delete took the namespace of its camProc
  space,     \* namespaces that exist, by the camProc they were made for
  named,     \* those mounted under /run/netns by their camera's name
  links,     \* namespaces with an interface on the LAN
  lost       \* history: namespaces whose removal failed

threadVars == <<kind, cam, pc, target, taken>>
procVars   == <<cams, ns, running, deleting, created>>
kernelVars == <<space, named, links, lost>>
helperVars == <<up, starts, failures, threadVars, procVars, kernelVars>>

Threads == Reqs \cup Cams

Go(t, to) == pc' = [pc EXCEPT ![t] = to]

\* A step that can fail does so at most MaxFailures times.
Fault == failures < MaxFailures /\ failures' = failures + 1

Handling == {r \in Reqs : pc[r] \notin {"new", "sent", "ok", "failed", "lost"}}

-----------------------------------------------------------------------------
(* Requests *)

\* HelperRuntime.request sends a create or a delete over the socket.
Send(r, c) ==
  /\ pc[r] = "new" /\ up = "up"
  /\ \E k \in {"create", "delete"} : kind' = [kind EXCEPT ![r] = k]
  /\ cam' = [cam EXCEPT ![r] = c]
  /\ Go(r, "sent")
  /\ UNCHANGED <<up, starts, failures, target, taken, procVars, kernelVars>>

\* Serve starts a goroutine when fewer than maxHelperRequests are handled.
Serve(r) ==
  /\ pc[r] = "sent" /\ up = "up" /\ Cardinality(Handling) < maxHelperRequests
  /\ Go(r, kind[r])
  /\ UNCHANGED <<up, starts, failures, kind, cam, target, taken, procVars, kernelVars>>

-----------------------------------------------------------------------------
(* create *)

CreateRegister(r) ==
  /\ pc[r] = "create"
  /\ IF cams[cam[r]] = Nobody
     THEN cams' = [cams EXCEPT ![cam[r]] = r] /\ Go(r, "namespace")
     ELSE UNCHANGED cams /\ Go(r, "failed")
  /\ UNCHANGED <<up, starts, failures, kind, cam, target, taken, ns, running, deleting,
                 created, kernelVars>>

NameTaken(c) == \E r \in named : cam[r] = c

\* createNamespace claims the name of the camera's namespace; where mounts
\* are not allowed the namespace has no name, and none stops it.  deleted()
\* is asked once it is recorded.
CreateNamespace(r) ==
  /\ pc[r] = "namespace"
  /\ \/ ~NameTaken(cam[r]) /\ named' = named \cup {r}
     \/ UNCHANGED named
  /\ space' = space \cup {r} /\ ns' = ns \cup {r}
  /\ Go(r, IF r \in deleting THEN "fail" ELSE "interface")
  /\ UNCHANGED <<up, starts, failures, kind, cam, target, taken, cams, running, deleting,
                 created, links, lost>>

\* setupInterface puts the macvlan into the namespace, probes the address,
\* assigns and announces it.
setupInterface(r) ==
  /\ pc[r] = "interface"
  /\ links' = links \cup {r}
  /\ Go(r, IF r \in deleting THEN "fail" ELSE "start")
  /\ UNCHANGED <<up, starts, failures, kind, cam, target, taken, procVars, space, named, lost>>

\* start: the process runs; a delete that came meanwhile cleans up.
StartProcess(r) ==
  /\ pc[r] = "start"
  /\ running' = running \cup {r}
  /\ created' = created \cup {r}
  /\ Go(r, IF r \in deleting THEN "failed" ELSE "ok")
  /\ UNCHANGED <<up, starts, failures, kind, cam, target, taken, cams, ns, deleting, kernelVars>>

\* The name is taken, or a step fails; an interface may be there by then.
CreateError(r) ==
  /\ \/ pc[r] = "namespace" /\ NameTaken(cam[r]) /\ UNCHANGED <<failures, links>>
     \/ pc[r] \in {"namespace", "start"} /\ Fault /\ UNCHANGED links
     \/ pc[r] = "interface" /\ Fault /\ links' \in {links, links \cup {r}}
  /\ Go(r, "fail")
  /\ UNCHANGED <<up, starts, kind, cam, target, taken, procVars, space, named, lost>>

\* fail forgets the camera under the lock ...
CreateFail(r) ==
  /\ pc[r] = "fail"
  /\ taken' = IF r \in ns THEN taken \cup {r} ELSE taken
  /\ ns' = ns \ {r}
  /\ cams' = [cams EXCEPT ![cam[r]] = IF @ = r THEN Nobody ELSE @]
  /\ Go(r, "undo")
  /\ UNCHANGED <<up, starts, failures, kind, cam, target, running, deleting, created, kernelVars>>

removeLinks(r) == links' = links \ {r}

\* removeLinks and namespace.delete; an error of the latter, which only the
\* unmounting of a name can meet, leaves the namespace.
RemoveNamespace(r) ==
  /\ removeLinks(r)
  /\ \/ space' = space \ {r} /\ named' = named \ {r} /\ UNCHANGED <<lost, failures>>
     \/ r \in named /\ Fault /\ lost' = lost \cup {r} /\ UNCHANGED <<space, named>>

\* A bug: who waits for the creation is not told that it failed.
CreateUndoSilent(r) ==
  /\ pc[r] = "undo"
  /\ IF r \in taken THEN RemoveNamespace(r) ELSE UNCHANGED <<kernelVars, failures>>
  /\ Go(r, "failed")
  /\ UNCHANGED <<up, starts, kind, cam, target, taken, procVars>>

\* ... and then undoes what it made.
CreateUndo(r) ==
  /\ pc[r] = "undo"
  /\ IF r \in taken THEN RemoveNamespace(r) ELSE UNCHANGED <<kernelVars, failures>>
  /\ created' = created \cup {r}
  /\ Go(r, "failed")
  /\ UNCHANGED <<up, starts, kind, cam, target, taken, cams, ns, running, deleting>>

-----------------------------------------------------------------------------
(* delete *)

DeleteBegin(t) ==
  /\ pc[t] = "delete"
  /\ LET cp == cams[cam[t]] IN
       /\ target' = [target EXCEPT ![t] = cp]
       /\ deleting' = IF cp = Nobody THEN deleting ELSE deleting \cup {cp}
       /\ Go(t, IF cp = Nobody THEN "ok" ELSE "await")
  /\ UNCHANGED <<up, starts, failures, kind, cam, taken, cams, ns, running, created, kernelVars>>

\* Once the creation is over the delete takes the namespace, if it is there.
DeleteTake(t) ==
  /\ pc[t] = "await" /\ target[t] \in created
  /\ taken' = IF target[t] \in ns THEN taken \cup {t} ELSE taken
  /\ ns' = ns \ {target[t]}
  /\ Go(t, "stop")
  /\ UNCHANGED <<up, starts, failures, kind, cam, target, cams, running, deleting, created, kernelVars>>

\* SIGTERM, and SIGKILL after three seconds.
DeleteKill(t) ==
  /\ pc[t] = "stop" /\ target[t] \in running
  /\ running' = running \ {target[t]}
  /\ UNCHANGED <<up, starts, failures, threadVars, cams, ns, deleting, created, kernelVars>>

\* A bug: the namespace goes while the process may still run.
DeleteReleaseEarly(t) ==
  /\ pc[t] = "stop"
  /\ IF t \in taken THEN RemoveNamespace(target[t]) ELSE UNCHANGED <<kernelVars, failures>>
  /\ Go(t, IF target[t] \in lost' \ lost THEN "broken" ELSE "forget")
  /\ UNCHANGED <<up, starts, kind, cam, target, taken, procVars>>

\* The process has ended: remove the namespace this delete took.
DeleteRelease(t) ==
  /\ pc[t] = "stop" /\ target[t] \notin running
  /\ IF t \in taken THEN RemoveNamespace(target[t]) ELSE UNCHANGED <<kernelVars, failures>>
  /\ Go(t, IF target[t] \in lost' \ lost THEN "broken" ELSE "forget")
  /\ UNCHANGED <<up, starts, kind, cam, target, taken, procVars>>

DeleteEnd(t) ==
  /\ pc[t] \in {"forget", "broken"}
  /\ cams' = [cams EXCEPT ![cam[t]] = IF @ = target[t] THEN Nobody ELSE @]
  /\ Go(t, IF pc[t] = "forget" THEN "ok" ELSE "failed")
  /\ UNCHANGED <<up, starts, failures, kind, cam, target, taken, ns, running, deleting,
                 created, kernelVars>>

-----------------------------------------------------------------------------
(* Processes and the helper itself *)

\* A camera process ends on its own; reap reports it unless it is deleted.
reap(r) ==
  /\ r \in running
  /\ running' = running \ {r}
  /\ UNCHANGED <<up, starts, failures, threadVars, cams, ns, deleting, created, kernelVars>>

list == {c \in Cams : cams[c] # Nobody}

\* The service exited: no more requests are read, and every camera that is
\* registered at this moment is deleted.
Shutdown ==
  /\ up = "up"
  /\ up' = "stopping"
  /\ pc' = [t \in Threads |-> IF t \in list THEN "delete" ELSE pc[t]]
  /\ UNCHANGED <<starts, failures, kind, cam, target, taken, procVars, kernelVars>>

\* The helper exits, after Shutdown or because it is killed.  Its cameras
\* die with it, and the namespaces that only its descriptors held; a
\* mounted one stays.
HelperExit ==
  /\ up' = "down"
  /\ pc' = [t \in Threads |-> IF t \in Cams THEN "new"
                              ELSE IF pc[t] \in {"new", "ok", "failed"} THEN pc[t] ELSE "lost"]
  /\ cams' = [c \in Cams |-> Nobody]
  /\ ns' = {} /\ running' = {} /\ deleting' = {} /\ created' = {}
  /\ space' = named /\ links' = links \cap named
  /\ UNCHANGED <<starts, failures, kind, cam, target, taken, named, lost>>

RunMainReturns == up = "stopping" /\ (\A c \in Cams : pc[c] \in {"new", "ok", "failed"}) /\ HelperExit

HelperKilled == up # "down" /\ starts < MaxStarts /\ HelperExit

removeStaleNamespaces == space' = {} /\ named' = {} /\ links' = {} /\ lost' = {}

\* A helper that starts removes the namespaces left by a previous run.
NewHelper ==
  /\ up = "down" /\ starts < MaxStarts
  /\ up' = "up" /\ starts' = starts + 1
  /\ removeStaleNamespaces
  /\ UNCHANGED <<failures, threadVars, procVars>>

-----------------------------------------------------------------------------
(* Specification *)

HelperInit ==
  /\ up = "up" /\ starts = 0 /\ failures = 0
  /\ kind = [t \in Threads |-> "delete"]
  /\ cam = [t \in Threads |-> IF t \in Cams THEN t ELSE Nobody]
  /\ pc = [t \in Threads |-> "new"]
  /\ target = [t \in Threads |-> Nobody] /\ taken = {}
  /\ cams = [c \in Cams |-> Nobody]
  /\ ns = {} /\ running = {} /\ deleting = {} /\ created = {}
  /\ space = {} /\ named = {} /\ links = {} /\ lost = {}

CreateStep(r) == CreateRegister(r) \/ CreateNamespace(r) \/ setupInterface(r) \/ StartProcess(r)
                 \/ CreateError(r) \/ CreateFail(r) \/ CreateUndo(r)

DeleteStep(t) == DeleteBegin(t) \/ DeleteTake(t) \/ DeleteKill(t) \/ DeleteRelease(t) \/ DeleteEnd(t)

HelperNext ==
  \/ \E r \in Reqs : (\E c \in Cams : Send(r, c)) \/ Serve(r) \/ CreateStep(r) \/ reap(r)
  \/ \E t \in Threads : DeleteStep(t)
  \/ Shutdown \/ RunMainReturns \/ HelperKilled \/ NewHelper

HelperSpec == HelperInit /\ [][HelperNext]_helperVars

\* Goroutines go on, and a process that is sent SIGKILL ends.
HelperFairness ==
  /\ \A r \in Reqs : WF_helperVars(Serve(r)) /\ WF_helperVars(CreateStep(r))
  /\ \A t \in Threads : WF_helperVars(DeleteStep(t))
  /\ WF_helperVars(RunMainReturns)

-----------------------------------------------------------------------------
(* Properties *)

\* Serve and delete: every request the helper has taken is answered, though
\* deletes wait for creations and few requests are handled at once.
RequestsAnswered ==
  \A r \in Reqs : (pc[r] = "sent") ~> (pc[r] \in {"ok", "failed", "lost"} \/ up # "up")

\* The namespaces and the processes of the requests that made them.
HelperRuntime == INSTANCE Runtime WITH
  Launches <- Reqs,
  net  <- {<<cam[r], r>> : r \in space},
  held <- {<<cam[r], r>> : r \in named},
  proc <- {<<cam[r], r>> : r \in running}

\* Helper.create and Helper.delete implement the Runtime interface: a camera
\* has one process at a time, which only runs in a namespace of its own; a
\* namespace is given back only once its process is gone; and of those with
\* the camera's name there is one.  A namespace without a name may be there
\* beside another one.
ImplementsRuntime == HelperRuntime!RuntimeSpec
=============================================================================
