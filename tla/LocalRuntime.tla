---------------------------- MODULE LocalRuntime ----------------------------
(***************************************************************************)
(* The runtime for development (backend/internal/netctl/local.go): cameras *)
(* are plain processes of the node.  The supervisor launches a camera only *)
(* after its last session ended, so the launches of one camera do not      *)
(* overlap; destroys and the end of processes overlap with everything.     *)
(***************************************************************************)
EXTENDS Integers, FiniteSets

CONSTANTS
  LocalCams,
  Launches,   \* launches, each of one process
  Destroys,   \* destroys
  NoProc

ASSUME LocalAssumption == NoProc \notin Launches /\ Launches \cap Destroys = {}

VARIABLES
  of,        \* the camera of a launch or destroy
  step,      \* where a launch or a destroy is
  procs,     \* LocalRuntime.procs
  life,      \* of a process: none, running, ended or reaped
  stopping,  \* localProc.stopping
  found,     \* the localProc a destroy waits for
  exits      \* processes whose end was reported

localVars == <<of, step, procs, life, stopping, found, exits>>

-----------------------------------------------------------------------------
LaunchCheck(l, c) ==
  /\ step[l] = "new"
  /\ \A k \in Launches : of[k] = c => step[k] \notin {"start", "register"}
  /\ of' = [of EXCEPT ![l] = c]
  /\ step' = [step EXCEPT ![l] = IF procs[c] = NoProc THEN "start" ELSE "failed"]
  /\ UNCHANGED <<procs, life, stopping, found, exits>>

\* cmd.Start; it, or the socket, may fail, and the process is then killed.
LaunchStart(l) ==
  /\ step[l] = "start"
  /\ \/ life' = [life EXCEPT ![l] = "running"] /\ step' = [step EXCEPT ![l] = "register"]
     \/ step' = [step EXCEPT ![l] = "failed"] /\ UNCHANGED life
  /\ UNCHANGED <<of, procs, stopping, found, exits>>

LaunchRegister(l) ==
  /\ step[l] = "register"
  /\ procs' = [procs EXCEPT ![of[l]] = l]
  /\ step' = [step EXCEPT ![l] = "ok"]
  /\ UNCHANGED <<of, life, stopping, found, exits>>

ProcessEnds(l) ==
  /\ life[l] = "running"
  /\ life' = [life EXCEPT ![l] = "ended"]
  /\ UNCHANGED <<of, step, procs, stopping, found, exits>>

\* reap, started once the process is registered, closes done ...
ReapDone(l) ==
  /\ life[l] = "ended" /\ step[l] = "ok"
  /\ life' = [life EXCEPT ![l] = "done"]
  /\ UNCHANGED <<of, step, procs, stopping, found, exits>>

\* ... and removes the entry; an end nobody asked for is reported.
Reap(l) ==
  /\ life[l] = "done"
  /\ life' = [life EXCEPT ![l] = "reaped"]
  /\ procs' = [procs EXCEPT ![of[l]] = NoProc]
  /\ exits' = IF l \in stopping THEN exits ELSE exits \cup {l}
  /\ UNCHANGED <<of, step, stopping, found>>

\* A bug: Destroy removes the entry itself, at once.
DestroyBeginForget(d, c) ==
  /\ step[d] = "new"
  /\ of' = [of EXCEPT ![d] = c]
  /\ found' = [found EXCEPT ![d] = procs[c]]
  /\ stopping' = IF procs[c] = NoProc THEN stopping ELSE stopping \cup {procs[c]}
  /\ step' = [step EXCEPT ![d] = IF procs[c] = NoProc THEN "ok" ELSE "wait"]
  /\ procs' = [procs EXCEPT ![c] = NoProc]
  /\ UNCHANGED <<life, exits>>

DestroyBegin(d, c) ==
  /\ step[d] = "new"
  /\ of' = [of EXCEPT ![d] = c]
  /\ found' = [found EXCEPT ![d] = procs[c]]
  /\ stopping' = IF procs[c] = NoProc THEN stopping ELSE stopping \cup {procs[c]}
  /\ step' = [step EXCEPT ![d] = IF procs[c] = NoProc THEN "ok" ELSE "wait"]
  /\ UNCHANGED <<procs, life, exits>>

\* SIGTERM, SIGKILL after three seconds, and the wait for done.
DestroyEnd(d) ==
  /\ step[d] = "wait" /\ life[found[d]] \in {"done", "reaped"}
  /\ step' = [step EXCEPT ![d] = "ok"]
  /\ UNCHANGED <<of, procs, life, stopping, found, exits>>

-----------------------------------------------------------------------------
LocalInit ==
  /\ of = [t \in Launches \cup Destroys |-> NoProc]
  /\ step = [t \in Launches \cup Destroys |-> "new"]
  /\ procs = [c \in LocalCams |-> NoProc]
  /\ life = [l \in Launches |-> "none"]
  /\ stopping = {} /\ exits = {}
  /\ found = [d \in Destroys |-> NoProc]

LocalNext ==
  \/ \E l \in Launches : \/ \E c \in LocalCams : LaunchCheck(l, c)
                         \/ LaunchStart(l) \/ LaunchRegister(l)
                         \/ ProcessEnds(l) \/ ReapDone(l) \/ Reap(l)
  \/ \E d \in Destroys : (\E c \in LocalCams : DestroyBegin(d, c)) \/ DestroyEnd(d)

LocalSpec == LocalInit /\ [][LocalNext]_localVars

-----------------------------------------------------------------------------
\* A camera holds its place from the launch until its process is reaped.
LocalHolds(l) == step[l] \in {"start", "register"} \/ (step[l] = "ok" /\ life[l] # "reaped")

LocalImplements == INSTANCE Runtime WITH
  Cams <- LocalCams,
  net  <- {<<of[l], l>> : l \in {k \in Launches : LocalHolds(k)}},
  held <- {<<of[l], l>> : l \in {k \in Launches : LocalHolds(k)}},
  proc <- {<<of[l], l>> : l \in {k \in Launches : life[k] = "running"}}

\* LocalRuntime.Launch and Destroy implement the Runtime interface: a camera
\* has one process and one place at a time, also when a Destroy overlaps its
\* next launch.
LocalImplementsRuntime == LocalImplements!RuntimeSpec
=============================================================================
