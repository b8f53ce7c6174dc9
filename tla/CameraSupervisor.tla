--------------------------- MODULE CameraSupervisor ---------------------------
(***************************************************************************)
(* The camera supervisor of the main service                               *)
(* (backend/internal/app/supervisor.go, service.go and the lifecycle part  *)
(* of cameras.go).                                                         *)
(*                                                                         *)
(* Goroutines that interleave: one session per camera process (run), API   *)
(* requests (StartCamera, StopCamera, DeleteCamera; RestartCamera is a     *)
(* stop followed by a start), retry timers (retryStart), the reconciler    *)
(* (Reconcile) and the boot and shutdown of the node (Run).  A step is one *)
(* critical section or one call to the store or to the runtime; steps that *)
(* only the owner of the lock can tell apart are joined.                   *)
(***************************************************************************)
EXTENDS Integers, FiniteSets

CONSTANTS
  Cameras,             \* camera IDs (ULIDs: a deleted one never comes back)
  Autostart,           \* the cameras whose row has autostart set
  Sessions,            \* identities of session objects; reused once unreferenced
  Requests,            \* API request goroutines
  NoCamera, NoSession, \* absent values of the maps
  Unlocked,            \* holder of a free opLock
  Timer, Reconciler,   \* the other goroutines that take an opLock
  MaxAutoRetries,      \* domain.MaxAutoRetries
  MaxDue,              \* bound: retryStart calls waiting for one camera
  MaxStops,            \* bound: shutdowns and crashes
  MaxRejects,          \* bound: automatic starts refused by admission
  MaxDestroyFailures   \* bound: Destroy calls that return an error

ASSUME SupervisorAssumption ==
  /\ Autostart \subseteq Cameras
  /\ NoCamera \notin Cameras
  /\ NoSession \notin Sessions
  /\ {Unlocked, Timer, Reconciler} \cap Requests = {}
  /\ Timer # Reconciler /\ Unlocked \notin {Timer, Reconciler}
  /\ MaxAutoRetries \in Nat
  /\ MaxDue \in Nat
  /\ MaxStops \in Nat
  /\ MaxRejects \in Nat
  /\ MaxDestroyFailures \in Nat

VARIABLES
  \* SQLite
  row,       \* "absent" before CreateCamera, "present", "deleted"
  desired,   \* cameras.desired_state
  status,    \* camera_status.actual_state
  \* memory of the service
  sessions,  \* Service.sessions
  phase,     \* where each session's run is
  owner,     \* session.id
  stop,      \* session.stopCh under stopOnce: unused, queued or taken
  retries,   \* Service.retries
  due,       \* retryStart calls that will run: fired or unreferenced timers
  opLocks,   \* keys of Service.opLocks
  lock,      \* holder of a camera's opLock
  pc,        \* where each request is
  cam,       \* the camera a request is about
  wait,      \* the session whose end a request waits for
  rec,       \* the reconciler's pass
  node,      \* phase of Service.Run
  toBoot,    \* cameras bootCameras has listed and not yet handled
  awaited,   \* sessions shutdown waits for
  \* the runtime and what may go wrong
  proc,      \* process and namespace of a camera, as the runtime knows it
  faults     \* faults so far, each under its bound

storeVars   == <<row, desired, status>>
sessionVars == <<sessions, phase, owner, stop>>
retryVars   == <<retries, due>>
lockVars    == <<opLocks, lock>>
reqVars     == <<pc, cam, wait>>
nodeVars    == <<node, toBoot, awaited>>
vars == <<storeVars, sessionVars, retryVars, lockVars, reqVars, rec, nodeVars,
          proc, faults>>

-----------------------------------------------------------------------------
(* Types *)

Desired == {"running", "stopped"}

CameraState == {"stopped", "provisioning", "starting", "running", "stopping", "error"}

Phase == {"provisioning", "launching", "starting", "configuring", "ready", "running",
          "stopping", "failing", "failed", "retrying", "ending", "unmapped", "done"}

PC == {"idle", "start", "stop.signal", "stop.wait", "stop.destroy",
       "delete.lock", "delete.wait", "delete.destroy", "delete.forget"}

RetryState == [attempts : Nat, timer : {"nil", "armed", "spent"}]

RecState ==   [pc   : {"idle", "cameras", "retry", "start", "orphans", "destroy"},
               cam  : Cameras \cup {NoCamera},
               todo : SUBSET (Cameras \X Desired),
               live : SUBSET Cameras]

NodePhase == {"down", "booting", "up", "closing", "cancelled", "returned"}

Faults == [stops : Nat, rejects : Nat, destroys : Nat]

\* Type invariant of the supervisor's stored, in-memory and runtime state.
TypeOK ==
  /\ row \in [Cameras -> {"absent", "present", "deleted"}]
  /\ desired \in [Cameras -> Desired]
  /\ status \in [Cameras -> CameraState]
  /\ sessions \in [Cameras -> Sessions \cup {NoSession}]
  /\ phase \in [Sessions -> Phase]
  /\ owner \in [Sessions -> Cameras \cup {NoCamera}]
  /\ stop \in [Sessions -> {"unused", "queued", "taken"}]
  /\ retries \in [Cameras -> RetryState]
  /\ due \in [Cameras -> Nat]
  /\ opLocks \subseteq Cameras
  /\ lock \in [Cameras -> Requests \cup {Unlocked, Timer, Reconciler}]
  /\ pc \in [Requests -> PC]
  /\ cam \in [Requests -> Cameras \cup {NoCamera}]
  /\ wait \in [Requests -> Sessions \cup {NoSession}]
  /\ rec \in RecState
  /\ node \in NodePhase
  /\ toBoot \subseteq Cameras
  /\ awaited \subseteq Sessions
  /\ proc \in [Cameras -> {"none", "live", "exited"}]
  /\ faults \in Faults

-----------------------------------------------------------------------------
(* Helpers *)

NoRetry == [attempts |-> 0, timer |-> "nil"]

IdleReconciler == [pc |-> "idle", cam |-> NoCamera, todo |-> {}, live |-> {}]

\* The service answers requests while it boots: serve starts Run and the
\* HTTP server side by side.
Serving == node \in {"booting", "up"}

\* The process exists and its base context is not cancelled.
Alive == node \in {"booting", "up", "closing"}

\* session.done is closed.
Ended(s) == phase[s] = "done"

\* A session object nobody points to any more.
Unreferenced(s) ==
  /\ Ended(s)
  /\ s \notin awaited
  /\ \A r \in Requests : wait[r] # s

\* setState / saveStatus: the row of a deleted camera is gone, and the
\* foreign key error is ignored.
SaveStatus(c, st) ==
  status' = IF row[c] = "present" THEN [status EXCEPT ![c] = st] ELSE status

\* startSession: put the session in the map, save Provisioning, run it.
StartSession(c) ==
  \E s \in Sessions :
    /\ Unreferenced(s)
    /\ sessions' = [sessions EXCEPT ![c] = s]
    /\ phase' = [phase EXCEPT ![s] = "provisioning"]
    /\ owner' = [owner EXCEPT ![s] = c]
    /\ stop' = [stop EXCEPT ![s] = "unused"]
    /\ SaveStatus(c, "provisioning")

\* session.stop: stopOnce puts one reason in the channel.
RequestStop(s) ==
  stop' = IF stop[s] = "unused" THEN [stop EXCEPT ![s] = "queued"] ELSE stop

\* cancelRetry: stop the timer and drop the entry.
CancelRetry(c) ==
  retries' = [retries EXCEPT ![c] = NoRetry]

\* resetRetries and forgetCamera drop the entry and leave its timer running.
DropRetry(c) ==
  /\ retries[c].timer = "armed" => due[c] < MaxDue
  /\ retries' = [retries EXCEPT ![c] = NoRetry]
  /\ due' = IF retries[c].timer = "armed" THEN [due EXCEPT ![c] = @ + 1] ELSE due

GaveUp(c) == retries[c].attempts > MaxAutoRetries

\* retryPending: an entry with a timer, whether or not the timer still runs.
RetryPending(c) ==
  /\ retries[c].timer # "nil"
  /\ retries[c].attempts <= MaxAutoRetries

\* Runtime.Destroy: the process and its namespace go away, or the call fails
\* (a timeout, the helper's error) and they stay.
Destroy(c) ==
  \/ /\ proc' = [proc EXCEPT ![c] = "none"]
     /\ UNCHANGED faults
  \/ /\ faults.destroys < MaxDestroyFailures
     /\ faults' = [faults EXCEPT !.destroys = @ + 1]
     /\ UNCHANGED proc

-----------------------------------------------------------------------------
(* A session's run *)

\* prepareStreamsUnlessStopped or stopRequested took the stop.
ProvisionStopped(s) ==
  /\ phase[s] = "provisioning"
  /\ stop[s] = "queued"
  /\ stop' = [stop EXCEPT ![s] = "taken"]
  /\ phase' = [phase EXCEPT ![s] = "stopping"]
  /\ SaveStatus(owner[s], "stopping")
  /\ UNCHANGED <<row, desired, sessions, owner, retryVars, lockVars, reqVars, rec,
                 nodeVars, proc, faults>>

\* The streams are ready and no stop came.
Provisioned(s) ==
  /\ phase[s] = "provisioning"
  /\ stop[s] = "unused"
  /\ Alive
  /\ phase' = [phase EXCEPT ![s] = "launching"]
  /\ UNCHANGED <<storeVars, sessions, owner, stop, retryVars, lockVars, reqVars, rec,
                 nodeVars, proc, faults>>

\* Runtime.Launch succeeds: it refuses a camera it already has.
Launch(s) ==
  /\ phase[s] = "launching"
  /\ Alive
  /\ proc[owner[s]] = "none"
  /\ proc' = [proc EXCEPT ![owner[s]] = "live"]
  /\ phase' = [phase EXCEPT ![s] = "starting"]
  /\ SaveStatus(owner[s], "starting")
  /\ UNCHANGED <<row, desired, sessions, owner, stop, retryVars, lockVars, reqVars, rec,
                 nodeVars, faults>>

\* The camera said hello, and then accepted its configuration.
Handshake(s) ==
  /\ \/ /\ phase[s] = "starting"
        /\ phase' = [phase EXCEPT ![s] = "configuring"]
     \/ /\ phase[s] = "configuring"
        /\ Alive
        /\ phase' = [phase EXCEPT ![s] = "ready"]
  /\ proc[owner[s]] = "live"
  /\ UNCHANGED <<storeVars, sessions, owner, stop, retryVars, lockVars, reqVars, rec,
                 nodeVars, proc, faults>>

\* The ready message, which came before the reply to configure, is read.
BecomeRunning(s) ==
  /\ phase[s] = "ready"
  /\ phase' = [phase EXCEPT ![s] = "running"]
  /\ SaveStatus(owner[s], "running")
  /\ UNCHANGED <<row, desired, sessions, owner, stop, retryVars, lockVars, reqVars, rec,
                 nodeVars, proc, faults>>

\* Up for stableAfter: the next failure counts from one again.
Stable(s) ==
  /\ phase[s] = "running"
  /\ DropRetry(owner[s])
  /\ UNCHANGED <<storeVars, sessionVars, lockVars, reqVars, rec, nodeVars, proc, faults>>

\* One of run's selects takes the stop: gracefulStop begins.  While the
\* configure request is under way nobody reads stopCh.
TakeStop(s) ==
  /\ phase[s] \in {"starting", "ready", "running"}
  /\ stop[s] = "queued"
  /\ stop' = [stop EXCEPT ![s] = "taken"]
  /\ phase' = [phase EXCEPT ![s] = "stopping"]
  /\ SaveStatus(owner[s], "stopping")
  /\ UNCHANGED <<row, desired, sessions, owner, retryVars, lockVars, reqVars, rec,
                 nodeVars, proc, faults>>

\* run's error returns, up to the point where fail has closed the
\* connection: streams, spec, launch, the connection's end, a timeout, a
\* rejected configuration, missed heartbeats.
Fail(s) ==
  /\ phase[s] \in {"provisioning", "launching", "starting", "configuring", "ready", "running"}
  /\ phase' = [phase EXCEPT ![s] = "failing"]
  /\ UNCHANGED <<storeVars, sessions, owner, stop, retryVars, lockVars, reqVars, rec,
                 nodeVars, proc, faults>>

\* Mutant of FinishStop: the runtime is not told to remove the camera.
FinishStopLeavesProcess(s) ==
  /\ phase[s] = "stopping"
  /\ SaveStatus(owner[s], "stopped")
  /\ phase' = [phase EXCEPT ![s] = "ending"]
  /\ UNCHANGED <<row, desired, sessions, owner, stop, retryVars, lockVars, reqVars, rec,
                 nodeVars, proc, faults>>

\* Mutant of FinishStop: the last setState is missing.
FinishStopSavesNothing(s) ==
  /\ phase[s] = "stopping"
  /\ Destroy(owner[s])
  /\ phase' = [phase EXCEPT ![s] = "ending"]
  /\ UNCHANGED <<storeVars, sessions, owner, stop, retryVars, lockVars, reqVars, rec,
                 nodeVars>>

\* The rest of gracefulStop and finishStopped.
FinishStop(s) ==
  /\ phase[s] = "stopping"
  /\ Destroy(owner[s])
  /\ SaveStatus(owner[s], "stopped")
  /\ phase' = [phase EXCEPT ![s] = "ending"]
  /\ UNCHANGED <<row, desired, sessions, owner, stop, retryVars, lockVars, reqVars, rec,
                 nodeVars>>

\* Mutant of FinishFail: the runtime is not told to remove the camera.
FinishFailLeavesProcess(s) ==
  /\ phase[s] = "failing"
  /\ SaveStatus(owner[s], "error")
  /\ phase' = [phase EXCEPT ![s] = "failed"]
  /\ UNCHANGED <<row, desired, sessions, owner, stop, retryVars, lockVars, reqVars, rec,
                 nodeVars, proc, faults>>

\* The rest of fail, up to afterFailure.
FinishFail(s) ==
  /\ phase[s] = "failing"
  /\ Destroy(owner[s])
  /\ SaveStatus(owner[s], "error")
  /\ phase' = [phase EXCEPT ![s] = "failed"]
  /\ UNCHANGED <<row, desired, sessions, owner, stop, retryVars, lockVars, reqVars, rec,
                 nodeVars>>

\* afterFailure reads the camera's row...
ReadDesired(s) ==
  /\ phase[s] = "failed"
  /\ phase' = [phase EXCEPT ![s] =
       IF row[owner[s]] = "present" /\ desired[owner[s]] = "running"
         THEN "retrying" ELSE "ending"]
  /\ UNCHANGED <<storeVars, sessions, owner, stop, retryVars, lockVars, reqVars, rec,
                 nodeVars, proc, faults>>

\* ...and then, in another critical section, counts the failure and arms the
\* timer.  A timer that still ran keeps running unreferenced.
ScheduleRetry(s) ==
  LET c == owner[s]
      n == retries[c].attempts + 1
  IN /\ phase[s] = "retrying"
     /\ phase' = [phase EXCEPT ![s] = "ending"]
     /\ IF n > MaxAutoRetries
          THEN /\ retries' = [retries EXCEPT ![c].attempts = n]
               /\ UNCHANGED due
          ELSE /\ retries[c].timer = "armed" => due[c] < MaxDue
               /\ retries' = [retries EXCEPT ![c] = [attempts |-> n, timer |-> "armed"]]
               /\ due' = IF retries[c].timer = "armed"
                           THEN [due EXCEPT ![c] = @ + 1] ELSE due
     /\ UNCHANGED <<storeVars, sessions, owner, stop, lockVars, reqVars, rec, nodeVars,
                    proc, faults>>

\* run's deferred function: leave the map...
Unmap(s) ==
  /\ phase[s] = "ending"
  /\ sessions' = IF sessions[owner[s]] = s
                   THEN [sessions EXCEPT ![owner[s]] = NoSession] ELSE sessions
  /\ phase' = [phase EXCEPT ![s] = "unmapped"]
  /\ UNCHANGED <<storeVars, owner, stop, retryVars, lockVars, reqVars, rec, nodeVars,
                 proc, faults>>

\* ...and close done.
CloseDone(s) ==
  /\ phase[s] = "unmapped"
  /\ phase' = [phase EXCEPT ![s] = "done"]
  /\ owner' = [owner EXCEPT ![s] = NoCamera]
  /\ stop' = [stop EXCEPT ![s] = "unused"]
  /\ UNCHANGED <<storeVars, sessions, retryVars, lockVars, reqVars, rec, nodeVars,
                 proc, faults>>

\* The camera process exits by itself.  The helper keeps its namespace until
\* it is deleted; the local runtime forgets the process.
CameraExits(c) ==
  /\ proc[c] = "live"
  /\ \E p \in {"exited", "none"} : proc' = [proc EXCEPT ![c] = p]
  /\ UNCHANGED <<storeVars, sessionVars, retryVars, lockVars, reqVars, rec, nodeVars, faults>>

\* A Destroy that timed out for the service ends in the helper after all.
DestroyEnds(c) ==
  /\ proc[c] # "none"
  /\ faults.destroys > 0
  /\ proc' = [proc EXCEPT ![c] = "none"]
  /\ UNCHANGED <<storeVars, sessionVars, retryVars, lockVars, reqVars, rec, nodeVars, faults>>

-----------------------------------------------------------------------------
(* Automatic starts *)

\* The timer of retries[c] fires: its goroutine calls retryStart.  RetryBackoff
\* is two seconds at least, and the session that armed the timer has only
\* s.mu to take before it has left the map.
FireTimer(c) ==
  /\ retries[c].timer = "armed"
  /\ \A s \in Sessions : owner[s] = c => phase[s] # "ending"
  /\ due[c] < MaxDue
  /\ retries' = [retries EXCEPT ![c].timer = "spent"]
  /\ due' = [due EXCEPT ![c] = @ + 1]
  /\ UNCHANGED <<storeVars, sessionVars, lockVars, reqVars, rec, nodeVars, proc, faults>>

\* Mutant of RetryLock: the desired state is not read again.
RetryLockStale(c, me, begins) ==
  /\ lock[c] = Unlocked
  /\ opLocks' = opLocks \cup {c}
  /\ begins = (sessions[c] = NoSession /\ Alive /\ row[c] = "present")
  /\ lock' = IF begins THEN [lock EXCEPT ![c] = me] ELSE lock
  /\ UNCHANGED <<storeVars, sessionVars, retries, reqVars, nodeVars, proc, faults>>

\* retryStart takes the camera's opLock and checks the session and the row
\* again.  It checks neither closing nor the retry count.  Once baseCtx is
\* cancelled the row cannot be read.
RetryLock(c, me, begins) ==
  /\ lock[c] = Unlocked
  /\ opLocks' = opLocks \cup {c}
  /\ begins = (sessions[c] = NoSession /\ Alive /\ row[c] = "present" /\ desired[c] = "running")
  /\ lock' = IF begins THEN [lock EXCEPT ![c] = me] ELSE lock
  /\ UNCHANGED <<storeVars, sessionVars, retries, reqVars, nodeVars, proc, faults>>

\* The rest of retryStart: admission, then the session; a refusal is stored as
\* an error.
RetryFinish(c) ==
  /\ \/ /\ StartSession(c)
        /\ UNCHANGED faults
     \/ /\ faults.rejects < MaxRejects
        /\ faults' = [faults EXCEPT !.rejects = @ + 1]
        /\ SaveStatus(c, "error")
        /\ UNCHANGED sessionVars
     \/ /\ ~Alive
        /\ UNCHANGED <<status, sessionVars, faults>>
  /\ lock' = [lock EXCEPT ![c] = Unlocked]
  /\ UNCHANGED <<row, desired, retryVars, opLocks, reqVars, nodeVars, proc>>

\* Mutant of TimerLock: a timer that was not armed fires.
TimerLockAlways(c) ==
  /\ due' = [due EXCEPT ![c] = @ - 1]
  /\ \E begins \in BOOLEAN : RetryLock(c, Timer, begins)
  /\ UNCHANGED rec

\* A timer's goroutine runs retryStart.
TimerLock(c) ==
  /\ due[c] > 0
  /\ due' = [due EXCEPT ![c] = @ - 1]
  /\ \E begins \in BOOLEAN : RetryLock(c, Timer, begins)
  /\ UNCHANGED rec

TimerStart(c) ==
  /\ lock[c] = Timer
  /\ RetryFinish(c)
  /\ UNCHANGED rec

-----------------------------------------------------------------------------
(* The reconciler *)

\* Reconcile lists the cameras.
RecList ==
  /\ node \in {"up", "closing"}
  /\ rec.pc = "idle"
  /\ rec' = [rec EXCEPT !.pc = "cameras",
                        !.todo = {<<c, desired[c]>> : c \in {d \in Cameras : row[d] = "present"}}]
  /\ UNCHANGED <<storeVars, sessionVars, retryVars, lockVars, reqVars, nodeVars, proc, faults>>

\* Mutant of RecVisit: the reconciler starts nothing.
RecVisitOnlyStops ==
  /\ rec.pc = "cameras"
  /\ \E cd \in rec.todo :
       LET c == cd[1]
           begins == FALSE
       IN /\ rec' = [rec EXCEPT !.todo = @ \ {cd},
                                !.pc  = IF begins THEN "retry" ELSE rec.pc,
                                !.cam = IF begins THEN c ELSE rec.cam]
          /\ IF cd[2] = "stopped" /\ sessions[c] # NoSession
               THEN RequestStop(sessions[c]) ELSE UNCHANGED stop
  /\ UNCHANGED <<storeVars, sessions, phase, owner, retryVars, lockVars, reqVars, nodeVars,
                 proc, faults>>

\* One camera of the list, with the desired state it had when listed.
RecVisit ==
  /\ rec.pc = "cameras"
  /\ \E cd \in rec.todo :
       LET c == cd[1]
           begins == cd[2] = "running" /\ sessions[c] = NoSession
                       /\ ~RetryPending(c) /\ ~GaveUp(c)
       IN /\ rec' = [rec EXCEPT !.todo = @ \ {cd},
                                !.pc  = IF begins THEN "retry" ELSE rec.pc,
                                !.cam = IF begins THEN c ELSE rec.cam]
          /\ IF cd[2] = "stopped" /\ sessions[c] # NoSession
               THEN RequestStop(sessions[c]) ELSE UNCHANGED stop
  /\ UNCHANGED <<storeVars, sessions, phase, owner, retryVars, lockVars, reqVars, nodeVars,
                 proc, faults>>

\* Reconcile runs retryStart for a camera that should run.
RecLock ==
  /\ rec.pc = "retry"
  /\ \E begins \in BOOLEAN :
       /\ RetryLock(rec.cam, Reconciler, begins)
       /\ rec' = IF begins THEN [rec EXCEPT !.pc = "start"]
                           ELSE [rec EXCEPT !.pc = "cameras", !.cam = NoCamera]
  /\ UNCHANGED due

RecStart ==
  /\ rec.pc = "start"
  /\ RetryFinish(rec.cam)
  /\ rec' = [rec EXCEPT !.pc = "cameras", !.cam = NoCamera]

\* Runtime.Live.
RecLive ==
  /\ rec.pc = "cameras"
  /\ rec.todo = {}
  /\ rec' = [rec EXCEPT !.pc = "orphans", !.live = {c \in Cameras : proc[c] # "none"}]
  /\ UNCHANGED <<storeVars, sessionVars, retryVars, lockVars, reqVars, nodeVars, proc, faults>>

\* Mutant of RecOrphan: only a camera without a row is an orphan.
RecOrphanUnknown ==
  /\ rec.pc = "orphans"
  /\ \E c \in rec.live :
       rec' = [rec EXCEPT !.live = @ \ {c},
                          !.pc  = IF sessions[c] = NoSession /\ row[c] # "present" THEN "destroy" ELSE rec.pc,
                          !.cam = IF sessions[c] = NoSession /\ row[c] # "present" THEN c ELSE rec.cam]
  /\ UNCHANGED <<storeVars, sessionVars, retryVars, lockVars, reqVars, nodeVars, proc, faults>>

\* A live camera: an orphan when it has no session now.
RecOrphan ==
  /\ rec.pc = "orphans"
  /\ \E c \in rec.live :
       rec' = [rec EXCEPT !.live = @ \ {c},
                          !.pc  = IF sessions[c] = NoSession THEN "destroy" ELSE rec.pc,
                          !.cam = IF sessions[c] = NoSession THEN c ELSE rec.cam]
  /\ UNCHANGED <<storeVars, sessionVars, retryVars, lockVars, reqVars, nodeVars, proc, faults>>

RecDestroy ==
  /\ rec.pc = "destroy"
  /\ Destroy(rec.cam)
  /\ rec' = [rec EXCEPT !.pc = "orphans", !.cam = NoCamera]
  /\ UNCHANGED <<storeVars, sessionVars, retryVars, lockVars, reqVars, nodeVars>>

RecEnd ==
  /\ rec.pc = "orphans"
  /\ rec.live = {}
  /\ rec' = IdleReconciler
  /\ UNCHANGED <<storeVars, sessionVars, retryVars, lockVars, reqVars, nodeVars, proc, faults>>

-----------------------------------------------------------------------------
(* API requests *)

\* CreateCamera writes the row: stopped, and wanted stopped.  Its Start option
\* is a StartCamera that follows.
CreateCamera(c) ==
  /\ Serving
  /\ row[c] = "absent"
  /\ row' = [row EXCEPT ![c] = "present"]
  /\ UNCHANGED <<desired, status, sessionVars, retryVars, lockVars, reqVars, rec, nodeVars,
                 proc, faults>>

\* StartCamera up to setDesired.  An unknown camera is an error, and so is a
\* refusal of admission, which is asked when there is no session; the lock's
\* map entry stays.
StartCamera(r, c) ==
  /\ Serving
  /\ pc[r] = "idle"
  /\ lock[c] = Unlocked
  /\ opLocks' = opLocks \cup {c}
  /\ \/ /\ row[c] = "present"
        /\ lock' = [lock EXCEPT ![c] = r]
        /\ desired' = [desired EXCEPT ![c] = "running"]
        /\ pc' = [pc EXCEPT ![r] = "start"]
        /\ cam' = [cam EXCEPT ![r] = c]
     \/ /\ row[c] # "present" \/ sessions[c] = NoSession
        /\ UNCHANGED <<lock, desired, pc, cam>>
  /\ UNCHANGED <<row, status, sessionVars, retryVars, wait, rec, nodeVars, proc, faults>>

\* A request returns: its deferred Unlock runs.
Return(r) ==
  /\ lock' = [lock EXCEPT ![cam[r]] = Unlocked]
  /\ pc' = [pc EXCEPT ![r] = "idle"]
  /\ cam' = [cam EXCEPT ![r] = NoCamera]
  /\ wait' = [wait EXCEPT ![r] = NoSession]

\* Mutant of StartFinish: the session is not looked up again.
StartFinishUnchecked(r) ==
  /\ pc[r] = "start"
  /\ CancelRetry(cam[r])
  /\ StartSession(cam[r])
  /\ Return(r)
  /\ UNCHANGED <<row, desired, due, opLocks, rec, nodeVars, proc, faults>>

\* The rest of StartCamera: cancelRetry, and a session unless there is one.
StartFinish(r) ==
  /\ pc[r] = "start"
  /\ CancelRetry(cam[r])
  /\ IF sessions[cam[r]] = NoSession
       THEN StartSession(cam[r]) ELSE UNCHANGED <<status, sessionVars>>
  /\ Return(r)
  /\ UNCHANGED <<row, desired, due, opLocks, rec, nodeVars, proc, faults>>

\* StopCamera up to setDesired.
StopCamera(r, c) ==
  /\ Serving
  /\ pc[r] = "idle"
  /\ lock[c] = Unlocked
  /\ opLocks' = opLocks \cup {c}
  /\ IF row[c] = "present"
       THEN /\ lock' = [lock EXCEPT ![c] = r]
            /\ desired' = [desired EXCEPT ![c] = "stopped"]
            /\ pc' = [pc EXCEPT ![r] = "stop.signal"]
            /\ cam' = [cam EXCEPT ![r] = c]
       ELSE UNCHANGED <<lock, desired, pc, cam>>
  /\ UNCHANGED <<row, status, sessionVars, retryVars, wait, rec, nodeVars, proc, faults>>

\* Mutant of SignalSession: the session is waited for and not asked to stop.
SignalNobody(r, alone, waits) ==
  /\ CancelRetry(cam[r])
  /\ IF sessions[cam[r]] = NoSession
       THEN /\ pc' = [pc EXCEPT ![r] = alone]
            /\ UNCHANGED <<stop, wait>>
       ELSE /\ UNCHANGED stop
            /\ wait' = [wait EXCEPT ![r] = sessions[cam[r]]]
            /\ pc' = [pc EXCEPT ![r] = waits]

\* cancelRetry, then the session is asked to stop and waited for.
SignalSession(r, alone, waits) ==
  /\ CancelRetry(cam[r])
  /\ IF sessions[cam[r]] = NoSession
       THEN /\ pc' = [pc EXCEPT ![r] = alone]
            /\ UNCHANGED <<stop, wait>>
       ELSE /\ RequestStop(sessions[cam[r]])
            /\ wait' = [wait EXCEPT ![r] = sessions[cam[r]]]
            /\ pc' = [pc EXCEPT ![r] = waits]

StopSignal(r) ==
  /\ pc[r] = "stop.signal"
  /\ SignalSession(r, "stop.destroy", "stop.wait")
  /\ UNCHANGED <<storeVars, sessions, phase, owner, due, lockVars, cam, rec, nodeVars, proc,
                 faults>>

\* The session ended: StopCamera succeeds.
StopReturn(r) ==
  /\ pc[r] = "stop.wait"
  /\ Ended(wait[r])
  /\ Return(r)
  /\ UNCHANGED <<storeVars, sessionVars, retryVars, opLocks, rec, nodeVars, proc, faults>>

\* The client went away first: StopCamera returns ctx.Err().
StopAbandon(r) ==
  /\ pc[r] = "stop.wait"
  /\ ~Ended(wait[r])
  /\ Return(r)
  /\ UNCHANGED <<storeVars, sessionVars, retryVars, opLocks, rec, nodeVars, proc, faults>>

\* There was no session: destroy what the runtime may still have.
StopDestroy(r) ==
  /\ pc[r] = "stop.destroy"
  /\ Destroy(cam[r])
  /\ SaveStatus(cam[r], "stopped")
  /\ Return(r)
  /\ UNCHANGED <<row, desired, sessionVars, retryVars, opLocks, rec, nodeVars>>

\* DeleteCamera reads the row before it takes the lock.
DeleteCamera(r, c) ==
  /\ Serving
  /\ pc[r] = "idle"
  /\ row[c] = "present"
  /\ pc' = [pc EXCEPT ![r] = "delete.lock"]
  /\ cam' = [cam EXCEPT ![r] = c]
  /\ opLocks' = opLocks \cup {c}
  /\ UNCHANGED <<storeVars, sessionVars, retryVars, lock, wait, rec, nodeVars, proc, faults>>

DeleteSignal(r) ==
  /\ pc[r] = "delete.lock"
  /\ lock[cam[r]] = Unlocked
  /\ lock' = [lock EXCEPT ![cam[r]] = r]
  /\ SignalSession(r, "delete.destroy", "delete.wait")
  /\ UNCHANGED <<storeVars, sessions, phase, owner, due, opLocks, cam, rec, nodeVars, proc,
                 faults>>

DeleteWait(r) ==
  /\ pc[r] = "delete.wait"
  /\ Ended(wait[r])
  /\ pc' = [pc EXCEPT ![r] = "delete.destroy"]
  /\ wait' = [wait EXCEPT ![r] = NoSession]
  /\ UNCHANGED <<storeVars, sessionVars, retryVars, lockVars, cam, rec, nodeVars, proc, faults>>

\* Destroy, delete the row with what hangs from it, and unlock.
DeleteRow(r) ==
  /\ pc[r] = "delete.destroy"
  /\ Destroy(cam[r])
  /\ row' = [row EXCEPT ![cam[r]] = "deleted"]
  /\ desired' = [desired EXCEPT ![cam[r]] = "stopped"]
  /\ status' = [status EXCEPT ![cam[r]] = "stopped"]
  /\ lock' = [lock EXCEPT ![cam[r]] = Unlocked]
  /\ pc' = [pc EXCEPT ![r] = "delete.forget"]
  /\ UNCHANGED <<sessionVars, retryVars, opLocks, cam, wait, rec, nodeVars>>

\* The row could not be deleted (the client went away while its session was
\* stopped): the camera stays, and forgetCamera leaves it alone.
DeleteFails(r) ==
  /\ pc[r] = "delete.destroy"
  /\ Destroy(cam[r])
  /\ Return(r)
  /\ UNCHANGED <<storeVars, sessionVars, retryVars, opLocks, rec, nodeVars>>

\* The deferred forgetCamera.
ForgetCamera(r) ==
  /\ pc[r] = "delete.forget"
  /\ DropRetry(cam[r])
  /\ opLocks' = opLocks \ {cam[r]}
  /\ pc' = [pc EXCEPT ![r] = "idle"]
  /\ cam' = [cam EXCEPT ![r] = NoCamera]
  /\ UNCHANGED <<storeVars, sessionVars, lock, wait, rec, nodeVars, proc, faults>>

-----------------------------------------------------------------------------
(* The node *)

\* bootCameras lists the cameras of the store.
BootList ==
  /\ node = "down"
  /\ node' = "booting"
  /\ toBoot' = {c \in Cameras : row[c] = "present"}
  /\ UNCHANGED <<storeVars, sessionVars, retryVars, lockVars, reqVars, rec, awaited, proc, faults>>

\* bootCameras, one camera: no opLock is taken, and a row deleted meanwhile
\* is left alone.
BootCamera(c) ==
  /\ node = "booting"
  /\ c \in toBoot
  /\ toBoot' = toBoot \ {c}
  /\ desired' = IF row[c] = "present"
                  THEN [desired EXCEPT ![c] = IF c \in Autostart THEN "running" ELSE "stopped"]
                  ELSE desired
  /\ SaveStatus(c, "stopped")
  /\ UNCHANGED <<row, sessionVars, retryVars, lockVars, reqVars, rec, node, awaited, proc, faults>>

\* The background loops start.
BootDone ==
  /\ node = "booting"
  /\ toBoot = {}
  /\ node' = "up"
  /\ UNCHANGED <<storeVars, sessionVars, retryVars, lockVars, reqVars, rec, toBoot, awaited,
                 proc, faults>>

\* Mutant of Shutdown: the sessions are waited for and not asked to stop.
ShutdownOnlyWaits ==
  /\ node = "up"
  /\ faults.stops < MaxStops
  /\ faults' = [faults EXCEPT !.stops = @ + 1]
  /\ node' = "closing"
  /\ awaited' = {s \in Sessions : \E c \in Cameras : sessions[c] = s}
  /\ retries' = [c \in Cameras |->
                   IF retries[c].timer = "armed"
                     THEN [retries[c] EXCEPT !.timer = "spent"] ELSE retries[c]]
  /\ UNCHANGED <<storeVars, sessions, stop, phase, owner, due, lockVars, reqVars, rec, toBoot, proc>>

\* shutdown: set closing, stop the timers of the retries and the sessions
\* that are in the map.
Shutdown ==
  /\ node = "up"
  /\ faults.stops < MaxStops
  /\ faults' = [faults EXCEPT !.stops = @ + 1]
  /\ node' = "closing"
  /\ awaited' = {s \in Sessions : \E c \in Cameras : sessions[c] = s}
  /\ stop' = [s \in Sessions |->
                IF (\E c \in Cameras : sessions[c] = s) /\ stop[s] = "unused"
                  THEN "queued" ELSE stop[s]]
  /\ retries' = [c \in Cameras |->
                   IF retries[c].timer = "armed"
                     THEN [retries[c] EXCEPT !.timer = "spent"] ELSE retries[c]]
  /\ UNCHANGED <<storeVars, sessions, phase, owner, due, lockVars, reqVars, rec, toBoot, proc>>

\* Every session of the snapshot ended: s.cancel().
CancelBase ==
  /\ node = "closing"
  /\ \A s \in awaited : Ended(s)
  /\ node' = "cancelled"
  /\ awaited' = {}
  /\ UNCHANGED <<storeVars, sessionVars, retryVars, lockVars, reqVars, rec, toBoot, proc, faults>>

\* s.wg.Wait returned, and so does Run.
RunReturns ==
  /\ node = "cancelled"
  /\ rec.pc = "idle"
  /\ node' = "returned"
  /\ UNCHANGED <<storeVars, sessionVars, retryVars, lockVars, reqVars, rec, toBoot, awaited,
                 proc, faults>>

\* The process ends: memory is lost, and the cameras die with the helper.
ForgetMemory ==
  /\ node' = "down"
  /\ sessions' = [c \in Cameras |-> NoSession]
  /\ phase' = [s \in Sessions |-> "done"]
  /\ owner' = [s \in Sessions |-> NoCamera]
  /\ stop' = [s \in Sessions |-> "unused"]
  /\ retries' = [c \in Cameras |-> NoRetry]
  /\ due' = [c \in Cameras |-> 0]
  /\ opLocks' = {}
  /\ lock' = [c \in Cameras |-> Unlocked]
  /\ pc' = [r \in Requests |-> "idle"]
  /\ cam' = [r \in Requests |-> NoCamera]
  /\ wait' = [r \in Requests |-> NoSession]
  /\ rec' = IdleReconciler
  /\ toBoot' = {}
  /\ awaited' = {}
  /\ proc' = [c \in Cameras |-> "none"]
  /\ UNCHANGED storeVars

Exit ==
  /\ node = "returned"
  /\ ForgetMemory
  /\ UNCHANGED faults

Crash ==
  /\ node \in {"booting", "up", "closing", "cancelled"}
  /\ faults.stops < MaxStops
  /\ faults' = [faults EXCEPT !.stops = @ + 1]
  /\ ForgetMemory

-----------------------------------------------------------------------------
(* Specification *)

\* A node that has just been started, with some cameras in its store.
Init ==
  /\ row \in [Cameras -> {"absent", "present"}]
  /\ desired = [c \in Cameras |-> "stopped"]
  /\ status = [c \in Cameras |-> "stopped"]
  /\ sessions = [c \in Cameras |-> NoSession]
  /\ phase = [s \in Sessions |-> "done"]
  /\ owner = [s \in Sessions |-> NoCamera]
  /\ stop = [s \in Sessions |-> "unused"]
  /\ retries = [c \in Cameras |-> NoRetry]
  /\ due = [c \in Cameras |-> 0]
  /\ opLocks = {}
  /\ lock = [c \in Cameras |-> Unlocked]
  /\ pc = [r \in Requests |-> "idle"]
  /\ cam = [r \in Requests |-> NoCamera]
  /\ wait = [r \in Requests |-> NoSession]
  /\ rec = IdleReconciler
  /\ node = "down"
  /\ toBoot = {}
  /\ awaited = {}
  /\ proc = [c \in Cameras |-> "none"]
  /\ faults = [stops |-> 0, rejects |-> 0, destroys |-> 0]

SessionNext(s) ==
  \/ ProvisionStopped(s) \/ Provisioned(s) \/ Launch(s) \/ Handshake(s) \/ BecomeRunning(s)
  \/ Stable(s) \/ TakeStop(s) \/ Fail(s) \/ FinishStop(s) \/ FinishFail(s)
  \/ ReadDesired(s) \/ ScheduleRetry(s) \/ Unmap(s) \/ CloseDone(s)

RequestNext(r) ==
  \/ \E c \in Cameras : StartCamera(r, c) \/ StopCamera(r, c) \/ DeleteCamera(r, c)
  \/ StartFinish(r) \/ StopSignal(r) \/ StopReturn(r) \/ StopAbandon(r) \/ StopDestroy(r)
  \/ DeleteSignal(r) \/ DeleteWait(r) \/ DeleteRow(r) \/ DeleteFails(r) \/ ForgetCamera(r)

CameraNext(c) ==
  CameraExits(c) \/ DestroyEnds(c) \/ FireTimer(c) \/ TimerLock(c) \/ TimerStart(c)
    \/ CreateCamera(c) \/ BootCamera(c)

RecNext ==
  RecList \/ RecVisit \/ RecLock \/ RecStart \/ RecLive \/ RecOrphan \/ RecDestroy \/ RecEnd

NodeNext ==
  BootList \/ BootDone \/ Shutdown \/ CancelBase \/ RunReturns \/ Exit \/ Crash

Next ==
  \/ \E s \in Sessions : SessionNext(s)
  \/ \E r \in Requests : RequestNext(r)
  \/ \E c \in Cameras : CameraNext(c)
  \/ RecNext
  \/ NodeNext

Spec == Init /\ [][Next]_vars

\* What a session does unless its camera runs well: every wait of run has a
\* timeout.
Advance(s) ==
  \/ ProvisionStopped(s) \/ Provisioned(s) \/ Launch(s) \/ Handshake(s) \/ BecomeRunning(s)
  \/ TakeStop(s) \/ FinishStop(s) \/ FinishFail(s) \/ ReadDesired(s) \/ ScheduleRetry(s)
  \/ Unmap(s) \/ CloseDone(s)
  \/ Fail(s) /\ (phase[s] # "running" \/ proc[owner[s]] # "live" \/ ~Alive)

\* What a request does once it holds its lock.
Proceed(r) ==
  StartFinish(r) \/ StopSignal(r) \/ StopReturn(r) \/ StopDestroy(r)
    \/ DeleteWait(r) \/ DeleteRow(r) \/ DeleteFails(r) \/ ForgetCamera(r)

\* Goroutines run, timers fire, the ticker of the reconciler ticks, and
\* sync.Mutex starves nobody.
Fairness ==
  /\ \A s \in Sessions : WF_vars(Advance(s))
  /\ \A r \in Requests : WF_vars(Proceed(r)) /\ SF_vars(DeleteSignal(r))
  /\ \A c \in Cameras : /\ WF_vars(FireTimer(c)) /\ SF_vars(TimerLock(c))
                        /\ WF_vars(TimerStart(c)) /\ WF_vars(BootCamera(c))
  /\ WF_vars(RecNext) /\ SF_vars(RecLock)
  /\ WF_vars(BootList \/ BootDone \/ CancelBase \/ RunReturns \/ Exit)

FairSpec == Spec /\ Fairness

-----------------------------------------------------------------------------
(* Properties *)

\* The session is between startSession and its removal from the map.
Mapped(s) == phase[s] \notin {"unmapped", "done"}

\* A camera never has two sessions at work: whatever interleaving of
\* requests, timers and the reconciler calls startSession, every session
\* whose run has not ended is the one the sessions map holds for its camera.
OneSession ==
  \A s \in Sessions : Mapped(s) => owner[s] \in Cameras /\ sessions[owner[s]] = s

\* As long as no Destroy has failed, a process or namespace belongs to the
\* session that launched it: no path of run, StopCamera, DeleteCamera or
\* Reconcile leaves one behind.
NoOrphan ==
  faults.destroys = 0 =>
    \A c \in Cameras : proc[c] # "none" =>
      /\ sessions[c] # NoSession
      /\ phase[sessions[c]] \in {"starting", "configuring", "ready", "running", "stopping", "failing"}

\* The stored status of a camera without a session is a settled one (stopped
\* or error) once bootCameras has handled it: no late setState of an old
\* session overwrites the outcome.
StatusSettles ==
  \A c \in Cameras :
    (node # "down" /\ c \notin toBoot /\ sessions[c] = NoSession)
      => status[c] \in {"stopped", "error"}

\* A camera is started only while it is wanted running: a stop that has been
\* stored is never undone by a retry timer or by a reconciler pass that read
\* the row earlier.  bootCameras writes the desired state without the opLock,
\* and for cameras without autostart it may do so in between (see
\* NoneRunsAtBoot).
StartsOnlyWhenDesired ==
  [][\A c \in Autostart :
       (sessions[c] = NoSession /\ sessions'[c] # NoSession) => desired[c] = "running"]_vars

\* StopCamera "waits until its namespace is gone": when it succeeds the camera
\* has no session and, unless a Destroy failed, neither process nor namespace.
StopLeavesNothing ==
  [][\A r \in Requests :
       LET c == cam[r] IN
       ((pc[r] = "stop.destroy" \/ (pc[r] = "stop.wait" /\ Ended(wait[r])))
          /\ pc'[r] = "idle" /\ node' # "down")
         => /\ sessions'[c] = NoSession
            /\ faults'.destroys = 0 => proc'[c] = "none"
            /\ status'[c] \in {"stopped", "error"}]_vars

\* Every request returns: StopCamera and DeleteCamera, which hold the opLock
\* while they wait for a session, neither deadlock with it nor with the
\* retries and the reconciler that queue for the lock.
RequestsReturn ==
  \A r \in Requests : pc[r] # "idle" ~> pc[r] = "idle"

\* retryPending is true for a timer that has fired, so an automatic start
\* that did not happen leaves the camera waiting for nothing.
StuckRetry(c) == sessions[c] = NoSession /\ retries[c].timer = "spent" /\ ~GaveUp(c)

\* The node is up, the camera is wanted running and nobody touches it.
LeftToRun(c) ==
  /\ node = "up"
  /\ row[c] = "present"
  /\ desired[c] = "running"
  /\ \A r \in Requests : pc[r] = "idle"

\* The camera's session is in run's supervision loop.
Runs(c) == sessions[c] # NoSession /\ phase[sessions[c]] = "running"

\* What the user asked for is reached: a camera wanted running and left alone
\* runs again and again, or gives up after its retries.  The reconciler
\* "starts what should run".
DesiredIsReached ==
  \A c \in Cameras :
    <>[]LeftToRun(c) => []<>(Runs(c) \/ GaveUp(c))

\* The same, save for a camera left behind a spent timer.
DesiredIsReachedUnlessStuck ==
  \A c \in Cameras :
    <>[]LeftToRun(c) => []<>(Runs(c) \/ GaveUp(c) \/ StuckRetry(c))

\* A process whose session is gone, because a Destroy failed, is removed by a
\* later pass of the reconciler.
OrphansRemoved ==
  \A c \in Cameras :
    (node = "up" /\ proc[c] # "none" /\ sessions[c] = NoSession)
      ~> (proc[c] = "none" \/ sessions[c] # NoSession \/ node # "up")

\* A shutdown ends: no session, request or reconciler pass keeps Run waiting.
ShutdownEnds == node = "closing" ~> node = "down"

\* Run "blocks until ctx is done, then stops every camera": when it returns no
\* session is left.
RunStopsEveryCamera ==
  node = "returned" => \A c \in Cameras : sessions[c] = NoSession
=============================================================================
