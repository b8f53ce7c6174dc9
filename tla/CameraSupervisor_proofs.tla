----------------------- MODULE CameraSupervisor_proofs -----------------------
(***************************************************************************)
(* Theorems about CameraSupervisor, for any set of cameras, sessions and   *)
(* requests and any bounds.                                                *)
(***************************************************************************)
EXTENDS CameraSupervisor, TLAPS

-----------------------------------------------------------------------------
(* Types *)

\* A session, a request at work and a reconciler about to act name a camera.
Targets ==
  /\ \A s \in Sessions : phase[s] # "done" => owner[s] \in Cameras
  /\ \A r \in Requests : pc[r] # "idle" => cam[r] \in Cameras
  /\ rec.pc \in {"retry", "start", "destroy"} => rec.cam \in Cameras

Typed == TypeOK /\ Targets

\* The initial state is typed.
LEMMA TypedInit == Init => Typed
  BY SupervisorAssumption
  DEF Init, Typed, Targets, TypeOK, Desired, CameraState, Phase, PC, RetryState, RecState,
      NodePhase, Faults, NoRetry, IdleReconciler

\* Destroy keeps the types of what it changes.
LEMMA DestroyTyped ==
  ASSUME TypeOK, NEW c \in Cameras, Destroy(c)
  PROVE  /\ proc' \in [Cameras -> {"none", "live", "exited"}]
         /\ faults' \in Faults
<1>1. CASE proc' = [proc EXCEPT ![c] = "none"] /\ UNCHANGED faults
  BY <1>1 DEF TypeOK
<1>2. CASE faults' = [faults EXCEPT !.destroys = @ + 1] /\ UNCHANGED proc
  <2>1. faults.destroys + 1 \in Nat BY DEF TypeOK, Faults
  <2> QED BY <1>2, <2>1 DEF TypeOK, Faults
<1> QED BY <1>1, <1>2 DEF Destroy

\* DropRetry keeps the types of what it changes.
LEMMA DropRetryTyped ==
  ASSUME TypeOK, NEW c \in Cameras, DropRetry(c)
  PROVE  /\ retries' \in [Cameras -> RetryState]
         /\ due' \in [Cameras -> Nat]
<1>1. due[c] + 1 \in Nat BY DEF TypeOK
<1> QED BY <1>1 DEF TypeOK, RetryState, DropRetry, NoRetry

\* Every step of a session's run keeps the types.
LEMMA TypedSession ==
  ASSUME Typed, NEW s \in Sessions, SessionNext(s)
  PROVE  Typed'
<1> USE SupervisorAssumption
    DEF Typed, Targets, TypeOK, Desired, CameraState, Phase, PC, RetryState, RecState,
        NodePhase, Faults, storeVars, sessionVars, retryVars, lockVars, reqVars, nodeVars,
        SaveStatus
<1>1. CASE ProvisionStopped(s) BY <1>1 DEF ProvisionStopped
<1>2. CASE Provisioned(s) BY <1>2 DEF Provisioned
<1>3. CASE Launch(s) BY <1>3 DEF Launch
<1>4. CASE Handshake(s)
  <2>1. \E p \in {"configuring", "ready"} : phase' = [phase EXCEPT ![s] = p]
    BY <1>4 DEF Handshake
  <2>2. phase[s] # "done" BY <1>4 DEF Handshake
  <2> QED BY <1>4, <2>1, <2>2 DEF Handshake
<1>5. CASE BecomeRunning(s) BY <1>5 DEF BecomeRunning
<1>6. CASE Stable(s) BY <1>6, DropRetryTyped DEF Stable
<1>7. CASE TakeStop(s) BY <1>7 DEF TakeStop
<1>8. CASE Fail(s) BY <1>8 DEF Fail
<1>9. CASE FinishStop(s) BY <1>9, DestroyTyped DEF FinishStop
<1>10. CASE FinishFail(s) BY <1>10, DestroyTyped DEF FinishFail
<1>11. CASE ReadDesired(s) BY <1>11 DEF ReadDesired
<1>12. CASE ScheduleRetry(s)
  <2> DEFINE c == owner[s]
             n == retries[c].attempts + 1
  <2>1. c \in Cameras BY <1>12 DEF ScheduleRetry
  <2>2. n \in Nat /\ due[c] + 1 \in Nat BY <2>1
  <2>3. \/ retries' = [retries EXCEPT ![c].attempts = n]
        \/ retries' = [retries EXCEPT ![c] = [attempts |-> n, timer |-> "armed"]]
    BY <1>12 DEF ScheduleRetry
  <2>5. retries' \in [Cameras -> RetryState]
    <3>1. CASE retries' = [retries EXCEPT ![c].attempts = n]
      BY <3>1, <2>1, <2>2
    <3>2. CASE retries' = [retries EXCEPT ![c] = [attempts |-> n, timer |-> "armed"]]
      BY <3>2, <2>1, <2>2
    <3> QED BY <2>3, <3>1, <3>2
  <2>4. due' \in [Cameras -> Nat]
    BY <1>12, <2>1, <2>2 DEF ScheduleRetry
  <2> QED BY <1>12, <2>5, <2>4 DEF ScheduleRetry
<1>13. CASE Unmap(s) BY <1>13 DEF Unmap
<1>14. CASE CloseDone(s) BY <1>14 DEF CloseDone
<1> QED BY <1>1, <1>2, <1>3, <1>4, <1>5, <1>6, <1>7, <1>8, <1>9, <1>10, <1>11, <1>12,
           <1>13, <1>14 DEF SessionNext

\* startSession keeps the types of what it changes.
LEMMA StartSessionTyped ==
  ASSUME Typed, NEW c \in Cameras, StartSession(c)
  PROVE  /\ sessions' \in [Cameras -> Sessions \cup {NoSession}]
         /\ phase' \in [Sessions -> Phase]
         /\ owner' \in [Sessions -> Cameras \cup {NoCamera}]
         /\ stop' \in [Sessions -> {"unused", "queued", "taken"}]
         /\ status' \in [Cameras -> CameraState]
         /\ \A s \in Sessions : phase'[s] # "done" => owner'[s] \in Cameras
  BY DEF Typed, Targets, TypeOK, StartSession, SaveStatus, Phase, CameraState

\* Asking the session of a camera to stop keeps the types.
LEMMA SignalTyped ==
  ASSUME Typed, NEW r \in Requests, cam[r] \in Cameras,
         NEW alone \in PC, NEW waits \in PC, SignalSession(r, alone, waits)
  PROVE  /\ retries' \in [Cameras -> RetryState]
         /\ stop' \in [Sessions -> {"unused", "queued", "taken"}]
         /\ wait' \in [Requests -> Sessions \cup {NoSession}]
         /\ pc' \in [Requests -> PC]
         /\ \A q \in Requests : q # r => pc'[q] = pc[q]
<1> DEFINE s == sessions[cam[r]]
<1>1. retries' \in [Cameras -> RetryState]
  BY DEF Typed, TypeOK, SignalSession, CancelRetry, NoRetry, RetryState
<1>2. CASE s = NoSession
  BY <1>1, <1>2 DEF Typed, TypeOK, SignalSession
<1>3. CASE s # NoSession
  <2>1. s \in Sessions BY <1>3 DEF Typed, TypeOK
  <2>2. stop' \in [Sessions -> {"unused", "queued", "taken"}]
    BY <1>3, <2>1 DEF Typed, TypeOK, SignalSession, RequestStop
  <2> QED BY <1>1, <1>3, <2>1, <2>2 DEF Typed, TypeOK, SignalSession
<1> QED BY <1>2, <1>3

\* Every step of a request keeps the types.
LEMMA TypedRequest ==
  ASSUME Typed, NEW r \in Requests, RequestNext(r)
  PROVE  Typed'
<1> USE SupervisorAssumption
    DEF Typed, Targets, TypeOK, Desired, CameraState, storeVars, sessionVars, retryVars,
        lockVars, reqVars, nodeVars
<1>1. ASSUME NEW c \in Cameras, StartCamera(r, c) PROVE Typed' BY <1>1 DEF StartCamera, PC
<1>2. ASSUME NEW c \in Cameras, StopCamera(r, c) PROVE Typed' BY <1>2 DEF StopCamera, PC
<1>3. ASSUME NEW c \in Cameras, DeleteCamera(r, c) PROVE Typed' BY <1>3 DEF DeleteCamera, PC
<1>4. CASE StartFinish(r)
  <2>1. cam[r] \in Cameras BY <1>4 DEF StartFinish
  <2>2. retries' \in [Cameras -> RetryState]
    BY <1>4 DEF StartFinish, CancelRetry, NoRetry, RetryState
  <2>3. CASE StartSession(cam[r])
    <3>1. /\ sessions' \in [Cameras -> Sessions \cup {NoSession}]
          /\ phase' \in [Sessions -> Phase]
          /\ owner' \in [Sessions -> Cameras \cup {NoCamera}]
          /\ stop' \in [Sessions -> {"unused", "queued", "taken"}]
          /\ status' \in [Cameras -> CameraState]
          /\ \A s \in Sessions : phase'[s] # "done" => owner'[s] \in Cameras
      BY <2>1, <2>3, StartSessionTyped
    <3>2. /\ lock' \in [Cameras -> Requests \cup {Unlocked, Timer, Reconciler}]
          /\ pc' \in [Requests -> PC]
          /\ cam' \in [Requests -> Cameras \cup {NoCamera}]
          /\ wait' \in [Requests -> Sessions \cup {NoSession}]
          /\ \A q \in Requests : pc'[q] # "idle" => cam'[q] \in Cameras
      BY <1>4, <2>1 DEF StartFinish, Return, PC
    <3> QED BY <1>4, <2>2, <3>1, <3>2 DEF StartFinish
  <2>4. CASE UNCHANGED <<status, sessionVars>>
    BY <1>4, <2>1, <2>2, <2>4 DEF StartFinish, Return, PC
  <2> QED BY <1>4, <2>3, <2>4 DEF StartFinish
<1>5. CASE StopSignal(r)
  <2>1. cam[r] \in Cameras /\ {"stop.destroy", "stop.wait"} \subseteq PC BY <1>5 DEF StopSignal, PC
  <2> QED BY <1>5, <2>1, SignalTyped DEF StopSignal
<1>6. CASE StopReturn(r) BY <1>6 DEF StopReturn, Return, PC
<1>7. CASE StopAbandon(r) BY <1>7 DEF StopAbandon, Return, PC
<1>8. CASE StopDestroy(r)
  <2>1. cam[r] \in Cameras BY <1>8 DEF StopDestroy
  <2> QED BY <1>8, <2>1, DestroyTyped DEF StopDestroy, SaveStatus, Return, PC
<1>9. CASE DeleteSignal(r)
  <2>1. cam[r] \in Cameras /\ {"delete.destroy", "delete.wait"} \subseteq PC
    BY <1>9 DEF DeleteSignal, PC
  <2> QED BY <1>9, <2>1, SignalTyped DEF DeleteSignal
<1>10. CASE DeleteWait(r) BY <1>10 DEF DeleteWait, PC
<1>11. CASE DeleteRow(r)
  <2>1. cam[r] \in Cameras BY <1>11 DEF DeleteRow
  <2> QED BY <1>11, <2>1, DestroyTyped DEF DeleteRow, PC
<1>12. CASE DeleteFails(r)
  <2>1. cam[r] \in Cameras BY <1>12 DEF DeleteFails
  <2> QED BY <1>12, <2>1, DestroyTyped DEF DeleteFails, Return, PC
<1>13. CASE ForgetCamera(r)
  <2>1. cam[r] \in Cameras BY <1>13 DEF ForgetCamera
  <2> QED BY <1>13, <2>1, DropRetryTyped DEF ForgetCamera, PC
<1> QED BY <1>1, <1>2, <1>3, <1>4, <1>5, <1>6, <1>7, <1>8, <1>9, <1>10, <1>11, <1>12,
           <1>13 DEF RequestNext

\* The second half of retryStart keeps the types of what it changes.
LEMMA RetryFinishTyped ==
  ASSUME Typed, NEW c \in Cameras, RetryFinish(c)
  PROVE  /\ sessions' \in [Cameras -> Sessions \cup {NoSession}]
         /\ phase' \in [Sessions -> Phase]
         /\ owner' \in [Sessions -> Cameras \cup {NoCamera}]
         /\ stop' \in [Sessions -> {"unused", "queued", "taken"}]
         /\ status' \in [Cameras -> CameraState]
         /\ \A s \in Sessions : phase'[s] # "done" => owner'[s] \in Cameras
         /\ faults' \in Faults
         /\ lock' \in [Cameras -> Requests \cup {Unlocked, Timer, Reconciler}]
<1>1. CASE StartSession(c) /\ UNCHANGED faults
  BY <1>1, StartSessionTyped DEF RetryFinish, Typed, TypeOK
<1>2. CASE /\ faults' = [faults EXCEPT !.rejects = @ + 1]
           /\ SaveStatus(c, "error")
           /\ UNCHANGED sessionVars
  <2>1. faults.rejects + 1 \in Nat BY DEF Typed, TypeOK, Faults
  <2>2. faults' \in Faults BY <1>2, <2>1 DEF Typed, TypeOK, Faults
  <2> QED BY <1>2, <2>2 DEF RetryFinish, Typed, Targets, TypeOK, SaveStatus, CameraState, sessionVars
<1>3. CASE UNCHANGED <<status, sessionVars, faults>>
  BY <1>3 DEF RetryFinish, Typed, Targets, TypeOK, sessionVars
<1> QED BY <1>1, <1>2, <1>3 DEF RetryFinish

\* Every step of a camera's process, row and timer keeps the types.
LEMMA TypedCamera ==
  ASSUME Typed, NEW c \in Cameras, CameraNext(c)
  PROVE  Typed'
<1> USE SupervisorAssumption
    DEF Typed, Targets, TypeOK, Desired, CameraState, storeVars, sessionVars, retryVars,
        lockVars, reqVars, nodeVars
<1>1. CASE CameraExits(c) \/ DestroyEnds(c) BY <1>1 DEF CameraExits, DestroyEnds
<1>2. CASE FireTimer(c)
  <2>1. due[c] + 1 \in Nat OBVIOUS
  <2>2. retries' \in [Cameras -> RetryState] BY <1>2 DEF FireTimer, RetryState
  <2> QED BY <1>2, <2>1, <2>2 DEF FireTimer
<1>3. CASE TimerLock(c)
  <2>1. due[c] - 1 \in Nat BY <1>3 DEF TimerLock
  <2> QED BY <1>3, <2>1 DEF TimerLock, RetryLock
<1>4. CASE TimerStart(c) BY <1>4, RetryFinishTyped DEF TimerStart, RetryFinish
<1>5. CASE CreateCamera(c) BY <1>5 DEF CreateCamera
<1>6. CASE BootCamera(c) BY <1>6 DEF BootCamera, SaveStatus
<1> QED BY <1>1, <1>2, <1>3, <1>4, <1>5, <1>6 DEF CameraNext

\* Every step of the reconciler keeps the types.
LEMMA TypedRec ==
  ASSUME Typed, RecNext
  PROVE  Typed'
<1> USE SupervisorAssumption
    DEF Typed, Targets, TypeOK, storeVars, sessionVars, retryVars, lockVars, reqVars, nodeVars,
        RecState
<1>1. CASE RecList
  <2>1. {<<c, desired[c]>> : c \in {d \in Cameras : row[d] = "present"}}
          \in SUBSET (Cameras \X Desired)
    OBVIOUS
  <2>2. rec' \in RecState BY <1>1, <2>1 DEF RecList
  <2>3. rec'.pc = "cameras" BY <1>1 DEF RecList
  <2> QED BY <1>1, <2>2, <2>3 DEF RecList
<1>2. CASE RecVisit
  <2>1. PICK cd \in rec.todo : RecVisit!2!(cd) BY <1>2 DEF RecVisit
  <2>2. cd[1] \in Cameras BY DEF Desired
  <2>3. rec' \in RecState BY <2>1, <2>2
  <2>4. stop' \in [Sessions -> {"unused", "queued", "taken"}] BY <2>1, <2>2 DEF RequestStop
  <2> QED BY <1>2, <2>1, <2>2, <2>3, <2>4 DEF RecVisit
<1>3. CASE RecLock
  <2>1. rec.cam \in Cameras BY <1>3 DEF RecLock
  <2>2. PICK begins \in BOOLEAN : RecLock!2!(begins) BY <1>3 DEF RecLock
  <2>3. rec' \in RecState /\ (rec'.pc = "start" => rec'.cam \in Cameras)
    BY <2>1, <2>2
  <2>4. rec'.pc \in {"start", "cameras"} BY <2>2
  <2>5. lock' \in [Cameras -> Requests \cup {Unlocked, Timer, Reconciler}]
    BY <2>1, <2>2 DEF RetryLock
  <2> QED BY <1>3, <2>1, <2>2, <2>3, <2>4, <2>5 DEF RecLock, RetryLock
<1>4. CASE RecStart BY <1>4, RetryFinishTyped DEF RecStart, RetryFinish
<1>5. CASE RecLive BY <1>5 DEF RecLive
<1>6. CASE RecOrphan
  <2>1. PICK c \in rec.live : RecOrphan!2!(c) BY <1>6 DEF RecOrphan
  <2>2. c \in Cameras OBVIOUS
  <2>3. rec' \in RecState BY <2>1, <2>2
  <2>4. rec'.pc = "destroy" => rec'.cam \in Cameras BY <2>1, <2>2
  <2>5. rec'.pc \in {"orphans", "destroy"} BY <1>6, <2>1 DEF RecOrphan
  <2> QED BY <1>6, <2>3, <2>4, <2>5 DEF RecOrphan
<1>7. CASE RecDestroy BY <1>7, DestroyTyped DEF RecDestroy
<1>8. CASE RecEnd BY <1>8 DEF RecEnd, IdleReconciler
<1> QED BY <1>1, <1>2, <1>3, <1>4, <1>5, <1>6, <1>7, <1>8 DEF RecNext

\* Every step of the node keeps the types.
LEMMA TypedNode ==
  ASSUME Typed, NodeNext
  PROVE  Typed'
<1> USE SupervisorAssumption
    DEF Typed, Targets, TypeOK, storeVars, sessionVars, retryVars, lockVars, reqVars, nodeVars,
        NodePhase
<1>1. CASE BootList BY <1>1 DEF BootList
<1>2. CASE BootDone BY <1>2 DEF BootDone
<1>3. CASE Shutdown
  <2>1. faults.stops + 1 \in Nat BY DEF Faults
  <2>2. faults' \in Faults BY <1>3, <2>1 DEF Shutdown, Faults
  <2>3. retries' \in [Cameras -> RetryState] BY SMTT(30), <1>3 DEF Shutdown, RetryState
  <2> QED BY <1>3, <2>2, <2>3 DEF Shutdown
<1>4. CASE CancelBase BY <1>4 DEF CancelBase
<1>5. CASE RunReturns BY <1>5 DEF RunReturns
<1>6. ASSUME ForgetMemory, faults' \in Faults PROVE Typed'
  BY <1>6 DEF ForgetMemory, Phase, PC, NoRetry, RetryState, IdleReconciler, RecState
<1>7. CASE Exit BY <1>6, <1>7 DEF Exit
<1>8. CASE Crash
  <2>1. faults.stops + 1 \in Nat BY DEF Faults
  <2>2. faults' \in Faults BY <1>8, <2>1 DEF Crash, Faults
  <2> QED BY <1>6, <1>8, <2>2 DEF Crash
<1> QED BY <1>1, <1>2, <1>3, <1>4, <1>5, <1>7, <1>8 DEF NodeNext

\* No step leaves the typed states.
LEMMA TypedStep == Typed /\ [Next]_vars => Typed'
<1> SUFFICES ASSUME Typed, [Next]_vars PROVE Typed'
  OBVIOUS
<1>1. CASE UNCHANGED vars
  BY <1>1 DEF vars, storeVars, sessionVars, retryVars, lockVars, reqVars, nodeVars, Typed,
              Targets, TypeOK
<1> QED BY <1>1, TypedSession, TypedRequest, TypedCamera, TypedRec, TypedNode DEF Next

\* The type invariant holds in every state of every behaviour: no EXCEPT of
\* the supervisor touches a map at an absent camera and no counter of retries
\* or pending timers goes below zero.
THEOREM TypeCorrect == Spec => []TypeOK
<1>1. Typed => TypeOK BY DEF Typed
<1> QED BY <1>1, TypedInit, TypedStep, PTL DEF Spec

-----------------------------------------------------------------------------
(* One session per camera, and no orphans *)

\* Where a request has its camera's opLock.
Holding == {"start", "stop.signal", "stop.wait", "stop.destroy",
            "delete.wait", "delete.destroy"}

\* The opLock is held by whoever is in its critical section, and while
\* retryStart holds it the camera has no session.
LockHeld ==
  /\ \A r \in Requests : pc[r] \in Holding => lock[cam[r]] = r
  /\ rec.pc = "start" => lock[rec.cam] = Reconciler
  /\ \A c \in Cameras : lock[c] \in {Timer, Reconciler} => sessions[c] = NoSession

\* A session in the map is at work, for the camera it is mapped to.
MapAgrees ==
  \A c \in Cameras :
    sessions[c] # NoSession => Mapped(sessions[c]) /\ owner[sessions[c]] = c

\* The inductive invariant without its types.
Safe == LockHeld /\ OneSession /\ MapAgrees /\ NoOrphan

\* The initial state is safe.
LEMMA SafeInit == Init => Safe
  BY SupervisorAssumption
  DEF Init, Safe, LockHeld, Holding, OneSession, MapAgrees, NoOrphan, Mapped, IdleReconciler

\* A session moves on without leaving the map.
LEMMA MoveSafe ==
  ASSUME Typed, Safe, NEW s \in Sessions, Mapped(s),
         NEW p, p \notin {"unmapped", "done"}, phase' = [phase EXCEPT ![s] = p],
         UNCHANGED <<sessions, owner, lock, pc, cam, rec>>
  PROVE  LockHeld' /\ OneSession' /\ MapAgrees'
<1>1. LockHeld' BY DEF Safe, LockHeld
<1>2. OneSession' BY DEF Safe, OneSession, Mapped, Typed, TypeOK
<1>3. MapAgrees' BY DEF Safe, MapAgrees, Mapped, Typed, TypeOK
<1> QED BY <1>1, <1>2, <1>3

\* The phases in which a session may have a process.
Launched == {"starting", "configuring", "ready", "running", "stopping", "failing"}

\* A session that moves on keeps NoOrphan when its process, if it has one,
\* stays with it.
LEMMA MoveKeepsProcess ==
  ASSUME Typed, Safe, NEW s \in Sessions, Mapped(s),
         NEW p, p \in Launched \/ phase[s] \notin Launched,
         phase' = [phase EXCEPT ![s] = p],
         UNCHANGED <<sessions, proc, faults>>
  PROVE  NoOrphan'
<1> SUFFICES ASSUME faults.destroys = 0, NEW c \in Cameras, proc[c] # "none"
             PROVE  sessions[c] # NoSession /\ phase'[sessions[c]] \in Launched
  BY DEF NoOrphan, Launched
<1>1. sessions[c] # NoSession /\ phase[sessions[c]] \in Launched
  BY DEF Safe, NoOrphan, Launched
<1>2. sessions[c] \in Sessions BY <1>1 DEF Typed, TypeOK
<1>3. CASE sessions[c] = s BY <1>1, <1>3 DEF Typed, TypeOK
<1>4. CASE sessions[c] # s BY <1>1, <1>2, <1>4 DEF Typed, TypeOK
<1> QED BY <1>3, <1>4

\* The session's camera, once destroyed, is no orphan whatever the session
\* does next.
LEMMA DestroyedSafe ==
  ASSUME Typed, Safe, NEW s \in Sessions, Mapped(s), NEW p,
         phase' = [phase EXCEPT ![s] = p], UNCHANGED sessions, Destroy(owner[s])
  PROVE  NoOrphan'
<1> SUFFICES ASSUME faults'.destroys = 0, NEW c \in Cameras, proc'[c] # "none"
             PROVE  sessions[c] # NoSession /\ phase'[sessions[c]] \in Launched
  BY DEF NoOrphan, Launched
<1>1. owner[s] \in Cameras /\ sessions[owner[s]] = s BY DEF Safe, OneSession
<1>2. faults.destroys \in Nat BY DEF Typed, TypeOK, Faults
<1>3. proc' = [proc EXCEPT ![owner[s]] = "none"] /\ faults' = faults
  <2>1. CASE faults' = [faults EXCEPT !.destroys = @ + 1]
    <3>1. faults'.destroys = faults.destroys + 1 BY <2>1 DEF Typed, TypeOK, Faults
    <3> QED BY <3>1, <1>2
  <2> QED BY <2>1 DEF Destroy
<1>4. c # owner[s] /\ proc[c] # "none" BY <1>1, <1>3 DEF Typed, TypeOK
<1>5. sessions[c] # NoSession /\ phase[sessions[c]] \in Launched
  BY <1>3, <1>4 DEF Safe, NoOrphan, Launched
<1>6. sessions[c] \in Sessions /\ sessions[c] # s
  BY <1>4, <1>5 DEF Safe, MapAgrees, Typed, TypeOK
<1> QED BY <1>5, <1>6 DEF Typed, TypeOK

\* Every step of a session's run is safe.
LEMMA SafeSession ==
  ASSUME Typed, Safe, NEW s \in Sessions, SessionNext(s)
  PROVE  Safe'
<1> USE DEF storeVars, sessionVars, retryVars, lockVars, reqVars, nodeVars
<1>1. ASSUME NEW p \in Launched \cup {"launching"}, Mapped(s),
             p \in Launched \/ phase[s] \notin Launched, phase' = [phase EXCEPT ![s] = p],
             UNCHANGED <<sessions, owner, lock, pc, cam, rec, proc, faults>>
      PROVE  Safe'
  <2>1. LockHeld' /\ OneSession' /\ MapAgrees' BY <1>1, MoveSafe DEF Launched
  <2>2. NoOrphan' BY <1>1, MoveKeepsProcess
  <2> QED BY <2>1, <2>2 DEF Safe
<1>2. CASE ProvisionStopped(s)
  BY <1>1, <1>2 DEF ProvisionStopped, Mapped, Launched
<1>3. CASE Provisioned(s)
  BY <1>1, <1>3 DEF Provisioned, Mapped, Launched
<1>4. CASE Launch(s)
  <2>1. Mapped(s) BY <1>4 DEF Launch, Mapped
  <2>2. LockHeld' /\ OneSession' /\ MapAgrees'
    BY <1>4, <2>1, MoveSafe DEF Launch
  <2>3. owner[s] \in Cameras /\ sessions[owner[s]] = s BY <2>1 DEF Safe, OneSession
  <2>4. NoOrphan'
    <3> SUFFICES ASSUME faults.destroys = 0, NEW c \in Cameras, proc'[c] # "none"
                 PROVE  sessions[c] # NoSession /\ phase'[sessions[c]] \in Launched
      BY <1>4 DEF Launch, NoOrphan, Launched
    <3>1. CASE c = owner[s]
      BY <1>4, <2>3, <3>1, SupervisorAssumption DEF Launch, Launched, Typed, TypeOK
    <3>2. CASE c # owner[s]
      <4>1. sessions[c] # NoSession /\ phase[sessions[c]] \in Launched
        BY <1>4, <3>2 DEF Launch, Launched, Safe, NoOrphan, Typed, TypeOK
      <4>2. sessions[c] \in Sessions /\ sessions[c] # s
        BY <3>2, <4>1 DEF Safe, MapAgrees, Typed, TypeOK
      <4> QED BY <1>4, <4>1, <4>2 DEF Launch, Typed, TypeOK
    <3> QED BY <3>1, <3>2
  <2> QED BY <2>2, <2>4 DEF Safe
<1>5. CASE Handshake(s)
  BY <1>1, <1>5 DEF Handshake, Mapped, Launched
<1>6. CASE BecomeRunning(s)
  BY <1>1, <1>6 DEF BecomeRunning, Mapped, Launched
<1>7. CASE Stable(s)
  BY <1>7 DEF Stable, Safe, LockHeld, OneSession, MapAgrees, NoOrphan, Mapped
<1>8. CASE TakeStop(s)
  BY <1>1, <1>8 DEF TakeStop, Mapped, Launched
<1>9. CASE Fail(s)
  BY <1>1, <1>9 DEF Fail, Mapped, Launched
<1>10. CASE FinishStop(s)
  <2>1. Mapped(s) BY <1>10 DEF FinishStop, Mapped
  <2> QED BY <1>10, <2>1, MoveSafe, DestroyedSafe DEF FinishStop, Safe
<1>11. CASE FinishFail(s)
  <2>1. Mapped(s) BY <1>11 DEF FinishFail, Mapped
  <2> QED BY <1>11, <2>1, MoveSafe, DestroyedSafe DEF FinishFail, Safe
<1>12. CASE ReadDesired(s)
  <2>1. Mapped(s) /\ phase[s] \notin Launched BY <1>12 DEF ReadDesired, Mapped, Launched
  <2>2. PICK p \in {"retrying", "ending"} : phase' = [phase EXCEPT ![s] = p]
    BY <1>12 DEF ReadDesired
  <2> QED BY <1>12, <2>1, <2>2, MoveSafe, MoveKeepsProcess DEF ReadDesired, Safe
<1>13. CASE ScheduleRetry(s)
  <2>1. Mapped(s) /\ phase[s] \notin Launched BY <1>13 DEF ScheduleRetry, Mapped, Launched
  <2> QED BY <1>13, <2>1, MoveSafe, MoveKeepsProcess DEF ScheduleRetry, Safe
<1>14. CASE Unmap(s)
  <2>1. Mapped(s) BY <1>14 DEF Unmap, Mapped
  <2>2. owner[s] \in Cameras /\ sessions[owner[s]] = s BY <2>1 DEF Safe, OneSession
  <2>3. sessions' = [sessions EXCEPT ![owner[s]] = NoSession] BY <1>14, <2>2 DEF Unmap
  <2>4. LockHeld' BY <1>14, <2>2, <2>3 DEF Unmap, Safe, LockHeld, Typed, TypeOK
  <2>5. OneSession'
    BY <1>14, <2>2, <2>3 DEF Unmap, Safe, OneSession, Mapped, Typed, TypeOK
  <2>6. MapAgrees'
    BY <1>14, <2>2, <2>3 DEF Unmap, Safe, MapAgrees, Mapped, Typed, TypeOK
  <2>7. faults.destroys = 0 => proc[owner[s]] = "none"
    BY <1>14, <2>2 DEF Unmap, Safe, NoOrphan
  <2>8. NoOrphan'
    BY <1>14, <2>2, <2>3, <2>7 DEF Unmap, Safe, NoOrphan, MapAgrees, Typed, TypeOK
  <2> QED BY <2>4, <2>5, <2>6, <2>8 DEF Safe
<1>15. CASE CloseDone(s)
  <2>1. \A c \in Cameras : sessions[c] # s
    BY <1>15, SupervisorAssumption DEF CloseDone, Safe, MapAgrees, Mapped
  <2>2. LockHeld' BY <1>15 DEF CloseDone, Safe, LockHeld
  <2>3. OneSession' BY <1>15 DEF CloseDone, Safe, OneSession, Mapped, Typed, TypeOK
  <2>4. MapAgrees' BY <1>15, <2>1 DEF CloseDone, Safe, MapAgrees, Mapped, Typed, TypeOK
  <2>5. NoOrphan' BY <1>15, <2>1 DEF CloseDone, Safe, NoOrphan, Typed, TypeOK
  <2> QED BY <2>2, <2>3, <2>4, <2>5 DEF Safe
<1> QED BY <1>2, <1>3, <1>4, <1>5, <1>6, <1>7, <1>8, <1>9, <1>10, <1>11, <1>12, <1>13,
           <1>14, <1>15 DEF SessionNext

\* startSession for a camera without a session is safe.
LEMMA StartSessionSafe ==
  ASSUME Typed, Safe, NEW c \in Cameras, sessions[c] = NoSession, StartSession(c),
         proc' = proc, faults'.destroys = faults.destroys
  PROVE  OneSession' /\ MapAgrees' /\ NoOrphan'
<1>1. PICK s \in Sessions : StartSession(c)!(s) BY DEF StartSession
<1>2. phase[s] = "done" BY <1>1 DEF Unreferenced, Ended
<1>3. \A d \in Cameras : sessions[d] # s
  BY <1>2, SupervisorAssumption DEF Safe, MapAgrees, Mapped
<1>4. OneSession'
  BY <1>1, SupervisorAssumption DEF Safe, OneSession, Mapped, Typed, TypeOK
<1>5. MapAgrees'
  BY <1>1, <1>3 DEF Safe, MapAgrees, Mapped, Typed, TypeOK
<1>6. faults.destroys = 0 => proc[c] = "none" BY DEF Safe, NoOrphan
<1>7. NoOrphan'
  BY <1>1, <1>3, <1>6 DEF Safe, NoOrphan, Typed, TypeOK
<1> QED BY <1>4, <1>5, <1>7

\* A Destroy that leaves the sessions alone is safe.
LEMMA DestroySafe ==
  ASSUME Typed, Safe, NEW c \in Cameras, Destroy(c), UNCHANGED <<sessions, phase, owner>>
  PROVE  OneSession' /\ MapAgrees' /\ NoOrphan'
<1>1. OneSession' /\ MapAgrees' BY DEF Safe, OneSession, MapAgrees, Mapped
<1>2. faults.destroys \in Nat BY DEF Typed, TypeOK, Faults
<1>3. CASE proc' = [proc EXCEPT ![c] = "none"] /\ UNCHANGED faults
  BY <1>1, <1>3 DEF Safe, NoOrphan, Typed, TypeOK
<1>4. CASE faults' = [faults EXCEPT !.destroys = @ + 1]
  <2>1. faults'.destroys = faults.destroys + 1 BY <1>4 DEF Typed, TypeOK, Faults
  <2> QED BY <1>1, <1>2, <2>1 DEF NoOrphan
<1> QED BY <1>3, <1>4 DEF Destroy

\* Sessions and processes that do not change stay as they should be.
LEMMA QuietSafe ==
  ASSUME Safe, UNCHANGED <<sessions, phase, owner, proc, faults>>
  PROVE  OneSession' /\ MapAgrees' /\ NoOrphan'
  BY DEF Safe, OneSession, MapAgrees, NoOrphan, Mapped

\* A request that returns gives its opLock back and takes nobody else's.
LEMMA ReturnKeepsLocks ==
  ASSUME Typed, Safe, NEW r \in Requests, pc[r] \in Holding,
         pc' = [pc EXCEPT ![r] = "idle"] \/ pc' = [pc EXCEPT ![r] = "delete.forget"],
         lock' = [lock EXCEPT ![cam[r]] = Unlocked],
         \A q \in Requests : q # r => cam'[q] = cam[q],
         \A c \in Cameras : c # cam[r] => sessions'[c] = sessions[c],
         UNCHANGED rec
  PROVE  LockHeld'
<1> USE SupervisorAssumption DEF Typed, Targets, TypeOK
<1>1. cam[r] \in Cameras /\ lock[cam[r]] = r BY DEF Safe, LockHeld, Holding
<1>2. ASSUME NEW q \in Requests, pc'[q] \in Holding PROVE lock'[cam'[q]] = q
  <2>1. q # r BY <1>2 DEF Holding
  <2>2. pc[q] \in Holding /\ cam'[q] = cam[q] BY <1>2, <2>1
  <2>3. lock[cam[q]] = q /\ cam[q] \in Cameras BY <2>2 DEF Safe, LockHeld, Holding
  <2> QED BY <1>1, <2>1, <2>2, <2>3
<1>3. rec'.pc = "start" => lock'[rec'.cam] = Reconciler
  BY <1>1 DEF Safe, LockHeld
<1>4. ASSUME NEW c \in Cameras, lock'[c] \in {Timer, Reconciler} PROVE sessions'[c] = NoSession
  BY <1>1, <1>4 DEF Safe, LockHeld
<1> QED BY <1>2, <1>3, <1>4 DEF LockHeld

\* A request that takes a free opLock disturbs nobody.
LEMMA TakeKeepsLocks ==
  ASSUME Typed, Safe, NEW r \in Requests, NEW c \in Cameras, lock[c] = Unlocked,
         lock' = [lock EXCEPT ![c] = r], cam'[r] = c,
         \A q \in Requests : q # r => pc'[q] = pc[q] /\ cam'[q] = cam[q],
         UNCHANGED <<sessions, rec>>
  PROVE  LockHeld'
<1> USE SupervisorAssumption DEF Typed, Targets, TypeOK
<1>1. ASSUME NEW q \in Requests, pc'[q] \in Holding PROVE lock'[cam'[q]] = q
  <2>1. CASE q = r BY <2>1
  <2>2. CASE q # r
    <3>1. lock[cam[q]] = q /\ cam[q] \in Cameras BY <1>1, <2>2 DEF Safe, LockHeld, Holding
    <3> QED BY <2>2, <3>1
  <2> QED BY <2>1, <2>2
<1>2. rec'.pc = "start" => lock'[rec'.cam] = Reconciler
  BY DEF Safe, LockHeld
<1>3. ASSUME NEW d \in Cameras, lock'[d] \in {Timer, Reconciler} PROVE sessions'[d] = NoSession
  BY <1>3 DEF Safe, LockHeld
<1> QED BY <1>1, <1>2, <1>3 DEF LockHeld

\* Every step of a request is safe.
LEMMA SafeRequest ==
  ASSUME Typed, Safe, NEW r \in Requests, RequestNext(r)
  PROVE  Safe'
<1> USE DEF storeVars, sessionVars, retryVars, lockVars, reqVars, nodeVars
<1>1. ASSUME NEW c \in Cameras, StartCamera(r, c) \/ StopCamera(r, c) PROVE Safe'
  <2>1. OneSession' /\ MapAgrees' /\ NoOrphan' BY <1>1, QuietSafe DEF StartCamera, StopCamera
  <2>2. CASE lock' = [lock EXCEPT ![c] = r] /\ cam' = [cam EXCEPT ![r] = c]
    <3>1. lock[c] = Unlocked /\ UNCHANGED <<sessions, rec>>
      BY <1>1 DEF StartCamera, StopCamera
    <3>2. cam'[r] = c /\ \A q \in Requests : q # r => cam'[q] = cam[q]
      BY <2>2 DEF Typed, TypeOK
    <3>3. \A q \in Requests : q # r => pc'[q] = pc[q]
      BY <1>1 DEF StartCamera, StopCamera, Typed, TypeOK
    <3>4. LockHeld' BY <2>2, <3>1, <3>2, <3>3, TakeKeepsLocks
    <3> QED BY <2>1, <3>4 DEF Safe
  <2>3. CASE UNCHANGED <<lock, pc, cam>>
    <3>1. LockHeld' BY <1>1, <2>3 DEF StartCamera, StopCamera, Safe, LockHeld
    <3> QED BY <2>1, <3>1 DEF Safe
  <2> QED BY <1>1, <2>2, <2>3 DEF StartCamera, StopCamera
<1>2. ASSUME NEW c \in Cameras, DeleteCamera(r, c) PROVE Safe'
  <2>1. LockHeld' BY <1>2 DEF DeleteCamera, Safe, LockHeld, Holding, Typed, TypeOK
  <2> QED BY <1>2, <2>1, QuietSafe DEF DeleteCamera, Safe
<1>3. CASE StartFinish(r)
  <2>1. pc[r] \in Holding /\ cam[r] \in Cameras
    BY <1>3 DEF StartFinish, Holding, Typed, Targets
  <2>2. LockHeld'
    BY <1>3, <2>1, ReturnKeepsLocks DEF StartFinish, Return, StartSession, Typed, TypeOK
  <2>3. CASE sessions[cam[r]] = NoSession
    BY <1>3, <2>1, <2>2, <2>3, StartSessionSafe DEF StartFinish, Safe
  <2>4. CASE sessions[cam[r]] # NoSession
    BY <1>3, <2>2, <2>4, QuietSafe DEF StartFinish, Safe
  <2> QED BY <2>3, <2>4
<1>4. CASE StopSignal(r)
  <2>1. LockHeld'
    BY <1>4 DEF StopSignal, SignalSession, Safe, LockHeld, Holding, Typed, TypeOK
  <2> QED BY <1>4, <2>1, QuietSafe DEF StopSignal, Safe
<1>5. CASE StopReturn(r) \/ StopAbandon(r)
  <2>1. LockHeld'
    BY <1>5, ReturnKeepsLocks DEF StopReturn, StopAbandon, Return, Holding, Typed, TypeOK
  <2> QED BY <1>5, <2>1, QuietSafe DEF StopReturn, StopAbandon, Safe
<1>6. CASE StopDestroy(r)
  <2>1. cam[r] \in Cameras BY <1>6 DEF StopDestroy, Typed, Targets
  <2>2. LockHeld'
    BY <1>6, ReturnKeepsLocks DEF StopDestroy, Return, Holding, Typed, TypeOK
  <2> QED BY <1>6, <2>1, <2>2, DestroySafe DEF StopDestroy, Safe
<1>7. CASE DeleteSignal(r)
  <2>1. cam[r] \in Cameras BY <1>7 DEF DeleteSignal, Typed, Targets
  <2>2. LockHeld'
    BY <1>7, <2>1, TakeKeepsLocks DEF DeleteSignal, SignalSession, Typed, TypeOK
  <2> QED BY <1>7, <2>2, QuietSafe DEF DeleteSignal, Safe
<1>8. CASE DeleteWait(r)
  <2>1. LockHeld' BY <1>8 DEF DeleteWait, Safe, LockHeld, Holding, Typed, TypeOK
  <2> QED BY <1>8, <2>1, QuietSafe DEF DeleteWait, Safe
<1>9. CASE DeleteRow(r)
  <2>1. cam[r] \in Cameras BY <1>9 DEF DeleteRow, Typed, Targets
  <2>2. LockHeld' BY <1>9, ReturnKeepsLocks DEF DeleteRow, Holding
  <2> QED BY <1>9, <2>1, <2>2, DestroySafe DEF DeleteRow, Safe
<1>10. CASE DeleteFails(r)
  <2>1. cam[r] \in Cameras BY <1>10 DEF DeleteFails, Typed, Targets
  <2>2. LockHeld'
    BY <1>10, ReturnKeepsLocks DEF DeleteFails, Return, Holding, Typed, TypeOK
  <2> QED BY <1>10, <2>1, <2>2, DestroySafe DEF DeleteFails, Safe
<1>11. CASE ForgetCamera(r)
  <2>1. LockHeld' BY <1>11 DEF ForgetCamera, Safe, LockHeld, Holding, Typed, TypeOK
  <2> QED BY <1>11, <2>1, QuietSafe DEF ForgetCamera, Safe
<1> QED BY <1>1, <1>2, <1>3, <1>4, <1>5, <1>6, <1>7, <1>8, <1>9, <1>10, <1>11
        DEF RequestNext

\* retryStart takes the opLock of a camera only if it has no session.
LEMMA RetryLockSafe ==
  ASSUME Typed, Safe, NEW c \in Cameras, NEW me \in {Timer, Reconciler},
         NEW begins \in BOOLEAN, RetryLock(c, me, begins)
  PROVE  /\ \A r \in Requests : pc'[r] \in Holding => lock'[cam'[r]] = r
         /\ \A d \in Cameras : lock'[d] \in {Timer, Reconciler} => sessions'[d] = NoSession
         /\ rec.pc = "start" => lock'[rec.cam] = Reconciler
         /\ begins => lock'[c] = me
         /\ OneSession' /\ MapAgrees' /\ NoOrphan'
<1> USE SupervisorAssumption DEF Typed, Targets, TypeOK, sessionVars, reqVars
<1>1. lock[c] = Unlocked BY DEF RetryLock
<1>2. begins => sessions[c] = NoSession BY DEF RetryLock
<1>3. CASE begins
  <2>1. lock' = [lock EXCEPT ![c] = me] BY <1>3 DEF RetryLock
  <2>2. ASSUME NEW r \in Requests, pc'[r] \in Holding PROVE lock'[cam'[r]] = r
    <3>1. pc[r] \in Holding /\ cam'[r] = cam[r] BY <2>2 DEF RetryLock
    <3>2. lock[cam[r]] = r /\ cam[r] \in Cameras BY <3>1 DEF Safe, LockHeld, Holding
    <3> QED BY <1>1, <2>1, <3>1, <3>2
  <2>3. ASSUME NEW d \in Cameras, lock'[d] \in {Timer, Reconciler} PROVE sessions'[d] = NoSession
    BY <1>2, <1>3, <2>1, <2>3 DEF RetryLock, Safe, LockHeld
  <2>4. rec.pc = "start" => lock'[rec.cam] = Reconciler
    BY <1>1, <2>1 DEF Safe, LockHeld
  <2> QED BY <2>1, <2>2, <2>3, <2>4, QuietSafe DEF RetryLock
<1>4. CASE ~begins
  BY <1>4, QuietSafe DEF RetryLock, Safe, LockHeld
<1> QED BY <1>3, <1>4

\* The second half of retryStart, with the opLock held, is safe.
LEMMA RetryFinishSafe ==
  ASSUME Typed, Safe, NEW c \in Cameras, lock[c] \in {Timer, Reconciler}, RetryFinish(c)
  PROVE  /\ \A r \in Requests : pc'[r] \in Holding => lock'[cam'[r]] = r
         /\ \A d \in Cameras : lock'[d] \in {Timer, Reconciler} => sessions'[d] = NoSession
         /\ \A d \in Cameras \ {c} : lock'[d] = lock[d]
         /\ OneSession' /\ MapAgrees' /\ NoOrphan'
<1> USE SupervisorAssumption DEF Typed, Targets, TypeOK
<1>1. sessions[c] = NoSession BY DEF Safe, LockHeld
<1>2. lock' = [lock EXCEPT ![c] = Unlocked] /\ UNCHANGED <<pc, cam, proc>>
  BY DEF RetryFinish, reqVars
<1>3. \A d \in Cameras : d # c => sessions'[d] = sessions[d]
  BY DEF RetryFinish, StartSession, sessionVars
<1>4. ASSUME NEW r \in Requests, pc'[r] \in Holding PROVE lock'[cam'[r]] = r
  <2>1. lock[cam[r]] = r /\ cam[r] \in Cameras BY <1>2, <1>4 DEF Safe, LockHeld, Holding
  <2> QED BY <1>2, <2>1
<1>5. ASSUME NEW d \in Cameras, lock'[d] \in {Timer, Reconciler} PROVE sessions'[d] = NoSession
  BY <1>2, <1>3, <1>5 DEF Safe, LockHeld
<1>6. OneSession' /\ MapAgrees' /\ NoOrphan'
  <2>1. CASE StartSession(c) /\ UNCHANGED faults BY <1>1, <1>2, <2>1, StartSessionSafe
  <2>2. CASE faults' = [faults EXCEPT !.rejects = @ + 1] /\ UNCHANGED sessionVars
    <3>1. faults'.destroys = faults.destroys BY <2>2 DEF Faults
    <3> QED BY <1>2, <2>2, <3>1
        DEF Safe, OneSession, MapAgrees, NoOrphan, Mapped, sessionVars
  <2>3. CASE UNCHANGED <<sessionVars, faults>>
    BY <1>2, <2>3, QuietSafe DEF sessionVars
  <2> QED BY <2>1, <2>2, <2>3 DEF RetryFinish
<1> QED BY <1>2, <1>4, <1>5, <1>6

\* Every step of a camera's process, row and timer is safe.
LEMMA SafeCamera ==
  ASSUME Typed, Safe, NEW c \in Cameras, CameraNext(c)
  PROVE  Safe'
<1> USE DEF storeVars, sessionVars, retryVars, lockVars, reqVars, nodeVars
<1>1. CASE CameraExits(c) \/ DestroyEnds(c)
  <2>1. NoOrphan' BY <1>1 DEF CameraExits, DestroyEnds, Safe, NoOrphan, Typed, TypeOK
  <2> QED BY <1>1, <2>1 DEF CameraExits, DestroyEnds, Safe, LockHeld, OneSession, MapAgrees, Mapped
<1>2. CASE FireTimer(c) \/ CreateCamera(c) \/ BootCamera(c)
  BY <1>2, QuietSafe DEF FireTimer, CreateCamera, BootCamera, Safe, LockHeld
<1>3. CASE TimerLock(c)
  <2>1. PICK begins \in BOOLEAN : RetryLock(c, Timer, begins) BY <1>3 DEF TimerLock
  <2>2. UNCHANGED rec BY <1>3 DEF TimerLock
  <2> QED BY <2>1, <2>2, RetryLockSafe DEF Safe, LockHeld
<1>4. CASE TimerStart(c)
  <2>1. lock[c] = Timer /\ RetryFinish(c) /\ UNCHANGED rec BY <1>4 DEF TimerStart
  <2>2. rec.pc = "start" => rec.cam \in Cameras \ {c}
    BY <2>1, SupervisorAssumption DEF Safe, LockHeld, Typed, Targets
  <2> QED BY <2>1, <2>2, RetryFinishSafe DEF Safe, LockHeld
<1> QED BY <1>1, <1>2, <1>3, <1>4 DEF CameraNext

\* Every step of the reconciler is safe.
LEMMA SafeRec ==
  ASSUME Typed, Safe, RecNext
  PROVE  Safe'
<1> USE DEF storeVars, sessionVars, retryVars, lockVars, reqVars, nodeVars
<1>1. ASSUME UNCHANGED <<sessions, phase, owner, proc, faults, lock, pc, cam>>,
             rec'.pc # "start"
      PROVE  Safe'
  BY <1>1, QuietSafe DEF Safe, LockHeld
<1>2. CASE RecList \/ RecLive \/ RecEnd
  <2>1. ASSUME RecList PROVE rec'.pc # "start" BY <2>1 DEF RecList, Typed, TypeOK, RecState
  <2>2. ASSUME RecLive PROVE rec'.pc # "start" BY <2>2 DEF RecLive, Typed, TypeOK, RecState
  <2>3. ASSUME RecEnd PROVE rec'.pc # "start" BY <2>3 DEF RecEnd, IdleReconciler
  <2>4. rec'.pc # "start" BY <1>2, <2>1, <2>2, <2>3
  <2> QED BY <1>1, <1>2, <2>4 DEF RecList, RecLive, RecEnd
<1>3. CASE RecVisit
  <2>1. PICK cd \in rec.todo : RecVisit!2!(cd) BY <1>3 DEF RecVisit
  <2>2. rec'.pc \in {"retry", "cameras"} BY <1>3, <2>1 DEF RecVisit, Typed, TypeOK, RecState
  <2> QED BY <1>1, <1>3, <2>2 DEF RecVisit
<1>4. CASE RecOrphan
  <2>1. PICK c \in rec.live : RecOrphan!2!(c) BY <1>4 DEF RecOrphan
  <2>2. rec'.pc \in {"destroy", "orphans"} BY <1>4, <2>1 DEF RecOrphan, Typed, TypeOK, RecState
  <2> QED BY <1>1, <1>4, <2>2 DEF RecOrphan
<1>5. CASE RecLock
  <2>1. rec.cam \in Cameras BY <1>5 DEF RecLock, Typed, Targets
  <2>2. PICK begins \in BOOLEAN : RecLock!2!(begins) BY <1>5 DEF RecLock
  <2>3. rec'.pc = "start" => begins /\ rec'.cam = rec.cam
    BY <2>2 DEF Typed, TypeOK, RecState
  <2> QED BY <2>1, <2>2, <2>3, RetryLockSafe DEF Safe, LockHeld
<1>6. CASE RecStart
  <2>1. rec.cam \in Cameras /\ lock[rec.cam] = Reconciler
    BY <1>6 DEF RecStart, Safe, LockHeld, Typed, Targets
  <2>2. rec'.pc # "start" BY <1>6 DEF RecStart, Typed, TypeOK, RecState
  <2> QED BY <1>6, <2>1, <2>2, RetryFinishSafe DEF RecStart, Safe, LockHeld
<1>7. CASE RecDestroy
  <2>1. rec.cam \in Cameras BY <1>7 DEF RecDestroy, Typed, Targets
  <2>2. rec'.pc # "start" BY <1>7 DEF RecDestroy, Typed, TypeOK, RecState
  <2> QED BY <1>7, <2>1, <2>2, DestroySafe DEF RecDestroy, Safe, LockHeld
<1> QED BY <1>2, <1>3, <1>4, <1>5, <1>6, <1>7 DEF RecNext

\* Every step of the node is safe.
LEMMA SafeNode ==
  ASSUME Typed, Safe, NodeNext
  PROVE  Safe'
<1> USE DEF storeVars, sessionVars, retryVars, lockVars, reqVars, nodeVars
<1>1. CASE BootList \/ BootDone \/ CancelBase \/ RunReturns
  BY <1>1, QuietSafe DEF BootList, BootDone, CancelBase, RunReturns, Safe, LockHeld
<1>2. CASE Shutdown
  <2>1. faults'.destroys = faults.destroys BY <1>2 DEF Shutdown, Typed, TypeOK, Faults
  <2> QED BY <1>2, <2>1 DEF Shutdown, Safe, LockHeld, OneSession, MapAgrees, NoOrphan, Mapped
<1>3. CASE Exit \/ Crash
  <2>1. ForgetMemory BY <1>3 DEF Exit, Crash
  <2> QED BY <2>1, SupervisorAssumption
      DEF ForgetMemory, Safe, LockHeld, Holding, OneSession, MapAgrees, NoOrphan, Mapped,
          IdleReconciler
<1> QED BY <1>1, <1>2, <1>3 DEF NodeNext

\* The inductive invariant.
Inv == Typed /\ Safe

\* It is preserved by every step.
LEMMA InvStep == Inv /\ [Next]_vars => Inv'
<1> SUFFICES ASSUME Inv, [Next]_vars PROVE Inv'
  OBVIOUS
<1>1. Typed' BY TypedStep DEF Inv
<1>2. CASE UNCHANGED vars
  BY <1>1, <1>2, QuietSafe
  DEF Inv, Safe, LockHeld, vars, sessionVars, lockVars, reqVars
<1> QED BY <1>1, <1>2, SafeSession, SafeRequest, SafeCamera, SafeRec, SafeNode DEF Inv, Next

\* It holds in every state.
LEMMA Invariance == Spec => []Inv
<1>1. Init => Inv BY TypedInit, SafeInit DEF Inv
<1> QED BY <1>1, InvStep, PTL DEF Spec

\* A camera never has two sessions at work, for any number of cameras,
\* requests and sessions.
THEOREM OneSessionAlways == Spec => []OneSession
<1>1. Inv => OneSession BY DEF Inv, Safe
<1> QED BY <1>1, Invariance, PTL

\* As long as no Destroy has failed, every process and namespace belongs to a
\* session that will remove it.
THEOREM NoOrphanAlways == Spec => []NoOrphan
<1>1. Inv => NoOrphan BY DEF Inv, Safe
<1> QED BY <1>1, Invariance, PTL

-----------------------------------------------------------------------------
(* A camera is started only while it is wanted running *)

\* Where StartCamera is past setDesired.
Starting == {"start"}

\* Whoever is about to start a camera with autostart holds its opLock, and
\* under it nobody turns the desired state off.
Wanted ==
  /\ \A c \in Autostart : lock[c] \in {Timer, Reconciler} => desired[c] = "running"
  /\ \A r \in Requests : (pc[r] \in Starting /\ cam[r] \in Autostart) => desired[cam[r]] = "running"

\* A step that releases at most an opLock keeps Wanted.
LEMMA WantedQuiet ==
  ASSUME Inv, Wanted, UNCHANGED desired,
         \A c \in Cameras : lock'[c] \in {lock[c], Unlocked},
         \A r \in Requests : pc'[r] \in Starting => pc[r] \in Starting /\ cam'[r] = cam[r]
  PROVE  Wanted'
  BY SupervisorAssumption DEF Wanted

\* A request that has taken the opLock may write the desired state.
LEMMA WantedTaken ==
  ASSUME Inv, Wanted, NEW r \in Requests, NEW c \in Cameras,
         lock[c] \notin {Timer, Reconciler},
         \A q \in Requests \ {r} : pc[q] \in Starting => cam[q] # c,
         lock'[c] \notin {Timer, Reconciler},
         \A d \in Cameras \ {c} : desired'[d] = desired[d] /\ lock'[d] = lock[d],
         \A q \in Requests \ {r} : pc'[q] = pc[q] /\ cam'[q] = cam[q],
         pc'[r] \in Starting => cam'[r] = c /\ desired'[c] = "running"
  PROVE  Wanted'
  BY SupervisorAssumption DEF Wanted

\* Requests keep Wanted.
LEMMA WantedRequest ==
  ASSUME Inv, Wanted, NEW r \in Requests, RequestNext(r)
  PROVE  Wanted'
<1> USE SupervisorAssumption
    DEF storeVars, sessionVars, retryVars, lockVars, reqVars, nodeVars, Starting
<1>1. TypeOK BY DEF Inv, Typed
<1>2. \A q \in Requests : pc[q] \in Starting => lock[cam[q]] = q
  BY DEF Inv, Safe, LockHeld, Holding
<1>3. ASSUME NEW c \in Cameras, StartCamera(r, c) \/ StopCamera(r, c) PROVE Wanted'
  <2>1. lock[c] = Unlocked BY <1>3 DEF StartCamera, StopCamera
  <2>2. \A q \in Requests \ {r} : pc[q] \in Starting => cam[q] # c BY <1>2, <2>1
  <2>3. CASE lock' = [lock EXCEPT ![c] = r] /\ cam' = [cam EXCEPT ![r] = c]
    <3>1. desired'[c] = "running" \/ pc'[r] \notin Starting
      BY <1>1, <1>3, <2>3 DEF StartCamera, StopCamera, TypeOK
    <3> QED BY <1>1, <1>3, <2>1, <2>2, <2>3, <3>1, WantedTaken
        DEF StartCamera, StopCamera, TypeOK
  <2>4. CASE UNCHANGED <<lock, desired, pc, cam>>
    BY <2>4, WantedQuiet
  <2> QED BY <1>3, <2>3, <2>4 DEF StartCamera, StopCamera
<1>4. ASSUME NEW c \in Cameras, DeleteCamera(r, c) PROVE Wanted'
  BY <1>1, <1>4, WantedQuiet DEF DeleteCamera, TypeOK
<1>5. CASE StartFinish(r)
  BY <1>1, <1>5, WantedQuiet DEF StartFinish, Return, TypeOK
<1>6. CASE StopSignal(r)
  BY <1>1, <1>6, WantedQuiet DEF StopSignal, SignalSession, TypeOK
<1>7. CASE StopReturn(r) \/ StopAbandon(r) \/ StopDestroy(r) \/ DeleteFails(r)
  BY <1>1, <1>7, WantedQuiet
  DEF StopReturn, StopAbandon, StopDestroy, DeleteFails, Return, TypeOK
<1>8. CASE DeleteSignal(r)
  <2>1. cam[r] \in Cameras BY <1>8 DEF DeleteSignal, Inv, Typed, Targets
  <2>2. \A q \in Requests \ {r} : pc[q] \in Starting => cam[q] # cam[r]
    BY <1>2, <1>8 DEF DeleteSignal
  <2>3. pc'[r] \notin Starting /\ \A q \in Requests \ {r} : pc'[q] = pc[q]
    BY <1>1, <1>8 DEF DeleteSignal, SignalSession, TypeOK
  <2> QED BY <1>1, <1>8, <2>1, <2>2, <2>3, WantedTaken DEF DeleteSignal, TypeOK
<1>9. CASE DeleteWait(r) \/ ForgetCamera(r)
  BY <1>1, <1>9, WantedQuiet DEF DeleteWait, ForgetCamera, TypeOK
<1>10. CASE DeleteRow(r)
  <2>1. cam[r] \in Cameras /\ lock[cam[r]] = r
    BY <1>10 DEF DeleteRow, Holding, Inv, Typed, Targets, Safe, LockHeld
  <2>2. \A q \in Requests \ {r} : pc[q] \in Starting => cam[q] # cam[r] BY <1>2, <2>1
  <2> QED BY <1>1, <1>10, <2>1, <2>2, WantedTaken DEF DeleteRow, TypeOK
<1> QED BY <1>3, <1>4, <1>5, <1>6, <1>7, <1>8, <1>9, <1>10 DEF RequestNext

\* retryStart keeps Wanted: it reads the desired state under the opLock.
LEMMA WantedRetryLock ==
  ASSUME Inv, Wanted, NEW c \in Cameras, NEW me \in {Timer, Reconciler},
         NEW begins \in BOOLEAN, RetryLock(c, me, begins)
  PROVE  Wanted'
<1>1. UNCHANGED <<desired, pc, cam>> BY DEF RetryLock, storeVars, reqVars
<1>2. CASE begins
  <2>1. desired[c] = "running" /\ lock' = [lock EXCEPT ![c] = me] BY <1>2 DEF RetryLock
  <2> QED BY <1>1, <2>1, SupervisorAssumption DEF Wanted, Inv, Typed, TypeOK
<1>3. CASE ~begins BY <1>1, <1>3 DEF RetryLock, Wanted
<1> QED BY <1>2, <1>3

\* Wanted is preserved by every step.
LEMMA WantedStep == Inv /\ Wanted /\ [Next]_vars => Wanted'
<1> SUFFICES ASSUME Inv, Wanted, [Next]_vars PROVE Wanted'
  OBVIOUS
<1> USE DEF storeVars, sessionVars, retryVars, lockVars, reqVars, nodeVars
<1>1. TypeOK BY DEF Inv, Typed
<1>2. ASSUME UNCHANGED <<desired, lock, pc, cam>> PROVE Wanted' BY <1>2 DEF Wanted
<1>3. ASSUME NEW s \in Sessions, SessionNext(s) PROVE Wanted'
  BY <1>2, <1>3
  DEF SessionNext, ProvisionStopped, Provisioned, Launch, Handshake, BecomeRunning, Stable,
      TakeStop, Fail, FinishStop, FinishFail, ReadDesired, ScheduleRetry, Unmap, CloseDone
<1>4. ASSUME NEW c \in Cameras, CameraNext(c) PROVE Wanted'
  <2>1. CASE CameraExits(c) \/ DestroyEnds(c) \/ FireTimer(c) \/ CreateCamera(c)
    BY <1>2, <2>1 DEF CameraExits, DestroyEnds, FireTimer, CreateCamera
  <2>2. CASE TimerLock(c) BY <2>2, WantedRetryLock DEF TimerLock
  <2>3. CASE TimerStart(c)
    BY <1>1, <2>3, WantedQuiet DEF TimerStart, RetryFinish, TypeOK
  <2>4. CASE BootCamera(c) BY <1>1, <2>4, SupervisorAssumption DEF BootCamera, Wanted, TypeOK
  <2> QED BY <1>4, <2>1, <2>2, <2>3, <2>4 DEF CameraNext
<1>5. CASE RecNext
  <2>1. CASE RecList \/ RecVisit \/ RecLive \/ RecOrphan \/ RecDestroy \/ RecEnd
    BY <1>2, <2>1 DEF RecList, RecVisit, RecLive, RecOrphan, RecDestroy, RecEnd
  <2>2. CASE RecLock
    <3>1. rec.cam \in Cameras BY <2>2 DEF RecLock, Inv, Typed, Targets
    <3> QED BY <2>2, <3>1, WantedRetryLock DEF RecLock
  <2>3. CASE RecStart BY <1>1, <2>3, WantedQuiet DEF RecStart, RetryFinish, TypeOK
  <2> QED BY <1>5, <2>1, <2>2, <2>3 DEF RecNext
<1>6. CASE NodeNext
  <2>1. CASE BootList \/ BootDone \/ Shutdown \/ CancelBase \/ RunReturns
    BY <1>2, <2>1 DEF BootList, BootDone, Shutdown, CancelBase, RunReturns
  <2>2. CASE Exit \/ Crash
    BY <2>2, SupervisorAssumption DEF Exit, Crash, ForgetMemory, Wanted, Starting
  <2> QED BY <1>6, <2>1, <2>2 DEF NodeNext
<1>7. CASE UNCHANGED vars BY <1>2, <1>7 DEF vars
<1> QED BY <1>3, <1>4, <1>5, <1>6, <1>7, WantedRequest DEF Next

\* A step that puts a session in the map finds the camera wanted running.
LEMMA StartIsWanted ==
  ASSUME Inv, Wanted, [Next]_vars, NEW c \in Autostart,
         sessions[c] = NoSession, sessions'[c] # NoSession
  PROVE  desired[c] = "running"
<1> USE SupervisorAssumption DEF storeVars, sessionVars, retryVars, lockVars, reqVars, nodeVars
<1>1. TypeOK /\ c \in Cameras BY DEF Inv, Typed
<1>2. ASSUME NEW s \in Sessions, SessionNext(s) PROVE FALSE
  <2>1. UNCHANGED sessions \/ Unmap(s)
    BY <1>2
    DEF SessionNext, ProvisionStopped, Provisioned, Launch, Handshake, BecomeRunning, Stable,
        TakeStop, Fail, FinishStop, FinishFail, ReadDesired, ScheduleRetry, CloseDone
  <2> QED BY <1>1, <2>1 DEF Unmap, TypeOK
<1>3. ASSUME NEW r \in Requests, RequestNext(r) PROVE desired[c] = "running"
  <2>1. UNCHANGED sessions \/ StartFinish(r)
    BY <1>3
    DEF RequestNext, StartCamera, StopCamera, DeleteCamera, StopSignal, StopReturn, StopAbandon,
        StopDestroy, DeleteSignal, DeleteWait, DeleteRow, DeleteFails, ForgetCamera
  <2>2. CASE StartFinish(r)
    <3>1. cam[r] = c BY <1>1, <2>2 DEF StartFinish, StartSession, TypeOK
    <3> QED BY <2>2, <3>1 DEF StartFinish, Wanted, Starting
  <2> QED BY <2>1, <2>2
<1>4. ASSUME NEW d \in Cameras, lock[d] \in {Timer, Reconciler}, RetryFinish(d)
      PROVE  desired[c] = "running"
  <2>1. d = c BY <1>1, <1>4 DEF RetryFinish, StartSession, TypeOK
  <2> QED BY <1>4, <2>1 DEF Wanted
<1>5. ASSUME NEW d \in Cameras, CameraNext(d) PROVE desired[c] = "running"
  <2>1. UNCHANGED sessions \/ TimerStart(d)
    BY <1>5
    DEF CameraNext, CameraExits, DestroyEnds, FireTimer, TimerLock, RetryLock, CreateCamera,
        BootCamera
  <2> QED BY <1>4, <2>1 DEF TimerStart
<1>6. CASE RecNext
  <2>1. UNCHANGED sessions \/ RecStart
    BY <1>6
    DEF RecNext, RecList, RecVisit, RecLock, RetryLock, RecLive, RecOrphan, RecDestroy, RecEnd
  <2>2. CASE RecStart
    <3>1. rec.cam \in Cameras /\ lock[rec.cam] = Reconciler
      BY <2>2 DEF RecStart, Inv, Safe, LockHeld, Typed, Targets
    <3> QED BY <1>4, <2>2, <3>1 DEF RecStart
  <2> QED BY <2>1, <2>2
<1>7. CASE NodeNext
  <2>1. UNCHANGED sessions \/ sessions' = [d \in Cameras |-> NoSession]
    BY <1>7 DEF NodeNext, BootList, BootDone, Shutdown, CancelBase, RunReturns, Exit, Crash,
                ForgetMemory
  <2> QED BY <1>1, <2>1
<1>8. CASE UNCHANGED vars BY <1>8 DEF vars
<1> QED BY <1>2, <1>3, <1>5, <1>6, <1>7, <1>8 DEF Next

\* No retry timer, no reconciler pass and no request starts a camera against
\* a stop that has been stored, for any number of cameras and requests.
THEOREM StartsOnlyWhenDesiredAlways == Spec => StartsOnlyWhenDesired
<1>1. Init => Wanted
  BY SupervisorAssumption DEF Init, Wanted, Starting
<1>2. Inv /\ Wanted /\ [Next]_vars =>
        [\A c \in Autostart :
           (sessions[c] = NoSession /\ sessions'[c] # NoSession) => desired[c] = "running"]_vars
  BY StartIsWanted
<1> QED BY <1>1, <1>2, Invariance, WantedStep, PTL DEF Spec, StartsOnlyWhenDesired

-----------------------------------------------------------------------------
(* The stored status settles *)

\* What the status of a camera that is at rest may be.
Rest == {"stopped", "error"}

\* Where a session's run has saved its outcome and is still in the map.
Over == {"failed", "retrying", "ending"}

\* The inductive form of StatusSettles: a session saves its outcome before it
\* leaves the map, and no row but a present one is ever written.
Settled ==
  /\ \A s \in Sessions : phase[s] \in Over => status[owner[s]] \in Rest
  /\ \A c \in Cameras : row[c] # "present" => status[c] \in Rest
  /\ StatusSettles

\* A step that writes no status, row or map entry, and after which no run is
\* newly over, keeps Settled.
LEMMA SettledQuiet ==
  ASSUME Settled, UNCHANGED <<row, status, sessions, toBoot>>,
         node' = node \/ node # "down",
         \A s \in Sessions : phase'[s] \in Over => phase[s] \in Over /\ owner'[s] = owner[s]
  PROVE  Settled'
  BY DEF Settled, StatusSettles

\* A step that saves a status keeps Settled when the status is one of rest, or
\* when the camera has a session whose run is not over.
LEMMA SettledSave ==
  ASSUME Typed, Settled, NEW c \in Cameras, NEW st \in CameraState, SaveStatus(c, st),
         UNCHANGED <<row, node>>, toBoot' \in {toBoot, toBoot \ {c}},
         \A d \in Cameras : d # c => sessions'[d] = sessions[d],
         \A s \in Sessions : phase'[s] \in Over =>
           owner'[s] \in Cameras
             /\ (owner'[s] = c \/ (phase[s] \in Over /\ owner'[s] = owner[s])),
         \/ st \in Rest
         \/ /\ sessions'[c] # NoSession
            /\ \A s \in Sessions : owner'[s] = c => phase'[s] \notin Over
  PROVE  Settled'
<1> USE DEF Typed, TypeOK
<1>1. \A d \in Cameras : d # c => status'[d] = status[d] BY DEF SaveStatus
<1>2. st \in Rest => status'[c] \in Rest BY DEF SaveStatus, Settled
<1>3. \A s \in Sessions : phase'[s] \in Over => status'[owner'[s]] \in Rest
  BY <1>1, <1>2 DEF Settled
<1>4. \A d \in Cameras : row'[d] # "present" => status'[d] \in Rest
  BY <1>1 DEF SaveStatus, Settled
<1>5. StatusSettles'
  BY <1>1, <1>2 DEF Settled, StatusSettles, Rest
<1> QED BY <1>3, <1>4, <1>5 DEF Settled

\* startSession keeps Settled: the camera had no session, so none is over.
LEMMA SettledStart ==
  ASSUME Inv, Settled, NEW c \in Cameras, sessions[c] = NoSession, StartSession(c),
         UNCHANGED <<row, node, toBoot>>
  PROVE  Settled'
<1> USE DEF Inv, Typed, TypeOK
<1>1. PICK s \in Sessions : StartSession(c)!(s) BY DEF StartSession
<1>2. sessions'[c] # NoSession /\ phase'[s] \notin Over /\ owner'[s] = c
  BY <1>1, SupervisorAssumption DEF Over
<1>3. ASSUME NEW t \in Sessions, t # s, phase[t] \in Over PROVE owner[t] \in Cameras \ {c}
  BY <1>3, SupervisorAssumption DEF Over, Safe, OneSession, Mapped
<1>4. \A t \in Sessions : t # s => phase'[t] = phase[t] /\ owner'[t] = owner[t] BY <1>1
<1>5. \A t \in Sessions : owner'[t] = c => phase'[t] \notin Over BY <1>2, <1>3, <1>4
<1>6. \A t \in Sessions : phase'[t] \in Over =>
        owner'[t] \in Cameras /\ phase[t] \in Over /\ owner'[t] = owner[t]
  BY <1>2, <1>3, <1>4
<1>7. \A d \in Cameras : d # c => sessions'[d] = sessions[d] BY <1>1
<1>8. SaveStatus(c, "provisioning") /\ "provisioning" \in CameraState BY <1>1 DEF CameraState
<1> QED BY <1>2, <1>5, <1>6, <1>7, <1>8, SettledSave

\* A session that saves a status on its way keeps Settled: no other session of
\* its camera is at work.
LEMMA SettledMove ==
  ASSUME Inv, Settled, NEW s \in Sessions, Mapped(s), NEW p \in Phase, NEW st \in CameraState,
         phase' = [phase EXCEPT ![s] = p], SaveStatus(owner[s], st),
         st \in Rest \/ p \notin Over,
         UNCHANGED <<row, node, toBoot, sessions, owner>>
  PROVE  Settled'
<1> USE DEF Inv, Typed, TypeOK
<1>1. owner[s] \in Cameras /\ sessions[owner[s]] = s /\ s # NoSession
  BY SupervisorAssumption DEF Safe, OneSession
<1>2. ASSUME NEW t \in Sessions, t # s, phase[t] \in Over
      PROVE  owner[t] \in Cameras /\ owner[t] # owner[s]
  BY <1>1, <1>2 DEF Over, Safe, OneSession, Mapped
<1>3. \A t \in Sessions : t # s => phase'[t] = phase[t] OBVIOUS
<1>4. phase'[s] = p OBVIOUS
<1>5. \A t \in Sessions : phase'[t] \in Over =>
        owner'[t] \in Cameras
          /\ (owner'[t] = owner[s] \/ (phase[t] \in Over /\ owner'[t] = owner[t]))
  BY <1>1, <1>2, <1>3
<1>6. p \notin Over => \A t \in Sessions : owner'[t] = owner[s] => phase'[t] \notin Over
  BY <1>2, <1>3, <1>4
<1> QED BY <1>1, <1>5, <1>6, SettledSave

\* Every step of a session's run keeps Settled.
LEMMA SettledSession ==
  ASSUME Inv, Settled, NEW s \in Sessions, SessionNext(s)
  PROVE  Settled'
<1> USE DEF storeVars, sessionVars, retryVars, lockVars, reqVars, nodeVars
<1>1. Typed /\ TypeOK BY DEF Inv, Typed
<1>2. ASSUME NEW p, p \notin Over \/ phase[s] \in Over, phase' = [phase EXCEPT ![s] = p],
             UNCHANGED <<row, status, sessions, owner, node, toBoot>>
      PROVE  Settled'
  BY <1>1, <1>2, SettledQuiet DEF TypeOK
<1>3. CASE ProvisionStopped(s) \/ Launch(s) \/ BecomeRunning(s) \/ TakeStop(s)
  <2>1. PICK p \in Phase \ Over, st \in CameraState :
          phase' = [phase EXCEPT ![s] = p] /\ SaveStatus(owner[s], st)
    BY <1>3
    DEF ProvisionStopped, Launch, BecomeRunning, TakeStop, Phase, Over, CameraState
  <2>2. Mapped(s)
    BY <1>3 DEF ProvisionStopped, Launch, BecomeRunning, TakeStop, Mapped
  <2>3. UNCHANGED <<row, node, toBoot, sessions, owner>>
    BY <1>3 DEF ProvisionStopped, Launch, BecomeRunning, TakeStop
  <2> QED BY <2>1, <2>2, <2>3, SettledMove
<1>4. CASE Provisioned(s) \/ Handshake(s) \/ Fail(s)
  <2>1. \E p : p \notin Over /\ phase' = [phase EXCEPT ![s] = p]
    BY <1>4 DEF Provisioned, Handshake, Fail, Over
  <2> QED BY <1>2, <1>4, <2>1 DEF Provisioned, Handshake, Fail
<1>5. CASE Stable(s) BY <1>5, SettledQuiet DEF Stable
<1>6. CASE FinishStop(s)
  BY <1>6, SettledMove DEF FinishStop, Mapped, Phase, CameraState, Rest
<1>7. CASE FinishFail(s)
  BY <1>7, SettledMove DEF FinishFail, Mapped, Phase, CameraState, Rest
<1>8. CASE ReadDesired(s) BY <1>2, <1>8 DEF ReadDesired, Over
<1>9. CASE ScheduleRetry(s) BY <1>2, <1>9 DEF ScheduleRetry, Over
<1>10. CASE Unmap(s)
  <2>1. Mapped(s) BY <1>10 DEF Unmap, Mapped
  <2>2. owner[s] \in Cameras /\ status[owner[s]] \in Rest
    BY <1>10, <2>1 DEF Unmap, Over, Settled, Inv, Safe, OneSession
  <2>3. \A c \in Cameras : sessions'[c] = NoSession => sessions[c] = NoSession \/ c = owner[s]
    BY <1>1, <1>10 DEF Unmap, TypeOK
  <2>4. StatusSettles'
    BY <1>10, <2>2, <2>3 DEF Unmap, Settled, StatusSettles, Rest
  <2>5. \A t \in Sessions : phase'[t] \in Over => phase[t] \in Over
    BY <1>1, <1>10 DEF Unmap, TypeOK, Over
  <2> QED BY <1>10, <2>4, <2>5 DEF Unmap, Settled
<1>11. CASE CloseDone(s)
  BY <1>1, <1>11, SettledQuiet DEF CloseDone, TypeOK, Over
<1> QED BY <1>3, <1>4, <1>5, <1>6, <1>7, <1>8, <1>9, <1>10, <1>11 DEF SessionNext

\* A step of a request or of the reconciler that saves a status keeps Settled
\* when the sessions stay.
LEMMA SettledRest ==
  ASSUME Inv, Settled, NEW c \in Cameras, NEW st \in Rest, SaveStatus(c, st),
         UNCHANGED <<row, node, sessions, phase, owner>>, toBoot' \in {toBoot, toBoot \ {c}}
  PROVE  Settled'
<1>1. \A s \in Sessions : phase'[s] \in Over =>
        owner'[s] \in Cameras /\ phase[s] \in Over /\ owner'[s] = owner[s]
  BY DEF Over, Inv, Safe, OneSession, Mapped
<1>2. Typed /\ st \in CameraState BY DEF Inv, Rest, CameraState
<1> QED BY <1>1, <1>2, SettledSave

\* Every step of a request keeps Settled.
LEMMA SettledRequest ==
  ASSUME Inv, Settled, NEW r \in Requests, RequestNext(r)
  PROVE  Settled'
<1> USE DEF storeVars, sessionVars, retryVars, lockVars, reqVars, nodeVars
<1>1. Typed /\ TypeOK BY DEF Inv, Typed
<1>2. ASSUME NEW c \in Cameras, StartCamera(r, c) \/ StopCamera(r, c) \/ DeleteCamera(r, c)
      PROVE  Settled'
  BY <1>2, SettledQuiet DEF StartCamera, StopCamera, DeleteCamera
<1>3. CASE StartFinish(r)
  <2>1. cam[r] \in Cameras BY <1>1, <1>3 DEF StartFinish, Typed, Targets
  <2>2. CASE sessions[cam[r]] = NoSession
    BY <1>3, <2>1, <2>2, SettledStart DEF StartFinish
  <2>3. CASE sessions[cam[r]] # NoSession
    BY <1>3, <2>3, SettledQuiet DEF StartFinish
  <2> QED BY <2>2, <2>3
<1>4. CASE StopSignal(r) \/ StopReturn(r) \/ StopAbandon(r) \/ DeleteSignal(r)
             \/ DeleteWait(r) \/ DeleteFails(r) \/ ForgetCamera(r)
  BY <1>4, SettledQuiet
  DEF StopSignal, StopReturn, StopAbandon, DeleteSignal, DeleteWait, DeleteFails, ForgetCamera
<1>5. CASE StopDestroy(r)
  <2>1. cam[r] \in Cameras BY <1>1, <1>5 DEF StopDestroy, Typed, Targets
  <2> QED BY <1>5, <2>1, SettledRest DEF StopDestroy, Rest
<1>6. CASE DeleteRow(r)
  <2>1. status' = [status EXCEPT ![cam[r]] = "stopped"]
        /\ row' = [row EXCEPT ![cam[r]] = "deleted"]
        /\ UNCHANGED <<sessions, phase, owner, node, toBoot>>
    BY <1>6 DEF DeleteRow
  <2>2. \A c \in Cameras : status'[c] = status[c] \/ status'[c] \in Rest
    BY <1>1, <2>1 DEF TypeOK, Rest
  <2>3. \A c \in Cameras : row'[c] # "present" => row[c] # "present" \/ status'[c] \in Rest
    BY <1>1, <2>1 DEF TypeOK, Rest
  <2>4. \A s \in Sessions : phase[s] \in Over => owner[s] \in Cameras
    BY DEF Over, Inv, Safe, OneSession, Mapped
  <2> QED BY <2>1, <2>2, <2>3, <2>4 DEF Settled, StatusSettles, Rest
<1> QED BY <1>2, <1>3, <1>4, <1>5, <1>6 DEF RequestNext

\* The second half of retryStart, with the opLock held, keeps Settled.
LEMMA SettledRetryFinish ==
  ASSUME Inv, Settled, NEW c \in Cameras, lock[c] \in {Timer, Reconciler}, RetryFinish(c)
  PROVE  Settled'
<1> USE DEF sessionVars, nodeVars
<1>1. sessions[c] = NoSession BY DEF Inv, Safe, LockHeld
<1>2. UNCHANGED <<row, node, toBoot>> BY DEF RetryFinish
<1>3. CASE StartSession(c) BY <1>1, <1>2, <1>3, SettledStart
<1>4. CASE SaveStatus(c, "error") /\ UNCHANGED sessionVars
  BY <1>2, <1>4, SettledRest DEF Rest
<1>5. CASE UNCHANGED <<status, sessionVars>> BY <1>2, <1>5, SettledQuiet
<1> QED BY <1>3, <1>4, <1>5 DEF RetryFinish

\* Settled is preserved by every step.
LEMMA SettledStep == Inv /\ Settled /\ [Next]_vars => Settled'
<1> SUFFICES ASSUME Inv, Settled, [Next]_vars PROVE Settled'
  OBVIOUS
<1> USE DEF storeVars, sessionVars, retryVars, lockVars, reqVars, nodeVars
<1>1. TypeOK BY DEF Inv, Typed
<1>2. ASSUME UNCHANGED <<row, status, sessions, phase, owner, node, toBoot>> PROVE Settled'
  BY <1>2, SettledQuiet
<1>3. ASSUME NEW c \in Cameras, CameraNext(c) PROVE Settled'
  <2>1. CASE CameraExits(c) \/ DestroyEnds(c) \/ FireTimer(c) \/ TimerLock(c)
    BY <1>2, <2>1 DEF CameraExits, DestroyEnds, FireTimer, TimerLock, RetryLock
  <2>2. CASE TimerStart(c) BY <2>2, SettledRetryFinish DEF TimerStart
  <2>3. CASE CreateCamera(c)
    BY <1>1, <2>3 DEF CreateCamera, Settled, StatusSettles, TypeOK
  <2>4. CASE BootCamera(c) BY <2>4, SettledRest DEF BootCamera, Rest
  <2> QED BY <1>3, <2>1, <2>2, <2>3, <2>4 DEF CameraNext
<1>4. CASE RecNext
  <2>1. CASE RecList \/ RecLive BY <1>2, <2>1 DEF RecList, RecLive
  <2>5. CASE RecOrphan BY <1>2, <2>5 DEF RecOrphan
  <2>6. CASE RecDestroy \/ RecEnd BY <1>2, <2>6 DEF RecDestroy, RecEnd
  <2>3. CASE RecVisit BY <1>2, <2>3 DEF RecVisit
  <2>4. CASE RecLock BY <1>2, <2>4 DEF RecLock, RetryLock
  <2>2. CASE RecStart
    <3>1. rec.cam \in Cameras /\ lock[rec.cam] = Reconciler
      BY <2>2 DEF RecStart, Inv, Safe, LockHeld, Typed, Targets
    <3> QED BY <2>2, <3>1, SettledRetryFinish DEF RecStart
  <2> QED BY <1>4, <2>1, <2>2, <2>3, <2>4, <2>5, <2>6 DEF RecNext
<1>5. CASE NodeNext
  <2>1. CASE BootList BY <2>1 DEF BootList, Settled, StatusSettles, Rest
  <2>2. CASE BootDone \/ Shutdown \/ CancelBase \/ RunReturns
    <3>1. node # "down" BY <2>2 DEF BootDone, Shutdown, CancelBase, RunReturns
    <3> QED BY <2>2, <3>1 DEF BootDone, Shutdown, CancelBase, RunReturns, Settled, StatusSettles
  <2>3. CASE Exit \/ Crash
    BY <2>3 DEF Exit, Crash, ForgetMemory, Settled, StatusSettles, Over
  <2> QED BY <1>5, <2>1, <2>2, <2>3 DEF NodeNext
<1>6. CASE UNCHANGED vars BY <1>2, <1>6 DEF vars
<1> QED BY <1>3, <1>4, <1>5, <1>6, SettledSession, SettledRequest DEF Next

\* It holds in every state.
LEMMA SettledAlways == Spec => []Settled
<1>1. Init => Settled
  BY DEF Init, Settled, StatusSettles, Over, Rest
<1> QED BY <1>1, Invariance, SettledStep, PTL DEF Spec

\* Once bootCameras has handled a camera, the status stored for it while it
\* has no session is stopped or error: no late setState of an old session
\* overwrites the outcome.
THEOREM StatusSettlesAlways == Spec => []StatusSettles
<1>1. Settled => StatusSettles BY DEF Settled
<1> QED BY <1>1, SettledAlways, PTL

-----------------------------------------------------------------------------
(* StopCamera leaves nothing *)

\* StopCamera keeps the opLock while it waits: only the session it waits for,
\* or none, is in the map, and what that one saved last is at rest.
Waiting ==
  /\ \A r \in Requests : pc[r] = "stop.destroy" => sessions[cam[r]] = NoSession
  /\ \A r \in Requests : pc[r] = "stop.wait" =>
       /\ wait[r] \in Sessions
       /\ sessions[cam[r]] \in {NoSession, wait[r]}
       /\ sessions[cam[r]] = NoSession => status[cam[r]] \in Rest

\* Where StopCamera is past its signal.
Signalled == {"stop.wait", "stop.destroy"}

\* A camera that a StopCamera is about.
Stopped(c) == \E r \in Requests : pc[r] \in Signalled /\ cam[r] = c

\* The camera StopCamera is about gets no session and no status but those of
\* its own session's end.
LEMMA WaitingKept ==
  ASSUME Typed, Waiting,
         \A r \in Requests : pc'[r] \in Signalled =>
           pc'[r] = pc[r] /\ cam'[r] = cam[r] /\ wait'[r] = wait[r],
         \A c \in Cameras : \/ sessions'[c] = sessions[c]
                            \/ sessions'[c] = NoSession /\ status'[c] \in Rest
                            \/ ~Stopped(c),
         \A c \in Cameras : \/ status'[c] = status[c]
                            \/ status'[c] \in Rest
                            \/ sessions'[c] # NoSession
  PROVE  Waiting'
<1>1. ASSUME NEW r \in Requests, pc'[r] = "stop.destroy" PROVE sessions'[cam'[r]] = NoSession
  <2>1. pc[r] = "stop.destroy" /\ cam'[r] = cam[r] BY <1>1 DEF Signalled
  <2>2. cam[r] \in Cameras /\ Stopped(cam[r]) BY <2>1 DEF Typed, Targets, Stopped, Signalled
  <2> QED BY <2>1, <2>2 DEF Waiting
<1>2. ASSUME NEW r \in Requests, pc'[r] = "stop.wait"
      PROVE  /\ wait'[r] \in Sessions
             /\ sessions'[cam'[r]] \in {NoSession, wait'[r]}
             /\ sessions'[cam'[r]] = NoSession => status'[cam'[r]] \in Rest
  <2>1. pc[r] = "stop.wait" /\ cam'[r] = cam[r] /\ wait'[r] = wait[r] BY <1>2 DEF Signalled
  <2>2. cam[r] \in Cameras /\ Stopped(cam[r]) BY <2>1 DEF Typed, Targets, Stopped, Signalled
  <2> QED BY <2>1, <2>2 DEF Waiting
<1> QED BY <1>1, <1>2 DEF Waiting

\* Whoever starts a session holds the opLock, and so no StopCamera waits.
LEMMA NobodyStops ==
  ASSUME Inv, NEW c \in Cameras, NEW h, lock[c] = h, h \notin Requests \/ pc[h] \notin Signalled
  PROVE  ~Stopped(c)
<1> SUFFICES ASSUME NEW r \in Requests, pc[r] \in Signalled, cam[r] = c PROVE FALSE
  BY DEF Stopped
<1>1. lock[c] = r BY DEF Inv, Safe, LockHeld, Holding, Signalled
<1> QED BY <1>1

\* A session's run keeps Waiting: what it saves is kept in the map until it is
\* at rest.
LEMMA WaitingSession ==
  ASSUME Inv, Settled, Waiting, NEW s \in Sessions, SessionNext(s)
  PROVE  Waiting'
<1> USE DEF storeVars, sessionVars, retryVars, lockVars, reqVars, nodeVars
<1>1. Typed /\ TypeOK BY DEF Inv, Typed
<1>2. UNCHANGED <<pc, cam, wait>>
  BY DEF SessionNext, ProvisionStopped, Provisioned, Launch, Handshake, BecomeRunning, Stable,
      TakeStop, Fail, FinishStop, FinishFail, ReadDesired, ScheduleRetry, Unmap, CloseDone
<1>3. CASE Unmap(s)
  <2>1. owner[s] \in Cameras /\ status[owner[s]] \in Rest
    BY <1>3 DEF Unmap, Over, Settled, Inv, Safe, OneSession, Mapped
  <2>2. \A c \in Cameras : sessions'[c] = sessions[c] \/ (sessions'[c] = NoSession /\ c = owner[s])
    BY <1>1, <1>3 DEF Unmap, TypeOK
  <2>3. UNCHANGED status BY <1>3 DEF Unmap
  <2> QED BY <1>1, <1>2, <2>1, <2>2, <2>3, WaitingKept
<1>4. CASE ~Unmap(s)
  <2>1. UNCHANGED sessions
    BY <1>4
    DEF SessionNext, ProvisionStopped, Provisioned, Launch, Handshake, BecomeRunning, Stable,
        TakeStop, Fail, FinishStop, FinishFail, ReadDesired, ScheduleRetry, CloseDone
  <2>2. UNCHANGED status \/ (Mapped(s) /\ \E st : SaveStatus(owner[s], st))
    BY <1>4
    DEF SessionNext, ProvisionStopped, Provisioned, Launch, Handshake, BecomeRunning, Stable,
        TakeStop, Fail, FinishStop, FinishFail, ReadDesired, ScheduleRetry, CloseDone, Mapped
  <2>3. \A c \in Cameras : status'[c] = status[c] \/ sessions'[c] # NoSession
    BY <1>1, <2>1, <2>2, SupervisorAssumption DEF SaveStatus, Inv, Safe, OneSession, TypeOK
  <2> QED BY <1>1, <1>2, <2>1, <2>3, WaitingKept
<1> QED BY <1>3, <1>4

\* startSession keeps Waiting.
LEMMA WaitingStart ==
  ASSUME Inv, Waiting, NEW c \in Cameras, ~Stopped(c), StartSession(c),
         \A r \in Requests : pc'[r] \in Signalled =>
           pc'[r] = pc[r] /\ cam'[r] = cam[r] /\ wait'[r] = wait[r]
  PROVE  Waiting'
<1>1. Typed /\ TypeOK BY DEF Inv, Typed
<1>2. PICK s \in Sessions : StartSession(c)!(s) BY DEF StartSession
<1>3. sessions'[c] # NoSession BY <1>1, <1>2, SupervisorAssumption DEF TypeOK
<1>4. \A d \in Cameras : d # c => sessions'[d] = sessions[d] /\ status'[d] = status[d]
  BY <1>1, <1>2 DEF TypeOK, SaveStatus
<1> QED BY <1>1, <1>3, <1>4, WaitingKept

\* The second half of retryStart, with the opLock held, keeps Waiting.
LEMMA WaitingRetryFinish ==
  ASSUME Inv, Waiting, NEW c \in Cameras, lock[c] \in {Timer, Reconciler}, RetryFinish(c)
  PROVE  Waiting'
<1> USE DEF reqVars
<1>1. Typed /\ TypeOK BY DEF Inv, Typed
<1>2. ~Stopped(c) BY NobodyStops, SupervisorAssumption
<1>3. UNCHANGED <<pc, cam, wait>> BY DEF RetryFinish
<1>4. CASE StartSession(c) BY <1>2, <1>3, <1>4, WaitingStart
<1>5. CASE SaveStatus(c, "error") /\ UNCHANGED sessionVars
  <2>1. \A d \in Cameras : status'[d] = status[d] \/ status'[d] \in Rest
    BY <1>1, <1>5 DEF SaveStatus, TypeOK, Rest
  <2>2. UNCHANGED sessions BY <1>5 DEF sessionVars
  <2> QED BY <1>1, <1>3, <2>1, <2>2, WaitingKept
<1>6. CASE UNCHANGED <<status, sessionVars>>
  BY <1>1, <1>3, <1>6, WaitingKept DEF sessionVars
<1> QED BY <1>4, <1>5, <1>6 DEF RetryFinish

\* Every step of a request keeps Waiting.
LEMMA WaitingRequest ==
  ASSUME Inv, Waiting, NEW r \in Requests, RequestNext(r)
  PROVE  Waiting'
<1> USE DEF storeVars, sessionVars, retryVars, lockVars, reqVars, nodeVars
<1>1. Typed /\ TypeOK BY DEF Inv, Typed
<1>2. ASSUME UNCHANGED <<status, sessions>>,
             \A q \in Requests : pc'[q] \in Signalled =>
               pc'[q] = pc[q] /\ cam'[q] = cam[q] /\ wait'[q] = wait[q]
      PROVE  Waiting'
  BY <1>1, <1>2, WaitingKept
<1>3. ASSUME NEW c \in Cameras, StartCamera(r, c) \/ DeleteCamera(r, c) PROVE Waiting'
  BY <1>1, <1>2, <1>3 DEF StartCamera, DeleteCamera, Signalled, TypeOK
<1>4. ASSUME NEW c \in Cameras, StopCamera(r, c) PROVE Waiting'
  BY <1>1, <1>2, <1>4 DEF StopCamera, Signalled, TypeOK
<1>5. CASE StartFinish(r)
  <2>1. cam[r] \in Cameras /\ lock[cam[r]] = r /\ pc[r] \notin Signalled
    BY <1>5 DEF StartFinish, Holding, Signalled, Inv, Safe, LockHeld, Typed, Targets
  <2>2. ~Stopped(cam[r]) BY <2>1, NobodyStops
  <2>3. \A q \in Requests : pc'[q] \in Signalled =>
          pc'[q] = pc[q] /\ cam'[q] = cam[q] /\ wait'[q] = wait[q]
    BY <1>1, <1>5 DEF StartFinish, Return, Signalled, TypeOK
  <2>4. CASE StartSession(cam[r]) BY <2>1, <2>2, <2>3, <2>4, WaitingStart
  <2>5. CASE UNCHANGED <<status, sessionVars>> BY <1>2, <2>3, <2>5
  <2> QED BY <1>5, <2>4, <2>5 DEF StartFinish
<1>6. CASE StopSignal(r)
  <2>1. SignalSession(r, "stop.destroy", "stop.wait") /\ UNCHANGED <<status, sessions, cam>>
    BY <1>6 DEF StopSignal
  <2>2. \A q \in Requests : q # r => pc'[q] = pc[q] /\ wait'[q] = wait[q]
    BY <1>1, <2>1 DEF SignalSession, TypeOK
  <2>3. CASE sessions[cam[r]] = NoSession
    BY <1>1, <2>1, <2>2, <2>3 DEF SignalSession, Waiting, TypeOK
  <2>4. CASE sessions[cam[r]] # NoSession
    <3>1. pc'[r] = "stop.wait" /\ wait'[r] = sessions[cam[r]]
      BY <1>1, <2>1, <2>4 DEF SignalSession, TypeOK
    <3>2. cam[r] \in Cameras BY <1>1, <1>6 DEF StopSignal, Typed, Targets
    <3>3. wait'[r] \in Sessions BY <1>1, <2>4, <3>1, <3>2 DEF TypeOK
    <3> QED BY <2>1, <2>2, <2>4, <3>1, <3>3 DEF Waiting
  <2> QED BY <2>3, <2>4
<1>7. CASE StopReturn(r) \/ StopAbandon(r) \/ DeleteFails(r)
  BY <1>1, <1>2, <1>7 DEF StopReturn, StopAbandon, DeleteFails, Return, Signalled, TypeOK
<1>8. CASE StopDestroy(r)
  <2>1. \A q \in Requests : pc'[q] \in Signalled =>
          pc'[q] = pc[q] /\ cam'[q] = cam[q] /\ wait'[q] = wait[q]
    BY <1>1, <1>8 DEF StopDestroy, Return, Signalled, TypeOK
  <2>2. \A d \in Cameras : status'[d] = status[d] \/ status'[d] \in Rest
    BY <1>1, <1>8 DEF StopDestroy, SaveStatus, TypeOK, Rest
  <2>3. UNCHANGED sessions BY <1>8 DEF StopDestroy
  <2> QED BY <1>1, <2>1, <2>2, <2>3, WaitingKept
<1>9. CASE DeleteSignal(r)
  BY <1>1, <1>2, <1>9 DEF DeleteSignal, SignalSession, Signalled, TypeOK
<1>10. CASE DeleteWait(r) \/ ForgetCamera(r)
  BY <1>1, <1>2, <1>10 DEF DeleteWait, ForgetCamera, Signalled, TypeOK
<1>11. CASE DeleteRow(r)
  <2>1. \A q \in Requests : pc'[q] \in Signalled =>
          pc'[q] = pc[q] /\ cam'[q] = cam[q] /\ wait'[q] = wait[q]
    BY <1>1, <1>11 DEF DeleteRow, Signalled, TypeOK
  <2>2. \A d \in Cameras : status'[d] = status[d] \/ status'[d] \in Rest
    BY <1>1, <1>11 DEF DeleteRow, TypeOK, Rest
  <2>3. UNCHANGED sessions BY <1>11 DEF DeleteRow
  <2> QED BY <1>1, <2>1, <2>2, <2>3, WaitingKept
<1> QED BY <1>3, <1>4, <1>5, <1>6, <1>7, <1>8, <1>9, <1>10, <1>11 DEF RequestNext

\* Waiting is preserved by every step.
LEMMA WaitingStep == Inv /\ Settled /\ Waiting /\ [Next]_vars => Waiting'
<1> SUFFICES ASSUME Inv, Settled, Waiting, [Next]_vars PROVE Waiting'
  OBVIOUS
<1> USE DEF storeVars, sessionVars, retryVars, lockVars, reqVars, nodeVars
<1>1. Typed /\ TypeOK BY DEF Inv, Typed
<1>2. ASSUME UNCHANGED <<status, sessions, pc, cam, wait>> PROVE Waiting'
  BY <1>1, <1>2, WaitingKept
<1>3. ASSUME NEW c \in Cameras, CameraNext(c) PROVE Waiting'
  <2>1. CASE CameraExits(c) \/ DestroyEnds(c) \/ FireTimer(c) \/ TimerLock(c) \/ CreateCamera(c)
    BY <1>2, <2>1 DEF CameraExits, DestroyEnds, FireTimer, TimerLock, RetryLock, CreateCamera
  <2>2. CASE TimerStart(c) BY <2>2, WaitingRetryFinish DEF TimerStart
  <2>3. CASE BootCamera(c)
    <3>1. \A d \in Cameras : status'[d] = status[d] \/ status'[d] \in Rest
      BY <1>1, <2>3 DEF BootCamera, SaveStatus, TypeOK, Rest
    <3>2. UNCHANGED <<sessions, pc, cam, wait>> BY <2>3 DEF BootCamera
    <3> QED BY <1>1, <3>1, <3>2, WaitingKept
  <2> QED BY <1>3, <2>1, <2>2, <2>3 DEF CameraNext
<1>4. CASE RecNext
  <2>1. CASE RecList \/ RecLive BY <1>2, <2>1 DEF RecList, RecLive
  <2>2. CASE RecVisit BY <1>2, <2>2 DEF RecVisit
  <2>3. CASE RecLock BY <1>2, <2>3 DEF RecLock, RetryLock
  <2>4. CASE RecStart
    <3>1. rec.cam \in Cameras /\ lock[rec.cam] = Reconciler
      BY <2>4 DEF RecStart, Inv, Safe, LockHeld, Typed, Targets
    <3> QED BY <2>4, <3>1, WaitingRetryFinish DEF RecStart
  <2>5. CASE RecOrphan BY <1>2, <2>5 DEF RecOrphan
  <2>6. CASE RecDestroy \/ RecEnd BY <1>2, <2>6 DEF RecDestroy, RecEnd
  <2> QED BY <1>4, <2>1, <2>2, <2>3, <2>4, <2>5, <2>6 DEF RecNext
<1>5. CASE NodeNext
  <2>1. CASE BootList \/ BootDone \/ Shutdown \/ CancelBase \/ RunReturns
    BY <1>2, <2>1 DEF BootList, BootDone, Shutdown, CancelBase, RunReturns
  <2>2. CASE Exit \/ Crash BY <2>2 DEF Exit, Crash, ForgetMemory, Waiting
  <2> QED BY <1>5, <2>1, <2>2 DEF NodeNext
<1>6. CASE UNCHANGED vars BY <1>2, <1>6 DEF vars
<1> QED BY <1>3, <1>4, <1>5, <1>6, WaitingSession, WaitingRequest DEF Next

\* Where a StopCamera that succeeds leaves its camera.
Gone(c) ==
  /\ sessions'[c] = NoSession
  /\ faults'.destroys = 0 => proc'[c] = "none"
  /\ status'[c] \in Rest

\* A request that was signalled and is idle after a step has returned, or the
\* process has ended.
LEMMA WhoReturns ==
  ASSUME Inv, Next, NEW r \in Requests, pc[r] \in Signalled, pc'[r] = "idle", node' # "down"
  PROVE  StopReturn(r) \/ StopAbandon(r) \/ StopDestroy(r)
<1> USE DEF storeVars, sessionVars, retryVars, lockVars, reqVars, nodeVars, Signalled
<1>1. TypeOK BY DEF Inv, Typed
<1>2. pc' # pc OBVIOUS
<1>3. ASSUME NEW s \in Sessions, SessionNext(s) PROVE FALSE
  BY <1>2, <1>3
  DEF SessionNext, ProvisionStopped, Provisioned, Launch, Handshake, BecomeRunning, Stable,
      TakeStop, Fail, FinishStop, FinishFail, ReadDesired, ScheduleRetry, Unmap, CloseDone
<1>4. ASSUME NEW c \in Cameras, CameraNext(c) PROVE FALSE
  BY <1>2, <1>4
  DEF CameraNext, CameraExits, DestroyEnds, FireTimer, TimerLock, RetryLock, TimerStart,
      RetryFinish, CreateCamera, BootCamera
<1>5. ASSUME RecNext PROVE FALSE
  <2>1. CASE RecList \/ RecLive BY <1>2, <2>1 DEF RecList, RecLive
  <2>2. CASE RecVisit BY <1>2, <2>2 DEF RecVisit
  <2>3. CASE RecLock BY <1>2, <2>3 DEF RecLock, RetryLock
  <2>4. CASE RecStart BY <1>2, <2>4 DEF RecStart, RetryFinish
  <2>5. CASE RecOrphan BY <1>2, <2>5 DEF RecOrphan
  <2>6. CASE RecDestroy \/ RecEnd BY <1>2, <2>6 DEF RecDestroy, RecEnd
  <2> QED BY <1>5, <2>1, <2>2, <2>3, <2>4, <2>5, <2>6 DEF RecNext
<1>6. ASSUME NodeNext PROVE FALSE
  BY <1>2, <1>6
  DEF NodeNext, BootList, BootDone, Shutdown, CancelBase, RunReturns, Exit, Crash, ForgetMemory
<1>7. ASSUME NEW q \in Requests, RequestNext(q)
      PROVE  StopReturn(r) \/ StopAbandon(r) \/ StopDestroy(r)
  <2>1. ASSUME NEW c \in Cameras, StartCamera(q, c) \/ StopCamera(q, c) \/ DeleteCamera(q, c)
        PROVE  FALSE
    BY <1>1, <2>1 DEF StartCamera, StopCamera, DeleteCamera, TypeOK
  <2>2. CASE StartFinish(q) \/ DeleteFails(q) \/ DeleteWait(q) \/ DeleteRow(q) \/ ForgetCamera(q)
    BY <1>1, <2>2
    DEF StartFinish, DeleteFails, Return, DeleteWait, DeleteRow, ForgetCamera, TypeOK
  <2>3. CASE StopSignal(q) \/ DeleteSignal(q)
    BY <1>1, <2>3 DEF StopSignal, DeleteSignal, SignalSession, TypeOK
  <2>4. CASE StopReturn(q) \/ StopAbandon(q) \/ StopDestroy(q)
    <3>1. q = r
      BY <1>1, <2>4 DEF StopReturn, StopAbandon, StopDestroy, Return, TypeOK
    <3> QED BY <2>4, <3>1
  <2> QED BY <1>7, <2>1, <2>2, <2>3, <2>4 DEF RequestNext
<1> QED BY <1>3, <1>4, <1>5, <1>6, <1>7 DEF Next

\* A StopCamera that succeeds leaves nothing of its camera.
LEMMA StopSucceeds ==
  ASSUME Inv, Settled, Waiting, [Next]_vars, NEW r \in Requests,
         pc[r] = "stop.destroy" \/ (pc[r] = "stop.wait" /\ Ended(wait[r])),
         pc'[r] = "idle", node' # "down"
  PROVE  Gone(cam[r])
<1> USE DEF storeVars, sessionVars, retryVars, lockVars, reqVars, nodeVars
<1>1. Typed /\ TypeOK BY DEF Inv, Typed
<1>2. cam[r] \in Cameras BY <1>1 DEF Typed, Targets
<1>3. Next BY <1>1 DEF vars
<1>4. StopReturn(r) \/ StopDestroy(r)
  BY <1>3, WhoReturns DEF Signalled, StopAbandon
<1>5. CASE StopReturn(r)
  <2>1. pc[r] = "stop.wait" /\ phase[wait[r]] = "done" BY <1>5 DEF StopReturn, Ended
  <2>2. sessions[cam[r]] # wait[r]
    BY <1>2, <2>1, SupervisorAssumption DEF Inv, Safe, MapAgrees, Mapped, Waiting
  <2>3. sessions[cam[r]] = NoSession /\ status[cam[r]] \in Rest BY <2>1, <2>2 DEF Waiting
  <2>4. faults.destroys = 0 => proc[cam[r]] = "none"
    BY <1>2, <2>3 DEF Inv, Safe, NoOrphan
  <2> QED BY <1>5, <2>3, <2>4 DEF StopReturn, Gone
<1>6. CASE StopDestroy(r)
  <2>1. sessions[cam[r]] = NoSession /\ UNCHANGED sessions
    BY <1>6 DEF StopDestroy, Waiting
  <2>2. Destroy(cam[r]) /\ SaveStatus(cam[r], "stopped") BY <1>6 DEF StopDestroy
  <2>3. faults'.destroys = 0 => proc'[cam[r]] = "none"
    <3>1. CASE proc' = [proc EXCEPT ![cam[r]] = "none"] BY <1>1, <1>2, <3>1 DEF TypeOK
    <3>2. CASE faults' = [faults EXCEPT !.destroys = @ + 1]
      <4>1. faults.destroys \in Nat /\ faults'.destroys = faults.destroys + 1
        BY <1>1, <3>2 DEF TypeOK, Faults
      <4> QED BY <4>1
    <3> QED BY <2>2, <3>1, <3>2 DEF Destroy
  <2>4. status'[cam[r]] \in Rest
    BY <1>1, <1>2, <2>2 DEF SaveStatus, Settled, TypeOK, Rest
  <2> QED BY <2>1, <2>3, <2>4 DEF Gone
<1> QED BY <1>4, <1>5, <1>6

\* StopCamera "waits until its namespace is gone": when it succeeds the camera
\* has no session, its status is at rest and, unless a Destroy failed, neither
\* process nor namespace is left.
THEOREM StopLeavesNothingAlways == Spec => StopLeavesNothing
<1>1. Init => Waiting BY DEF Init, Waiting
<1>2. Inv /\ Settled /\ Waiting /\ [Next]_vars =>
        [\A r \in Requests :
           LET c == cam[r] IN
           ((pc[r] = "stop.destroy" \/ (pc[r] = "stop.wait" /\ Ended(wait[r])))
              /\ pc'[r] = "idle" /\ node' # "down")
             => /\ sessions'[c] = NoSession
                /\ faults'.destroys = 0 => proc'[c] = "none"
                /\ status'[c] \in {"stopped", "error"}]_vars
  BY StopSucceeds DEF Gone, Rest
<1> QED BY <1>1, <1>2, Invariance, SettledAlways, WaitingStep, PTL DEF Spec, StopLeavesNothing
=============================================================================
