---------------------------- MODULE CameraProcess ----------------------------
(***************************************************************************)
(* The camera process (internal/camera/runtime.go): the main goroutine Run *)
(* waits to be configured, beats and stops; the worker of its connection   *)
(* handles what the service sends, and starts the engines of the profile   *)
(* one after another while it handles configure.  An engine owns the       *)
(* sockets the network helper opened for it.                               *)
(***************************************************************************)
EXTENDS Naturals, Sequences, FiniteSets

CONSTANTS Engines,      \* number of engine instances the profile enables
          MaxMessages   \* bound: messages the service sends the camera

ASSUME ProcessAssumption == Engines \in Nat \ {0} /\ MaxMessages \in Nat

VARIABLES
  main,        \* where Run is
  reason,      \* why Run left its loop
  handling,    \* the message the worker handles, and where it is in it
  starting,    \* the engine configure starts next
  engine,      \* engine[i]: off, on or stopped
  files,       \* inherited sockets not taken by an engine yet
  running,     \* Runtime.running, in the order they were started
  configured,  \* the channel configured is closed
  stopReq,     \* the channel stopReq holds a request
  inboxP,      \* messages of the service not handled yet
  sent,        \* messages the service sent
  link,        \* the connection is open
  said         \* what the camera told the service

processVars == <<main, reason, handling, starting, engine, files, running,
                 configured, stopReq, inboxP, sent, link, said>>

Instances == 1..Engines

ProcessInit ==
  /\ main = "hello" /\ reason = "none"
  /\ handling = "none" /\ starting = 0
  /\ engine = [i \in Instances |-> "off"]
  /\ files = Instances
  /\ running = <<>>
  /\ configured = FALSE /\ stopReq = FALSE
  /\ inboxP = <<>> /\ sent = 0
  /\ link = TRUE
  /\ said = <<>>

\* Notify: a closed connection drops the message.
Say(msg) == said' = IF link THEN Append(said, msg) ELSE said

-----------------------------------------------------------------------------
(* The service and the system around the process.                           *)

\* The service asks to configure the camera, to stop it, or anything else
\* (reload, state.set, trigger, target.test).
ServiceSends(msg) ==
  /\ link /\ main # "gone"
  /\ sent < MaxMessages
  /\ sent' = sent + 1
  /\ inboxP' = Append(inboxP, msg)
  /\ UNCHANGED <<main, reason, handling, starting, engine, files, running,
                 configured, stopReq, link, said>>

\* The service closes its end, or a signal ends the context of Run, which
\* closes the connection.
LinkCloses ==
  /\ link
  /\ link' = FALSE
  /\ UNCHANGED <<main, reason, handling, starting, engine, files, running,
                 configured, stopReq, inboxP, sent, said>>

-----------------------------------------------------------------------------
(* The worker: handle and configure.                                        *)

\* A message other than configure and stop leaves the engines as they are;
\* one that needs a profile is refused until there is one.
HandleOther ==
  /\ handling = "none" /\ inboxP # <<>> /\ Head(inboxP) = "other"
  /\ inboxP' = Tail(inboxP)
  /\ UNCHANGED <<main, reason, handling, starting, engine, files, running,
                 configured, stopReq, sent, link, said>>

\* The channel holds one request: a second stop is dropped.
HandleStop ==
  /\ handling = "none" /\ inboxP # <<>> /\ Head(inboxP) = "stop"
  /\ inboxP' = Tail(inboxP)
  /\ stopReq' = TRUE
  /\ UNCHANGED <<main, reason, handling, starting, engine, files, running,
                 configured, sent, link, said>>

\* handle refuses to configure twice.
HandleConfigure ==
  /\ handling = "none" /\ inboxP # <<>> /\ Head(inboxP) = "configure"
  /\ inboxP' = Tail(inboxP)
  /\ IF configured THEN UNCHANGED <<handling, starting>>
     ELSE handling' = "configure" /\ starting' = 1
  /\ UNCHANGED <<main, reason, engine, files, running, configured, stopReq,
                 sent, link, said>>

\* configure itself fails (the profile, the confinement, a stream) before
\* it starts any engine.
ConfigureRefused ==
  /\ handling = "configure" /\ starting = 1
  /\ handling' = "failed"
  /\ UNCHANGED <<main, reason, starting, engine, files, running, configured,
                 stopReq, inboxP, sent, link, said>>

\* startEngine takes the inherited sockets of the instance and starts it.
StartEngine ==
  /\ handling = "configure" /\ starting \in files
  /\ files' = files \ {starting}
  /\ engine' = [engine EXCEPT ![starting] = "on"]
  /\ running' = Append(running, starting)
  /\ starting' = starting + 1
  /\ UNCHANGED <<main, reason, handling, configured, stopReq, inboxP, sent, link, said>>

\* startEngine fails: its sockets are closed, and configure stops the
\* engines it started.  A socket already closed by an earlier attempt fails
\* every later one.
StartFails ==
  /\ handling = "configure" /\ starting \in Instances
  /\ files' = files \ {starting}
  /\ handling' = "undo"
  /\ UNCHANGED <<main, reason, starting, engine, running, configured, stopReq,
                 inboxP, sent, link, said>>

\* A bug: the engines started before the one that failed go on.
ConfigureUndoNone ==
  /\ handling = "undo"
  /\ handling' = "failed"
  /\ UNCHANGED <<main, reason, starting, engine, files, running, configured,
                 stopReq, inboxP, sent, link, said>>

\* stopEngines, called by configure: the last started first.
ConfigureUndo ==
  /\ handling = "undo"
  /\ engine' = [i \in Instances |-> IF engine[i] = "on" THEN "stopped" ELSE engine[i]]
  /\ running' = <<>>
  /\ handling' = "failed"
  /\ UNCHANGED <<main, reason, starting, files, configured, stopReq, inboxP,
                 sent, link, said>>

ConfigureFailed ==
  /\ handling = "failed"
  /\ Say("failed")
  /\ handling' = "none" /\ starting' = 0
  /\ UNCHANGED <<main, reason, engine, files, running, configured, stopReq,
                 inboxP, sent, link>>

\* Every engine started: handle closes configured, and then says ready.
ConfigureDone ==
  /\ handling = "configure" /\ starting = Engines + 1
  /\ configured' = TRUE
  /\ handling' = "ready"
  /\ UNCHANGED <<main, reason, starting, engine, files, running, stopReq,
                 inboxP, sent, link, said>>

SayReady ==
  /\ handling = "ready"
  /\ Say("ready")
  /\ handling' = "none" /\ starting' = 0
  /\ UNCHANGED <<main, reason, engine, files, running, configured, stopReq,
                 inboxP, sent, link>>

-----------------------------------------------------------------------------
(* The main goroutine: Run.                                                 *)

Leave(to) == main' = to /\ UNCHANGED <<handling, starting, engine, files,
                                      running, configured, stopReq, inboxP, sent>>

SayHello ==
  /\ main = "hello"
  /\ Say("hello")
  /\ reason' = IF link THEN "none" ELSE "no connection"
  /\ Leave(IF link THEN "waiting" ELSE "gone")
  /\ UNCHANGED link

\* select: configured, 30 seconds, or the end of the connection, which ends
\* the process at once, whatever configure is doing.
Configured ==
  /\ main = "waiting" /\ configured
  /\ Leave("serving") /\ UNCHANGED <<reason, link, said>>

NotConfigured ==
  /\ main = "waiting"
  /\ reason' = "not configured"
  /\ link' = FALSE
  /\ Leave("gone") /\ UNCHANGED said

\* The loop of Run: a stop asked by the service, a signal, or the end of
\* the connection.
LeaveLoop ==
  /\ main = "serving"
  /\ \/ stopReq /\ reason' = "stopped"
     \/ ~link /\ reason' \in {"signal", "service connection closed"}
  /\ Leave("stopping") /\ UNCHANGED <<link, said>>

\* stopEngines, within the deadline of the stop.
StopEngines ==
  /\ main = "stopping"
  /\ engine' = [i \in Instances |-> IF \E k \in DOMAIN running : running[k] = i
                                    THEN "stopped" ELSE engine[i]]
  /\ running' = <<>>
  /\ main' = "bye"
  /\ UNCHANGED <<reason, handling, starting, files, configured, stopReq, inboxP,
                 sent, link, said>>

\* Bye, and then the connection is closed.
SayBye ==
  /\ main = "bye"
  /\ Say("bye")
  /\ link' = FALSE
  /\ Leave("draining") /\ UNCHANGED reason

\* <-runDone: the worker has handled what was queued.
RunReturns ==
  /\ main = "draining" /\ handling = "none" /\ inboxP = <<>>
  /\ Leave("gone") /\ UNCHANGED <<reason, link, said>>

\* The worker runs until the process is gone.
Worker ==
  /\ main # "gone"
  /\ \/ HandleOther \/ HandleStop \/ HandleConfigure
     \/ ConfigureRefused \/ StartEngine \/ StartFails \/ ConfigureUndo
     \/ ConfigureFailed \/ ConfigureDone \/ SayReady

Run ==
  SayHello \/ Configured \/ NotConfigured \/ LeaveLoop \/ StopEngines \/ SayBye \/ RunReturns

ProcessNext ==
  \/ \E msg \in {"configure", "stop", "other"} : ServiceSends(msg)
  \/ LinkCloses
  \/ Worker
  \/ Run

ProcessSpec == ProcessInit /\ [][ProcessNext]_processVars

-----------------------------------------------------------------------------
(* Properties.                                                              *)

\* A camera that says it is ready serves all its engines until it stops,
\* and one that says it failed serves none until it is configured again.
ReadyMeansServing ==
  /\ (\E k \in DOMAIN said : said[k] = "ready") /\ main \in {"waiting", "serving"}
       => \A i \in Instances : engine[i] = "on"
  /\ said # <<>> /\ said[Len(said)] = "failed" /\ handling = "none" /\ ~configured
       => \A i \in Instances : engine[i] # "on"
=============================================================================
