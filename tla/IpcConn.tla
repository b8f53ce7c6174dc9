------------------------------- MODULE IpcConn -------------------------------
(***************************************************************************)
(* One connection between the service and a camera process                 *)
(* (internal/ipc/conn.go).  Each end has a read loop that routes replies   *)
(* to the requests that wait for them and queues every other message in a  *)
(* bounded inbox, and a worker that handles the inbox one message at a     *)
(* time, in order, and answers each message.  A full socket blocks the     *)
(* writer; a full inbox blocks the read loop.                              *)
(*                                                                         *)
(* The service makes the requests (Conn.Request), the camera notifies      *)
(* (Conn.Notify), some of it while it handles a request, as a trigger does *)
(* with the event it emits.  Both ends are one build, so the version check *)
(* and the skipping of oversized lines never bite: a line too long is      *)
(* refused where it is written.                                            *)
(***************************************************************************)
EXTENDS Naturals, Sequences, FiniteSets, SequencesExt

CONSTANTS Requesters,    \* goroutines of the service, one request each
          Notices,       \* bound: messages the camera sends on its own
          InboxSize,     \* capacity of an inbox (256 in the code)
          SocketSize     \* messages the socket holds in one direction

ASSUME ConnAssumption == /\ Notices \in Nat
                         /\ InboxSize \in Nat \ {0}
                         /\ SocketSize \in Nat \ {0}

Ends == {"service", "camera"}
Peer(e) == IF e = "service" THEN "camera" ELSE "service"

\* A message is a call (Request), a note (Notify) or a reply to either.
Message(kind, id) == [kind |-> kind, id |-> id]
NoMessage == Message("none", 0)

VARIABLES
  wire,       \* wire[e]: what e wrote and the other end has not read
  hand,       \* hand[e]: the message the read loop is putting in the inbox
  reading,    \* reading[e]: the read loop runs
  inbox,      \* inbox[e]: messages waiting for the worker
  worker,     \* worker[e]: what the worker of e handles, and how far it is
  closed,     \* closed[e]: e called shutdown
  pending,    \* requests of the service waiting for a reply
  caller,     \* caller[r]: how far the request of r is
  noticed     \* messages the camera sent on its own

connVars == <<wire, hand, reading, inbox, worker, closed, pending, caller,
              noticed>>

Idle == [at |-> "idle", msg |-> NoMessage]

ConnInit ==
  /\ wire = [e \in Ends |-> <<>>]
  /\ hand = [e \in Ends |-> NoMessage]
  /\ reading = [e \in Ends |-> TRUE]
  /\ inbox = [e \in Ends |-> <<>>]
  /\ worker = [e \in Ends |-> Idle]
  /\ closed = [e \in Ends |-> FALSE]
  /\ pending = {}
  /\ caller = [r \in Requesters |-> "new"]
  /\ noticed = 0

-----------------------------------------------------------------------------
(* Writing.  write holds the write lock while the socket is full, so only   *)
(* one message waits at a time and a step that finds room is the whole call. *)

Gone(e) == closed[e] \/ closed[Peer(e)]
Room(e) == Len(wire[e]) < SocketSize

\* newEnvelope and write: a closed connection refuses the message, a socket
\* whose other end is gone fails and shuts this end down.
Write(e, msg) ==
  IF Gone(e)
  THEN /\ closed' = [closed EXCEPT ![e] = TRUE]
       /\ UNCHANGED wire
  ELSE /\ Room(e)
       /\ wire' = [wire EXCEPT ![e] = Append(@, msg)]
       /\ UNCHANGED closed

\* Request enters its reply channel before it writes.
Register(r) ==
  /\ caller[r] = "new"
  /\ caller' = [caller EXCEPT ![r] = "writing"]
  /\ pending' = pending \cup {r}
  /\ UNCHANGED <<wire, hand, reading, inbox, worker, closed, noticed>>

\* The write of a request: when it fails the request returns ErrClosed.
Request(r) ==
  /\ caller[r] = "writing"
  /\ Write("service", Message("call", r))
  /\ caller' = [caller EXCEPT ![r] = IF Gone("service") THEN "refused" ELSE "waiting"]
  /\ pending' = IF Gone("service") THEN pending \ {r} ELSE pending
  /\ UNCHANGED <<hand, reading, inbox, worker, noticed>>

\* The context of a request ends first.  The deferred call of Request
\* forgets the reply channel.
TimeOut(r) ==
  /\ caller[r] = "waiting"
  /\ caller' = [caller EXCEPT ![r] = "timeout"]
  /\ pending' = pending \ {r}
  /\ UNCHANGED <<wire, hand, reading, inbox, worker, closed, noticed>>

\* The connection closed; when a reply came too, select takes either.
Refused(r) ==
  /\ caller[r] \in {"waiting", "answered"} /\ closed["service"]
  /\ caller' = [caller EXCEPT ![r] = "refused"]
  /\ pending' = pending \ {r}
  /\ UNCHANGED <<wire, hand, reading, inbox, worker, closed, noticed>>

\* Request takes the reply from its channel.
TakeReply(r) ==
  /\ caller[r] = "answered"
  /\ caller' = [caller EXCEPT ![r] = "returned"]
  /\ UNCHANGED <<wire, hand, reading, inbox, worker, closed, pending, noticed>>

\* Notify, from a goroutine of the camera: a heartbeat, a log line.
Notify ==
  /\ noticed < Notices
  /\ Write("camera", Message("note", noticed + 1))
  /\ noticed' = noticed + 1
  /\ UNCHANGED <<hand, reading, inbox, worker, pending, caller>>

-----------------------------------------------------------------------------
(* Reading.                                                                 *)

\* One turn of the read loop of Run: a reply goes to the request that waits
\* for it, or nowhere; any other message is to be queued.
ReadMessage(e) ==
  LET msg == Head(wire[Peer(e)])
      waits == e = "service" /\ msg.id \in pending
  IN
  /\ reading[e] /\ ~closed[e]
  /\ hand[e] = NoMessage
  /\ wire[Peer(e)] # <<>>
  /\ wire' = [wire EXCEPT ![Peer(e)] = Tail(@)]
  /\ IF msg.kind = "reply"
     THEN /\ caller' = IF waits /\ caller[msg.id] = "waiting"
                       THEN [caller EXCEPT ![msg.id] = "answered"] ELSE caller
          /\ pending' = IF waits THEN pending \ {msg.id} ELSE pending
          /\ UNCHANGED hand
     ELSE hand' = [hand EXCEPT ![e] = msg] /\ UNCHANGED <<caller, pending>>
  /\ UNCHANGED <<reading, inbox, worker, closed, noticed>>

\* inbox <- msg, which waits for room.
Enqueue(e) ==
  /\ hand[e] # NoMessage
  /\ Len(inbox[e]) < InboxSize
  /\ inbox' = [inbox EXCEPT ![e] = Append(@, hand[e])]
  /\ hand' = [hand EXCEPT ![e] = NoMessage]
  /\ UNCHANGED <<wire, reading, worker, closed, pending, caller, noticed>>

\* The read loop ends: this end closed its socket, or the other end did and
\* everything it wrote was read.  It closes the inbox.
ReadEnd(e) ==
  /\ reading[e]
  /\ hand[e] = NoMessage
  /\ closed[e] \/ (closed[Peer(e)] /\ wire[Peer(e)] = <<>>)
  /\ reading' = [reading EXCEPT ![e] = FALSE]
  /\ UNCHANGED <<wire, hand, inbox, worker, closed, pending, caller, noticed>>

-----------------------------------------------------------------------------
(* Handling.                                                                *)

\* dispatch takes the oldest message of the inbox and calls the handler.
Dispatch(e) ==
  /\ worker[e].at = "idle"
  /\ inbox[e] # <<>>
  /\ worker' = [worker EXCEPT ![e] = [at |-> "handling", msg |-> Head(inbox[e])]]
  /\ inbox' = [inbox EXCEPT ![e] = Tail(@)]
  /\ UNCHANGED <<wire, hand, reading, closed, pending, caller, noticed>>

\* The handler of the camera notifies while it handles a call, as a trigger
\* does with its event, and then returns.
HandlerNotify ==
  /\ worker["camera"].at = "handling"
  /\ Write("camera", Message("note", worker["camera"].msg.id))
  /\ worker' = [worker EXCEPT !["camera"].at = "replying"]
  /\ UNCHANGED <<hand, reading, inbox, pending, caller, noticed>>

\* A handler that only returns.
HandlerReturns(e) ==
  /\ worker[e].at = "handling"
  /\ worker' = [worker EXCEPT ![e].at = "replying"]
  /\ UNCHANGED <<wire, hand, reading, inbox, closed, pending, caller, noticed>>

\* A bug: the handler of a call that fails returns with no reply.
ReplyMaybe(e) ==
  /\ worker[e].at = "replying"
  /\ \/ Write(e, Message("reply", worker[e].msg.id))
     \/ UNCHANGED <<wire, closed>>
  /\ worker' = [worker EXCEPT ![e] = Idle]
  /\ UNCHANGED <<hand, reading, inbox, pending, caller, noticed>>

\* Every message has an ID, a notice too, so dispatch answers every one.
Reply(e) ==
  /\ worker[e].at = "replying"
  /\ Write(e, Message("reply", worker[e].msg.id))
  /\ worker' = [worker EXCEPT ![e] = Idle]
  /\ UNCHANGED <<hand, reading, inbox, pending, caller, noticed>>

\* The inbox is closed and empty: Run shuts the connection down.
RunEnds(e) ==
  /\ worker[e].at = "idle"
  /\ ~reading[e] /\ inbox[e] = <<>>
  /\ worker' = [worker EXCEPT ![e].at = "done"]
  /\ closed' = [closed EXCEPT ![e] = TRUE]
  /\ UNCHANGED <<wire, hand, reading, inbox, pending, caller, noticed>>

\* Close, or the end of the context Run was given: the camera leaves, the
\* service gives up a camera.
Close(e) ==
  /\ ~closed[e]
  /\ closed' = [closed EXCEPT ![e] = TRUE]
  /\ UNCHANGED <<wire, hand, reading, inbox, worker, pending, caller, noticed>>

ConnNext ==
  \/ \E r \in Requesters : Register(r) \/ Request(r) \/ TimeOut(r) \/ Refused(r) \/ TakeReply(r)
  \/ Notify
  \/ HandlerNotify
  \/ \E e \in Ends : \/ ReadMessage(e) \/ Enqueue(e) \/ ReadEnd(e) \/ Dispatch(e)
                     \/ HandlerReturns(e) \/ Reply(e) \/ RunEnds(e) \/ Close(e)

\* The goroutines run: nothing is assumed of contexts that end or of Close.
ConnFairness ==
  /\ \A r \in Requesters : WF_connVars(Request(r)) /\ WF_connVars(Refused(r)) /\ WF_connVars(TakeReply(r))
  /\ \A e \in Ends : /\ WF_connVars(ReadMessage(e)) /\ WF_connVars(Enqueue(e))
                     /\ WF_connVars(ReadEnd(e)) /\ WF_connVars(Dispatch(e))
                     /\ WF_connVars(HandlerReturns(e)) /\ WF_connVars(Reply(e))
                     /\ WF_connVars(RunEnds(e))

ConnSpec == ConnInit /\ [][ConnNext]_connVars /\ ConnFairness

-----------------------------------------------------------------------------
(* Properties.                                                              *)

\* A request whose camera stays connected returns, with no help from its
\* timeout: replies are routed by the read loop, which no handler holds up
\* while there are no more requests than an inbox holds.
RequestsReturn ==
  \A r \in Requesters : caller[r] = "writing" ~> caller[r] \in {"returned", "refused", "timeout"}
=============================================================================
