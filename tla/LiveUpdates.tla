---------------------------- MODULE LiveUpdates ----------------------------
(***************************************************************************)
(* The WebSocket hub (backend/internal/api/hub.go, ws.go), the browser's   *)
(* end of it (frontend/src/api/live.ts) and the credentials a connection   *)
(* lives by.  One topic is modelled: topics share nothing but the lock of  *)
(* the hub.  Connections, revocations and publications interleave; a       *)
(* connection may break at any time and the node may restart.              *)
(***************************************************************************)
EXTENDS Integers, Sequences, SequencesExt

CONSTANTS
  Clients,      \* browsers
  Creds,        \* panel sessions and API tokens
  BufferSize,   \* bufferSize of the topic
  WsQueue,      \* wsQueue
  Unknown,      \* no seq of the topic is remembered
  MaxPublish,   \* bound: publications
  MaxRestarts   \* bound: restarts of the node

ASSUME HubAssumption ==
  /\ {BufferSize, WsQueue} \subseteq Nat \ {0}
  /\ {MaxPublish, MaxRestarts} \subseteq Nat
  /\ Unknown \notin Nat

VARIABLES
  \* the hub
  seq, buf,   \* topicState
  published,  \* publications so far; each carries its number
  over,       \* the topic was dropped
  restarts,
  \* a connection: where serveWS is, its credential, whether it is subscribed,
  \* its send channel, and whether its gone channel is closed
  conn,
  \* the browser: the last seq of the topic, and the publications it was sent
  \* or that were out when it loaded; 0 stands for the data before the first
  last, have,
  joined,     \* history: publications out when the browser joined the topic
  crossed,    \* history: the sequence the browser remembers is not this one
  \* credentials
  valid,      \* credentials the store accepts
  revoking    \* removed from the store, connections not yet ended

hubVars  == <<seq, buf, published, over, restarts>>
connVars == <<conn>>
viewVars == <<last, have, joined, crossed>>
credVars == <<valid, revoking>>
liveVars == <<hubVars, connVars, viewVars, credVars>>

Closed == [at |-> "closed", cred |-> Unknown, sub |-> FALSE, left |-> FALSE, send |-> << >>,
           gone |-> FALSE]

-----------------------------------------------------------------------------
(* The hub *)

\* A bug: a message that does not fit is dropped and the client kept.
pushDrop(k, m) ==
  IF Len(k.send) < WsQueue THEN [k EXCEPT !.send = Append(@, m)] ELSE k

\* Messages that do not fit in its queue end a client, and push never blocks.
\* Once gone is closed the loop of serveWS stops before it gets through a
\* queue that was full (Go's select chooses at random between the two), so
\* nothing queued from then on is sent.
pushAll(k, ms) ==
  LET all == k.send \o ms IN
  IF k.gone THEN k
  ELSE IF Len(all) <= WsQueue THEN [k EXCEPT !.send = all]
  ELSE [k EXCEPT !.send = SubSeq(all, 1, WsQueue), !.gone = TRUE]

push(k, m) == pushAll(k, <<m>>)

KeepLast(all) ==
  SubSeq(all, Len(all) - (IF Len(all) > BufferSize THEN BufferSize ELSE Len(all)) + 1, Len(all))

\* Publish numbers the message, keeps the last ones and queues it for every
\* subscribed client, all under the lock of the hub.
Publish ==
  /\ published < MaxPublish /\ ~over
  /\ published' = published + 1
  /\ seq' = seq + 1
  /\ LET m == [type |-> "data", seq |-> seq + 1, n |-> published + 1]
     IN /\ buf' = KeepLast(Append(buf, m))
        /\ conn' = [c \in Clients |-> IF conn[c].sub THEN push(conn[c], m) ELSE conn[c]]
  /\ UNCHANGED <<over, restarts, viewVars, credVars>>

\* Forget drops the topic once nothing more is published on it: its camera
\* was deleted or its job is over.
Forget ==
  /\ seq > 0 /\ ~over
  /\ over' = TRUE
  /\ seq' = 0 /\ buf' = << >>
  /\ UNCHANGED <<published, restarts, connVars, viewVars, credVars>>

\* A restart of the node: the topics are numbered anew.
Restart ==
  /\ restarts < MaxRestarts
  /\ restarts' = restarts + 1
  /\ seq' = 0 /\ buf' = << >>
  /\ conn' = [c \in Clients |-> Closed]
  /\ revoking' = {}
  /\ crossed' = [c \in Clients |-> crossed[c] \/ last[c] # Unknown]
  /\ UNCHANGED <<published, over, last, have, joined, valid>>

Status(type) == [type |-> type, seq |-> seq, n |-> 0]

\* The messages of the buffer with a seq above last: it is numbered without
\* a gap, so they are its end.
Newer(since) == SubSeq(buf, since + 2 - buf[1].seq, Len(buf))

\* What a client must receive first: the current seq, what it missed, or a
\* resync when the buffer no longer covers it.
FirstMessages(since) ==
  IF since = Unknown \/ (since # Unknown /\ since >= seq) THEN << Status("subscribed") >>
  ELSE IF buf # << >> /\ buf[1].seq <= since + 1 THEN Newer(since)
  ELSE << Status("resync") >>

\* Subscribe and the replay are one critical section of the hub.  The
\* browser sends the seq it remembers when it connects, and none when a
\* page comes back to a topic it had left: it then joins the topic anew.
subscribe(c) ==
  /\ conn[c].at = "open" /\ ~conn[c].sub
  /\ LET since == IF conn[c].left THEN Unknown ELSE last[c] IN
       /\ conn' = [conn EXCEPT ![c] = pushAll([@ EXCEPT !.sub = TRUE], FirstMessages(since))]
       /\ joined' = IF since = Unknown THEN [joined EXCEPT ![c] = published] ELSE joined
  /\ UNCHANGED <<hubVars, last, have, crossed, credVars>>

\* The page leaves the topic and forgets its seq; what is queued still comes.
unsubscribe(c) ==
  /\ conn[c].at = "open" /\ conn[c].sub
  /\ conn' = [conn EXCEPT ![c].sub = FALSE, ![c].left = TRUE]
  /\ last' = [last EXCEPT ![c] = Unknown]
  /\ joined' = [joined EXCEPT ![c] = published]
  /\ crossed' = [crossed EXCEPT ![c] = FALSE]
  /\ UNCHANGED <<hubVars, have, credVars>>

-----------------------------------------------------------------------------
(* Connections *)

\* requireAuth, before the connection is known to the hub.
authenticate(c) ==
  /\ conn[c].at = "closed"
  /\ \E k \in valid : conn' = [conn EXCEPT ![c] = [Closed EXCEPT !.at = "authenticated", !.cred = k]]
  /\ UNCHANGED <<hubVars, viewVars, credVars>>

hubAdd(c) ==
  /\ conn[c].at = "authenticated"
  /\ conn' = [conn EXCEPT ![c].at = "added"]
  /\ UNCHANGED <<hubVars, viewVars, credVars>>

\* A bug: only the request's own authentication is relied on.
stillValidSkipped(c) ==
  /\ conn[c].at = "added"
  /\ conn' = [conn EXCEPT ![c].at = "open"]
  /\ UNCHANGED <<hubVars, viewVars, credVars>>

\* After the handshake the credential is checked once more.
stillValid(c) ==
  /\ conn[c].at = "added"
  /\ conn' = [conn EXCEPT ![c] = IF @.cred \in valid THEN [@ EXCEPT !.at = "open"] ELSE Closed]
  /\ UNCHANGED <<hubVars, viewVars, credVars>>

\* The connection breaks, or the server closes it because gone is closed.
close(c) ==
  /\ conn[c].at = "open"
  /\ conn' = [conn EXCEPT ![c] = Closed]
  /\ UNCHANGED <<hubVars, viewVars, credVars>>

\* The ping of every 20 seconds checks the credential again.
ping(c) ==
  /\ conn[c].at = "open" /\ (conn[c].cred \notin valid \/ conn[c].gone)
  /\ conn' = [conn EXCEPT ![c] = Closed]
  /\ UNCHANGED <<hubVars, viewVars, credVars>>

\* A message reaches the browser, which handles it.  The first seq of a
\* topic is only remembered; a seq other than the remembered one makes the
\* browser fetch the data again.
handle(c) ==
  /\ conn[c].at = "open" /\ conn[c].send # << >>
  /\ LET m == Head(conn[c].send)
         reload == \/ m.type = "resync"
                   \/ m.type = "subscribed" /\ last[c] # Unknown /\ last[c] # m.seq
     IN /\ last' = [last EXCEPT ![c] = m.seq]
        /\ have' = [have EXCEPT ![c] = IF reload THEN 0 .. published
                                       ELSE IF m.type = "data" THEN @ \cup {m.n} ELSE @]
        /\ crossed' = [crossed EXCEPT ![c] = @ /\ ~reload]
  /\ conn' = [conn EXCEPT ![c].send = Tail(@)]
  /\ UNCHANGED <<hubVars, joined, credVars>>

\* A page fetches its data when it is opened, whatever the connection does.
load(c) ==
  /\ have' = [have EXCEPT ![c] = 0 .. published]
  /\ UNCHANGED <<hubVars, connVars, last, joined, crossed, credVars>>

-----------------------------------------------------------------------------
(* Credentials *)

\* Logout and RevokeToken delete the row ...
handleRevokeToken ==
  /\ \E k \in valid : valid' = valid \ {k} /\ revoking' = revoking \cup {k}
  /\ UNCHANGED <<hubVars, connVars, viewVars>>

\* ... and then end the connections opened with it.
disconnect ==
  /\ \E k \in revoking :
       /\ revoking' = revoking \ {k}
       /\ conn' = [c \in Clients |-> IF conn[c].at \in {"added", "open"} /\ conn[c].cred = k
                                     THEN [conn[c] EXCEPT !.gone = TRUE] ELSE conn[c]]
  /\ UNCHANGED <<hubVars, viewVars, valid>>

-----------------------------------------------------------------------------
(* Specification *)

LiveInit ==
  /\ seq = 0 /\ buf = << >> /\ published = 0 /\ over = FALSE /\ restarts = 0
  /\ conn = [c \in Clients |-> Closed]
  /\ last = [c \in Clients |-> Unknown] /\ have = [c \in Clients |-> {}]
  /\ joined = [c \in Clients |-> 0] /\ crossed = [c \in Clients |-> FALSE]
  /\ valid = Creds /\ revoking = {}

ServerStep(c) == hubAdd(c) \/ stillValid(c) \/ ping(c)

LiveNext ==
  \/ Publish \/ Forget \/ Restart \/ handleRevokeToken \/ disconnect
  \/ \E c \in Clients : \/ ServerStep(c) \/ authenticate(c) \/ subscribe(c) \/ unsubscribe(c)
                        \/ close(c) \/ handle(c) \/ load(c)

LiveSpec == LiveInit /\ [][LiveNext]_liveVars

-----------------------------------------------------------------------------
(* Properties *)

\* The browser has read all that the hub sends it of a topic still in use.
CaughtUp(c) == conn[c].sub /\ ~conn[c].gone /\ conn[c].send = << >> /\ ~over

UpToDate(c) == CaughtUp(c) => joined[c] + 1 .. published \subseteq have[c]

\* Hub.subscribe and LiveClient.handle: a browser that has read all it was
\* sent misses no publication since it joined the topic, however often its
\* connection broke, as long as the topic it remembers was not numbered anew
\* meanwhile.
NothingMissed == \A c \in Clients : ~crossed[c] => UpToDate(c)

\* handleRevokeToken, handleLogout and serveWS: once a revocation returned,
\* no connection opened with the credential goes on, not even one whose
\* request was authenticated before it.
RevokedIsCut ==
  \A c \in Clients :
    conn[c].at = "open" /\ ~conn[c].gone => conn[c].cred \in valid \cup revoking
=============================================================================
