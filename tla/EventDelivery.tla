---------------------------- MODULE EventDelivery ----------------------------
(***************************************************************************)
(* An event from the camera that emits it to the status the panel shows:   *)
(* the event bus of the camera process (camera/events.go), the http-push   *)
(* engine that delivers it to its targets and retries                      *)
(* (engines/httppush/engine.go), and the service that stores what the      *)
(* camera reports (app/events.go, store/db/events.sql.go).                 *)
(*                                                                         *)
(* Triggers are the only source of events and the worker of the connection *)
(* handles them one at a time, so emissions do not overlap; deliveries     *)
(* overlap with everything.  One event type is enough: a target that does  *)
(* not accept the type counts as disabled.  The limit on how often a type  *)
(* is emitted only leaves events out, which no property here tells apart.  *)
(***************************************************************************)
EXTENDS Integers, Sequences, FiniteSets, SequencesExt

CONSTANTS Targets,      \* the targets that may be linked to the camera
          MaxEvents,    \* bound: events emitted
          Retries,      \* retries of the delivery policy of the profile
          MaxParallel,  \* deliveries in flight at once
          MaxToggles,   \* bound: changes of targets and of their links
          MaxLost       \* bound: failed inserts

ASSUME DeliveryAssumption == /\ IsFiniteSet(Targets) /\ MaxEvents \in Nat /\ Retries \in Nat
                             /\ MaxParallel \in Nat \ {0}
                             /\ MaxToggles \in Nat /\ MaxLost \in Nat

Events == 1..MaxEvents

VARIABLES
  enabled,     \* targets enabled in the database
  linked,      \* targets linked to the camera there
  camTargets,  \* targets the camera process knows
  toggles,     \* times the targets or the links changed
  emitted,     \* events emitted so far
  emitting,    \* the event Emit has notified and not delivered yet, or 0
  sentTo,      \* sentTo[e]: the targets the event goes to
  silent,      \* events the engine gave up without a report
  courier,     \* courier[e][t]: the goroutine that delivers e to t
  received,    \* pairs <<e, t>> the receiver got
  pushing,     \* the engine is started and its context not cancelled
  alive,       \* the camera process and its connection exist
  reports,     \* what the camera reported and the service has not handled
  events,      \* event rows: how many deliveries are expected, -1 is no row
  deliveries,  \* delivery rows
  refusedEvents, \* events the service could not store
  dropped,     \* reports refused for want of their event
  unlinked,    \* pairs <<e, t>> with a report refused because t was unlinked
  lost         \* pairs whose report could not be stored

deliveryVars == <<enabled, linked, camTargets, toggles, emitted, emitting, sentTo, silent,
                  courier, received, pushing, alive, reports, events,
                  deliveries, refusedEvents, dropped, unlinked, lost>>

cameraSide == <<emitted, emitting, sentTo, silent, courier, received, pushing, alive>>
serviceSide == <<events, deliveries, refusedEvents, dropped, unlinked, lost>>
settings == <<enabled, linked, camTargets, toggles>>

Row(e, t, n, s) == [event |-> e, target |-> t, attempt |-> n, status |-> s]
NoCourier == [at |-> "none", attempt |-> 0]

DeliveryInit ==
  /\ enabled = Targets /\ linked = Targets /\ camTargets = Targets /\ toggles = 0
  /\ emitted = 0 /\ emitting = 0
  /\ sentTo = [e \in Events |-> {}] /\ silent = {}
  /\ courier = [e \in Events |-> [t \in Targets |-> NoCourier]]
  /\ received = {}
  /\ pushing = TRUE /\ alive = TRUE
  /\ reports = <<>>
  /\ events = [e \in Events |-> -1]
  /\ deliveries = {} /\ refusedEvents = {} /\ dropped = {} /\ unlinked = {} /\ lost = {}

-----------------------------------------------------------------------------
(* The camera process.                                                      *)

\* Report and Notify: a closed connection drops the message.
Report(msgs) == reports' = IF alive THEN reports \o msgs ELSE reports

\* A bug: the event is reported after its deliveries have started.
EmitReportsLater ==
  /\ alive /\ emitting = 0 /\ emitted < MaxEvents
  /\ emitted' = emitted + 1
  /\ sentTo' = [sentTo EXCEPT ![emitted + 1] = IF pushing THEN camTargets ELSE {}]
  /\ emitting' = 0
  /\ \/ Report(<<Row(emitted + 1, "none", 0, "event")>>)
     \/ Report([k \in 1..Cardinality(sentTo'[emitted + 1]) |->
                  Row(emitted + 1, SetToSeq(sentTo'[emitted + 1])[k], 1, "failed")]
               \o <<Row(emitted + 1, "none", 0, "event")>>)
  /\ UNCHANGED <<silent, courier, received, pushing, alive, settings, serviceSide>>

\* The first half of Emit: it copies the targets and the subscriptions and
\* reports the event.  With the engine stopped nobody delivers it.
Emit ==
  /\ alive /\ emitting = 0 /\ emitted < MaxEvents
  /\ emitted' = emitted + 1
  /\ sentTo' = [sentTo EXCEPT ![emitted + 1] = IF pushing THEN camTargets ELSE {}]
  /\ emitting' = emitted + 1
  /\ Report(<<Row(emitted + 1, "none", 0, "event")>>)
  /\ UNCHANGED <<silent, courier, received, pushing, alive, settings, serviceSide>>

\* The second half, dispatch of the engine: a goroutine for every target,
\* or, when the template of the event fails, a failed first attempt each.
\* With a transport or a template it cannot read it gives up and reports
\* nothing.
DispatchEvent ==
  /\ emitting # 0
  /\ \/ /\ courier' = [courier EXCEPT ![emitting] =
                         [t \in Targets |-> IF t \in sentTo[emitting]
                                            THEN [at |-> "queue", attempt |-> 1] ELSE NoCourier]]
        /\ UNCHANGED <<reports, silent>>
     \/ /\ Report([k \in 1..Cardinality(sentTo[emitting]) |->
                     Row(emitting, SetToSeq(sentTo[emitting])[k], 1, "failed")])
        /\ UNCHANGED <<courier, silent>>
     \/ silent' = silent \cup {emitting} /\ UNCHANGED <<courier, reports>>
  /\ emitting' = 0
  /\ UNCHANGED <<emitted, sentTo, received, pushing, alive, settings, serviceSide>>

Move(e, t, at, n) == courier' = [courier EXCEPT ![e][t] = [at |-> at, attempt |-> n]]

\* deliver takes a slot of the semaphore ...
Acquire(e, t) ==
  /\ courier[e][t].at = "queue"
  /\ Cardinality({p \in Events \X Targets : courier[p[1]][p[2]].at = "sending"}) < MaxParallel
  /\ Move(e, t, "sending", courier[e][t].attempt)
  /\ UNCHANGED <<emitted, emitting, sentTo, silent, received, pushing, alive, reports, settings, serviceSide>>

\* ... and sends the request, which the target receives or not.
Receive(e, t) ==
  /\ courier[e][t].at = "sending" /\ <<e, t>> \notin received
  /\ received' = received \cup {<<e, t>>}
  /\ UNCHANGED <<emitted, emitting, sentTo, silent, courier, pushing, alive, reports, settings, serviceSide>>

\* A 2xx answer in time.
Delivered(e, t) ==
  /\ courier[e][t].at = "sending" /\ <<e, t>> \in received
  /\ Report(<<Row(e, t, courier[e][t].attempt, "ok")>>)
  /\ Move(e, t, "done", courier[e][t].attempt)
  /\ UNCHANGED <<emitted, emitting, sentTo, silent, received, pushing, alive, settings, serviceSide>>

\* A bug: the last attempt is reported as one more to retry.
NotDeliveredNoEnd(e, t) ==
  LET n == courier[e][t].attempt IN
  /\ courier[e][t].at = "sending"
  /\ Report(<<Row(e, t, n, "retry")>>)
  /\ Move(e, t, IF n <= Retries THEN "backoff" ELSE "done", n)
  /\ UNCHANGED <<emitted, emitting, sentTo, silent, received, pushing, alive, settings, serviceSide>>

\* No answer within the timeout, another status, or no connection: the
\* target may have received the request all the same.
NotDelivered(e, t) ==
  LET n == courier[e][t].attempt IN
  /\ courier[e][t].at = "sending"
  /\ Report(<<Row(e, t, n, IF n <= Retries THEN "retry" ELSE "failed")>>)
  /\ Move(e, t, IF n <= Retries THEN "backoff" ELSE "done", n)
  /\ UNCHANGED <<emitted, emitting, sentTo, silent, received, pushing, alive, settings, serviceSide>>

\* The backoff ends and the next attempt waits for a slot.
Retry(e, t) ==
  /\ courier[e][t].at = "backoff"
  /\ Move(e, t, "queue", courier[e][t].attempt + 1)
  /\ UNCHANGED <<emitted, emitting, sentTo, silent, received, pushing, alive, reports, settings, serviceSide>>

\* A stopped engine abandons what waits for a slot or for its next attempt.
Abandon(e, t) ==
  /\ ~pushing /\ courier[e][t].at \in {"queue", "backoff"}
  /\ Move(e, t, "done", courier[e][t].attempt)
  /\ UNCHANGED <<emitted, emitting, sentTo, silent, received, pushing, alive, reports, settings, serviceSide>>

\* Stop of the engine: it unsubscribes and cancels the requests under way.
StopEngine ==
  /\ pushing
  /\ pushing' = FALSE
  /\ UNCHANGED <<emitted, emitting, sentTo, silent, courier, received, alive, reports, settings, serviceSide>>

\* The process ends, at the end of a stop or by a crash; what it wrote is
\* still read.
ProcessEnds ==
  /\ alive
  /\ alive' = FALSE /\ pushing' = FALSE /\ emitting' = 0
  /\ courier' = [e \in Events |-> [t \in Targets |->
                  IF courier[e][t] = NoCourier THEN NoCourier ELSE [courier[e][t] EXCEPT !.at = "done"]]]
  /\ UNCHANGED <<emitted, sentTo, silent, received, reports, settings, serviceSide>>

-----------------------------------------------------------------------------
(* The service.                                                             *)

\* expectedDeliveries: the enabled targets of the camera, when the event is
\* stored.
expectedDeliveries == Cardinality(enabled \cap linked)

Take(kind) == alive' = alive /\ reports # <<>> /\ Head(reports).status \in kind
                /\ reports' = Tail(reports)

\* recordEvent: an event that is not valid, or cannot be stored, is dropped.
recordEvent ==
  LET e == Head(reports).event IN
  /\ Take({"event"})
  /\ \/ /\ events' = [events EXCEPT ![e] = expectedDeliveries]
        /\ UNCHANGED refusedEvents
     \/ /\ Cardinality(refusedEvents) < MaxLost
        /\ refusedEvents' = refusedEvents \cup {e}
        /\ UNCHANGED events
  /\ UNCHANGED <<emitted, emitting, sentTo, silent, courier, received, pushing, settings, deliveries, dropped, unlinked, lost>>

\* recordDelivery: a report about an event that is not stored is refused, and
\* so is one of a target that is not linked to the camera any more.
recordDelivery ==
  LET r == Head(reports) IN
  /\ Take({"ok", "retry", "failed"})
  /\ \/ /\ events[r.event] = -1
        /\ dropped' = dropped \cup {r}
        /\ UNCHANGED <<deliveries, unlinked, lost>>
     \/ /\ events[r.event] # -1 /\ r.target \notin linked
        /\ unlinked' = unlinked \cup {<<r.event, r.target>>}
        /\ UNCHANGED <<deliveries, dropped, lost>>
     \/ /\ events[r.event] # -1 /\ r.target \in linked
        /\ \/ deliveries' = deliveries \cup {r} /\ UNCHANGED lost
           \/ /\ Cardinality(lost) + Cardinality(refusedEvents) < MaxLost
              /\ lost' = lost \cup {<<r.event, r.target>>} /\ UNCHANGED deliveries
        /\ UNCHANGED <<dropped, unlinked>>
  /\ UNCHANGED <<emitted, emitting, sentTo, silent, courier, received, pushing, settings, events, refusedEvents>>

\* UpdateTarget enables or disables a target ...
Toggle(t) ==
  /\ toggles < MaxToggles
  /\ toggles' = toggles + 1
  /\ enabled' = IF t \in enabled THEN enabled \ {t} ELSE enabled \cup {t}
  /\ UNCHANGED <<linked, camTargets, reports, cameraSide, serviceSide>>

\* ... UpdateCamera replaces the links of the camera ...
UpdateCameraTargets(ts) ==
  /\ toggles < MaxToggles /\ ts # linked
  /\ toggles' = toggles + 1
  /\ linked' = ts
  /\ UNCHANGED <<enabled, camTargets, reports, cameraSide, serviceSide>>

\* ... and reloadTargets gives the camera its list; an empty list is left
\* out of the message and changes nothing.  The worker of the camera that
\* handles it does not emit meanwhile.
Reload ==
  /\ alive /\ emitting = 0
  /\ enabled \cap linked \notin {{}, camTargets}
  /\ camTargets' = enabled \cap linked
  /\ UNCHANGED <<enabled, linked, toggles, reports, cameraSide, serviceSide>>

\* DeleteEventsBefore, days later: the deliveries of the event go with it.
DeleteEventsBefore(e) ==
  /\ events[e] # -1 /\ ~alive /\ reports = <<>>
  /\ events' = [events EXCEPT ![e] = -1]
  /\ deliveries' = {r \in deliveries : r.event # e}
  /\ UNCHANGED <<settings, cameraSide, reports, refusedEvents, dropped, unlinked, lost>>

DeliveryNext ==
  \/ Emit \/ DispatchEvent \/ StopEngine \/ ProcessEnds
  \/ \E e \in Events, t \in Targets :
       \/ Acquire(e, t) \/ Receive(e, t) \/ Delivered(e, t) \/ NotDelivered(e, t)
       \/ Retry(e, t) \/ Abandon(e, t)
  \/ recordEvent \/ recordDelivery
  \/ \E t \in Targets : Toggle(t)
  \/ \E ts \in SUBSET Targets : UpdateCameraTargets(ts)
  \/ Reload
  \/ \E e \in Events : DeleteEventsBefore(e)

\* A request ends by its timeout, a backoff by its timer, and the worker of
\* the connection handles what is reported.
DeliveryFairness ==
  /\ WF_deliveryVars(DispatchEvent) /\ WF_deliveryVars(recordEvent \/ recordDelivery)
  /\ \A e \in Events, t \in Targets :
       /\ WF_deliveryVars(Acquire(e, t)) /\ WF_deliveryVars(Retry(e, t))
       /\ WF_deliveryVars(Delivered(e, t) \/ NotDelivered(e, t))

DeliverySpec == DeliveryInit /\ [][DeliveryNext]_deliveryVars /\ DeliveryFairness

-----------------------------------------------------------------------------
(* What the panel shows.                                                    *)

\* ListDeliveriesForEvents, and the last attempt of a target among them.
Attempts(e, t) == {r \in deliveries : r.event = e /\ r.target = t}
Latest(e, t) == CHOOSE r \in Attempts(e, t) : \A o \in Attempts(e, t) : r.attempt >= o.attempt

\* deliveryStatus, of the stored deliveries and the number expected.
deliveryStatus(e) ==
  LET tried == {t \in Targets : Attempts(e, t) # {}}
      last == {Latest(e, t).status : t \in tried}
  IN CASE tried = {} -> IF events[e] <= 0 THEN "none" ELSE "pending"
       [] "failed" \in last -> "failed"
       [] tried # {} /\ "failed" \notin last ->
            IF "retry" \in last \/ Cardinality(tried) < events[e] THEN "pending" ELSE "ok"

-----------------------------------------------------------------------------
(* Properties.                                                              *)

\* The service refuses a report for want of its event only when it could not
\* store the event: an honest camera never reports a delivery before the
\* event it is about.  What it refuses because the target was unlinked is
\* kept apart, in `unlinked`.
NoReportOrphaned == \A r \in dropped : r.event \in refusedEvents

\* While the camera runs no event stays pending for ever, unless a report
\* could not be stored or was refused because its target was unlinked, the
\* engine gave the event up, or the service expects more targets than the
\* camera knew of.
DeliveriesSettle ==
  \A e \in Events :
    events[e] # -1 ~> \/ deliveryStatus(e) # "pending"
                      \/ ~pushing \/ e \in silent
                      \/ \E t \in Targets : <<e, t>> \in lost \cup unlinked
                      \/ events[e] > Cardinality(sentTo[e])
=============================================================================
