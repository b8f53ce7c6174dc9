--------------------------- MODULE Camera_proofs ---------------------------
(***************************************************************************)
(* Theorems about the process of a camera, the reports of its deliveries   *)
(* and its settings, for any number of engines, events, targets, editors   *)
(* and clients and for any bound.                                          *)
(***************************************************************************)
EXTENDS MCCamera, FiniteSetTheorems, TLAPS

-----------------------------------------------------------------------------
(* The camera process *)

\* Until it is configured the camera only serves what the attempt under way
\* has started, and Run waits; afterwards it serves everything until Run
\* stops the engines.  Ready is not said earlier.
ProcessInv ==
  /\ DOMAIN engine = Instances /\ files \subseteq Instances /\ starting \in Nat
  /\ said \in Seq({"hello", "ready", "failed", "bye"})
  /\ handling \in {"none", "configure", "undo", "failed", "ready"}
  /\ handling \in {"configure", "undo", "failed"} => ~configured
  /\ handling = "ready" => configured
  /\ (\E k \in DOMAIN said : said[k] = "ready") => configured
  /\ ~configured => main \in {"hello", "waiting", "gone"}
  /\ ~configured /\ handling \in {"none", "failed"} => \A i \in Instances : engine[i] # "on"
  /\ handling = "configure" =>
       \A i \in Instances : engine[i] = "on" <=> i < starting
  /\ configured /\ main \in {"hello", "waiting", "serving"} => \A i \in Instances : engine[i] = "on"

\* Say appends one message, or none.
LEMMA SayAppends ==
  ASSUME NEW m \in {"hello", "ready", "failed", "bye"}, Say(m),
         said \in Seq({"hello", "ready", "failed", "bye"})
  PROVE  /\ said' \in Seq({"hello", "ready", "failed", "bye"})
         /\ (\E k \in DOMAIN said' : said'[k] = "ready") => (\E k \in DOMAIN said : said[k] = "ready") \/ m = "ready"
BY DEF Say

\* The worker keeps the invariant: it opens configured only when the last
\* engine is on.
LEMMA WorkerStep == ASSUME ProcessInv, Worker PROVE ProcessInv'
<1> USE ProcessAssumption
<1>1. CASE HandleOther \/ HandleStop BY <1>1 DEF HandleOther, HandleStop, ProcessInv
<1>2. CASE HandleConfigure BY <1>2 DEF HandleConfigure, ProcessInv, Instances
<1>3. CASE ConfigureRefused BY <1>3 DEF ConfigureRefused, ProcessInv, Instances
<1>4. CASE StartEngine
  <2>1. starting \in Instances /\ engine' = [engine EXCEPT ![starting] = "on"] /\ starting' = starting + 1
        /\ handling = "configure" /\ files' \subseteq files
        /\ UNCHANGED <<main, handling, configured, said>>
    BY <1>4 DEF StartEngine, ProcessInv
  <2> QED BY <2>1 DEF ProcessInv, Instances
<1>5. CASE StartFails BY <1>5 DEF StartFails, ProcessInv
<1>6. CASE ConfigureUndo BY <1>6 DEF ConfigureUndo, ProcessInv
<1>7. CASE ConfigureFailed
  <2>1. /\ said' \in Seq({"hello", "ready", "failed", "bye"})
        /\ (\E k \in DOMAIN said' : said'[k] = "ready") => (\E k \in DOMAIN said : said[k] = "ready")
    BY <1>7, SayAppends DEF ConfigureFailed, ProcessInv
  <2> QED BY <1>7, <2>1 DEF ConfigureFailed, ProcessInv
<1>8. CASE ConfigureDone BY <1>8 DEF ConfigureDone, ProcessInv, Instances
<1>9. CASE SayReady
  <2>1. said' \in Seq({"hello", "ready", "failed", "bye"})
    BY <1>9, SayAppends DEF SayReady, ProcessInv
  <2> QED BY <1>9, <2>1 DEF SayReady, ProcessInv
<1> QED BY <1>1, <1>2, <1>3, <1>4, <1>5, <1>6, <1>7, <1>8, <1>9 DEF Worker

\* Run keeps the invariant: it stops the engines only after it left its loop.
LEMMA RunStep == ASSUME ProcessInv, Run PROVE ProcessInv'
<1>1. CASE SayHello
  <2>1. /\ said' \in Seq({"hello", "ready", "failed", "bye"})
        /\ (\E k \in DOMAIN said' : said'[k] = "ready") => (\E k \in DOMAIN said : said[k] = "ready")
    BY <1>1, SayAppends DEF SayHello, ProcessInv
  <2> QED BY <1>1, <2>1 DEF SayHello, Leave, ProcessInv
<1>2. CASE SayBye
  <2>1. /\ said' \in Seq({"hello", "ready", "failed", "bye"})
        /\ (\E k \in DOMAIN said' : said'[k] = "ready") => (\E k \in DOMAIN said : said[k] = "ready")
    BY <1>2, SayAppends DEF SayBye, ProcessInv
  <2> QED BY <1>2, <2>1 DEF SayBye, Leave, ProcessInv
<1>3. CASE Configured \/ NotConfigured \/ LeaveLoop \/ RunReturns
  <2>1. /\ UNCHANGED <<handling, starting, engine, files, configured, said>>
        /\ \/ main = "waiting" /\ main' = "serving" /\ configured
           \/ main' = "gone"
           \/ main = "serving" /\ main' = "stopping"
    BY <1>3 DEF Configured, NotConfigured, LeaveLoop, RunReturns, Leave
  <2> QED BY <2>1 DEF ProcessInv
<1>4. CASE StopEngines BY <1>4 DEF StopEngines, ProcessInv
<1> QED BY <1>1, <1>2, <1>3, <1>4 DEF Run

\* Runtime.Run and configure: a camera that said ready serves every engine
\* of its profile until it stops, and one that failed serves none, for any
\* number of engines and messages.
THEOREM ReadyMeansServingAlways == ProcessSpec => []ReadyMeansServing
<1>1. ProcessInit => ProcessInv
  BY ProcessAssumption DEF ProcessInit, ProcessInv, Instances
<1>2. ProcessInv /\ [ProcessNext]_processVars => ProcessInv'
  <2> SUFFICES ASSUME ProcessInv, [ProcessNext]_processVars PROVE ProcessInv' OBVIOUS
  <2>1. ASSUME NEW msg \in {"configure", "stop", "other"}, ServiceSends(msg) PROVE ProcessInv'
    BY <2>1 DEF ServiceSends, ProcessInv
  <2>2. CASE LinkCloses BY <2>2 DEF LinkCloses, ProcessInv
  <2>3. CASE UNCHANGED processVars BY <2>3 DEF processVars, ProcessInv
  <2> QED BY <2>1, <2>2, <2>3, WorkerStep, RunStep DEF ProcessNext
<1>3. ProcessInv => ReadyMeansServing BY DEF ProcessInv, ReadyMeansServing
<1> QED BY <1>1, <1>2, <1>3, PTL DEF ProcessSpec

-----------------------------------------------------------------------------
(* The reports of deliveries *)

Reports == [event : Events, target : Targets \cup {"none"}, attempt : Nat,
            status : {"event", "ok", "retry", "failed"}]

\* heard[n]: the events the service knows of, or has failed to store, once it
\* has handled the first n reports.
heard == [n \in Nat |-> {e \in Events : \/ events[e] # -1
                                        \/ e \in refusedEvents
                                        \/ \E j \in 1..n : reports[j].event = e /\ reports[j].status = "event"}]

Couriers == [at : {"none", "queue", "sending", "backoff", "done"}, attempt : Nat]

ReportsTyped ==
  /\ DOMAIN events = Events
  /\ emitted \in Nat /\ emitting \in Events \cup {0}
  /\ camTargets \subseteq Targets /\ enabled \subseteq Targets /\ linked \subseteq Targets
  /\ sentTo \in [Events -> SUBSET Targets]
  /\ reports \in Seq(Reports)
  /\ courier \in [Events -> [Targets -> Couriers]]

\* Whoever is going to report a delivery has reported the event, and every
\* report of a delivery comes after the one of its event.
Ordered ==
  /\ ~alive => emitting = 0 /\ \A e \in Events, t \in Targets : courier[e][t].at \in {"none", "done"}
  /\ emitting # 0 => emitting \in heard[Len(reports)]
  /\ \A e \in Events, t \in Targets :
       courier[e][t].at \notin {"none", "done"} => e \in heard[Len(reports)]
  /\ \A k \in 1..Len(reports) : reports[k].status # "event" => reports[k].event \in heard[k - 1]

DeliveryInv == ReportsTyped /\ Ordered /\ NoReportOrphaned

\* Reports are added at the end, and an event heard of stays heard of.
ReportsGrow(msgs) ==
  /\ reports' \in Seq(Reports) /\ Len(reports) \in Nat /\ Len(reports') \in Nat
  /\ Len(reports') = (IF alive THEN Len(reports) + Len(msgs) ELSE Len(reports))
  /\ \A k \in 1..Len(reports) : reports'[k] = reports[k]
  /\ \A k \in 1..Len(reports') : k > Len(reports) => reports'[k] = msgs[k - Len(reports)]
  /\ \A n \in 0..Len(reports), m \in Nat : m >= n => heard[n] \subseteq heard'[m]

\* Report adds what it is given to the reports, if anything.
LEMMA Reported ==
  ASSUME ReportsTyped, NEW msgs \in Seq(Reports), Report(msgs), UNCHANGED <<events, refusedEvents>>
  PROVE  ReportsGrow(msgs)
<1>1. /\ reports' \in Seq(Reports) /\ Len(reports) \in Nat /\ Len(reports') \in Nat
      /\ Len(reports') = (IF alive THEN Len(reports) + Len(msgs) ELSE Len(reports))
      /\ \A k \in 1..Len(reports) : reports'[k] = reports[k]
      /\ \A k \in 1..Len(reports') : k > Len(reports) => reports'[k] = msgs[k - Len(reports)]
  <2>1. CASE alive
    <3>1. reports' = reports \o msgs BY <2>1 DEF Report
    <3>2. reports \in Seq(Reports) BY DEF ReportsTyped
    <3> QED BY <2>1, <3>1, <3>2
  <2>2. CASE ~alive BY <2>2 DEF Report, ReportsTyped
  <2> QED BY <2>1, <2>2
<1>2. ASSUME NEW n \in 0..Len(reports), NEW m \in Nat, m >= n PROVE heard[n] \subseteq heard'[m]
  <2>1. n \in Nat /\ \A j \in 1..n : j \in 1..Len(reports) /\ j \in 1..m BY <1>1, <1>2
  <2>2. \A j \in 1..n : reports'[j] = reports[j] BY <1>1, <2>1
  <2> QED BY <1>2, <2>1, <2>2 DEF heard
<1> QED BY <1>1, <1>2 DEF ReportsGrow

\* The first of the reports is handled.
LEMMA Taken ==
  ASSUME ReportsTyped, reports # <<>>, reports' = Tail(reports)
  PROVE  /\ reports' \in Seq(Reports) /\ Head(reports) = reports[1] /\ Head(reports) \in Reports
         /\ Len(reports') = Len(reports) - 1 /\ Len(reports) \in Nat /\ Len(reports) >= 1
         /\ \A k \in 1..Len(reports') : reports'[k] = reports[k + 1]
BY DEF ReportsTyped

\* The failed deliveries of a burst beyond the limit, one per target.
LEMMA BurstTyped ==
  ASSUME ReportsTyped, emitting # 0
  PROVE  [k \in 1..Cardinality(sentTo[emitting]) |->
            Row(emitting, SetToSeq(sentTo[emitting])[k], 1, "failed")] \in Seq(Reports)
<1> DEFINE S == sentTo[emitting]
           n == Cardinality(S)
<1>1. emitting \in Events /\ S \subseteq Targets BY DEF ReportsTyped
<1>2. IsFiniteSet(S) BY <1>1, FS_Subset, DeliveryAssumption
<1>3. n \in Nat /\ ExistsBijection(1..n, S) BY <1>2, FS_CardinalityType
<1>4. \E f \in [1..n -> S] : IsInjective(f)
  BY <1>3 DEF ExistsBijection, Bijection, Injection, IsInjective, Surjection
<1>5. SetToSeq(S) \in [1..n -> S] BY <1>4 DEF SetToSeq
<1> HIDE DEF S, n
<1>6. \A k \in 1..n : Row(emitting, SetToSeq(S)[k], 1, "failed") \in Reports
  BY <1>1, <1>5 DEF Row, Reports
<1>7. [k \in 1..n |-> Row(emitting, SetToSeq(S)[k], 1, "failed")] \in Seq(Reports)
  BY <1>3, <1>6
<1> QED BY <1>7 DEF S, n

\* Nothing is reported, and the service handles nothing.
LEMMA SameReports ==
  ASSUME UNCHANGED <<reports, events, refusedEvents>>
  PROVE  heard' = heard
BY DEF heard

\* Reports are added, those of deliveries about an event that was heard of.
LEMMA InOrder ==
  ASSUME DeliveryInv, UNCHANGED <<events, refusedEvents>>, NEW msgs \in Seq(Reports), Report(msgs),
         \A i \in 1..Len(msgs) : msgs[i].status # "event" => msgs[i].event \in heard[Len(reports)]
  PROVE  /\ reports' \in Seq(Reports)
         /\ \A k \in 1..Len(reports') : reports'[k].status # "event" => reports'[k].event \in heard'[k - 1]
         /\ heard[Len(reports)] \subseteq heard'[Len(reports')]
<1>1. ReportsTyped BY DEF DeliveryInv
<1>0. ReportsGrow(msgs) BY <1>1, Reported
<1>2. /\ reports' \in Seq(Reports) /\ Len(reports) \in Nat /\ Len(reports') \in Nat /\ Len(msgs) \in Nat
      /\ Len(reports') = (IF alive THEN Len(reports) + Len(msgs) ELSE Len(reports))
      /\ \A k \in 1..Len(reports) : reports'[k] = reports[k]
      /\ \A k \in 1..Len(reports') : k > Len(reports) => reports'[k] = msgs[k - Len(reports)]
      /\ \A n \in 0..Len(reports), m \in Nat : m >= n => heard[n] \subseteq heard'[m]
  BY <1>0 DEF ReportsGrow
<1>3. ASSUME NEW k \in 1..Len(reports'), reports'[k].status # "event"
      PROVE  reports'[k].event \in heard'[k - 1]
  <2>1. CASE k <= Len(reports)
    <3>1. reports'[k] = reports[k] /\ k - 1 \in 0..Len(reports) /\ k - 1 \in Nat BY <1>2, <2>1
    <3>2. reports[k].event \in heard[k - 1] BY <1>2, <1>3, <2>1, <3>1 DEF DeliveryInv, Ordered
    <3>3. \A n \in 0..Len(reports) : n \in Nat => heard[n] \subseteq heard'[n]
      <4>1. \A n \in 0..Len(reports) : n >= n BY <1>2
      <4> QED BY <1>2, <4>1
    <3> QED BY <3>1, <3>2, <3>3
  <2>2. CASE k > Len(reports)
    <3>1. k - Len(reports) \in 1..Len(msgs) /\ k - 1 \in Nat /\ k - 1 >= Len(reports)
      BY <1>2, <2>2
    <3>2. reports'[k].event \in heard[Len(reports)]
      <4>1. reports'[k] = msgs[k - Len(reports)] BY <1>2, <2>2
      <4> QED BY <1>3, <3>1, <4>1
    <3>3. heard[Len(reports)] \subseteq heard'[k - 1] BY <1>2, <3>1
    <3> QED BY <3>2, <3>3
  <2> QED BY <1>2, <2>1, <2>2
<1>4. heard[Len(reports)] \subseteq heard'[Len(reports')]
  <2>1. Len(reports) \in 0..Len(reports) /\ Len(reports') >= Len(reports) BY <1>2
  <2> QED BY <1>2, <2>1
<1> QED BY <1>2, <1>3, <1>4

\* One courier goes on; its event was heard of.
LEMMA OneCourier ==
  ASSUME DeliveryInv, NEW e \in Events, NEW t \in Targets, courier[e][t].at \notin {"none", "done"},
         NEW at \in {"queue", "sending", "backoff", "done"}, NEW n \in Nat, Move(e, t, at, n),
         UNCHANGED <<enabled, linked, camTargets, emitted, emitting, sentTo, alive, events, refusedEvents, dropped>>,
         reports' = reports \/ \E r \in Reports : r.event = e /\ Report(<<r>>)
  PROVE  DeliveryInv'
<1>1. alive /\ e \in heard[Len(reports)] BY DEF DeliveryInv, Ordered
<1>2. /\ courier' \in [Events -> [Targets -> Couriers]]
      /\ \A f \in Events, u \in Targets :
           courier'[f][u].at \notin {"none", "done"} => courier[f][u].at \notin {"none", "done"}
  BY DEF Move, DeliveryInv, ReportsTyped, Couriers
<1>3. /\ reports' \in Seq(Reports)
      /\ \A k \in 1..Len(reports') : reports'[k].status # "event" => reports'[k].event \in heard'[k - 1]
      /\ heard[Len(reports)] \subseteq heard'[Len(reports')]
  <2>1. CASE reports' = reports BY <2>1, SameReports DEF DeliveryInv, ReportsTyped, Ordered
  <2>2. ASSUME NEW r \in Reports, r.event = e, Report(<<r>>)
        PROVE  <1>3!:
    <3>1. <<r>> \in Seq(Reports) /\ \A i \in 1..Len(<<r>>) : <<r>>[i].event = e BY <2>2
    <3> QED BY <1>1, <2>2, <3>1, InOrder
  <2> QED BY <2>1, <2>2
<1>4. ReportsTyped' BY <1>2, <1>3 DEF DeliveryInv, ReportsTyped
<1>5. Ordered' BY <1>1, <1>2, <1>3 DEF DeliveryInv, Ordered
<1>6. NoReportOrphaned' BY DEF DeliveryInv, NoReportOrphaned
<1> QED BY <1>4, <1>5, <1>6 DEF DeliveryInv

\* A delivery under way keeps the invariant: its event was reported before it
\* began.
LEMMA CourierSteps ==
  ASSUME DeliveryInv, NEW e \in Events, NEW t \in Targets,
         \/ Acquire(e, t) \/ Receive(e, t) \/ Delivered(e, t) \/ NotDelivered(e, t)
         \/ Retry(e, t) \/ Abandon(e, t)
  PROVE  DeliveryInv'
<1> USE DeliveryAssumption
<1>1. courier[e][t].attempt \in Nat BY DEF DeliveryInv, ReportsTyped, Couriers
<1>2. CASE Acquire(e, t) BY <1>1, <1>2, OneCourier DEF Acquire, settings, serviceSide
<1>3. CASE Receive(e, t)
  <2>1. heard' = heard BY <1>3, SameReports DEF Receive, serviceSide
  <2> QED
    BY <1>3, <2>1 DEF Receive, settings, serviceSide, DeliveryInv, ReportsTyped, Ordered, NoReportOrphaned
<1>4. CASE Delivered(e, t)
  <2>1. Row(e, t, courier[e][t].attempt, "ok") \in Reports /\ Row(e, t, courier[e][t].attempt, "ok").event = e
    BY <1>1 DEF Row, Reports
  <2> QED BY <1>1, <1>4, <2>1, OneCourier DEF Delivered, settings, serviceSide
<1>5. CASE NotDelivered(e, t)
  <2> DEFINE n == courier[e][t].attempt
             row == Row(e, t, n, IF n <= Retries THEN "retry" ELSE "failed")
  <2>1. row \in Reports /\ row.event = e BY <1>1 DEF Row, Reports
  <2> HIDE DEF row
  <2>2. Report(<<row>>) /\ \E at \in {"backoff", "done"} : Move(e, t, at, n)
    BY <1>5 DEF NotDelivered, row
  <2> QED BY <1>1, <1>5, <2>1, <2>2, OneCourier DEF NotDelivered, settings, serviceSide
<1>6. CASE Retry(e, t) BY <1>1, <1>6, OneCourier DEF Retry, settings, serviceSide
<1>7. CASE Abandon(e, t) BY <1>1, <1>7, OneCourier DEF Abandon, settings, serviceSide
<1> QED BY <1>2, <1>3, <1>4, <1>5, <1>6, <1>7

\* Emit reports the event before it hands it to a delivery.
LEMMA EmitStep == ASSUME DeliveryInv, Emit PROVE DeliveryInv'
<1> USE DeliveryAssumption
<1> DEFINE e == emitted + 1
           row == Row(e, "none", 0, "event")
<1>1. /\ alive /\ e \in Events /\ row \in Reports /\ row.event = e /\ row.status = "event"
      /\ emitted' = e /\ emitting' = e /\ sentTo' \in [Events -> SUBSET Targets]
      /\ UNCHANGED <<courier, alive, enabled, linked, camTargets, events, refusedEvents, dropped>>
  BY DEF Emit, settings, serviceSide, DeliveryInv, ReportsTyped, Events, Row, Reports
<1>2. Report(<<row>>) BY DEF Emit
<1> HIDE DEF row, e
<1>3. <<row>> \in Seq(Reports) /\ \A i \in 1..Len(<<row>>) : <<row>>[i].status = "event"
  BY <1>1
<1>4. /\ reports' \in Seq(Reports)
      /\ \A k \in 1..Len(reports') : reports'[k].status # "event" => reports'[k].event \in heard'[k - 1]
      /\ heard[Len(reports)] \subseteq heard'[Len(reports')]
  BY <1>1, <1>2, <1>3, InOrder
<1>5. e \in heard'[Len(reports')]
  <2>1. reports' = Append(reports, row) /\ Len(reports') = Len(reports) + 1 /\ Len(reports) \in Nat
        /\ reports'[Len(reports')] = row
    BY <1>1, <1>2 DEF Report, DeliveryInv, ReportsTyped
  <2>2. Len(reports') \in Nat /\ Len(reports') \in 1..Len(reports') BY <2>1
  <2> QED BY <1>1, <2>1, <2>2 DEF heard
<1>6. ReportsTyped' BY <1>1, <1>4 DEF DeliveryInv, ReportsTyped, Events
<1>7. Ordered' BY <1>1, <1>4, <1>5 DEF DeliveryInv, Ordered
<1>8. NoReportOrphaned' BY <1>1 DEF DeliveryInv, NoReportOrphaned
<1> QED BY <1>6, <1>7, <1>8 DEF DeliveryInv

\* The deliveries of an event begin when its report is on the way.
LEMMA DispatchEventStep == ASSUME DeliveryInv, DispatchEvent PROVE DeliveryInv'
<1> USE DeliveryAssumption
<1>1. /\ emitting \in Events /\ alive /\ emitting' = 0 /\ emitting \in heard[Len(reports)]
      /\ UNCHANGED <<emitted, sentTo, alive, enabled, linked, camTargets, events, refusedEvents, dropped>>
  BY DEF DispatchEvent, settings, serviceSide, DeliveryInv, ReportsTyped, Ordered
<1>2. NoReportOrphaned' BY <1>1 DEF DeliveryInv, NoReportOrphaned
<1>3. CASE /\ courier' = [courier EXCEPT ![emitting] =
                           [t \in Targets |-> IF t \in sentTo[emitting]
                                              THEN [at |-> "queue", attempt |-> 1] ELSE NoCourier]]
           /\ UNCHANGED reports
  <2>1. heard' = heard BY <1>1, <1>3, SameReports
  <2>2. /\ courier' \in [Events -> [Targets -> Couriers]]
        /\ \A e \in Events \ {emitting} : courier'[e] = courier[e]
    BY <1>1, <1>3 DEF DeliveryInv, ReportsTyped, Couriers, NoCourier
  <2>3. ReportsTyped' BY <1>1, <1>3, <2>2 DEF DeliveryInv, ReportsTyped
  <2>4. Ordered' BY <1>1, <1>3, <2>1, <2>2 DEF DeliveryInv, Ordered
  <2> QED BY <1>2, <2>3, <2>4 DEF DeliveryInv
<1>4. CASE /\ Report([k \in 1..Cardinality(sentTo[emitting]) |->
                        Row(emitting, SetToSeq(sentTo[emitting])[k], 1, "failed")])
           /\ UNCHANGED courier
  <2> DEFINE msgs == [k \in 1..Cardinality(sentTo[emitting]) |->
                        Row(emitting, SetToSeq(sentTo[emitting])[k], 1, "failed")]
  <2>1. msgs \in Seq(Reports) BY <1>1, BurstTyped DEF DeliveryInv, Events
  <2>2. \A k \in DOMAIN msgs : msgs[k].event = emitting BY DEF Row
  <2>3. Report(msgs) BY <1>4
  <2> HIDE DEF msgs
  <2>4. \A i \in 1..Len(msgs) : msgs[i].event \in heard[Len(reports)] BY <1>1, <2>1, <2>2
  <2>5. /\ reports' \in Seq(Reports)
        /\ \A k \in 1..Len(reports') : reports'[k].status # "event" => reports'[k].event \in heard'[k - 1]
        /\ heard[Len(reports)] \subseteq heard'[Len(reports')]
    BY <1>1, <2>1, <2>3, <2>4, InOrder
  <2>6. ReportsTyped' BY <1>1, <1>4, <2>5 DEF DeliveryInv, ReportsTyped
  <2>7. Ordered' BY <1>1, <1>4, <2>5 DEF DeliveryInv, Ordered
  <2> QED BY <1>2, <2>6, <2>7 DEF DeliveryInv
<1>5. CASE UNCHANGED <<courier, reports>>
  <2>1. heard' = heard BY <1>1, <1>5, SameReports
  <2> QED BY <1>1, <1>2, <1>5, <2>1 DEF DeliveryInv, ReportsTyped, Ordered
<1> QED BY <1>3, <1>4, <1>5 DEF DispatchEvent

\* The service handles the first report: what it had heard of after that one
\* and the next n, it has now heard of after n.
LEMMA Handled ==
  ASSUME DeliveryInv, reports # <<>>, reports' = Tail(reports),
         DOMAIN events' = Events,
         \A e \in Events : events[e] # -1 => events'[e] # -1,
         refusedEvents \subseteq refusedEvents',
         LET r == Head(reports) IN
           r.status = "event" => events'[r.event] # -1 \/ r.event \in refusedEvents',
         UNCHANGED <<enabled, linked, camTargets, emitted, emitting, sentTo, courier, alive>>
  PROVE  ReportsTyped' /\ Ordered'
<1>1. /\ reports' \in Seq(Reports) /\ Head(reports) = reports[1] /\ Head(reports) \in Reports
      /\ Len(reports') = Len(reports) - 1 /\ Len(reports) \in Nat /\ Len(reports) >= 1
      /\ \A k \in 1..Len(reports') : reports'[k] = reports[k + 1]
  BY Taken DEF DeliveryInv
<1>2. ReportsTyped' BY <1>1 DEF DeliveryInv, ReportsTyped
<1>3. ASSUME NEW n \in 1..Len(reports) PROVE heard[n] \subseteq heard'[n - 1]
  <2>1. n \in Nat /\ n - 1 \in Nat BY <1>1
  <2>2. ASSUME NEW e \in Events, NEW j \in 1..n, reports[j].event = e, reports[j].status = "event"
        PROVE  \/ events'[e] # -1
               \/ e \in refusedEvents'
               \/ \E i \in 1..(n - 1) : reports'[i].event = e /\ reports'[i].status = "event"
    <3>1. CASE j = 1 BY <1>1, <2>2, <3>1
    <3>2. CASE j # 1
      <4>1. j - 1 \in 1..(n - 1) /\ j - 1 \in 1..Len(reports') /\ (j - 1) + 1 = j BY <1>1, <2>1, <3>2
      <4>2. reports'[j - 1] = reports[j] BY <1>1, <4>1
      <4> QED BY <2>2, <4>1, <4>2
    <3> QED BY <3>1, <3>2
  <2> QED BY <2>1, <2>2 DEF heard
<1>4. heard[Len(reports)] \subseteq heard'[Len(reports')] BY <1>1, <1>3
<1>5. ASSUME NEW k \in 1..Len(reports'), reports'[k].status # "event"
      PROVE  reports'[k].event \in heard'[k - 1]
  <2>1. k \in 1..Len(reports) /\ k + 1 \in 1..Len(reports) /\ (k + 1) - 1 = k /\ reports'[k] = reports[k + 1]
    BY <1>1
  <2>2. reports[k + 1].event \in heard[k] BY <1>5, <2>1 DEF DeliveryInv, Ordered
  <2> QED BY <1>3, <2>1, <2>2
<1>6. Ordered' BY <1>4, <1>5 DEF DeliveryInv, Ordered
<1> QED BY <1>2, <1>6

\* The service takes the reports in their order.
LEMMA RecordSteps == ASSUME DeliveryInv, recordEvent \/ recordDelivery PROVE DeliveryInv'
<1> USE DeliveryAssumption
<1>1. /\ reports # <<>> /\ reports' = Tail(reports)
      /\ UNCHANGED <<enabled, linked, camTargets, emitted, emitting, sentTo, courier, alive>>
  BY DEF recordEvent, recordDelivery, Take, settings
<1>2. /\ Head(reports) = reports[1] /\ Head(reports) \in Reports /\ 1 \in 1..Len(reports)
  BY <1>1, Taken DEF DeliveryInv
<1>3. CASE recordEvent
  <2>1. expectedDeliveries # -1
    <3>1. enabled \cap linked \subseteq Targets BY DEF DeliveryInv, ReportsTyped
    <3>2. IsFiniteSet(enabled \cap linked) BY <3>1, FS_Subset, DeliveryAssumption
    <3> QED BY <3>2, FS_CardinalityType DEF expectedDeliveries
  <2>2. /\ DOMAIN events' = Events /\ refusedEvents \subseteq refusedEvents' /\ dropped' = dropped
        /\ \A e \in Events : events[e] # -1 => events'[e] # -1
        /\ events'[Head(reports).event] # -1 \/ Head(reports).event \in refusedEvents'
    <3>1. Head(reports).event \in Events BY <1>2 DEF Reports
    <3> QED BY <1>3, <2>1, <3>1 DEF recordEvent, DeliveryInv, ReportsTyped
  <2>3. ReportsTyped' /\ Ordered' BY <1>1, <2>2, Handled
  <2> QED BY <2>2, <2>3 DEF DeliveryInv, NoReportOrphaned
<1>4. CASE recordDelivery
  <2>1. UNCHANGED <<events, refusedEvents>> /\ Head(reports).status # "event"
    BY <1>4 DEF recordDelivery, Take
  <2>2. ReportsTyped' /\ Ordered' BY <1>1, <2>1, Handled DEF DeliveryInv, ReportsTyped
  <2>3. Head(reports).event \in heard[0]
    BY <1>2, <2>1 DEF DeliveryInv, Ordered
  <2>4. events[Head(reports).event] # -1 \/ Head(reports).event \in refusedEvents
    BY <2>3 DEF heard
  <2>5. NoReportOrphaned' BY <1>4, <2>1, <2>4 DEF recordDelivery, DeliveryInv, NoReportOrphaned
  <2> QED BY <2>2, <2>5 DEF DeliveryInv
<1> QED BY <1>3, <1>4

\* What touches neither the reports nor what the service has stored.
LEMMA QuietSteps ==
  ASSUME DeliveryInv,
         \/ StopEngine \/ ProcessEnds \/ Reload \/ (\E t \in Targets : Toggle(t))
         \/ (\E ts \in SUBSET Targets : UpdateCameraTargets(ts))
         \/ (\E e \in Events : DeleteEventsBefore(e)) \/ UNCHANGED deliveryVars
  PROVE  DeliveryInv'
<1>1. CASE \/ StopEngine \/ Reload \/ (\E t \in Targets : Toggle(t)) \/ UNCHANGED deliveryVars
           \/ (\E ts \in SUBSET Targets : UpdateCameraTargets(ts))
  <2>1. /\ UNCHANGED <<reports, events, refusedEvents, dropped, emitted, emitting, sentTo, courier, alive>>
        /\ camTargets' \in {camTargets, enabled \cap linked} /\ enabled' \subseteq enabled \cup Targets
        /\ linked' \subseteq linked \cup Targets
    BY <1>1 DEF StopEngine, Reload, Toggle, UpdateCameraTargets, deliveryVars, settings, serviceSide, cameraSide
  <2>2. heard' = heard BY <2>1, SameReports
  <2> QED BY <2>1, <2>2 DEF DeliveryInv, ReportsTyped, Ordered, NoReportOrphaned
<1>2. CASE ProcessEnds
  <2>1. heard' = heard BY <1>2, SameReports DEF ProcessEnds, serviceSide
  <2>2. courier' \in [Events -> [Targets -> Couriers]]
        /\ \A e \in Events, t \in Targets : courier'[e][t].at \in {"none", "done"}
    <3>1. \A e \in Events, t \in Targets :
            /\ courier'[e][t] = IF courier[e][t] = NoCourier THEN NoCourier
                                ELSE [courier[e][t] EXCEPT !.at = "done"]
            /\ courier[e][t] \in Couriers
      BY <1>2 DEF ProcessEnds, DeliveryInv, ReportsTyped
    <3>2. \A c \in Couriers : /\ [c EXCEPT !.at = "done"] \in Couriers /\ NoCourier \in Couriers
                              /\ [c EXCEPT !.at = "done"].at = "done" /\ NoCourier.at = "none"
      BY DEF Couriers, NoCourier
    <3>3. \A e \in Events, t \in Targets : courier'[e][t] \in Couriers /\ courier'[e][t].at \in {"none", "done"}
      <4> SUFFICES ASSUME NEW e \in Events, NEW t \in Targets
                   PROVE  courier'[e][t] \in Couriers /\ courier'[e][t].at \in {"none", "done"}
        OBVIOUS
      <4>1. PICK c \in Couriers : courier'[e][t] = IF c = NoCourier THEN NoCourier ELSE [c EXCEPT !.at = "done"]
        BY <3>1
      <4> QED BY <3>2, <4>1
    <3>4. DOMAIN courier' = Events /\ courier' = [e \in Events |-> [t \in Targets |-> courier'[e][t]]]
      BY <1>2 DEF ProcessEnds
    <3> QED BY <3>3, <3>4
  <2>3. ReportsTyped' BY <1>2, <2>2 DEF ProcessEnds, settings, serviceSide, DeliveryInv, ReportsTyped
  <2>4. Ordered' BY <1>2, <2>1, <2>2 DEF ProcessEnds, DeliveryInv, Ordered
  <2> QED BY <1>2, <2>3, <2>4 DEF ProcessEnds, serviceSide, DeliveryInv, NoReportOrphaned
<1>3. ASSUME NEW e \in Events, DeleteEventsBefore(e) PROVE DeliveryInv'
  <2>1. /\ ~alive /\ reports = <<>> /\ DOMAIN events' = Events
        /\ UNCHANGED <<enabled, linked, camTargets, emitted, emitting, sentTo, courier, alive, reports,
                       refusedEvents, dropped>>
    BY <1>3 DEF DeleteEventsBefore, settings, cameraSide, DeliveryInv, ReportsTyped
  <2>2. ReportsTyped' BY <2>1 DEF DeliveryInv, ReportsTyped
  <2>3. Len(reports) = 0 BY <2>1
  <2>4. Ordered' BY <2>1, <2>3 DEF DeliveryInv, Ordered
  <2> QED BY <2>1, <2>2, <2>4 DEF DeliveryInv, NoReportOrphaned
<1> QED BY <1>1, <1>2, <1>3

\* Emit, deliver, recordEvent and recordDelivery: the service refuses a
\* report only when it had failed to store the event, for any number of
\* events and targets, however deliveries and the end of the process overlap.
THEOREM NoReportOrphanedAlways == DeliverySpec => []NoReportOrphaned
<1>1. DeliveryInit => DeliveryInv
  BY DeliveryAssumption
     DEF DeliveryInit, DeliveryInv, ReportsTyped, Ordered, NoReportOrphaned, Couriers, NoCourier, Events
<1>2. DeliveryInv /\ [DeliveryNext]_deliveryVars => DeliveryInv'
  BY CourierSteps, EmitStep, DispatchEventStep, RecordSteps, QuietSteps DEF DeliveryNext
<1>3. DeliveryInv => NoReportOrphaned BY DEF DeliveryInv
<1> QED BY <1>1, <1>2, <1>3, PTL DEF DeliverySpec

-----------------------------------------------------------------------------
(* The settings of a camera *)

Values == ParamValues \cup Nat \cup SUBSET LinkedTargets

Fits(kind, val) ==
  \/ kind = "param" /\ val \in ParamValues
  \/ kind = "users" /\ val \in Nat
  \/ kind = "targets" /\ val \in SUBSET LinkedTargets

Requests == {m \in [by : Editors, kind : {"param", "users", "targets"}, val : Values] : Fits(m.kind, m.val)}

EditRecords == [at : {"new", "stored", "send", "wait", "done"},
                kind : {"none", "param", "users", "targets"}, val : Values, gen : Nat]

SettingsTyped ==
  /\ db \in Settings /\ bundle \in Settings /\ held \in Settings \cup {NoCamera}
  /\ session \in {"none", "starting", "running"} /\ generation \in Nat
  /\ down \in Seq(Requests) /\ up \in Seq(ParamValues)
  /\ client \in [Clients -> ParamValues \cup {NoCamera}]
  /\ edit \in [Editors -> EditRecords]
  /\ \A e \in Editors :
       /\ edit[e].at \in {"send", "wait"} => Fits(edit[e].kind, edit[e].val)
       /\ edit[e].at = "stored" => edit[e].kind = "targets" \/ Fits(edit[e].kind, edit[e].val)

\* Requests and clients reach a camera only while a session has one.
SessionHolds ==
  /\ session = "none" => held = NoCamera
  /\ session = "running" => held # NoCamera
  /\ held = NoCamera => down = <<>> /\ \A c \in Clients : client[c] = NoCamera

NoEdit == \A e \in Editors : edit[e].at \in {"new", "done"}
OnlyEdit(e) == \A f \in Editors : edit[f].at \in {"new", "done"} <=> f # e
NoReport == \A c \in Clients : client[c] = NoCamera

SameParam == held.param = db.param
SameUsers == held.users = db.users
SameTargets == db.targets # {} => held.targets = db.targets

\* What an edit that alone is under way carries is what it has stored.
EditCarries(e) ==
  /\ edit[e].kind \in {"param", "users", "targets"}
  /\ IF edit[e].kind = "param" THEN edit[e].val = db.param ELSE SameParam
  /\ IF edit[e].kind = "users" THEN edit[e].val = db.users ELSE SameUsers
  /\ IF edit[e].kind = "targets" THEN edit[e].at # "stored" => edit[e].val = db.targets ELSE SameTargets
  /\ edit[e].at = "send" => edit[e].gen = generation
  /\ down = IF edit[e].at = "wait" THEN <<[by |-> e, kind |-> edit[e].kind, val |-> edit[e].val]>> ELSE <<>>

\* While nothing has raced at most one change is under way, and it carries
\* the whole difference between the camera and the database.
OneChange ==
  \/ NoEdit /\ NoReport /\ up = <<>> /\ down = <<>> /\ SameParam /\ SameUsers /\ SameTargets
  \/ session = "running" /\ NoReport /\ up = <<>> /\ \E e \in Editors : OnlyEdit(e) /\ EditCarries(e)
  \/ /\ NoEdit /\ up = <<>> /\ down = <<>> /\ SameUsers /\ SameTargets
     /\ \E c \in Clients : /\ \A o \in Clients : client[o] = NoCamera <=> o # c
                           /\ client[c] = held.param
  \/ NoEdit /\ NoReport /\ down = <<>> /\ SameUsers /\ SameTargets /\ up = <<held.param>>

Unraced ==
  ~raced /\ session # "none" =>
    IF held = NoCamera THEN NoEdit /\ NoReport /\ up = <<>> /\ down = <<>> /\ bundle = db
    ELSE OneChange

AgreementInv == SettingsTyped /\ SessionHolds /\ Unraced

\* Nothing is under way, in the terms of the invariant.
LEMMA QuietIs == Quiet <=> NoEdit /\ NoReport /\ up = <<>> /\ down = <<>>
BY DEF Quiet, Editing, Reporting, NoEdit, NoReport

\* A start loads the database and hands it to the camera.
LEMMA SessionSteps ==
  ASSUME AgreementInv, StartLoad \/ Configure \/ BecomeRunning \/ SessionEnds
  PROVE  AgreementInv'
<1> USE SettingsAssumption
<1>1. CASE StartLoad
  <2>1. bundle' = db
    BY <1>1 DEF StartLoad, loadBundle, ListCameraState, ListCameraUsers, ListCameraTargets,
       AgreementInv, SettingsTyped, Settings
  <2>2. SettingsTyped' BY <1>1, <2>1 DEF StartLoad, AgreementInv, SettingsTyped
  <2>3. SessionHolds' BY <1>1 DEF StartLoad, AgreementInv, SessionHolds
  <2>4. Unraced'
    BY <1>1, <2>1, QuietIs DEF StartLoad, AgreementInv, SessionHolds, Unraced, NoEdit, NoReport
  <2> QED BY <2>2, <2>3, <2>4 DEF AgreementInv
<1>2. CASE Configure
  <2>1. SettingsTyped' /\ held' # NoCamera BY <1>2 DEF Configure, AgreementInv, SettingsTyped
  <2>2. SessionHolds' BY <1>2, <2>1 DEF Configure, AgreementInv, SessionHolds
  <2>3. Unraced'
    BY <1>2, <2>1
       DEF Configure, AgreementInv, Unraced, OneChange, NoEdit, NoReport, SameParam, SameUsers, SameTargets
  <2> QED BY <2>1, <2>2, <2>3 DEF AgreementInv
<1>3. CASE BecomeRunning
  <2>1. SettingsTyped' BY <1>3 DEF BecomeRunning, AgreementInv, SettingsTyped
  <2>2. SessionHolds' BY <1>3 DEF BecomeRunning, AgreementInv, SessionHolds
  <2>3. Unraced'
    BY <1>3 DEF BecomeRunning, AgreementInv, Unraced, OneChange, NoEdit, NoReport, SameParam,
                SameUsers, SameTargets, OnlyEdit, EditCarries
  <2> QED BY <2>1, <2>2, <2>3 DEF AgreementInv
<1>4. CASE SessionEnds
  <2>1. edit' \in [Editors -> EditRecords]
    <3>1. edit \in [Editors -> EditRecords] BY DEF AgreementInv, SettingsTyped
    <3>2. \A x \in EditRecords : [x EXCEPT !.at = "done"] \in EditRecords BY DEF EditRecords
    <3> QED BY <1>4, <3>1, <3>2 DEF SessionEnds
  <2>2. \A e \in Editors : edit'[e] = edit[e] \/ edit'[e].at = "done"
    BY <1>4 DEF SessionEnds, AgreementInv, SettingsTyped
  <2>3. SettingsTyped' BY <1>4, <2>1, <2>2 DEF SessionEnds, AgreementInv, SettingsTyped
  <2>4. SessionHolds' /\ Unraced' BY <1>4 DEF SessionEnds, SessionHolds, Unraced
  <2> QED BY <2>3, <2>4 DEF AgreementInv
<1> QED BY <1>1, <1>2, <1>3, <1>4

\* When nothing is under way nothing carries a difference.
LEMMA QuietAgrees ==
  ASSUME AgreementInv, ~raced, Quiet, session # "none", held # NoCamera
  PROVE  SameParam /\ SameUsers /\ SameTargets
<1>1. NoEdit /\ NoReport /\ up = <<>> /\ down = <<>> BY QuietIs
<1>2. OneChange BY DEF AgreementInv, Unraced
<1>3. \A v : up # <<v>> BY <1>1
<1> QED BY <1>1, <1>2, <1>3 DEF OneChange, NoEdit, NoReport, OnlyEdit

\* An edit that stores a value while nothing is under way is the one change of
\* the invariant.
LEMMA StoreStep ==
  ASSUME AgreementInv, NEW e \in Editors, NEW kind \in {"param", "users", "targets"}, NEW val \in Values,
         NEW new \in Settings, Store(e, kind, val, new),
         kind # "targets" => Fits(kind, val),
         IF kind = "param" THEN new.param = val ELSE new.param = db.param,
         IF kind = "users" THEN new.users = val ELSE new.users = db.users,
         kind # "targets" => new.targets = db.targets
  PROVE  AgreementInv'
<1> USE SettingsAssumption
<1> DEFINE rec == [at |-> "stored", kind |-> kind, val |-> val, gen |-> 0]
<1>1. /\ edit' = [edit EXCEPT ![e] = rec] /\ db' = new /\ raced' = (raced \/ ~Quiet \/ session = "starting")
      /\ UNCHANGED <<held, bundle, session, generation, down, up, client>>
  BY DEF Store
<1>2. rec.at = "stored" /\ rec.kind = kind /\ rec.val = val
      /\ rec \in EditRecords
  BY DEF EditRecords
<1> HIDE DEF rec
<1>3. edit'[e] = rec /\ \A f \in Editors : f # e => edit'[f] = edit[f]
  BY <1>1 DEF AgreementInv, SettingsTyped
<1>4. SettingsTyped' BY <1>1, <1>2, <1>3 DEF AgreementInv, SettingsTyped
<1>5. SessionHolds' BY <1>1 DEF AgreementInv, SessionHolds
<1>6. Unraced'
  <2> SUFFICES ASSUME ~raced', session # "none"
               PROVE  held # NoCamera /\ OneChange'
    BY <1>1 DEF Unraced
  <2>1. ~raced /\ Quiet /\ session = "running" /\ held # NoCamera
    BY <1>1 DEF AgreementInv, SettingsTyped, SessionHolds
  <2>2. NoEdit /\ NoReport /\ up = <<>> /\ down = <<>> /\ SameParam /\ SameUsers /\ SameTargets
    BY <2>1, QuietIs, QuietAgrees
  <2>3. OnlyEdit(e)' BY <1>2, <1>3, <2>2 DEF OnlyEdit, NoEdit
  <2>4. EditCarries(e)'
    BY <1>1, <1>2, <1>3, <2>2 DEF EditCarries, SameParam, SameUsers, SameTargets
  <2> QED BY <1>1, <2>1, <2>2, <2>3, <2>4 DEF OneChange, NoReport
<1> QED BY <1>4, <1>5, <1>6 DEF AgreementInv

\* An edit of the panel keeps the invariant at each of its steps.
LEMMA EditSteps ==
  ASSUME AgreementInv, NEW e \in Editors,
         \/ \E v \in ParamValues : UpdateCameraConfig(e, v)
         \/ SetCameraUsers(e)
         \/ \E t \in LinkedTargets : UpdateTarget(e, t)
  PROVE  AgreementInv'
<1>0. db \in Settings /\ db.users \in Nat BY DEF AgreementInv, SettingsTyped, Settings
<1>1. ASSUME NEW v \in ParamValues, UpdateCameraConfig(e, v) PROVE AgreementInv'
  <2>1. LET n == UpsertCameraState(v) IN
          n \in Settings /\ n.param = v /\ n.users = db.users /\ n.targets = db.targets
    BY <1>0 DEF UpsertCameraState, Settings
  <2> QED BY <1>1, <2>1, StoreStep DEF UpdateCameraConfig, Values, Fits
<1>2. CASE SetCameraUsers(e)
  <2>1. LET n == InsertCameraUser IN
          n \in Settings /\ n.param = db.param /\ n.users = db.users + 1 /\ n.targets = db.targets
    BY <1>0 DEF InsertCameraUser, Settings
  <2> QED BY <1>0, <1>2, <2>1, StoreStep DEF SetCameraUsers, ListCameraUsers, Values, Fits
<1>3. ASSUME NEW t \in LinkedTargets, UpdateTarget(e, t) PROVE AgreementInv'
  <2> DEFINE n == [db EXCEPT !.targets = IF t \in @ THEN @ \ {t} ELSE @ \cup {t}]
  <2>1. n \in Settings /\ n.param = db.param /\ n.users = db.users BY <1>0 DEF Settings
  <2>2. Store(e, "targets", 0, n) BY <1>3 DEF UpdateTarget
  <2>3. 0 \in Values BY DEF Values
  <2> HIDE DEF n
  <2> QED BY <2>1, <2>2, <2>3, StoreStep
<1> QED BY <1>1, <1>2, <1>3

\* One edit moves on to another record; the database and the camera stay.
LEMMA CheckActiveStep == ASSUME AgreementInv, NEW e \in Editors, CheckActive(e) PROVE AgreementInv'
<1> USE SettingsAssumption
<1>1. /\ UNCHANGED <<db, held, bundle, session, generation, down, up, client, raced>>
      /\ edit[e].at = "stored"
      /\ IF session # "running"
         THEN edit' = [edit EXCEPT ![e] = [edit[e] EXCEPT !.at = "done"]]
         ELSE edit' = [edit EXCEPT ![e] = [edit[e] EXCEPT !.at = "send", !.gen = generation,
                         !.val = IF edit[e].kind = "targets" THEN ListCameraTargets ELSE edit[e].val]]
  <2>1. /\ UNCHANGED <<db, held, bundle, session, generation, down, up, client, raced>>
        /\ edit[e].at = "stored"
    BY DEF CheckActive
  <2>2. CASE session # "running" BY <2>1, <2>2 DEF CheckActive
  <2>3. CASE session = "running" BY <2>1, <2>3 DEF CheckActive
  <2> QED BY <2>2, <2>3
<1>2. PICK r \in EditRecords :
        /\ edit' = [edit EXCEPT ![e] = r] /\ r.kind = edit[e].kind
        /\ session # "running" => r.at = "done"
        /\ session = "running" =>
             /\ r.at = "send" /\ r.gen = generation
             /\ r.kind = "targets" => r.val = db.targets
             /\ r.kind # "targets" => r.val = edit[e].val
  <2>1. edit[e] \in EditRecords
        /\ generation \in Nat /\ db.targets \in Values
    BY DEF AgreementInv, SettingsTyped, Settings, Values
  <2>2. CASE session # "running"
    <3>1. LET r == [edit[e] EXCEPT !.at = "done"] IN
            /\ r \in EditRecords
            /\ r.kind = edit[e].kind /\ r.at = "done"
      BY <2>1 DEF EditRecords
    <3> QED BY <1>1, <2>2, <3>1
  <2>3. CASE session = "running"
    <3>1. LET r == [edit[e] EXCEPT !.at = "send", !.gen = generation,
                      !.val = IF edit[e].kind = "targets" THEN ListCameraTargets ELSE edit[e].val] IN
            /\ r \in EditRecords
            /\ r.kind = edit[e].kind /\ r.at = "send" /\ r.gen = generation
            /\ r.kind = "targets" => r.val = db.targets
            /\ r.kind # "targets" => r.val = edit[e].val
      BY <2>1 DEF EditRecords, ListCameraTargets
    <3> QED BY <1>1, <2>3, <3>1
  <2> QED BY <2>2, <2>3
<1>3. edit'[e] = r /\ \A f \in Editors : f # e => edit'[f] = edit[f]
  BY <1>2 DEF AgreementInv, SettingsTyped
<1>4. SettingsTyped'
  <2>1. db.targets \in SUBSET LinkedTargets BY DEF AgreementInv, SettingsTyped, Settings
  <2>2. r.at \in {"send", "wait"} => Fits(r.kind, r.val)
    BY <1>1, <1>2, <2>1 DEF AgreementInv, SettingsTyped, Fits
  <2>3. r.at # "stored" BY <1>2
  <2>4. edit' \in [Editors -> EditRecords]
    BY <1>2 DEF AgreementInv, SettingsTyped
  <2> QED BY <1>1, <1>3, <2>2, <2>3, <2>4 DEF AgreementInv, SettingsTyped
<1>5. SessionHolds' BY <1>1 DEF AgreementInv, SessionHolds
<1>6. Unraced'
  <2> SUFFICES ASSUME ~raced, session # "none"
               PROVE  held # NoCamera /\ OneChange'
    BY <1>1 DEF Unraced
  <2>1. ~NoEdit BY <1>1 DEF NoEdit
  <2>2. held # NoCamera /\ OneChange BY <2>1 DEF AgreementInv, Unraced
  <2>3. session = "running" /\ NoReport /\ up = <<>> /\ OnlyEdit(e) /\ EditCarries(e)
    BY <1>1, <2>1, <2>2 DEF OneChange, OnlyEdit
  <2>4. OnlyEdit(e)' BY <1>2, <1>3, <2>3 DEF OnlyEdit
  <2>5. EditCarries(e)'
    BY <1>1, <1>2, <1>3, <2>3 DEF EditCarries, SameParam, SameUsers, SameTargets
  <2> QED BY <1>1, <2>2, <2>3, <2>4, <2>5 DEF OneChange, NoReport
<1> QED BY <1>4, <1>5, <1>6 DEF AgreementInv

\* The request of an edit leaves, or the edit ends with its session.
LEMMA SendStep == ASSUME AgreementInv, NEW e \in Editors, Send(e) PROVE AgreementInv'
<1> USE SettingsAssumption
<1> DEFINE m == [by |-> e, kind |-> edit[e].kind, val |-> edit[e].val]
<1>1. /\ UNCHANGED <<db, held, bundle, session, generation, up, client, raced>> /\ edit[e].at = "send"
      /\ edit[e] \in EditRecords /\ Fits(edit[e].kind, edit[e].val)
  BY DEF Send, AgreementInv, SettingsTyped
<1>2. m \in Requests BY <1>1 DEF EditRecords, Requests, Fits
<1>3. PICK r : /\ r \in EditRecords /\ edit' = [edit EXCEPT ![e] = r] /\ r.kind = edit[e].kind /\ r.val = edit[e].val
               /\ r.gen = edit[e].gen
               /\ IF session = "running" /\ edit[e].gen = generation
                  THEN r.at = "wait" /\ down' = Append(down, m)
                  ELSE r.at = "done" /\ down' = down
  <2>1. ASSUME NEW at \in {"wait", "done"}
        PROVE  LET r == [edit[e] EXCEPT !.at = at] IN
                 r \in EditRecords /\ r.kind = edit[e].kind /\ r.val = edit[e].val /\ r.at = at /\ r.gen = edit[e].gen
    BY <1>1 DEF EditRecords
  <2>2. CASE session = "running" /\ edit[e].gen = generation
    <3>1. edit' = [edit EXCEPT ![e] = [edit[e] EXCEPT !.at = "wait"]] /\ down' = Append(down, m)
      BY <2>2 DEF Send
    <3> QED BY <2>1, <2>2, <3>1
  <2>3. CASE ~(session = "running" /\ edit[e].gen = generation)
    <3>1. edit' = [edit EXCEPT ![e] = [edit[e] EXCEPT !.at = "done"]] /\ down' = down
      BY <2>3 DEF Send
    <3> QED BY <2>1, <2>3, <3>1
  <2> QED BY <2>2, <2>3
<1>4. edit'[e] = r /\ \A f \in Editors : f # e => edit'[f] = edit[f]
  BY <1>3 DEF AgreementInv, SettingsTyped
<1>5. SettingsTyped'
  <2>1. down' \in Seq(Requests)
    <3>1. down \in Seq(Requests) BY DEF AgreementInv, SettingsTyped
    <3>2. down' = Append(down, m) \/ down' = down BY <1>3
    <3> HIDE DEF m
    <3> QED BY <1>2, <3>1, <3>2
  <2>2. edit' \in [Editors -> EditRecords]
    BY <1>3 DEF AgreementInv, SettingsTyped
  <2>3. Fits(r.kind, r.val) /\ r.at # "stored" BY <1>1, <1>3
  <2> QED BY <1>1, <1>4, <2>1, <2>2, <2>3 DEF AgreementInv, SettingsTyped
<1>6. SessionHolds' BY <1>1, <1>3 DEF AgreementInv, SessionHolds
<1>7. Unraced'
  <2> SUFFICES ASSUME ~raced, session # "none"
               PROVE  held # NoCamera /\ OneChange'
    BY <1>1 DEF Unraced
  <2>1. ~NoEdit BY <1>1 DEF NoEdit
  <2>2. held # NoCamera /\ OneChange BY <2>1 DEF AgreementInv, Unraced
  <2>3. session = "running" /\ NoReport /\ up = <<>> /\ OnlyEdit(e) /\ EditCarries(e)
    BY <1>1, <2>1, <2>2 DEF OneChange, OnlyEdit
  <2>4. r.at = "wait" /\ down = <<>> /\ edit[e].gen = generation BY <1>1, <1>3, <2>3 DEF EditCarries
  <2>5. down' = <<m>> BY <1>3, <2>3, <2>4
  <2>6. OnlyEdit(e)' BY <1>3, <1>4, <2>3, <2>4 DEF OnlyEdit
  <2>7. EditCarries(e)'
    BY <1>1, <1>3, <1>4, <2>3, <2>4, <2>5 DEF EditCarries, SameParam, SameUsers, SameTargets
  <2> QED BY <1>1, <2>2, <2>3, <2>6, <2>7 DEF OneChange, NoReport
<1> QED BY <1>5, <1>6, <1>7 DEF AgreementInv

\* The camera applies the one request there is, and so agrees with the
\* database.
LEMMA HandleRequestStep == ASSUME AgreementInv, HandleRequest PROVE AgreementInv'
<1> USE SettingsAssumption
<1> DEFINE m == Head(down)
<1>1. /\ UNCHANGED <<db, bundle, session, generation, up, client, raced>> /\ down # <<>> /\ down' = Tail(down)
      /\ m \in Requests /\ m.by \in Editors /\ Fits(m.kind, m.val) /\ down' \in Seq(Requests)
  BY DEF HandleRequest, AgreementInv, SettingsTyped, Requests
<1>2. held # NoCamera /\ held \in Settings /\ session # "none"
  BY <1>1 DEF AgreementInv, SessionHolds, SettingsTyped
<1>3. /\ held' \in Settings
      /\ held'.param = IF m.kind = "param" THEN m.val ELSE held.param
      /\ held'.users = IF m.kind = "users" THEN m.val ELSE held.users
      /\ held'.targets = IF m.kind = "targets" /\ m.val # {} THEN m.val ELSE held.targets
  <2>1. CASE m.kind = "param"
    <3>1. held' = [held EXCEPT !.param = m.val] /\ m.val \in ParamValues
      BY <1>1, <2>1 DEF HandleRequest, Fits
    <3> QED BY <1>2, <2>1, <3>1 DEF Settings
  <2>2. CASE m.kind = "users"
    <3>1. held' = [held EXCEPT !.users = m.val] /\ m.val \in Nat
      BY <1>1, <2>2 DEF HandleRequest, Fits
    <3> QED BY <1>2, <2>2, <3>1 DEF Settings
  <2>3. CASE m.kind = "targets"
    <3>1. held' = (IF m.val = {} THEN held ELSE [held EXCEPT !.targets = m.val])
          /\ m.val \in SUBSET LinkedTargets
      BY <1>1, <2>3 DEF HandleRequest, Fits
    <3> QED BY <1>2, <2>3, <3>1 DEF Settings
  <2> QED BY <1>1, <2>1, <2>2, <2>3 DEF Fits
<1>4. /\ edit' \in [Editors -> EditRecords]
      /\ edit'[m.by].at = "done" /\ \A f \in Editors : f # m.by => edit'[f] = edit[f]
  <2>1. edit' = [edit EXCEPT ![m.by].at = "done"] BY DEF HandleRequest
  <2>2. edit \in [Editors -> EditRecords] BY DEF AgreementInv, SettingsTyped
  <2>3. \A x \in EditRecords : /\ [x EXCEPT !.at = "done"] \in EditRecords
                               /\ [x EXCEPT !.at = "done"].at = "done"
    BY DEF EditRecords
  <2> HIDE DEF m
  <2> QED BY <1>1, <2>1, <2>2, <2>3
<1>5. SettingsTyped'
  <2> HIDE DEF m
  <2> QED BY <1>1, <1>3, <1>4 DEF AgreementInv, SettingsTyped
<1>6. SessionHolds'
  <2>1. held' # NoCamera BY <1>3
  <2> QED BY <1>1, <1>2, <2>1 DEF AgreementInv, SessionHolds
<1>7. Unraced'
  <2> SUFFICES ASSUME ~raced PROVE held' # NoCamera /\ OneChange'
    BY <1>1 DEF Unraced
  <2>1. OneChange BY <1>2 DEF AgreementInv, Unraced
  <2>2. PICK e \in Editors : NoReport /\ up = <<>> /\ OnlyEdit(e) /\ EditCarries(e)
    BY <1>1, <2>1 DEF OneChange
  <2>3. /\ edit[e].at = "wait"
        /\ down = <<[by |-> e, kind |-> edit[e].kind, val |-> edit[e].val]>>
    BY <1>1, <2>2 DEF EditCarries
  <2>4. m.by = e /\ m.kind = edit[e].kind /\ m.val = edit[e].val /\ down' = <<>>
    BY <1>1, <2>3
  <2> HIDE DEF m
  <2>5. NoEdit' BY <1>4, <2>2, <2>4 DEF OnlyEdit, NoEdit
  <2>6. SameParam' /\ SameUsers' /\ SameTargets'
    BY <1>1, <1>3, <2>2, <2>3, <2>4 DEF EditCarries, SameParam, SameUsers, SameTargets
  <2>7. held' # NoCamera BY <1>3
  <2> QED BY <1>1, <2>2, <2>4, <2>5, <2>6, <2>7 DEF OneChange, NoReport
<1> QED BY <1>5, <1>6, <1>7 DEF AgreementInv

\* A client's change is the one change until it is stored.
LEMMA ClientSetStep ==
  ASSUME AgreementInv, NEW c \in Clients, NEW v \in ParamValues, ClientSet(c, v)
  PROVE  AgreementInv'
<1> USE SettingsAssumption
<1>1. /\ held # NoCamera /\ held' = [held EXCEPT !.param = v] /\ client' = [client EXCEPT ![c] = v]
      /\ raced' = (raced \/ ~Quiet) /\ v # NoCamera
      /\ UNCHANGED <<db, bundle, session, generation, down, up, edit>>
  BY DEF ClientSet
<1>2. /\ held' \in Settings /\ held'.param = v /\ held'.users = held.users /\ held'.targets = held.targets
      /\ held' # NoCamera /\ session # "none"
  BY <1>1 DEF AgreementInv, SettingsTyped, SessionHolds, Settings
<1>3. client' \in [Clients -> ParamValues \cup {NoCamera}] /\ client'[c] = v
      /\ \A o \in Clients : o # c => client'[o] = client[o]
  BY <1>1 DEF AgreementInv, SettingsTyped
<1>4. SettingsTyped' BY <1>1, <1>2, <1>3 DEF AgreementInv, SettingsTyped
<1>5. SessionHolds' BY <1>1, <1>2 DEF AgreementInv, SessionHolds
<1>6. Unraced'
  <2> SUFFICES ASSUME ~raced' PROVE OneChange' BY <1>1, <1>2 DEF Unraced
  <2>1. NoEdit /\ NoReport /\ up = <<>> /\ down = <<>> /\ SameParam /\ SameUsers /\ SameTargets
    BY <1>1, <1>2, QuietIs, QuietAgrees
  <2>2. \A o \in Clients : client'[o] = NoCamera <=> o # c BY <1>1, <1>3, <2>1 DEF NoReport
  <2>3. SameUsers' /\ SameTargets' BY <1>1, <1>2, <2>1 DEF SameUsers, SameTargets
  <2> QED BY <1>1, <1>2, <1>3, <2>1, <2>2, <2>3 DEF OneChange, NoEdit
<1> QED BY <1>4, <1>5, <1>6 DEF AgreementInv

\* A client's change goes on the wire.
LEMMA ClientReportStep == ASSUME AgreementInv, NEW c \in Clients, ClientReport(c) PROVE AgreementInv'
<1> USE SettingsAssumption
<1>1. /\ client[c] # NoCamera /\ up' = Append(up, client[c]) /\ client' = [client EXCEPT ![c] = NoCamera]
      /\ UNCHANGED <<db, held, bundle, session, generation, down, edit, raced>>
  BY DEF ClientReport
<1>2. client[c] \in ParamValues /\ up' \in Seq(ParamValues)
      /\ client' \in [Clients -> ParamValues \cup {NoCamera}] /\ client'[c] = NoCamera
      /\ \A o \in Clients : o # c => client'[o] = client[o]
  BY <1>1 DEF AgreementInv, SettingsTyped
<1>3. SettingsTyped' BY <1>1, <1>2 DEF AgreementInv, SettingsTyped
<1>4. SessionHolds' BY <1>1, <1>2 DEF AgreementInv, SessionHolds
<1>5. Unraced'
  <2> SUFFICES ASSUME ~raced, session # "none" PROVE held # NoCamera /\ OneChange'
    BY <1>1 DEF Unraced
  <2>1. held # NoCamera /\ ~NoReport BY <1>1 DEF AgreementInv, SessionHolds, NoReport
  <2>2. OneChange BY <2>1 DEF AgreementInv, Unraced
  <2>3. /\ NoEdit /\ up = <<>> /\ down = <<>> /\ SameUsers /\ SameTargets
        /\ \A o \in Clients : client[o] = NoCamera <=> o # c
        /\ client[c] = held.param
    BY <1>1, <2>1, <2>2 DEF OneChange
  <2>4. up' = <<held.param>> BY <1>1, <2>3
  <2>5. NoReport' BY <1>2, <2>3 DEF NoReport
  <2>6. NoEdit' /\ SameUsers' /\ SameTargets' BY <1>1, <2>3 DEF NoEdit, SameUsers, SameTargets
  <2> QED BY <1>1, <2>1, <2>3, <2>4, <2>5, <2>6 DEF OneChange
<1> QED BY <1>3, <1>4, <1>5 DEF AgreementInv

\* The service stores the client's change, and so agrees with the camera.
LEMMA ClientChangesStep == ASSUME AgreementInv, clientChanges PROVE AgreementInv'
<1> USE SettingsAssumption
<1>1. /\ up # <<>> /\ up' = Tail(up) /\ db' = [db EXCEPT !.param = Head(up)]
      /\ UNCHANGED <<held, bundle, session, generation, down, client, edit, raced>>
      /\ Head(up) \in ParamValues /\ up' \in Seq(ParamValues)
  BY DEF clientChanges, UpsertCameraState, AgreementInv, SettingsTyped
<1>2. db' \in Settings /\ db'.param = Head(up) /\ db'.users = db.users /\ db'.targets = db.targets
  BY <1>1 DEF AgreementInv, SettingsTyped, Settings
<1>3. SettingsTyped' BY <1>1, <1>2 DEF AgreementInv, SettingsTyped
<1>4. SessionHolds' BY <1>1 DEF AgreementInv, SessionHolds
<1>5. Unraced'
  <2> SUFFICES ASSUME ~raced, session # "none" PROVE held # NoCamera /\ OneChange'
    BY <1>1 DEF Unraced
  <2>1. held # NoCamera /\ OneChange BY <1>1 DEF AgreementInv, Unraced
  <2>2. NoEdit /\ NoReport /\ down = <<>> /\ SameUsers /\ SameTargets /\ up = <<held.param>>
    BY <1>1, <2>1 DEF OneChange
  <2>3. up' = <<>> /\ db'.param = held.param BY <1>1, <1>2, <2>2
  <2>4. NoEdit' /\ NoReport' /\ SameParam' /\ SameUsers' /\ SameTargets'
    BY <1>1, <1>2, <2>2, <2>3 DEF NoEdit, NoReport, SameParam, SameUsers, SameTargets
  <2> QED BY <1>1, <2>1, <2>2, <2>3, <2>4 DEF OneChange
<1> QED BY <1>3, <1>4, <1>5 DEF AgreementInv

\* UpdateCameraConfig, SetCameraUsers, UpdateTarget, the changes of clients
\* and the starts of sessions: unless changes overlapped, a running camera
\* and the database agree whenever nothing is under way, for any number of
\* editors, clients and sessions and any set of values.
THEOREM AgreeUnlessRacedAlways == SettingsSpec => []AgreeUnlessRaced
<1>1. SettingsInit => AgreementInv
  <2> SUFFICES ASSUME SettingsInit PROVE AgreementInv OBVIOUS
  <2> USE SettingsAssumption DEF SettingsInit
  <2>1. (CHOOSE v \in ParamValues : TRUE) \in ParamValues OBVIOUS
  <2>2. db \in Settings /\ bundle \in Settings BY <2>1 DEF Settings
  <2>3. edit \in [Editors -> EditRecords]
        /\ \A e \in Editors : edit[e].at = "new"
    BY DEF EditRecords, Values
  <2>4. SettingsTyped BY <2>2, <2>3 DEF SettingsTyped
  <2> QED BY <2>4 DEF AgreementInv, SessionHolds, Unraced
<1>2. AgreementInv /\ [SettingsNext]_settingsVars => AgreementInv'
  <2> SUFFICES ASSUME AgreementInv, [SettingsNext]_settingsVars PROVE AgreementInv' OBVIOUS
  <2>1. CASE UNCHANGED settingsVars
    BY <2>1 DEF settingsVars, AgreementInv, SettingsTyped, SessionHolds, Unraced, OneChange, NoEdit,
                NoReport, SameParam, SameUsers, SameTargets, OnlyEdit, EditCarries
  <2> QED
    BY <2>1, SessionSteps, EditSteps, CheckActiveStep, SendStep, HandleRequestStep, ClientSetStep,
       ClientReportStep, ClientChangesStep DEF SettingsNext
<1>3. AgreementInv => AgreeUnlessRaced
  <2> SUFFICES ASSUME AgreementInv, ~raced, Quiet, session = "running" PROVE SameParam /\ SameUsers /\ SameTargets
    BY DEF AgreeUnlessRaced, SameParam, SameUsers, SameTargets
  <2> QED BY QuietAgrees DEF AgreementInv, SessionHolds
<1> QED BY <1>1, <1>2, <1>3, PTL DEF SettingsSpec
=============================================================================
