----------------------------- MODULE Net_proofs -----------------------------
(***************************************************************************)
(* Theorems about the two runtimes and the address probe, for any number   *)
(* of cameras, requests, launches and hosts and for any bound.             *)
(***************************************************************************)
EXTENDS MCNet, FiniteSetTheorems, TLAPS

-----------------------------------------------------------------------------
(* The address probe *)

\* Why two hosts g and h do not both get through: of two that probe one has
\* only just begun; one that probes began after the other's probe was over;
\* and one that meets an owner still sends probes.
ArpPair(g, h) ==
  /\ host[g] = "probing" /\ host[h] = "probing" => age[g] = 0 \/ age[h] = 0
  /\ host[g] = "assigning" /\ host[h] = "probing" => age[h] <= age[g]
  /\ host[g] = "owner" /\ host[h] = "probing" => age[h] < probeCount
  /\ host[g] \in {"assigning", "owner"} => host[h] \notin {"assigning", "owner"}

ArpTyped ==
  /\ host \in [Hosts -> {"idle", "probing", "assigning", "owner", "conflict"}]
  /\ age \in [Hosts -> Nat]

ArpInv ==
  /\ ArpTyped
  /\ \A h \in Hosts : host[h] = "assigning" => age[h] <= MaxDelay
  /\ \A g, h \in Hosts : g # h => ArpPair(g, h)

\* A tick: of two hosts that both go on, neither heard the other.
LEMMA ArpTickStep == ASSUME ArpInv, ArpTick PROVE ArpInv'
<1> USE ArpAssumption
<1>1. /\ \A h \in Hosts : host[h] = "assigning" => age[h] < MaxDelay
      /\ host' = [h \in Hosts |-> IF host[h] # "probing" THEN host[h]
                                  ELSE IF Hears(h) THEN "conflict"
                                  ELSE IF age[h] + 1 = Deadline THEN "assigning" ELSE "probing"]
      /\ age' = [h \in Hosts |-> IF host'[h] = host[h] /\ host[h] \in {"probing", "assigning"}
                                 THEN age[h] + 1 ELSE 0]
  BY DEF ArpTick
<1>2. ArpTyped' BY <1>1 DEF ArpInv, ArpTyped
<1>3. \A h \in Hosts : (host[h] = "assigning" => age[h] <= MaxDelay)'
  BY <1>1 DEF ArpInv, ArpTyped
<1>4. ASSUME NEW g \in Hosts, NEW h \in Hosts, g # h PROVE ArpPair(g, h)'
  <2>1. ArpPair(g, h) /\ ArpPair(h, g) BY <1>4 DEF ArpInv
  <2>2. /\ host[g] = "probing" /\ host'[g] # "conflict" =>
             /\ host[h] = "probing" => age[h] >= probeCount
             /\ host[h] = "owner" => age[g] >= probeCount
        /\ host[h] = "probing" /\ host'[h] # "conflict" =>
             /\ host[g] = "probing" => age[g] >= probeCount
             /\ host[g] = "owner" => age[h] >= probeCount
    BY <1>1, <1>4 DEF Hears, Probes, ArpInv, ArpTyped
  <2>3. /\ host'[g] \in {"probing", "assigning"} => host[g] = "probing" \/ host[g] = host'[g]
        /\ host'[h] \in {"probing", "assigning"} => host[h] = "probing" \/ host[h] = host'[h]
        /\ host'[g] = "owner" <=> host[g] = "owner"
        /\ host'[h] = "owner" <=> host[h] = "owner"
        /\ host'[g] = "probing" => host[g] = "probing" /\ age'[g] = age[g] + 1
        /\ host'[h] = "probing" => host[h] = "probing" /\ age'[h] = age[h] + 1
        /\ host'[g] = "assigning" /\ host[g] = "assigning" => age'[g] = age[g] + 1 /\ age[g] < MaxDelay
        /\ host'[h] = "assigning" /\ host[h] = "assigning" => age'[h] = age[h] + 1 /\ age[h] < MaxDelay
        /\ host'[g] = "assigning" /\ host[g] = "probing" => age[g] + 1 = Deadline
        /\ host'[h] = "assigning" /\ host[h] = "probing" => age[h] + 1 = Deadline
    BY <1>1 DEF ArpInv, ArpTyped
  <2>4. /\ age[g] \in Nat /\ age[h] \in Nat /\ probeCount \in Nat \ {0} /\ probeWait \in Nat \ {0}
        /\ MaxDelay \in Nat /\ MaxDelay < probeCount /\ Deadline = probeCount + probeWait
    BY DEF ArpInv, ArpTyped, Deadline
  <2> QED BY <2>1, <2>2, <2>3, <2>4 DEF ArpPair
<1> QED BY <1>2, <1>3, <1>4 DEF ArpInv

\* Every step of the hosts keeps the invariant.
LEMMA ArpSteps == ASSUME ArpInv, [ArpNext]_arpVars PROVE ArpInv'
<1> USE ArpAssumption
<1>1. ASSUME NEW h \in Hosts, probeIP(h) PROVE ArpInv'
  <2>1. ArpTyped' BY <1>1 DEF probeIP, ArpInv, ArpTyped
  <2>2. host' = [host EXCEPT ![h] = "probing"] /\ age' = [age EXCEPT ![h] = 0] /\ host[h] = "idle"
    BY <1>1 DEF probeIP
  <2> QED BY <2>1, <2>2 DEF ArpInv, ArpTyped, ArpPair
<1>2. ASSUME NEW h \in Hosts, AddrAdd(h) PROVE ArpInv'
  <2>1. ArpTyped' BY <1>2 DEF AddrAdd, ArpInv, ArpTyped
  <2>2. host' = [host EXCEPT ![h] = "owner"] /\ UNCHANGED age /\ host[h] = "assigning"
    BY <1>2 DEF AddrAdd
  <2> QED BY <2>1, <2>2 DEF ArpInv, ArpTyped, ArpPair
<1>3. ASSUME NEW h \in Hosts, AddrGone(h) PROVE ArpInv'
  <2>1. ArpTyped' BY <1>3 DEF AddrGone, ArpInv, ArpTyped
  <2>2. host' = [host EXCEPT ![h] = "idle"] /\ UNCHANGED age
    BY <1>3 DEF AddrGone
  <2> QED BY <2>1, <2>2 DEF ArpInv, ArpTyped, ArpPair
<1>4. CASE UNCHANGED arpVars BY <1>4 DEF arpVars, ArpInv, ArpTyped, ArpPair
<1> QED BY <1>1, <1>2, <1>3, <1>4, ArpTickStep DEF ArpNext

\* RN-06 and probeIP: whatever the number of probes and however long the
\* kernel takes to assign an address, as long as it is shorter than the
\* probes of another host, no two hosts own the address.
THEOREM OneOwnerAlways == ArpSpec => []OneOwner
<1>1. ArpInit => ArpInv BY ArpAssumption DEF ArpInit, ArpInv, ArpTyped, ArpPair
<1>2. ArpInv => OneOwner
  <2> SUFFICES ASSUME ArpInv PROVE OneOwner OBVIOUS
  <2> DEFINE owners == {h \in Hosts : host[h] = "owner"}
  <2>1. \A g, h \in owners : g = h BY DEF ArpInv, ArpPair
  <2>2. owners = {} \/ \E h \in owners : owners = {h} BY <2>1
  <2>3. Cardinality(owners) \in {0, 1} BY <2>2, FS_EmptySet, FS_Singleton
  <2> QED BY <2>3 DEF OneOwner
<1> QED BY <1>1, <1>2, ArpSteps, PTL DEF ArpSpec

-----------------------------------------------------------------------------
(* The local runtime implements a runtime *)

\* What the steps of a launch and the life of its process have to do with
\* each other; the local runtime knows the process of every camera that has
\* one; and launches that hold a place hold different places.
LocalInv ==
  /\ DOMAIN of = Launches \cup Destroys /\ DOMAIN step = Launches \cup Destroys
  /\ DOMAIN life = Launches /\ DOMAIN procs = LocalCams
  /\ \A l \in Launches :
       /\ step[l] \in {"new", "start", "failed"} => life[l] = "none"
       /\ step[l] = "register" => life[l] \in {"running", "ended"}
       /\ step[l] \in {"new", "start", "failed", "register", "ok"}
       /\ life[l] \in {"none", "running", "ended", "done", "reaped"}
       /\ step[l] = "ok" => life[l] # "none"
       /\ life[l] \in {"done", "reaped"} => step[l] = "ok"
       /\ step[l] = "ok" /\ life[l] # "reaped" => procs[of[l]] = l
       /\ LocalHolds(l) => of[l] \in LocalCams
  /\ \A l, k \in Launches : LocalHolds(l) /\ LocalHolds(k) /\ of[l] = of[k] => l = k

\* Every step of the local runtime keeps its invariant.
LEMMA LocalSteps == ASSUME LocalInv, [LocalNext]_localVars PROVE LocalInv'
<1> USE LocalAssumption
<1>1. ASSUME NEW l \in Launches, NEW c \in LocalCams, LaunchCheck(l, c) PROVE LocalInv'
  BY <1>1 DEF LaunchCheck, LocalInv, LocalHolds
<1>2. ASSUME NEW l \in Launches, LaunchStart(l) PROVE LocalInv'
  BY <1>2 DEF LaunchStart, LocalInv, LocalHolds
<1>3. ASSUME NEW l \in Launches, LaunchRegister(l) PROVE LocalInv'
  BY <1>3 DEF LaunchRegister, LocalInv, LocalHolds
<1>4. ASSUME NEW l \in Launches, ProcessEnds(l) PROVE LocalInv'
  BY <1>4 DEF ProcessEnds, LocalInv, LocalHolds
<1>5. ASSUME NEW l \in Launches, ReapDone(l) PROVE LocalInv'
  BY <1>5 DEF ReapDone, LocalInv, LocalHolds
<1>6. ASSUME NEW l \in Launches, Reap(l) PROVE LocalInv'
  BY <1>6 DEF Reap, LocalInv, LocalHolds
<1>7. ASSUME NEW d \in Destroys, NEW c \in LocalCams, DestroyBegin(d, c) PROVE LocalInv'
  BY <1>7 DEF DestroyBegin, LocalInv, LocalHolds
<1>8. ASSUME NEW d \in Destroys, DestroyEnd(d) PROVE LocalInv'
  BY <1>8 DEF DestroyEnd, LocalInv, LocalHolds
<1>9. CASE UNCHANGED localVars BY <1>9 DEF localVars, LocalInv, LocalHolds
<1> QED BY <1>1, <1>2, <1>3, <1>4, <1>5, <1>6, <1>7, <1>8, <1>9 DEF LocalNext

\* The places and the processes of the abstract runtime.
localNet == {<<of[l], l>> : l \in {k \in Launches : LocalHolds(k)}}
localProc == {<<of[l], l>> : l \in {k \in Launches : life[k] = "running"}}

\* A step that touches no place and no process is a stutter of the runtime.
LEMMA LocalStutter ==
  ASSUME \A l \in Launches : (LocalHolds(l) <=> LocalHolds(l)') /\ (life[l] = "running" <=> life'[l] = "running"),
         \A l \in Launches : LocalHolds(l) \/ life[l] = "running" => of'[l] = of[l]
  PROVE  UNCHANGED <<localNet, localProc>>
BY DEF localNet, localProc

\* Each step of the local runtime is a step of the runtime or a stutter.
LEMMA LocalStep ==
  ASSUME LocalInv, [LocalNext]_localVars
  PROVE  \/ \E c \in LocalCams, l \in Launches :
              \/ /\ \A k \in Launches : <<c, k>> \notin localNet
                 /\ localNet' = localNet \cup {<<c, l>>} /\ UNCHANGED localProc
              \/ /\ <<c, l>> \in localNet /\ \A k \in Launches : <<c, k>> \notin localProc
                 /\ localProc' = localProc \cup {<<c, l>>} /\ UNCHANGED localNet
         \/ \E S \in SUBSET localProc : localProc' = localProc \ S /\ UNCHANGED localNet
         \/ \E S \in SUBSET (localNet \ localProc) : localNet' = localNet \ S /\ UNCHANGED localProc
         \/ UNCHANGED <<localNet, localProc>>
<1> USE LocalAssumption
<1> DEFINE acquires(c, l) == /\ \A k \in Launches : <<c, k>> \notin localNet
                             /\ localNet' = localNet \cup {<<c, l>>} /\ UNCHANGED localProc
           begins(c, l) == /\ <<c, l>> \in localNet /\ \A k \in Launches : <<c, k>> \notin localProc
                           /\ localProc' = localProc \cup {<<c, l>>} /\ UNCHANGED localNet
           ends(S) == localProc' = localProc \ S /\ UNCHANGED localNet
           releases(S) == localNet' = localNet \ S /\ UNCHANGED localProc
           goal == \/ \E c \in LocalCams, l \in Launches : acquires(c, l) \/ begins(c, l)
                   \/ \E S \in SUBSET localProc : ends(S)
                   \/ \E S \in SUBSET (localNet \ localProc) : releases(S)
                   \/ UNCHANGED <<localNet, localProc>>
<1>1. ASSUME NEW l \in Launches, NEW c \in LocalCams, LaunchCheck(l, c) PROVE goal
  <2>1. CASE procs[c] = NoProc
    <3>1. /\ of' = [of EXCEPT ![l] = c] /\ step' = [step EXCEPT ![l] = "start"] /\ UNCHANGED life
          /\ ~LocalHolds(l) /\ life[l] = "none"
      BY <1>1, <2>1 DEF LaunchCheck, LocalInv, LocalHolds
    <3>2. \A k \in Launches : LocalHolds(k) => of[k] # c
      BY <1>1, <2>1 DEF LaunchCheck, LocalInv, LocalHolds
    <3>3. \A k \in Launches : LocalHolds(k)' <=> LocalHolds(k) \/ k = l
      BY <3>1 DEF LocalInv, LocalHolds
    <3>4. \A k \in Launches : of'[k] = IF k = l THEN c ELSE of[k]
      BY <3>1 DEF LocalInv
    <3>5. localNet' = localNet \cup {<<c, l>>} BY <3>1, <3>3, <3>4 DEF localNet
    <3>6. UNCHANGED localProc BY <3>1, <3>4 DEF localProc
    <3>7. \A k \in Launches : <<c, k>> \notin localNet BY <3>2 DEF localNet
    <3> QED BY <3>5, <3>6, <3>7
  <2>2. CASE procs[c] # NoProc
    <3>1. UNCHANGED <<localNet, localProc>>
      BY <1>1, <2>2, LocalStutter DEF LaunchCheck, LocalInv, LocalHolds
    <3> QED BY <3>1
  <2> QED BY <2>1, <2>2
<1>2. ASSUME NEW l \in Launches, LaunchStart(l) PROVE goal
  <2>1. LocalHolds(l) /\ <<of[l], l>> \in localNet /\ of[l] \in LocalCams /\ UNCHANGED of
    BY <1>2 DEF LaunchStart, LocalInv, LocalHolds, localNet
  <2>2. \A k \in Launches : <<of[l], k>> \notin localProc
    <3>1. \A k \in Launches : life[k] = "running" => LocalHolds(k) /\ k # l
      BY <1>2 DEF LaunchStart, LocalInv, LocalHolds
    <3>2. \A k \in Launches : life[k] = "running" => of[k] # of[l] BY <2>1, <3>1 DEF LocalInv
    <3> QED BY <3>2 DEF localProc
  <2>3. CASE life' = [life EXCEPT ![l] = "running"] /\ step' = [step EXCEPT ![l] = "register"]
    <3>1. UNCHANGED localNet BY <1>2, <2>1, <2>3 DEF localNet, LocalHolds, LocalInv, LaunchStart
    <3>2. localProc' = localProc \cup {<<of[l], l>>} BY <2>1, <2>3 DEF localProc, LocalInv
    <3> QED BY <2>1, <2>2, <3>1, <3>2
  <2>4. CASE step' = [step EXCEPT ![l] = "failed"] /\ UNCHANGED life
    <3>1. UNCHANGED localProc BY <2>1, <2>4 DEF localProc
    <3>2. \A k \in Launches : LocalHolds(k)' <=> LocalHolds(k) /\ k # l
      BY <2>4 DEF LocalHolds, LocalInv
    <3>3. localNet' = localNet \ {<<of[l], l>>} BY <2>1, <3>2 DEF localNet
    <3>4. {<<of[l], l>>} \in SUBSET (localNet \ localProc) BY <2>1, <2>2
    <3> QED BY <3>1, <3>3, <3>4
  <2> QED BY <1>2, <2>3, <2>4 DEF LaunchStart
<1>3. ASSUME NEW l \in Launches, LaunchRegister(l) PROVE goal
  <2>1. UNCHANGED <<localNet, localProc>>
    BY <1>3, LocalStutter DEF LaunchRegister, LocalInv, LocalHolds
  <2> QED BY <2>1
<1>4. ASSUME NEW l \in Launches, ProcessEnds(l) PROVE goal
  <2>1. life[l] = "running" /\ life' = [life EXCEPT ![l] = "ended"] /\ UNCHANGED <<of, step>>
    BY <1>4 DEF ProcessEnds
  <2>2. UNCHANGED localNet BY <2>1 DEF localNet, LocalHolds, LocalInv
  <2>3. localProc' = localProc \ {<<of[l], l>>} BY <2>1 DEF localProc, LocalInv
  <2>4. {<<of[l], l>>} \in SUBSET localProc BY <2>1 DEF localProc
  <2> QED BY <2>2, <2>3, <2>4
<1>5. ASSUME NEW l \in Launches, ReapDone(l) PROVE goal
  <2>1. UNCHANGED <<localNet, localProc>>
    BY <1>5, LocalStutter DEF ReapDone, LocalInv, LocalHolds
  <2> QED BY <2>1
<1>6. ASSUME NEW l \in Launches, Reap(l) PROVE goal
  <2>1. life[l] = "done" /\ life' = [life EXCEPT ![l] = "reaped"] /\ step[l] = "ok" /\ UNCHANGED <<of, step>>
    BY <1>6 DEF Reap, LocalInv
  <2>2. \A k \in Launches : LocalHolds(k)' <=> LocalHolds(k) /\ k # l
    BY <2>1 DEF LocalHolds, LocalInv
  <2>3. localNet' = localNet \ {<<of[l], l>>} BY <2>1, <2>2 DEF localNet
  <2>4. UNCHANGED localProc BY <2>1 DEF localProc, LocalInv
  <2>5. {<<of[l], l>>} \in SUBSET (localNet \ localProc)
    BY <2>1 DEF localNet, localProc, LocalHolds
  <2> QED BY <2>3, <2>4, <2>5
<1>7. ASSUME NEW d \in Destroys, NEW c \in LocalCams, DestroyBegin(d, c) PROVE goal
  <2>1. UNCHANGED <<localNet, localProc>>
    BY <1>7, LocalStutter DEF DestroyBegin, LocalInv, LocalHolds
  <2> QED BY <2>1
<1>8. ASSUME NEW d \in Destroys, DestroyEnd(d) PROVE goal
  <2>1. UNCHANGED <<localNet, localProc>>
    BY <1>8, LocalStutter DEF DestroyEnd, LocalInv, LocalHolds
  <2> QED BY <2>1
<1>9. CASE UNCHANGED localVars
  <2>1. UNCHANGED <<localNet, localProc>> BY <1>9, LocalStutter DEF localVars, LocalHolds
  <2> QED BY <2>1
<1>10. goal BY <1>1, <1>2, <1>3, <1>4, <1>5, <1>6, <1>7, <1>8, <1>9 DEF LocalNext
<1> QED BY <1>10

\* LocalRuntime.Launch, Destroy and reap implement the Runtime interface for
\* any number of cameras, launches and destroys.
THEOREM LocalImplementsRuntimeAlways == LocalSpec => LocalImplementsRuntime
<1>1. LocalInit => LocalInv /\ LocalImplements!RuntimeInit
  BY LocalAssumption DEF LocalInit, LocalInv, LocalHolds, LocalImplements!RuntimeInit
<1>2. LocalInv /\ [LocalNext]_localVars => LocalInv'
  BY LocalSteps
<1>3. LocalInv /\ [LocalNext]_localVars => [LocalImplements!RuntimeNext]_LocalImplements!runtimeVars
  <2> SUFFICES ASSUME LocalInv, [LocalNext]_localVars
               PROVE  [LocalImplements!RuntimeNext]_LocalImplements!runtimeVars
    OBVIOUS
  <2>1. \A c \in LocalCams, l \in Launches : <<c, l>> \in localProc => <<c, l>> \in localNet
    BY DEF localNet, localProc, LocalInv, LocalHolds
  <2> QED
    BY <2>1, LocalStep
       DEF localNet, localProc, LocalImplements!RuntimeNext, LocalImplements!runtimeVars,
           LocalImplements!Acquire, LocalImplements!Start, LocalImplements!Exit,
           LocalImplements!Release
<1> QED BY <1>1, <1>2, <1>3, PTL DEF LocalSpec, LocalImplementsRuntime, LocalImplements!RuntimeSpec

-----------------------------------------------------------------------------
(* The network helper implements a runtime *)

\* A thread of the helper is alive only while the helper is.
HelperTyped ==
  /\ DOMAIN kind = Threads /\ DOMAIN cam = Threads /\ DOMAIN pc = Threads
  /\ DOMAIN target = Threads /\ DOMAIN cams = Cams
  /\ \A t \in Threads : kind[t] \in {"create", "delete"}
  /\ up = "down" => running = {} /\ \A t \in Threads : pc[t] \in {"new", "ok", "failed", "lost"}

\* A request whose camera may still change has made nothing; a creation past
\* its second step has its namespace, and one that can still start a process
\* has none; a process runs in the namespace made for it.
CreationInv ==
  /\ space \subseteq Reqs /\ running \subseteq space /\ named \subseteq space
  /\ \A r \in Reqs :
       /\ pc[r] \notin {"new"} => cam[r] \in Cams
       /\ pc[r] \in {"new", "sent"} => r \notin space
       /\ pc[r] \in {"interface", "start"} => r \in space
       /\ r \in running => pc[r] \in {"ok", "failed"}
       /\ r \in created => pc[r] \in {"ok", "failed"}

\* A delete that has waited for a creation works on one that is over, and
\* forgets the camera once its process has ended.
DeletionInv ==
  \A t \in Threads :
    /\ pc[t] \in {"stop", "forget", "broken"} => target[t] \in created
    /\ pc[t] \in {"forget", "broken"} => target[t] \notin running

\* Namespaces hold different names.
OneNamePerCamera == \A r, s \in named : cam[r] = cam[s] => r = s

\* Helper.cams knows the camProc of a creation that goes on and of a process
\* that runs: another one of the camera is not begun.
Registered ==
  \A r \in Reqs :
    r \in running \/ pc[r] \in {"namespace", "interface", "start", "fail"} => cams[cam[r]] = r

HelperInv == HelperTyped /\ CreationInv /\ DeletionInv /\ OneNamePerCamera

-----------------------------------------------------------------------------
(* Each step of the helper keeps the invariant *)

\* A request that arrives or waits for its thread has made nothing.
LEMMA HelperRequestSteps ==
  ASSUME HelperInv, NEW r \in Reqs, Serve(r) \/ \E c \in Cams : Send(r, c)
  PROVE  HelperInv'
<1> USE HelperAssumption DEF Threads
<1>1. ASSUME NEW c \in Cams, Send(r, c) PROVE HelperInv'
  <2>1. HelperTyped' BY <1>1 DEF Send, Go, procVars, kernelVars, HelperInv, HelperTyped
  <2>2. CreationInv' BY <1>1 DEF Send, Go, procVars, kernelVars, HelperInv, HelperTyped, CreationInv
  <2>3. DeletionInv' BY <1>1 DEF Send, Go, procVars, kernelVars, HelperInv, HelperTyped, DeletionInv
  <2>4. OneNamePerCamera'
    BY <1>1 DEF Send, Go, procVars, kernelVars, HelperInv, HelperTyped, CreationInv, OneNamePerCamera
  <2> QED BY <2>1, <2>2, <2>3, <2>4 DEF HelperInv
<1>2. CASE Serve(r)
  <2>1. HelperTyped' BY <1>2 DEF Serve, Go, procVars, kernelVars, HelperInv, HelperTyped
  <2>2. CreationInv' BY <1>2 DEF Serve, Go, procVars, kernelVars, HelperInv, HelperTyped, CreationInv
  <2>3. DeletionInv' BY <1>2 DEF Serve, Go, procVars, kernelVars, HelperInv, HelperTyped, DeletionInv
  <2>4. OneNamePerCamera' BY <1>2 DEF Serve, procVars, kernelVars, HelperInv, OneNamePerCamera
  <2> QED BY <2>1, <2>2, <2>3, <2>4 DEF HelperInv
<1> QED BY <1>1, <1>2

\* Each step of a create keeps what it has registered and made.
LEMMA HelperCreateSteps ==
  ASSUME HelperInv, NEW r \in Reqs, CreateStep(r)
  PROVE  HelperInv'
<1> USE HelperAssumption DEF Threads
<1>0. UNCHANGED <<up, kind, cam, target>> /\ pc[r] \in {"create", "namespace", "interface", "start", "fail", "undo"}
  BY DEF CreateStep, CreateRegister, CreateNamespace, setupInterface, StartProcess, CreateError,
         CreateFail, CreateUndo
<1>1. CASE CreateRegister(r) \/ setupInterface(r) \/ CreateError(r) \/ CreateFail(r)
  <2>1. \E to \in {"namespace", "failed", "start", "fail", "undo"} :
          /\ pc' = [pc EXCEPT ![r] = to]
          /\ to = "start" => pc[r] = "interface"
          /\ pc[r] \notin {"sent", "new"}
    BY <1>1 DEF CreateRegister, setupInterface, CreateError, CreateFail, Go
  <2>2. UNCHANGED <<space, named, running, created>> /\ DOMAIN cams' = DOMAIN cams
    BY <1>1 DEF CreateRegister, setupInterface, CreateError, CreateFail, procVars, kernelVars
  <2>3. HelperTyped' BY <1>0, <2>1, <2>2 DEF HelperInv, HelperTyped
  <2>4. CreationInv' BY <1>0, <2>1, <2>2 DEF HelperInv, HelperTyped, CreationInv
  <2>5. DeletionInv' BY <1>0, <2>1, <2>2 DEF HelperInv, HelperTyped, DeletionInv
  <2>6. OneNamePerCamera' BY <1>0, <2>2 DEF HelperInv, OneNamePerCamera
  <2> QED BY <2>3, <2>4, <2>5, <2>6 DEF HelperInv
<1>2. CASE CreateNamespace(r)
  <2>1. /\ space' = space \cup {r} /\ UNCHANGED <<running, created, cams>>
        /\ \E to \in {"fail", "interface"} : pc' = [pc EXCEPT ![r] = to]
        /\ named' = named \/ (named' = named \cup {r} /\ \A s \in named : cam[s] # cam[r])
    BY <1>2 DEF CreateNamespace, Go, NameTaken
  <2>3. HelperTyped' BY <1>0, <2>1 DEF HelperInv, HelperTyped
  <2>4. CreationInv' BY <1>0, <2>1 DEF HelperInv, HelperTyped, CreationInv
  <2>5. DeletionInv' BY <1>0, <2>1 DEF HelperInv, HelperTyped, DeletionInv
  <2>6. OneNamePerCamera' BY <1>0, <2>1 DEF HelperInv, OneNamePerCamera
  <2> QED BY <2>3, <2>4, <2>5, <2>6 DEF HelperInv
<1>3. CASE StartProcess(r)
  <2>1. /\ running' = running \cup {r} /\ created' = created \cup {r} /\ UNCHANGED <<space, named, cams>>
        /\ \E to \in {"failed", "ok"} : pc' = [pc EXCEPT ![r] = to]
        /\ pc[r] = "start"
    BY <1>3 DEF StartProcess, Go, kernelVars
  <2>3. HelperTyped' BY <1>0, <2>1 DEF HelperInv, HelperTyped
  <2>4. CreationInv' BY <1>0, <2>1 DEF HelperInv, HelperTyped, CreationInv
  <2>5. DeletionInv' BY <1>0, <2>1 DEF HelperInv, HelperTyped, CreationInv, DeletionInv
  <2>6. OneNamePerCamera' BY <1>0, <2>1 DEF HelperInv, OneNamePerCamera
  <2> QED BY <2>3, <2>4, <2>5, <2>6 DEF HelperInv
<1>4. CASE CreateUndo(r)
  <2>1. /\ created' = created \cup {r} /\ UNCHANGED <<running, cams>>
        /\ UNCHANGED <<space, named>> \/ (space' = space \ {r} /\ named' = named \ {r})
        /\ pc' = [pc EXCEPT ![r] = "failed"] /\ pc[r] = "undo"
    BY <1>4 DEF CreateUndo, Go, kernelVars, RemoveNamespace
  <2>3. HelperTyped' BY <1>0, <2>1 DEF HelperInv, HelperTyped
  <2>4. CreationInv' BY <1>0, <2>1 DEF HelperInv, HelperTyped, CreationInv
  <2>5. DeletionInv' BY <1>0, <2>1 DEF HelperInv, HelperTyped, DeletionInv
  <2>6. OneNamePerCamera' BY <1>0, <2>1 DEF HelperInv, OneNamePerCamera
  <2> QED BY <2>3, <2>4, <2>5, <2>6 DEF HelperInv
<1> QED BY <1>1, <1>2, <1>3, <1>4 DEF CreateStep

\* A delete takes apart only what a create has registered.
LEMMA HelperDeleteSteps ==
  ASSUME HelperInv, NEW t \in Threads, DeleteStep(t)
  PROVE  HelperInv'
<1> USE HelperAssumption DEF Threads
<1>0. UNCHANGED <<up, kind, cam, created>> /\ DOMAIN cams' = DOMAIN cams
      /\ pc[t] \in {"delete", "await", "stop", "forget", "broken"}
  BY DEF DeleteStep, DeleteBegin, DeleteTake, DeleteKill, DeleteRelease, DeleteEnd, procVars, threadVars
<1>1. /\ running' \subseteq running /\ space' \subseteq space
      /\ \/ UNCHANGED <<space, named>>
         \/ /\ pc[t] = "stop" /\ target[t] \notin running
            /\ space' = space \ {target[t]} /\ named' = named \ {target[t]}
  BY DEF DeleteStep, DeleteBegin, DeleteTake, DeleteKill, DeleteRelease, DeleteEnd, procVars,
         kernelVars, RemoveNamespace
<1>2. \E to \in {"await", "stop", "forget", "broken", "ok", "failed"} :
        /\ DOMAIN pc' = Threads /\ \A u \in Threads : pc'[u] = IF u = t THEN to ELSE pc[u]
        /\ to \in {"stop", "forget", "broken"} => pc[t] = "stop" \/ (to = "stop" /\ target[t] \in created)
        /\ to \in {"forget", "broken"} => target[t] \notin running
        /\ target' = target \/ (to \in {"await", "ok"} /\ target' = [target EXCEPT ![t] = cams[cam[t]]])
  <2> USE DEF HelperInv, HelperTyped
  <2>1. CASE DeleteBegin(t) BY <2>1 DEF DeleteBegin, Go
  <2>2. CASE DeleteTake(t) BY <2>2 DEF DeleteTake, Go
  <2>3. CASE DeleteKill(t) BY <2>3 DEF DeleteKill, threadVars
  <2>4. CASE DeleteRelease(t) BY <2>4 DEF DeleteRelease, Go
  <2>5. CASE DeleteEnd(t) BY <2>5 DEF DeleteEnd, Go
  <2> QED BY <2>1, <2>2, <2>3, <2>4, <2>5 DEF DeleteStep
<1>3. HelperTyped' BY <1>0, <1>1, <1>2 DEF HelperInv, HelperTyped
<1>4. CreationInv' BY <1>0, <1>1, <1>2 DEF HelperInv, HelperTyped, CreationInv, DeletionInv
<1>5. DeletionInv' BY <1>0, <1>1, <1>2 DEF HelperInv, HelperTyped, DeletionInv
<1>6. OneNamePerCamera' BY <1>0, <1>1 DEF HelperInv, OneNamePerCamera
<1> QED BY <1>3, <1>4, <1>5, <1>6 DEF HelperInv

\* The end of the helper leaves the namespaces with a name and no process.
LEMMA HelperExitStep ==
  ASSUME HelperInv, HelperExit
  PROVE  HelperInv'
<1> USE HelperAssumption DEF Threads
<1>1. /\ DOMAIN pc' = Threads /\ DOMAIN cams' = Cams /\ running' = {} /\ created' = {}
      /\ UNCHANGED <<kind, cam, target, named>> /\ space' = named
      /\ \A t \in Threads : pc'[t] \in {"new", "ok", "failed", "lost"}
      /\ \A r \in Reqs : pc'[r] = "new" <=> pc[r] = "new"
  BY DEF HelperExit
<1>2. HelperTyped' BY <1>1 DEF HelperInv, HelperTyped
<1>3. CreationInv' BY <1>1 DEF HelperInv, CreationInv
<1>4. DeletionInv' BY <1>1 DEF DeletionInv
<1>5. OneNamePerCamera' BY <1>1 DEF HelperInv, OneNamePerCamera
<1> QED BY <1>2, <1>3, <1>4, <1>5 DEF HelperInv

\* Every step of the helper keeps the invariant.
LEMMA HelperSteps == ASSUME HelperInv, [HelperNext]_helperVars PROVE HelperInv'
<1> USE HelperAssumption DEF Threads
<1>1. ASSUME NEW r \in Reqs, reap(r) PROVE HelperInv'
  BY <1>1 DEF reap, threadVars, kernelVars, HelperInv, HelperTyped, CreationInv, DeletionInv, OneNamePerCamera
<1>2. CASE Shutdown
  <2>1. /\ DOMAIN pc' = Threads /\ up' = "stopping"
        /\ \A t \in Threads : pc'[t] = pc[t] \/ (t \notin Reqs /\ pc'[t] = "delete")
        /\ UNCHANGED <<kind, cam, target, procVars, kernelVars>>
    BY <1>2 DEF Shutdown, list
  <2> QED
    BY <2>1 DEF procVars, kernelVars, HelperInv, HelperTyped, CreationInv, DeletionInv, OneNamePerCamera
<1>3. CASE RunMainReturns \/ HelperKilled BY <1>3, HelperExitStep DEF RunMainReturns, HelperKilled
<1>4. CASE NewHelper
  BY <1>4 DEF NewHelper, removeStaleNamespaces, threadVars, procVars, HelperInv, HelperTyped,
     CreationInv, DeletionInv, OneNamePerCamera
<1>5. CASE UNCHANGED helperVars
  BY <1>5 DEF helperVars, threadVars, procVars, kernelVars, HelperInv, HelperTyped, CreationInv,
     DeletionInv, OneNamePerCamera
<1> QED
  BY <1>1, <1>2, <1>3, <1>4, <1>5, HelperRequestSteps, HelperCreateSteps, HelperDeleteSteps DEF HelperNext

\* The entry of a camProc stays until its creation has failed or its process
\* has ended.
LEMMA RegisteredSteps ==
  ASSUME HelperInv, Registered, [HelperNext]_helperVars
  PROVE  Registered'
<1> USE HelperAssumption DEF Threads, HelperInv, HelperTyped, CreationInv, Registered
<1>1. ASSUME NEW r \in Reqs, NEW c \in Cams, Send(r, c) PROVE Registered'
  BY <1>1 DEF Send, Go, procVars
<1>2. ASSUME NEW r \in Reqs, Serve(r) PROVE Registered'
  BY <1>2 DEF Serve, Go, procVars
<1>3. ASSUME NEW r \in Reqs, CreateStep(r) PROVE Registered'
  <2>1. CASE CreateRegister(r) BY <2>1 DEF CreateRegister, Go
  <2>2. CASE CreateNamespace(r) BY <2>2 DEF CreateNamespace, Go
  <2>3. CASE setupInterface(r) BY <2>3 DEF setupInterface, Go, procVars
  <2>4. CASE StartProcess(r) BY <2>4 DEF StartProcess, Go
  <2>5. CASE CreateError(r) BY <2>5 DEF CreateError, Go, procVars
  <2>6. CASE CreateFail(r) BY <2>6 DEF CreateFail, Go
  <2>7. CASE CreateUndo(r) BY <2>7 DEF CreateUndo, Go
  <2> QED BY <1>3, <2>1, <2>2, <2>3, <2>4, <2>5, <2>6, <2>7 DEF CreateStep
<1>4. ASSUME NEW t \in Threads, DeleteStep(t) PROVE Registered'
  <2>0. UNCHANGED cam /\ running' \subseteq running
        /\ pc[t] \notin {"namespace", "interface", "start", "fail"}
        /\ \E to \in {"await", "stop", "forget", "broken", "ok", "failed"} :
             \A u \in Threads : pc'[u] = IF u = t THEN to ELSE pc[u]
    <3>1. CASE DeleteBegin(t) BY <3>1 DEF DeleteBegin, Go
    <3>2. CASE DeleteTake(t) BY <3>2 DEF DeleteTake, Go
    <3>3. CASE DeleteKill(t) BY <3>3 DEF DeleteKill, threadVars
    <3>4. CASE DeleteRelease(t) BY <3>4 DEF DeleteRelease, Go, procVars
    <3>5. CASE DeleteEnd(t) BY <3>5 DEF DeleteEnd, Go
    <3> QED BY <1>4, <3>1, <3>2, <3>3, <3>4, <3>5 DEF DeleteStep
  <2>1. CASE cams' = cams BY <2>0, <2>1
  <2>2. CASE DeleteEnd(t)
    <3>1. target[t] \in created /\ target[t] \notin running BY <2>2 DEF DeleteEnd, DeletionInv
    <3>2. \A r \in Reqs : r \in running \/ pc[r] \in {"namespace", "interface", "start", "fail"} =>
            r # target[t]
      BY <3>1
    <3> QED BY <2>0, <2>2, <3>2 DEF DeleteEnd
  <2>3. cams' = cams \/ DeleteEnd(t)
    BY <1>4 DEF DeleteStep, DeleteBegin, DeleteTake, DeleteKill, DeleteRelease, procVars
  <2> QED BY <2>1, <2>2, <2>3
<1>5. ASSUME NEW r \in Reqs, reap(r) PROVE Registered'
  BY <1>5 DEF reap, threadVars
<1>6. CASE Shutdown BY <1>6 DEF Shutdown, procVars, list
<1>7. CASE RunMainReturns \/ HelperKilled
  BY <1>7 DEF RunMainReturns, HelperKilled, HelperExit
<1>8. CASE NewHelper BY <1>8 DEF NewHelper, threadVars, procVars
<1>9. CASE UNCHANGED helperVars BY <1>9 DEF helperVars, threadVars, procVars
<1> QED BY <1>1, <1>2, <1>3, <1>4, <1>5, <1>6, <1>7, <1>8, <1>9 DEF HelperNext

-----------------------------------------------------------------------------
(* Each step of the helper is a step of the runtime or a stutter *)

helperNet == {<<cam[r], r>> : r \in space}
helperHeld == {<<cam[r], r>> : r \in named}
helperProc == {<<cam[r], r>> : r \in running}

\* What a runtime may do to the places and the processes.
RuntimeStep ==
  \/ \E c \in Cams, l \in Reqs :
       /\ \A k \in Reqs : <<c, k>> \notin helperProc
       /\ \/ /\ helperNet' = helperNet \cup {<<c, l>>} /\ UNCHANGED helperProc
             /\ \/ (\A k \in Reqs : <<c, k>> \notin helperHeld) /\ helperHeld' = helperHeld \cup {<<c, l>>}
                \/ UNCHANGED helperHeld
          \/ /\ <<c, l>> \in helperNet
             /\ helperProc' = helperProc \cup {<<c, l>>} /\ UNCHANGED <<helperNet, helperHeld>>
  \/ \E S \in SUBSET helperProc : helperProc' = helperProc \ S /\ UNCHANGED <<helperNet, helperHeld>>
  \/ \E S \in SUBSET (helperNet \ helperProc) :
       helperNet' = helperNet \ S /\ helperHeld' = helperHeld \ S /\ UNCHANGED helperProc
  \/ helperProc' = {} /\ helperNet' = helperHeld /\ UNCHANGED helperHeld
  \/ UNCHANGED <<helperNet, helperHeld, helperProc>>

\* A namespace without a process is removed, or stays.
LEMMA HelperReleases ==
  ASSUME HelperInv, UNCHANGED <<cam, running>>, NEW r \in Reqs \ running,
         UNCHANGED <<space, named>> \/ (space' = space \ {r} /\ named' = named \ {r})
  PROVE  RuntimeStep
<1>1. UNCHANGED helperProc BY DEF helperProc
<1>2. CASE UNCHANGED <<space, named>> BY <1>1, <1>2 DEF helperNet, helperHeld, RuntimeStep
<1>3. CASE space' = space \ {r} /\ named' = named \ {r} /\ r \in space
  <2>1. helperNet' = helperNet \ {<<cam[r], r>>} BY <1>3 DEF helperNet
  <2>2. helperHeld' = helperHeld \ {<<cam[r], r>>} BY <1>3 DEF helperHeld
  <2>3. {<<cam[r], r>>} \in SUBSET (helperNet \ helperProc) BY <1>3 DEF helperNet, helperProc
  <2> QED BY <1>1, <2>1, <2>2, <2>3 DEF RuntimeStep
<1>4. CASE space' = space \ {r} /\ named' = named \ {r} /\ r \notin space
  <2>1. space' = space /\ named' = named BY <1>4 DEF HelperInv, CreationInv
  <2> QED BY <1>1, <2>1 DEF helperNet, helperHeld, RuntimeStep
<1> QED BY <1>2, <1>3, <1>4

\* Processes end and no place is given up.
LEMMA HelperExits ==
  ASSUME UNCHANGED <<cam, space, named>>, running' \subseteq running
  PROVE  RuntimeStep
<1>1. UNCHANGED <<helperNet, helperHeld>> BY DEF helperNet, helperHeld
<1> DEFINE S == {<<cam[r], r>> : r \in running \ running'}
<1>2. S \in SUBSET helperProc BY DEF helperProc
<1>3. helperProc' = helperProc \ S BY DEF helperProc
<1> HIDE DEF S
<1> QED BY <1>1, <1>2, <1>3 DEF RuntimeStep

\* A creation goes on while no process of its camera runs.
LEMMA NoOtherProcess ==
  ASSUME HelperInv, Registered, NEW r \in Reqs, pc[r] \in {"namespace", "start"}
  PROVE  \A k \in Reqs : <<cam[r], k>> \notin helperProc
<1>1. r \notin running /\ cams[cam[r]] = r BY DEF HelperInv, CreationInv, Registered
<1>2. \A k \in running : cam[k] # cam[r]
  BY <1>1 DEF HelperInv, CreationInv, Registered
<1> QED BY <1>2 DEF helperProc

\* Every step of the helper is a step of Runtime, or none.
LEMMA HelperStep ==
  ASSUME HelperInv, Registered, [HelperNext]_helperVars
  PROVE  RuntimeStep
<1> USE HelperAssumption DEF Threads
<1>1. ASSUME NEW r \in Reqs, NEW c \in Cams, Send(r, c) PROVE RuntimeStep
  <2>1. \A s \in space : cam'[s] = cam[s]
    BY <1>1 DEF Send, HelperInv, HelperTyped, CreationInv
  <2>2. UNCHANGED <<space, named, running>> BY <1>1 DEF Send, kernelVars, procVars
  <2>3. UNCHANGED <<helperNet, helperHeld, helperProc>>
    BY <2>1, <2>2 DEF helperNet, helperHeld, helperProc, HelperInv, CreationInv
  <2> QED BY <2>3 DEF RuntimeStep
<1>2. ASSUME NEW r \in Reqs, Serve(r) PROVE RuntimeStep
  BY <1>2, HelperExits DEF Serve, kernelVars, procVars
<1>3. ASSUME NEW r \in Reqs, CreateRegister(r) \/ setupInterface(r) \/ CreateError(r) \/ CreateFail(r)
      PROVE  RuntimeStep
  BY <1>3, HelperExits
     DEF CreateRegister, setupInterface, CreateError, CreateFail, kernelVars, procVars
<1>4. ASSUME NEW r \in Reqs, CreateNamespace(r) PROVE RuntimeStep
  <2>1. /\ space' = space \cup {r} /\ UNCHANGED <<cam, running>> /\ cam[r] \in Cams
        /\ pc[r] = "namespace"
        /\ named' = named \/ (named' = named \cup {r} /\ \A s \in named : cam[s] # cam[r])
    BY <1>4 DEF CreateNamespace, NameTaken, HelperInv, CreationInv
  <2>2. helperNet' = helperNet \cup {<<cam[r], r>>} BY <2>1 DEF helperNet
  <2>3. UNCHANGED helperProc BY <2>1 DEF helperProc
  <2>4. \/ UNCHANGED helperHeld
        \/ (\A k \in Reqs : <<cam[r], k>> \notin helperHeld) /\ helperHeld' = helperHeld \cup {<<cam[r], r>>}
    BY <2>1 DEF helperHeld
  <2>5. \A k \in Reqs : <<cam[r], k>> \notin helperProc BY <2>1, NoOtherProcess
  <2> QED BY <2>1, <2>2, <2>3, <2>4, <2>5 DEF RuntimeStep
<1>5. ASSUME NEW r \in Reqs, StartProcess(r) PROVE RuntimeStep
  <2>1. running' = running \cup {r} /\ UNCHANGED <<cam, space, named>> /\ cam[r] \in Cams
        /\ r \in space /\ pc[r] = "start"
    BY <1>5 DEF StartProcess, kernelVars, HelperInv, CreationInv
  <2>2. helperProc' = helperProc \cup {<<cam[r], r>>} BY <2>1 DEF helperProc
  <2>3. UNCHANGED <<helperNet, helperHeld>> BY <2>1 DEF helperNet, helperHeld
  <2>4. <<cam[r], r>> \in helperNet BY <2>1 DEF helperNet
  <2>5. \A k \in Reqs : <<cam[r], k>> \notin helperProc BY <2>1, NoOtherProcess
  <2> QED BY <2>1, <2>2, <2>3, <2>4, <2>5 DEF RuntimeStep
<1>6. ASSUME NEW r \in Reqs, CreateUndo(r) PROVE RuntimeStep
  <2>1. /\ UNCHANGED <<space, named>> \/ (space' = space \ {r} /\ named' = named \ {r})
        /\ UNCHANGED <<cam, running>> /\ r \notin running
    BY <1>6 DEF CreateUndo, RemoveNamespace, kernelVars, HelperInv, CreationInv
  <2> QED BY <2>1, HelperReleases
<1>7. ASSUME NEW t \in Threads, DeleteRelease(t) PROVE RuntimeStep
  <2>1. /\ target[t] \notin running /\ UNCHANGED <<cam, running>>
        /\ \/ UNCHANGED <<space, named>>
           \/ space' = space \ {target[t]} /\ named' = named \ {target[t]}
    BY <1>7 DEF DeleteRelease, RemoveNamespace, kernelVars, procVars
  <2>2. target[t] \in Reqs \/ UNCHANGED <<space, named>> BY <2>1 DEF HelperInv, CreationInv
  <2> QED BY <2>1, <2>2, HelperReleases, HelperExits
<1>8. ASSUME NEW t \in Threads, DeleteBegin(t) \/ DeleteTake(t) \/ DeleteKill(t) \/ DeleteEnd(t)
      PROVE  RuntimeStep
  BY <1>8, HelperExits
     DEF DeleteBegin, DeleteTake, DeleteKill, DeleteEnd, kernelVars, procVars, threadVars
<1>9. ASSUME NEW r \in Reqs, reap(r) PROVE RuntimeStep
  BY <1>9, HelperExits DEF reap, kernelVars, threadVars
<1>10. CASE Shutdown
  BY <1>10, HelperExits DEF Shutdown, kernelVars, procVars
<1>11. CASE RunMainReturns \/ HelperKilled
  <2>1. running' = {} /\ space' = named /\ UNCHANGED <<cam, named>>
    BY <1>11 DEF RunMainReturns, HelperKilled, HelperExit
  <2>2. helperProc' = {} /\ helperNet' = helperHeld /\ UNCHANGED helperHeld
    BY <2>1 DEF helperProc, helperNet, helperHeld
  <2> QED BY <2>2 DEF RuntimeStep
<1>12. CASE NewHelper
  <2>1. running = {} /\ space' = {} /\ named' = {} /\ UNCHANGED <<cam, running>>
    BY <1>12 DEF NewHelper, removeStaleNamespaces, threadVars, procVars, HelperInv, HelperTyped
  <2>2. helperProc = {} /\ helperProc' = {} /\ helperNet' = {} /\ helperHeld' = {}
    BY <2>1 DEF helperProc, helperNet, helperHeld
  <2>3. helperHeld \subseteq helperNet BY DEF helperHeld, helperNet, HelperInv, CreationInv
  <2>4. /\ helperNet \in SUBSET (helperNet \ helperProc)
        /\ helperNet' = helperNet \ helperNet /\ helperHeld' = helperHeld \ helperNet
    BY <2>2, <2>3
  <2> QED BY <2>2, <2>4 DEF RuntimeStep
<1>13. CASE UNCHANGED helperVars
  BY <1>13, HelperExits DEF helperVars, kernelVars, procVars, threadVars
<1> QED
  BY <1>1, <1>2, <1>3, <1>4, <1>5, <1>6, <1>7, <1>8, <1>9, <1>10, <1>11, <1>12, <1>13
     DEF HelperNext, CreateStep, DeleteStep

\* Helper.create, Helper.delete, Shutdown and the start of a helper implement
\* the Runtime interface for any number of cameras and requests, with and
\* without names, whatever fails and however often the helper dies.
THEOREM ImplementsRuntimeAlways == HelperSpec => ImplementsRuntime
<1>1. HelperInit => HelperInv /\ Registered
  BY HelperAssumption
     DEF HelperInit, HelperInv, HelperTyped, CreationInv, DeletionInv, OneNamePerCamera, Registered, Threads
<1>2. HelperInit => HelperRuntime!RuntimeInit BY DEF HelperInit, HelperRuntime!RuntimeInit
<1>3. HelperInv /\ Registered /\ [HelperNext]_helperVars => (HelperInv /\ Registered)'
  BY HelperSteps, RegisteredSteps
<1>4. HelperInv /\ Registered /\ [HelperNext]_helperVars
        => [HelperRuntime!RuntimeNext]_HelperRuntime!runtimeVars
  BY HelperStep
     DEF RuntimeStep, helperNet, helperHeld, helperProc, HelperRuntime!RuntimeNext,
         HelperRuntime!runtimeVars, HelperRuntime!Acquire, HelperRuntime!Start, HelperRuntime!Exit,
         HelperRuntime!Release, HelperRuntime!Die
<1> QED BY <1>1, <1>2, <1>3, <1>4, PTL DEF HelperSpec, ImplementsRuntime, HelperRuntime!RuntimeSpec
=============================================================================
