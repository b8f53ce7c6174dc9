------------------------------ MODULE ArpProbe ------------------------------
(***************************************************************************)
(* Taking an address on the LAN (probeIP and setupInterface in             *)
(* backend/internal/netctl/arp_linux.go and link_linux.go): three ARP      *)
(* probes, then a time of listening; a host that hears another one answer  *)
(* for the address or probe for it gives up.  A tick is the interval       *)
(* between two probes; the broadcasts of a tick reach everyone who listens *)
(* in it.  Between the end of the probe and the address being assigned a   *)
(* host neither listens nor answers.                                       *)
(***************************************************************************)
EXTENDS Integers, FiniteSets

CONSTANTS
  Hosts,       \* cameras, and other devices, that want one address
  probeCount,
  probeWait,   \* ticks of listening after the interval of the last probe
  MaxDelay,    \* ticks from the end of the probe to the assigned address
  Horizon      \* bound: ticks

ASSUME ArpAssumption ==
  /\ {probeCount, probeWait} \subseteq Nat \ {0} /\ {MaxDelay, Horizon} \subseteq Nat
  \* the kernel assigns an address before a host that starts then is done sending
  /\ MaxDelay < probeCount

VARIABLES
  tick,
  host,     \* of a host: idle, probing, assigning, owner or conflict
  age,      \* ticks since it began to probe, or to assign
  acted     \* hosts that have acted in this tick

arpVars == <<tick, host, age, acted>>

Deadline == probeCount + probeWait

Probes(h) == host[h] = "probing" /\ age[h] < probeCount

Act(h) == h \notin acted /\ acted' = acted \cup {h} /\ UNCHANGED tick

-----------------------------------------------------------------------------
\* A bug: only answers count, not the probes of others.
HearsAnswers(h) == \E g \in Hosts \ {h} : host[g] = "owner" /\ Probes(h)

\* What a listening host hears in a tick: an owner answers its probe, or
\* another host probes for the same address.
Hears(h) ==
  \E g \in Hosts \ {h} : (host[g] = "owner" /\ Probes(h)) \/ Probes(g)

probeIP(h) ==
  /\ host[h] = "idle" /\ Act(h)
  /\ host' = [host EXCEPT ![h] = "probing"] /\ age' = [age EXCEPT ![h] = 0]

\* The next tick: everyone who probes hears what was sent in this one and
\* stops at a conflict or at its deadline.
ArpTick ==
  /\ tick < Horizon /\ tick' = tick + 1
  /\ \A h \in Hosts : host[h] = "assigning" => age[h] < MaxDelay
  /\ acted' = {}
  /\ host' = [h \in Hosts |-> IF host[h] # "probing" THEN host[h]
                              ELSE IF Hears(h) THEN "conflict"
                              ELSE IF age[h] + 1 = Deadline THEN "assigning" ELSE "probing"]
  /\ age' = [h \in Hosts |-> IF host'[h] = host[h] /\ host[h] \in {"probing", "assigning"}
                             THEN age[h] + 1 ELSE 0]

AddrAdd(h) ==
  /\ host[h] = "assigning"
  /\ host' = [host EXCEPT ![h] = "owner"]
  /\ UNCHANGED <<tick, age, acted>>

\* The camera stops, or failed to start: the address is free again.
AddrGone(h) ==
  /\ host[h] \in {"owner", "conflict"} /\ Act(h)
  /\ host' = [host EXCEPT ![h] = "idle"] /\ UNCHANGED age

-----------------------------------------------------------------------------
ArpInit ==
  /\ tick = 0 /\ acted = {}
  /\ host = [h \in Hosts |-> "idle"] /\ age = [h \in Hosts |-> 0]

ArpNext == ArpTick \/ \E h \in Hosts : probeIP(h) \/ AddrAdd(h) \/ AddrGone(h)

ArpSpec == ArpInit /\ [][ArpNext]_arpVars

-----------------------------------------------------------------------------
\* RN-06 and probeIP: two hosts that start at any moments, together or one
\* while the other is assigning, never both take the address.
OneOwner == Cardinality({h \in Hosts : host[h] = "owner"}) <= 1
=============================================================================
