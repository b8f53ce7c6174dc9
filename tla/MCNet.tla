------------------------------- MODULE MCNet -------------------------------
(***************************************************************************)
(* The two runtimes and the address probe, side by side.                   *)
(***************************************************************************)
EXTENDS NetHelper, LocalRuntime, ArpProbe

VARIABLE part

netVars == <<part, helperVars, localVars, arpVars>>

Init ==
  /\ part \in {"helper", "local", "arp"}
  /\ HelperInit /\ LocalInit /\ ArpInit

HelperPart == part = "helper" /\ HelperNext /\ UNCHANGED <<part, localVars, arpVars>>
LocalPart  == part = "local" /\ LocalNext /\ UNCHANGED <<part, helperVars, arpVars>>
ArpPart    == part = "arp" /\ ArpNext /\ UNCHANGED <<part, helperVars, localVars>>

Next == HelperPart \/ LocalPart \/ ArpPart

Spec == Init /\ [][Next]_netVars /\ HelperFairness
=============================================================================
