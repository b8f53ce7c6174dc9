------------------------ MODULE MCCameraSupervisor -------------------------
(* Instances of CameraSupervisor for TLC. *)
EXTENDS CameraSupervisor, TLC

Symmetry == Permutations(Sessions) \cup Permutations(Requests)

\* A bound of the safety run: two requests at once, or faults beside one.
FaultsOrRequests ==
  \/ faults' = [stops |-> 0, rejects |-> 0, destroys |-> 0]
  \/ Cardinality({r \in Requests : pc'[r] # "idle"}) <= 1

SafetySpec == Init /\ [][Next /\ FaultsOrRequests]_vars

\* A bound of the liveness run: the node is stopped once, or one Destroy
\* fails.  A Destroy that may no longer fail succeeds, so no fair action is
\* disabled by it.
OneFault == faults'.stops + faults'.destroys <= 1

OneFaultSpec == Init /\ [][Next /\ OneFault]_vars /\ Fairness
=============================================================================
