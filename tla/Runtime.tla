------------------------------ MODULE Runtime ------------------------------
(***************************************************************************)
(* What a runtime of cameras promises (the Runtime interface of            *)
(* backend/internal/netctl/spec.go): a camera has one process at a time,   *)
(* in a place on the network that was made for it; a place is given up     *)
(* only once its process has ended; and of the places held by the camera's *)
(* name there is one.                                                      *)
(***************************************************************************)
CONSTANTS Cams, Launches

VARIABLES
  net,   \* <<camera, launch>> pairs that have a place on the network
  held,  \* those whose place is held by the name of the camera
  proc   \* those whose process runs

runtimeVars == <<net, held, proc>>

RuntimeInit == net = {} /\ held = {} /\ proc = {}

\* The camera's last process has ended; its place may still be on its way out.
Acquire(c, l) ==
  /\ \A k \in Launches : <<c, k>> \notin proc
  /\ net' = net \cup {<<c, l>>} /\ UNCHANGED proc
  /\ \/ (\A k \in Launches : <<c, k>> \notin held) /\ held' = held \cup {<<c, l>>}
     \/ UNCHANGED held

Start(c, l) ==
  /\ <<c, l>> \in net
  /\ \A k \in Launches : <<c, k>> \notin proc
  /\ proc' = proc \cup {<<c, l>>} /\ UNCHANGED <<net, held>>

Exit == \E S \in SUBSET proc : proc' = proc \ S /\ UNCHANGED <<net, held>>

Release ==
  \E S \in SUBSET (net \ proc) : net' = net \ S /\ held' = held \ S /\ UNCHANGED proc

\* The runtime dies, and with it what no name holds.
Die == proc' = {} /\ net' = held /\ UNCHANGED held

RuntimeNext ==
  (\E c \in Cams, l \in Launches : Acquire(c, l) \/ Start(c, l)) \/ Exit \/ Release \/ Die

RuntimeSpec == RuntimeInit /\ [][RuntimeNext]_runtimeVars
=============================================================================
