--------------------------- MODULE MCMediaLibrary ---------------------------
(***************************************************************************)
(* Instances of MediaLibrary for TLC, side by side: a behaviour stays in   *)
(* one of three scopes, each with smaller bounds than the constants give.  *)
(***************************************************************************)
EXTENDS MediaLibrary

VARIABLE scope

\* The only settings outside the scope of edits.
Plain == CHOOSE s \in Settings : TRUE

\* Two activities that meet over one rendition.
PairsScope == scope = "pairs" /\ \A c \in Cams : edits[c] <= 1

\* Two edits of picture and settings, and one activity besides, but no deletion
\* and no collector: what an upload brought stays.
EditsScope ==
  scope = "edits" /\ Busy <= 1 /\ del.at = "idle" /\ col.at = "idle"

\* A crash, and one activity at a time besides the jobs.
RestartScope == scope = "restart" /\ Busy <= 1 /\ \A c \in Cams : edits[c] <= 1

InScope ==
  /\ PairsScope \/ EditsScope \/ RestartScope
  /\ scope # "edits" =>
       \A c \in Cams : want[c] = Plain /\ edit[c].set \in {Plain, "keep", "none"}
  /\ scope # "restart" => restarts = 0

MCInit == Init /\ scope \in {"pairs", "edits", "restart"} /\ InScope

MCNext == Next /\ UNCHANGED scope /\ InScope'

MCSpec == MCInit /\ [][MCNext]_<<vars, scope>>
=============================================================================
