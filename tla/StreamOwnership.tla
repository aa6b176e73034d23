--------------------------- MODULE StreamOwnership ---------------------------
(***************************************************************************)
(* What opening and closing an archive promise about the Java streams they *)
(* are given: the stream of the archive and those that its callback opens  *)
(* for the other volumes.  A stream that was taken is closed once: one     *)
(* with whose archive open fails, before the exception is thrown; the      *)
(* others, all at the same time, when the archive is closed, however deep  *)
(* it is nested.  A stream that could not be wrapped, an orphan, is left   *)
(* to its owner.                                                           *)
(***************************************************************************)
CONSTANT Volumes

VARIABLES
  phase,    \* "opening", "open", "failed" or "closed"
  root,     \* the stream given to open: "open", "closed" or "orphan"
  volume    \* those of the volumes: "unused" or as the root

vars == <<phase, root, volume>>

NoVolumeOpen == \A v \in Volumes : volume[v] # "open"

VolumesClosed == [v \in Volumes |-> IF volume[v] = "open" THEN "closed" ELSE volume[v]]

Init == phase = "opening" /\ root = "open" /\ volume = [v \in Volumes |-> "unused"]

TakeVolume(v) ==
  /\ phase = "opening" /\ root = "open" /\ volume[v] = "unused"
  /\ \E fate \in {"open", "orphan"} : volume' = [volume EXCEPT ![v] = fate]
  /\ UNCHANGED <<phase, root>>

\* The archive is not what its outermost handler took it for.
CloseVolumes ==
  /\ phase = "opening" /\ volume' = VolumesClosed
  /\ UNCHANGED <<phase, root>>

GiveUpRoot ==
  /\ phase = "opening" /\ root = "open" /\ NoVolumeOpen
  /\ \/ root' = "closed"
     \/ root' = "orphan" /\ \A v \in Volumes : volume[v] = "unused"
  /\ UNCHANGED <<phase, volume>>

Succeed ==
  /\ phase = "opening" /\ root = "open" /\ phase' = "open"
  /\ UNCHANGED <<root, volume>>

Fail ==
  /\ phase = "opening" /\ root # "open" /\ NoVolumeOpen /\ phase' = "failed"
  /\ UNCHANGED <<root, volume>>

Close ==
  /\ phase = "open"
  /\ phase' = "closed" /\ root' = "closed" /\ volume' = VolumesClosed

Next ==
  \/ (\E v \in Volumes : TakeVolume(v)) \/ CloseVolumes \/ GiveUpRoot
  \/ Succeed \/ Fail \/ Close

Spec == Init /\ [][Next]_vars
=============================================================================
