--------------------------- MODULE DriveContract ----------------------------
(***************************************************************************)
(* What a DirectPV drive promises to those who put volumes on it, as if    *)
(* every call took effect at once and on the drive itself: calls of others *)
(* are never undone, and a drive with a volume on it is not let go.        *)
(***************************************************************************)
CONSTANTS Volumes, Claims

VARIABLES
  there,      \* the drive exists
  doomed,     \* its deletion has been asked for
  protected,  \* it has not been let go of
  volumes,    \* the volumes on it
  claims,     \* the claim ids it is taken for
  suspended, unschedulable

vars == <<there, doomed, protected, volumes, claims, suspended, unschedulable>>

Init ==
  /\ there = TRUE /\ doomed = FALSE /\ protected = TRUE
  /\ volumes = {} /\ claims = {} /\ suspended = FALSE /\ unschedulable = FALSE

(* An answered call changes one thing, and ends the drive if it was doomed *)
(* and nothing is left to hold it.                                         *)
Becomes(p, vs, cs, s, u) ==
  /\ there
  /\ doomed' = doomed
  /\ there' = ~ (doomed /\ ~ p /\ vs = {})
  /\ protected' = p /\ volumes' = vs /\ claims' = cs /\ suspended' = s /\ unschedulable' = u

AddVolume(v) ==
  ~ doomed /\ Becomes(protected, volumes \cup {v}, claims, suspended, unschedulable)
RemoveVolume(v) == Becomes(protected, volumes \ {v}, claims, suspended, unschedulable)
ResetVolumes    == Becomes(TRUE, {}, claims, suspended, unschedulable) /\ (doomed => protected)
LetGo           == volumes = {} /\ Becomes(FALSE, volumes, claims, suspended, unschedulable)

(* A claim id is taken by one caller.                                      *)
Claim(i)   == i \notin claims /\ Becomes(protected, volumes, claims \cup {i}, suspended, unschedulable)
Unclaim(i) == Becomes(protected, volumes, claims \ {i}, suspended, unschedulable)

Suspend(b) == Becomes(protected, volumes, claims, b, unschedulable)
Cordon(b)  == Becomes(protected, volumes, claims, suspended, b)

Delete ==
  /\ there /\ ~ doomed
  /\ doomed' = TRUE /\ there' = (protected \/ volumes # {})
  /\ UNCHANGED <<protected, volumes, claims, suspended, unschedulable>>

Next ==
  \/ \E v \in Volumes : AddVolume(v) \/ RemoveVolume(v)
  \/ \E i \in Claims : Claim(i) \/ Unclaim(i)
  \/ \E b \in BOOLEAN : Suspend(b) \/ Cordon(b)
  \/ ResetVolumes \/ LetGo \/ Delete

Spec == Init /\ [][Next]_vars
=============================================================================
