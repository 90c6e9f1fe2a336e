------------------------------ MODULE DirectPV ------------------------------
(***************************************************************************)
(* A DirectPVDrive and its callers (pkg/minio/directpv, drive.go).  The    *)
(* methods change a copy in memory; callers get a copy, change it and send *)
(* it back.  The API server refuses a copy that is not the newest.         *)
(*                                                                         *)
(* The volumes on a drive are kept in its finalizers, next to the one that *)
(* protects its data; claims and suspension are labels.                    *)
(***************************************************************************)
EXTENDS Naturals, Sequences, SequencesExt, FiniteSets

CONSTANTS
  Clients,     \* the callers
  Volumes,     \* names of volumes
  Claims,      \* claim ids
  MaxVersion   \* bound: updates the server has taken

DataProtection == <<"data-protection">>
VolumePrefix(v) == <<"volume", v>>
Suspended == "suspend"

VARIABLES
  drive,    \* the drive at the server
  there,    \* it has not been deleted
  doomed,   \* its deletionTimestamp is set
  copy      \* copy[c]: what caller c holds, None before it gets one

vars == <<drive, there, doomed, copy>>

None == [version |-> 0]

-----------------------------------------------------------------------------
(* The methods, as functions on a drive.                                   *)
NewDirectPVDrive ==
  [version |-> 1, finalizers |-> <<DataProtection>>, labels |-> {}, unschedulable |-> FALSE]

GetVolumeCount(d)  == Len(d.finalizers) - 1
VolumeExist(d, v)  == Contains(d.finalizers, VolumePrefix(v))
GetVolumes(d)      == {v \in Volumes : VolumeExist(d, v)}

ResetFinalizers(d) == [d EXCEPT !.finalizers = <<DataProtection>>]

\* Whatever else there is.
RemoveFinalizersAll(d) ==
  IF Len(d.finalizers) >= 1 /\ d.finalizers[1] = DataProtection
  THEN [d EXCEPT !.finalizers = <<>>] ELSE d

RemoveFinalizers(d) ==
  IF Len(d.finalizers) = 1 /\ d.finalizers[1] = DataProtection
  THEN [d EXCEPT !.finalizers = <<>>] ELSE d

AddVolumeFinalizer(d, v) ==
  IF VolumeExist(d, v) THEN d ELSE [d EXCEPT !.finalizers = Append(@, VolumePrefix(v))]

(* The loop over the finalizers: what the first n of them leave.           *)
FinalizersWithout(d, v) ==
  LET left[n \in 0 .. Len(d.finalizers)] ==
        IF n = 0 THEN <<>>
        ELSE IF d.finalizers[n] = VolumePrefix(v)
             THEN left[n - 1] ELSE Append(left[n - 1], d.finalizers[n])
  IN  left
RemoveVolumeFinalizer(d, v) ==
  [d EXCEPT !.finalizers = FinalizersWithout(d, v)[Len(@)]]

(* Labels: a claim id has one of its own; an empty id is no claim.         *)
SetLabel(d, key)    == [d EXCEPT !.labels = @ \cup {key}]
RemoveLabel(d, key) == [d EXCEPT !.labels = @ \ {key}]

HasVolumeClaimID(d, id)    == id # "" /\ id \in d.labels
SetVolumeClaimID(d, id)    == IF id = "" THEN d ELSE SetLabel(d, id)
RemoveVolumeClaimID(d, id) == IF id = "" THEN d ELSE RemoveLabel(d, id)

IsSuspended(d) == Suspended \in d.labels
Suspend(d)     == SetLabel(d, Suspended)
Resume(d)      == RemoveLabel(d, Suspended)

Unschedulable(d) == [d EXCEPT !.unschedulable = TRUE]
Schedulable(d)   == [d EXCEPT !.unschedulable = FALSE]

-----------------------------------------------------------------------------
Init == drive = NewDirectPVDrive /\ there = TRUE /\ doomed = FALSE /\ copy = [c \in Clients |-> None]

Get(c) ==
  /\ copy[c] = None /\ there
  /\ copy' = [copy EXCEPT ![c] = drive]
  /\ UNCHANGED <<drive, there, doomed>>

(* What callers do with a copy, once: a caller that claims the drive looks *)
(* first whether it is claimed.                                            *)
Calls(d) ==
  {AddVolumeFinalizer(d, v) : v \in Volumes} \cup {RemoveVolumeFinalizer(d, v) : v \in Volumes}
  \cup {SetVolumeClaimID(d, id) : id \in {i \in Claims : ~ HasVolumeClaimID(d, i)}}
  \cup {RemoveVolumeClaimID(d, id) : id \in Claims}
  \cup {Suspend(d), Resume(d), Unschedulable(d), Schedulable(d), ResetFinalizers(d), RemoveFinalizers(d)}

(* The server refuses an old version, and new finalizers for a drive that  *)
(* is being deleted.                                                       *)
Accepted(d) ==
  /\ there /\ d.version = drive.version
  /\ doomed => \A i \in DOMAIN d.finalizers : Contains(drive.finalizers, d.finalizers[i])

Update(c) ==
  /\ copy[c] # None /\ drive.version < MaxVersion
  /\ copy' = [copy EXCEPT ![c] = None]
  /\ \E d \in Calls(copy[c]) :
       \/ /\ Accepted(d)
          /\ drive' = [d EXCEPT !.version = drive.version + 1]
          /\ there' = ~ (doomed /\ d.finalizers = <<>>)
       \/ ~ Accepted(d) /\ UNCHANGED <<drive, there>>
  /\ UNCHANGED doomed

Delete ==
  /\ there /\ ~ doomed
  /\ doomed' = TRUE
  /\ there' = (drive.finalizers # <<>>)
  /\ UNCHANGED <<drive, copy>>

Next == Delete \/ \E c \in Clients : Get(c) \/ Update(c)

Spec == Init /\ [][Next]_vars

-----------------------------------------------------------------------------
Protected(d) == Contains(d.finalizers, DataProtection)

\* Every variable has its type; nothing is among the finalizers twice.
TypeOK ==
  /\ drive.version \in 1 .. MaxVersion
  /\ \A d \in ({copy[c] : c \in Clients} \cup {drive}) \ {None} :
       /\ IsInjective(d.finalizers)
       /\ d.labels \subseteq Claims \cup {Suspended} /\ d.unschedulable \in BOOLEAN
       /\ Range(d.finalizers) \subseteq {DataProtection} \cup {VolumePrefix(v) : v \in Volumes}

\* GetVolumeCount counts the volumes of a drive that has not been let go.
CountOfProtected ==
  Protected(drive) => GetVolumeCount(drive) = Cardinality(GetVolumes(drive))

Contract == INSTANCE DriveContract WITH
  protected <- Protected(drive), volumes <- GetVolumes(drive), claims <- drive.labels \ {Suspended},
  suspended <- IsSuspended(drive), unschedulable <- drive.unschedulable

\* Callers that get, change and update a drive at the same time see what they would
\* see if each call happened at once: no volume is lost to another caller's update,
\* a claim id is taken once, and no drive goes that has a volume on it.
KeepsContract == Contract!Spec
KeepsContractAtFirst == Contract!Init
KeepsContractStep    == [Contract!Next]_(Contract!vars)
=============================================================================
