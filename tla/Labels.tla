------------------------------- MODULE Labels -------------------------------
(***************************************************************************)
(* Names as labels of DirectPV volumes (label.go, and the functions of     *)
(* volume.go that set, copy and get labels).  Most setters convert a name  *)
(* into a label value, but new volumes and claim IDs keep theirs as it is; *)
(* the API server refuses an invalid one; getters convert what they read,  *)
(* and selectors ask for a converted name.                                 *)
(*                                                                         *)
(* A string is a sequence of characters of three kinds: letters and        *)
(* digits, the punctuation a label may have inside, and the rest.          *)
(***************************************************************************)
EXTENDS Naturals, Sequences

CONSTANTS
  Alnum,    \* letters and digits, "x" among them
  Punct,    \* ".", "_" and "-"
  Other,    \* everything else
  MaxLen,   \* the length of a label value: 63
  MaxName,  \* bound: the length of a name
  Volumes   \* the volumes that carry the label

Chars == Alnum \cup Punct \cup Other
Strings == UNION {[1 .. n -> Chars] : n \in 0 .. MaxName}

VARIABLES
  key,      \* the label looked at
  name,     \* the name it is for: of a pod, a drive or a claim
  value,    \* value[v]: the label in the copy of volume v in memory
  server    \* server[v]: the label of volume v at the API server
vars == <<key, name, value, server>>

NoLabel == <<"none">>

(* The setters of a key: all convert, all but that of a new volume do, or  *)
(* the one there is does not.                                              *)
Pod   == "pod"    \* pod.name, pod.namespace
Drive == "drive"  \* drive, drive-name, node
Claim == "claim"  \* claim-id

-----------------------------------------------------------------------------
(* validation.IsValidLabelValue                                            *)
IsValidLabelValue(v) ==
  /\ Len(v) <= MaxLen
  /\ v # <<>> => v[1] \in Alnum /\ v[Len(v)] \in Alnum
  /\ \A i \in DOMAIN v : v[i] \in Alnum \cup Punct

(* Punctuation becomes an x; of the rest the first character does, and the *)
(* others a dash.                                                          *)
Replaced(v) ==
  [i \in DOMAIN v |-> IF v[i] \in Alnum THEN v[i] ELSE IF i # 1 /\ v[i] \notin Punct THEN "-" ELSE "x"]

normalizeLabelValue(v) == Replaced(IF Len(v) > MaxLen THEN SubSeq(v, 1, MaxLen) ELSE v)

ToLabelValue(v) == IF IsValidLabelValue(v) THEN v ELSE normalizeLabelValue(v)

getLabel(v) == ToLabelValue(v)

(* The values behind "in" of the selector made for a name.                 *)
ToLabelSelector(v) == {ToLabelValue(v)}

-----------------------------------------------------------------------------
Init ==
  /\ key \in {Pod, Drive, Claim} /\ name \in Strings
  /\ value = [v \in Volumes |-> NoLabel] /\ server = [v \in Volumes |-> NoLabel]

Put(v, l) == value' = [value EXCEPT ![v] = l] /\ UNCHANGED <<key, name, server>>

(* Labels of a new volume are the arguments as they are.                   *)
NewDirectPVVolume(v) == key = Drive /\ Put(v, name)

(* SetDriveID, SetDriveName, SetNodeID, SetPodName and SetPodNS, of the    *)
(* name, or of what the getter of another object returns.                  *)
SetLabel(v) ==
  /\ key \in {Pod, Drive}
  /\ \/ Put(v, ToLabelValue(name))
     \/ \E w \in Volumes : value[w] # NoLabel /\ Put(v, ToLabelValue(getLabel(value[w])))

(* A claim ID is not converted.                                            *)
SetClaimID(v) == key = Claim /\ name # <<>> /\ Put(v, name)

(* Labels are copied from another volume as they are.                      *)
CopyLabels(v, w) == v # w /\ value[w] # NoLabel /\ Put(v, value[w])

(* The server takes the object, or refuses it.                             *)
Update(v) ==
  /\ value[v] # NoLabel /\ IsValidLabelValue(value[v])
  /\ server' = [server EXCEPT ![v] = value[v]]
  /\ UNCHANGED <<key, name, value>>

Read(v) == server[v] # NoLabel /\ Put(v, server[v])

Next ==
  \/ \E v \in Volumes : NewDirectPVVolume(v) \/ SetLabel(v) \/ SetClaimID(v) \/ Update(v) \/ Read(v)
  \/ \E v, w \in Volumes : CopyLabels(v, w)

Spec == Init /\ [][Next]_vars

-----------------------------------------------------------------------------
(* A name for which ToLabelValue does not do what it says: the last        *)
(* character that is kept is one labels have nowhere, and becomes a dash.  *)
EndsBadly(v) ==
  LET kept == IF Len(v) > MaxLen THEN MaxLen ELSE Len(v)
  IN  kept > 1 /\ v[kept] \notin Alnum \cup Punct

\* The server has no label that is not a label value.
TypeOK ==
  /\ key \in {Pod, Drive, Claim}
  /\ \A v \in Volumes : server[v] # NoLabel => IsValidLabelValue(server[v])

\* Getters return a valid label value of a label all whose setters convert, although a
\* conversion alone may end in a dash; of a label that is set as it is they need not.
ReadIsValid ==
  key = Pod => \A v \in Volumes : value[v] # NoLabel => IsValidLabelValue(getLabel(value[v]))

\* A label that is only ever set by ToLabelValue, which "validates and converts string
\* value to label value" (label.go), is one the server takes, unless the name ends badly.
ConvertedIsValid ==
  key = Pod /\ ~ EndsBadly(name) => \A v \in Volumes : value[v] # NoLabel => IsValidLabelValue(value[v])

\* A name that does not end badly is what a selector for it finds, and what getters
\* return: whether its label was set as it is or converted, read from another object and
\* converted again, copied or refused before, the server has it under the converted
\* name, or not at all.
FoundByName ==
  ~ EndsBadly(name) =>
    \A v \in Volumes : server[v] # NoLabel =>
      server[v] \in ToLabelSelector(name) /\ getLabel(server[v]) = ToLabelValue(name)
=============================================================================
