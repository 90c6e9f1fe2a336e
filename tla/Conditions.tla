----------------------------- MODULE Conditions -----------------------------
(***************************************************************************)
(* The error conditions of a DirectPVDrive and the "Lost" condition of a   *)
(* DirectPVVolume.  A time in memory is finer than a second; what has been *)
(* to the API server and back has lost the fraction.                       *)
(***************************************************************************)
EXTENDS Naturals, Sequences, SequencesExt

CONSTANTS
  MaxSeconds,  \* bound: seconds that pass
  Ticks        \* bound: ticks a second has

ErrorTypes == {"MountError", "MultipleMatches", "IOError", "RelabelError"}

VARIABLES
  conditions,  \* the drive's Status.Conditions, [type, reason, time]
  lost,        \* the volume's Status.Conditions
  now,         \* the clock, in ticks
  latest,      \* the error that was set last, "" before
  wasLost      \* SetDriveLost has been called

vars == <<conditions, lost, now, latest, wasLost>>

Init ==
  /\ conditions = <<>> /\ now = 0 /\ latest = "" /\ wasLost = FALSE
  /\ lost \in {<<>>, <<[type |-> "Lost", reason |-> "Other", time |-> 0]>>}

-----------------------------------------------------------------------------
Condition(type, reason) == [type |-> type, reason |-> reason, time |-> now]

(* The one of this type is replaced where it stands, or it is appended.    *)
setCondition(cs, c) ==
  IF \E i \in DOMAIN cs : cs[i].type = c.type
  THEN [i \in DOMAIN cs |-> IF cs[i].type = c.type THEN c ELSE cs[i]]
  ELSE Append(cs, c)

SetDriveLost == lost' = setCondition(lost, Condition("Lost", "DriveLost"))

IsDriveLost == \E i \in DOMAIN lost : lost[i].type = "Lost" /\ lost[i].reason = "DriveLost"

\* The one that stands first.
GetLatestErrorConditionTypeFirst ==
  IF conditions = <<>> THEN "" ELSE conditions[1].type

(* Of those with the latest time the one that stands first.                *)
GetLatestErrorConditionType ==
  LET Is(i)   == conditions[i].type \in ErrorTypes
      Best(i) == /\ Is(i)
                 /\ \A j \in DOMAIN conditions : Is(j) =>
                      conditions[j].time < conditions[i].time \/ (conditions[j].time = conditions[i].time /\ i <= j)
  IN  IF \E i \in DOMAIN conditions : Best(i)
      THEN conditions[CHOOSE i \in DOMAIN conditions : Best(i)].type ELSE ""

-----------------------------------------------------------------------------
(* Setting one takes time: no two have the same in memory.                 *)
setErrorCondition(t) ==
  /\ now < MaxSeconds * Ticks /\ now' = now + 1
  /\ conditions' = setCondition(conditions, Condition(t, "DriveHas" \o t))
  /\ latest' = t
  /\ UNCHANGED <<lost, wasLost>>

LoseDrive ==
  /\ SetDriveLost /\ wasLost' = TRUE
  /\ UNCHANGED <<conditions, now, latest>>

(* The drive is updated and read again.                                    *)
RoundTrip ==
  /\ conditions' = [i \in DOMAIN conditions |-> [conditions[i] EXCEPT !.time = @ - (@ % Ticks)]]
  /\ UNCHANGED <<lost, now, latest, wasLost>>

Tick ==
  /\ now < MaxSeconds * Ticks /\ now' = now + 1
  /\ UNCHANGED <<conditions, lost, latest, wasLost>>

Next == Tick \/ LoseDrive \/ RoundTrip \/ \E t \in ErrorTypes : setErrorCondition(t)

Spec == Init /\ [][Next]_vars

-----------------------------------------------------------------------------
\* Every variable has its type, and the server takes the list, whose key is the
\* type: no type is there twice, however often an error comes back.
TypeOK ==
  /\ now \in 0 .. MaxSeconds * Ticks /\ latest \in ErrorTypes \cup {""}
  /\ \A cs \in {conditions, lost} : IsInjective([i \in DOMAIN cs |-> cs[i].type])
  /\ \A i \in DOMAIN conditions : conditions[i].type \in ErrorTypes /\ conditions[i].time <= now

\* The error that is reported is the one that was set last, although it may stand
\* anywhere in the list and times lose their fractions, as long as no other error
\* was set in the same second.
LatestUnlessTied ==
  LET Tied == \E i, j \in DOMAIN conditions :
                i # j /\ conditions[i].type = latest /\ conditions[i].time \div Ticks = conditions[j].time \div Ticks
  IN  ~ Tied => GetLatestErrorConditionType = latest

\* A volume whose drive was found lost stays lost, whatever condition of the type
\* it had before.
LostStaysLost == wasLost => IsDriveLost
=============================================================================
