---------------------------- MODULE DriveProofs -----------------------------
(***************************************************************************)
(* A DirectPV drive keeps DriveContract for any number of callers, volumes *)
(* and claims: each update the server accepts is one call of the contract, *)
(* made on the drive as it is.  Finalizers are a sequence; the lemmas say  *)
(* what each method does to the set of them.                               *)
(***************************************************************************)
EXTENDS DirectPV, WellFoundedInduction, FiniteSetTheorems, FunctionTheorems, TLAPS

(* No claim id makes the label of suspension.                              *)
LabelsApart == MaxVersion \in Nat \ {0} /\ Suspended \notin Claims

Finalizers == {DataProtection} \cup {VolumePrefix(v) : v \in Volumes}
Labels     == Claims \cup {Suspended}
Drives     == [version : 1 .. MaxVersion, finalizers : Seq(Finalizers), labels : SUBSET Labels,
               unschedulable : BOOLEAN]

(* Nothing is among the finalizers twice.                                  *)
Distinct(s) == \A i, j \in 1 .. Len(s) : s[i] = s[j] => i = j
WellFormed(d) == d \in Drives /\ Distinct(d.finalizers)

(* The inductive invariant.  What makes concurrent callers safe is that a  *)
(* copy with the version of the drive is the drive: every accepted update  *)
(* raises the version.                                                     *)
IInv ==
  /\ WellFormed(drive) /\ there \in BOOLEAN /\ doomed \in BOOLEAN
  /\ DOMAIN copy = Clients
  /\ \A c \in Clients : copy[c] # None =>
       /\ WellFormed(copy[c]) /\ copy[c].version <= drive.version
       /\ copy[c].version = drive.version => copy[c] = drive
  /\ there => ~ (doomed /\ drive.finalizers = <<>>)

-----------------------------------------------------------------------------
(* Induction: a set that has 0, and n + 1 with every n, has every natural  *)
(* number.  Its complement would have a least element.                     *)
LEMMA NatSetInduction ==
  ASSUME NEW S, 0 \in S, \A n \in Nat : n \in S => n + 1 \in S
  PROVE  Nat \subseteq S
<1>1. SUFFICES ASSUME Nat \ S # {}  PROVE FALSE
  OBVIOUS
<1>2. \A T : T \subseteq Nat /\ T # {} => \E x \in T : \A y \in T : <<y, x>> \notin OpToRel(<, Nat)
  BY NatLessThanWellFounded, WFMin
<1>3. PICK x \in Nat \ S : \A y \in Nat \ S : <<y, x>> \notin OpToRel(<, Nat)
  BY <1>1, <1>2
<1>4. \A y \in Nat \ S : ~ (y < x)
  BY <1>3 DEF OpToRel
<1>5. x # 0  OBVIOUS
<1>6. x - 1 \in Nat /\ x - 1 < x  BY <1>5
<1>7. x - 1 \in S  BY <1>4, <1>6
<1> QED  BY <1>6, <1>7

-----------------------------------------------------------------------------
(* left[n] is what RemoveVolumeFinalizer has kept of s after n of them.    *)
LoopOver(left, s, f) ==
  /\ left[0] = <<>>
  /\ \A n \in 1 .. Len(s) : left[n] = IF s[n] = f THEN left[n - 1] ELSE Append(left[n - 1], s[n])

(* The recursive definition has a solution, whatever the number of finalizers. *)
LEMMA RemovingLoop ==
  ASSUME NEW d, NEW v, Len(d.finalizers) \in Nat
  PROVE  LoopOver(FinalizersWithout(d, v), d.finalizers, VolumePrefix(v))
<1> DEFINE s == d.finalizers
           f == VolumePrefix(v)
           Step(t, n) == IF s[n] = f THEN t ELSE Append(t, s[n])
           Loop(g, n) == g = [i \in 0 .. n |-> IF i = 0 THEN <<>> ELSE Step(g[i - 1], i)]
           S == {n \in Nat : \E g : Loop(g, n)}
<1>1. 0 \in S
  <2>1. Loop([i \in 0 .. 0 |-> <<>>], 0)  OBVIOUS
  <2> QED  BY <2>1
<1>2. ASSUME NEW n \in Nat, n \in S  PROVE n + 1 \in S
  <2> HIDE DEF Step
  <2>1. PICK g : Loop(g, n)  BY <1>2
  <2> DEFINE h == [i \in 0 .. n + 1 |-> IF i = n + 1 THEN Step(g[n], n + 1) ELSE g[i]]
  <2>2. \A i \in 0 .. n + 1 : h[i] = IF i = 0 THEN <<>> ELSE Step(h[i - 1], i)
    BY <2>1
  <2>3. Loop(h, n + 1)  BY <2>2
  <2>4. \E q : Loop(q, n + 1)  BY <2>3
  <2> HIDE DEF Loop
  <2> QED  BY <2>4
<1>3. Len(s) \in S  BY <1>1, <1>2, NatSetInduction
<1> DEFINE Body(g) == [n \in 0 .. Len(d.finalizers) |->
              IF n = 0 THEN <<>>
              ELSE IF d.finalizers[n] = VolumePrefix(v)
                   THEN g[n - 1] ELSE Append(g[n - 1], d.finalizers[n])]
<1>4. \E g : g = Body(g)
  <2>1. PICK g : Loop(g, Len(s))  BY <1>3
  <2>2. g = Body(g)  BY <2>1
  <2> QED  BY <2>2
<1>5. FinalizersWithout(d, v) = CHOOSE g : g = Body(g)  BY DEF FinalizersWithout
<1> DEFINE left == FinalizersWithout(d, v)
<1>6. left = Body(left)  BY <1>4, <1>5
<1> HIDE DEF left
<1>7. \A n \in 0 .. Len(s) : Body(left)[n] =
         IF n = 0 THEN <<>> ELSE IF s[n] = f THEN left[n - 1] ELSE Append(left[n - 1], s[n])
  OBVIOUS
<1> HIDE DEF Body
<1>8. \A n \in 0 .. Len(s) : left[n] = Body(left)[n]  BY <1>6
<1>9. LoopOver(left, s, f)  BY <1>7, <1>8 DEF LoopOver
<1> QED  BY <1>9 DEF left

(* The invariant of the loop: t is the first n elements of s without f.    *)
Left(t, s, n, f) ==
  /\ t \in Seq(Finalizers)
  /\ \A i \in 1 .. Len(t) : t[i] # f /\ \E j \in 1 .. n : t[i] = s[j]
  /\ \A j \in 1 .. n : s[j] # f => \E i \in 1 .. Len(t) : t[i] = s[j]
  /\ Distinct(t)

(* One turn keeps it.                                                      *)
LEMMA LeftStep ==
  ASSUME NEW s \in Seq(Finalizers), Distinct(s), NEW f, NEW n \in Nat, n < Len(s),
         NEW t, Left(t, s, n, f),
         NEW u, u = IF s[n + 1] = f THEN t ELSE Append(t, s[n + 1])
  PROVE  Left(u, s, n + 1, f)
<1>0. t \in Seq(Finalizers) /\ Len(t) \in Nat /\ n + 1 \in 1 .. Len(s) /\ s[n + 1] \in Finalizers
  BY DEF Left
<1>1. CASE s[n + 1] = f
  <2>1. u = t  BY <1>1
  <2>2. \A j \in 1 .. n + 1 : j = n + 1 \/ j \in 1 .. n  OBVIOUS
  <2>3. \A j \in 1 .. n : j \in 1 .. n + 1  OBVIOUS
  <2> QED  BY <1>1, <2>1, <2>2, <2>3 DEF Left
<1>2. CASE s[n + 1] # f
  <2>1. u = Append(t, s[n + 1])  BY <1>2
  <2>2. u \in Seq(Finalizers) /\ Len(u) = Len(t) + 1 /\ u[Len(t) + 1] = s[n + 1]
    BY <2>1, <1>0
  <2>3. \A i \in 1 .. Len(t) : u[i] = t[i]  BY <2>1, <1>0
  <2>4. \A i \in 1 .. Len(u) : i = Len(t) + 1 \/ i \in 1 .. Len(t)  BY <2>2, <1>0
  <2>5. \A i \in 1 .. Len(u) : u[i] # f /\ \E j \in 1 .. n + 1 : u[i] = s[j]
    <3>1. TAKE i \in 1 .. Len(u)
    <3>2. CASE i = Len(t) + 1
      <4>1. u[i] = s[n + 1] /\ n + 1 \in 1 .. n + 1  BY <3>2, <2>2
      <4> QED  BY <4>1, <1>2
    <3>3. CASE i \in 1 .. Len(t)
      <4>1. u[i] = t[i] /\ t[i] # f  BY <3>3, <2>3 DEF Left
      <4>2. PICK j \in 1 .. n : t[i] = s[j]  BY <3>3 DEF Left
      <4>3. j \in 1 .. n + 1  OBVIOUS
      <4> QED  BY <4>1, <4>2, <4>3
    <3> QED  BY <3>2, <3>3, <2>4
  <2>6. \A j \in 1 .. n + 1 : s[j] # f => \E i \in 1 .. Len(u) : u[i] = s[j]
    <3> SUFFICES ASSUME NEW j \in 1 .. n + 1, s[j] # f PROVE \E i \in 1 .. Len(u) : u[i] = s[j]
      OBVIOUS
    <3>1. CASE j = n + 1
      <4>1. Len(t) + 1 \in 1 .. Len(u)  BY <2>2, <1>0
      <4> QED  BY <3>1, <4>1, <2>2
    <3>2. CASE j \in 1 .. n
      <4>1. PICK i \in 1 .. Len(t) : t[i] = s[j]  BY <3>2 DEF Left
      <4>2. i \in 1 .. Len(u) /\ u[i] = t[i]  BY <4>1, <2>2, <2>3, <1>0
      <4> QED  BY <4>1, <4>2
    <3> QED  BY <3>1, <3>2
  <2>7. \A i \in 1 .. Len(t) : t[i] # s[n + 1]
    <3>1. TAKE i \in 1 .. Len(t)
    <3>2. PICK j \in 1 .. n : t[i] = s[j]  BY DEF Left
    <3>3. j \in 1 .. Len(s) /\ j # n + 1  BY <1>0
    <3> QED  BY <3>2, <3>3, <1>0 DEF Distinct
  <2>8. Distinct(u)
    <3> SUFFICES ASSUME NEW i \in 1 .. Len(u), NEW j \in 1 .. Len(u), u[i] = u[j] PROVE i = j
      BY DEF Distinct
    <3>1. CASE i \in 1 .. Len(t) /\ j \in 1 .. Len(t)
      BY <3>1, <2>3 DEF Left, Distinct
    <3> QED  BY <3>1, <2>2, <2>3, <2>4, <2>7
  <2> QED  BY <2>2, <2>5, <2>6, <2>8 DEF Left
<1> QED  BY <1>1, <1>2

(* So it holds of the result.                                              *)
LEMMA LeftAll ==
  ASSUME NEW d, WellFormed(d), NEW v
  PROVE  Left(FinalizersWithout(d, v)[Len(d.finalizers)], d.finalizers, Len(d.finalizers), VolumePrefix(v))
<1> DEFINE s == d.finalizers
           f == VolumePrefix(v)
           left == FinalizersWithout(d, v)
           S == {n \in Nat : n <= Len(s) => Left(left[n], s, n, f)}
<1>1. s \in Seq(Finalizers) /\ Distinct(s) /\ Len(s) \in Nat  BY DEF WellFormed, Drives
<1>2. LoopOver(left, s, f)  BY <1>1, RemovingLoop
<1> HIDE DEF left, s, f
<1>3. 0 \in S
  <2>1. left[0] = <<>>  BY <1>2 DEF LoopOver
  <2>2. <<>> \in Seq(Finalizers) /\ Len(<<>>) = 0  OBVIOUS
  <2>3. Left(left[0], s, 0, f)  BY <2>1, <2>2 DEF Left, Distinct
  <2> QED  BY <2>3
<1>4. ASSUME NEW n \in Nat, n \in S  PROVE n + 1 \in S
  <2>1. CASE n >= Len(s)  BY <2>1, <1>1
  <2>2. CASE n < Len(s)
    <3>1. Left(left[n], s, n, f)  BY <1>4, <2>2, <1>1
    <3>2. n + 1 \in 1 .. Len(s) /\ (n + 1) - 1 = n  BY <2>2, <1>1
    <3>3. left[n + 1] = IF s[n + 1] = f THEN left[n] ELSE Append(left[n], s[n + 1])
      BY <1>2, <3>2 DEF LoopOver
    <3>4. Left(left[n + 1], s, n + 1, f)  BY <1>1, <2>2, <3>1, <3>3, LeftStep
    <3> QED  BY <3>4
  <2> QED  BY <2>1, <2>2, <1>1
<1>5. Len(s) \in S  BY <1>1, <1>3, <1>4, NatSetInduction
<1>6. Left(left[Len(s)], s, Len(s), f)  BY <1>1, <1>5
<1> QED  BY <1>6 DEF left, s, f

-----------------------------------------------------------------------------
(* What the contract sees of a drive, in terms of its finalizers.          *)
LEMMA Reading ==
  ASSUME NEW d
  PROVE  /\ Protected(d) = Contains(d.finalizers, DataProtection)
         /\ GetVolumes(d) = {v \in Volumes : Contains(d.finalizers, VolumePrefix(v))}
         /\ \A v : VolumeExist(d, v) = Contains(d.finalizers, VolumePrefix(v))
         /\ \A s, f : Contains(s, f) \in BOOLEAN
BY DEF Protected, GetVolumes, VolumeExist, Contains

(* A volume has a finalizer of its own, which is not the drive's.          *)
LEMMA PrefixesDiffer ==
  /\ \A v : VolumePrefix(v) # DataProtection
  /\ \A v, w : VolumePrefix(v) = VolumePrefix(w) => v = w
BY DEF VolumePrefix, DataProtection

(* The server lets go of a drive that is being deleted when it has no      *)
(* finalizer: then it is not protected and holds no volume.                *)
LEMMA NothingLeft ==
  ASSUME NEW d, WellFormed(d)
  PROVE  d.finalizers = <<>> <=> ~ Protected(d) /\ GetVolumes(d) = {}
<1> DEFINE s == d.finalizers
<1>1. s \in Seq(Finalizers) /\ Len(s) \in Nat  BY DEF WellFormed, Drives
<1> HIDE DEF s
<1>2. CASE s = <<>>
  <2>1. Len(<<>>) = 0  OBVIOUS
  <2>2. Len(s) = 0  BY <1>2, <2>1
  <2>3. \A f : ~ Contains(s, f)  BY <2>2 DEF Contains
  <2> QED  BY <1>2, <2>3, Reading DEF s
<1>3. CASE s # <<>>
  <2>1. 1 \in 1 .. Len(s) /\ s[1] \in Finalizers  BY <1>1, <1>3
  <2>2. Contains(s, s[1])  BY <2>1 DEF Contains
  <2> QED  BY <1>3, <2>1, <2>2, Reading DEF s, Finalizers
<1> QED  BY <1>2, <1>3

(* What the calls make of the finalizers of a drive: AddVolumeFinalizer.   *)
LEMMA Appended ==
  ASSUME NEW d, WellFormed(d), NEW v \in Volumes, ~ VolumeExist(d, v)
  PROVE  LET e == AddVolumeFinalizer(d, v)
         IN  /\ e = [d EXCEPT !.finalizers = Append(d.finalizers, VolumePrefix(v))]
             /\ WellFormed(e)
             /\ \A f : Contains(e.finalizers, f) <=> Contains(d.finalizers, f) \/ f = VolumePrefix(v)
<1> DEFINE s == d.finalizers
           u == Append(s, VolumePrefix(v))
           e == [d EXCEPT !.finalizers = u]
<1>1. s \in Seq(Finalizers) /\ Len(s) \in Nat /\ Distinct(s) /\ VolumePrefix(v) \in Finalizers
  BY DEF WellFormed, Drives, Finalizers
<1>2. AddVolumeFinalizer(d, v) = e  BY DEF AddVolumeFinalizer
<1>3. e.finalizers = u /\ (u \in Seq(Finalizers) => e \in Drives)  BY DEF WellFormed, Drives
<1> HIDE DEF s, e
<1>4. /\ u \in Seq(Finalizers) /\ Len(u) = Len(s) + 1 /\ u[Len(s) + 1] = VolumePrefix(v)
      /\ \A i \in 1 .. Len(s) : u[i] = s[i]
  BY <1>1
<1> HIDE DEF u
<1>5. \A i \in 1 .. Len(u) : i \in 1 .. Len(s) \/ i = Len(s) + 1  BY <1>1, <1>4
<1>6. Len(s) + 1 \in 1 .. Len(u) /\ \A i \in 1 .. Len(s) : i \in 1 .. Len(u)  BY <1>1, <1>4
<1>7. \A f : Contains(u, f) <=> Contains(s, f) \/ f = VolumePrefix(v)
  BY <1>4, <1>5, <1>6 DEF Contains
<1>8. ~ Contains(s, VolumePrefix(v))  BY Reading DEF s
<1>9. Distinct(u)
  BY <1>1, <1>4, <1>5, <1>8 DEF Distinct, Contains
<1>10. WellFormed(e)  BY <1>3, <1>4, <1>9 DEF WellFormed
<1> QED  BY <1>2, <1>3, <1>7, <1>10 DEF e, u, s

(* RemoveVolumeFinalizer.                                                  *)
LEMMA Removed ==
  ASSUME NEW d, WellFormed(d), NEW v \in Volumes
  PROVE  LET e == RemoveVolumeFinalizer(d, v)
         IN  /\ e = [d EXCEPT !.finalizers = e.finalizers]
             /\ WellFormed(e)
             /\ \A f : Contains(e.finalizers, f) <=> Contains(d.finalizers, f) /\ f # VolumePrefix(v)
<1> DEFINE s == d.finalizers
           u == FinalizersWithout(d, v)[Len(s)]
           e == [d EXCEPT !.finalizers = u]
<1>1. RemoveVolumeFinalizer(d, v) = e  BY DEF RemoveVolumeFinalizer
<1>2. Left(u, s, Len(s), VolumePrefix(v))  BY LeftAll
<1>3. e.finalizers = u /\ (u \in Seq(Finalizers) => e \in Drives)  BY DEF WellFormed, Drives
<1>4. e = [d EXCEPT !.finalizers = e.finalizers]  BY <1>3
<1> HIDE DEF s, u, e
<1>5. \A f : Contains(u, f) <=> Contains(s, f) /\ f # VolumePrefix(v)
  BY <1>2 DEF Left, Contains
<1>6. WellFormed(e)  BY <1>2, <1>3 DEF WellFormed, Left
<1> QED  BY <1>1, <1>3, <1>4, <1>5, <1>6 DEF s

(* ResetFinalizers.                                                        *)
LEMMA ProtectionOnly ==
  ASSUME NEW d, WellFormed(d)
  PROVE  LET e == ResetFinalizers(d)
         IN  /\ e = [d EXCEPT !.finalizers = <<DataProtection>>] /\ e.finalizers = <<DataProtection>>
             /\ WellFormed(e)
             /\ \A f : Contains(e.finalizers, f) <=> f = DataProtection
<1> DEFINE u == <<DataProtection>>
           e == [d EXCEPT !.finalizers = u]
<1>1. u \in Seq(Finalizers) /\ Len(u) = 1 /\ u[1] = DataProtection  BY DEF Finalizers
<1>2. e.finalizers = u /\ e \in Drives  BY <1>1 DEF WellFormed, Drives
<1> HIDE DEF u
<1>3. Distinct(u) /\ \A f : Contains(u, f) <=> f = DataProtection  BY <1>1 DEF Distinct, Contains
<1> QED  BY <1>2, <1>3 DEF ResetFinalizers, WellFormed, u

(* RemoveFinalizers, on a drive without volumes.                           *)
LEMMA LetGoOnly ==
  ASSUME NEW d, WellFormed(d), Len(d.finalizers) = 1, d.finalizers[1] = DataProtection
  PROVE  LET e == RemoveFinalizers(d)
         IN  /\ e = [d EXCEPT !.finalizers = <<>>]
             /\ WellFormed(e) /\ \A f : ~ Contains(e.finalizers, f)
             /\ \A f : Contains(d.finalizers, f) <=> f = DataProtection
<1> DEFINE e == [d EXCEPT !.finalizers = <<>>]
<1>1. <<>> \in Seq(Finalizers) /\ Len(<<>>) = 0  OBVIOUS
<1>2. e.finalizers = <<>> /\ e \in Drives  BY <1>1 DEF WellFormed, Drives
<1>3. RemoveFinalizers(d) = e  BY DEF RemoveFinalizers
<1>4. \A f : Contains(d.finalizers, f) <=> f = DataProtection  BY DEF Contains
<1> HIDE DEF e
<1>5. WellFormed(e) /\ \A f : ~ Contains(e.finalizers, f)
  BY <1>1, <1>2 DEF WellFormed, Distinct, Contains
<1> QED  BY <1>3, <1>4, <1>5 DEF e

-----------------------------------------------------------------------------
(* Every call gives a well-formed drive and leaves its version alone.      *)
LEMMA CallsKeepShape ==
  ASSUME NEW d, WellFormed(d), NEW e \in Calls(d)
  PROVE  WellFormed(e) /\ e.version = d.version
<1>1. d \in Drives  BY DEF WellFormed
<1>2. ASSUME NEW v \in Volumes, e = AddVolumeFinalizer(d, v)  PROVE WellFormed(e) /\ e.version = d.version
  <2>1. CASE VolumeExist(d, v)  BY <1>2, <2>1 DEF AddVolumeFinalizer
  <2>2. CASE ~ VolumeExist(d, v)
    <3>1. e = [d EXCEPT !.finalizers = Append(d.finalizers, VolumePrefix(v))] /\ WellFormed(e)
      BY <1>2, <2>2, Appended
    <3>2. e.version = d.version  BY <3>1, <1>1 DEF Drives
    <3> QED  BY <3>1, <3>2
  <2> QED  BY <2>1, <2>2
<1>3. ASSUME NEW v \in Volumes, e = RemoveVolumeFinalizer(d, v)  PROVE WellFormed(e) /\ e.version = d.version
  <2>1. e = [d EXCEPT !.finalizers = e.finalizers] /\ WellFormed(e)  BY <1>3, Removed
  <2>2. \A u : [d EXCEPT !.finalizers = u].version = d.version  BY <1>1 DEF Drives
  <2> QED  BY <2>1, <2>2
<1>4. ASSUME NEW l, l \in SUBSET Labels, e = [d EXCEPT !.labels = l]  PROVE WellFormed(e) /\ e.version = d.version
  <2>1. e \in Drives /\ e.finalizers = d.finalizers /\ e.version = d.version  BY <1>1, <1>4 DEF Drives
  <2> QED  BY <2>1 DEF WellFormed
<1>5. ASSUME NEW b \in BOOLEAN, e = [d EXCEPT !.unschedulable = b]  PROVE WellFormed(e) /\ e.version = d.version
  <2>1. e \in Drives /\ e.finalizers = d.finalizers /\ e.version = d.version  BY <1>1, <1>5 DEF Drives
  <2> QED  BY <2>1 DEF WellFormed
<1>6. d.labels \in SUBSET Labels  BY <1>1 DEF Drives
<1>7. \A l \in Labels : d.labels \cup {l} \in SUBSET Labels /\ d.labels \ {l} \in SUBSET Labels  BY <1>6
<1>8. \A id \in Claims : id \in Labels /\ Suspended \in Labels  BY DEF Labels
<1>9. CASE \E id \in Claims : e = SetVolumeClaimID(d, id) \/ e = RemoveVolumeClaimID(d, id)
  <2>1. PICK id \in Claims : e = SetVolumeClaimID(d, id) \/ e = RemoveVolumeClaimID(d, id)  BY <1>9
  <2>2. \/ e = d \/ e = [d EXCEPT !.labels = d.labels \cup {id}] \/ e = [d EXCEPT !.labels = d.labels \ {id}]
    BY <2>1 DEF SetVolumeClaimID, RemoveVolumeClaimID, SetLabel, RemoveLabel
  <2> QED  BY <2>2, <1>4, <1>7, <1>8
<1>10. CASE e = Suspend(d) \/ e = Resume(d)
  <2>1. e = [d EXCEPT !.labels = d.labels \cup {Suspended}] \/ e = [d EXCEPT !.labels = d.labels \ {Suspended}]
    BY <1>10 DEF Suspend, Resume, SetLabel, RemoveLabel
  <2>2. Suspended \in Labels  BY DEF Labels
  <2> QED  BY <2>1, <2>2, <1>4, <1>7
<1>11. CASE e = Unschedulable(d) \/ e = Schedulable(d)
  BY <1>11, <1>5 DEF Unschedulable, Schedulable
<1>12. CASE e = ResetFinalizers(d)
  <2>1. e = [d EXCEPT !.finalizers = <<DataProtection>>] /\ WellFormed(e)  BY <1>12, ProtectionOnly
  <2>2. e.version = d.version  BY <2>1, <1>1 DEF Drives
  <2> QED  BY <2>1, <2>2
<1>13. CASE e = RemoveFinalizers(d)
  <2>1. CASE Len(d.finalizers) = 1 /\ d.finalizers[1] = DataProtection
    <3>1. e = [d EXCEPT !.finalizers = <<>>] /\ WellFormed(e)  BY <1>13, <2>1, LetGoOnly
    <3>2. e.version = d.version  BY <3>1, <1>1 DEF Drives
    <3> QED  BY <3>1, <3>2
  <2>2. CASE ~ (Len(d.finalizers) = 1 /\ d.finalizers[1] = DataProtection)
    BY <1>13, <2>2 DEF RemoveFinalizers
  <2> QED  BY <2>1, <2>2
<1> QED  BY <1>2, <1>3, <1>9, <1>10, <1>11, <1>12, <1>13 DEF Calls

(* The server takes the copy e it was sent.                                *)
Shows(e) ==
  /\ drive' = [e EXCEPT !.version = drive.version + 1]
  /\ there' = ~ (doomed /\ e.finalizers = <<>>)
  /\ doomed' = doomed

(* Then the drive shows what e shows: a version does not matter to it.     *)
LEMMA ShownAs ==
  ASSUME NEW e, WellFormed(e), Shows(e)
  PROVE  /\ Protected(drive)' = Protected(e) /\ GetVolumes(drive)' = GetVolumes(e)
         /\ drive'.labels = e.labels /\ IsSuspended(drive)' = IsSuspended(e)
         /\ drive'.unschedulable = e.unschedulable
         /\ there' = ~ (doomed /\ ~ Protected(e) /\ GetVolumes(e) = {})
<1>1. /\ drive'.finalizers = e.finalizers /\ drive'.labels = e.labels
      /\ drive'.unschedulable = e.unschedulable
  BY DEF Shows, WellFormed, Drives
<1>2. Protected(drive)' = Protected(e) /\ GetVolumes(drive)' = GetVolumes(e) /\ IsSuspended(drive)' = IsSuspended(e)
  BY <1>1 DEF Protected, GetVolumes, VolumeExist, Contains, IsSuspended
<1>3. there' = ~ (doomed /\ ~ Protected(e) /\ GetVolumes(e) = {})
  BY NothingLeft DEF Shows
<1> QED  BY <1>1, <1>2, <1>3

(* An accepted update is a step of the contract, or changes nothing it     *)
(* sees: a volume that was there is added, an empty id claimed.  That the  *)
(* server takes no new finalizer once a drive is being deleted is what     *)
(* AddVolume and ResetVolumes of the contract need.                        *)
LEMMA UpdateImplements ==
  ASSUME LabelsApart, IInv, there, NEW e \in Calls(drive), Accepted(e), Shows(e)
  PROVE  Contract!Next \/ UNCHANGED Contract!vars
<1> DEFINE d == drive
           p == Protected(d)
           vs == GetVolumes(d)
           cs == d.labels \ {Suspended}
           s == IsSuspended(d)
           u == d.unschedulable
<1>1. WellFormed(d) /\ d \in Drives /\ WellFormed(e)  BY CallsKeepShape DEF IInv, WellFormed
<1>2. /\ Protected(drive)' = Protected(e) /\ GetVolumes(drive)' = GetVolumes(e)
      /\ drive'.labels = e.labels /\ IsSuspended(drive)' = IsSuspended(e)
      /\ drive'.unschedulable = e.unschedulable
      /\ there' = ~ (doomed /\ ~ Protected(e) /\ GetVolumes(e) = {})
      /\ doomed' = doomed
  BY <1>1, ShownAs DEF Shows
<1>3. doomed => \A i \in DOMAIN e.finalizers : Contains(drive.finalizers, e.finalizers[i])
  BY DEF Accepted, Contains
<1>4. there /\ ~ (doomed /\ ~ p /\ vs = {})  BY <1>1, NothingLeft DEF IInv
<1>5. CASE e = d
  BY <1>2, <1>4, <1>5 DEF Contract!vars, IInv
<1>6. ASSUME NEW v \in Volumes, e = AddVolumeFinalizer(d, v)  PROVE Contract!Next \/ UNCHANGED Contract!vars
  <2>1. CASE VolumeExist(d, v)  BY <1>5, <1>6, <2>1 DEF AddVolumeFinalizer
  <2>2. CASE ~ VolumeExist(d, v)
    <3>1. /\ e = [d EXCEPT !.finalizers = Append(d.finalizers, VolumePrefix(v))]
          /\ \A f : Contains(e.finalizers, f) <=> Contains(d.finalizers, f) \/ f = VolumePrefix(v)
      BY <1>1, <1>6, <2>2, Appended
    <3>2. e.labels = d.labels /\ e.unschedulable = u  BY <1>1, <3>1 DEF Drives
    <3>3. Protected(e) = p /\ GetVolumes(e) = vs \cup {v}
      <4>1. Contains(e.finalizers, DataProtection) = Contains(d.finalizers, DataProtection)
        BY <3>1, Reading, PrefixesDiffer
      <4>2. \A w : Contains(e.finalizers, VolumePrefix(w)) <=> Contains(d.finalizers, VolumePrefix(w)) \/ w = v
        BY <3>1, PrefixesDiffer
      <4>3. Protected(e) = p  BY <4>1, Reading
      <4>4. GetVolumes(e) = vs \cup {v}  BY <4>2, Reading
      <4> QED  BY <4>3, <4>4
    <3>4. ~ doomed
      <4>1. Contains(e.finalizers, VolumePrefix(v)) /\ ~ Contains(d.finalizers, VolumePrefix(v))  BY <3>1, <2>2, Reading
      <4>2. PICK i \in 1 .. Len(e.finalizers) : e.finalizers[i] = VolumePrefix(v)  BY <4>1 DEF Contains
      <4>3. i \in DOMAIN e.finalizers  BY <1>1, <4>2 DEF WellFormed, Drives
      <4> QED  BY <1>3, <4>1, <4>2, <4>3
    <3>5. Contract!AddVolume(v)
      BY <1>2, <3>2, <3>3, <3>4 DEF Contract!AddVolume, Contract!Becomes, IsSuspended
    <3> QED  BY <3>5 DEF Contract!Next
  <2> QED  BY <2>1, <2>2
<1>7. ASSUME NEW v \in Volumes, e = RemoveVolumeFinalizer(d, v)  PROVE Contract!Next \/ UNCHANGED Contract!vars
  <2>1. /\ e = [d EXCEPT !.finalizers = e.finalizers]
        /\ \A f : Contains(e.finalizers, f) <=> Contains(d.finalizers, f) /\ f # VolumePrefix(v)
    BY <1>1, <1>7, Removed
  <2>2. \A q : [d EXCEPT !.finalizers = q].labels = d.labels /\ [d EXCEPT !.finalizers = q].unschedulable = u
    BY <1>1 DEF Drives
  <2>3. e.labels = d.labels /\ e.unschedulable = u  BY <2>1, <2>2
  <2>4. Protected(e) = p /\ GetVolumes(e) = vs \ {v}
    BY <2>1, Reading, PrefixesDiffer
  <2>5. Contract!RemoveVolume(v)
    BY <1>2, <2>3, <2>4 DEF Contract!RemoveVolume, Contract!Becomes, IsSuspended
  <2> QED  BY <2>5 DEF Contract!Next
<1>8. ASSUME NEW l, e = [d EXCEPT !.labels = l]
      PROVE  e.labels = l /\ e.unschedulable = u /\ Protected(e) = p /\ GetVolumes(e) = vs
  <2>1. e.labels = l /\ e.unschedulable = u /\ e.finalizers = d.finalizers  BY <1>1, <1>8 DEF Drives
  <2> QED  BY <2>1, Reading
<1>9. ASSUME NEW i \in Claims, ~ HasVolumeClaimID(d, i), e = SetVolumeClaimID(d, i)
      PROVE  Contract!Next \/ UNCHANGED Contract!vars
  <2>1. CASE i = ""  BY <1>5, <1>9, <2>1 DEF SetVolumeClaimID
  <2>2. CASE i # ""
    <3>1. e = [d EXCEPT !.labels = d.labels \cup {i}] /\ i \notin d.labels /\ i # Suspended
      BY <1>9, <2>2 DEF SetVolumeClaimID, SetLabel, HasVolumeClaimID, LabelsApart
    <3>2. e.labels \ {Suspended} = cs \cup {i} /\ IsSuspended(e) = s /\ i \notin cs
      BY <3>1, <1>8 DEF IsSuspended
    <3>3. Contract!Claim(i)  BY <1>2, <1>8, <3>1, <3>2 DEF Contract!Claim, Contract!Becomes
    <3> QED  BY <3>3 DEF Contract!Next
  <2> QED  BY <2>1, <2>2
<1>10. ASSUME NEW i \in Claims, e = RemoveVolumeClaimID(d, i)
      PROVE  Contract!Next \/ UNCHANGED Contract!vars
  <2>1. CASE i = ""  BY <1>5, <1>10, <2>1 DEF RemoveVolumeClaimID
  <2>2. CASE i # ""
    <3>1. e = [d EXCEPT !.labels = d.labels \ {i}] /\ i # Suspended
      BY <1>10, <2>2 DEF RemoveVolumeClaimID, RemoveLabel, LabelsApart
    <3>2. e.labels \ {Suspended} = cs \ {i} /\ IsSuspended(e) = s
      BY <3>1, <1>8 DEF IsSuspended
    <3>3. Contract!Unclaim(i)  BY <1>2, <1>8, <3>1, <3>2 DEF Contract!Unclaim, Contract!Becomes
    <3> QED  BY <3>3 DEF Contract!Next
  <2> QED  BY <2>1, <2>2
<1>11. CASE e = Suspend(d)
  <2>1. e = [d EXCEPT !.labels = d.labels \cup {Suspended}]  BY <1>11 DEF Suspend, SetLabel
  <2>2. e.labels \ {Suspended} = cs /\ IsSuspended(e) = TRUE  BY <2>1, <1>8 DEF IsSuspended
  <2>3. Contract!Suspend(TRUE)  BY <1>2, <1>8, <2>1, <2>2 DEF Contract!Suspend, Contract!Becomes
  <2> QED  BY <2>3 DEF Contract!Next
<1>12. CASE e = Resume(d)
  <2>1. e = [d EXCEPT !.labels = d.labels \ {Suspended}]  BY <1>12 DEF Resume, RemoveLabel
  <2>2. e.labels \ {Suspended} = cs /\ IsSuspended(e) = FALSE  BY <2>1, <1>8 DEF IsSuspended
  <2>3. Contract!Suspend(FALSE)  BY <1>2, <1>8, <2>1, <2>2 DEF Contract!Suspend, Contract!Becomes
  <2> QED  BY <2>3 DEF Contract!Next
<1>13. ASSUME NEW b \in BOOLEAN, e = [d EXCEPT !.unschedulable = b]  PROVE Contract!Next
  <2>1. e.labels = d.labels /\ e.unschedulable = b /\ e.finalizers = d.finalizers  BY <1>1, <1>13 DEF Drives
  <2>2. Protected(e) = p /\ GetVolumes(e) = vs /\ IsSuspended(e) = s  BY <2>1, Reading DEF IsSuspended
  <2>3. Contract!Cordon(b)  BY <1>2, <2>1, <2>2 DEF Contract!Cordon, Contract!Becomes
  <2> QED  BY <2>3 DEF Contract!Next
<1>14. CASE e = Unschedulable(d) \/ e = Schedulable(d)
  BY <1>13, <1>14 DEF Unschedulable, Schedulable
<1>15. CASE e = ResetFinalizers(d)
  <2>1. /\ e = [d EXCEPT !.finalizers = <<DataProtection>>] /\ e.finalizers = <<DataProtection>>
        /\ \A f : Contains(e.finalizers, f) <=> f = DataProtection
    BY <1>1, <1>15, ProtectionOnly
  <2>2. e.labels = d.labels /\ e.unschedulable = u  BY <1>1, <2>1 DEF Drives
  <2>3. Protected(e) = TRUE /\ GetVolumes(e) = {}  BY <2>1, Reading, PrefixesDiffer
  <2>4. doomed => p
    <3>1. 1 \in DOMAIN e.finalizers /\ e.finalizers[1] = DataProtection  BY <2>1
    <3> QED  BY <1>3, <3>1, Reading
  <2>5. Contract!ResetVolumes
    BY <1>2, <2>2, <2>3, <2>4 DEF Contract!ResetVolumes, Contract!Becomes, IsSuspended
  <2> QED  BY <2>5 DEF Contract!Next
<1>16. CASE e = RemoveFinalizers(d)
  <2>1. CASE Len(d.finalizers) = 1 /\ d.finalizers[1] = DataProtection
    <3>1. /\ e = [d EXCEPT !.finalizers = <<>>] /\ \A f : ~ Contains(e.finalizers, f)
          /\ \A f : Contains(d.finalizers, f) <=> f = DataProtection
      BY <1>1, <1>16, <2>1, LetGoOnly
    <3>2. e.labels = d.labels /\ e.unschedulable = u  BY <1>1, <3>1 DEF Drives
    <3>3. Protected(e) = FALSE /\ GetVolumes(e) = {} /\ vs = {}  BY <3>1, Reading, PrefixesDiffer
    <3>4. Contract!LetGo
      BY <1>2, <3>2, <3>3 DEF Contract!LetGo, Contract!Becomes, IsSuspended
    <3> QED  BY <3>4 DEF Contract!Next
  <2>2. CASE ~ (Len(d.finalizers) = 1 /\ d.finalizers[1] = DataProtection)
    BY <1>5, <1>16, <2>2 DEF RemoveFinalizers
  <2> QED  BY <2>1, <2>2
<1> QED  BY <1>6, <1>7, <1>9, <1>10, <1>11, <1>12, <1>14, <1>15, <1>16 DEF Calls

-----------------------------------------------------------------------------
(* The invariant holds at first.                                           *)
LEMMA InitIInv == ASSUME LabelsApart, Init PROVE IInv
<1> DEFINE u == <<DataProtection>>
<1>1. u \in Seq(Finalizers) /\ Len(u) = 1 /\ u[1] = DataProtection  BY DEF Finalizers
<1>2. drive = [version |-> 1, finalizers |-> u, labels |-> {}, unschedulable |-> FALSE]
  BY DEF Init, NewDirectPVDrive
<1> HIDE DEF u
<1>3. drive \in Drives  BY <1>1, <1>2 DEF Drives, LabelsApart
<1>4. Distinct(u)  BY <1>1 DEF Distinct
<1>5. WellFormed(drive)  BY <1>2, <1>3, <1>4 DEF WellFormed
<1> QED  BY <1>5 DEF Init, IInv

(* Every step keeps it.                                                    *)
LEMMA NextIInv == ASSUME LabelsApart, IInv, [Next]_vars PROVE IInv'
<1>1. CASE UNCHANGED vars  BY <1>1 DEF vars, IInv, WellFormed
<1>2. CASE Delete
  <2>1. drive' = drive /\ copy' = copy /\ doomed' = TRUE /\ there' = (drive.finalizers # <<>>)
    BY <1>2 DEF Delete
  <2> QED  BY <2>1 DEF IInv, WellFormed
<1>3. ASSUME NEW c \in Clients, Get(c)  PROVE IInv'
  <2>1. copy' = [copy EXCEPT ![c] = drive] /\ UNCHANGED <<drive, there, doomed>>  BY <1>3 DEF Get
  <2>2. drive.version \in Nat  BY DEF IInv, WellFormed, Drives
  <2>3. \A b \in Clients : copy'[b] = drive \/ copy'[b] = copy[b]  BY <2>1 DEF IInv
  <2> QED  BY <2>1, <2>2, <2>3 DEF IInv, WellFormed
<1>4. ASSUME NEW c \in Clients, Update(c)  PROVE IInv'
  <2>1. copy[c] # None /\ drive.version < MaxVersion /\ copy' = [copy EXCEPT ![c] = None] /\ doomed' = doomed
    BY <1>4 DEF Update
  <2>2. \A b \in Clients : copy'[b] = None \/ copy'[b] = copy[b]  BY <2>1 DEF IInv
  <2>3. CASE UNCHANGED <<drive, there>>
    BY <2>1, <2>2, <2>3 DEF IInv, WellFormed
  <2>4. CASE \E e \in Calls(copy[c]) :
               Accepted(e) /\ drive' = [e EXCEPT !.version = drive.version + 1] /\ there' = ~ (doomed /\ e.finalizers = <<>>)
    <3>1. PICK e \in Calls(copy[c]) :
               Accepted(e) /\ drive' = [e EXCEPT !.version = drive.version + 1] /\ there' = ~ (doomed /\ e.finalizers = <<>>)
      BY <2>4
    <3>2. WellFormed(e)  BY <2>1, CallsKeepShape DEF IInv
    <3>3. drive.version + 1 \in 1 .. MaxVersion  BY <2>1 DEF IInv, WellFormed, Drives, LabelsApart
    <3>4. /\ drive' \in Drives /\ drive'.version = drive.version + 1 /\ drive'.finalizers = e.finalizers
      BY <3>1, <3>2, <3>3 DEF WellFormed, Drives
    <3>5. WellFormed(drive')  BY <3>2, <3>4 DEF WellFormed
    <3>6. \A b \in Clients : copy'[b] # None => copy'[b] = copy[b] /\ copy[b].version <= drive.version
      BY <2>2 DEF IInv
    <3>7. \A b \in Clients : copy[b] # None => copy[b].version \in Nat  BY DEF IInv, WellFormed, Drives
    <3>8. drive.version \in Nat  BY DEF IInv, WellFormed, Drives
    <3>9. (\A b \in Clients : copy[b] # None =>
             /\ WellFormed(copy[b]) /\ copy[b].version <= drive.version
             /\ copy[b].version = drive.version => copy[b] = drive)'
      <4> SUFFICES ASSUME NEW b \in Clients, copy'[b] # None
                   PROVE  /\ WellFormed(copy'[b]) /\ copy'[b].version <= drive'.version
                          /\ copy'[b].version # drive'.version
        BY DEF WellFormed
      <4>1. copy'[b] = copy[b] /\ WellFormed(copy[b])  BY <3>6 DEF IInv
      <4>2. copy[b].version \in Nat /\ copy[b].version <= drive.version  BY <4>1, <3>6, <3>7
      <4> QED  BY <4>1, <4>2, <3>4, <3>8
    <3>10. (there => ~ (doomed /\ drive.finalizers = <<>>))' /\ there' \in BOOLEAN
      BY <2>1, <3>1, <3>4
    <3> QED  BY <2>1, <3>5, <3>9, <3>10 DEF IInv, WellFormed
  <2>5. \E e \in Calls(copy[c]) :
          \/ Accepted(e) /\ drive' = [e EXCEPT !.version = drive.version + 1] /\ there' = ~ (doomed /\ e.finalizers = <<>>)
          \/ UNCHANGED <<drive, there>>
    BY <1>4 DEF Update
  <2> QED  BY <2>3, <2>4, <2>5
<1> QED  BY <1>1, <1>2, <1>3, <1>4 DEF Next

(* Hence it always holds.                                                  *)
LEMMA IInvHolds == ASSUME LabelsApart PROVE Spec => []IInv
<1> QED  BY InitIInv, NextIInv, PTL DEF Spec

-----------------------------------------------------------------------------
(* What the shape of the drive and the copies gives.                       *)
LEMMA TypesOfShape == ASSUME LabelsApart, IInv PROVE TypeOK
<1>0. drive.version \in 1 .. MaxVersion  BY DEF IInv, WellFormed, Drives
<1> SUFFICES ASSUME NEW d \in ({copy[c] : c \in Clients} \cup {drive}) \ {None}
             PROVE  /\ IsInjective(d.finalizers)
                    /\ d.labels \subseteq Claims \cup {Suspended} /\ d.unschedulable \in BOOLEAN
                    /\ Range(d.finalizers) \subseteq {DataProtection} \cup {VolumePrefix(v) : v \in Volumes}
  BY <1>0 DEF TypeOK
<1>1. WellFormed(d) /\ drive \in Drives  BY DEF IInv, WellFormed
<1>2. d.finalizers \in Seq(Finalizers)  BY <1>1 DEF WellFormed, Drives
<1>3. DOMAIN d.finalizers = 1 .. Len(d.finalizers)  BY <1>2
<1>4. IsInjective(d.finalizers)  BY <1>1, <1>3 DEF WellFormed, Distinct, IsInjective
<1>5. Range(d.finalizers) \subseteq Finalizers  BY <1>2, <1>3 DEF Range
<1> QED  BY <1>1, <1>4, <1>5 DEF WellFormed, Drives, Labels, Finalizers

(* A protected drive: its volumes and the finalizers other than            *)
(* DataProtection are in bijection.                                        *)
LEMMA CountOfShape == ASSUME LabelsApart, IInv PROVE CountOfProtected
<1> SUFFICES ASSUME Protected(drive)
             PROVE  GetVolumeCount(drive) = Cardinality(GetVolumes(drive))
  BY DEF CountOfProtected
<1> DEFINE s == drive.finalizers
           all == {s[i] : i \in 1 .. Len(s)}
           vs == GetVolumes(drive)
           rest == {VolumePrefix(v) : v \in vs}
<1>1. s \in Seq(Finalizers) /\ Len(s) \in Nat /\ Distinct(s)  BY DEF IInv, WellFormed, Drives
<1>2. Contains(s, DataProtection) /\ vs = {v \in Volumes : Contains(s, VolumePrefix(v))}
  BY Reading
<1> HIDE DEF s, vs
<1>3. IsFiniteSet(all) /\ Cardinality(all) = Len(s)
  <2> DEFINE g == [i \in 1 .. Len(s) |-> s[i]]
  <2>1. g \in Bijection(1 .. Len(s), all)
    <3>1. g \in [1 .. Len(s) -> all] /\ IsInjective(g)  BY <1>1 DEF Distinct, IsInjective
    <3>2. \A x \in all : \E i \in 1 .. Len(s) : g[i] = x  OBVIOUS
    <3> QED  BY <3>1, <3>2 DEF Bijection, Injection, Surjection
  <2>2. IsFiniteSet(1 .. Len(s)) /\ Cardinality(1 .. Len(s)) = Len(s)
    BY <1>1, FS_Interval
  <2>3. ExistsBijection(1 .. Len(s), all)  BY <2>1 DEF ExistsBijection
  <2> HIDE DEF all
  <2> QED  BY <2>2, <2>3, FS_Bijection
<1>4. rest = all \ {DataProtection}
  <2>1. ASSUME NEW v \in vs  PROVE VolumePrefix(v) \in all \ {DataProtection}
    BY <1>2, PrefixesDiffer DEF Contains
  <2>2. ASSUME NEW f \in all \ {DataProtection}  PROVE f \in rest
    <3>1. PICK i \in 1 .. Len(s) : s[i] = f  OBVIOUS
    <3>2. f \in Finalizers /\ Contains(s, f)  BY <3>1, <1>1 DEF Contains
    <3>3. PICK v \in Volumes : f = VolumePrefix(v)  BY <3>2, <2>2 DEF Finalizers
    <3> QED  BY <3>2, <3>3, <1>2
  <2> QED  BY <2>1, <2>2
<1>5. DataProtection \in all  BY <1>2 DEF Contains
<1> HIDE DEF all
<1>6. IsFiniteSet(rest) /\ Cardinality(rest) = Len(s) - 1
  BY <1>3, <1>4, <1>5, FS_RemoveElement
<1>7. ExistsBijection(rest, vs)
  <2> DEFINE h == [v \in vs |-> VolumePrefix(v)]
  <2>1. h \in Bijection(vs, rest)
    <3>1. h \in [vs -> rest] /\ IsInjective(h)  BY PrefixesDiffer DEF IsInjective
    <3>2. \A x \in rest : \E v \in vs : h[v] = x  OBVIOUS
    <3> QED  BY <3>1, <3>2 DEF Bijection, Injection, Surjection
  <2>2. ExistsBijection(vs, rest)  BY <2>1 DEF ExistsBijection
  <2> HIDE DEF rest
  <2> QED  BY <2>2, Fun_ExistsBijSymmetric
<1> HIDE DEF rest
<1>8. Cardinality(vs) = Len(s) - 1  BY <1>6, <1>7, FS_Bijection
<1> QED  BY <1>8 DEF GetVolumeCount, s, vs

(* The drive starts as the contract does, and each step is one of its own. *)
LEMMA ContractAtFirst == ASSUME Init PROVE Contract!Init
<1>1. /\ drive.finalizers = <<DataProtection>> /\ drive.labels = {} /\ drive.unschedulable = FALSE
      /\ there = TRUE /\ doomed = FALSE
  BY DEF Init, NewDirectPVDrive
<1> DEFINE u == <<DataProtection>>
<1>2. Len(u) = 1 /\ u[1] = DataProtection  OBVIOUS
<1> HIDE DEF u
<1>3. \A f : Contains(u, f) <=> f = DataProtection  BY <1>2 DEF Contains
<1>4. Protected(drive) = TRUE /\ GetVolumes(drive) = {}
  BY <1>1, <1>3, Reading, PrefixesDiffer DEF u
<1> QED  BY <1>1, <1>4 DEF Contract!Init, IsSuspended

LEMMA ContractStep == ASSUME LabelsApart, IInv, [Next]_vars PROVE [Contract!Next]_(Contract!vars)
<1> SUFFICES Contract!Next \/ UNCHANGED Contract!vars
  OBVIOUS
<1>1. CASE UNCHANGED <<drive, there, doomed>>
  BY <1>1 DEF Contract!vars, Protected, GetVolumes, VolumeExist, IsSuspended
<1>2. CASE Delete
  <2>1. drive' = drive /\ there /\ ~ doomed /\ doomed' = TRUE /\ there' = (drive.finalizers # <<>>)
    BY <1>2 DEF Delete
  <2>2. there' = (Protected(drive) \/ GetVolumes(drive) # {})
    BY <2>1, NothingLeft DEF IInv
  <2>3. /\ Protected(drive)' = Protected(drive) /\ GetVolumes(drive)' = GetVolumes(drive)
        /\ IsSuspended(drive)' = IsSuspended(drive)
    BY <2>1 DEF Protected, GetVolumes, VolumeExist, IsSuspended
  <2>4. Contract!Delete  BY <2>1, <2>2, <2>3 DEF Contract!Delete
  <2> QED  BY <2>4 DEF Contract!Next
<1>3. ASSUME NEW c \in Clients, Update(c)  PROVE Contract!Next \/ UNCHANGED Contract!vars
  <2>1. PICK e \in Calls(copy[c]) :
          \/ /\ Accepted(e)
             /\ drive' = [e EXCEPT !.version = drive.version + 1]
             /\ there' = ~ (doomed /\ e.finalizers = <<>>)
          \/ ~ Accepted(e) /\ UNCHANGED <<drive, there>>
    BY <1>3 DEF Update
  <2>2. copy[c] # None /\ doomed' = doomed  BY <1>3 DEF Update
  <2>3. CASE ~ Accepted(e)  BY <1>1, <2>1, <2>2, <2>3
  <2>4. CASE Accepted(e)
    <3>1. e.version = copy[c].version  BY <2>2, CallsKeepShape DEF IInv
    <3>2. copy[c] = drive /\ there  BY <2>2, <2>4, <3>1 DEF IInv, Accepted
    <3>3. Shows(e)  BY <2>1, <2>2, <2>4 DEF Shows
    <3> QED  BY <2>4, <3>2, <3>3, UpdateImplements
  <2> QED  BY <2>3, <2>4
<1> QED  BY <1>1, <1>2, <1>3 DEF Next, vars, Get

-----------------------------------------------------------------------------
(* Drive and copies keep their types, nothing becomes a finalizer twice.   *)
THEOREM DriveTypeOK == ASSUME LabelsApart PROVE Spec => []TypeOK
<1> QED  BY TypesOfShape, IInvHolds, PTL

(* GetVolumeCount, which takes one from the number of finalizers, counts   *)
(* the volumes of a drive that is protected: they and the finalizers other *)
(* than DataProtection are in bijection.                                   *)
THEOREM DriveCountOfProtected == ASSUME LabelsApart PROVE Spec => []CountOfProtected
<1> QED  BY CountOfShape, IInvHolds, PTL

(* Callers that get, change and update a drive at once see what they would *)
(* if each call happened at once and on the drive itself: DirectPV         *)
(* implements DriveContract.                                               *)
THEOREM DriveKeepsContract == ASSUME LabelsApart PROVE Spec => KeepsContract
<1> QED
  BY ContractAtFirst, ContractStep, IInvHolds, PTL DEF Spec, KeepsContract, Contract!Spec
=============================================================================
