-------------------------- MODULE DefaultingProofs --------------------------
(***************************************************************************)
(* What FillClustersInfo makes of any spec: the user's entries, untouched, *)
(* and one built-in entry for every needed type they leave out.  From this *)
(* follow the properties of Defaulting for every choice of types,          *)
(* features and entries, and any number of entries a user lists.           *)
(*                                                                         *)
(* The loop over the built-in entries is a recursive function, so a fact   *)
(* about its result needs induction on the number of entries seen.  The    *)
(* library's induction theorems take an operator; NatSetInduction takes    *)
(* the set of the numbers for which the fact holds.                        *)
(***************************************************************************)
EXTENDS Defaulting, WellFoundedInduction, TLAPS

Builtins == NineDatahouseFullClusterset

-----------------------------------------------------------------------------
(* Induction: a set that has 0, and n + 1 with every n, has every natural  *)
(* number.  Its complement would have a least element.                     *)
LEMMA NatSetInduction ==
  ASSUME NEW S, 0 \in S, \A n \in Nat : n \in S => n + 1 \in S
  PROVE  Nat \subseteq S
<1>1. SUFFICES ASSUME Nat \ S # {}  PROVE FALSE
  OBVIOUS
<1>2. \A T : T \subseteq Nat /\ T # {} => \E x \in T : \A y \in T : <<y, x>> \notin OpToRel(<, Nat)
  BY NatLessThanWellFounded, WFMin
<1>3. PICK x \in Nat \ S : \A y \in Nat \ S : <<y, x>> \notin OpToRel(<, Nat)
  BY <1>1, <1>2
<1>4. \A y \in Nat \ S : ~ (y < x)
  BY <1>3 DEF OpToRel
<1>5. x # 0  OBVIOUS
<1>6. x - 1 \in Nat /\ x - 1 < x  BY <1>5
<1>7. x - 1 \in S  BY <1>4, <1>6
<1> QED  BY <1>6, <1>7

(* A set of natural numbers that has an element has a least one.           *)
LEMMA LeastOf ==
  ASSUME NEW S, S \subseteq Nat, S # {}
  PROVE  \E m \in S : \A j \in S : m <= j
<1>1. \A T : T \subseteq Nat /\ T # {} => \E x \in T : \A y \in T : <<y, x>> \notin OpToRel(<, Nat)
  BY NatLessThanWellFounded, WFMin
<1>2. PICK m \in S : \A y \in S : <<y, m>> \notin OpToRel(<, Nat)  BY <1>1
<1>3. \A y \in S : ~ (y < m)  BY <1>2 DEF OpToRel
<1> QED  BY <1>3

-----------------------------------------------------------------------------
(* The types of NineDatahouseFullClusterset, in its order.                 *)
LEMMA BuiltinTypes ==
  /\ Len(Builtins) = 13
  /\ Builtins[1].type = "kyuubi" /\ Builtins[2].type = "metastore"
  /\ Builtins[3].type = "database" /\ Builtins[4].type = "minio"
  /\ Builtins[5].type = "spark" /\ Builtins[6].type = "doris"
  /\ Builtins[7].type = "doris-fe" /\ Builtins[8].type = "doris-be"
  /\ Builtins[9].type = "zookeeper" /\ Builtins[10].type = "hdfs"
  /\ Builtins[11].type = "namenode" /\ Builtins[12].type = "datanode"
  /\ Builtins[13].type = "journalnode"
BY DEF Builtins, NineDatahouseFullClusterset, KyuubiInfo, MetastoreInfo, DatabaseInfo, ClusterInfo, NoAuth

(* No type is built in twice.                                              *)
LEMMA BuiltinsDiffer ==
  \A i, j \in 1 .. 13 : Builtins[i].type = Builtins[j].type => i = j
BY BuiltinTypes

(* The types FillClustersInfo appends to the entries of s.                 *)
Missing(s) == weNeedClusterTypes(s) \ Types(s.clusterSet)

(* set[n] is the ClusterSet when the loop has seen n built-in entries.     *)
LoopOver(set, s) ==
  /\ set[0] = s.clusterSet
  /\ \A n \in 1 .. 13 :
       set[n] = IF Builtins[n].type \in Missing(s)
                THEN Append(set[n - 1], Builtins[n]) ELSE set[n - 1]

(* The recursive definition has a solution: by induction there is one for  *)
(* the first n entries, whatever n.                                        *)
LEMMA FillingLoop ==
  ASSUME NEW s  PROVE LoopOver(FilledClusterSet(s), s)
<1> DEFINE Step(t, n) == IF Builtins[n].type \in Missing(s) THEN Append(t, Builtins[n]) ELSE t
           Loop(g, n) == g = [i \in 0 .. n |-> IF i = 0 THEN s.clusterSet ELSE Step(g[i - 1], i)]
           S == {n \in Nat : \E g : Loop(g, n)}
<1>1. 0 \in S
  <2>1. Loop([i \in 0 .. 0 |-> s.clusterSet], 0)  OBVIOUS
  <2> QED  BY <2>1
<1>2. ASSUME NEW n \in Nat, n \in S  PROVE n + 1 \in S
  <2> HIDE DEF Step
  <2>1. PICK g : Loop(g, n)  BY <1>2
  <2> DEFINE h == [i \in 0 .. n + 1 |-> IF i = n + 1 THEN Step(g[n], n + 1) ELSE g[i]]
  <2>2. \A i \in 0 .. n + 1 : h[i] = IF i = 0 THEN s.clusterSet ELSE Step(h[i - 1], i)
    BY <2>1
  <2>3. Loop(h, n + 1)  BY <2>2
  <2>4. \E q : Loop(q, n + 1)  BY <2>3
  <2> HIDE DEF Loop
  <2> QED  BY <2>4
<1>3. 13 \in S  BY <1>1, <1>2, NatSetInduction
<1> DEFINE Body(g) == [n \in 0 .. Len(NineDatahouseFullClusterset) |->
              IF n = 0 THEN s.clusterSet
              ELSE IF NineDatahouseFullClusterset[n].type \in weNeedClusterTypes(s) \ Types(s.clusterSet)
                   THEN Append(g[n - 1], NineDatahouseFullClusterset[n])
                   ELSE g[n - 1]]
<1>4. \E g : g = Body(g)
  <2>1. PICK g : Loop(g, 13)  BY <1>3
  <2>2. g = Body(g)  BY <2>1, BuiltinTypes DEF Builtins, Missing
  <2> QED  BY <2>2
<1>5. FilledClusterSet(s) = CHOOSE g : g = Body(g)  BY DEF FilledClusterSet
<1>6. FilledClusterSet(s) = Body(FilledClusterSet(s))  BY <1>4, <1>5
<1> DEFINE set == FilledClusterSet(s)
<1>7. set = Body(set)  BY <1>6
<1> HIDE DEF set
<1>8. \A n \in 0 .. 13 : Body(set)[n] =
         IF n = 0 THEN s.clusterSet
         ELSE IF Builtins[n].type \in Missing(s) THEN Append(set[n - 1], Builtins[n]) ELSE set[n - 1]
  BY BuiltinTypes DEF Builtins, Missing
<1> HIDE DEF Body
<1>9. \A n \in 0 .. 13 : set[n] = Body(set)[n]  BY <1>7
<1>10. LoopOver(set, s)  BY <1>8, <1>9 DEF LoopOver
<1> QED  BY <1>10 DEF set

(* The invariant of the loop: the user's entries come first, what follows  *)
(* are missing built-in entries, each type once, and none of the first n   *)
(* that is missing is left out.                                            *)
Grown(set, s, n) ==
  LET m == Len(s.clusterSet)
  IN  /\ m <= Len(set) /\ \A i \in 1 .. m : set[i] = s.clusterSet[i]
      /\ \A i \in m + 1 .. Len(set) : \E k \in 1 .. n :
           set[i] = Builtins[k] /\ Builtins[k].type \in Missing(s)
      /\ \A i, j \in m + 1 .. Len(set) : set[i].type = set[j].type => i = j
      /\ \A k \in 1 .. n : Builtins[k].type \in Missing(s) =>
           \E i \in 1 .. Len(set) : set[i] = Builtins[k]

(* One turn of the loop keeps it.                                          *)
LEMMA GrownStep ==
  ASSUME NEW E, NEW s, s.clusterSet \in Seq(E), \A k \in 1 .. 13 : Builtins[k] \in E,
         NEW n \in 0 .. 12, NEW t \in Seq(E), Grown(t, s, n),
         NEW u, u = IF Builtins[n + 1].type \in Missing(s) THEN Append(t, Builtins[n + 1]) ELSE t
  PROVE  u \in Seq(E) /\ Grown(u, s, n + 1)
<1> DEFINE m == Len(s.clusterSet)
<1>0. m \in Nat /\ Len(t) \in Nat /\ n + 1 \in 1 .. 13  OBVIOUS
<1>1. CASE Builtins[n + 1].type \notin Missing(s)
  <2>1. u = t  BY <1>1
  <2>2. \A k \in 1 .. n + 1 : k = n + 1 \/ k \in 1 .. n  BY <1>0
  <2>3. \A k \in 1 .. n : k \in 1 .. n + 1  BY <1>0
  <2> QED  BY <1>1, <2>1, <2>2, <2>3 DEF Grown
<1>2. CASE Builtins[n + 1].type \in Missing(s)
  <2>1. u = Append(t, Builtins[n + 1])  BY <1>2
  <2>2. u \in Seq(E) /\ Len(u) = Len(t) + 1  BY <2>1, <1>0
  <2>3. \A i \in 1 .. Len(t) : u[i] = t[i]  BY <2>1, <1>0
  <2>4. u[Len(t) + 1] = Builtins[n + 1]  BY <2>1, <1>0
  <2>5. m <= Len(u) /\ \A i \in 1 .. m : u[i] = s.clusterSet[i]
    BY <1>0, <2>2, <2>3 DEF Grown
  <2>6. \A i \in m + 1 .. Len(u) : \E k \in 1 .. n + 1 :
           u[i] = Builtins[k] /\ Builtins[k].type \in Missing(s)
    <3>1. TAKE i \in m + 1 .. Len(u)
    <3>2. CASE i = Len(u)
      <4>1. u[i] = Builtins[n + 1] /\ n + 1 \in 1 .. n + 1  BY <3>2, <2>2, <2>4, <1>0
      <4> QED  BY <4>1, <1>2
    <3>3. CASE i # Len(u)
      <4>1. i \in m + 1 .. Len(t) /\ u[i] = t[i]  BY <3>3, <1>0, <2>2, <2>3
      <4> QED  BY <4>1, <1>0 DEF Grown
    <3> QED  BY <3>2, <3>3
  <2>7. \A i \in m + 1 .. Len(t) : t[i].type # Builtins[n + 1].type
    <3>1. TAKE i \in m + 1 .. Len(t)
    <3>2. PICK k \in 1 .. n : t[i] = Builtins[k]  BY DEF Grown
    <3>3. k \in 1 .. 13 /\ n + 1 \in 1 .. 13 /\ k # n + 1  BY <1>0
    <3> QED  BY <3>2, <3>3, BuiltinsDiffer
  <2>8. \A i, j \in m + 1 .. Len(u) : u[i].type = u[j].type => i = j
    <3>1. \A i \in m + 1 .. Len(u) : i = Len(t) + 1 \/ (i \in m + 1 .. Len(t) /\ u[i] = t[i])
      BY <1>0, <2>2, <2>3
    <3>2. \A i, j \in m + 1 .. Len(t) : t[i].type = t[j].type => i = j  BY DEF Grown
    <3> QED  BY <3>1, <3>2, <2>4, <2>7
  <2>9. \A k \in 1 .. n + 1 : Builtins[k].type \in Missing(s) =>
           \E i \in 1 .. Len(u) : u[i] = Builtins[k]
    <3>1. TAKE k \in 1 .. n + 1
    <3>2. CASE k = n + 1  BY <3>2, <2>2, <2>4, <1>0
    <3>3. CASE k \in 1 .. n  BY <3>3, <1>0, <2>2, <2>3 DEF Grown
    <3> QED  BY <3>2, <3>3, <1>0
  <2> QED  BY <2>2, <2>5, <2>6, <2>8, <2>9 DEF Grown
<1> QED  BY <1>1, <1>2

(* So it holds of the loop's result.                                       *)
LEMMA FilledGrown ==
  ASSUME NEW E, NEW s, s.clusterSet \in Seq(E), \A k \in 1 .. 13 : Builtins[k] \in E
  PROVE  LET set == FilledClusterSet(s)[13]
         IN  set \in Seq(E) /\ Grown(set, s, 13)
<1> DEFINE f == FilledClusterSet(s)
           S == {n \in Nat : n <= 13 => f[n] \in Seq(E) /\ Grown(f[n], s, n)}
<1>1. LoopOver(f, s)  BY FillingLoop
<1> HIDE DEF f
<1>2. 0 \in S
  <2>1. f[0] = s.clusterSet /\ Len(f[0]) \in Nat  BY <1>1 DEF LoopOver
  <2>2. Grown(f[0], s, 0)  BY <2>1 DEF Grown
  <2> QED  BY <2>1, <2>2
<1>3. ASSUME NEW n \in Nat, n \in S  PROVE n + 1 \in S
  <2>1. CASE n > 12  BY <2>1
  <2>2. CASE n <= 12
    <3>1. n \in 0 .. 12 /\ f[n] \in Seq(E) /\ Grown(f[n], s, n)  BY <1>3, <2>2
    <3>2. f[n + 1] = IF Builtins[n + 1].type \in Missing(s) THEN Append(f[n], Builtins[n + 1]) ELSE f[n]
      <4>1. n + 1 \in 1 .. 13 /\ (n + 1) - 1 = n  BY <3>1
      <4> QED  BY <1>1, <4>1 DEF LoopOver
    <3>3. f[n + 1] \in Seq(E) /\ Grown(f[n + 1], s, n + 1)  BY <3>1, <3>2, GrownStep
    <3> QED  BY <3>3
  <2> QED  BY <2>1, <2>2
<1>4. 13 \in S  BY <1>2, <1>3, NatSetInduction
<1> QED  BY <1>4 DEF f

-----------------------------------------------------------------------------
(* s has the fields of a spec and no other.                                *)
IsSpec(s) == s = [type |-> s.type, features |-> s.features, clusterSet |-> s.clusterSet]

(* What a ClusterSet has when users list entries of E.                     *)
Entries(E) == E \cup {Builtins[k] : k \in 1 .. 13}

(* The types every NineCluster needs.                                      *)
LEMMA DatahouseTypes == Types(NineDatahouseClusterset) = {"kyuubi", "metastore", "database"}
<1>1. NineDatahouseClusterset = <<KyuubiInfo, MetastoreInfo, DatabaseInfo>>  BY DEF NineDatahouseClusterset
<1>2. DOMAIN NineDatahouseClusterset = {1, 2, 3}  BY <1>1
<1>3. /\ NineDatahouseClusterset[1].type = "kyuubi"
      /\ NineDatahouseClusterset[2].type = "metastore"
      /\ NineDatahouseClusterset[3].type = "database"
  BY <1>1 DEF KyuubiInfo, MetastoreInfo, DatabaseInfo, ClusterInfo, NoAuth
<1> QED  BY <1>2, <1>3 DEF Types

(* There is a built-in entry for every type FillClustersInfo can need.     *)
LEMMA NeedsAreBuiltin ==
  ASSUME NEW s  PROVE \A t \in weNeedClusterTypes(s) : \E k \in 1 .. 13 : Builtins[k].type = t
<1>1. weNeedClusterTypes(s) \subseteq
        {"kyuubi", "metastore", "database", "minio", "spark", "doris", "doris-fe", "doris-be",
         "zookeeper", "hdfs", "namenode", "datanode", "journalnode"}
  BY DatahouseTypes DEF weNeedClusterTypes
<1>2. {"kyuubi", "metastore", "database", "minio", "spark", "doris", "doris-fe", "doris-be",
         "zookeeper", "hdfs", "namenode", "datanode", "journalnode"} \subseteq {Builtins[k].type : k \in 1 .. 13}
  <2>1. \A k \in 1 .. 13 : Builtins[k].type \in {Builtins[j].type : j \in 1 .. 13}  OBVIOUS
  <2>2. /\ 1 \in 1 .. 13 /\ 2 \in 1 .. 13 /\ 3 \in 1 .. 13 /\ 4 \in 1 .. 13 /\ 5 \in 1 .. 13
        /\ 6 \in 1 .. 13 /\ 7 \in 1 .. 13 /\ 8 \in 1 .. 13 /\ 9 \in 1 .. 13 /\ 10 \in 1 .. 13
        /\ 11 \in 1 .. 13 /\ 12 \in 1 .. 13 /\ 13 \in 1 .. 13
    OBVIOUS
  <2> DEFINE A == {Builtins[j].type : j \in 1 .. 13}
  <2>3. \A k \in 1 .. 13 : Builtins[k].type \in A  BY <2>1
  <2> HIDE DEF A
  <2>4. /\ "kyuubi" \in A /\ "metastore" \in A /\ "database" \in A /\ "minio" \in A
        /\ "spark" \in A /\ "doris" \in A /\ "doris-fe" \in A
    BY <2>2, <2>3, BuiltinTypes
  <2>5. /\ "doris-be" \in A /\ "zookeeper" \in A /\ "hdfs" \in A /\ "namenode" \in A
        /\ "datanode" \in A /\ "journalnode" \in A
    BY <2>2, <2>3, BuiltinTypes
  <2>6. {"kyuubi", "metastore", "database", "minio", "spark", "doris", "doris-fe", "doris-be",
         "zookeeper", "hdfs", "namenode", "datanode", "journalnode"} \subseteq A
    BY <2>4, <2>5
  <2> QED  BY <2>6 DEF A
<1>3. \A t \in weNeedClusterTypes(s) : t \in {Builtins[k].type : k \in 1 .. 13}
  BY <1>1, <1>2
<1> HIDE DEF Builtins
<1> QED  BY <1>3

(* c is a copy filled from s: a supported type, the features of s, and for *)
(* a batch cluster the entries of s grown by what is missing.              *)
FilledFrom(c, s) ==
  /\ IsSpec(c)
  /\ c.type \in NineClusterTypeSupportedList
  /\ c.features = s.features
  /\ c.type = "batch" =>
       LET b == [s EXCEPT !.type = "batch"]
       IN  Grown(c.clusterSet, b, 13) /\ b.clusterSet = s.clusterSet /\ b.features = s.features /\ b.type = "batch"

(* Fill gives such a copy, of any spec of a supported type.                *)
LEMMA FillShape ==
  ASSUME NEW E, NEW s, IsSpec(s), s.clusterSet \in Seq(E), CheckNineClusterTypeSupported(s)
  PROVE  FilledFrom(Fill(s), s) /\ Fill(s).clusterSet \in Seq(Entries(E))
<1> DEFINE b == FillNineClusterType(s)
<1>1. /\ IsSpec(b) /\ b.clusterSet = s.clusterSet /\ b.features = s.features
      /\ b.type \in NineClusterTypeSupportedList
  BY DEF IsSpec, FillNineClusterType, CheckNineClusterTypeSupported, NineClusterTypeSupportedList
<1>2. b.type = "batch" => b = [s EXCEPT !.type = "batch"]
  BY DEF IsSpec, FillNineClusterType
<1> HIDE DEF b
<1>3. s.clusterSet \in Seq(Entries(E)) /\ \A k \in 1 .. 13 : Builtins[k] \in Entries(E)
  BY DEF Entries
<1>4. CASE b.type # "batch"
  <2>1. Fill(s) = b  BY <1>4 DEF Fill, b
  <2> QED  BY <2>1, <1>1, <1>3, <1>4 DEF FilledFrom
<1>5. CASE b.type = "batch"
  <2>1. Fill(s) = FillClustersInfo(b)  BY <1>5 DEF Fill, b
  <2> DEFINE set == FilledClusterSet(b)[13]
  <2>2. set \in Seq(Entries(E)) /\ Grown(set, b, 13)  BY <1>1, <1>3, FilledGrown
  <2>3. Fill(s) = [b EXCEPT !.clusterSet = set]  BY <2>1, BuiltinTypes DEF FillClustersInfo, Builtins
  <2> HIDE DEF set
  <2>4. /\ IsSpec(Fill(s)) /\ Fill(s).type = b.type /\ Fill(s).features = b.features
        /\ Fill(s).clusterSet = set
    BY <2>3, <1>1 DEF IsSpec
  <2> QED  BY <2>2, <2>4, <1>1, <1>2, <1>5 DEF FilledFrom
<1> QED  BY <1>4, <1>5

(* A filled batch cluster has an entry of every type it needs and of every *)
(* type the user listed.                                                   *)
LEMMA NeedsMet ==
  ASSUME NEW E, NEW s, IsSpec(s), s.clusterSet \in Seq(E), CheckNineClusterTypeSupported(s),
         Fill(s).type = "batch"
  PROVE  /\ weNeedClusterTypes(Fill(s)) \subseteq Types(Fill(s).clusterSet)
         /\ Types(s.clusterSet) \subseteq Types(Fill(s).clusterSet)
<1> DEFINE c == Fill(s)
           b == [s EXCEPT !.type = "batch"]
<1>1. FilledFrom(c, s) /\ c.clusterSet \in Seq(Entries(E))  BY FillShape
<1>2. Grown(c.clusterSet, b, 13) /\ b.clusterSet = s.clusterSet /\ b.features = s.features /\ b.type = "batch"
  BY <1>1 DEF FilledFrom
<1>3. c.type = "batch" /\ c.features = s.features  BY <1>1 DEF FilledFrom
<1> HIDE DEF c, b
<1>4. weNeedClusterTypes(c) = weNeedClusterTypes(b)
  BY <1>2, <1>3 DEF weNeedClusterTypes, IsKyuubiNeedHA, GetClusterStorage, GetOlapClusterType
<1>5. Types(s.clusterSet) \subseteq Types(c.clusterSet)
  <2>1. Len(b.clusterSet) <= Len(c.clusterSet) /\ \A i \in 1 .. Len(b.clusterSet) : c.clusterSet[i] = b.clusterSet[i]
    BY <1>2 DEF Grown
  <2>2. /\ DOMAIN s.clusterSet = 1 .. Len(s.clusterSet) /\ Len(s.clusterSet) \in Nat
        /\ DOMAIN c.clusterSet = 1 .. Len(c.clusterSet) /\ Len(c.clusterSet) \in Nat
    BY <1>1
  <2>3. \A i \in DOMAIN s.clusterSet : i \in DOMAIN c.clusterSet /\ c.clusterSet[i] = s.clusterSet[i]
    BY <2>1, <2>2, <1>2
  <2> QED  BY <2>3 DEF Types
<1>6. \A t \in weNeedClusterTypes(b) : t \in Types(c.clusterSet)
  <2>1. TAKE t \in weNeedClusterTypes(b)
  <2>2. CASE t \in Types(s.clusterSet)  BY <2>2, <1>5
  <2>3. CASE t \notin Types(s.clusterSet)
    <3>1. PICK k \in 1 .. 13 : Builtins[k].type = t  BY NeedsAreBuiltin
    <3>2. Builtins[k].type \in Missing(b)  BY <3>1, <2>3, <1>2 DEF Missing
    <3>3. PICK i \in 1 .. Len(c.clusterSet) : c.clusterSet[i] = Builtins[k]  BY <3>2, <1>2 DEF Grown
    <3>4. i \in DOMAIN c.clusterSet  BY <1>1, <3>3
    <3> QED  BY <3>1, <3>3, <3>4 DEF Types
  <2> QED  BY <2>2, <2>3
<1> QED  BY <1>4, <1>5, <1>6 DEF c

-----------------------------------------------------------------------------
(* The inductive invariant: the spec is one a user may have made, and a    *)
(* copy is the filling of that very spec, which has a supported type.      *)
FillInv ==
  /\ IsSpec(spec)
  /\ spec.clusterSet \in Seq(UserEntries) /\ Len(spec.clusterSet) <= MaxUserEntries
  /\ DOMAIN spec.features \subseteq DOMAIN UserFeatures
  /\ copy # <<>> => copy = <<Fill(spec)>> /\ CheckNineClusterTypeSupported(spec)

(* It holds at first.                                                      *)
LEMMA FillInvInit == Init => FillInv
<1> SUFFICES ASSUME Init PROVE FillInv  OBVIOUS
<1>1. spec = [type |-> "", features |-> <<>>, clusterSet |-> <<>>] /\ copy = <<>>  BY DEF Init
<1>2. IsSpec(spec)  BY <1>1 DEF IsSpec
<1>3. spec.features = <<>> /\ spec.clusterSet = <<>>  BY <1>1
<1>4. <<>> \in Seq(UserEntries) /\ Len(<<>>) = 0 /\ DOMAIN <<>> = {}  OBVIOUS
<1>5. spec.clusterSet \in Seq(UserEntries) /\ Len(spec.clusterSet) <= MaxUserEntries
  BY <1>3, <1>4, DefaultingAssumption
<1>6. DOMAIN spec.features \subseteq DOMAIN UserFeatures  BY <1>3, <1>4
<1> QED  BY <1>1, <1>2, <1>5, <1>6 DEF FillInv

(* Edits drop the copy; Reconcile fills a new one.                         *)
LEMMA FillInvNext == FillInv /\ [Next]_vars => FillInv'
<1> SUFFICES ASSUME FillInv, [Next]_vars PROVE FillInv'  OBVIOUS
<1>1. ASSUME NEW t \in UserTypes, SetType(t)  PROVE FillInv'
  <2>1. spec' = [spec EXCEPT !.type = t] /\ copy' = <<>>  BY <1>1 DEF SetType
  <2>2. /\ spec'.type = t /\ spec'.features = spec.features /\ spec'.clusterSet = spec.clusterSet
        /\ IsSpec(spec')
    BY <2>1 DEF FillInv, IsSpec
  <2> QED  BY <2>1, <2>2 DEF FillInv, IsSpec
<1>2. ASSUME NEW f \in DOMAIN UserFeatures, NEW v \in UserFeatures[f], SetFeature(f, v)  PROVE FillInv'
  <2> DEFINE fs == [g \in DOMAIN spec.features \cup {f} |-> IF g = f THEN v ELSE spec.features[g]]
  <2>1. spec' = [spec EXCEPT !.features = fs] /\ copy' = <<>>  BY <1>2 DEF SetFeature
  <2>2. DOMAIN fs \subseteq DOMAIN UserFeatures  BY DEF FillInv
  <2> HIDE DEF fs
  <2>3. /\ spec'.type = spec.type /\ spec'.features = fs /\ spec'.clusterSet = spec.clusterSet
        /\ IsSpec(spec')
    BY <2>1 DEF FillInv, IsSpec
  <2> QED  BY <2>1, <2>2, <2>3 DEF FillInv, IsSpec
<1>3. ASSUME NEW c \in UserEntries, ListEntry(c)  PROVE FillInv'
  <2>1. /\ Len(spec.clusterSet) < MaxUserEntries /\ copy' = <<>>
        /\ spec' = [spec EXCEPT !.clusterSet = Append(spec.clusterSet, c)]
    BY <1>3 DEF ListEntry
  <2>2. /\ spec'.type = spec.type /\ spec'.features = spec.features
        /\ spec'.clusterSet = Append(spec.clusterSet, c) /\ IsSpec(spec')
    BY <2>1 DEF FillInv, IsSpec
  <2>3. spec'.clusterSet \in Seq(UserEntries) /\ Len(spec'.clusterSet) <= MaxUserEntries
    BY <2>1, <2>2, DefaultingAssumption DEF FillInv
  <2> QED  BY <2>1, <2>2, <2>3 DEF FillInv, IsSpec
<1>4. CASE Reconcile
  BY <1>4 DEF Reconcile, FillInv, IsSpec
<1>5. CASE UNCHANGED vars
  BY <1>5 DEF vars, FillInv, IsSpec
<1> QED  BY <1>1, <1>2, <1>3, <1>4, <1>5 DEF Next

(* Hence it always holds.                                                  *)
LEMMA FillInvHolds == Spec => []FillInv
<1> QED  BY FillInvInit, FillInvNext, PTL DEF Spec

(* What it says of a copy, by FillShape.                                   *)
LEMMA CopyShape ==
  ASSUME FillInv, copy # <<>>
  PROVE  /\ copy[1] = Fill(spec) /\ copy[1].features = spec.features
         /\ copy[1].type \in NineClusterTypeSupportedList
         /\ FilledFrom(copy[1], spec) /\ copy[1].clusterSet \in Seq(Entries(UserEntries))
<1>1. copy[1] = Fill(spec) /\ CheckNineClusterTypeSupported(spec)  BY DEF FillInv
<1>2. FilledFrom(copy[1], spec) /\ copy[1].clusterSet \in Seq(Entries(UserEntries))
  BY <1>1, FillShape DEF FillInv
<1> QED  BY <1>1, <1>2 DEF FilledFrom

-----------------------------------------------------------------------------
(* Every feature, entry and type keeps its shape, and FillNineClusterType  *)
(* lets only copies of a supported type through.                           *)
THEOREM DefaultingTypeOK == Spec => []TypeOK
<1>1. FillInv => TypeOK
  <2> SUFFICES ASSUME FillInv PROVE TypeOK  OBVIOUS
  <2>1. copy # <<>> => copy[1].type \in NineClusterTypeSupportedList  BY CopyShape
  <2> QED  BY <2>1 DEF FillInv, TypeOK
<1> QED  BY <1>1, FillInvHolds, PTL

(* FillClustersInfo keeps the user's entries, in order and untouched, and  *)
(* appends no type that is there already, be it the user's or built in.    *)
THEOREM DefaultingUserEntriesWin == Spec => []UserEntriesWin
<1>1. FillInv => UserEntriesWin
  <2> SUFFICES ASSUME FillInv, Batch PROVE
        LET n   == Len(spec.clusterSet)
            set == copy[1].clusterSet
        IN  /\ n <= Len(set) /\ SubSeq(set, 1, n) = spec.clusterSet
            /\ \A i \in n + 1 .. Len(set) : \A j \in 1 .. Len(set) :
                 set[i].type = set[j].type => i = j
    BY DEF UserEntriesWin
  <2> DEFINE n == Len(spec.clusterSet)
             set == copy[1].clusterSet
             b == [spec EXCEPT !.type = "batch"]
  <2>1. FilledFrom(copy[1], spec) /\ set \in Seq(Entries(UserEntries))  BY CopyShape DEF Batch
  <2>2. Grown(set, b, 13) /\ b.clusterSet = spec.clusterSet
    BY <2>1 DEF FilledFrom, Batch
  <2>3. spec.clusterSet \in Seq(UserEntries)  BY DEF FillInv
  <2> HIDE DEF set, b
  <2>4. n <= Len(set) /\ \A i \in 1 .. n : set[i] = spec.clusterSet[i]
    BY <2>2 DEF Grown
  <2>5. SubSeq(set, 1, n) = spec.clusterSet
    <3>1. n \in Nat /\ Len(set) \in Nat  BY <2>1, <2>3
    <3>2. SubSeq(set, 1, n) = [i \in 1 .. n |-> set[i]]  BY <3>1, <2>1, <2>4
    <3>3. spec.clusterSet = [i \in 1 .. n |-> spec.clusterSet[i]]  BY <2>3
    <3> QED  BY <3>2, <3>3, <2>4
  <2>6. ASSUME NEW i \in n + 1 .. Len(set), NEW j \in 1 .. Len(set), set[i].type = set[j].type
        PROVE i = j
    <3>1. PICK k \in 1 .. 13 : set[i] = Builtins[k] /\ Builtins[k].type \in Missing(b)
      BY <2>2 DEF Grown
    <3>2. n \in Nat /\ Len(set) \in Nat  BY <2>1, <2>3
    <3>3. CASE j \in n + 1 .. Len(set)  BY <3>3, <2>2, <2>6 DEF Grown
    <3>4. CASE j \in 1 .. n
      <4>1. set[j] = spec.clusterSet[j] /\ j \in DOMAIN spec.clusterSet  BY <3>4, <2>3, <2>4
      <4>2. set[j].type \in Types(spec.clusterSet)  BY <4>1 DEF Types
      <4> QED  BY <4>2, <3>1, <2>6, <2>2 DEF Missing
    <3> QED  BY <3>2, <3>3, <3>4
  <2> QED  BY <2>4, <2>5, <2>6 DEF set
<1> QED  BY <1>1, FillInvHolds, PTL

(* GetRefClusterInfo finds a spark entry in a filled batch cluster, the    *)
(* pointer constructSparkConf dereferences is not nil: spark is needed     *)
(* whatever the features, so an entry of that type is there, and the first *)
(* such entry is what is found.                                            *)
THEOREM DefaultingSparkFound == Spec => []SparkFound
<1>1. FillInv => SparkFound
  <2> SUFFICES ASSUME FillInv, Batch PROVE GetRefClusterInfo(copy[1], "spark") # Nil
    BY DEF SparkFound
  <2> DEFINE set == copy[1].clusterSet
  <2>1. copy # <<>> /\ copy[1] = Fill(spec) /\ copy[1].type = "batch" /\ set \in Seq(Entries(UserEntries))
    BY CopyShape DEF Batch
  <2>2. weNeedClusterTypes(copy[1]) \subseteq Types(set)
    BY <2>1, NeedsMet DEF FillInv
  <2>3. "spark" \in weNeedClusterTypes(copy[1])  BY <2>1 DEF weNeedClusterTypes
  <2> DEFINE Is(i) == i \in DOMAIN set /\ set[i].type = "spark"
             S == {i \in Nat : Is(i)}
  <2>4. PICK i0 \in DOMAIN set : set[i0].type = "spark"  BY <2>2, <2>3 DEF Types
  <2>5. DOMAIN set = 1 .. Len(set) /\ Len(set) \in Nat  BY <2>1
  <2>6. i0 \in S  BY <2>4, <2>5
  <2>7. PICK m \in S : \A j \in S : m <= j  BY <2>6, LeastOf
  <2>8. m \in DOMAIN set /\ set[m].type = "spark" /\ \A j \in 1 .. m - 1 : set[j].type # "spark"
    BY <2>5, <2>7
  <2> DEFINE First(i) == set[i].type = "spark" /\ \A j \in 1 .. i - 1 : set[j].type # "spark"
             c == CHOOSE i \in DOMAIN set : First(i)
  <2>9. First(c)  BY <2>8
  <2>10. GetRefClusterInfo(copy[1], "spark") = set[c]
    BY <2>2, <2>3 DEF GetRefClusterInfo, FirstOfType
  <2> HIDE DEF c
  <2>11. set[c].type = "spark"  BY <2>9
  <2>12. Nil.type = ""  BY DEF Nil, ClusterInfo, NoAuth
  <2> QED  BY <2>10, <2>11, <2>12
<1> QED  BY <1>1, FillInvHolds, PTL

(* No worker polls for a service that no entry provisions, whatever        *)
(* features and sensible entries a user gives: FillClustersInfo decides    *)
(* what is needed from the features, the workers decide what they wait for *)
(* from the entries, and the two agree.  An hdfs entry is either the       *)
(* user's, and then sensible, or filled in, and then the storage is HDFS,  *)
(* which brings ZooKeeper along.                                           *)
THEOREM DefaultingWaitsServed == Spec => []WaitsServed
<1>1. FillInv => WaitsServed
  <2> SUFFICES ASSUME FillInv, Batch, Sensible, NEW i \in DOMAIN copy[1].clusterSet
               PROVE  WaitsFor(copy[1], copy[1].clusterSet[i]) \subseteq Types(copy[1].clusterSet)
    BY DEF WaitsServed
  <2> DEFINE set == copy[1].clusterSet
             b == [spec EXCEPT !.type = "batch"]
  <2>1. /\ copy # <<>> /\ copy[1] = Fill(spec) /\ copy[1].type = "batch" /\ set \in Seq(Entries(UserEntries))
        /\ copy[1].features = spec.features /\ FilledFrom(copy[1], spec)
    BY CopyShape DEF Batch
  <2>2. weNeedClusterTypes(copy[1]) \subseteq Types(set) /\ Types(spec.clusterSet) \subseteq Types(set)
    BY <2>1, NeedsMet DEF FillInv
  <2>3. GetClusterStorage(copy[1]) = GetClusterStorage(spec) /\ IsKyuubiNeedHA(copy[1]) = IsKyuubiNeedHA(spec)
    BY <2>1 DEF GetClusterStorage, IsKyuubiNeedHA
  <2>4. {"metastore", "database", GetClusterStorage(spec)} \subseteq Types(set)
    <3>1. GetClusterStorage(spec) \in {"minio", "hdfs"}
      BY DEF GetClusterStorage, NineInfraSupportedStorageList
    <3>2. {"metastore", "database", GetClusterStorage(spec)} \subseteq weNeedClusterTypes(copy[1])
      BY <2>3, <3>1, DatahouseTypes DEF weNeedClusterTypes
    <3> QED  BY <3>2, <2>2
  <2>5. IsKyuubiNeedHA(spec) \/ GetClusterStorage(spec) = "hdfs" => "zookeeper" \in Types(set)
    BY <2>2, <2>3 DEF weNeedClusterTypes
  <2>6. set[i].type = "hdfs" => "zookeeper" \in Types(set)
    <3> SUFFICES ASSUME set[i].type = "hdfs" PROVE "zookeeper" \in Types(set)  OBVIOUS
    <3>1. CASE "hdfs" \in Types(spec.clusterSet)
      BY <3>1, <2>2, <2>5 DEF Sensible
    <3>2. CASE "hdfs" \notin Types(spec.clusterSet)
      <4>1. Grown(set, b, 13) /\ b.clusterSet = spec.clusterSet /\ b.features = spec.features /\ b.type = "batch"
        BY <2>1 DEF FilledFrom
      <4>2. spec.clusterSet \in Seq(UserEntries)  BY DEF FillInv
      <4> HIDE DEF set, b
      <4>3. i \in 1 .. Len(set) /\ Len(set) \in Nat /\ Len(spec.clusterSet) \in Nat  BY <2>1, <4>2 DEF set
      <4>4. i \notin 1 .. Len(spec.clusterSet)
        <5> SUFFICES ASSUME i \in 1 .. Len(spec.clusterSet) PROVE FALSE  OBVIOUS
        <5>1. i \in DOMAIN spec.clusterSet /\ spec.clusterSet[i] = set[i]  BY <4>1, <4>2 DEF Grown
        <5> QED  BY <5>1, <3>2 DEF Types
      <4>5. PICK k \in 1 .. 13 : set[i] = Builtins[k] /\ Builtins[k].type \in Missing(b)
        <5>1. i \in Len(spec.clusterSet) + 1 .. Len(set)  BY <4>3, <4>4
        <5> QED  BY <5>1, <4>1 DEF Grown
      <4>6. "hdfs" \in weNeedClusterTypes(b)  BY <4>5 DEF Missing
      <4>7. GetClusterStorage(b) = "hdfs"
        <5>1. GetClusterStorage(b) \in {"minio", "hdfs"}
          BY DEF GetClusterStorage, NineInfraSupportedStorageList
        <5>2. GetClusterStorage(b) # "minio"
          BY <4>6, DatahouseTypes DEF weNeedClusterTypes
        <5> QED  BY <5>1, <5>2
      <4>8. GetClusterStorage(b) = GetClusterStorage(spec)  BY <4>1 DEF GetClusterStorage
      <4> QED  BY <4>7, <4>8, <2>5
    <3> QED  BY <3>1, <3>2
  <2> HIDE DEF set
  <2> DEFINE e == set[i]
  <2>7. CASE e.type = "kyuubi"
    BY <2>7, <2>3, <2>4, <2>5 DEF WaitsFor, set
  <2>8. CASE e.type = "metastore"
    BY <2>8, <2>3, <2>4 DEF WaitsFor, set
  <2>9. CASE e.type = "hdfs"
    BY <2>9, <2>6 DEF WaitsFor, set
  <2>10. CASE e.type \notin {"kyuubi", "metastore", "hdfs"}
    BY <2>10 DEF WaitsFor, set
  <2> QED  BY <2>7, <2>8, <2>9, <2>10
<1> QED  BY <1>1, FillInvHolds, PTL

(* The loop appends nothing when no built-in type is missing.              *)
LEMMA NothingMissing ==
  ASSUME NEW c, \A k \in 1 .. 13 : Builtins[k].type \notin Missing(c)
  PROVE  FilledClusterSet(c)[13] = c.clusterSet
<1> DEFINE f == FilledClusterSet(c)
           S == {n \in Nat : n <= 13 => f[n] = c.clusterSet}
<1>1. LoopOver(f, c)  BY FillingLoop
<1> HIDE DEF f
<1>2. 0 \in S  BY <1>1 DEF LoopOver
<1>3. ASSUME NEW n \in Nat, n \in S  PROVE n + 1 \in S
  <2>1. CASE n > 12  BY <2>1
  <2>2. CASE n <= 12
    <3>1. n + 1 \in 1 .. 13 /\ (n + 1) - 1 = n /\ f[n] = c.clusterSet  BY <1>3, <2>2
    <3>2. f[n + 1] = c.clusterSet  BY <1>1, <3>1 DEF LoopOver
    <3> QED  BY <3>2
  <2> QED  BY <2>1, <2>2
<1>4. 13 \in S  BY <1>2, <1>3, NatSetInduction
<1> QED  BY <1>4 DEF f

(* Filling a filled copy changes nothing: its type is set, its features    *)
(* are the same, so what it needs is what it needed, and that is there.    *)
THEOREM DefaultingFillIdempotent == Spec => []FillIdempotent
<1>1. FillInv => FillIdempotent
  <2> SUFFICES ASSUME FillInv, copy # <<>> PROVE Fill(copy[1]) = copy[1]
    BY DEF FillIdempotent
  <2> DEFINE c == copy[1]
  <2>1. c = Fill(spec) /\ FilledFrom(c, spec)  BY CopyShape
  <2>2. IsSpec(c) /\ c.type \in {"stream", "batch"}
    BY <2>1 DEF FilledFrom, NineClusterTypeSupportedList
  <2>3. CheckNineClusterTypeSupported(spec)  BY DEF FillInv
  <2>4. FillNineClusterType(c) = c  BY <2>2 DEF FillNineClusterType
  <2>5. CASE c.type # "batch"  BY <2>4, <2>5 DEF Fill
  <2>6. CASE c.type = "batch"
    <3>1. weNeedClusterTypes(c) \subseteq Types(c.clusterSet)
      BY <2>1, <2>3, <2>6, NeedsMet DEF FillInv
    <3>2. \A k \in 1 .. 13 : Builtins[k].type \notin Missing(c)  BY <3>1 DEF Missing
    <3>3. FilledClusterSet(c)[13] = c.clusterSet  BY <3>2, NothingMissing
    <3>4. Fill(c) = [c EXCEPT !.clusterSet = FilledClusterSet(c)[13]]
      BY <2>4, <2>6, BuiltinTypes DEF Fill, FillClustersInfo, Builtins
    <3>5. [c EXCEPT !.clusterSet = c.clusterSet] = c  BY <2>2 DEF IsSpec
    <3> QED  BY <3>3, <3>4, <3>5
  <2> QED  BY <2>5, <2>6
<1> QED  BY <1>1, FillInvHolds, PTL
=============================================================================
