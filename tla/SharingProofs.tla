--------------------------- MODULE SharingProofs ----------------------------
(***************************************************************************)
(* Which maps the goroutines of the controller may use at once, however    *)
(* many Reconciles and workers there are and whatever maps a user has      *)
(* given.                                                                  *)
(***************************************************************************)
EXTENDS Sharing, TLAPS

(* Reconciles are not named as the other owners of maps are.               *)
WorkersOfReconciles ==
  /\ Workers \subseteq Reconciles \X {"hdfs", "zookeeper", "kyuubi", "metastore", "minio"}
  /\ Reconciles \cap {"cache", "builtin", "scheme"} = {}

(* A pointer to field f of the entry of type t in the copy of Reconcile r: *)
(* nil, its own, or what a built-in entry brought along.                   *)
Pointers(r, t, f) == {NoMap, <<r, t, f>>, <<"builtin", t, f>>}

(* c is a filled copy of Reconcile r.  The only map of it that workers     *)
(* write is there only if the user gave it, and then it is the copy's own. *)
CopyOf(r, c) ==
  /\ EntryTypes \subseteq DOMAIN c
  /\ \A t \in EntryTypes : /\ c[t].configs.conf \in Pointers(r, t, "conf")
                           /\ c[t].configs.k8sConf \in Pointers(r, t, "k8sConf")
  /\ c["zookeeper"].configs.conf # NoMap =>
       ZookeeperConfGiven /\ c["zookeeper"].configs.conf = <<r, "zookeeper", "conf">>

(* What the cache has are entries of its own, with the maps that were given. *)
InCache == \E given : nine = [t \in {g[1] : g \in given} |-> Entry("cache", t, given)]

(* The inductive invariant: what Reconcile's copies point to, and that     *)
(* every worker is at one of the accesses those pointers give it.          *)
IInv ==
  /\ InCache /\ zkUp \in BOOLEAN
  /\ DOMAIN copy = Reconciles /\ DOMAIN place = Workers
  /\ \A r \in Reconciles : copy[r] # <<>> => CopyOf(r, copy[r])
  /\ \A w \in Workers : place[w] \in 0 .. Len(Accesses(w)) + 1

-----------------------------------------------------------------------------
(* The types in the filled copy of a NineCluster on HDFS.                  *)
LEMMA HdfsEntryTypes ==
  {"kyuubi", "metastore", "spark", "hdfs", "namenode", "datanode", "journalnode", "zookeeper"}
    \subseteq EntryTypes
<1>1. "kyuubi" \in Types(NineDatahouseClusterset) /\ "metastore" \in Types(NineDatahouseClusterset)
  <2>1. NineDatahouseClusterset = <<KyuubiInfo, MetastoreInfo, DatabaseInfo>>
    BY DEF NineDatahouseClusterset
  <2>2. KyuubiInfo.type = "kyuubi" /\ MetastoreInfo.type = "metastore"
    BY DEF KyuubiInfo, MetastoreInfo, ClusterInfo, NoAuth
  <2> QED  BY <2>1, <2>2 DEF Types
<1>2. GetClusterStorage(Spec0) = "hdfs"
  BY DEF Spec0, GetClusterStorage, NineInfraSupportedStorageList
<1>3. Spec0.type = "batch"  BY DEF Spec0
<1> QED  BY <1>1, <1>2, <1>3 DEF EntryTypes, weNeedClusterTypes

(* A deep copy gives a map that is there to the Reconcile; a built-in      *)
(* entry is appended with its own, and the zookeeper entry has none.       *)
LEMMA FilledMaps ==
  ASSUME InCache, NEW r \in Reconciles
  PROVE  CopyOf(r, FillClustersInfoMaps(NineClusterSpecDeepCopyInto(nine, r)))
<1> DEFINE in == NineClusterSpecDeepCopyInto(nine, r)
           c == FillClustersInfoMaps(in)
<1>1. PICK given : nine = [t \in {g[1] : g \in given} |-> Entry("cache", t, given)]
  BY DEF InCache
<1>2. ASSUME NEW t \in EntryTypes
      PROVE  /\ c[t].configs.conf \in Pointers(r, t, "conf")
             /\ c[t].configs.k8sConf \in Pointers(r, t, "k8sConf")
             /\ t = "zookeeper" /\ c[t].configs.conf # NoMap =>
                  ZookeeperConfGiven /\ c[t].configs.conf = <<r, "zookeeper", "conf">>
  <2>1. CASE t \in DOMAIN nine
    <3> DEFINE e == Entry("cache", t, given)
               Ptr(f) == IF <<t, f>> \in given THEN <<"cache", t, f>> ELSE NoMap
    <3>1. nine[t] = e  BY <1>1, <2>1
    <3>2. in[t] = ClusterInfoDeepCopyInto(e, r) /\ t \in DOMAIN in
      BY <2>1, <3>1 DEF NineClusterSpecDeepCopyInto
    <3>3. e.configs = [conf |-> Ptr("conf"), k8sConf |-> Ptr("k8sConf")]  BY DEF Entry
    <3>4. ClusterInfoDeepCopyInto(e, r).configs = ClusterConfigDeepCopyInto(e.configs, r)
      BY DEF ClusterInfoDeepCopyInto, Entry
    <3>5. /\ ClusterConfigDeepCopyInto(e.configs, r).conf = Fresh(r, Ptr("conf"))
          /\ ClusterConfigDeepCopyInto(e.configs, r).k8sConf = Fresh(r, Ptr("k8sConf"))
      BY <3>3 DEF ClusterConfigDeepCopyInto
    <3>6. c[t] = in[t]  BY <3>2 DEF FillClustersInfoMaps
    <3>7. \A f : Fresh(r, Ptr(f)) = NoMap \/ Fresh(r, Ptr(f)) = <<r, t, f>>
      BY DEF Fresh
    <3>8. Fresh(r, NoMap) = NoMap  BY DEF Fresh
    <3>9. nine[t].configs.conf = NoMap => Fresh(r, Ptr("conf")) = NoMap
      BY <3>1, <3>3, <3>8
    <3> HIDE DEF e, Ptr, c, in
    <3>10. c[t].configs.conf = Fresh(r, Ptr("conf")) /\ c[t].configs.k8sConf = Fresh(r, Ptr("k8sConf"))
      BY <3>2, <3>4, <3>5, <3>6
    <3> QED  BY <2>1, <3>7, <3>9, <3>10 DEF Pointers, ZookeeperConfGiven
  <2>2. CASE t \notin DOMAIN nine
    <3>1. t \notin DOMAIN in  BY <2>2 DEF NineClusterSpecDeepCopyInto
    <3>2. c[t] = Builtin(t)  BY <3>1 DEF FillClustersInfoMaps
    <3>3. \A f : (IF <<t, f>> \in NineDatahouseFullMaps THEN <<"builtin", t, f>> ELSE NoMap) \in Pointers(r, t, f)
      BY DEF Pointers
    <3>4. <<"zookeeper", "conf">> \notin NineDatahouseFullMaps  BY DEF NineDatahouseFullMaps
    <3> HIDE DEF c, in
    <3>5. c[t].configs =
            [conf |-> IF <<t, "conf">> \in NineDatahouseFullMaps THEN <<"builtin", t, "conf">> ELSE NoMap,
             k8sConf |-> IF <<t, "k8sConf">> \in NineDatahouseFullMaps THEN <<"builtin", t, "k8sConf">> ELSE NoMap]
      BY <3>2 DEF Builtin, Entry
    <3>6. c[t].configs.conf \in Pointers(r, t, "conf") /\ c[t].configs.k8sConf \in Pointers(r, t, "k8sConf")
      BY <3>3, <3>5
    <3>7. t = "zookeeper" => c[t].configs.conf = NoMap  BY <3>4, <3>5
    <3> QED  BY <3>6, <3>7
  <2> QED  BY <2>1, <2>2
<1> HIDE DEF c, in
<1>3. "zookeeper" \in EntryTypes  BY HdfsEntryTypes
<1>4. EntryTypes \subseteq DOMAIN c  BY DEF c, FillClustersInfoMaps
<1>5. CopyOf(r, c)  BY <1>2, <1>3, <1>4 DEF CopyOf
<1> QED  BY <1>5 DEF c, in

-----------------------------------------------------------------------------
(* What a worker may do in one access: read maps of its Reconcile's copy,  *)
(* use a Scheme its type registers in, or write the Conf the user gave the *)
(* zookeeper entry, as copied.                                             *)
Uses(w, a) ==
  /\ a.op \in {"read", "write", "wait", "none"}
  /\ \A m \in a.maps :
       \/ w[2] \in Registrars(m)
       \/ a.op = "read" /\ m[1] \in {w[1], "builtin"} /\ m[3] \in {"conf", "k8sConf"}
       \/ m = <<w[1], "zookeeper", "conf">> /\ ZookeeperConfGiven

(* Reads of pointers from the copy are such accesses.                      *)
LEMMA ReadsUse ==
  ASSUME NEW w, NEW S,
         \A p \in S : \E t : p \in Pointers(w[1], t, "conf") \cup Pointers(w[1], t, "k8sConf")
  PROVE  Uses(w, Reads(S))
<1>1. \A p \in S \ {NoMap} : p[1] \in {w[1], "builtin"} /\ p[3] \in {"conf", "k8sConf"}
  BY DEF Pointers
<1> QED  BY <1>1 DEF Uses, Reads

(* So is the use of a Scheme its type registers in.                        *)
LEMMA SchemesUse ==
  ASSUME NEW w, NEW package, w[2] \in Registrars(Scheme(package))
  PROVE  Uses(w, Register(package)) /\ Uses(w, Call(package))
BY DEF Uses, Register, Call, Reads, Writes

(* Only Schemes have such types.                                           *)
LEMMA RegistrarsOfSchemes == ASSUME NEW m, Registrars(m) # {} PROVE m[1] = "scheme" /\ m[3] = "types"
BY DEF Registrars, Scheme

(* Every access of every worker is one, whichever maps the copy has.       *)
LEMMA AccessesUse ==
  ASSUME WorkersOfReconciles, NEW w \in Workers, copy[w[1]] = <<>> \/ CopyOf(w[1], copy[w[1]])
  PROVE  /\ Len(Accesses(w)) \in Nat
         /\ \A k \in 1 .. Len(Accesses(w)) : Uses(w, Accesses(w)[k])
<1> DEFINE r == w[1]
<1>1. w[2] \in {"hdfs", "zookeeper", "kyuubi", "metastore", "minio"}  BY DEF WorkersOfReconciles
<1>2. CASE w[2] \notin DOMAIN copy[r]  BY <1>2 DEF Accesses
<1>3. CASE w[2] \in DOMAIN copy[r]
  <2> DEFINE mo == "metastore-operator"
  <2>1. CopyOf(r, copy[r])
    <3>1. DOMAIN <<>> = {}  OBVIOUS
    <3> QED  BY <1>3, <3>1
  <2>2. \A t \in EntryTypes : Conf(r, t) \in Pointers(r, t, "conf") /\ K8sConf(r, t) \in Pointers(r, t, "k8sConf")
    BY <2>1 DEF CopyOf, Conf, K8sConf
  <2>3. \A t \in EntryTypes : Uses(w, Reads({Conf(r, t)}))
    BY <2>2, ReadsUse
  <2>4. /\ w[2] \in {"hdfs", "zookeeper", "metastore"} => Uses(w, Register(mo)) /\ Uses(w, Call(mo))
        /\ w[2] \in {"minio", "hdfs"} => Uses(w, Register("directpv")) /\ Uses(w, Call("directpv"))
        /\ w[2] \in {"minio", "kyuubi"} => Uses(w, Register(w[2])) /\ Uses(w, Call(w[2]))
    <3>1. /\ w[2] \in {"hdfs", "zookeeper", "metastore"} => w[2] \in Registrars(Scheme(mo))
          /\ w[2] \in {"minio", "hdfs"} => w[2] \in Registrars(Scheme("directpv"))
          /\ w[2] \in {"minio", "kyuubi"} => w[2] \in Registrars(Scheme(w[2]))
      BY DEF Registrars
    <3> QED  BY <3>1, SchemesUse
  <2>5. CASE w[2] = "hdfs"
    <3> DEFINE a1 == Reads({Conf(r, "hdfs")})
               a2 == Register("directpv")
               a3 == Call("directpv")
               a4 == AwaitZookeeper
               a5 == Writes({Conf(r, "zookeeper")})
               a6 == Register(mo)
               a7 == Reads({Conf(r, t) : t \in Parts})
    <3>1. Accesses(w) = <<a1, a6>> \/ Accesses(w) = <<a1, a2, a3, a4, a5, a6, a7>>
      BY <1>3, <2>5 DEF Accesses, constructHdfsCluster
    <3>2. Uses(w, a1) /\ Uses(w, a2) /\ Uses(w, a3) /\ Uses(w, a6)  BY <2>3, <2>4, <2>5, HdfsEntryTypes
    <3>3. Uses(w, a4)  BY DEF Uses, AwaitZookeeper
    <3>4. Uses(w, a5)
      <4>1. Conf(r, "zookeeper") # NoMap => ZookeeperConfGiven /\ Conf(r, "zookeeper") = <<r, "zookeeper", "conf">>
        BY <2>1 DEF CopyOf, Conf
      <4> QED  BY <4>1 DEF Uses, Writes
    <3>5. Uses(w, a7)
      <4>1. \A t \in Parts : t \in EntryTypes  BY HdfsEntryTypes DEF Parts
      <4> QED  BY <4>1, <2>2, ReadsUse
    <3> HIDE DEF a1, a2, a3, a4, a5, a6, a7
    <3>6. CASE Accesses(w) = <<a1, a6>>
      <4>1. Len(Accesses(w)) = 2 /\ Accesses(w)[1] = a1 /\ Accesses(w)[2] = a6  BY <3>6
      <4> QED  BY <4>1, <3>2
    <3>7. CASE Accesses(w) = <<a1, a2, a3, a4, a5, a6, a7>>
      <4>1. /\ Len(Accesses(w)) = 7 /\ Accesses(w)[1] = a1 /\ Accesses(w)[2] = a2 /\ Accesses(w)[3] = a3
            /\ Accesses(w)[4] = a4 /\ Accesses(w)[5] = a5 /\ Accesses(w)[6] = a6 /\ Accesses(w)[7] = a7
        BY <3>7
      <4> QED  BY <4>1, <3>2, <3>3, <3>4, <3>5
    <3> QED  BY <3>1, <3>6, <3>7
  <2>6. CASE w[2] = "zookeeper"
    <3> DEFINE a1 == Reads({Conf(r, "zookeeper")})
               a2 == Register(mo)
    <3>1. Accesses(w) = <<a1, a2>>  BY <1>3, <2>6 DEF Accesses, constructZookeeperCluster
    <3>2. Uses(w, a1) /\ Uses(w, a2)  BY <2>3, <2>4, <2>6, HdfsEntryTypes
    <3> HIDE DEF a1, a2
    <3>3. Len(Accesses(w)) = 2 /\ Accesses(w)[1] = a1 /\ Accesses(w)[2] = a2  BY <3>1
    <3> QED  BY <3>2, <3>3
  <2>7. ASSUME NEW a1, NEW a2, NEW a3, NEW a4, Accesses(w) = <<a1, a2, a3, a4>>,
               Uses(w, a1) /\ Uses(w, a2) /\ Uses(w, a3) /\ Uses(w, a4)
        PROVE  Len(Accesses(w)) \in Nat /\ \A k \in 1 .. Len(Accesses(w)) : Uses(w, Accesses(w)[k])
    <3>1. /\ Len(Accesses(w)) = 4 /\ Accesses(w)[1] = a1 /\ Accesses(w)[2] = a2
          /\ Accesses(w)[3] = a3 /\ Accesses(w)[4] = a4
      BY <2>7
    <3> QED  BY <3>1, <2>7
  <2>8. CASE w[2] = "kyuubi"
    <3> DEFINE a1 == Reads({Conf(r, "kyuubi"), Conf(r, "spark")})
               a2 == Reads({K8sConf(r, "metastore"), K8sConf(r, "hdfs"), Conf(r, "hdfs")})
    <3>1. Accesses(w) = <<a1, a2, Register("kyuubi"), Call("kyuubi")>>
      BY <1>3, <2>8 DEF Accesses, constructKyuubiCluster
    <3>2. Uses(w, a1)  BY <2>2, ReadsUse, HdfsEntryTypes
    <3>3. Uses(w, a2)  BY <2>2, ReadsUse, HdfsEntryTypes
    <3> HIDE DEF a1, a2
    <3> QED  BY <3>1, <3>2, <3>3, <2>4, <2>7, <2>8
  <2>9. CASE w[2] = "metastore"
    <3> DEFINE a1 == Reads({Conf(r, "metastore")})
               a2 == Reads({K8sConf(r, "hdfs"), Conf(r, "hdfs")})
    <3>1. Accesses(w) = <<a1, a2, Register(mo), Call(mo)>>
      BY <1>3, <2>9 DEF Accesses, constructMetastoreCluster
    <3>2. Uses(w, a1)  BY <2>3, HdfsEntryTypes
    <3>3. Uses(w, a2)  BY <2>2, ReadsUse, HdfsEntryTypes
    <3> HIDE DEF a1, a2
    <3> QED  BY <3>1, <3>2, <3>3, <2>4, <2>7, <2>9
  <2>10. CASE w[2] = "minio"
    <3>1. Accesses(w) = <<Register("directpv"), Call("directpv"), Register("minio"), Call("minio")>>
      BY <1>3, <2>10 DEF Accesses, constructMinioTenant
    <3> QED  BY <3>1, <2>4, <2>7, <2>10
  <2> QED  BY <1>1, <2>5, <2>6, <2>8, <2>9, <2>10
<1> QED  BY <1>2, <1>3

(* What a worker is in the middle of is one of those, or nothing.          *)
LEMMA WorkerUses ==
  ASSUME WorkersOfReconciles, IInv, NEW w \in Workers
  PROVE  Uses(w, Using(w))
<1>1. w[1] \in Reconciles  BY DEF WorkersOfReconciles
<1>2. \A k \in 1 .. Len(Accesses(w)) : Uses(w, Accesses(w)[k])
  BY <1>1, AccessesUse DEF IInv
<1>3. Uses(w, Idle)  BY DEF Uses, Idle
<1> QED  BY <1>2, <1>3 DEF Using

-----------------------------------------------------------------------------
(* The steps.                                                              *)
LEMMA InitIInv == ASSUME WorkersOfReconciles, Init PROVE IInv
<1>1. InCache /\ zkUp \in BOOLEAN  BY DEF Init, InCache
<1>2. ASSUME NEW w \in Workers  PROVE place[w] \in 0 .. Len(Accesses(w)) + 1
  <2>1. w[1] \in Reconciles  BY DEF WorkersOfReconciles
  <2>2. DOMAIN <<>> = {} /\ Len(<<>>) = 0  OBVIOUS
  <2>3. Accesses(w) = <<>>  BY <2>1, <2>2 DEF Init, Accesses
  <2> QED  BY <2>2, <2>3 DEF Init
<1>3. \A r \in Reconciles : copy[r] = <<>>  BY DEF Init
<1> QED  BY <1>1, <1>2, <1>3 DEF Init, IInv

(* A worker's accesses change only with its Reconcile's copy.              *)
LEMMA SameAccesses ==
  ASSUME NEW w \in Workers, copy'[w[1]] = copy[w[1]]
  PROVE  Accesses(w)' = Accesses(w)
BY DEF Accesses, constructHdfsCluster, constructZookeeperCluster, constructKyuubiCluster,
       constructMetastoreCluster, constructMinioTenant, Conf, K8sConf

(* Before its Reconcile has the copy a worker has no access to be at.      *)
LEMMA ReconcileIInv ==
  ASSUME WorkersOfReconciles, IInv, NEW r \in Reconciles, Reconcile(r)
  PROVE  IInv'
<1> DEFINE c == FillClustersInfoMaps(NineClusterSpecDeepCopyInto(nine, r))
<1>1. /\ copy[r] = <<>> /\ copy' = [copy EXCEPT ![r] = c]
      /\ UNCHANGED <<nine, zkUp, place>>
  BY DEF Reconcile
<1>2. CopyOf(r, c)  BY FilledMaps DEF IInv
<1> HIDE DEF c
<1>3. copy'[r] = c /\ \A q \in Reconciles \ {r} : copy'[q] = copy[q]  BY <1>1 DEF IInv
<1>4. (\A q \in Reconciles : copy[q] # <<>> => CopyOf(q, copy[q]))'
  BY <1>1, <1>2, <1>3 DEF IInv, CopyOf, ZookeeperConfGiven
<1>5. ASSUME NEW w \in Workers
      PROVE  place'[w] \in 0 .. Len(Accesses(w)') + 1
  <2>1. w[1] \in Reconciles  BY DEF WorkersOfReconciles
  <2>2. place'[w] = place[w] /\ place[w] \in 0 .. Len(Accesses(w)) + 1  BY <1>1 DEF IInv
  <2>3. CASE w[1] = r
    <3>1. DOMAIN <<>> = {} /\ Len(<<>>) = 0  OBVIOUS
    <3>2. Accesses(w) = <<>>  BY <1>1, <2>3, <3>1 DEF Accesses
    <3>3. place[w] \in {0, 1}  BY <3>1, <3>2, <2>2
    <3>4. (Len(Accesses(w)) \in Nat)'
      <4>1. CopyOf(w[1], copy[w[1]])'  BY <1>2, <1>3, <1>1, <2>3 DEF CopyOf, ZookeeperConfGiven
      <4>2. (copy[w[1]] = <<>> \/ CopyOf(w[1], copy[w[1]]))'  BY <4>1
      <4> QED  BY <4>2, AccessesUse, PTL
    <3> QED  BY <2>2, <3>3, <3>4
  <2>4. CASE w[1] # r
    <3>1. Accesses(w)' = Accesses(w)  BY <1>3, <2>1, <2>4, SameAccesses
    <3> QED  BY <2>2, <3>1
  <2> QED  BY <2>3, <2>4
<1> QED  BY <1>1, <1>4, <1>5 DEF IInv, InCache

(* A worker that has not ended goes to its next access.                    *)
LEMMA AdvanceIInv == ASSUME WorkersOfReconciles, IInv, NEW v \in Workers, Advance(v) PROVE IInv'
<1>1. /\ place' = [place EXCEPT ![v] = @ + 1] /\ UNCHANGED <<nine, copy, zkUp>>
      /\ ~ place[v] > Len(Accesses(v))
  BY DEF Advance, Ended
<1>2. \A w \in Workers : Accesses(w)' = Accesses(w)  BY <1>1, SameAccesses
<1>3. v[1] \in Reconciles  BY DEF WorkersOfReconciles
<1>4. Len(Accesses(v)) \in Nat  BY <1>3, AccessesUse DEF IInv
<1>5. place[v] + 1 \in 0 .. Len(Accesses(v)) + 1  BY <1>1, <1>4 DEF IInv
<1>6. \A w \in Workers : place'[w] \in 0 .. Len(Accesses(w)') + 1
  BY <1>1, <1>2, <1>5 DEF IInv
<1> QED  BY <1>1, <1>6 DEF IInv, InCache, CopyOf, ZookeeperConfGiven

(* ZooKeeper coming up changes no map.                                     *)
LEMMA StillIInv == ASSUME IInv, UNCHANGED <<nine, copy, place>>, zkUp' \in BOOLEAN PROVE IInv'
<1>1. \A w \in Workers : Accesses(w)' = Accesses(w)  BY SameAccesses
<1>2. \A w \in Workers : place'[w] \in 0 .. Len(Accesses(w)') + 1  BY <1>1 DEF IInv
<1> QED  BY <1>2 DEF IInv, InCache, CopyOf, ZookeeperConfGiven

(* No step breaks the invariant.                                           *)
LEMMA NextIInv == ASSUME WorkersOfReconciles, IInv, [Next]_vars PROVE IInv'
<1>1. CASE UNCHANGED vars \/ ZookeeperUp
  <2>1. UNCHANGED <<nine, copy, place>> /\ zkUp' \in BOOLEAN
    BY <1>1 DEF vars, ZookeeperUp, IInv
  <2> QED  BY <2>1, StillIInv
<1> QED  BY <1>1, ReconcileIInv, AdvanceIInv DEF Next

-----------------------------------------------------------------------------
(* What follows from the invariant.  A worker uses only maps of its own    *)
(* Reconcile's copy, of the built-in entries and of the Schemes;           *)
LEMMA TypesOfUses == ASSUME WorkersOfReconciles, IInv PROVE TypeOK
<1> SUFFICES ASSUME NEW w \in Workers
             PROVE  /\ Using(w).op \in {"read", "write", "wait", "none"}
                    /\ \A m \in Using(w).maps : m[1] \in {w[1], "builtin", "scheme"} /\ m[3] \in Fields \cup {"types"}
  BY DEF TypeOK, IInv
<1>1. Uses(w, Using(w))  BY WorkerUses
<1> QED  BY <1>1, RegistrarsOfSchemes DEF Uses, Fields

(* what it writes is neither in the cache nor in a built-in entry;         *)
LEMMA WritesOfUses == ASSUME WorkersOfReconciles, IInv PROVE SharedMapsUnwritten
<1> SUFFICES ASSUME NEW w \in Workers, Using(w).op = "write", NEW m \in Using(w).maps
             PROVE  m[1] \notin {"cache", "builtin"}
  BY DEF SharedMapsUnwritten
<1>1. Uses(w, Using(w))  BY WorkerUses
<1>2. w[1] \in Reconciles  BY DEF WorkersOfReconciles
<1> QED  BY <1>1, <1>2, RegistrarsOfSchemes DEF Uses, WorkersOfReconciles

(* and nobody else uses it: only workers of a copy's Reconcile have its    *)
(* maps, and only those that register in a Scheme encode with it.          *)
LEMMA RacesOfUses == ASSUME WorkersOfReconciles, IInv PROVE NoMapRace
<1> SUFFICES ASSUME NEW v \in Workers, NEW w \in Workers, NEW m \in Using(v).maps \cap Using(w).maps,
                    Using(v).op = "write"
             PROVE  \/ {v[2], w[2]} \subseteq Registrars(m)
                    \/ ZookeeperConfGiven /\ v[1] = w[1] /\ m = <<v[1], "zookeeper", "conf">>
  BY DEF NoMapRace
<1>1. Uses(v, Using(v)) /\ Uses(w, Using(w))  BY WorkerUses
<1>2. {v[1], w[1]} \subseteq Reconciles  BY DEF WorkersOfReconciles
<1>3. CASE v[2] \in Registrars(m)
  <2>1. m[1] = "scheme"  BY <1>3, RegistrarsOfSchemes
  <2>2. w[2] \in Registrars(m)  BY <2>1, <1>1, <1>2 DEF Uses, WorkersOfReconciles
  <2> QED  BY <1>3, <2>2
<1>4. CASE m = <<v[1], "zookeeper", "conf">> /\ ZookeeperConfGiven
  <2>1. m[1] = v[1] /\ m[1] \notin {"builtin", "scheme"}  BY <1>2, <1>4 DEF WorkersOfReconciles
  <2>2. Registrars(m) = {}  BY <2>1, RegistrarsOfSchemes
  <2>3. m[1] = w[1]  BY <2>1, <2>2, <1>1 DEF Uses
  <2> QED  BY <1>4, <2>1, <2>3
<1> QED  BY <1>1, <1>3, <1>4 DEF Uses

-----------------------------------------------------------------------------
(* The invariant holds of every behaviour.                                 *)
LEMMA IInvHolds == ASSUME WorkersOfReconciles PROVE Spec => []IInv
<1> QED  BY InitIInv, NextIInv, PTL DEF Spec

(* Workers use only maps of their own Reconcile's copy, of the built-in    *)
(* entries and of the Schemes.                                             *)
THEOREM SharingTypeOK == ASSUME WorkersOfReconciles PROVE Spec => []TypeOK
  BY TypesOfUses, IInvHolds, PTL

(* What hdfs adds to the Conf of the zookeeper entry stays within the copy *)
(* of its Reconcile: the deep copy gives every Reconcile maps of its own,  *)
(* and the built-in entry that is appended by assignment has no Conf.      *)
THEOREM SharingMapsUnwritten == ASSUME WorkersOfReconciles PROVE Spec => []SharedMapsUnwritten
  BY WritesOfUses, IInvHolds, PTL

(* No worker uses a map another one writes, but for the Conf a user gave   *)
(* the zookeeper entry, within one Reconcile, and a Scheme that both       *)
(* workers register types in: workers that only encode with a Scheme, or   *)
(* only read entries, never meet a write.                                  *)
THEOREM SharingNoMapRace == ASSUME WorkersOfReconciles PROVE Spec => []NoMapRace
  BY RacesOfUses, IInvHolds, PTL
=============================================================================
