------------------------------ MODULE Sharing -------------------------------
(***************************************************************************)
(* What the goroutines of the controller share in memory: the NineCluster  *)
(* in the manager's cache, the built-in entries, the copy a Reconcile      *)
(* takes, whose entries its workers receive by value but with the same     *)
(* maps in them, and the Schemes: a package has one, in which workers      *)
(* register types and from which its client encodes and decodes.  None of  *)
(* it has a lock; in Go a map that is written while another goroutine uses *)
(* it ends the process.                                                    *)
(*                                                                         *)
(* A map is an address <<owner, type, field>>: field "conf" of the entry   *)
(* of that type, as owned by the cache, the built-in entries, Reconcile r, *)
(* or one worker alone.  Contents do not matter.  Workers of Doris and the *)
(* database are left out: they write to no map of these, and register      *)
(* types in Schemes they make for the purpose.                             *)
(***************************************************************************)
EXTENDS NineTypes

CONSTANTS
  Reconciles,   \* the Reconciles that overlap
  Workers,      \* the workers looked at, <<Reconcile, entry type>>
  Given         \* the sets of <<type, field>> a user may have given

NoMap == <<>>
Fields == {"conf", "k8sConf", "requests", "refs"}

(* A NineCluster on HDFS, whose defaults give it two namenodes and leave   *)
(* the number of datanodes open, and the types it is given entries of      *)
(* beside those its user lists.                                            *)
Spec0 == [type |-> "batch", features |-> [f \in {"storage"} |-> "hdfs"], clusterSet |-> <<>>]
EntryTypes == weNeedClusterTypes(Spec0)

VARIABLES
  nine,     \* nine[t]: the user's entry of type t in the cache
  copy,     \* copy[r]: the entries of Reconcile r's copy after defaulting, by type
  zkUp,     \* ZooKeeper answers
  place     \* place[w]: the access worker w is in the middle of, 0 before the first

vars == <<nine, copy, zkUp, place>>

-----------------------------------------------------------------------------
(* Entries, and how they are copied.                                       *)

(* An entry of owner o with the maps that are given.                       *)
Entry(o, t, given) ==
  LET Ptr(f) == IF <<t, f>> \in given THEN <<o, t, f>> ELSE NoMap
  IN  [refs |-> Ptr("refs"), resource |-> [requests |-> Ptr("requests")],
       configs |-> [conf |-> Ptr("conf"), k8sConf |-> Ptr("k8sConf")]]

(* The maps and slices of the built-in entries.                            *)
NineDatahouseFullMaps ==
  {<<"kyuubi", "conf">>, <<"kyuubi", "refs">>, <<"hdfs", "refs">>,
   <<"doris", "refs">>, <<"doris-fe", "requests">>, <<"doris-be", "requests">>}
Builtin(t) == Entry("builtin", t, NineDatahouseFullMaps)

(* make and a loop over the keys, for one that is not nil.                 *)
Fresh(r, p) == IF p = NoMap THEN NoMap ELSE <<r, p[2], p[3]>>

ClusterConfigDeepCopyInto(in, r) ==
  [in EXCEPT !.conf = Fresh(r, @), !.k8sConf = Fresh(r, @)]

ResourceConfigDeepCopyInto(in, r) == [in EXCEPT !.requests = Fresh(r, @)]

ClusterInfoDeepCopyInto(in, r) ==
  [in EXCEPT !.resource = ResourceConfigDeepCopyInto(@, r),
             !.configs = ClusterConfigDeepCopyInto(@, r),
             !.refs = Fresh(r, @)]

(* The client copies the cached object into Reconcile's variable.          *)
NineClusterSpecDeepCopyInto(in, r) ==
  [t \in DOMAIN in |-> ClusterInfoDeepCopyInto(in[t], r)]

(* FillClustersInfo appends built-in entries by assignment, maps and all.  *)
FillClustersInfoMaps(set) ==
  [t \in EntryTypes \cup DOMAIN set |-> IF t \in DOMAIN set THEN set[t] ELSE Builtin(t)]

-----------------------------------------------------------------------------
(* What workers do with maps, in order.  An access is [op, maps].          *)
Reads(ps)  == [op |-> "read", maps |-> ps \ {NoMap}]
Writes(ps) == [op |-> "write", maps |-> ps \ {NoMap}]
Idle       == [op |-> "none", maps |-> {}]
AwaitZookeeper == [op |-> "wait", maps |-> {}]

Conf(r, t) == copy[r][t].configs.conf
K8sConf(r, t) == copy[r][t].configs.k8sConf

(* The one Scheme of a package, and how it is used: AddToGroupVersion and  *)
(* AddToScheme write to it, and the package's client reads it to encode    *)
(* what it sends and decode what it gets.                                  *)
Scheme(package) == <<"scheme", package, "types">>
Register(package) == Writes({Scheme(package)})
Call(package) == Reads({Scheme(package)})

Parts == {"namenode", "datanode", "journalnode", "zookeeper"}

\* The addresses are added to the configuration of HDFS itself, not to a copy.
constructHdfsClusterInPlace(r) ==
  << Reads({Conf(r, "hdfs")}), Register("directpv"), Call("directpv"), AwaitZookeeper,
     Writes({Conf(r, "hdfs")}), Register("metastore-operator"), Reads({Conf(r, t) : t \in Parts}) >>

(* constructHdfsCluster copies the entry's Conf.  An entry that refers to  *)
(* others counts the DirectPV nodes for the datanodes and waits for        *)
(* ZooKeeper, whose addresses are then written into the Conf of the        *)
(* zookeeper entry, or into a new map if that is nil.  The types are       *)
(* registered in the Scheme of the metastore operator's package, although  *)
(* the client is the HDFS operator's, whose own Scheme nothing writes.     *)
(* The Confs of the entries referred to are read when the object is sent.  *)
constructHdfsCluster(r) ==
  IF copy[r]["hdfs"].refs = NoMap
  THEN << Reads({Conf(r, "hdfs")}), Register("metastore-operator") >>
  ELSE << Reads({Conf(r, "hdfs")}), Register("directpv"), Call("directpv"), AwaitZookeeper,
          Writes({Conf(r, "zookeeper")}), Register("metastore-operator"),
          Reads({Conf(r, t) : t \in Parts}) >>

(* The ZooKeeper operator's client is used with that Scheme written too.   *)
constructZookeeperCluster(r) ==
  << Reads({Conf(r, "zookeeper")}), Register("metastore-operator") >>

(* constructKyuubiConf, constructSparkConf, constructCoreSite and          *)
(* constructHdfsSite.                                                      *)
constructKyuubiCluster(r) ==
  << Reads({Conf(r, "kyuubi"), Conf(r, "spark")}),
     Reads({K8sConf(r, "metastore"), K8sConf(r, "hdfs"), Conf(r, "hdfs")}),
     Register("kyuubi"), Call("kyuubi") >>

constructMetastoreCluster(r) ==
  << Reads({Conf(r, "metastore")}), Reads({K8sConf(r, "hdfs"), Conf(r, "hdfs")}),
     Register("metastore-operator"), Call("metastore-operator") >>

constructMinioTenant ==
  << Register("directpv"), Call("directpv"), Register("minio"), Call("minio") >>

(* None before the Reconcile has its copy, nor of a worker whose type the  *)
(* copy has no entry of.                                                   *)
Accesses(w) ==
  IF w[2] \notin DOMAIN copy[w[1]] THEN <<>>
  ELSE CASE w[2] = "hdfs"      -> constructHdfsCluster(w[1])
         [] w[2] = "zookeeper" -> constructZookeeperCluster(w[1])
         [] w[2] = "kyuubi"    -> constructKyuubiCluster(w[1])
         [] w[2] = "metastore" -> constructMetastoreCluster(w[1])
         [] w[2] = "minio"     -> constructMinioTenant

(* What a worker that has begun and not ended is in the middle of.         *)
Using(w) == IF place[w] \in 1 .. Len(Accesses(w)) THEN Accesses(w)[place[w]] ELSE Idle
Ended(w) == place[w] > Len(Accesses(w))

-----------------------------------------------------------------------------
Init ==
  /\ \E given \in Given : nine = [t \in {g[1] : g \in given} |-> Entry("cache", t, given)]
  /\ copy = [r \in Reconciles |-> <<>>]
  /\ zkUp \in BOOLEAN
  /\ place = [w \in Workers |-> 0]

Reconcile(r) ==
  /\ copy[r] = <<>>
  /\ copy' = [copy EXCEPT ![r] = FillClustersInfoMaps(NineClusterSpecDeepCopyInto(nine, r))]
  /\ UNCHANGED <<nine, zkUp, place>>

(* A worker goes on to its next access, or ends after the last.  Of the    *)
(* waits only that of hdfs is made, between two of its accesses: the       *)
(* others merely keep workers apart that may overlap here.                 *)
Advance(w) ==
  /\ Accesses(w) # <<>> /\ ~ Ended(w)
  /\ Using(w) = AwaitZookeeper => zkUp
  /\ place' = [place EXCEPT ![w] = @ + 1]
  /\ UNCHANGED <<nine, copy, zkUp>>

(* ZooKeeper comes up once a worker has asked for it.                      *)
ZookeeperUp ==
  /\ ~ zkUp
  /\ \E w \in Workers : w[2] = "zookeeper" /\ Accesses(w) # <<>> /\ Ended(w)
  /\ zkUp' = TRUE
  /\ UNCHANGED <<nine, copy, place>>

Next ==
  \/ \E r \in Reconciles : Reconcile(r)
  \/ \E w \in Workers : Advance(w)
  \/ ZookeeperUp

Spec == Init /\ [][Next]_vars

-----------------------------------------------------------------------------
(* The maps a user gave the zookeeper entry.                               *)
ZookeeperConfGiven == "zookeeper" \in DOMAIN nine /\ nine["zookeeper"].configs.conf # NoMap

(* The types whose workers register in a Scheme.                           *)
Registrars(m) ==
  {t \in {"hdfs", "zookeeper", "metastore"} : m = Scheme("metastore-operator")}
    \cup {t \in {"minio", "hdfs"} : m = Scheme("directpv")}
    \cup {t \in {"minio", "kyuubi"} : m = Scheme(t)}

\* Every variable has its type, and a worker uses no map but those its own
\* Reconcile copied, those of the built-in entries, and the Schemes.
TypeOK ==
  /\ \A w \in Workers :
       /\ place[w] \in 0 .. Len(Accesses(w)) + 1 /\ Using(w).op \in {"read", "write", "wait", "none"}
       /\ \A m \in Using(w).maps : m[1] \in {w[1], "builtin", "scheme"} /\ m[3] \in Fields \cup {"types"}
  /\ zkUp \in BOOLEAN

\* Workers write neither to what the cache holds nor to the built-in entries,
\* which all Reconciles of all NineClusters share: what hdfs adds to the Conf of
\* the zookeeper entry stays within the copy of one Reconcile.
SharedMapsUnwritten ==
  \A w \in Workers : Using(w).op = "write" => \A m \in Using(w).maps : m[1] \notin {"cache", "builtin"}

\* Workers never use a map while another one writes it, with two exceptions the code
\* leaves: within one Reconcile, the Conf a user gave the zookeeper entry; and, within
\* one Reconcile or between two, a Scheme that both workers register types in: the
\* metastore operator's of hdfs, zookeeper and metastore, DirectPV's of minio and hdfs,
\* and MinIO's and Kyuubi's of two workers of that type.
NoMapRace ==
  \A v \in Workers : Using(v).op = "write" =>
    \A w \in Workers \ {v} : \A m \in Using(v).maps \cap Using(w).maps :
      \/ {v[2], w[2]} \subseteq Registrars(m)
      \/ ZookeeperConfGiven /\ v[1] = w[1] /\ m = <<v[1], "zookeeper", "conf">>
=============================================================================
