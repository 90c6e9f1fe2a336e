---------------------------- MODULE MCNineInfra -----------------------------
(* Instances of NineInfra for TLC.                                         *)
EXTENDS NineInfra

MCOneKey       == {"lake"}
MCOneNamespace == [k \in MCOneKey |-> "dev"]

(* config/samples/nine_v1alpha1_ninecluster.yaml: everything by default.   *)
Sample == [type |-> "", features |-> <<>>, clusterSet |-> <<>>]

(* Every optional part: HDFS, a highly available Kyuubi, Doris.            *)
FullFeatures == [f \in {"storage", "kyuubi-ha", "olap"} |->
                   CASE f = "storage" -> "hdfs" [] f = "kyuubi-ha" -> "true" [] f = "olap" -> "doris"]
Full == [type |-> "batch", features |-> FullFeatures, clusterSet |-> <<>>]

(* Custom entries.                                                         *)
WithEntries(set) == [Sample EXCEPT !.clusterSet = set]
Mysql      == WithEntries(<<[DatabaseInfo EXCEPT !.subType = "mysql"]>>)
Replicated == WithEntries(<<[MetastoreInfo EXCEPT !.replicas = 3]>>)
DorisBare  == WithEntries(<<ClusterInfo("doris", "v2.0.2")>>)
Stream     == [Sample EXCEPT !.type = "stream"]
Unknown    == [Sample EXCEPT !.type = "lakehouse"]
OnHdfs     == [Sample EXCEPT !.features = [f \in {"storage"} |-> "hdfs"]]

MCSample == [k \in MCOneKey |-> {Sample}]
MCFull   == [k \in MCOneKey |-> {Full}]
MCEdited == [k \in MCOneKey |-> {Sample, OnHdfs, DorisBare, Mysql, Stream, Unknown}]

(* Two NineClusters of one namespace.                                      *)
MCTwoKeys      == {"lake", "pond"}
MCTwoNamespace == [k \in MCTwoKeys |-> "dev"]
MCTwo          == [k \in MCTwoKeys |-> IF k = "lake" THEN {Sample} ELSE {Replicated}]

(* Calls fail in the first life of the controller only: what follows a     *)
(* failure later on is of no interest to EventuallyProvisioned.            *)
FailsBeforeRestart == used'.fails > used.fails => used.crashes = 0
=============================================================================
