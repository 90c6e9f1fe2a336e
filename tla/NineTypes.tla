----------------------------- MODULE NineTypes ------------------------------
(***************************************************************************)
(* The NineCluster API (api/v1alpha1) and the pure functions the           *)
(* controller applies to it: the built-in entries, the defaulting a        *)
(* Reconcile does before it starts its workers, and the decisions workers  *)
(* take from the filled spec.                                              *)
(*                                                                         *)
(* A spec is a record [type, features, clusterSet].  features is a         *)
(* function whose domain holds the keys present in the map.  An entry      *)
(* (ClusterInfo) keeps the fields control depends on; images, conf maps    *)
(* and storage sizes are left out.                                         *)
(***************************************************************************)
EXTENDS Naturals, Sequences

NoAuth == [authType |-> "", userName |-> "", password |-> ""]

ClusterInfos ==
  [type : STRING, version : STRING, subType : STRING, replicas : Nat,
   auth : [authType : STRING, userName : STRING, password : STRING],
   clusterRefs : Seq(STRING)]

(* A ClusterInfo with only type and version given. *)
ClusterInfo(t, v) ==
  [type |-> t, version |-> v, subType |-> "", replicas |-> 0,
   auth |-> NoAuth, clusterRefs |-> <<>>]

-----------------------------------------------------------------------------
(* The built-in entries.                                                   *)
KyuubiInfo ==
  [ClusterInfo("kyuubi", "v1.8.0") EXCEPT !.replicas = 1, !.clusterRefs = <<"spark">>]
MetastoreInfo == ClusterInfo("metastore", "v3.1.3")
DatabaseInfo  == [ClusterInfo("database", "v16.0.0") EXCEPT !.subType = "postgres"]

NineDatahouseClusterset == <<KyuubiInfo, MetastoreInfo, DatabaseInfo>>

NineDatahouseFullClusterset ==
  << KyuubiInfo, MetastoreInfo, DatabaseInfo,
     ClusterInfo("minio", "RELEASE.2023-09-07T02-05-02Z"),
     ClusterInfo("spark", "v3.2.4"),
     [ClusterInfo("doris", "v2.0.2") EXCEPT
        !.auth.userName = "root", !.clusterRefs = <<"doris-fe", "doris-be">>],
     [ClusterInfo("doris-fe", "v2.0.2") EXCEPT !.replicas = 3],
     [ClusterInfo("doris-be", "v2.0.2") EXCEPT !.replicas = 3],
     ClusterInfo("zookeeper", "v3.8.3"),
     [ClusterInfo("hdfs", "v3.3.6") EXCEPT
        !.clusterRefs = <<"namenode", "datanode", "journalnode">>],
     [ClusterInfo("namenode", "v3.3.6") EXCEPT !.replicas = 2],
     ClusterInfo("datanode", "v3.3.6"),
     [ClusterInfo("journalnode", "v3.3.6") EXCEPT !.replicas = 3] >>

NineClusterTypeSupportedList  == {"stream", "batch"}
NineInfraSupportedOlapList    == {"doris"}
NineInfraSupportedStorageList == {"minio", "hdfs"}

-----------------------------------------------------------------------------
Types(set) == {set[i].type : i \in DOMAIN set}

(* The first entry of type t, for a set that lists one. *)
FirstOfType(set, t) ==
  set[CHOOSE i \in DOMAIN set :
        /\ set[i].type = t
        /\ \A j \in 1 .. i - 1 : set[j].type # t]

(* The olap engine asked for, "" for none or one that is not supported: the *)
(* error is dropped by the caller.                                          *)
GetOlapClusterType(spec) ==
  IF "olap" \in DOMAIN spec.features /\ spec.features["olap"] \in NineInfraSupportedOlapList
  THEN spec.features["olap"] ELSE ""

GetClusterStorage(spec) ==
  IF /\ "storage" \in DOMAIN spec.features
     /\ spec.features["storage"] \in NineInfraSupportedStorageList
  THEN spec.features["storage"] ELSE "minio"

(* strconv.ParseBool: what it takes for true.  Anything it cannot parse     *)
(* counts as false.                                                         *)
ParseBool == {"1", "t", "T", "TRUE", "true", "True"}
IsKyuubiNeedHA(spec) ==
  "kyuubi-ha" \in DOMAIN spec.features /\ spec.features["kyuubi-ha"] \in ParseBool

\* The check of the type left out.
CheckNineClusterTypeSupportedAny(spec) == TRUE

(* FillNineClusterType fails for a type that is neither empty nor supported. *)
CheckNineClusterTypeSupported(spec) ==
  spec.type = "" \/ spec.type \in NineClusterTypeSupportedList
FillNineClusterType(spec) ==
  IF spec.type = "" THEN [spec EXCEPT !.type = "batch"] ELSE spec

\* ZooKeeper is added for a highly available Kyuubi only.
weNeedClusterTypesNoZk(spec) ==
  Types(NineDatahouseClusterset)
  \cup (IF spec.type = "batch" THEN {"spark"} ELSE {})
  \cup (IF IsKyuubiNeedHA(spec) THEN {"zookeeper"} ELSE {})
  \cup (IF GetClusterStorage(spec) = "minio"
        THEN {"minio"} ELSE {"hdfs", "namenode", "journalnode", "datanode"})
  \cup (IF GetOlapClusterType(spec) = "doris"
        THEN {"doris", "doris-fe", "doris-be"} ELSE {})

\* Spark left to the user.
weNeedClusterTypesNoSpark(spec) == weNeedClusterTypesNoZk(spec) \ {"spark"}

weNeedClusterTypes(spec) ==
  Types(NineDatahouseClusterset)
  \cup (IF spec.type = "batch" THEN {"spark"} ELSE {})
  \cup (IF IsKyuubiNeedHA(spec) \/ GetClusterStorage(spec) = "hdfs"
        THEN {"zookeeper"} ELSE {})
  \cup (IF GetClusterStorage(spec) = "minio"
        THEN {"minio"} ELSE {"hdfs", "namenode", "journalnode", "datanode"})
  \cup (IF GetOlapClusterType(spec) = "doris"
        THEN {"doris", "doris-fe", "doris-be"} ELSE {})

\* Built-in entries appended without looking at the types the user listed.
FillClustersInfoBlind(spec) ==
  [spec EXCEPT !.clusterSet = @ \o
     SelectSeq(NineDatahouseFullClusterset,
               LAMBDA v : v.type \in weNeedClusterTypes(spec))]

(* The loop over the built-in entries: the ClusterSet after the first n of   *)
(* them, the user's entries and then those of a needed type the user did not *)
(* list.                                                                     *)
FilledClusterSet(spec) ==
  LET missing == weNeedClusterTypes(spec) \ Types(spec.clusterSet)
      set[n \in 0 .. Len(NineDatahouseFullClusterset)] ==
        IF n = 0 THEN spec.clusterSet
        ELSE IF NineDatahouseFullClusterset[n].type \in missing
             THEN Append(set[n - 1], NineDatahouseFullClusterset[n])
             ELSE set[n - 1]
  IN  set

FillClustersInfo(spec) ==
  [spec EXCEPT !.clusterSet =
     FilledClusterSet(spec)[Len(NineDatahouseFullClusterset)]]

(* What a Reconcile makes of a spec of a supported type.                    *)
Fill(spec) ==
  LET s == FillNineClusterType(spec)
  IN  IF s.type = "batch" THEN FillClustersInfo(s) ELSE s

-----------------------------------------------------------------------------
(* Decisions taken from a filled spec.                                      *)

(* A nil *ClusterInfo. *)
Nil == ClusterInfo("", "")

(* The first entry of the type, else the built-in one, else nil.            *)
GetDefaultRefClusterInfo(t) ==
  IF t \in Types(NineDatahouseClusterset)
  THEN FirstOfType(NineDatahouseClusterset, t) ELSE Nil
GetRefClusterInfo(spec, t) ==
  IF t \in Types(spec.clusterSet)
  THEN FirstOfType(spec.clusterSet, t) ELSE GetDefaultRefClusterInfo(t)

getKyuubiReplicas(spec, kyuubi) ==
  IF IsKyuubiNeedHA(spec) THEN 2
  ELSE IF kyuubi.replicas = 0 THEN 1 ELSE kyuubi.replicas

getAuthConfig(kyuubi) ==
  IF kyuubi.auth.authType = ""
  THEN [authType |-> "JDBC", userName |-> "kyuubi", password |-> "kyuubi"]
  ELSE kyuubi.auth

(* reconcileDatabaseCluster: the kind of database an entry asks for.        *)
DbType(database) == IF database.subType = "" THEN "postgres" ELSE database.subType

(* Whether the site files handed to HDFS clients name two namenodes.        *)
checkHdfsNameNodeHA(spec) ==
  \E i \in DOMAIN spec.clusterSet :
    spec.clusterSet[i].type = "namenode" /\ spec.clusterSet[i].replicas = 2

(* namenodeHA of constructHdfsCluster: looked at while walking the refs of  *)
(* the hdfs entry, so never for an entry without refs.                      *)
namenodeHA(spec, hdfs) == hdfs.clusterRefs # <<>> /\ checkHdfsNameNodeHA(spec)

(* getFEAndBEClusterInfo fails unless the entry refers to both and both are *)
(* in the set.                                                              *)
getFEAndBEClusterInfo(spec, doris) ==
  \A t \in {"doris-fe", "doris-be"} :
    t \in Types(spec.clusterSet) /\ \E i \in DOMAIN doris.clusterRefs : doris.clusterRefs[i] = t

\* The case of zookeeper left out.
WorkerTypesNoZk == {"kyuubi", "metastore", "minio", "database", "doris", "hdfs"}

(* The entry types reconcileRoutine has a case for.                         *)
WorkerTypes == {"kyuubi", "metastore", "minio", "database", "doris", "zookeeper", "hdfs"}

(* The entry types whose service the worker of entry c polls for, without   *)
(* end, before it creates its object.                                       *)
WaitsFor(spec, c) ==
  CASE c.type = "kyuubi" ->
         {"metastore"}
         \cup (IF getAuthConfig(c).authType = "JDBC" THEN {"database"} ELSE {})
         \cup (IF IsKyuubiNeedHA(spec) THEN {"zookeeper"} ELSE {})
         \cup (IF GetClusterStorage(spec) = "minio" THEN {"minio"} ELSE {})
    [] c.type = "metastore" -> {"database", GetClusterStorage(spec)}
    [] c.type = "hdfs"      -> IF namenodeHA(spec, c) THEN {"zookeeper"} ELSE {}
    [] OTHER                -> {}
=============================================================================
