---------------------------- MODULE MCDefaulting ----------------------------
(* An instance of Defaulting for TLC.                                      *)
EXTENDS Defaulting

MCUserTypes == {"batch", "stream", "lakehouse"}

(* A supported, an unsupported or misspelt, and where it matters a default *)
(* value of each feature.                                                  *)
MCUserFeatures ==
  [f \in {"storage", "kyuubi-ha", "olap"} |->
     CASE f = "storage"   -> {"minio", "hdfs", "s3"}
       [] f = "kyuubi-ha" -> {"true", "yes"}
       [] f = "olap"      -> {"doris", "clickhouse"}]

MCUserEntries ==
  { [KyuubiInfo EXCEPT !.auth.authType = "simple"],
    [MetastoreInfo EXCEPT !.replicas = 3],
    [DatabaseInfo EXCEPT !.subType = "mysql"],
    [ClusterInfo("hdfs", "v3.3.6") EXCEPT !.clusterRefs = <<"namenode">>],
    [ClusterInfo("namenode", "v3.3.6") EXCEPT !.replicas = 2],
    ClusterInfo("zookeeper", "v3.8.3"),
    ClusterInfo("doris", "v2.0.2"),
    ClusterInfo("flink", "v1.18.0") }
=============================================================================
