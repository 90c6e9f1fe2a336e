------------------------------- MODULE Kyuubi -------------------------------
(***************************************************************************)
(* The worker of a "kyuubi" entry (kyuubi.go): set up the users' table in  *)
(* the database, wait for ZooKeeper (when highly available), for the       *)
(* metastore and for MinIO's keys, then create the KyuubiCluster.          *)
(***************************************************************************)
EXTENDS Metastore

JdbcAuth(w) == getAuthConfig(EntryOf(w)).authType = "JDBC"
AfterAuth(w) == IF IsKyuubiNeedHA(SpecOf(w)) THEN "kyuubiZk" ELSE "kyuubiMetastore"
KyuubiStart(w) == IF JdbcAuth(w) THEN "kyuubiDb" ELSE AfterAuth(w)

(* configJdbcAuth: each call waits for the database; a user, a database or *)
(* a row that exists is no error.                                          *)
configJdbcAuth(w) ==
  \/ WriteItem(w, "kyuubiDb", "pg", "sqlDatabase", "kyuubiTable")
  \/ WriteItem(w, "kyuubiTable", "pg", "usersTable", "kyuubiRow")
  \/ WriteItem(w, "kyuubiRow", "pg", "userRow", AfterAuth(w))

(* constructKyuubiConf, constructMetastoreConf, constructSparkConf: a      *)
(* worker runs for batch NineClusters only.                                *)
constructKyuubiCluster(w) ==
  \/ configJdbcAuth(w)
  \/ WaitFor(w, "kyuubiZk", getZookeeperExposedInfo(w), "kyuubiMetastore")
  \/ getMetastoreExposedInfo(w, "kyuubiMetastore",
       IF GetClusterStorage(SpecOf(w)) = "minio" THEN "kyuubiMinioSvc" ELSE "kyuubiGet")
  \/ getMinioExposedInfo(w, "kyuubiMinioSvc", "kyuubiMinioSecret", "kyuubiGet")

KyuubiBody(w) ==
  [Body(w) EXCEPT
     !.replicas = getKyuubiReplicas(SpecOf(w), EntryOf(w)),
     !.endpoint = local[w].endpoint, !.cred = local[w].cred,
     !.refs = {"metastore", "spark", GetClusterStorage(SpecOf(w))}
              \cup (IF JdbcAuth(w) THEN {"jdbc"} ELSE {})
              \cup (IF IsKyuubiNeedHA(SpecOf(w)) THEN {"zookeeper"} ELSE {})]

reconcileKyuubiCluster(w) ==
  \/ constructKyuubiCluster(w)
  \/ GetObject(w, "kyuubiGet", "kyuubi", "done", "kyuubiCreate")
  \/ CreateObject(w, "kyuubiCreate", "kyuubi", KyuubiBody(w), "done", "failed")

KyuubiErrors(w) ==
  \/ /\ CallFails(w, {"kyuubiDb", "kyuubiTable", "kyuubiRow"}, "failed")
     /\ getPGRWSvcNameWithSync(w)
  \/ CallFails(w, {"kyuubiGet", "kyuubiCreate"}, "failed")
  \/ getMinioExposedInfoErrors(w, "kyuubiMinioSvc", "kyuubiMinioSecret", "kyuubiGet")
  \/ CreateUnanswered(w, "kyuubiCreate", "kyuubi", KyuubiBody(w), "failed")
=============================================================================
