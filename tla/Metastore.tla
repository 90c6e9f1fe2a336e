----------------------------- MODULE Metastore ------------------------------
(***************************************************************************)
(* The worker of a "metastore" entry (metastore.go): note the replicas in  *)
(* the package variable, wait for the database, prepare the storage, then  *)
(* create the MetastoreCluster that refers to both.                        *)
(***************************************************************************)
EXTENDS Database, Minio, Hdfs

(* initMetastore: the variable keeps its value when the entry gives none.  *)
initMetastore(w) ==
  /\ Goto(w, "msInit", "msDatabase")
  /\ MetastoreReplicas' = IF EntryOf(w).replicas # 0 THEN EntryOf(w).replicas
                                                     ELSE MetastoreReplicas
  /\ UNCHANGED <<Outside, objs, items, local, used>>

\* The database not waited for.
constructMetastoreClusterRefsNoDb(w) ==
  \/ WaitFor(w, "msDatabase", TRUE,
             IF GetClusterStorage(SpecOf(w)) = "hdfs" THEN "msNamenode" ELSE "msMinioSvc")
  \/ getHdfsExposedInfo(w, "msNamenode", "msDataDir")
  \/ createHdfsDataDir(w, "msDataDir", "msGet")
  \/ getMinioExposedInfo(w, "msMinioSvc", "msMinioSecret", "msBucket")
  \/ createMinioBucketAndFolder(w, "msBucket", "msFolder", "msGet")

constructMetastoreClusterRefs(w) ==
  \/ WaitFor(w, "msDatabase", getPGRWSvcNameWithSync(w),
             IF GetClusterStorage(SpecOf(w)) = "hdfs" THEN "msNamenode" ELSE "msMinioSvc")
  \/ getHdfsExposedInfo(w, "msNamenode", "msDataDir")
  \/ createHdfsDataDir(w, "msDataDir", "msGet")
  \/ getMinioExposedInfo(w, "msMinioSvc", "msMinioSecret", "msBucket")
  \/ createMinioBucketAndFolder(w, "msBucket", "msFolder", "msGet")

MetastoreBody(w) ==
  [Body(w) EXCEPT !.replicas = local[w].replicas,
                  !.endpoint = local[w].endpoint, !.cred = local[w].cred,
                  !.refs = {"database", GetClusterStorage(SpecOf(w))}]

(* constructMetastoreCluster reads the package variable now, after all the *)
(* waiting.                                                                *)
reconcileMetastoreCluster(w) ==
  \/ initMetastore(w)
  \/ constructMetastoreClusterRefs(w)
  \/ /\ Goto(w, "msGet", IF Exists(KeyOf(w), "metastore") THEN "done" ELSE "msCreate")
     /\ local' = [local EXCEPT ![w].replicas = MetastoreReplicas]
     /\ UNCHANGED <<Outside, objs, items, MetastoreReplicas, used>>
  \/ CreateObject(w, "msCreate", "metastore", MetastoreBody(w), "done", "failed")

MetastoreErrors(w) ==
  \/ getHdfsExposedInfoTimeout(w, "msNamenode", "msDataDir")
  \/ getMinioExposedInfoErrors(w, "msMinioSvc", "msMinioSecret", "msBucket")
  \/ CallFails(w, {"msDataDir", "msFolder", "msGet", "msCreate"}, "failed")
  \/ CreateUnanswered(w, "msCreate", "metastore", MetastoreBody(w), "failed")

-----------------------------------------------------------------------------
(* getMetastoreExposedInfo polls for as many ready pods, then for as many  *)
(* endpoints, as the package variable says at that moment.                 *)
MetastoreServes(k) ==
  Live(k, "metastore") /\ objs[k]["metastore"].replicas >= MetastoreReplicas

getMetastoreExposedInfo(w, here, next) ==
  WaitFor(w, here, MetastoreServes(KeyOf(w)), next)
=============================================================================
