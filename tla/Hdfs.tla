-------------------------------- MODULE Hdfs --------------------------------
(***************************************************************************)
(* The worker of an "hdfs" entry (hdfs.go), and what the metastore's       *)
(* worker does with HDFS.                                                  *)
(***************************************************************************)
EXTENDS Zookeeper

(* constructHdfsCluster needs ZooKeeper's addresses for two namenodes.     *)
HdfsStart(w) == IF namenodeHA(SpecOf(w), EntryOf(w)) THEN "hdfsZk" ELSE "hdfsGet"

HdfsBody(w) ==
  [Body(w) EXCEPT !.replicas = EntryOf(w).replicas,
                  !.refs = IF namenodeHA(SpecOf(w), EntryOf(w)) THEN {"zookeeper"} ELSE {}]

\* ZooKeeper's addresses taken as soon as its object exists.
reconcileHdfsClusterNoWait(w) ==
  \/ WaitFor(w, "hdfsZk", Exists(KeyOf(w), "zookeeper"), "hdfsGet")
  \/ GetObject(w, "hdfsGet", "hdfs", "done", "hdfsCreate")
  \/ CreateObject(w, "hdfsCreate", "hdfs", HdfsBody(w), "done", "failed")

reconcileHdfsCluster(w) ==
  \/ WaitFor(w, "hdfsZk", getZookeeperExposedInfo(w), "hdfsGet")
  \/ GetObject(w, "hdfsGet", "hdfs", "done", "hdfsCreate")
  \/ CreateObject(w, "hdfsCreate", "hdfs", HdfsBody(w), "done", "failed")

HdfsErrors(w) ==
  \/ CallFails(w, {"hdfsGet", "hdfsCreate"}, "failed")
  \/ CreateUnanswered(w, "hdfsCreate", "hdfs", HdfsBody(w), "failed")

-----------------------------------------------------------------------------
(* getHdfsExposedInfo polls for the namenodes' endpoints.  After 600 polls *)
(* that find none it stops waiting and returns as if they were ready: the  *)
(* timeout error is set and never returned.                                *)
getHdfsExposedInfo(w, here, next) == WaitFor(w, here, Live(KeyOf(w), "hdfs"), next)
getHdfsExposedInfoTimeout(w, here, next) ==
  CallFails(w, {here}, next) /\ ~ Live(KeyOf(w), "hdfs")

(* createHdfsDataDir: a client without a namenode to talk to is an error;  *)
(* with one the directory is looked for and made until that succeeds.      *)
createHdfsDataDir(w, here, next) ==
  \/ WaitFor(w, here, ~ Live(KeyOf(w), "hdfs"), "failed")
  \/ WriteItem(w, here, "hdfs", "dataDir", next)
=============================================================================
