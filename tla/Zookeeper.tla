----------------------------- MODULE Zookeeper ------------------------------
(***************************************************************************)
(* The worker of a "zookeeper" entry (zookeeper.go) and the wait of its    *)
(* clients.                                                                *)
(***************************************************************************)
EXTENDS Kube

(* Three servers whatever the entry says.                                  *)
reconcileZookeeperCluster(w) ==
  \/ GetObject(w, "zkGet", "zookeeper", "done", "zkCreate")
  \/ CreateObject(w, "zkCreate", "zookeeper", [Body(w) EXCEPT !.replicas = 3],
                  "done", "failed")

ZookeeperErrors(w) ==
  \/ CallFails(w, {"zkGet", "zkCreate"}, "failed")
  \/ CreateUnanswered(w, "zkCreate", "zookeeper", [Body(w) EXCEPT !.replicas = 3], "failed")

(* getZookeeperExposedInfo polls until three endpoints and three pods are  *)
(* ready.                                                                  *)
getZookeeperExposedInfo(w) == Live(KeyOf(w), "zookeeper")
=============================================================================
