----------------------------- MODULE MCOverlap ------------------------------
(***************************************************************************)
(* Two overlapping Reconciles.  The workers of both together have too many *)
(* interleavings for TLC, and workers for different entry types only meet  *)
(* in what they wait for, so only those of a few types overlap at a time:  *)
(* the second Reconcile's goroutines for other types are started and not   *)
(* scheduled within the behaviour.                                         *)
(***************************************************************************)
EXTENDS MCNineInfra

CONSTANT Overlaps   \* sets of entry types that may overlap

(* The types the second Reconcile has workers for.                         *)
Overlapping ==
  {TypeOf(w) : w \in {v \in Workers : v[1] > 1 /\ pc[v] \notin {"idle", "spawned"}}}
  \cap WorkerTypes

Focused == \E o \in Overlaps : Overlapping' \subseteq o

MCOverlaps == {{"database"}, {"minio", "metastore"}, {"kyuubi"}}
MCOverlapMetastore == {{"metastore"}}
MCOverlapEdits     == {{"metastore"}, {"hdfs", "zookeeper"}, {"doris"}}
=============================================================================
