----------------------------- MODULE Defaulting -----------------------------
(***************************************************************************)
(* One NineCluster as the user edits it, and the copy a Reconcile fills    *)
(* from it (FillNineClusterType, FillClustersInfo).  The API server keeps  *)
(* the user's spec; a copy lives as long as its Reconcile and workers.     *)
(***************************************************************************)
EXTENDS NineTypes

CONSTANTS
  UserTypes,       \* values of spec.type users try
  UserFeatures,    \* feature -> the values users try
  UserEntries,     \* entries users list
  MaxUserEntries   \* bound: entries a user lists

ASSUME DefaultingAssumption == MaxUserEntries \in Nat

VARIABLES
  spec,     \* the NineCluster's spec
  copy      \* the last Reconcile's filled copy of it, <<>> before there is one

vars == <<spec, copy>>

Init ==
  /\ spec = [type |-> "", features |-> <<>>, clusterSet |-> <<>>]
  /\ copy = <<>>

(* Edits.  The copy belongs to the spec before the edit: it is dropped.    *)
SetType(t) ==
  /\ spec' = [spec EXCEPT !.type = t]
  /\ copy' = <<>>
SetFeature(f, v) ==
  /\ spec' = [spec EXCEPT !.features =
                [g \in DOMAIN @ \cup {f} |-> IF g = f THEN v ELSE @[g]]]
  /\ copy' = <<>>
ListEntry(c) ==
  /\ Len(spec.clusterSet) < MaxUserEntries
  /\ spec' = [spec EXCEPT !.clusterSet = Append(@, c)]
  /\ copy' = <<>>

(* Reconcile fills a copy, unless the type is not supported.               *)
Reconcile ==
  /\ CheckNineClusterTypeSupported(spec)
  /\ copy' = <<Fill(spec)>>
  /\ UNCHANGED spec

Next ==
  \/ \E t \in UserTypes : SetType(t)
  \/ \E f \in DOMAIN UserFeatures : \E v \in UserFeatures[f] : SetFeature(f, v)
  \/ \E c \in UserEntries : ListEntry(c)
  \/ Reconcile

Spec == Init /\ [][Next]_vars

-----------------------------------------------------------------------------
Batch == copy # <<>> /\ copy[1].type = "batch"

\* Every feature, entry and type has its shape, and a copy has a supported type.
TypeOK ==
  /\ Len(spec.clusterSet) <= MaxUserEntries
  /\ DOMAIN spec.features \subseteq DOMAIN UserFeatures
  /\ copy # <<>> => copy[1].type \in NineClusterTypeSupportedList

\* FillClustersInfo only adds: the user's entries come first and untouched, and
\* every type the user did not list is filled in at most once.
UserEntriesWin ==
  Batch =>
    LET n   == Len(spec.clusterSet)
        set == copy[1].clusterSet
    IN  /\ n <= Len(set) /\ SubSeq(set, 1, n) = spec.clusterSet
        /\ \A i \in n + 1 .. Len(set) : \A j \in 1 .. Len(set) :
             set[i].type = set[j].type => i = j

(* What FillClustersInfo takes for granted: databases are PostgreSQL, and  *)
(* HDFS is listed only along with its feature, a highly available Kyuubi   *)
(* or ZooKeeper itself.                                                    *)
Sensible ==
  LET set == spec.clusterSet
  IN  /\ \A i \in DOMAIN set : set[i].type = "database" => DbType(set[i]) = "postgres"
      /\ "hdfs" \in Types(set) => \/ GetClusterStorage(spec) = "hdfs"
                                  \/ IsKyuubiNeedHA(spec)
                                  \/ "zookeeper" \in Types(set)

\* No worker waits for a service nobody provisions: whatever sensible entries
\* and features the user gives, every type a worker polls for without end is in
\* the filled ClusterSet.  FillClustersInfo decides it from the features, the
\* workers from the entries.
WaitsServed ==
  Batch /\ Sensible =>
    LET set == copy[1].clusterSet
    IN  \A i \in DOMAIN set : WaitsFor(copy[1], set[i]) \subseteq Types(set)

\* The Spark entry constructSparkConf dereferences is never nil.
SparkFound == Batch => GetRefClusterInfo(copy[1], "spark") # Nil

\* Filling what is filled adds nothing: a copy that were stored and reconciled
\* again would start the same workers.
FillIdempotent == copy # <<>> => Fill(copy[1]) = copy[1]
=============================================================================
