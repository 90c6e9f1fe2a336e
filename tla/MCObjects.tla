----------------------------- MODULE MCObjects ------------------------------
(***************************************************************************)
(* What a worker holds in memory while it makes an object: the maps        *)
(* workers share (Sharing), the sizes of volumes (Capacity) and the        *)
(* configuration of HDFS clients (Sites).  The three have no state in      *)
(* common, so each behaviour is one of one of them, which part names.      *)
(***************************************************************************)
EXTENDS Integers, Sequences

CONSTANTS
  Reconciles, Workers, GivenMaps,                \* Sharing
  Unit, IntMax, Int32Max, MaxNodes, Asked,       \* Capacity
  NameServices, Domains                          \* Sites

(* Reconciles are not named as the other owners of maps are; what a user   *)
(* asks for is written in Go's integers, and nodes are counted in one.     *)
ASSUME ObjectsAssumption ==
  /\ Workers \subseteq Reconciles \X {"hdfs", "zookeeper", "kyuubi", "metastore", "minio"}
  /\ Reconciles \cap {"cache", "builtin", "scheme"} = {}
  /\ Unit \in Nat \ {0} /\ IntMax \in Nat \ {0} /\ Int32Max \in Nat \ {0, 1, 2, 3, 4} /\ MaxNodes \in 0 .. Int32Max - 1
  /\ \A s \in Asked : /\ s.volume \in -IntMax .. IntMax - 1
                      /\ s.replication = <<>> \/ s.replication \in {<<n>> : n \in -IntMax .. IntMax - 1}
                      /\ s.disks \in -Int32Max .. Int32Max - 1 /\ s.replicas \in -Int32Max .. Int32Max - 1

VARIABLES
  part,
  nine, copy, zkUp, place,                   \* Sharing
  storage, asked, nodes, object, manager,    \* Capacity
  spec, cluster, client                      \* Sites

(* Sharing, with what is proved about it.                                  *)
Maps  == INSTANCE SharingProofs WITH Given <- GivenMaps
Sizes == INSTANCE Capacity WITH Specs <- Asked, spec <- asked
Confs == INSTANCE Sites WITH Names <- NameServices

Off == "off"
mapsVars  == <<nine, copy, zkUp, place>>
sizesVars == <<storage, asked, nodes, object, manager>>
confsVars == <<spec, cluster, client>>
vars == <<part, mapsVars, sizesVars, confsVars>>

Init ==
  /\ part \in {"maps", "sizes", "confs"}
  /\ IF part = "maps"  THEN Maps!Init
     ELSE nine = Off /\ copy = Off /\ zkUp = Off /\ place = Off
  /\ IF part = "sizes" THEN Sizes!Init
     ELSE storage = Off /\ asked = Off /\ nodes = Off /\ object = Off /\ manager = Off
  /\ IF part = "confs" THEN Confs!Init
     ELSE spec = Off /\ cluster = Off /\ client = Off

(* Part p moves, and no other.                                             *)
Only(p) ==
  /\ part = p /\ UNCHANGED part
  /\ IF p = "maps"  THEN TRUE ELSE UNCHANGED mapsVars
  /\ IF p = "sizes" THEN TRUE ELSE UNCHANGED sizesVars
  /\ IF p = "confs" THEN TRUE ELSE UNCHANGED confsVars

Next ==
  \/ Only("maps")  /\ Maps!Next
  \/ Only("sizes") /\ Sizes!Next
  \/ Only("confs") /\ Confs!Next

Spec == Init /\ [][Next]_vars

-----------------------------------------------------------------------------
(* The properties are those of the components, whose modules explain them. *)

\* Every variable of the part that moves has its type: workers use only the maps of their
\* own Reconcile, of the built-in entries and of the Schemes, sizes fit their integers,
\* and a site has an address for each of its namenodes.
TypeOK ==
  CASE part = "maps" -> Maps!TypeOK [] part = "sizes" -> Sizes!TypeOK [] part = "confs" -> Confs!TypeOK

\* What hdfs adds to the Conf of the zookeeper entry stays within the copy of its
\* Reconcile, neither the cache nor the built-in entries change; and no worker uses a
\* map while another writes it, but for the Conf a user gave the zookeeper entry, within
\* one Reconcile, and a Scheme that both register types in.
MapsSafe == part = "maps" => Maps!SharedMapsUnwritten /\ Maps!NoMapRace

\* The volumes constructMinioTenant and constructHdfsCluster ask for have together the
\* data volume of the spec, whatever was edited and however many nodes there were; a
\* Tenant that leaves its disks to the default is one the MinIO operator takes; and
\* CapacityPerVolume divides by zero only after a product has wrapped around.
CapacityHolds ==
  /\ [](part = "sizes" => Sizes!CapacityIsShared /\ Sizes!DefaultTenantAccepted)
  /\ [][part = "sizes" => Sizes!NoPanicInRange]_sizesVars

\* core-site names a file system that the hdfs-site next to it resolves;
\* createHdfsDataDir finds the address of every namenode in that site; and a metastore
\* that waited for HDFS is given only namenodes that the cluster has, although the spec
\* may have been edited since.
SitesAgree ==
  part = "confs" => Confs!DefaultFSResolves /\ Confs!AddressesKnown /\ Confs!MetastoreNamesWhatRuns

-----------------------------------------------------------------------------
(* Values for TLC: two Reconciles whose workers overlap, of the types that *)
(* share a Scheme in one Reconcile, and of HDFS and Kyuubi in the other; a *)
(* user who lists nothing, or entries with or without maps, or MinIO's     *)
(* beside HDFS; volumes and disks around the edges of a Gi of 8 bytes, an  *)
(* int of nine bits and an int32 of six.                                   *)
MCWorkers == ({"r1"} \X {"hdfs", "zookeeper", "metastore", "minio"}) \cup ({"r2"} \X {"hdfs", "kyuubi"})
MCGiven ==
  { {}, {<<"hdfs", "conf">>, <<"hdfs", "refs">>}, {<<"hdfs", "conf">>, <<"hdfs", "k8sConf">>},
    {<<"zookeeper", "conf">>, <<"minio", "k8sConf">>}, {<<"zookeeper", "k8sConf">>, <<"kyuubi", "conf">>},
    {<<"hdfs", "conf">>, <<"hdfs", "refs">>, <<"zookeeper", "conf">>, <<"namenode", "requests">>} }
MCAsked == [volume : {1, 31, 40}, disks : {0, 3, 16, -1}, replicas : {0, 3}, replication : {<<>>, <<0>>, <<1>>}]
=============================================================================
