------------------------------ MODULE Capacity ------------------------------
(***************************************************************************)
(* How the data volume a user asks for becomes the size of the volumes of  *)
(* a MinIO Tenant and of an HdfsCluster's datanodes, in Go's integers: a   *)
(* product that does not fit wraps around, and a division by zero ends the *)
(* manager, as any panic of a goroutine does.  And what the MinIO operator *)
(* accepts (Pool.Validate).                                                *)
(*                                                                         *)
(* The widths are constants, so that small instances reach the edges.      *)
(***************************************************************************)
EXTENDS Integers

CONSTANTS
  Unit,     \* bytes in a Gi: 2^30
  IntMax,   \* an int holds -IntMax .. IntMax - 1: 2^63
  Int32Max, \* an int32 holds -Int32Max .. Int32Max - 1: 2^31
  Specs,    \* the specs a user may write, [volume, disks, replicas, replication]
  MaxNodes  \* bound: DirectPV nodes

Int32s == -Int32Max .. Int32Max - 1
Ints   == -IntMax .. IntMax - 1

VARIABLES
  storage,  \* "minio" or "hdfs"
  spec,     \* what the user asks for
  nodes,    \* the DirectPV nodes there are
  object,   \* the Tenant's pool, or the HdfsCluster's datanodes; None before it is made
  manager   \* "up", or "down" after a panic

vars == <<storage, spec, nodes, object, manager>>

None == [asked |-> "nothing"]

-----------------------------------------------------------------------------
Wrap(x, max) == ((x + max) % (2 * max)) - max
Mul(x, y)    == Wrap(x * y, IntMax)
Mul32(x, y)  == Wrap(x * y, Int32Max)

(* Division rounds towards zero.                                           *)
Abs(x) == IF x < 0 THEN -x ELSE x
Quo(x, y) == LET q == Abs(x) \div Abs(y) IN IF (x < 0) = (y < 0) THEN q ELSE -q

GiB2Bytes(datavolume) == Mul(datavolume, Unit)

DefaultDiskNum == 4
DefaultDfsReplication == 3
DefaultDataNodeReplicas == 3

GetDiskNum(disks) == IF disks # 0 THEN disks ELSE DefaultDiskNum

(* The default if the key is missing or its value no number, <<>> here; a  *)
(* number that is given counts as it is, 0 too.                            *)
getDfsReplication(replication) == IF replication = <<>> THEN DefaultDfsReplication ELSE replication[1]

(* The least int divided by -1 is itself.                                  *)
CapacityPerVolume(capacity, volumes) == Wrap(Quo(capacity, volumes), IntMax)

\* An empty list is a count of 0.
getDirectPVNodesCountAny(listed) == [ok |-> listed, count |-> nodes]

(* No node is an error, as is a list that fails.                           *)
getDirectPVNodesCount(listed) == [ok |-> listed /\ nodes # 0, count |-> nodes]

-----------------------------------------------------------------------------
Init ==
  /\ storage \in {"minio", "hdfs"} /\ spec \in Specs /\ nodes \in 0 .. MaxNodes
  /\ object = None /\ manager = "up"

(* The user.                                                               *)
Edit(s) ==
  /\ spec # s /\ spec' = s
  /\ UNCHANGED <<storage, nodes, object, manager>>

DeleteObject ==
  /\ object # None /\ object' = None
  /\ UNCHANGED <<storage, spec, nodes, manager>>

(* Nodes join and leave.                                                   *)
NodesChange(n) ==
  /\ nodes # n /\ nodes' = n
  /\ UNCHANGED <<storage, spec, object, manager>>

(* The worker computes the sizes, whether the object is there or not, and  *)
(* a division by zero takes the manager down.  Only then it looks, and     *)
(* makes an object that is not there.                                      *)
Make(servers, bytes) ==
  LET volumes == Mul32(servers, GetDiskNum(spec.disks))
  IN  /\ manager = "up"
      /\ \/ volumes = 0 /\ manager' = "down" /\ UNCHANGED object
         \/ /\ volumes # 0
            /\ object' = IF object # None THEN object
                         ELSE [asked |-> spec, servers |-> servers, disks |-> GetDiskNum(spec.disks),
                               size |-> CapacityPerVolume(bytes, volumes)]
            /\ UNCHANGED manager
      /\ UNCHANGED <<storage, spec, nodes>>

(* Without a count of the nodes there is no Tenant.                        *)
constructMinioTenant ==
  /\ storage = "minio" /\ getDirectPVNodesCount(TRUE).ok
  /\ Make(getDirectPVNodesCount(TRUE).count, GiB2Bytes(spec.volume))

(* The datanodes: as many as asked for, or one per node, or the default if *)
(* the nodes cannot be counted.  Disks are those of the hdfs entry.        *)
constructDatanodes(listed) ==
  LET dp == getDirectPVNodesCount(listed)
  IN  /\ storage = "hdfs"
      /\ Make(IF spec.replicas # 0 THEN spec.replicas
              ELSE IF dp.ok THEN dp.count ELSE DefaultDataNodeReplicas,
              GiB2Bytes(Mul(spec.volume, getDfsReplication(spec.replication))))

(* The manager is started again.                                           *)
Restart ==
  /\ manager = "down" /\ manager' = "up"
  /\ UNCHANGED <<storage, spec, nodes, object>>

Next ==
  \/ \E s \in Specs : Edit(s)
  \/ \E n \in 0 .. MaxNodes : NodesChange(n)
  \/ DeleteObject \/ constructMinioTenant \/ Restart
  \/ \E listed \in BOOLEAN : constructDatanodes(listed)

Spec == Init /\ [][Next]_vars

-----------------------------------------------------------------------------
(* What the MinIO operator takes for a pool.                               *)
Validate(pool) ==
  /\ pool.servers > 0 /\ pool.disks > 0
  /\ ~ (Mul32(pool.servers, pool.disks) < 4 /\ pool.servers \in {2, 3})
  /\ pool.size > 0

Volumes == object.servers * object.disks

(* The bytes that are asked for, HDFS once per copy it keeps.              *)
Bytes ==
  object.asked.volume * Unit *
    (IF storage = "hdfs" THEN getDfsReplication(object.asked.replication) ELSE 1)

(* Nothing negative, and nothing that wraps around.                        *)
InRange ==
  object.servers > 0 /\ object.disks > 0 /\ Volumes < Int32Max /\ Bytes \in 0 .. IntMax - 1

\* Every variable has its type; sizes fit their integers.
TypeOK ==
  /\ storage \in {"minio", "hdfs"} /\ spec \in Specs /\ nodes \in 0 .. MaxNodes /\ manager \in {"up", "down"}
  /\ object # None =>
       /\ object.asked \in Specs
       /\ object.servers \in Int32s /\ object.disks \in Int32s /\ object.size \in Ints

\* However specs and nodes change, the volumes of a Tenant or of the datanodes
\* together have the data volume that was asked for, once per copy HDFS keeps, and
\* lose less than a byte each to rounding.
CapacityIsShared ==
  object # None /\ InRange =>
    Volumes * object.size <= Bytes /\ Bytes < Volumes * (object.size + 1)

\* With disks that can be counted in an int32 for all nodes no size is divided by
\* zero, nodes or none: a worker takes the manager down only on a wrapped product.
NoPanicInRange ==
  manager = "up" /\ manager' = "down" =>
    LET n == IF spec.replicas > nodes THEN spec.replicas ELSE nodes
    IN  ~ (GetDiskNum(spec.disks) \in 0 .. Int32Max \div (n + DefaultDataNodeReplicas) /\ spec.replicas >= 0)

\* A Tenant whose disks are left to the default is one the MinIO operator takes,
\* on any number of nodes, as long as each volume gets a byte.
DefaultTenantAccepted ==
  storage = "minio" /\ object # None /\ object.asked.disks = 0 /\ InRange /\ Bytes >= Volumes
    => Validate(object)
=============================================================================
