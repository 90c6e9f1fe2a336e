--------------------------- MODULE ObjectsProofs ----------------------------
(***************************************************************************)
(* What a worker holds in memory while it makes an object is safe to use,  *)
(* fits Go's integers and names what runs: for any Reconciles, workers and *)
(* specs, any widths of integers and any number of nodes.                  *)
(***************************************************************************)
EXTENDS MCObjects, TLAPS

-----------------------------------------------------------------------------
(* Sites.  What a client was given was made from one spec; one that waited *)
(* was given it when the HdfsCluster had enough namenodes.                 *)
ConfsInv ==
  /\ spec \in Confs!Specs
  /\ cluster # Confs!None => cluster.asked \in Confs!Specs /\ cluster.namenodes \in {1, 2}
  /\ client # Confs!None =>
       /\ client.asked \in Confs!Specs
       /\ client.coreSite = Confs!constructCoreSite(client.asked)
       /\ client.hdfsSite = Confs!constructHdfsSite(client.asked)
       /\ client.waited => cluster # Confs!None /\ cluster.namenodes >= client.asked.namenodes

(* The spec and the HdfsCluster start and change within their types.       *)
LEMMA ConfsInitInv == ASSUME Confs!Init PROVE ConfsInv
  BY DEF Confs!Init, ConfsInv

LEMMA ConfsGiven ==
  ASSUME ConfsInv, NEW kind, NEW waited, Confs!Given(kind, waited),
         waited => Confs!getHdfsExposedInfo
  PROVE  ConfsInv'
<1>1. /\ client' = [kind |-> kind, asked |-> spec, waited |-> waited,
                    coreSite |-> Confs!constructCoreSite(spec), hdfsSite |-> Confs!constructHdfsSite(spec)]
      /\ UNCHANGED <<spec, cluster>>
  BY DEF Confs!Given
<1>2. /\ client'.asked = spec /\ client'.waited = waited
      /\ client'.coreSite = Confs!constructCoreSite(spec) /\ client'.hdfsSite = Confs!constructHdfsSite(spec)
  BY <1>1
<1> QED  BY <1>1, <1>2 DEF ConfsInv, Confs!getHdfsExposedInfo

LEMMA ConfsNextInv == ASSUME ConfsInv, [Confs!Next]_(Confs!vars) PROVE ConfsInv'
<1>1. CASE UNCHANGED Confs!vars  BY <1>1 DEF Confs!vars, ConfsInv
<1>2. ASSUME NEW s \in Confs!Specs, Confs!Edit(s) PROVE ConfsInv'
  BY <1>2 DEF Confs!Edit, ConfsInv
<1>3. CASE Confs!constructHdfsCluster
  <2>1. /\ cluster = Confs!None /\ UNCHANGED <<spec, client>>
        /\ cluster'.asked = spec /\ cluster'.namenodes = spec.namenodes
    BY <1>3 DEF Confs!constructHdfsCluster
  <2> QED  BY <2>1 DEF ConfsInv, Confs!Specs
<1>4. CASE Confs!Metastore  BY <1>4, ConfsGiven DEF Confs!Metastore
<1>5. CASE Confs!MetastoreTimeout  BY <1>5, ConfsGiven DEF Confs!MetastoreTimeout
<1>6. CASE Confs!Kyuubi  BY <1>6, ConfsGiven DEF Confs!Kyuubi
<1>7. CASE Confs!DeleteClient  BY <1>7 DEF Confs!DeleteClient, ConfsInv
<1> QED  BY <1>1, <1>2, <1>3, <1>4, <1>5, <1>6, <1>7 DEF Confs!Next

(* The sites of a spec: an address for each namenode, under the keys that  *)
(* are looked for.                                                         *)
SiteFits(site, s) ==
  LET ns == Confs!nameservices(s)
  IN  /\ site.nameservices = ns
      /\ \/ /\ s.namenodes = 2
            /\ site.namenodes = {<<ns, "nn0">>, <<ns, "nn1">>}
            /\ DOMAIN site.rpcAddress = {<<ns, "nn0">>, <<ns, "nn1">>}
            /\ site.rpcAddress[<<ns, "nn0">>] = Confs!NameNode(s, 0)
            /\ site.rpcAddress[<<ns, "nn1">>] = Confs!NameNode(s, 1)
         \/ /\ s.namenodes = 1
            /\ site.namenodes = {} /\ DOMAIN site.rpcAddress = {<<ns>>}
            /\ site.rpcAddress[<<ns>>] = Confs!NameNode(s, 0)

LEMMA SiteOfSpec ==
  ASSUME NEW s \in Confs!Specs
  PROVE  SiteFits(Confs!constructHdfsSite(s), s)
<1>1. CASE s.namenodes = 2
  BY <1>1 DEF SiteFits, Confs!constructHdfsSite, Confs!checkHdfsNameNodeHA
<1>2. CASE s.namenodes = 1
  BY <1>2 DEF SiteFits, Confs!constructHdfsSite, Confs!checkHdfsNameNodeHA
<1> QED  BY <1>1, <1>2 DEF Confs!Specs

LEMMA ClientFits ==
  ASSUME ConfsInv, client # Confs!None
  PROVE  SiteFits(client.hdfsSite, client.asked)
  BY SiteOfSpec DEF ConfsInv

LEMMA ConfsTypes == ASSUME ConfsInv PROVE Confs!TypeOK
<1>1. ASSUME client # Confs!None PROVE client.hdfsSite.namenodes \subseteq DOMAIN client.hdfsSite.rpcAddress
  <2>1. SiteFits(client.hdfsSite, client.asked)  BY <1>1, ClientFits
  <2> QED  BY <2>1 DEF SiteFits
<1> QED  BY <1>1 DEF ConfsInv, Confs!TypeOK

LEMMA ConfsResolve == ASSUME ConfsInv PROVE Confs!DefaultFSResolves
<1> SUFFICES ASSUME client # Confs!None, Confs!NamedAlike(client.asked) PROVE Confs!Resolves(client)
  BY DEF Confs!DefaultFSResolves
<1> DEFINE s == client.asked
           ns == Confs!nameservices(s)
<1>1. s \in Confs!Specs /\ s.namenodes \in {1, 2}  BY DEF ConfsInv, Confs!Specs
<1>2. client.coreSite = Confs!constructCoreSite(s) /\ client.hdfsSite = Confs!constructHdfsSite(s)
  BY DEF ConfsInv
<1>3. \E k \in DOMAIN client.hdfsSite.rpcAddress : k[1] = ns
  <2> HIDE DEF s, ns
  <2>1. <<ns, "nn0">> \in DOMAIN client.hdfsSite.rpcAddress \/ <<ns>> \in DOMAIN client.hdfsSite.rpcAddress
    BY ClientFits DEF SiteFits, s, ns
  <2> QED  BY <2>1
<1>4. CASE s.defaultFS # Confs!Unset
  <2>1. client.coreSite = [service |-> s.defaultFS]  BY <1>2, <1>4 DEF Confs!constructCoreSite
  <2>2. s.defaultFS = ns  BY <1>4 DEF Confs!NamedAlike
  <2> QED  BY <1>3, <2>1, <2>2 DEF Confs!Resolves
<1>5. CASE s.defaultFS = Confs!Unset /\ s.namenodes = 2
  <2>1. client.coreSite = [service |-> Confs!DefaultNameService]
    BY <1>2, <1>5 DEF Confs!constructCoreSite, Confs!checkHdfsNameNodeHA
  <2>2. s.nameservices = Confs!Unset
    BY <1>5 DEF Confs!NamedAlike, Confs!checkHdfsNameNodeHA
  <2>3. ns = Confs!DefaultNameService  BY <2>2 DEF Confs!nameservices
  <2> QED  BY <1>3, <2>1, <2>3 DEF Confs!Resolves
<1>6. CASE s.defaultFS = Confs!Unset /\ s.namenodes = 1
  <2>1. client.coreSite = Confs!NameNode(s, 0)
    BY <1>2, <1>6 DEF Confs!constructCoreSite, Confs!checkHdfsNameNodeHA
  <2>2. "service" \notin DOMAIN client.coreSite  BY <2>1 DEF Confs!NameNode
  <2>3. \E k \in DOMAIN client.hdfsSite.rpcAddress : client.hdfsSite.rpcAddress[k] = client.coreSite
    BY <1>6, <2>1, ClientFits DEF SiteFits
  <2> QED  BY <2>2, <2>3 DEF Confs!Resolves
<1> QED  BY <1>1, <1>4, <1>5, <1>6

LEMMA ConfsAddresses == ASSUME ConfsInv PROVE Confs!AddressesKnown
<1> SUFFICES ASSUME client # Confs!None
             PROVE  Confs!createHdfsDataDirAddresses(client.hdfsSite)
                    = {Confs!NameNode(client.asked, i) : i \in 0 .. client.asked.namenodes - 1}
  BY DEF Confs!AddressesKnown
<1> DEFINE s == client.asked
           site == client.hdfsSite
           ns == Confs!nameservices(s)
<1>1. s \in Confs!Specs /\ s.namenodes \in {1, 2} /\ site = Confs!constructHdfsSite(s)
  BY DEF ConfsInv, Confs!Specs
<1>2. CASE s.namenodes = 2
  <2>1. Confs!createHdfsDataDirAddresses(site) = {Confs!NameNode(s, 0), Confs!NameNode(s, 1)}
    BY <1>2, ClientFits DEF SiteFits, Confs!createHdfsDataDirAddresses
  <2>2. 0 .. s.namenodes - 1 = {0, 1}  BY <1>2
  <2> QED  BY <2>1, <2>2
<1>3. CASE s.namenodes = 1
  <2>1. Confs!createHdfsDataDirAddresses(site) = {Confs!NameNode(s, 0)}
    BY <1>3, ClientFits DEF SiteFits, Confs!createHdfsDataDirAddresses
  <2>2. 0 .. s.namenodes - 1 = {0}  BY <1>3
  <2> QED  BY <2>1, <2>2
<1> QED  BY <1>1, <1>2, <1>3

LEMMA ConfsRun == ASSUME ConfsInv PROVE Confs!MetastoreNamesWhatRuns
<1> SUFFICES ASSUME client # Confs!None, client.kind = "metastore", client.waited,
                    NEW k \in DOMAIN client.hdfsSite.rpcAddress
             PROVE  client.hdfsSite.rpcAddress[k].pod < cluster.namenodes
  BY DEF Confs!MetastoreNamesWhatRuns
<1> DEFINE s == client.asked
<1>1. /\ s \in Confs!Specs /\ s.namenodes \in {1, 2} /\ client.hdfsSite = Confs!constructHdfsSite(s)
      /\ cluster.namenodes >= s.namenodes
  BY DEF ConfsInv, Confs!Specs
<1>2. cluster.namenodes \in {1, 2}  BY DEF ConfsInv
<1>3. client.hdfsSite.rpcAddress[k].pod \in {0, 1} /\ (client.hdfsSite.rpcAddress[k].pod = 1 => s.namenodes = 2)
  BY <1>1, ClientFits DEF SiteFits, Confs!NameNode
<1> QED  BY <1>1, <1>2, <1>3

-----------------------------------------------------------------------------
(* Capacity.  Go's integers: what is in range is not wrapped, and what is  *)
(* wrapped is in range.                                                    *)
LEMMA ModSmall == ASSUME NEW a \in Nat, NEW b \in Nat, a < b PROVE a % b = a
  OBVIOUS

LEMMA WrapIn == ASSUME NEW max \in Nat \ {0}, NEW x \in Int PROVE Sizes!Wrap(x, max) \in -max .. max - 1
<1>1. (x + max) % (2 * max) \in 0 .. 2 * max - 1  OBVIOUS
<1> QED  BY <1>1 DEF Sizes!Wrap

LEMMA WrapId == ASSUME NEW max \in Nat \ {0}, NEW x \in -max .. max - 1 PROVE Sizes!Wrap(x, max) = x
  BY ModSmall DEF Sizes!Wrap

LEMMA DivNat == ASSUME NEW a \in Nat, NEW b \in Nat \ {0} PROVE a \div b \in Nat
  OBVIOUS

LEMMA DivBounds ==
  ASSUME NEW a \in Nat, NEW b \in Nat \ {0}
  PROVE  (a \div b) * b <= a /\ a < ((a \div b) + 1) * b
  OBVIOUS

LEMMA MulNat == ASSUME NEW x \in Nat, NEW y \in Nat PROVE x * y \in Nat
  OBVIOUS

LEMMA MulUp == ASSUME NEW x \in Nat, NEW y \in Nat \ {0} PROVE x <= x * y
  OBVIOUS

LEMMA MulPositive == ASSUME NEW x \in Nat \ {0}, NEW y \in Nat \ {0} PROVE x * y \in Nat \ {0}
  OBVIOUS

LEMMA MulBelow == ASSUME NEW x \in Nat, NEW y \in Nat, NEW z \in Nat, x <= z PROVE x * y <= z * y
  OBVIOUS

(* A factor of a product that is not negative is not either.               *)
LEMMA FactorNat == ASSUME NEW x \in Int, NEW y \in Nat \ {0}, x * y >= 0 PROVE x \in Nat
<1> SUFFICES ASSUME x < 0 PROVE FALSE  OBVIOUS
<1>1. (-x) * y \in Nat \ {0}  BY MulPositive
<1>2. (-x) * y = -(x * y) /\ x * y \in Int  OBVIOUS
<1> QED  BY <1>1, <1>2

LEMMA QuoNat == ASSUME NEW a \in Nat, NEW b \in Nat \ {0} PROVE Sizes!Quo(a, b) = a \div b
  BY DEF Sizes!Quo, Sizes!Abs

LEMMA QuoInt == ASSUME NEW x \in Int, NEW y \in Int \ {0} PROVE Sizes!Quo(x, y) \in Int
<1>1. Sizes!Abs(x) \in Nat /\ Sizes!Abs(y) \in Nat \ {0}  BY DEF Sizes!Abs
<1>2. Sizes!Abs(x) \div Sizes!Abs(y) \in Nat  BY <1>1, DivNat
<1> QED  BY <1>2 DEF Sizes!Quo

(* What the constants give.                                                *)
LEMMA Widths ==
  /\ Unit \in Nat \ {0} /\ IntMax \in Nat \ {0} /\ Int32Max \in Nat \ {0} /\ 5 <= Int32Max
  /\ MaxNodes \in Nat /\ 0 .. MaxNodes \subseteq Sizes!Int32s
  /\ \A s \in Asked : /\ s.volume \in Int /\ (s.replication = <<>> \/ \E n \in Int : s.replication = <<n>>)
                      /\ s.disks \in Sizes!Int32s /\ s.replicas \in Sizes!Int32s
  BY ObjectsAssumption DEF Sizes!Int32s

LEMMA ReplicationInt == ASSUME NEW s \in Asked PROVE Sizes!getDfsReplication(s.replication) \in Int
<1>1. CASE s.replication = <<>>  BY <1>1 DEF Sizes!getDfsReplication, Sizes!DefaultDfsReplication
<1>2. CASE s.replication # <<>>
  <2>1. PICK n \in Int : s.replication = <<n>>  BY <1>2, Widths
  <2>2. Sizes!getDfsReplication(<<n>>) = n  BY <1>2, <2>1 DEF Sizes!getDfsReplication
  <2> QED  BY <2>1, <2>2
<1> QED  BY <1>1, <1>2

(* The bytes a worker computes for a spec.                                 *)
BytesOf(kind, s) ==
  Sizes!GiB2Bytes(IF kind = "minio" THEN s.volume
                  ELSE Sizes!Mul(s.volume, Sizes!getDfsReplication(s.replication)))

SizesInv ==
  /\ storage \in {"minio", "hdfs"} /\ asked \in Asked /\ nodes \in 0 .. MaxNodes /\ manager \in {"up", "down"}
  /\ object # Sizes!None =>
       LET volumes == Sizes!Mul32(object.servers, object.disks)
       IN  /\ object.asked \in Asked
           /\ object.servers \in Sizes!Int32s
           /\ object.disks = Sizes!GetDiskNum(object.asked.disks)
           /\ volumes # 0
           /\ object.size = Sizes!CapacityPerVolume(BytesOf(storage, object.asked), volumes)

LEMMA SizesInitInv == ASSUME Sizes!Init PROVE SizesInv
  BY DEF Sizes!Init, SizesInv

LEMMA SizesMake ==
  ASSUME SizesInv, NEW servers \in Sizes!Int32s, Sizes!Make(servers, BytesOf(storage, asked))
  PROVE  SizesInv'
<1>1. UNCHANGED <<storage, asked, nodes>>  BY DEF Sizes!Make
<1>2. CASE UNCHANGED object
  <2>1. manager' \in {"up", "down"}  BY DEF Sizes!Make, SizesInv
  <2> QED  BY <1>1, <1>2, <2>1 DEF SizesInv
<1>3. CASE object' # object
  <2> DEFINE volumes == Sizes!Mul32(servers, Sizes!GetDiskNum(asked.disks))
  <2>1. /\ volumes # 0 /\ UNCHANGED manager
        /\ object' = [asked |-> asked, servers |-> servers, disks |-> Sizes!GetDiskNum(asked.disks),
                      size |-> Sizes!CapacityPerVolume(BytesOf(storage, asked), volumes)]
    BY <1>3 DEF Sizes!Make
  <2>2. /\ object'.asked = asked /\ object'.servers = servers /\ object'.disks = Sizes!GetDiskNum(asked.disks)
        /\ object'.size = Sizes!CapacityPerVolume(BytesOf(storage, asked), volumes)
    BY <2>1
  <2> HIDE DEF volumes
  <2>3. Sizes!Mul32(object'.servers, object'.disks) = volumes  BY <2>2 DEF volumes
  <2> QED  BY <1>1, <2>1, <2>2, <2>3 DEF SizesInv
<1> QED  BY <1>2, <1>3

LEMMA SizesNextInv == ASSUME SizesInv, [Sizes!Next]_(Sizes!vars) PROVE SizesInv'
<1>1. CASE UNCHANGED Sizes!vars  BY <1>1 DEF Sizes!vars, SizesInv
<1>2. ASSUME NEW s \in Asked, Sizes!Edit(s) PROVE SizesInv'
  BY <1>2 DEF Sizes!Edit, SizesInv
<1>3. ASSUME NEW n \in 0 .. MaxNodes, Sizes!NodesChange(n) PROVE SizesInv'
  BY <1>3 DEF Sizes!NodesChange, SizesInv
<1>4. CASE Sizes!DeleteObject  BY <1>4 DEF Sizes!DeleteObject, SizesInv
<1>5. CASE Sizes!constructMinioTenant
  <2>1. storage = "minio" /\ Sizes!Make(nodes, Sizes!GiB2Bytes(asked.volume))
    BY <1>5 DEF Sizes!constructMinioTenant, Sizes!getDirectPVNodesCount
  <2>2. nodes \in Sizes!Int32s  BY Widths DEF SizesInv
  <2> QED  BY <2>1, <2>2, SizesMake DEF BytesOf
<1>6. CASE Sizes!Restart  BY <1>6 DEF Sizes!Restart, SizesInv
<1>7. ASSUME NEW listed \in BOOLEAN, Sizes!constructDatanodes(listed) PROVE SizesInv'
  <2> DEFINE dp == Sizes!getDirectPVNodesCount(listed)
             servers == IF asked.replicas # 0 THEN asked.replicas
                        ELSE IF dp.ok THEN dp.count ELSE Sizes!DefaultDataNodeReplicas
  <2>1. /\ storage = "hdfs"
        /\ Sizes!Make(servers, Sizes!GiB2Bytes(Sizes!Mul(asked.volume, Sizes!getDfsReplication(asked.replication))))
    BY <1>7 DEF Sizes!constructDatanodes
  <2>2. servers \in Sizes!Int32s
    BY Widths DEF SizesInv, Sizes!getDirectPVNodesCount, Sizes!DefaultDataNodeReplicas, Sizes!Int32s
  <2>3. BytesOf(storage, asked) = Sizes!GiB2Bytes(Sizes!Mul(asked.volume, Sizes!getDfsReplication(asked.replication)))
    BY <2>1 DEF BytesOf
  <2> QED  BY <2>1, <2>2, <2>3, SizesMake
<1> QED  BY <1>1, <1>2, <1>3, <1>4, <1>5, <1>6, <1>7 DEF Sizes!Next

LEMMA SizesTypes == ASSUME SizesInv PROVE Sizes!TypeOK
<1> SUFFICES ASSUME object # Sizes!None
             PROVE  /\ object.asked \in Asked
                    /\ object.servers \in Sizes!Int32s /\ object.disks \in Sizes!Int32s
                    /\ object.size \in Sizes!Ints
  BY DEF SizesInv, Sizes!TypeOK
<1> DEFINE volumes == Sizes!Mul32(object.servers, object.disks)
           bytes == BytesOf(storage, object.asked)
<1>1. /\ object.asked \in Asked /\ object.servers \in Sizes!Int32s
      /\ object.disks = Sizes!GetDiskNum(object.asked.disks)
      /\ volumes # 0 /\ object.size = Sizes!CapacityPerVolume(bytes, volumes)
  BY DEF SizesInv
<1>2. object.disks \in Sizes!Int32s
  BY <1>1, Widths DEF Sizes!GetDiskNum, Sizes!DefaultDiskNum, Sizes!Int32s
<1>3. volumes \in Int \ {0}
  <2>1. object.servers * object.disks \in Int  BY <1>1, <1>2 DEF Sizes!Int32s
  <2> QED  BY <1>1, <2>1, WrapIn, Widths DEF Sizes!Mul32
<1>4. bytes \in Int
  <2>1. \A x, y \in Int : Sizes!Mul(x, y) \in Int
    <3> SUFFICES ASSUME NEW x \in Int, NEW y \in Int PROVE Sizes!Mul(x, y) \in Int  OBVIOUS
    <3>1. x * y \in Int  OBVIOUS
    <3> QED  BY <3>1, WrapIn, Widths DEF Sizes!Mul
  <2>2. Sizes!getDfsReplication(object.asked.replication) \in Int
    BY <1>1, ReplicationInt
  <2>3. object.asked.volume \in Int /\ Unit \in Int  BY <1>1, Widths
  <2>4. (IF storage = "minio" THEN object.asked.volume
         ELSE Sizes!Mul(object.asked.volume, Sizes!getDfsReplication(object.asked.replication))) \in Int
    BY <2>1, <2>2, <2>3
  <2> QED  BY <2>1, <2>3, <2>4 DEF BytesOf, Sizes!GiB2Bytes
<1>5. Sizes!Quo(bytes, volumes) \in Int
  <2> HIDE DEF bytes, volumes
  <2> QED  BY <1>3, <1>4, QuoInt
<1>6. object.size \in Sizes!Ints
  BY <1>1, <1>5, WrapIn, Widths DEF Sizes!CapacityPerVolume, Sizes!Ints
<1> QED  BY <1>1, <1>2, <1>6

(* In range nothing wraps: an object has the quotient of what was asked.   *)
LEMMA SizeInRange ==
  ASSUME SizesInv, object # Sizes!None, Sizes!InRange
  PROVE  /\ object.servers \in Nat \ {0} /\ object.disks \in Nat \ {0}
         /\ Sizes!Volumes \in Nat \ {0} /\ Sizes!Bytes \in Nat
         /\ Sizes!Mul32(object.servers, object.disks) = Sizes!Volumes
         /\ object.size = Sizes!Bytes \div Sizes!Volumes
<1> DEFINE volumes == Sizes!Mul32(object.servers, object.disks)
           s == object.asked
           copies == IF storage = "minio" THEN 1 ELSE Sizes!getDfsReplication(s.replication)
<1>1. /\ s \in Asked /\ object.servers \in Int /\ object.disks \in Int
      /\ storage \in {"minio", "hdfs"}
      /\ object.size = Sizes!CapacityPerVolume(BytesOf(storage, s), volumes)
      /\ s.volume \in Int
  BY Widths, SizesTypes DEF SizesInv, Sizes!TypeOK, Sizes!Int32s
<1>2. object.servers \in Nat \ {0} /\ object.disks \in Nat \ {0}  BY <1>1 DEF Sizes!InRange
<1>3. Sizes!Volumes \in Nat \ {0}  BY <1>2, MulPositive DEF Sizes!Volumes
<1>4. volumes = Sizes!Volumes
  <2>1. Sizes!Volumes \in -Int32Max .. Int32Max - 1  BY <1>3, Widths DEF Sizes!InRange
  <2> QED  BY <2>1, WrapId, Widths DEF Sizes!Volumes, Sizes!Mul32
<1>5. copies \in Int /\ s.volume \in Int /\ Unit \in Nat \ {0} /\ IntMax \in Nat \ {0}
  BY <1>1, Widths, ReplicationInt
<1>6. Sizes!Bytes = s.volume * Unit * copies /\ Sizes!Bytes \in 0 .. IntMax - 1
  BY <1>1 DEF Sizes!Bytes, Sizes!InRange
<1>7. BytesOf(storage, s) = Sizes!Bytes
  <2> DEFINE given == s.volume * copies
  <2>1. given \in Int /\ Sizes!Bytes = given * Unit
    <3> HIDE DEF copies, s
    <3> QED  BY <1>5, <1>6
  <2>2. given \in Nat
    <3> HIDE DEF given
    <3> QED  BY <1>5, <1>6, <2>1, FactorNat
  <2>3. given <= Sizes!Bytes
    <3> HIDE DEF given
    <3> QED  BY <1>5, <2>1, <2>2, MulUp
  <2>4. given \in -IntMax .. IntMax - 1 /\ Sizes!Bytes \in -IntMax .. IntMax - 1
    <3> HIDE DEF given
    <3> QED  BY <1>5, <1>6, <2>2, <2>3
  <2>5. (IF storage = "minio" THEN s.volume
         ELSE Sizes!Mul(s.volume, Sizes!getDfsReplication(s.replication))) = given
    <3>1. CASE storage = "minio"  BY <1>5, <3>1
    <3>2. CASE storage # "minio"
      <4>1. given = s.volume * Sizes!getDfsReplication(s.replication)  BY <3>2
      <4>2. Sizes!Mul(s.volume, Sizes!getDfsReplication(s.replication)) = Sizes!Wrap(given, IntMax)
        BY <4>1 DEF Sizes!Mul
      <4>3. Sizes!Wrap(given, IntMax) = given
        <5> HIDE DEF given
        <5> QED  BY <1>5, <2>4, WrapId
      <4> QED  BY <3>2, <4>2, <4>3
    <3> QED  BY <3>1, <3>2
  <2>6. BytesOf(storage, s) = Sizes!Wrap(given * Unit, IntMax)
    BY <2>5 DEF BytesOf, Sizes!GiB2Bytes, Sizes!Mul
  <2> QED  BY <1>5, <2>1, <2>4, <2>6, WrapId
<1>8. object.size = Sizes!Bytes \div Sizes!Volumes
  <2>1. Sizes!Bytes \in Nat /\ Sizes!Quo(Sizes!Bytes, Sizes!Volumes) = Sizes!Bytes \div Sizes!Volumes
    BY <1>3, <1>6, QuoNat, Widths
  <2>2. Sizes!Bytes \div Sizes!Volumes \in Nat  BY <1>3, <2>1, DivNat
  <2>3. Sizes!Bytes \div Sizes!Volumes <= Sizes!Bytes
    <3>1. (Sizes!Bytes \div Sizes!Volumes) * Sizes!Volumes <= Sizes!Bytes  BY <1>3, <2>1, DivBounds
    <3>2. Sizes!Bytes \div Sizes!Volumes <= (Sizes!Bytes \div Sizes!Volumes) * Sizes!Volumes
      BY <1>3, <2>2, MulUp
    <3>3. (Sizes!Bytes \div Sizes!Volumes) * Sizes!Volumes \in Nat  BY <1>3, <2>2, MulNat
    <3> QED  BY <2>1, <2>2, <3>1, <3>2, <3>3
  <2>4. Sizes!Bytes \div Sizes!Volumes \in -IntMax .. IntMax - 1  BY <1>5, <1>6, <2>2, <2>3
  <2> QED  BY <1>1, <1>4, <1>5, <1>7, <2>1, <2>4, WrapId DEF Sizes!CapacityPerVolume
<1> QED  BY <1>2, <1>3, <1>4, <1>6, <1>8

LEMMA SizesShared == ASSUME SizesInv PROVE Sizes!CapacityIsShared
<1> SUFFICES ASSUME object # Sizes!None, Sizes!InRange
             PROVE  /\ Sizes!Volumes * object.size <= Sizes!Bytes
                    /\ Sizes!Bytes < Sizes!Volumes * (object.size + 1)
  BY DEF Sizes!CapacityIsShared
<1>1. /\ Sizes!Volumes \in Nat \ {0} /\ Sizes!Bytes \in Nat
      /\ object.size = Sizes!Bytes \div Sizes!Volumes
  BY SizeInRange
<1>2. object.size \in Nat  BY <1>1, DivNat
<1>3. object.size * Sizes!Volumes <= Sizes!Bytes /\ Sizes!Bytes < (object.size + 1) * Sizes!Volumes
  BY <1>1, DivBounds
<1> QED  BY <1>1, <1>2, <1>3

LEMMA SizesAccepted == ASSUME SizesInv PROVE Sizes!DefaultTenantAccepted
<1> SUFFICES ASSUME object # Sizes!None, object.asked.disks = 0, Sizes!InRange, Sizes!Bytes >= Sizes!Volumes
             PROVE  Sizes!Validate(object)
  BY DEF Sizes!DefaultTenantAccepted
<1>1. /\ object.servers \in Nat \ {0} /\ object.disks \in Nat \ {0}
      /\ Sizes!Volumes \in Nat \ {0} /\ Sizes!Bytes \in Nat
      /\ Sizes!Mul32(object.servers, object.disks) = Sizes!Volumes
      /\ object.size = Sizes!Bytes \div Sizes!Volumes
  BY SizeInRange
<1>2. object.disks = 4  BY DEF SizesInv, Sizes!GetDiskNum, Sizes!DefaultDiskNum
<1>3. Sizes!Volumes >= 4  BY <1>1, <1>2 DEF Sizes!Volumes
<1>4. object.size > 0
  <2>1. Sizes!Bytes < (object.size + 1) * Sizes!Volumes /\ object.size \in Nat  BY <1>1, DivBounds, DivNat
  <2>2. CASE object.size = 0  BY <1>1, <2>1, <2>2
  <2> QED  BY <2>1, <2>2
<1> QED  BY <1>1, <1>3, <1>4 DEF Sizes!Validate

(* A product from 1 up to Int32Max is not zero, wrapped or not.            *)
LEMMA NoZeroProduct ==
  ASSUME NEW servers \in Nat \ {0}, NEW disks \in Nat \ {0}, servers * disks <= Int32Max
  PROVE  Sizes!Mul32(servers, disks) # 0
<1> DEFINE p == servers * disks
<1>1. p \in Nat \ {0}  BY MulPositive
<1> HIDE DEF p
<1>2. CASE p < Int32Max
  <2>1. Sizes!Wrap(p, Int32Max) = p  BY <1>1, <1>2, WrapId, Widths
  <2> QED  BY <1>1, <2>1 DEF Sizes!Mul32, p
<1>3. CASE p = Int32Max
  <2>1. p + Int32Max = 2 * Int32Max  BY <1>3, Widths
  <2>2. (2 * Int32Max) % (2 * Int32Max) = 0  BY Widths
  <2> QED  BY <1>1, <1>3, <2>1, <2>2, Widths DEF Sizes!Mul32, Sizes!Wrap, p
<1> QED  BY <1>1, <1>2, <1>3, Widths DEF p

LEMMA SizesNoPanic == ASSUME SizesInv, [Sizes!Next]_(Sizes!vars) PROVE Sizes!NoPanicInRange
<1> DEFINE n == IF asked.replicas > nodes THEN asked.replicas ELSE nodes
           disks == Sizes!GetDiskNum(asked.disks)
<1> SUFFICES ASSUME manager = "up", manager' = "down",
                    disks \in 0 .. Int32Max \div (n + Sizes!DefaultDataNodeReplicas), asked.replicas >= 0
             PROVE  FALSE
  BY DEF Sizes!NoPanicInRange
<1>1. asked.replicas \in Nat /\ nodes \in Nat /\ n \in Nat /\ asked.replicas <= n /\ nodes <= n
  BY Widths DEF SizesInv, Sizes!Int32s
<1>2. disks \in Nat \ {0}
  <2>1. disks \in Nat  BY <1>1, Widths, DivNat DEF Sizes!DefaultDataNodeReplicas
  <2> QED  BY <2>1 DEF Sizes!GetDiskNum, Sizes!DefaultDiskNum
<1>3. (n + 3) * disks <= Int32Max
  <2> HIDE DEF n, disks
  <2> DEFINE q == Int32Max \div (n + 3)
  <2>1. Int32Max \in Nat /\ n + 3 \in Nat \ {0}  BY <1>1, Widths
  <2>2. q \in Nat /\ q * (n + 3) <= Int32Max  BY <2>1, DivNat, DivBounds
  <2>3. disks <= q  BY <1>2, <2>2 DEF Sizes!DefaultDataNodeReplicas
  <2> HIDE DEF q
  <2>4. disks * (n + 3) <= q * (n + 3)  BY <1>2, <2>1, <2>2, <2>3, MulBelow
  <2>5. disks * (n + 3) \in Nat /\ q * (n + 3) \in Nat  BY <1>2, <2>1, <2>2, MulNat
  <2>6. disks * (n + 3) = (n + 3) * disks  BY <1>2, <2>1
  <2> QED  BY <2>1, <2>2, <2>4, <2>5, <2>6
<1>4. ASSUME NEW servers \in Nat \ {0}, NEW bytes, servers <= n + 3, Sizes!Make(servers, bytes) PROVE FALSE
  <2>1. Sizes!Mul32(servers, disks) = 0  BY <1>4 DEF Sizes!Make
  <2> HIDE DEF n, disks
  <2>2. servers * disks <= (n + 3) * disks  BY <1>1, <1>2, <1>4, MulBelow
  <2>3. servers * disks \in Nat /\ (n + 3) * disks \in Nat  BY <1>1, <1>2, <1>4, MulNat
  <2>4. servers * disks <= Int32Max  BY <1>3, <2>2, <2>3, Widths
  <2> QED  BY <1>2, <2>1, <2>4, NoZeroProduct
<1>5. CASE Sizes!constructMinioTenant
  <2>1. nodes # 0 /\ Sizes!Make(nodes, Sizes!GiB2Bytes(asked.volume))
    BY <1>5 DEF Sizes!constructMinioTenant, Sizes!getDirectPVNodesCount
  <2> QED  BY <1>1, <1>4, <2>1
<1>6. ASSUME NEW listed \in BOOLEAN, Sizes!constructDatanodes(listed) PROVE FALSE
  <2> DEFINE servers == IF asked.replicas # 0 THEN asked.replicas
                        ELSE IF listed /\ nodes # 0 THEN nodes ELSE 3
  <2>1. \E bytes : Sizes!Make(servers, bytes)
    BY <1>6 DEF Sizes!constructDatanodes, Sizes!getDirectPVNodesCount, Sizes!DefaultDataNodeReplicas
  <2>2. servers \in Nat \ {0} /\ servers <= n + 3  BY <1>1
  <2> HIDE DEF servers
  <2> QED  BY <1>4, <2>1, <2>2
<1>7. UNCHANGED manager \/ manager' = "up" \/ Sizes!constructMinioTenant \/ \E listed \in BOOLEAN : Sizes!constructDatanodes(listed)
  BY DEF Sizes!Next, Sizes!vars, Sizes!Edit, Sizes!NodesChange, Sizes!DeleteObject, Sizes!Restart
<1> QED  BY <1>5, <1>6, <1>7

-----------------------------------------------------------------------------
(* The three together.  Each behaviour is one of one of them.              *)
IInv ==
  /\ part \in {"maps", "sizes", "confs"}
  /\ part = "maps"  => Maps!IInv
  /\ part = "sizes" => SizesInv
  /\ part = "confs" => ConfsInv

LEMMA Overlap == Maps!WorkersOfReconciles
  BY ObjectsAssumption DEF Maps!WorkersOfReconciles

LEMMA InitIInv == ASSUME Init PROVE IInv
<1>1. CASE part = "maps"  BY <1>1, Overlap, Maps!InitIInv DEF Init, IInv
<1>2. CASE part = "sizes"  BY <1>2, SizesInitInv DEF Init, IInv
<1>3. CASE part = "confs"  BY <1>3, ConfsInitInv DEF Init, IInv
<1> QED  BY <1>1, <1>2, <1>3 DEF Init

(* A step is one of the part that moves.                                   *)
LEMMA PartSteps ==
  ASSUME [Next]_vars
  PROVE  /\ UNCHANGED part
         /\ part = "maps"  => [Maps!Next]_(Maps!vars)
         /\ part = "sizes" => [Sizes!Next]_(Sizes!vars)
         /\ part = "confs" => [Confs!Next]_(Confs!vars)
<1>1. CASE UNCHANGED vars
  BY <1>1 DEF vars, mapsVars, sizesVars, confsVars, Maps!vars, Sizes!vars, Confs!vars
<1>2. CASE Next  BY <1>2 DEF Next, Only
<1> QED  BY <1>1, <1>2

LEMMA NextIInv == ASSUME IInv, [Next]_vars PROVE IInv'
<1>1. CASE part = "maps"  BY <1>1, PartSteps, Overlap, Maps!NextIInv DEF IInv
<1>2. CASE part = "sizes"  BY <1>2, PartSteps, SizesNextInv DEF IInv
<1>3. CASE part = "confs"  BY <1>3, PartSteps, ConfsNextInv DEF IInv
<1> QED  BY <1>1, <1>2, <1>3 DEF IInv

LEMMA IInvHolds == Spec => []IInv
<1>1. Init => IInv  BY InitIInv
<1>2. IInv /\ [Next]_vars => IInv'  BY NextIInv
<1> QED  BY <1>1, <1>2, PTL DEF Spec

\* Workers use only maps of their own Reconcile, of the built-in entries and of the
\* Schemes, sizes fit Go's integers whatever their widths, and a site has an address for
\* each of its namenodes.
THEOREM ObjectsTypeOK == Spec => []TypeOK
<1>1. IInv => TypeOK
  BY Overlap, Maps!TypesOfUses, SizesTypes, ConfsTypes DEF IInv, TypeOK
<1> QED  BY <1>1, IInvHolds, PTL

\* What constructHdfsCluster and the workers write into maps stays in the copy of their
\* Reconcile, and no worker uses a map while another writes it but for the two cases
\* NoMapRace names: for any workers of any Reconciles.
THEOREM ObjectsMapsSafe == Spec => []MapsSafe
<1>1. IInv => MapsSafe
  BY Overlap, Maps!WritesOfUses, Maps!RacesOfUses DEF IInv, MapsSafe
<1> QED  BY <1>1, IInvHolds, PTL

\* The volumes constructMinioTenant and constructHdfsCluster ask for together have what
\* the user asked for; a Tenant with the default disks passes Pool.Validate; and a worker
\* divides by zero only after a product has wrapped: for integers of any width.
THEOREM ObjectsCapacityHolds == Spec => CapacityHolds
<1>1. IInv => (part = "sizes" => Sizes!CapacityIsShared /\ Sizes!DefaultTenantAccepted)
  BY SizesShared, SizesAccepted DEF IInv
<1>2. IInv /\ [Next]_vars => [part = "sizes" => Sizes!NoPanicInRange]_sizesVars
  <2> SUFFICES ASSUME IInv, [Next]_vars, part = "sizes" PROVE Sizes!NoPanicInRange  OBVIOUS
  <2> QED  BY PartSteps, SizesNoPanic DEF IInv
<1> QED  BY <1>1, <1>2, IInvHolds, PTL DEF Spec, CapacityHolds

\* core-site names a file system that the hdfs-site next to it resolves, with an address
\* for each namenode, and a metastore that waited for HDFS is given only namenodes the
\* cluster has: for any name services and domains.
THEOREM ObjectsSitesAgree == Spec => []SitesAgree
<1>1. IInv => SitesAgree
  BY ConfsResolve, ConfsAddresses, ConfsRun DEF IInv, SitesAgree
<1> QED  BY <1>1, IInvHolds, PTL
=============================================================================
