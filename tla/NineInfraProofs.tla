-------------------------- MODULE NineInfraProofs ---------------------------
(***************************************************************************)
(* TLAPS proofs about NineInfra: for any NineClusters, specs, numbers of   *)
(* Reconciles, failing calls, edits, resyncs and restarts.                 *)
(***************************************************************************)
EXTENDS NineInfra, TLAPS

\* What the places of a worker's code know of the services and objects of its
\* NineCluster: each place has been reached through a Get, a Create or a wait.
PgKnows(w) ==
  /\ pc[w] \in {"pgSuperGet", "pgSuperCreate", "pgGet", "pgCreate"}
     => Exists(KeyOf(w), "pgUserSecret")
  /\ pc[w] \in {"pgGet", "pgCreate"} => Exists(KeyOf(w), "pgSuperSecret")

MinioKnows(w) ==
  /\ pc[w] \in {"minioUserGet", "minioUserCreate", "tenantGet", "tenantCreate"}
     => Exists(KeyOf(w), "minioConfigSecret")
  /\ pc[w] \in {"tenantGet", "tenantCreate"} => Exists(KeyOf(w), "minioUserSecret")

HdfsKnows(w) ==
  pc[w] \in {"hdfsGet", "hdfsCreate"} /\ namenodeHA(SpecOf(w), EntryOf(w))
  => Live(KeyOf(w), "zookeeper")

AtHdfs  == {"msNamenode", "msDataDir"}
AtMinio == {"msMinioSvc", "msMinioSecret", "msBucket", "msFolder"}
Prepared == {"msGet", "msCreate"}

MetastoreKnows(w) ==
  /\ pc[w] \in AtHdfs \cup AtMinio \cup Prepared => Live(KeyOf(w), "pg")
  /\ pc[w] \in AtHdfs => GetClusterStorage(SpecOf(w)) = "hdfs"
  /\ pc[w] \in AtMinio => GetClusterStorage(SpecOf(w)) = "minio"
  /\ pc[w] = "msFolder" => Has(KeyOf(w), "bucket")
  /\ pc[w] \in Prepared /\ GetClusterStorage(SpecOf(w)) = "minio"
     => Has(KeyOf(w), "bucket") /\ Has(KeyOf(w), "folder")
  /\ pc[w] \in Prepared /\ GetClusterStorage(SpecOf(w)) = "hdfs"
     => Has(KeyOf(w), "dataDir")

BeforeKyuubi == {"kyuubiMinioSvc", "kyuubiMinioSecret", "kyuubiGet", "kyuubiCreate"}

KyuubiKnows(w) ==
  /\ pc[w] = "kyuubiTable" => Has(KeyOf(w), "sqlDatabase")
  /\ pc[w] = "kyuubiRow" => Has(KeyOf(w), "usersTable")
  /\ pc[w] \in {"kyuubiZk", "kyuubiMetastore"} \cup BeforeKyuubi /\ JdbcAuth(w)
     => Has(KeyOf(w), "userRow")
  /\ pc[w] \in {"kyuubiMetastore"} \cup BeforeKyuubi /\ IsKyuubiNeedHA(SpecOf(w))
     => Live(KeyOf(w), "zookeeper")
  /\ pc[w] \in BeforeKyuubi => Live(KeyOf(w), "metastore")

Knows(w) ==
  PgKnows(w) /\ MinioKnows(w) /\ HdfsKnows(w) /\ MetastoreKnows(w) /\ KyuubiKnows(w)

-----------------------------------------------------------------------------
\* The specs users may give, and what a Reconcile makes of them.
AllSpecs == UNION {Specs[k] : k \in Keys}
Filled   == {Fill(s) : s \in AllSpecs}

\* The type of every variable, run and local included.
Shape ==
  /\ nine \in [Keys -> [gen : Nat, spec : AllSpecs \cup {NoSpec}]]
  /\ objs \in [Keys -> [Kinds -> Bodies]]
  /\ live \subseteq Keys \X Services
  /\ items \subseteq Keys \X Items
  /\ queue \subseteq Keys
  /\ begun \in 0 .. MaxReconciles
  /\ run \in [Runs -> [key : Keys \cup {None}, gen : Nat, spec : Filled \cup {NoSpec}]]
  /\ pc \in [Workers -> Places]
  /\ local \in [Workers -> [endpoint : Keys \cup {None}, cred : Workers \cup {None},
                            replicas : Nat]]
  /\ MetastoreReplicas \in Nat
  /\ used \in [fails : Nat, crashes : Nat, updates : Nat, resyncs : Nat]

\* NineClusters that exist, and those that are queued, have a spec of a user.
SpecsKnown ==
  /\ \A k \in Keys : Created(k) => nine[k].spec \in AllSpecs
  /\ \A k \in queue : Created(k)

\* A worker belongs to a Reconcile that has begun, of a NineCluster that exists,
\* and serves an entry of its filled ClusterSet.
Started ==
  \A w \in Workers : pc[w] # "idle" =>
    /\ w[1] <= begun
    /\ KeyOf(w) \in Keys /\ run[w[1]].gen # 0 /\ SpecOf(w) \in Filled
    /\ w[2] \in DOMAIN SpecOf(w).clusterSet
    /\ pc[w] \notin {"done", "lost"} => TypeOf(w) \in WorkerTypes

\* The inductive invariant: ProvisionOrder, and what makes it stay.
Inv ==
  /\ Shape /\ SpecsKnown /\ Started
  /\ \A w \in Workers : Knows(w)
  /\ ProvisionOrder

-----------------------------------------------------------------------------
(* Objects.                                                                *)

\* What ProvisionOrder asks of an object o of a kind when it is created.
Justified(k, kind, o) ==
  /\ kind = "pg" => Exists(k, "pgUserSecret") /\ Exists(k, "pgSuperSecret")
  /\ kind = "tenant" => Exists(k, "minioConfigSecret") /\ Exists(k, "minioUserSecret")
  /\ kind = "hdfs" /\ "zookeeper" \in o.refs => Live(k, "zookeeper")
  /\ kind = "metastore" =>
       /\ Live(k, "pg")
       /\ "minio" \in o.refs => Has(k, "bucket") /\ Has(k, "folder")
       /\ "hdfs" \in o.refs => Has(k, "dataDir")
  /\ kind = "kyuubi" =>
       /\ Live(k, "metastore")
       /\ "jdbc" \in o.refs => Has(k, "userRow")
       /\ "zookeeper" \in o.refs => Live(k, "zookeeper")

\* A worker that is at work has a NineCluster, a spec and an entry.
LEMMA WorkingFacts ==
  ASSUME Inv, NEW w \in Workers, pc[w] # "idle"
  PROVE  /\ w[1] \in Runs
         /\ KeyOf(w) \in Keys
         /\ run[w[1]].gen \in Nat \ {0}
         /\ EntryOf(w) \in ClusterInfos
<1>1. w[1] \in Runs
  BY DEF Workers
<1>2. KeyOf(w) \in Keys /\ SpecOf(w) \in Filled /\ run[w[1]].gen # 0
      /\ w[2] \in DOMAIN SpecOf(w).clusterSet
  BY DEF Inv, Started
<1>3. run[w[1]].gen \in Nat \ {0}
  BY <1>1, <1>2 DEF Inv, Shape
<1>4. \E k \in Keys : \E s \in Specs[k] : SpecOf(w) = Fill(s)
  BY <1>2 DEF Filled, AllSpecs
<1>5. SpecOf(w).clusterSet \in Seq(ClusterInfos)
  BY <1>4, NineInfraAssumption
<1>6. EntryOf(w) \in ClusterInfos
  BY <1>2, <1>5 DEF EntryOf
<1> QED
  BY <1>1, <1>2, <1>3, <1>6

\* GetClusterStorage falls back to minio: there is no third storage.
LEMMA StorageKnown ==
  ASSUME NEW s
  PROVE  GetClusterStorage(s) \in {"minio", "hdfs"}
  BY DEF GetClusterStorage, NineInfraSupportedStorageList

\* The objects workers make are well formed.
LEMMA BodyType ==
  ASSUME Inv, NEW w \in Workers, pc[w] # "idle"
  PROVE  Body(w) \in Bodies /\ Body(w).gen # 0
  BY WorkingFacts DEF Body, Bodies, Missing, Inv, Shape

\* So are those that keep a number of replicas or new keys besides.
LEMMA BodyTypes ==
  ASSUME Inv, NEW w \in Workers, pc[w] # "idle"
  PROVE  /\ [Body(w) EXCEPT !.replicas = 3] \in Bodies
         /\ [Body(w) EXCEPT !.replicas = 3].gen # 0
         /\ [Body(w) EXCEPT !.cred = w] \in Bodies
         /\ [Body(w) EXCEPT !.cred = w].gen # 0
  BY BodyType DEF Bodies

\* An HdfsCluster refers to ZooKeeper for two namenodes only.
LEMMA HdfsBodyType ==
  ASSUME Inv, NEW w \in Workers, pc[w] # "idle"
  PROVE  /\ HdfsBody(w) \in Bodies /\ HdfsBody(w).gen # 0
         /\ "zookeeper" \in HdfsBody(w).refs => namenodeHA(SpecOf(w), EntryOf(w))
<1>1. EntryOf(w).replicas \in Nat
  BY WorkingFacts DEF ClusterInfos
<1> QED
  BY <1>1, BodyType DEF HdfsBody, Bodies, Refs

\* A MetastoreCluster refers to the storage the spec asks for and no other.
LEMMA MetastoreBodyType ==
  ASSUME Inv, NEW w \in Workers, pc[w] # "idle"
  PROVE  /\ MetastoreBody(w) \in Bodies /\ MetastoreBody(w).gen # 0
         /\ \A s \in {"minio", "hdfs"} :
              s \in MetastoreBody(w).refs => GetClusterStorage(SpecOf(w)) = s
<1>1. local[w] \in [endpoint : Keys \cup {None}, cred : Workers \cup {None}, replicas : Nat]
  BY DEF Inv, Shape
<1>2. GetClusterStorage(SpecOf(w)) \in {"minio", "hdfs"}
  BY StorageKnown
<1> QED
  BY <1>1, <1>2, BodyType DEF MetastoreBody, Bodies, Refs

\* A KyuubiCluster refers to the users' table and to ZooKeeper if its spec
\* asks for them.
LEMMA KyuubiBodyType ==
  ASSUME Inv, NEW w \in Workers, pc[w] # "idle"
  PROVE  /\ KyuubiBody(w) \in Bodies /\ KyuubiBody(w).gen # 0
         /\ "jdbc" \in KyuubiBody(w).refs => JdbcAuth(w)
         /\ "zookeeper" \in KyuubiBody(w).refs => IsKyuubiNeedHA(SpecOf(w))
<1>1. local[w] \in [endpoint : Keys \cup {None}, cred : Workers \cup {None}, replicas : Nat]
  BY DEF Inv, Shape
<1>2. GetClusterStorage(SpecOf(w)) \in {"minio", "hdfs"}
  BY StorageKnown
<1>3. EntryOf(w).replicas \in Nat
  BY WorkingFacts DEF ClusterInfos
<1>4. getKyuubiReplicas(SpecOf(w), EntryOf(w)) \in Nat
  BY <1>3 DEF getKyuubiReplicas
<1> QED
  BY <1>1, <1>2, <1>4, BodyType DEF KyuubiBody, Bodies, Refs

-----------------------------------------------------------------------------
(* The steps of workers.                                                   *)

\* A worker's step: it moves on, creates at most one object, which is
\* justified, and takes nothing away.
Moves(w) ==
  /\ UNCHANGED <<nine, live, queue, begun, run>>
  /\ \E q \in Places : pc' = [pc EXCEPT ![w] = q]
  /\ items \subseteq items' /\ items' \subseteq Keys \X Items
  /\ local' \in [Workers -> [endpoint : Keys \cup {None}, cred : Workers \cup {None},
                             replicas : Nat]]
  /\ MetastoreReplicas' \in Nat
  /\ used' \in [fails : Nat, crashes : Nat, updates : Nat, resyncs : Nat]
  /\ \/ objs' = objs
     \/ \E kind \in Kinds : \E o \in Bodies :
          /\ ~ Exists(KeyOf(w), kind) /\ o.gen # 0
          /\ Justified(KeyOf(w), kind, o)
          /\ objs' = [objs EXCEPT ![KeyOf(w)][kind] = o]

\* Objects stay what they are, services and items stay.
Grows ==
  /\ \A k \in Keys : \A kind \in Kinds :
       Exists(k, kind) => objs'[k][kind] = objs[k][kind]
  /\ live \subseteq live'
  /\ items \subseteq items'

\* One object added.
LEMMA Added ==
  ASSUME NEW f \in [Keys -> [Kinds -> Bodies]], NEW k \in Keys, NEW kind \in Kinds,
         NEW o \in Bodies, NEW g, g = [f EXCEPT ![k][kind] = o]
  PROVE  /\ g \in [Keys -> [Kinds -> Bodies]]
         /\ g[k][kind] = o
         /\ \A j \in Keys : \A l \in Kinds : <<j, l>> # <<k, kind>> => g[j][l] = f[j][l]
<1>1. /\ DOMAIN g = Keys
      /\ g[k] = [f[k] EXCEPT ![kind] = o]
      /\ \A j \in Keys : j # k => g[j] = f[j]
  OBVIOUS
<1>2. f[k] \in [Kinds -> Bodies]
  OBVIOUS
<1>3. g[k] \in [Kinds -> Bodies] /\ g[k][kind] = o
      /\ \A l \in Kinds : l # kind => g[k][l] = f[k][l]
  BY <1>1, <1>2
<1>4. g \in [Keys -> [Kinds -> Bodies]]
  <2>1. \A j \in Keys : g[j] \in [Kinds -> Bodies]
    BY <1>1, <1>3
  <2>2. g = [j \in Keys |-> g[j]]
    OBVIOUS
  <2> QED
    BY <2>1, <2>2
<1> QED
  BY <1>1, <1>3, <1>4

\* The objects after a worker's step.
LEMMA MovesObjects ==
  ASSUME Inv, NEW w \in Workers, KeyOf(w) \in Keys, Moves(w)
  PROVE  /\ objs' \in [Keys -> [Kinds -> Bodies]]
         /\ \A k \in Keys : \A kind \in Kinds :
              \/ objs'[k][kind] = objs[k][kind]
              \/ ~ Exists(k, kind) /\ Justified(k, kind, objs'[k][kind])
<1>1. objs \in [Keys -> [Kinds -> Bodies]]
  BY DEF Inv, Shape
<1>2. CASE objs' = objs
  BY <1>1, <1>2
<1>3. CASE objs' # objs
  <2>1. PICK kind \in Kinds, o \in Bodies :
          /\ ~ Exists(KeyOf(w), kind)
          /\ Justified(KeyOf(w), kind, o)
          /\ objs' = [objs EXCEPT ![KeyOf(w)][kind] = o]
    BY <1>3 DEF Moves
  <2>2. /\ objs' \in [Keys -> [Kinds -> Bodies]]
        /\ objs'[KeyOf(w)][kind] = o
        /\ \A j \in Keys : \A l \in Kinds :
             <<j, l>> # <<KeyOf(w), kind>> => objs'[j][l] = objs[j][l]
    BY <1>1, <2>1, Added
  <2> QED
    BY <2>1, <2>2
<1> QED
  BY <1>2, <1>3

\* A worker's step takes nothing away.
LEMMA MovesGrow ==
  ASSUME Inv, NEW w \in Workers, KeyOf(w) \in Keys, Moves(w)
  PROVE  Grows
  BY MovesObjects DEF Moves, Grows

\* What a place knows stays true.
LEMMA KnowsStays ==
  ASSUME Inv, Grows, NEW v \in Workers, Knows(v), pc'[v] = pc[v],
         run'[v[1]] = run[v[1]], pc[v] # "idle"
  PROVE  Knows(v)'
<1>1. KeyOf(v) \in Keys /\ KeyOf(v)' = KeyOf(v) /\ SpecOf(v)' = SpecOf(v)
      /\ EntryOf(v)' = EntryOf(v)
  BY WorkingFacts DEF KeyOf, SpecOf, EntryOf
<1>2. \A kind \in Kinds : Exists(KeyOf(v), kind) => Exists(KeyOf(v), kind)'
  BY <1>1 DEF Grows, Exists
<1>3. \A s : Live(KeyOf(v), s) => Live(KeyOf(v), s)'
  BY <1>1 DEF Grows, Live
<1>4. \A d : Has(KeyOf(v), d) => Has(KeyOf(v), d)'
  BY <1>1 DEF Grows, Has
<1>5. PgKnows(v)' /\ MinioKnows(v)'
  BY <1>1, <1>2 DEF Knows, PgKnows, MinioKnows, Kinds, Secrets
<1>6. HdfsKnows(v)'
  BY <1>1, <1>3 DEF Knows, HdfsKnows
<1>7. MetastoreKnows(v)'
  BY <1>1, <1>3, <1>4 DEF Knows, MetastoreKnows
<1>8. KyuubiKnows(v)'
  BY <1>1, <1>3, <1>4 DEF Knows, KyuubiKnows, JdbcAuth
<1> QED
  BY <1>5, <1>6, <1>7, <1>8 DEF Knows

\* The order of what was created stays, and holds of what is created.
LEMMA OrderStays ==
  ASSUME Inv, Grows,
         \A k \in Keys : \A kind \in Kinds :
           \/ objs'[k][kind] = objs[k][kind]
           \/ Justified(k, kind, objs'[k][kind])
  PROVE  ProvisionOrder'
<1> SUFFICES ASSUME NEW k \in Keys
             PROVE  /\ PgOrdered(k)' /\ TenantOrdered(k)' /\ HdfsOrdered(k)'
                    /\ MetastoreOrdered(k)' /\ KyuubiOrdered(k)'
  BY DEF ProvisionOrder
<1>1. \A kind \in Kinds : Exists(k, kind) => Exists(k, kind)'
  BY DEF Grows, Exists
<1>2. \A s : Live(k, s) => Live(k, s)'
  BY DEF Grows, Live
<1>3. \A d : Has(k, d) => Has(k, d)'
  BY DEF Grows, Has
<1>4. PgOrdered(k)'
  BY <1>1 DEF Inv, ProvisionOrder, PgOrdered, Justified, Exists, Kinds, Secrets
<1>5. TenantOrdered(k)'
  BY <1>1 DEF Inv, ProvisionOrder, TenantOrdered, Justified, Exists, Kinds, Secrets
<1>6. HdfsOrdered(k)'
  BY <1>2 DEF Inv, ProvisionOrder, HdfsOrdered, Justified, Kinds
<1>7. MetastoreOrdered(k)'
  BY <1>2, <1>3 DEF Inv, ProvisionOrder, MetastoreOrdered, Justified, Exists, Kinds
<1>8. KyuubiOrdered(k)'
  BY <1>2, <1>3 DEF Inv, ProvisionOrder, KyuubiOrdered, Justified, Exists, Kinds
<1> QED
  BY <1>4, <1>5, <1>6, <1>7, <1>8

\* A worker's step keeps the invariant, if the worker knows what it should
\* where it arrives.
LEMMA MovesInv ==
  ASSUME Inv, NEW w \in Workers, pc[w] \notin {"idle", "done", "lost"}, Moves(w), Knows(w)'
  PROVE  Inv'
<1>1. pc[w] \notin {"idle", "done", "lost"} /\ KeyOf(w) \in Keys
  BY WorkingFacts
<1>2. Grows
  BY <1>1, MovesGrow
<1>3. PICK q \in Places : pc' = [pc EXCEPT ![w] = q]
  BY DEF Moves
<1>4. \A v \in Workers : v # w => pc'[v] = pc[v]
  BY <1>3 DEF Inv, Shape
<1>5. Shape'
  <2>1. objs' \in [Keys -> [Kinds -> Bodies]]
    BY <1>1, MovesObjects
  <2>2. pc' \in [Workers -> Places]
    BY <1>3 DEF Inv, Shape
  <2> QED
    BY <2>1, <2>2 DEF Inv, Shape, Moves
<1>6. SpecsKnown'
  BY DEF Inv, SpecsKnown, Created, Moves
<1>7. Started'
  <2> SUFFICES ASSUME NEW v \in Workers, pc'[v] # "idle"
               PROVE  /\ v[1] <= begun'
                      /\ KeyOf(v)' \in Keys /\ run'[v[1]].gen # 0
                      /\ SpecOf(v)' \in Filled
                      /\ v[2] \in DOMAIN SpecOf(v)'.clusterSet
                      /\ pc'[v] \notin {"done", "lost"} => TypeOf(v)' \in WorkerTypes
    BY DEF Started
  <2>1. /\ KeyOf(v)' = KeyOf(v) /\ SpecOf(v)' = SpecOf(v) /\ TypeOf(v)' = TypeOf(v)
        /\ run' = run /\ begun' = begun
    BY DEF Moves, KeyOf, SpecOf, TypeOf, EntryOf
  <2>2. pc[v] # "idle" /\ (pc'[v] \notin {"done", "lost"} => pc[v] \notin {"done", "lost"})
    BY <1>1, <1>4
  <2> QED
    BY <2>1, <2>2 DEF Inv, Started
<1>8. ASSUME NEW v \in Workers PROVE Knows(v)'
  <2>1. CASE v = w
    BY <2>1
  <2>2. CASE v # w /\ pc[v] # "idle"
    BY <1>2, <1>4, <2>2, KnowsStays DEF Inv, Moves
  <2>3. CASE v # w /\ pc[v] = "idle"
    BY <1>4, <2>3 DEF Knows, PgKnows, MinioKnows, HdfsKnows, MetastoreKnows, KyuubiKnows,
                      AtHdfs, AtMinio, Prepared, BeforeKyuubi
  <2> QED
    BY <2>1, <2>2, <2>3
<1>9. ProvisionOrder'
  <2>1. \A k \in Keys : \A kind \in Kinds :
          \/ objs'[k][kind] = objs[k][kind]
          \/ Justified(k, kind, objs'[k][kind])
    BY <1>1, MovesObjects
  <2> QED
    BY <1>2, <2>1, OrderStays
<1> QED
  BY <1>5, <1>6, <1>7, <1>8, <1>9 DEF Inv

-----------------------------------------------------------------------------
(* The calls of workers.                                                   *)

\* Where no fact of Knows is needed.
Ignorant ==
  Ended \cup {"spawned", "pgUserGet", "pgUserCreate", "minioConfigGet",
              "minioConfigCreate", "tenantGetNil", "zkGet", "zkCreate", "dorisGet",
              "dorisGetNil", "dorisCreate", "hdfsZk", "msInit", "msDatabase",
              "kyuubiDb"}

\* At such a place a worker knows all it has to.
LEMMA NothingToKnow ==
  ASSUME NEW w, pc'[w] \in Ignorant
  PROVE  Knows(w)'
  BY DEF Ignorant, Ended, Knows, PgKnows, MinioKnows, HdfsKnows, MetastoreKnows,
         KyuubiKnows, AtHdfs, AtMinio, Prepared, BeforeKyuubi

\* What a worker's step leaves of what it knew.
LEMMA Carries ==
  ASSUME Inv, NEW w \in Workers, Working(w), Moves(w)
  PROVE  /\ KeyOf(w) \in Keys
         /\ KeyOf(w)' = KeyOf(w) /\ SpecOf(w)' = SpecOf(w) /\ EntryOf(w)' = EntryOf(w)
         /\ JdbcAuth(w)' = JdbcAuth(w)
         /\ \A kind \in Kinds : Exists(KeyOf(w), kind) => Exists(KeyOf(w), kind)'
         /\ \A s : Live(KeyOf(w), s)' = Live(KeyOf(w), s)
         /\ \A d : Has(KeyOf(w), d) => Has(KeyOf(w), d)'
<1>1. KeyOf(w) \in Keys
  BY WorkingFacts DEF Working, Ended
<1>2. /\ KeyOf(w)' = KeyOf(w) /\ SpecOf(w)' = SpecOf(w) /\ EntryOf(w)' = EntryOf(w)
      /\ JdbcAuth(w)' = JdbcAuth(w)
  BY DEF Moves, KeyOf, SpecOf, EntryOf, JdbcAuth
<1>3. Grows
  BY <1>1, MovesGrow
<1>4. \A kind \in Kinds : Exists(KeyOf(w), kind) => Exists(KeyOf(w), kind)'
  BY <1>1, <1>2, <1>3 DEF Grows, Exists
<1>5. \A s : Live(KeyOf(w), s)' = Live(KeyOf(w), s)
  BY <1>2 DEF Moves, Live
<1>6. \A d : Has(KeyOf(w), d) => Has(KeyOf(w), d)'
  BY <1>2, <1>3 DEF Grows, Has
<1> QED
  BY <1>1, <1>2, <1>4, <1>5, <1>6

\* A Get leads to found only if the object exists, cached or not.
LEMMA GetMoves ==
  ASSUME Inv, NEW w \in Workers, NEW here, NEW kind, NEW found \in Places,
         NEW missing \in Places,
         \/ GetObject(w, here, kind, found, missing)
         \/ GetCached(w, here, kind, found, missing)
  PROVE  /\ Moves(w) /\ pc[w] = here
         /\ \/ pc'[w] = found /\ Exists(KeyOf(w), kind)
            \/ pc'[w] = missing
<1>1. \/ pc[w] = here /\ pc' = [pc EXCEPT ![w] = found] /\ Exists(KeyOf(w), kind)
      \/ pc[w] = here /\ pc' = [pc EXCEPT ![w] = missing]
  BY DEF GetObject, GetCached, Goto, Exists
<1>2. UNCHANGED <<Outside, objs, items, local, MetastoreReplicas, used>>
  BY DEF GetObject, GetCached
<1> QED
  BY <1>1, <1>2 DEF Outside, Moves, Inv, Shape

\* A wait ends when what it waits for holds.
LEMMA WaitMoves ==
  ASSUME Inv, NEW w \in Workers, NEW here, NEW ready, NEW next \in Places,
         WaitFor(w, here, ready, next)
  PROVE  Moves(w) /\ pc[w] = here /\ pc'[w] = next /\ ready
  BY DEF WaitFor, Goto, Outside, Moves, Inv, Shape

\* A call that fails changes the place of the worker only.
LEMMA FailMoves ==
  ASSUME Inv, NEW w \in Workers, NEW from, NEW next \in Places,
         CallFails(w, from, next)
  PROVE  Moves(w) /\ pc[w] \in from /\ pc'[w] = next
<1>1. used' \in [fails : Nat, crashes : Nat, updates : Nat, resyncs : Nat]
  BY DEF CallFails, Inv, Shape
<1> QED
  BY <1>1 DEF CallFails, Outside, Moves, Inv, Shape

\* After a Create the object exists, whoever made it.
LEMMA CreateMoves ==
  ASSUME Inv, NEW w \in Workers, KeyOf(w) \in Keys, NEW here, NEW kind \in Kinds,
         NEW body \in Bodies, body.gen # 0, Justified(KeyOf(w), kind, body),
         NEW next \in Places, NEW exists \in Places,
         CreateObject(w, here, kind, body, next, exists)
  PROVE  /\ Moves(w) /\ pc[w] = here
         /\ pc'[w] \in {next, exists}
         /\ Exists(KeyOf(w), kind)'
<1>1. pc[w] = here /\ \E q \in {next, exists} : pc' = [pc EXCEPT ![w] = q]
  BY DEF CreateObject, Goto
<1>2. UNCHANGED <<Outside, items, local, MetastoreReplicas, used>>
  BY DEF CreateObject
<1>3. \/ objs' = objs /\ Exists(KeyOf(w), kind)
      \/ ~ Exists(KeyOf(w), kind) /\ objs' = [objs EXCEPT ![KeyOf(w)][kind] = body]
  BY DEF CreateObject
<1>4. Moves(w)
  BY <1>1, <1>2, <1>3 DEF Outside, Moves, Inv, Shape
<1>5. Exists(KeyOf(w), kind)'
  <2>1. KeyOf(w)' = KeyOf(w)
    BY <1>2 DEF Outside, KeyOf
  <2>2. CASE objs' = objs /\ Exists(KeyOf(w), kind)
    BY <2>1, <2>2 DEF Exists
  <2>3. CASE objs' = [objs EXCEPT ![KeyOf(w)][kind] = body]
    BY <2>1, <2>3, Added DEF Exists, Inv, Shape
  <2> QED
    BY <1>3, <2>2, <2>3
<1> QED
  BY <1>1, <1>4, <1>5 DEF Inv, Shape

\* A Create whose answer is lost adds a justified object too.
LEMMA LostMoves ==
  ASSUME Inv, NEW w \in Workers, KeyOf(w) \in Keys, NEW here, NEW kind \in Kinds,
         NEW body \in Bodies, body.gen # 0, Justified(KeyOf(w), kind, body),
         NEW next \in Places, CreateUnanswered(w, here, kind, body, next)
  PROVE  Moves(w) /\ pc[w] = here /\ pc'[w] = next
<1>1. used' \in [fails : Nat, crashes : Nat, updates : Nat, resyncs : Nat]
  BY DEF CreateUnanswered, Inv, Shape
<1>2. ~ Exists(KeyOf(w), kind) /\ objs' = [objs EXCEPT ![KeyOf(w)][kind] = body]
  BY DEF CreateUnanswered
<1> QED
  BY <1>1, <1>2 DEF CreateUnanswered, Goto, Outside, Moves, Inv, Shape

\* What is written into a service is there afterwards.
LEMMA WriteMoves ==
  ASSUME Inv, NEW w \in Workers, KeyOf(w) \in Keys, NEW here, NEW s,
         NEW d \in Items, NEW next \in Places, WriteItem(w, here, s, d, next)
  PROVE  /\ Moves(w) /\ pc[w] = here /\ pc'[w] = next
         /\ Live(KeyOf(w), s) /\ Has(KeyOf(w), d)'
<1>1. KeyOf(w)' = KeyOf(w)
  BY DEF WriteItem, Outside, KeyOf
<1>2. items' = items \cup {<<KeyOf(w), d>>} /\ <<KeyOf(w), d>> \in Keys \X Items
  BY DEF WriteItem
<1>3. items \subseteq items' /\ items' \subseteq Keys \X Items
  BY <1>2 DEF Inv, Shape
<1>4. Moves(w) /\ pc[w] = here /\ pc'[w] = next
  BY <1>3 DEF WriteItem, Goto, Outside, Moves, Inv, Shape
<1> QED
  BY <1>1, <1>2, <1>4 DEF WriteItem, Has

-----------------------------------------------------------------------------
(* The workers, one lemma each.                                            *)

\* The places of each worker, and what is enough to know there.
PgPlaces == {"pgUserGet", "pgUserCreate", "pgSuperGet", "pgSuperCreate", "pgGet",
             "pgCreate", "done", "failed"}
MinioPlaces == {"minioConfigGet", "minioConfigCreate", "minioUserGet", "minioUserCreate",
                "tenantGet", "tenantGetNil", "tenantCreate", "done", "failed"}
HdfsPlaces == {"hdfsZk", "hdfsGet", "hdfsCreate", "done", "failed"}
MetastorePlaces == {"msInit", "msDatabase", "done", "failed"} \cup AtHdfs \cup AtMinio
                   \cup Prepared
KyuubiPlaces == {"kyuubiDb", "kyuubiTable", "kyuubiRow", "kyuubiZk", "kyuubiMetastore",
                 "done", "failed"} \cup BeforeKyuubi

\* Of a worker's facts, those of its own kind are all that matter.
LEMMA EnoughToKnow ==
  ASSUME NEW w,
         \/ pc'[w] \in PgPlaces /\ PgKnows(w)'
         \/ pc'[w] \in MinioPlaces /\ MinioKnows(w)'
         \/ pc'[w] \in HdfsPlaces /\ HdfsKnows(w)'
         \/ pc'[w] \in MetastorePlaces /\ MetastoreKnows(w)'
         \/ pc'[w] \in KyuubiPlaces /\ KyuubiKnows(w)'
  PROVE  Knows(w)'
  BY DEF PgPlaces, MinioPlaces, HdfsPlaces, MetastorePlaces, KyuubiPlaces,
         Knows, PgKnows, MinioKnows, HdfsKnows, MetastoreKnows, KyuubiKnows,
         AtHdfs, AtMinio, Prepared, BeforeKyuubi

\* The places of the workers are places of the program.
LEMMA PlacesKnown ==
  /\ PgPlaces \cup MinioPlaces \cup HdfsPlaces \cup MetastorePlaces \cup KyuubiPlaces
       \subseteq Places
  /\ {"zkGet", "zkCreate", "dorisGet", "dorisGetNil", "dorisCreate"} \subseteq Places
  BY DEF PgPlaces, MinioPlaces, HdfsPlaces, MetastorePlaces, KyuubiPlaces, Places, Ended,
         AtHdfs, AtMinio, Prepared, BeforeKyuubi

\* The worker of a database entry moves on, knowing its secrets.
LEMMA DatabaseSteps ==
  ASSUME Inv, NEW w \in Workers, Working(w),
         reconcilePGCluster(w) \/ DatabaseErrors(w)
  PROVE  Moves(w) /\ Knows(w)'
<1> DEFINE k == KeyOf(w)
           Goal == Moves(w) /\ pc'[w] \in PgPlaces /\ PgKnows(w)'
<1>a. pc[w] # "idle" /\ k \in Keys /\ PgKnows(w)
  BY WorkingFacts DEF Working, Ended, Inv, Knows
<1>b. Body(w) \in Bodies /\ Body(w).gen # 0
  BY <1>a, BodyType
<1>c. /\ {"pgUserSecret", "pgSuperSecret", "pg"} \subseteq Kinds
      /\ PgPlaces \subseteq Places
  BY PlacesKnown DEF Kinds, Secrets
<1> SUFFICES Goal
  BY EnoughToKnow
<1>1. CASE GetCached(w, "pgUserGet", "pgUserSecret", "pgSuperGet", "pgUserCreate")
  BY <1>a, <1>c, <1>1, GetMoves, Carries DEF PgKnows, PgPlaces
<1>2. CASE CreateObject(w, "pgUserCreate", "pgUserSecret", Body(w), "pgSuperGet", "pgSuperGet")
  <2>1. Justified(k, "pgUserSecret", Body(w))
    BY DEF Justified
  <2>2. Moves(w) /\ pc'[w] = "pgSuperGet" /\ Exists(k, "pgUserSecret")'
    BY <1>a, <1>b, <1>c, <1>2, <2>1, CreateMoves DEF PgPlaces
  <2> QED
    BY <2>2 DEF PgKnows, PgPlaces
<1>3. CASE GetCached(w, "pgSuperGet", "pgSuperSecret", "pgGet", "pgSuperCreate")
  BY <1>a, <1>c, <1>3, GetMoves, Carries DEF PgKnows, PgPlaces
<1>4. CASE CreateObject(w, "pgSuperCreate", "pgSuperSecret", Body(w), "pgGet", "pgGet")
  <2>1. Justified(k, "pgSuperSecret", Body(w))
    BY DEF Justified
  <2>2. Moves(w) /\ pc[w] = "pgSuperCreate" /\ pc'[w] = "pgGet" /\ Exists(k, "pgSuperSecret")'
    BY <1>a, <1>b, <1>c, <1>4, <2>1, CreateMoves DEF PgPlaces
  <2> QED
    BY <1>a, <1>c, <2>2, Carries DEF PgKnows, PgPlaces
<1>5. CASE GetObject(w, "pgGet", "pg", "done", "pgCreate")
  BY <1>a, <1>c, <1>5, GetMoves, Carries DEF PgKnows, PgPlaces
<1>6. CASE CreateObject(w, "pgCreate", "pg", Body(w), "done", "failed")
  <2>1. Justified(k, "pg", Body(w))
    BY <1>a, <1>6 DEF Justified, PgKnows, CreateObject, Goto
  <2>2. Moves(w) /\ pc'[w] \in {"done", "failed"}
    BY <1>a, <1>b, <1>c, <1>6, <2>1, CreateMoves DEF PgPlaces
  <2> QED
    BY <2>2 DEF PgKnows, PgPlaces
<1>7. CASE CallFails(w, {"pgUserGet", "pgUserCreate", "pgSuperGet", "pgSuperCreate",
                         "pgGet", "pgCreate"}, "failed")
  BY <1>c, <1>7, FailMoves DEF PgKnows, PgPlaces
<1>8. CASE \/ CreateUnanswered(w, "pgUserCreate", "pgUserSecret", Body(w), "failed")
           \/ CreateUnanswered(w, "pgSuperCreate", "pgSuperSecret", Body(w), "failed")
           \/ CreateUnanswered(w, "pgCreate", "pg", Body(w), "failed")
  <2>1. \A kind \in {"pgUserSecret", "pgSuperSecret"} : Justified(k, kind, Body(w))
    BY DEF Justified
  <2>2. pc[w] = "pgCreate" => Justified(k, "pg", Body(w))
    BY <1>a DEF Justified, PgKnows
  <2>3. Moves(w) /\ pc'[w] = "failed"
    BY <1>a, <1>b, <1>c, <1>8, <2>1, <2>2, LostMoves DEF PgPlaces, CreateUnanswered, Goto
  <2> QED
    BY <2>3 DEF PgKnows, PgPlaces
<1> QED
  BY <1>1, <1>2, <1>3, <1>4, <1>5, <1>6, <1>7, <1>8 DEF reconcilePGCluster, DatabaseErrors,
     reconcilePGInitDBUserSecret, reconcilePGSuperUserSecret

\* The worker of a minio entry moves on, knowing its secrets.
LEMMA MinioSteps ==
  ASSUME Inv, NEW w \in Workers, Working(w),
         reconcileMinioTenant(w) \/ MinioErrors(w)
  PROVE  Moves(w) /\ Knows(w)'
<1> DEFINE k == KeyOf(w)
           keyed == [Body(w) EXCEPT !.cred = w]
           Goal == Moves(w) /\ pc'[w] \in MinioPlaces /\ MinioKnows(w)'
<1>a. pc[w] # "idle" /\ k \in Keys /\ MinioKnows(w)
  BY WorkingFacts DEF Working, Ended, Inv, Knows
<1>b. Body(w) \in Bodies /\ Body(w).gen # 0 /\ keyed \in Bodies /\ keyed.gen # 0
  BY <1>a, BodyType, BodyTypes
<1>c. /\ {"minioConfigSecret", "minioUserSecret", "tenant"} \subseteq Kinds
      /\ MinioPlaces \subseteq Places
  BY PlacesKnown DEF Kinds, Secrets
<1> SUFFICES Goal
  BY EnoughToKnow
<1>1. CASE GetCached(w, "minioConfigGet", "minioConfigSecret", "minioUserGet", "minioConfigCreate")
  BY <1>a, <1>c, <1>1, GetMoves, Carries DEF MinioKnows, MinioPlaces
<1>2. CASE CreateObject(w, "minioConfigCreate", "minioConfigSecret", Body(w), "minioUserGet", "tenantGetNil")
  <2>1. Justified(k, "minioConfigSecret", Body(w))
    BY DEF Justified
  <2>2. Moves(w) /\ pc'[w] \in {"minioUserGet", "tenantGetNil"} /\ Exists(k, "minioConfigSecret")'
    BY <1>a, <1>b, <1>c, <1>2, <2>1, CreateMoves DEF MinioPlaces
  <2> QED
    BY <2>2 DEF MinioKnows, MinioPlaces
<1>3. CASE GetCached(w, "minioUserGet", "minioUserSecret", "tenantGet", "minioUserCreate")
  BY <1>a, <1>c, <1>3, GetMoves, Carries DEF MinioKnows, MinioPlaces
<1>4. CASE CreateObject(w, "minioUserCreate", "minioUserSecret", keyed, "tenantGet", "tenantGetNil")
  <2>1. Justified(k, "minioUserSecret", keyed)
    BY DEF Justified
  <2> HIDE DEF keyed
  <2>2. Moves(w) /\ pc[w] = "minioUserCreate" /\ pc'[w] \in {"tenantGet", "tenantGetNil"}
        /\ Exists(k, "minioUserSecret")'
    BY <1>a, <1>b, <1>c, <1>4, <2>1, CreateMoves DEF MinioPlaces
  <2> QED
    BY <1>a, <1>c, <2>2, Carries DEF MinioKnows, MinioPlaces
<1>5. CASE \/ GetObject(w, "tenantGet", "tenant", "done", "tenantCreate")
           \/ GetObject(w, "tenantGetNil", "tenant", "done", "failed")
  <2>1. Moves(w) /\ \/ pc'[w] \in {"done", "failed"}
                    \/ pc[w] = "tenantGet" /\ pc'[w] = "tenantCreate"
    BY <1>c, <1>5, GetMoves DEF MinioPlaces
  <2> QED
    BY <1>a, <1>c, <2>1, Carries DEF MinioKnows, MinioPlaces
<1>6. CASE CreateObject(w, "tenantCreate", "tenant", Body(w), "done", "failed")
  <2>1. Justified(k, "tenant", Body(w))
    BY <1>a, <1>6 DEF Justified, MinioKnows, CreateObject, Goto
  <2>2. Moves(w) /\ pc'[w] \in {"done", "failed"}
    BY <1>a, <1>b, <1>c, <1>6, <2>1, CreateMoves DEF MinioPlaces
  <2> QED
    BY <2>2 DEF MinioKnows, MinioPlaces
<1>7. CASE \/ CallFails(w, {"minioConfigGet", "minioConfigCreate", "minioUserGet",
                            "minioUserCreate", "tenantGet"}, "tenantGetNil")
           \/ CallFails(w, {"tenantGet", "tenantGetNil", "tenantCreate"}, "failed")
  <2>1. Moves(w) /\ pc'[w] \in {"tenantGetNil", "failed"}
    BY <1>c, <1>7, FailMoves DEF MinioPlaces
  <2> QED
    BY <2>1 DEF MinioKnows, MinioPlaces
<1>8. CASE \/ CreateUnanswered(w, "minioConfigCreate", "minioConfigSecret", Body(w), "tenantGetNil")
           \/ CreateUnanswered(w, "minioUserCreate", "minioUserSecret", keyed, "tenantGetNil")
           \/ CreateUnanswered(w, "tenantCreate", "tenant", Body(w), "failed")
  <2>1. /\ Justified(k, "minioConfigSecret", Body(w))
        /\ Justified(k, "minioUserSecret", keyed)
    BY DEF Justified
  <2>2. pc[w] = "tenantCreate" => Justified(k, "tenant", Body(w))
    BY <1>a DEF Justified, MinioKnows
  <2> HIDE DEF keyed
  <2>3. CASE CreateUnanswered(w, "minioUserCreate", "minioUserSecret", keyed, "tenantGetNil")
    BY <1>a, <1>b, <1>c, <2>1, <2>3, LostMoves DEF MinioKnows, MinioPlaces
  <2>4. CASE CreateUnanswered(w, "minioConfigCreate", "minioConfigSecret", Body(w), "tenantGetNil")
    BY <1>a, <1>b, <1>c, <2>1, <2>4, LostMoves DEF MinioKnows, MinioPlaces
  <2>5. CASE CreateUnanswered(w, "tenantCreate", "tenant", Body(w), "failed")
    <3>1. Justified(k, "tenant", Body(w))
      BY <2>2, <2>5 DEF CreateUnanswered, Goto
    <3> QED
      BY <1>a, <1>b, <1>c, <2>5, <3>1, LostMoves DEF MinioKnows, MinioPlaces
  <2> QED
    BY <1>8, <2>3, <2>4, <2>5
<1> QED
  BY <1>1, <1>2, <1>3, <1>4, <1>5, <1>6, <1>7, <1>8 DEF reconcileMinioTenant, MinioErrors,
     reconcileMinioTenantConfigSecret, reconcileMinioNewUserSecret

\* The worker of a zookeeper entry refers to nothing.
LEMMA ZookeeperSteps ==
  ASSUME Inv, NEW w \in Workers, Working(w),
         reconcileZookeeperCluster(w) \/ ZookeeperErrors(w)
  PROVE  Moves(w) /\ Knows(w)'
<1> DEFINE three == [Body(w) EXCEPT !.replicas = 3]
           Steps == {"zkGet", "zkCreate", "done", "failed"}
<1>1. pc[w] # "idle" /\ KeyOf(w) \in Keys
  BY WorkingFacts DEF Working, Ended
<1>2. three \in Bodies /\ three.gen # 0 /\ Justified(KeyOf(w), "zookeeper", three)
  BY <1>1, BodyTypes DEF Justified
<1>3. "zookeeper" \in Kinds /\ Steps \subseteq Places
  BY DEF Kinds, Places, Ended
<1>4. \/ GetObject(w, "zkGet", "zookeeper", "done", "zkCreate")
      \/ CreateObject(w, "zkCreate", "zookeeper", three, "done", "failed")
      \/ CallFails(w, {"zkGet", "zkCreate"}, "failed")
      \/ CreateUnanswered(w, "zkCreate", "zookeeper", three, "failed")
  BY DEF reconcileZookeeperCluster, ZookeeperErrors
<1> HIDE DEF three
<1>5. Moves(w) /\ pc'[w] \in Steps
  BY <1>1, <1>2, <1>3, <1>4, GetMoves, CreateMoves, FailMoves, LostMoves
<1> QED
  BY <1>5, NothingToKnow DEF Ignorant, Ended

\* The worker of a doris entry refers to nothing.
LEMMA DorisSteps ==
  ASSUME Inv, NEW w \in Workers, Working(w),
         reconcileDorisCluster(w) \/ DorisErrors(w)
  PROVE  Moves(w) /\ Knows(w)'
<1> DEFINE Steps == {"dorisGet", "dorisGetNil", "dorisCreate", "done", "failed"}
<1>1. pc[w] # "idle" /\ KeyOf(w) \in Keys
  BY WorkingFacts DEF Working, Ended
<1>2. Body(w) \in Bodies /\ Body(w).gen # 0 /\ Justified(KeyOf(w), "doris", Body(w))
  BY <1>1, BodyType DEF Justified
<1>3. "doris" \in Kinds /\ Steps \subseteq Places
  BY DEF Kinds, Places, Ended
<1>4. Moves(w) /\ pc'[w] \in Steps
  BY <1>1, <1>2, <1>3, GetMoves, CreateMoves, FailMoves, LostMoves
     DEF reconcileDorisCluster, DorisErrors
<1> QED
  BY <1>4, NothingToKnow DEF Ignorant, Ended

\* The worker of an hdfs entry waits for ZooKeeper before it uses its addresses.
LEMMA HdfsSteps ==
  ASSUME Inv, NEW w \in Workers, Working(w),
         reconcileHdfsCluster(w) \/ HdfsErrors(w)
  PROVE  Moves(w) /\ Knows(w)'
<1> DEFINE k == KeyOf(w)
           Goal == Moves(w) /\ pc'[w] \in HdfsPlaces /\ HdfsKnows(w)'
<1>a. pc[w] # "idle" /\ k \in Keys /\ HdfsKnows(w)
  BY WorkingFacts DEF Working, Ended, Inv, Knows
<1>b. /\ HdfsBody(w) \in Bodies /\ HdfsBody(w).gen # 0
      /\ "zookeeper" \in HdfsBody(w).refs => namenodeHA(SpecOf(w), EntryOf(w))
  BY <1>a, HdfsBodyType
<1>c. "hdfs" \in Kinds /\ HdfsPlaces \subseteq Places
  BY PlacesKnown DEF Kinds
<1>d. pc[w] = "hdfsCreate" => Justified(k, "hdfs", HdfsBody(w))
  BY <1>a, <1>b DEF Justified, HdfsKnows
<1> SUFFICES Goal
  BY EnoughToKnow
<1>1. CASE WaitFor(w, "hdfsZk", getZookeeperExposedInfo(w), "hdfsGet")
  <2>1. Moves(w) /\ pc'[w] = "hdfsGet" /\ Live(k, "zookeeper")
    BY <1>c, <1>1, WaitMoves DEF HdfsPlaces, getZookeeperExposedInfo
  <2> QED
    BY <2>1, Carries DEF HdfsKnows, HdfsPlaces
<1>2. CASE GetObject(w, "hdfsGet", "hdfs", "done", "hdfsCreate")
  <2>1. Moves(w) /\ pc[w] = "hdfsGet" /\ pc'[w] \in {"done", "hdfsCreate"}
    BY <1>c, <1>2, GetMoves DEF HdfsPlaces
  <2> QED
    BY <1>a, <2>1, Carries DEF HdfsKnows, HdfsPlaces
<1>3. CASE \/ CreateObject(w, "hdfsCreate", "hdfs", HdfsBody(w), "done", "failed")
           \/ CallFails(w, {"hdfsGet", "hdfsCreate"}, "failed")
           \/ CreateUnanswered(w, "hdfsCreate", "hdfs", HdfsBody(w), "failed")
  <2>1. Moves(w) /\ pc'[w] \in {"done", "failed"}
    BY <1>a, <1>b, <1>c, <1>d, <1>3, CreateMoves, FailMoves, LostMoves
       DEF HdfsPlaces, CreateObject, CreateUnanswered, Goto
  <2> QED
    BY <2>1 DEF HdfsKnows, HdfsPlaces
<1> QED
  BY <1>1, <1>2, <1>3 DEF reconcileHdfsCluster, HdfsErrors

\* What getMinioExposedInfo reads is an endpoint and keys; it goes from the
\* service to the secret and from there on, or back.
LEMMA ExposedMoves ==
  ASSUME Inv, NEW w \in Workers, KeyOf(w) \in Keys,
         NEW svc \in Places, NEW secret \in Places, NEW next \in Places,
         \/ getMinioExposedInfo(w, svc, secret, next)
         \/ getMinioExposedInfoErrors(w, svc, secret, next)
  PROVE  /\ Moves(w)
         /\ \/ pc[w] = svc /\ pc'[w] = secret
            \/ pc[w] = secret /\ pc'[w] \in {svc, next}
<1> DEFINE Locals == [endpoint : Keys \cup {None}, cred : Workers \cup {None}, replicas : Nat]
<1>1. local \in [Workers -> Locals]
  BY DEF Inv, Shape
<1>2. CASE /\ Goto(w, svc, secret)
           /\ \E e \in MinioService(KeyOf(w)) : local' = [local EXCEPT ![w].endpoint = e]
           /\ UNCHANGED <<Outside, objs, items, MetastoreReplicas, used>>
  <2>1. local' \in [Workers -> Locals]
    BY <1>1, <1>2 DEF MinioService
  <2> QED
    BY <1>2, <2>1 DEF Goto, Outside, Moves, Inv, Shape
<1>3. CASE /\ Goto(w, secret, next)
           /\ Exists(KeyOf(w), "minioUserSecret")
           /\ local' = [local EXCEPT ![w].cred = objs[KeyOf(w)]["minioUserSecret"].cred]
           /\ UNCHANGED <<Outside, objs, items, MetastoreReplicas, used>>
  <2>1. objs[KeyOf(w)]["minioUserSecret"].cred \in Workers \cup {None}
    BY DEF Inv, Shape, Bodies, Kinds, Secrets
  <2>2. local' \in [Workers -> Locals]
    BY <1>1, <1>3, <2>1
  <2> QED
    BY <1>3, <2>2 DEF Goto, Outside, Moves, Inv, Shape
<1>4. CASE WaitFor(w, secret, ~ Exists(KeyOf(w), "minioUserSecret"), svc)
  BY <1>4, WaitMoves
<1>5. CASE CallFails(w, {svc}, secret) \/ CallFails(w, {secret}, next)
  BY <1>5, FailMoves
<1> QED
  BY <1>2, <1>3, <1>4, <1>5 DEF getMinioExposedInfo, getMinioExposedInfoErrors

\* The worker of a metastore entry creates after the database answers and the
\* storage it refers to has been prepared.
LEMMA MetastoreSteps ==
  ASSUME Inv, NEW w \in Workers, Working(w),
         reconcileMetastoreCluster(w) \/ MetastoreErrors(w)
  PROVE  Moves(w) /\ Knows(w)'
<1> DEFINE k == KeyOf(w)
           storage == GetClusterStorage(SpecOf(w))
           Goal == Moves(w) /\ pc'[w] \in MetastorePlaces /\ MetastoreKnows(w)'
<1>a. pc[w] # "idle" /\ k \in Keys /\ MetastoreKnows(w)
  BY WorkingFacts DEF Working, Ended, Inv, Knows
<1>b. /\ MetastoreBody(w) \in Bodies /\ MetastoreBody(w).gen # 0
      /\ \A s \in {"minio", "hdfs"} : s \in MetastoreBody(w).refs => storage = s
  BY <1>a, MetastoreBodyType
<1>c. "metastore" \in Kinds /\ MetastorePlaces \subseteq Places
      /\ {"dataDir", "bucket", "folder"} \subseteq Items
  BY PlacesKnown DEF Kinds, Items
<1>d. storage \in {"minio", "hdfs"}
  BY StorageKnown
<1>e. pc[w] = "msCreate" => Justified(k, "metastore", MetastoreBody(w))
  BY <1>a, <1>b DEF Justified, MetastoreKnows, Prepared
<1>f. Moves(w) => /\ GetClusterStorage(SpecOf(w))' = storage /\ KeyOf(w)' = k
                  /\ \A s : Live(k, s)' = Live(k, s)
                  /\ \A d : Has(k, d) => Has(k, d)'
  BY Carries
<1>g. {"msInit", "msDatabase", "msNamenode", "msDataDir", "msMinioSvc", "msMinioSecret",
       "msBucket", "msFolder", "msGet", "msCreate", "done", "failed"} = MetastorePlaces
  BY DEF MetastorePlaces, AtHdfs, AtMinio, Prepared
<1> SUFFICES Goal
  BY EnoughToKnow
<1> HIDE DEF k, storage
<1>1. CASE initMetastore(w)
  <2>1. MetastoreReplicas' \in Nat
    BY <1>1, <1>a, WorkingFacts DEF initMetastore, ClusterInfos, Inv, Shape
  <2>2. Moves(w) /\ pc'[w] = "msDatabase"
    BY <1>1, <1>c, <1>g, <2>1 DEF initMetastore, Goto, Outside, Moves, Inv, Shape
  <2> QED
    BY <1>g, <2>2 DEF MetastoreKnows, AtHdfs, AtMinio, Prepared
<1>2. CASE WaitFor(w, "msDatabase", getPGRWSvcNameWithSync(w),
                   IF GetClusterStorage(SpecOf(w)) = "hdfs" THEN "msNamenode" ELSE "msMinioSvc")
  <2>1. /\ Moves(w) /\ Live(k, "pg")
        /\ pc'[w] = IF storage = "hdfs" THEN "msNamenode" ELSE "msMinioSvc"
    BY <1>2, <1>c, <1>g, WaitMoves DEF getPGRWSvcNameWithSync, k, storage
  <2> QED
    BY <1>d, <1>f, <1>g, <2>1 DEF MetastoreKnows, AtHdfs, AtMinio, Prepared, k, storage
<1>3. CASE \/ getHdfsExposedInfo(w, "msNamenode", "msDataDir")
           \/ getHdfsExposedInfoTimeout(w, "msNamenode", "msDataDir")
  <2>1. Moves(w) /\ pc[w] = "msNamenode" /\ pc'[w] = "msDataDir"
    BY <1>3, <1>c, <1>g, WaitMoves, FailMoves DEF getHdfsExposedInfo, getHdfsExposedInfoTimeout
  <2> QED
    BY <1>a, <1>d, <1>f, <1>g, <2>1 DEF MetastoreKnows, AtHdfs, AtMinio, Prepared, k, storage
<1>4. CASE createHdfsDataDir(w, "msDataDir", "msGet")
  <2>1. /\ Moves(w) /\ pc[w] = "msDataDir"
        /\ \/ pc'[w] = "failed"
           \/ pc'[w] = "msGet" /\ Has(k, "dataDir")'
    BY <1>4, <1>a, <1>c, <1>g, WaitMoves, WriteMoves DEF createHdfsDataDir, k
  <2> QED
    BY <1>a, <1>d, <1>f, <1>g, <2>1 DEF MetastoreKnows, AtHdfs, AtMinio, Prepared, k, storage
<1>5. CASE \/ getMinioExposedInfo(w, "msMinioSvc", "msMinioSecret", "msBucket")
           \/ getMinioExposedInfoErrors(w, "msMinioSvc", "msMinioSecret", "msBucket")
  <2>1. /\ Moves(w) /\ pc[w] \in {"msMinioSvc", "msMinioSecret"}
        /\ pc'[w] \in {"msMinioSvc", "msMinioSecret", "msBucket"}
    BY <1>5, <1>a, <1>c, <1>g, ExposedMoves DEF k
  <2> QED
    BY <1>a, <1>d, <1>f, <1>g, <2>1 DEF MetastoreKnows, AtHdfs, AtMinio, Prepared, k, storage
<1>6. CASE createMinioBucketAndFolder(w, "msBucket", "msFolder", "msGet")
  <2>1. /\ Moves(w)
        /\ \/ pc'[w] = "failed"
           \/ pc[w] = "msBucket" /\ pc'[w] = "msFolder" /\ Has(k, "bucket")'
           \/ pc[w] = "msFolder" /\ pc'[w] = "msGet" /\ Has(k, "folder")'
    BY <1>6, <1>a, <1>c, <1>g, WaitMoves, WriteMoves DEF createMinioBucketAndFolder, k
  <2> QED
    BY <1>a, <1>d, <1>f, <1>g, <2>1 DEF MetastoreKnows, AtHdfs, AtMinio, Prepared, k, storage
<1>7. CASE /\ Goto(w, "msGet", IF Exists(KeyOf(w), "metastore") THEN "done" ELSE "msCreate")
           /\ local' = [local EXCEPT ![w].replicas = MetastoreReplicas]
           /\ UNCHANGED <<Outside, objs, items, MetastoreReplicas, used>>
  <2>1. local' \in [Workers -> [endpoint : Keys \cup {None}, cred : Workers \cup {None},
                                replicas : Nat]]
    BY <1>7 DEF Inv, Shape
  <2>2. Moves(w) /\ pc[w] = "msGet" /\ pc'[w] \in {"done", "msCreate"}
    BY <1>7, <1>c, <1>g, <2>1 DEF Goto, Outside, Moves, Inv, Shape
  <2> QED
    BY <1>a, <1>d, <1>f, <1>g, <2>2 DEF MetastoreKnows, AtHdfs, AtMinio, Prepared, k, storage
<1>8. CASE \/ CreateObject(w, "msCreate", "metastore", MetastoreBody(w), "done", "failed")
           \/ CallFails(w, {"msDataDir", "msFolder", "msGet", "msCreate"}, "failed")
           \/ CreateUnanswered(w, "msCreate", "metastore", MetastoreBody(w), "failed")
  <2>1. Moves(w) /\ pc'[w] \in {"done", "failed"}
    BY <1>a, <1>b, <1>c, <1>e, <1>g, <1>8, CreateMoves, FailMoves, LostMoves
       DEF CreateObject, CreateUnanswered, Goto, k
  <2> QED
    BY <1>g, <2>1 DEF MetastoreKnows, AtHdfs, AtMinio, Prepared
<1> QED
  BY <1>1, <1>2, <1>3, <1>4, <1>5, <1>6, <1>7, <1>8
     DEF reconcileMetastoreCluster, constructMetastoreClusterRefs, MetastoreErrors

\* The worker of a kyuubi entry creates after everything it refers to answers.
LEMMA KyuubiSteps ==
  ASSUME Inv, NEW w \in Workers, Working(w),
         reconcileKyuubiCluster(w) \/ KyuubiErrors(w)
  PROVE  Moves(w) /\ Knows(w)'
<1> DEFINE k == KeyOf(w)
           jdbc == JdbcAuth(w)
           ha == IsKyuubiNeedHA(SpecOf(w))
           Goal == Moves(w) /\ pc'[w] \in KyuubiPlaces /\ KyuubiKnows(w)'
<1>a. pc[w] # "idle" /\ k \in Keys /\ KyuubiKnows(w)
  BY WorkingFacts DEF Working, Ended, Inv, Knows
<1>b. /\ KyuubiBody(w) \in Bodies /\ KyuubiBody(w).gen # 0
      /\ "jdbc" \in KyuubiBody(w).refs => jdbc
      /\ "zookeeper" \in KyuubiBody(w).refs => ha
  BY <1>a, KyuubiBodyType
<1>c. "kyuubi" \in Kinds /\ KyuubiPlaces \subseteq Places
      /\ {"sqlDatabase", "usersTable", "userRow"} \subseteq Items
  BY PlacesKnown DEF Kinds, Items
<1>d. pc[w] = "kyuubiCreate" => Justified(k, "kyuubi", KyuubiBody(w))
  BY <1>a, <1>b DEF Justified, KyuubiKnows, BeforeKyuubi
<1>e. Moves(w) => /\ IsKyuubiNeedHA(SpecOf(w))' = ha /\ JdbcAuth(w)' = jdbc
                  /\ KeyOf(w)' = k
                  /\ \A s : Live(k, s)' = Live(k, s)
                  /\ \A d : Has(k, d) => Has(k, d)'
  BY Carries
<1>f. {"kyuubiDb", "kyuubiTable", "kyuubiRow", "kyuubiZk", "kyuubiMetastore",
       "kyuubiMinioSvc", "kyuubiMinioSecret", "kyuubiGet", "kyuubiCreate",
       "done", "failed"} = KyuubiPlaces
  BY DEF KyuubiPlaces, BeforeKyuubi
<1> SUFFICES Goal
  BY EnoughToKnow
<1> HIDE DEF k, jdbc, ha
<1>1. CASE \/ WriteItem(w, "kyuubiDb", "pg", "sqlDatabase", "kyuubiTable")
           \/ WriteItem(w, "kyuubiTable", "pg", "usersTable", "kyuubiRow")
  <2>1. CASE WriteItem(w, "kyuubiDb", "pg", "sqlDatabase", "kyuubiTable")
    <3>1. Moves(w) /\ pc'[w] = "kyuubiTable" /\ Has(k, "sqlDatabase")'
      BY <2>1, <1>a, <1>c, <1>f, WriteMoves DEF k
    <3> QED
      BY <1>e, <1>f, <3>1 DEF KyuubiKnows, BeforeKyuubi, k
  <2>2. CASE WriteItem(w, "kyuubiTable", "pg", "usersTable", "kyuubiRow")
    <3>1. Moves(w) /\ pc'[w] = "kyuubiRow" /\ Has(k, "usersTable")'
      BY <2>2, <1>a, <1>c, <1>f, WriteMoves DEF k
    <3> QED
      BY <1>e, <1>f, <3>1 DEF KyuubiKnows, BeforeKyuubi, k
  <2> QED
    BY <1>1, <2>1, <2>2
<1>2. CASE WriteItem(w, "kyuubiRow", "pg", "userRow", AfterAuth(w))
  <2>1. AfterAuth(w) = IF ha THEN "kyuubiZk" ELSE "kyuubiMetastore"
    BY DEF AfterAuth, ha
  <2>2. Moves(w) /\ pc'[w] = AfterAuth(w) /\ Has(k, "userRow")'
    BY <1>2, <1>a, <1>c, <1>f, <2>1, WriteMoves DEF k
  <2> QED
    BY <1>e, <1>f, <2>1, <2>2 DEF KyuubiKnows, BeforeKyuubi, k, jdbc, ha
<1>3. CASE WaitFor(w, "kyuubiZk", getZookeeperExposedInfo(w), "kyuubiMetastore")
  <2>1. Moves(w) /\ pc[w] = "kyuubiZk" /\ pc'[w] = "kyuubiMetastore" /\ Live(k, "zookeeper")
    BY <1>3, <1>c, <1>f, WaitMoves DEF getZookeeperExposedInfo, k
  <2> QED
    BY <1>a, <1>e, <1>f, <2>1 DEF KyuubiKnows, BeforeKyuubi, k, jdbc, ha
<1>4. CASE getMetastoreExposedInfo(w, "kyuubiMetastore",
             IF GetClusterStorage(SpecOf(w)) = "minio" THEN "kyuubiMinioSvc" ELSE "kyuubiGet")
  <2>1. /\ Moves(w) /\ pc[w] = "kyuubiMetastore" /\ Live(k, "metastore")
        /\ pc'[w] \in {"kyuubiMinioSvc", "kyuubiGet"}
    BY <1>4, <1>c, <1>f, WaitMoves DEF getMetastoreExposedInfo, MetastoreServes, k
  <2> QED
    BY <1>a, <1>e, <1>f, <2>1 DEF KyuubiKnows, BeforeKyuubi, k, jdbc, ha
<1>5. CASE \/ getMinioExposedInfo(w, "kyuubiMinioSvc", "kyuubiMinioSecret", "kyuubiGet")
           \/ getMinioExposedInfoErrors(w, "kyuubiMinioSvc", "kyuubiMinioSecret", "kyuubiGet")
  <2>1. Moves(w) /\ pc[w] \in BeforeKyuubi /\ pc'[w] \in BeforeKyuubi
    BY <1>5, <1>a, <1>c, <1>f, ExposedMoves DEF BeforeKyuubi, k
  <2> QED
    BY <1>a, <1>e, <1>f, <2>1 DEF KyuubiKnows, BeforeKyuubi, k, jdbc, ha
<1>6. CASE GetObject(w, "kyuubiGet", "kyuubi", "done", "kyuubiCreate")
  <2>1. Moves(w) /\ pc[w] = "kyuubiGet" /\ pc'[w] \in {"done", "kyuubiCreate"}
    BY <1>6, <1>c, <1>f, GetMoves
  <2> QED
    BY <1>a, <1>e, <1>f, <2>1 DEF KyuubiKnows, BeforeKyuubi, k, jdbc, ha
<1>7. CASE \/ CreateObject(w, "kyuubiCreate", "kyuubi", KyuubiBody(w), "done", "failed")
           \/ CallFails(w, {"kyuubiDb", "kyuubiTable", "kyuubiRow"}, "failed")
           \/ CallFails(w, {"kyuubiGet", "kyuubiCreate"}, "failed")
           \/ CreateUnanswered(w, "kyuubiCreate", "kyuubi", KyuubiBody(w), "failed")
  <2>1. Moves(w) /\ pc'[w] \in {"done", "failed"}
    BY <1>a, <1>b, <1>c, <1>d, <1>f, <1>7, CreateMoves, FailMoves, LostMoves
       DEF CreateObject, CreateUnanswered, Goto, k
  <2> QED
    BY <1>f, <2>1 DEF KyuubiKnows, BeforeKyuubi
<1> QED
  BY <1>1, <1>2, <1>3, <1>4, <1>5, <1>6, <1>7
     DEF reconcileKyuubiCluster, constructKyuubiCluster, configJdbcAuth, KyuubiErrors

-----------------------------------------------------------------------------
(* The invariant.                                                          *)

\* A step that leaves the objects alone and adds services at most keeps the
\* invariant if it keeps the shape, the queue and the workers' facts.
LEMMA QuietInv ==
  ASSUME Inv, Shape', SpecsKnown', Started', objs' = objs, items' = items,
         live \subseteq live',
         \A w \in Workers : \/ pc'[w] \in Ignorant
                            \/ pc'[w] = pc[w] /\ run'[w[1]] = run[w[1]]
  PROVE  Inv' /\ Grows
<1>1. Grows
  BY DEF Grows
<1>2. ProvisionOrder'
  BY <1>1, OrderStays
<1>3. ASSUME NEW w \in Workers PROVE Knows(w)'
  <2>1. CASE pc'[w] \in Ignorant
    BY <2>1, NothingToKnow
  <2>2. CASE pc'[w] \notin Ignorant
    <3>1. pc'[w] = pc[w] /\ run'[w[1]] = run[w[1]] /\ pc[w] # "idle"
      BY <2>2 DEF Ignorant, Ended
    <3> QED
      BY <1>1, <3>1, KnowsStays DEF Inv
  <2> QED
    BY <2>1, <2>2
<1> QED
  BY <1>1, <1>2, <1>3 DEF Inv

\* The invariant holds before anything happens.
LEMMA InitInv ==
  ASSUME Init
  PROVE  Inv
<1>1. Missing \in Bodies /\ NoLocal \in [endpoint : Keys \cup {None},
                                         cred : Workers \cup {None}, replicas : Nat]
  BY DEF Missing, Bodies, NoLocal
<1>2. MaxReconciles \in Nat /\ 0 \in 0 .. MaxReconciles
  BY NineInfraAssumption
<1>3. \A w \in Workers : pc[w] = "idle"
  BY DEF Init
<1>4. Shape
  <2>1. /\ nine \in [Keys -> [gen : Nat, spec : AllSpecs \cup {NoSpec}]]
        /\ run \in [Runs -> [key : Keys \cup {None}, gen : Nat, spec : Filled \cup {NoSpec}]]
    BY DEF Init, NoRun
  <2>2. pc \in [Workers -> Places]
    BY DEF Init, Places, Ended
  <2> QED
    BY <1>1, <1>2, <2>1, <2>2 DEF Init, Shape
<1>5. SpecsKnown
  BY DEF Init, SpecsKnown, Created
<1>6. Started
  BY <1>3 DEF Started
<1>7. \A w \in Workers : Knows(w)
  BY <1>3 DEF Knows, PgKnows, MinioKnows, HdfsKnows, MetastoreKnows, KyuubiKnows,
              AtHdfs, AtMinio, Prepared, BeforeKyuubi
<1>8. ProvisionOrder
  <2>1. \A k \in Keys : \A kind \in Kinds : objs[k][kind] = Missing
    BY DEF Init
  <2>2. \A k \in Keys : \A kind \in Kinds : objs[k][kind].gen = 0 /\ objs[k][kind].refs = {}
    BY <2>1 DEF Missing
  <2> QED
    BY <2>2 DEF ProvisionOrder, PgOrdered, TenantOrdered, HdfsOrdered, MetastoreOrdered,
                KyuubiOrdered, Exists, Kinds
<1> QED
  BY <1>4, <1>5, <1>6, <1>7, <1>8 DEF Inv

\* Users and the resync touch neither objects nor services, and queue only
\* NineClusters that exist.
LEMMA UserInv ==
  ASSUME Inv,
         \/ \E k \in Keys : CreateNineCluster(k) \/ UpdateNineCluster(k)
         \/ Resync
  PROVE  Inv' /\ Grows
<1>1. /\ UNCHANGED <<objs, live, items, begun, run, pc, local, MetastoreReplicas>>
      /\ used' \in [fails : Nat, crashes : Nat, updates : Nat, resyncs : Nat]
  BY DEF CreateNineCluster, UpdateNineCluster, Resync, Inv, Shape
<1>2. /\ nine' \in [Keys -> [gen : Nat, spec : AllSpecs \cup {NoSpec}]]
      /\ queue' \subseteq Keys /\ SpecsKnown'
  <2>1. CASE Resync
    BY <2>1 DEF Resync, Inv, Shape, SpecsKnown, Created
  <2>2. ASSUME NEW k \in Keys, NEW s \in Specs[k], NEW n \in Nat \ {0},
               nine' = [nine EXCEPT ![k] = [gen |-> n, spec |-> s]],
               queue' = queue \cup {k}
        PROVE  /\ nine' \in [Keys -> [gen : Nat, spec : AllSpecs \cup {NoSpec}]]
               /\ queue' \subseteq Keys /\ SpecsKnown'
    <3>1. s \in AllSpecs
      BY DEF AllSpecs
    <3> QED
      BY <2>2, <3>1 DEF Inv, Shape, SpecsKnown, Created
  <2>3. ASSUME NEW k \in Keys, CreateNineCluster(k)
        PROVE  /\ nine' \in [Keys -> [gen : Nat, spec : AllSpecs \cup {NoSpec}]]
               /\ queue' \subseteq Keys /\ SpecsKnown'
    <3>1. PICK s \in Specs[k] : nine' = [nine EXCEPT ![k] = [gen |-> 1, spec |-> s]]
      BY <2>3 DEF CreateNineCluster
    <3>2. queue' = queue \cup {k} /\ 1 \in Nat \ {0}
      BY <2>3 DEF CreateNineCluster
    <3> QED
      BY <2>2, <3>1, <3>2
  <2>4. ASSUME NEW k \in Keys, UpdateNineCluster(k)
        PROVE  /\ nine' \in [Keys -> [gen : Nat, spec : AllSpecs \cup {NoSpec}]]
               /\ queue' \subseteq Keys /\ SpecsKnown'
    <3>1. nine[k].gen + 1 \in Nat \ {0} /\ nine[k].gen \in Nat
      BY DEF Inv, Shape
    <3>2. PICK s \in Specs[k] :
            nine' = [nine EXCEPT ![k] = [gen |-> nine[k].gen + 1, spec |-> s]]
      BY <2>4 DEF UpdateNineCluster, Inv, Shape
    <3>3. queue' = queue \cup {k}
      BY <2>4 DEF UpdateNineCluster
    <3> QED
      BY <2>2, <3>1, <3>2, <3>3
  <2> QED
    BY <2>1, <2>3, <2>4
<1>3. Shape'
  BY <1>1, <1>2 DEF Inv, Shape
<1>4. Started'
  BY <1>1 DEF Inv, Started, KeyOf, SpecOf, TypeOf, EntryOf
<1> QED
  BY <1>1, <1>2, <1>3, <1>4, QuietInv

\* A restart forgets workers, and keeps the cluster.
LEMMA RestartInv ==
  ASSUME Inv, Restart
  PROVE  Inv' /\ Grows
<1>1. \A w \in Workers : pc'[w] = IF pc[w] = "idle" THEN "idle" ELSE "lost"
  BY DEF Restart
<1>2. Shape'
  <2>1. /\ used' \in [fails : Nat, crashes : Nat, updates : Nat, resyncs : Nat]
        /\ pc' \in [Workers -> Places]
        /\ queue' \subseteq Keys
    BY DEF Restart, Inv, Shape, Places, Ended
  <2>2. local' \in [Workers -> [endpoint : Keys \cup {None}, cred : Workers \cup {None},
                                replicas : Nat]]
    BY DEF Restart, NoLocal
  <2> QED
    BY <2>1, <2>2 DEF Restart, Inv, Shape
<1>3. SpecsKnown'
  BY DEF Restart, Inv, SpecsKnown, Created
<1>4. Started'
  BY <1>1 DEF Restart, Inv, Started, KeyOf, SpecOf, TypeOf, EntryOf
<1>5. \A w \in Workers : pc'[w] \in Ignorant
  BY <1>1 DEF Ignorant, Ended
<1> QED
  BY <1>2, <1>3, <1>4, <1>5, QuietInv DEF Restart

\* An operator brings up a service of an object that exists.
LEMMA BringUpInv ==
  ASSUME Inv, NEW k \in Keys, NEW s \in Services, BringUp(k, s)
  PROVE  Inv' /\ Grows
<1>1. live \subseteq live' /\ live' \subseteq Keys \X Services
  BY DEF BringUp, Inv, Shape
<1>2. UNCHANGED <<nine, objs, items, queue, begun, run, pc, local, MetastoreReplicas, used>>
  BY DEF BringUp
<1>3. Shape' /\ SpecsKnown'
  BY <1>1, <1>2 DEF Inv, Shape, SpecsKnown, Created
<1>4. Started'
  BY <1>2 DEF Inv, Started, KeyOf, SpecOf, TypeOf, EntryOf
<1> QED
  BY <1>1, <1>2, <1>3, <1>4, QuietInv

\* A Reconcile gives its number to workers that have not been used yet.
LEMMA ReconcileInv ==
  ASSUME Inv, NEW k \in Keys, Reconcile(k)
  PROVE  Inv' /\ Grows
<1> DEFINE s == Fill(nine[k].spec)
           r == begun + 1
<1>1. r \in Runs /\ begun \in Nat /\ begun' = r /\ r \in 0 .. MaxReconciles
  BY NineInfraAssumption DEF Reconcile, Inv, Shape, Runs
<1>2. k \in queue /\ nine[k].gen \in Nat /\ nine[k].gen # 0 /\ nine[k].spec \in AllSpecs
  BY DEF Reconcile, Inv, Shape, SpecsKnown, Created
<1>3. s \in Filled /\ s.clusterSet \in Seq(ClusterInfos)
  BY <1>2, NineInfraAssumption DEF Filled, AllSpecs
<1>4. /\ run' = [run EXCEPT ![r] = [key |-> k, gen |-> nine[k].gen, spec |-> s]]
      /\ pc' = [w \in Workers |->
                  IF w[1] = r /\ s.type = "batch" /\ w[2] <= Len(s.clusterSet)
                  THEN IF s.clusterSet[w[2]].type \in WorkerTypes THEN "spawned" ELSE "done"
                  ELSE pc[w]]
      /\ queue' \subseteq queue
      /\ UNCHANGED <<nine, objs, live, items, local, MetastoreReplicas, used>>
  BY DEF Reconcile
<1> HIDE DEF s, r
<1>5. /\ run'[r] = [key |-> k, gen |-> nine[k].gen, spec |-> s]
      /\ \A q \in Runs : q # r => run'[q] = run[q]
      /\ run' \in [Runs -> [key : Keys \cup {None}, gen : Nat, spec : Filled \cup {NoSpec}]]
  BY <1>1, <1>2, <1>3, <1>4 DEF Inv, Shape
<1>6. ASSUME NEW w \in Workers, w[1] = r
      PROVE  /\ pc'[w] \in {"idle", "spawned", "done"}
             /\ pc'[w] # "idle" => w[2] \in DOMAIN s.clusterSet
             /\ pc'[w] = "spawned" => s.clusterSet[w[2]].type \in WorkerTypes
  <2>1. pc[w] = "idle"
    <3>1. ~ (w[1] <= begun)
      BY <1>1, <1>6 DEF r
    <3> QED
      BY <3>1 DEF Inv, Started
  <2>2. w[2] \in Nat \ {0}
    BY NineInfraAssumption DEF Workers
  <2> QED
    BY <1>3, <1>4, <2>1, <2>2
<1>7. \A w \in Workers : w[1] # r => pc'[w] = pc[w] /\ run'[w[1]] = run[w[1]]
  BY <1>4, <1>5 DEF Workers
<1>8. Shape'
  <2>1. pc' \in [Workers -> Places]
    BY <1>4 DEF Inv, Shape, Places, Ended
  <2> QED
    BY <1>1, <1>4, <1>5, <2>1 DEF Inv, Shape
<1>9. SpecsKnown'
  BY <1>4 DEF Inv, SpecsKnown, Created
<1>10. Started'
  <2> SUFFICES ASSUME NEW w \in Workers, pc'[w] # "idle"
               PROVE  /\ w[1] <= begun'
                      /\ KeyOf(w)' \in Keys /\ run'[w[1]].gen # 0
                      /\ SpecOf(w)' \in Filled
                      /\ w[2] \in DOMAIN SpecOf(w)'.clusterSet
                      /\ pc'[w] \notin {"done", "lost"} => TypeOf(w)' \in WorkerTypes
    BY DEF Started
  <2>1. CASE w[1] = r
    <3>1. KeyOf(w)' = k /\ SpecOf(w)' = s /\ run'[w[1]].gen = nine[k].gen
          /\ TypeOf(w)' = s.clusterSet[w[2]].type
      BY <1>5, <2>1 DEF KeyOf, SpecOf, TypeOf, EntryOf
    <3>2. w[1] <= begun'
      BY <1>1, <2>1 DEF r
    <3> QED
      BY <1>2, <1>3, <1>6, <2>1, <3>1, <3>2
  <2>2. CASE w[1] # r
    <3>1. pc[w] = pc'[w] /\ KeyOf(w)' = KeyOf(w) /\ SpecOf(w)' = SpecOf(w)
          /\ TypeOf(w)' = TypeOf(w) /\ run'[w[1]] = run[w[1]]
      BY <1>7, <2>2 DEF KeyOf, SpecOf, TypeOf, EntryOf
    <3>2. w[1] <= begun /\ w[1] \in Nat
      BY <3>1, NineInfraAssumption DEF Inv, Started, Workers, Runs
    <3>3. w[1] <= begun'
      BY <1>1, <3>2 DEF r
    <3> QED
      BY <3>1, <3>3 DEF Inv, Started
  <2> QED
    BY <2>1, <2>2
<1>11. \A w \in Workers : \/ pc'[w] \in Ignorant
                          \/ pc'[w] = pc[w] /\ run'[w[1]] = run[w[1]]
  BY <1>6, <1>7 DEF Ignorant, Ended
<1> QED
  BY <1>4, <1>8, <1>9, <1>10, <1>11, QuietInv

\* reconcileRoutine sends a worker to the first call of its kind.
LEMMA DispatchInv ==
  ASSUME Inv, NEW w \in Workers, StartWorker(w) \/ SkipWorker(w)
  PROVE  Inv' /\ Grows
<1>1. pc[w] = "spawned" /\ KeyOf(w) \in Keys /\ TypeOf(w) \in WorkerTypes
  BY WorkingFacts DEF StartWorker, SkipWorker, Inv, Started
<1>2. UNCHANGED <<nine, live, queue, begun, run, objs, items, local, MetastoreReplicas, used>>
  BY DEF StartWorker, SkipWorker, Outside
<1>3. SpecOf(w)' = SpecOf(w) /\ EntryOf(w)' = EntryOf(w) /\ JdbcAuth(w)' = JdbcAuth(w)
  BY <1>2 DEF SpecOf, EntryOf, JdbcAuth
<1>4. \/ Start(w) \in Ignorant
      \/ Start(w) = "hdfsGet" /\ ~ namenodeHA(SpecOf(w), EntryOf(w))
      \/ Start(w) = "kyuubiZk" /\ ~ JdbcAuth(w)
      \/ Start(w) = "kyuubiMetastore" /\ ~ JdbcAuth(w) /\ ~ IsKyuubiNeedHA(SpecOf(w))
  BY <1>1 DEF Start, WorkerTypes, Ignorant, Ended, KyuubiStart, AfterAuth, DatabaseStart,
              DorisStart, HdfsStart
<1>5. Start(w) \in Places
  BY <1>4 DEF Ignorant, Places, Ended
<1>6. \E q \in {Start(w), "skipped"} : pc' = [pc EXCEPT ![w] = q]
  BY DEF StartWorker, SkipWorker
<1>7. Moves(w)
  <2>1. "skipped" \in Places
    BY DEF Places, Ended
  <2> QED
    BY <1>2, <1>5, <1>6, <2>1 DEF Moves, Inv, Shape
<1>8. pc'[w] \in {Start(w), "skipped"}
  BY <1>6 DEF Inv, Shape
<1>9. Knows(w)'
  <2>1. CASE pc'[w] \in Ignorant
    BY <2>1, NothingToKnow
  <2>2. CASE pc'[w] \notin Ignorant
    <3>1. pc'[w] = Start(w) /\ pc'[w] \in {"hdfsGet", "kyuubiZk", "kyuubiMetastore"}
      BY <1>4, <1>8, <2>2 DEF Ignorant, Ended
    <3>2. CASE pc'[w] = "hdfsGet"
      <4>1. HdfsKnows(w)' /\ pc'[w] \in HdfsPlaces
        BY <1>3, <1>4, <2>2, <3>1, <3>2 DEF HdfsKnows, HdfsPlaces
      <4> QED
        BY <4>1, EnoughToKnow
    <3>3. CASE pc'[w] # "hdfsGet"
      <4>1. KyuubiKnows(w)' /\ pc'[w] \in KyuubiPlaces
        BY <1>3, <1>4, <2>2, <3>1, <3>3 DEF KyuubiKnows, KyuubiPlaces, BeforeKyuubi
      <4> QED
        BY <4>1, EnoughToKnow
    <3> QED
      BY <3>2, <3>3
  <2> QED
    BY <2>1, <2>2
<1> QED
  BY <1>1, <1>7, <1>9, MovesInv, MovesGrow

\* Whatever a worker's call does, or fails to do.
LEMMA WorkInv ==
  ASSUME Inv, NEW w \in Workers, Work(w) \/ Errors(w)
  PROVE  Inv' /\ Grows
<1>1. Working(w) /\ pc[w] \notin {"idle", "done", "lost"} /\ KeyOf(w) \in Keys
  BY WorkingFacts DEF Work, Errors, Working, Ended
<1>2. Moves(w) /\ Knows(w)'
  BY <1>1, DatabaseSteps, MinioSteps, ZookeeperSteps, DorisSteps, HdfsSteps,
     MetastoreSteps, KyuubiSteps DEF Work, Errors
<1> QED
  BY <1>1, <1>2, MovesInv, MovesGrow

\* Every step of the operator keeps the invariant and takes nothing away.
LEMMA StepInv ==
  ASSUME Inv, [Next]_vars
  PROVE  Inv' /\ Grows
<1>1. CASE Next
  BY <1>1, UserInv, RestartInv, BringUpInv, ReconcileInv, DispatchInv, WorkInv DEF Next
<1>2. CASE UNCHANGED vars
  <2>1. Shape' /\ SpecsKnown'
    BY <1>2 DEF vars, Inv, Shape, SpecsKnown, Created
  <2>2. Started'
    BY <1>2 DEF vars, Inv, Started, KeyOf, SpecOf, TypeOf, EntryOf
  <2> QED
    BY <1>2, <2>1, <2>2, QuietInv DEF vars
<1> QED
  BY <1>1, <1>2

-----------------------------------------------------------------------------
\* Every variable keeps its type, and a worker always has an entry of the copy
\* its Reconcile works on, whatever is edited or restarted meanwhile.
THEOREM NineInfraTypeOK == Spec => []TypeOK
<1>1. Init => Inv
  BY InitInv
<1>2. Inv /\ [Next]_vars => Inv'
  BY StepInv
<1>3. Inv => TypeOK
  BY DEF Inv, Shape, Started, TypeOK
<1> QED
  BY <1>1, <1>2, <1>3, PTL DEF Spec

\* No object is created before what its spec refers to is there: for any
\* NineClusters and specs, however many Reconciles overlap, calls fail,
\* edits are made and restarts happen.
THEOREM NineInfraProvisionOrder == Spec => []ProvisionOrder
<1>1. Init => Inv
  BY InitInv
<1>2. Inv /\ [Next]_vars => Inv'
  BY StepInv
<1>3. Inv => ProvisionOrder
  BY DEF Inv
<1> QED
  BY <1>1, <1>2, <1>3, PTL DEF Spec

\* No step changes an object that exists: the controller only ever adds.
THEOREM NineInfraCreateOnly == Spec => CreateOnly
<1>1. Init => Inv
  BY InitInv
<1>2. Inv /\ [Next]_vars => Inv'
  BY StepInv
<1>3. Inv /\ [Next]_vars =>
        [\A k \in Keys : \A kind \in Kinds :
           Exists(k, kind) => objs'[k][kind] = objs[k][kind]]_vars
  BY StepInv DEF Grows
<1> QED
  BY <1>1, <1>2, <1>3, PTL DEF Spec, CreateOnly

-----------------------------------------------------------------------------
(* Whose keys and whose endpoint.                                          *)

\* Keys are named after the worker that made them, so those of two
\* NineClusters differ.
KeysOwned ==
  \A k \in Keys :
    /\ Exists(k, "minioUserSecret") <=> objs[k]["minioUserSecret"].cred # None
    /\ Exists(k, "minioUserSecret") =>
         LET c == objs[k]["minioUserSecret"].cred
         IN  c \in Workers /\ c[1] <= begun /\ KeyOf(c) = k

\* The service "minio" of a namespace is of one tenant, a bucket is in it, and a
\* metastore that answers is there.
ServicesOwned ==
  /\ \A j, k \in Keys :
       Live(j, "minio") /\ Live(k, "minio") /\ NamespaceOf[j] = NamespaceOf[k] => j = k
  /\ \A k \in Keys : /\ Has(k, "bucket") => Live(k, "minio")
                     /\ Live(k, "metastore") => Exists(k, "metastore")

OnMinio(w) == GetClusterStorage(SpecOf(w)) = "minio"

\* The keys a worker has read are those of its NineCluster.
HoldsKeys(w) ==
  local[w].cred # None =>
    pc[w] # "idle" /\ local[w].cred = objs[KeyOf(w)]["minioUserSecret"].cred

\* With a bucket made, the endpoint is the right one too.
WithBucket == {"msFolder", "msGet", "msCreate"}
HoldsMetastore(w) ==
  pc[w] \in WithBucket /\ OnMinio(w) => local[w].cred # None /\ local[w].endpoint = KeyOf(w)

WithSvc    == {"kyuubiMinioSecret", "kyuubiGet", "kyuubiCreate"}
WithSecret == {"kyuubiGet", "kyuubiCreate"}
HoldsKyuubi(w) ==
  used.fails = 0 /\ OnMinio(w) =>
    /\ pc[w] \in WithSvc /\ UsesMinio(KeyOf(w), "metastore") => local[w].endpoint = KeyOf(w)
    /\ pc[w] \in WithSecret => local[w].cred # None

Holds(w) == HoldsKeys(w) /\ HoldsMetastore(w) /\ HoldsKyuubi(w)

\* CredentialsAgree, and what makes it stay.
KeysInv ==
  /\ KeysOwned /\ ServicesOwned
  /\ \A w \in Workers : Holds(w)
  /\ CredentialsAgree

-----------------------------------------------------------------------------
(* The steps of workers.                                                   *)

\* What KeysInv asks of an object o that w creates, and when that was.
Owned(w, kind, o) ==
  /\ o.life = used.crashes
  /\ kind = "minioUserSecret" => o.cred = w
  /\ kind = "metastore" /\ "minio" \in o.refs =>
       /\ o.cred = objs[KeyOf(w)]["minioUserSecret"].cred
       /\ o.cred # None /\ o.endpoint = KeyOf(w)
  /\ kind = "kyuubi" => Exists(KeyOf(w), "metastore")
  /\ kind = "kyuubi" /\ "minio" \in o.refs /\ used.fails = 0 =>
       /\ o.cred = objs[KeyOf(w)]["minioUserSecret"].cred
       /\ o.cred # None
       /\ UsesMinio(KeyOf(w), "metastore") => o.endpoint = KeyOf(w)

\* What a worker's step may do besides: it leaves the other workers alone, makes
\* buckets in MinIO only, and failures are never forgotten.
Affects(w) ==
  /\ \A v \in Workers : v # w => pc'[v] = pc[v] /\ local'[v] = local[v]
  /\ used'.fails >= used.fails /\ used'.crashes = used.crashes
  /\ \A k \in Keys : Has(k, "bucket")' => Has(k, "bucket") \/ Live(k, "minio")
  /\ \A k \in Keys : \A kind \in Kinds :
       objs'[k][kind] = objs[k][kind] \/ (k = KeyOf(w) /\ Owned(w, kind, objs'[k][kind]))

\* Calls that create and write nothing.
LEMMA QuietAffects ==
  ASSUME Inv, NEW w \in Workers, NEW here, NEW kind, NEW next, NEW other, NEW from, NEW ready,
         \/ GetObject(w, here, kind, next, other)
         \/ GetCached(w, here, kind, next, other)
         \/ WaitFor(w, here, ready, next)
         \/ CallFails(w, from, next)
  PROVE  Affects(w) /\ local' = local
<1>1. pc \in [Workers -> Places] /\ used.fails \in Nat
  BY DEF Inv, Shape
<1>2. /\ objs' = objs /\ items' = items /\ live' = live /\ local' = local
      /\ \A v \in Workers : v # w => pc'[v] = pc[v]
  BY <1>1 DEF GetObject, GetCached, WaitFor, CallFails, Goto, Outside
<1>3. used'.fails >= used.fails /\ used'.crashes = used.crashes
  <2>1. used' = used \/ used' = [used EXCEPT !.fails = used.fails + 1]
    BY DEF GetObject, GetCached, WaitFor, CallFails
  <2> QED
    BY <1>1, <2>1 DEF Inv, Shape
<1> QED
  BY <1>2, <1>3 DEF Affects, Has

\* Creates.
LEMMA CreateAffects ==
  ASSUME Inv, NEW w \in Workers, KeyOf(w) \in Keys, NEW here, NEW kind \in Kinds,
         NEW body \in Bodies, Owned(w, kind, body), NEW next, NEW other,
         \/ CreateObject(w, here, kind, body, next, other)
         \/ CreateUnanswered(w, here, kind, body, next)
  PROVE  Affects(w) /\ local' = local
<1>1. pc \in [Workers -> Places] /\ used.fails \in Nat /\ objs \in [Keys -> [Kinds -> Bodies]]
  BY DEF Inv, Shape
<1>2. /\ items' = items /\ live' = live /\ local' = local
      /\ \A v \in Workers : v # w => pc'[v] = pc[v]
      /\ objs' = objs \/ objs' = [objs EXCEPT ![KeyOf(w)][kind] = body]
  BY <1>1 DEF CreateObject, CreateUnanswered, Goto, Outside
<1>3. used'.fails >= used.fails /\ used'.crashes = used.crashes
  <2>1. used' = used \/ used' = [used EXCEPT !.fails = used.fails + 1]
    BY DEF CreateObject, CreateUnanswered
  <2> QED
    BY <1>1, <2>1 DEF Inv, Shape
<1>4. \A k \in Keys : \A l \in Kinds :
        objs'[k][l] = objs[k][l] \/ (k = KeyOf(w) /\ Owned(w, l, objs'[k][l]))
  <2>1. CASE objs' = objs
    BY <2>1
  <2>2. CASE objs' = [objs EXCEPT ![KeyOf(w)][kind] = body]
    <3>1. /\ objs'[KeyOf(w)][kind] = body
          /\ \A j \in Keys : \A l \in Kinds :
               <<j, l>> # <<KeyOf(w), kind>> => objs'[j][l] = objs[j][l]
      BY <1>1, <2>2, Added
    <3> QED
      BY <3>1
  <2> QED
    BY <1>2, <2>1, <2>2
<1> QED
  BY <1>2, <1>3, <1>4 DEF Affects, Has

\* Writes into services.
LEMMA WriteAffects ==
  ASSUME Inv, NEW w \in Workers, NEW here, NEW s, NEW d, NEW next,
         d = "bucket" => s = "minio", WriteItem(w, here, s, d, next)
  PROVE  Affects(w) /\ local' = local
<1>1. pc \in [Workers -> Places] /\ used.fails \in Nat
  BY DEF Inv, Shape
<1>2. /\ objs' = objs /\ live' = live /\ local' = local /\ used' = used
      /\ items' = items \cup {<<KeyOf(w), d>>} /\ Live(KeyOf(w), s)
      /\ \A v \in Workers : v # w => pc'[v] = pc[v]
  BY <1>1 DEF WriteItem, Goto, Outside
<1>3. \A k \in Keys : Has(k, "bucket")' => Has(k, "bucket") \/ Live(k, "minio")
  BY <1>2 DEF Has
<1> QED
  BY <1>1, <1>2, <1>3 DEF Affects

\* What getMinioExposedInfo does to what its worker holds.
LEMMA ExposedAffects ==
  ASSUME Inv, NEW w \in Workers, NEW svc, NEW secret, NEW next,
         \/ getMinioExposedInfo(w, svc, secret, next)
         \/ getMinioExposedInfoErrors(w, svc, secret, next)
  PROVE  /\ Affects(w)
         /\ \/ /\ pc[w] = svc /\ pc'[w] = secret /\ local'[w].cred = local[w].cred
               /\ local'[w].endpoint \in MinioService(KeyOf(w))
            \/ /\ pc[w] = secret /\ pc'[w] = next
               /\ local'[w].endpoint = local[w].endpoint
               /\ local'[w].cred = objs[KeyOf(w)]["minioUserSecret"].cred
               /\ Exists(KeyOf(w), "minioUserSecret")
            \/ pc[w] = secret /\ pc'[w] = svc /\ local' = local
            \/ /\ pc[w] \in {svc, secret} /\ pc'[w] \in {secret, next} /\ local' = local
               /\ used'.fails # 0
<1>1. pc \in [Workers -> Places] /\ used.fails \in Nat
      /\ local \in [Workers -> [endpoint : Keys \cup {None}, cred : Workers \cup {None},
                                replicas : Nat]]
  BY DEF Inv, Shape
<1>2. CASE /\ Goto(w, svc, secret)
           /\ \E e \in MinioService(KeyOf(w)) : local' = [local EXCEPT ![w].endpoint = e]
           /\ UNCHANGED <<Outside, objs, items, MetastoreReplicas, used>>
  BY <1>1, <1>2 DEF Goto, Outside, Affects, Has
<1>3. CASE /\ Goto(w, secret, next)
           /\ Exists(KeyOf(w), "minioUserSecret")
           /\ local' = [local EXCEPT ![w].cred = objs[KeyOf(w)]["minioUserSecret"].cred]
           /\ UNCHANGED <<Outside, objs, items, MetastoreReplicas, used>>
  BY <1>1, <1>3 DEF Goto, Outside, Affects, Has
<1>4. CASE WaitFor(w, secret, ~ Exists(KeyOf(w), "minioUserSecret"), svc)
  <2>1. pc[w] = secret /\ pc'[w] = svc
    BY <1>1, <1>4 DEF WaitFor, Goto
  <2> QED
    BY <1>4, <2>1, QuietAffects
<1>5. CASE CallFails(w, {svc}, secret) \/ CallFails(w, {secret}, next)
  <2>1. /\ pc[w] \in {svc, secret} /\ pc'[w] \in {secret, next}
        /\ used'.fails # 0
    BY <1>1, <1>5 DEF CallFails, Inv, Shape
  <2> QED
    BY <1>5, <2>1, QuietAffects
<1> QED
  BY <1>2, <1>3, <1>4, <1>5 DEF getMinioExposedInfo, getMinioExposedInfoErrors

\* Facts a worker holds stay, wherever it goes without the places that need more.
LEMMA HoldsStays ==
  ASSUME Inv, KeysInv, Grows, NEW v \in Workers, pc[v] # "idle", pc'[v] # "idle",
         local'[v].cred = local[v].cred, local'[v].endpoint = local[v].endpoint,
         run'[v[1]] = run[v[1]], used'.fails \in Nat,
         used'.fails >= used.fails,
         OnMinio(v) => /\ pc'[v] \in WithBucket => pc[v] \in WithBucket
                       /\ pc'[v] = "kyuubiMinioSecret" => pc[v] = "kyuubiMinioSecret"
                       /\ pc'[v] \in WithSecret => pc[v] \in WithSecret
  PROVE  Holds(v)'
<1>1. /\ KeyOf(v) \in Keys /\ KeyOf(v)' = KeyOf(v) /\ SpecOf(v)' = SpecOf(v)
      /\ OnMinio(v)' = OnMinio(v)
      /\ local[v] \in [endpoint : Keys \cup {None}, cred : Workers \cup {None}, replicas : Nat]
      /\ used.fails \in Nat
  BY WorkingFacts DEF KeyOf, SpecOf, OnMinio, Inv, Shape
<1>2. Holds(v) /\ Knows(v)
  BY DEF KeysInv, Inv
<1>3. HoldsKeys(v)'
  <2>1. local[v].cred # None => Exists(KeyOf(v), "minioUserSecret")
    BY <1>1, <1>2 DEF Holds, HoldsKeys, KeysInv, KeysOwned
  <2>2. local[v].cred # None => objs'[KeyOf(v)]["minioUserSecret"] = objs[KeyOf(v)]["minioUserSecret"]
    BY <1>1, <2>1 DEF Grows, Kinds, Secrets
  <2> QED
    BY <1>1, <1>2, <2>2 DEF Holds, HoldsKeys
<1>4. HoldsMetastore(v)'
  BY <1>1, <1>2 DEF Holds, HoldsMetastore
<1>5. HoldsKyuubi(v)'
  <2> SUFFICES ASSUME used'.fails = 0, OnMinio(v)
               PROVE  /\ /\ pc'[v] \in WithSvc
                         /\ UsesMinio(KeyOf(v), "metastore")'
                         => local[v].endpoint = KeyOf(v)
                      /\ pc'[v] \in WithSecret => local[v].cred # None
    BY <1>1 DEF HoldsKyuubi
  <2>1. used.fails = 0
    BY <1>1
  <2>2. pc'[v] \in WithSvc => pc[v] \in WithSvc
    BY DEF WithSvc, WithSecret
  <2>3. pc[v] \in WithSvc => Exists(KeyOf(v), "metastore")
    BY <1>1, <1>2 DEF Knows, KyuubiKnows, BeforeKyuubi, WithSvc, KeysInv, ServicesOwned
  <2>4. pc[v] \in WithSvc => UsesMinio(KeyOf(v), "metastore")' = UsesMinio(KeyOf(v), "metastore")
    BY <1>1, <2>3 DEF Grows, UsesMinio, Exists, Kinds
  <2> QED
    BY <1>1, <1>2, <2>1, <2>2, <2>4 DEF Holds, HoldsKyuubi
<1> QED
  BY <1>3, <1>4, <1>5 DEF Holds

\* Workers that read and make nothing of MinIO's keys.
LEMMA PlainHolds ==
  ASSUME Inv, KeysInv, NEW w \in Workers, Working(w), Moves(w), Affects(w),
         local'[w].cred = local[w].cred, local'[w].endpoint = local[w].endpoint,
         pc'[w] # "idle",
         OnMinio(w) => /\ pc'[w] \in WithBucket => pc[w] \in WithBucket
                       /\ pc'[w] = "kyuubiMinioSecret" => pc[w] = "kyuubiMinioSecret"
                       /\ pc'[w] \in WithSecret => pc[w] \in WithSecret
  PROVE  Holds(w)'
<1>1. KeyOf(w) \in Keys /\ pc[w] # "idle"
  BY WorkingFacts DEF Working, Ended
<1>2. Grows
  BY <1>1, MovesGrow
<1> QED
  BY <1>1, <1>2, HoldsStays DEF Moves, Affects

\* The workers of entries that have nothing to do with MinIO.
LEMMA OthersKeep ==
  ASSUME Inv, KeysInv, NEW w \in Workers, Working(w), Moves(w),
         \/ reconcilePGCluster(w) \/ DatabaseErrors(w)
         \/ reconcileZookeeperCluster(w) \/ ZookeeperErrors(w)
         \/ reconcileDorisCluster(w) \/ DorisErrors(w)
         \/ reconcileHdfsCluster(w) \/ HdfsErrors(w)
  PROVE  Affects(w) /\ Holds(w)'
<1> DEFINE k == KeyOf(w)
           three == [Body(w) EXCEPT !.replicas = 3]
<1>1. pc[w] # "idle" /\ k \in Keys
  BY WorkingFacts DEF Working, Ended
<1>2. /\ Body(w) \in Bodies /\ three \in Bodies /\ HdfsBody(w) \in Bodies
      /\ \A kind \in Kinds \ {"minioUserSecret", "metastore", "kyuubi"} :
           /\ Owned(w, kind, Body(w)) /\ Owned(w, kind, three)
           /\ Owned(w, kind, HdfsBody(w))
      /\ {"pgUserSecret", "pgSuperSecret", "pg", "zookeeper", "doris", "hdfs"}
           \subseteq Kinds \ {"minioUserSecret", "metastore", "kyuubi"}
  BY <1>1, BodyType, BodyTypes, HdfsBodyType DEF Owned, Kinds, Secrets, Body, HdfsBody, Missing
<1> HIDE DEF three
<1>3. CASE reconcilePGCluster(w) \/ DatabaseErrors(w)
  <2>1. Affects(w) /\ local' = local
    BY <1>1, <1>2, <1>3, QuietAffects, CreateAffects DEF reconcilePGCluster, DatabaseErrors,
       reconcilePGInitDBUserSecret, reconcilePGSuperUserSecret
  <2>2. pc'[w] \in PgPlaces
    BY <1>3 DEF reconcilePGCluster, DatabaseErrors, reconcilePGInitDBUserSecret,
       reconcilePGSuperUserSecret, GetCached, GetObject, CreateObject, CreateUnanswered,
       CallFails, Goto, PgPlaces, Inv, Shape
  <2> QED
    BY <2>1, <2>2, PlainHolds DEF PgPlaces, WithBucket, WithSecret
<1>4. CASE reconcileZookeeperCluster(w) \/ ZookeeperErrors(w)
  <2>1. Affects(w) /\ local' = local
    BY <1>1, <1>2, <1>4, QuietAffects, CreateAffects DEF reconcileZookeeperCluster,
       ZookeeperErrors, three
  <2>2. pc'[w] \in {"zkGet", "zkCreate", "done", "failed"}
    BY <1>4 DEF reconcileZookeeperCluster, ZookeeperErrors, GetObject, CreateObject,
       CreateUnanswered, CallFails, Goto, Inv, Shape
  <2> QED
    BY <2>1, <2>2, PlainHolds DEF WithBucket, WithSecret
<1>5. CASE reconcileDorisCluster(w) \/ DorisErrors(w)
  <2>1. Affects(w) /\ local' = local
    BY <1>1, <1>2, <1>5, QuietAffects, CreateAffects DEF reconcileDorisCluster, DorisErrors
  <2>2. pc'[w] \in {"dorisGet", "dorisGetNil", "dorisCreate", "done", "failed"}
    BY <1>5 DEF reconcileDorisCluster, DorisErrors, GetObject, CreateObject,
       CreateUnanswered, CallFails, Goto, Inv, Shape
  <2> QED
    BY <2>1, <2>2, PlainHolds DEF WithBucket, WithSecret
<1>6. CASE reconcileHdfsCluster(w) \/ HdfsErrors(w)
  <2>1. Affects(w) /\ local' = local
    BY <1>1, <1>2, <1>6, QuietAffects, CreateAffects DEF reconcileHdfsCluster, HdfsErrors
  <2>2. pc'[w] \in HdfsPlaces
    BY <1>6 DEF reconcileHdfsCluster, HdfsErrors, GetObject, CreateObject, WaitFor,
       CreateUnanswered, CallFails, Goto, Inv, Shape, HdfsPlaces
  <2> QED
    BY <2>1, <2>2, PlainHolds DEF HdfsPlaces, WithBucket, WithSecret
<1> QED
  BY <1>3, <1>4, <1>5, <1>6

\* The worker of a minio entry names the keys it makes after itself.
LEMMA MinioKeeps ==
  ASSUME Inv, KeysInv, NEW w \in Workers, Working(w), Moves(w),
         reconcileMinioTenant(w) \/ MinioErrors(w)
  PROVE  Affects(w) /\ Holds(w)'
<1> DEFINE k == KeyOf(w)
           keyed == [Body(w) EXCEPT !.cred = w]
<1>1. pc[w] # "idle" /\ k \in Keys
  BY WorkingFacts DEF Working, Ended
<1>2. /\ Body(w) \in Bodies /\ keyed \in Bodies
      /\ {"minioConfigSecret", "minioUserSecret", "tenant"} \subseteq Kinds
      /\ Owned(w, "minioConfigSecret", Body(w)) /\ Owned(w, "tenant", Body(w))
  BY <1>1, BodyType, BodyTypes DEF Owned, Kinds, Secrets, Body, Missing
<1>3. Owned(w, "minioUserSecret", keyed)
  <2>1. keyed.cred = w /\ keyed.life = used.crashes
    BY DEF Body, Missing
  <2> QED
    BY <2>1 DEF Owned
<1> HIDE DEF keyed
<1>4. Affects(w) /\ local' = local
  BY <1>1, <1>2, <1>3, QuietAffects, CreateAffects DEF reconcileMinioTenant, MinioErrors,
     reconcileMinioTenantConfigSecret, reconcileMinioNewUserSecret, keyed
<1>5. pc'[w] \in MinioPlaces
  BY DEF reconcileMinioTenant, MinioErrors,
     reconcileMinioTenantConfigSecret, reconcileMinioNewUserSecret, GetCached, GetObject,
     CreateObject, CreateUnanswered, CallFails, Goto, MinioPlaces, Inv, Shape
<1> QED
  BY <1>4, <1>5, PlainHolds DEF MinioPlaces, WithBucket, WithSecret

\* The worker of a metastore entry hands on keys and an endpoint that have made
\* a bucket, which are those of its own tenant.
LEMMA MetastoreKeeps ==
  ASSUME Inv, KeysInv, NEW w \in Workers, Working(w), Moves(w),
         reconcileMetastoreCluster(w) \/ MetastoreErrors(w)
  PROVE  Affects(w) /\ Holds(w)'
<1> DEFINE k == KeyOf(w)
<1>1. /\ pc[w] # "idle" /\ k \in Keys /\ Knows(w) /\ Holds(w)
      /\ pc \in [Workers -> Places]
      /\ local \in [Workers -> [endpoint : Keys \cup {None}, cred : Workers \cup {None},
                                replicas : Nat]]
      /\ used.fails \in Nat
  BY WorkingFacts DEF Working, Ended, Inv, KeysInv, Shape
<1>2. MetastoreBody(w) \in Bodies /\ "metastore" \in Kinds
  BY <1>1, MetastoreBodyType DEF Kinds
<1>3. KeyOf(w)' = k /\ OnMinio(w)' = OnMinio(w) /\ Grows
  BY <1>1, MovesGrow, Carries DEF OnMinio
<1>4. pc[w] = "msCreate" => Owned(w, "metastore", MetastoreBody(w))
  <2> SUFFICES ASSUME pc[w] = "msCreate", "minio" \in MetastoreBody(w).refs
               PROVE  /\ MetastoreBody(w).cred = objs[k]["minioUserSecret"].cred
                      /\ MetastoreBody(w).cred # None /\ MetastoreBody(w).endpoint = k
    BY DEF Owned, MetastoreBody, Body, Missing
  <2>1. MetastoreBody(w).cred = local[w].cred /\ MetastoreBody(w).endpoint = local[w].endpoint
    BY DEF MetastoreBody, Body, Missing
  <2>2. OnMinio(w)
    BY <1>1, MetastoreBodyType DEF OnMinio
  <2> QED
    BY <1>1, <2>1, <2>2 DEF Holds, HoldsKeys, HoldsMetastore, WithBucket
<1>5. CASE initMetastore(w)
  <2>1. Affects(w) /\ local' = local /\ pc'[w] = "msDatabase"
    BY <1>1, <1>5 DEF initMetastore, Goto, Outside, Affects, Has
  <2> QED
    BY <2>1, PlainHolds DEF WithBucket, WithSecret
<1>6. CASE \/ WaitFor(w, "msDatabase", getPGRWSvcNameWithSync(w),
                      IF GetClusterStorage(SpecOf(w)) = "hdfs" THEN "msNamenode" ELSE "msMinioSvc")
           \/ getHdfsExposedInfo(w, "msNamenode", "msDataDir")
           \/ getHdfsExposedInfoTimeout(w, "msNamenode", "msDataDir")
  <2>1. Affects(w) /\ local' = local
    BY <1>6, QuietAffects DEF getHdfsExposedInfo, getHdfsExposedInfoTimeout
  <2>2. pc'[w] \in {"msNamenode", "msMinioSvc", "msDataDir"}
    BY <1>1, <1>6 DEF getHdfsExposedInfo, getHdfsExposedInfoTimeout, WaitFor, CallFails, Goto
  <2> QED
    BY <2>1, <2>2, PlainHolds DEF WithBucket, WithSecret
<1>7. CASE createHdfsDataDir(w, "msDataDir", "msGet")
  <2>1. Affects(w) /\ local' = local
    BY <1>7, QuietAffects, WriteAffects DEF createHdfsDataDir
  <2>2. pc[w] = "msDataDir" /\ pc'[w] \in {"failed", "msGet"}
    BY <1>1, <1>7 DEF createHdfsDataDir, WaitFor, WriteItem, Goto
  <2>3. ~ OnMinio(w)
    BY <1>1, <2>2 DEF Knows, MetastoreKnows, AtHdfs, OnMinio
  <2> QED
    BY <2>1, <2>2, <2>3, PlainHolds
<1>8. CASE \/ getMinioExposedInfo(w, "msMinioSvc", "msMinioSecret", "msBucket")
           \/ getMinioExposedInfoErrors(w, "msMinioSvc", "msMinioSecret", "msBucket")
  <2>1. /\ Affects(w)
        /\ pc'[w] \in {"msMinioSvc", "msMinioSecret", "msBucket"}
        /\ \/ local'[w].cred = local[w].cred
           \/ /\ local'[w].cred = objs[k]["minioUserSecret"].cred
              /\ Exists(k, "minioUserSecret")
    BY <1>8, ExposedAffects
  <2>2. Exists(k, "minioUserSecret") =>
          objs'[k]["minioUserSecret"].cred = objs[k]["minioUserSecret"].cred
    BY <1>1, <1>3 DEF Grows, Kinds, Secrets
  <2>3. local[w].cred # None =>
          Exists(k, "minioUserSecret") /\ local[w].cred = objs[k]["minioUserSecret"].cred
    BY <1>1 DEF Holds, HoldsKeys, KeysInv, KeysOwned
  <2>4. HoldsKeys(w)'
    BY <1>3, <2>1, <2>2, <2>3 DEF HoldsKeys
  <2> QED
    BY <2>1, <2>4 DEF Holds, HoldsMetastore, HoldsKyuubi, WithBucket, WithSvc, WithSecret
<1>9. CASE createMinioBucketAndFolder(w, "msBucket", "msFolder", "msGet")
  <2>1. Affects(w) /\ local' = local
    BY <1>9, QuietAffects, WriteAffects DEF createMinioBucketAndFolder
  <2>2. CASE WriteItem(w, "msBucket", "minio", "bucket", "msFolder") /\ MinioAccepts(w)
    <3>1. pc'[w] = "msFolder" /\ pc[w] = "msBucket"
      BY <1>1, <2>2 DEF WriteItem, Goto
    <3>2. /\ local[w].endpoint \in Keys /\ local[w].cred # None
          /\ local[w].cred = objs[local[w].endpoint]["minioUserSecret"].cred
          /\ local[w].cred = objs[k]["minioUserSecret"].cred
      BY <1>1, <2>2 DEF MinioAccepts, Holds, HoldsKeys
    <3>3. KeyOf(local[w].cred) = local[w].endpoint /\ KeyOf(local[w].cred) = k
      BY <1>1, <3>2 DEF KeysInv, KeysOwned
    <3>4. objs'[k]["minioUserSecret"] = objs[k]["minioUserSecret"]
      BY <2>2 DEF WriteItem
    <3>5. HoldsKeys(w)' /\ HoldsMetastore(w)'
      BY <1>3, <2>1, <3>1, <3>2, <3>3, <3>4 DEF HoldsKeys, HoldsMetastore
    <3> QED
      BY <2>1, <3>1, <3>5 DEF Holds, HoldsKyuubi, WithSvc, WithSecret
  <2>3. CASE \/ WaitFor(w, "msBucket", local[w].endpoint = None, "failed")
             \/ WriteItem(w, "msFolder", "minio", "folder", "msGet")
    <3>1. pc'[w] = "failed" \/ (pc[w] = "msFolder" /\ pc'[w] = "msGet")
      BY <1>1, <2>3 DEF WaitFor, WriteItem, Goto
    <3> QED
      BY <2>1, <3>1, PlainHolds DEF WithBucket, WithSecret
  <2> QED
    BY <1>9, <2>2, <2>3 DEF createMinioBucketAndFolder
<1>10. CASE /\ Goto(w, "msGet", IF Exists(KeyOf(w), "metastore") THEN "done" ELSE "msCreate")
            /\ local' = [local EXCEPT ![w].replicas = MetastoreReplicas]
            /\ UNCHANGED <<Outside, objs, items, MetastoreReplicas, used>>
  <2>1. /\ pc[w] = "msGet" /\ pc'[w] \in {"done", "msCreate"}
        /\ local'[w].cred = local[w].cred /\ local'[w].endpoint = local[w].endpoint
    BY <1>1, <1>10 DEF Goto
  <2>2. Affects(w)
    BY <1>1, <1>10 DEF Goto, Affects, Outside, Has
  <2> QED
    BY <2>1, <2>2, PlainHolds DEF WithBucket, WithSecret
<1>11. CASE \/ CreateObject(w, "msCreate", "metastore", MetastoreBody(w), "done", "failed")
            \/ CallFails(w, {"msDataDir", "msFolder", "msGet", "msCreate"}, "failed")
            \/ CreateUnanswered(w, "msCreate", "metastore", MetastoreBody(w), "failed")
  <2>1. Affects(w) /\ local' = local
    BY <1>1, <1>2, <1>4, <1>11, QuietAffects, CreateAffects
       DEF CreateObject, CreateUnanswered, Goto
  <2>2. pc'[w] \in {"done", "failed"}
    BY <1>1, <1>11 DEF CreateObject, CallFails, CreateUnanswered, Goto
  <2> QED
    BY <2>1, <2>2, PlainHolds DEF WithBucket, WithSecret
<1> QED
  BY <1>5, <1>6, <1>7, <1>8, <1>9, <1>10, <1>11
     DEF reconcileMetastoreCluster, constructMetastoreClusterRefs, MetastoreErrors

\* The worker of a kyuubi entry reads an endpoint its metastore vouches for.
LEMMA KyuubiKeeps ==
  ASSUME Inv, KeysInv, NEW w \in Workers, Working(w), Moves(w),
         reconcileKyuubiCluster(w) \/ KyuubiErrors(w)
  PROVE  Affects(w) /\ Holds(w)'
<1> DEFINE k == KeyOf(w)
<1>1. /\ pc[w] # "idle" /\ k \in Keys /\ Knows(w) /\ Holds(w)
      /\ pc \in [Workers -> Places]
      /\ local \in [Workers -> [endpoint : Keys \cup {None}, cred : Workers \cup {None},
                                replicas : Nat]]
      /\ used.fails \in Nat
  BY WorkingFacts DEF Working, Ended, Inv, KeysInv, Shape
<1>2. KyuubiBody(w) \in Bodies /\ "kyuubi" \in Kinds /\ "metastore" \in Kinds
  BY <1>1, KyuubiBodyType DEF Kinds
<1>3. KeyOf(w)' = k /\ OnMinio(w)' = OnMinio(w) /\ Grows
  BY <1>1, MovesGrow, Carries DEF OnMinio
<1>4. pc[w] \in BeforeKyuubi => Exists(k, "metastore")
  BY <1>1 DEF Knows, KyuubiKnows, KeysInv, ServicesOwned
<1>5. pc[w] = "kyuubiCreate" => Owned(w, "kyuubi", KyuubiBody(w))
  <2> SUFFICES ASSUME pc[w] = "kyuubiCreate", "minio" \in KyuubiBody(w).refs, used.fails = 0
               PROVE  /\ KyuubiBody(w).cred = objs[k]["minioUserSecret"].cred
                      /\ KyuubiBody(w).cred # None
                      /\ UsesMinio(k, "metastore") => KyuubiBody(w).endpoint = k
    BY <1>4 DEF Owned, BeforeKyuubi, KyuubiBody, Body, Missing
  <2>1. KyuubiBody(w).cred = local[w].cred /\ KyuubiBody(w).endpoint = local[w].endpoint
    BY DEF KyuubiBody, Body, Missing
  <2>2. OnMinio(w)
    BY StorageKnown DEF KyuubiBody, Body, Missing, OnMinio
  <2> QED
    BY <1>1, <2>1, <2>2 DEF Holds, HoldsKeys, HoldsKyuubi, WithSvc, WithSecret
<1>6. CASE configJdbcAuth(w) \/ WaitFor(w, "kyuubiZk", getZookeeperExposedInfo(w), "kyuubiMetastore")
  <2>1. Affects(w) /\ local' = local
    BY <1>6, QuietAffects, WriteAffects DEF configJdbcAuth
  <2>2. pc'[w] \in {"kyuubiTable", "kyuubiRow", "kyuubiZk", "kyuubiMetastore"}
    BY <1>1, <1>6 DEF configJdbcAuth, WaitFor, WriteItem, Goto, AfterAuth
  <2> QED
    BY <2>1, <2>2, PlainHolds DEF WithBucket, WithSecret
<1>7. CASE getMetastoreExposedInfo(w, "kyuubiMetastore",
             IF GetClusterStorage(SpecOf(w)) = "minio" THEN "kyuubiMinioSvc" ELSE "kyuubiGet")
  <2>1. Affects(w) /\ local' = local
    BY <1>7, QuietAffects DEF getMetastoreExposedInfo
  <2>2. pc'[w] = IF OnMinio(w) THEN "kyuubiMinioSvc" ELSE "kyuubiGet"
    BY <1>1, <1>7 DEF getMetastoreExposedInfo, WaitFor, Goto, OnMinio
  <2> QED
    BY <2>1, <2>2, PlainHolds DEF WithBucket, WithSecret
<1>8. CASE \/ getMinioExposedInfo(w, "kyuubiMinioSvc", "kyuubiMinioSecret", "kyuubiGet")
           \/ getMinioExposedInfoErrors(w, "kyuubiMinioSvc", "kyuubiMinioSecret", "kyuubiGet")
  <2>1. /\ Affects(w)
        /\ \/ /\ pc[w] = "kyuubiMinioSvc" /\ pc'[w] = "kyuubiMinioSecret"
              /\ local'[w].cred = local[w].cred
              /\ local'[w].endpoint \in MinioService(k)
           \/ /\ pc[w] = "kyuubiMinioSecret" /\ pc'[w] = "kyuubiGet"
              /\ local'[w].endpoint = local[w].endpoint
              /\ local'[w].cred = objs[k]["minioUserSecret"].cred
              /\ Exists(k, "minioUserSecret")
           \/ pc[w] = "kyuubiMinioSecret" /\ pc'[w] = "kyuubiMinioSvc" /\ local' = local
           \/ /\ pc[w] \in {"kyuubiMinioSvc", "kyuubiMinioSecret"}
              /\ pc'[w] \in {"kyuubiMinioSecret", "kyuubiGet"}
              /\ local' = local /\ used'.fails # 0
    BY <1>8, ExposedAffects
  <2>2. Exists(k, "minioUserSecret") =>
          objs'[k]["minioUserSecret"].cred = objs[k]["minioUserSecret"].cred
    BY <1>1, <1>3 DEF Grows, Kinds, Secrets
  <2>3. local[w].cred # None =>
          Exists(k, "minioUserSecret") /\ local[w].cred = objs[k]["minioUserSecret"].cred
    BY <1>1 DEF Holds, HoldsKeys, KeysInv, KeysOwned
  <2>4. HoldsKeys(w)'
    BY <1>3, <2>1, <2>2, <2>3 DEF HoldsKeys
  <2>5. /\ Exists(k, "minioUserSecret") => objs[k]["minioUserSecret"].cred # None
        /\ UsesMinio(k, "metastore")' = UsesMinio(k, "metastore")
    <3>1. objs'[k]["metastore"] = objs[k]["metastore"]
      BY <1>1, <1>2, <1>3, <1>4, <2>1 DEF Grows, BeforeKyuubi
    <3> QED
      BY <1>1, <1>3, <3>1 DEF KeysInv, KeysOwned, UsesMinio, Exists
  <2>6. \A e \in MinioService(k) : UsesMinio(k, "metastore") => e = k
    BY <1>1 DEF UsesMinio, Inv, ProvisionOrder, MetastoreOrdered, KeysInv, ServicesOwned,
                MinioService
  <2>7. used'.fails = 0 => used.fails = 0
    BY <1>1, <2>1 DEF Affects, Moves
  <2>8. HoldsKyuubi(w)'
    <3> SUFFICES ASSUME used'.fails = 0, OnMinio(w)
                 PROVE  /\ pc'[w] \in WithSvc /\ UsesMinio(k, "metastore") => local'[w].endpoint = k
                        /\ pc'[w] \in WithSecret => local'[w].cred # None
      BY <1>3, <2>5 DEF HoldsKyuubi
    <3>1. pc[w] \in WithSvc /\ UsesMinio(k, "metastore") => local[w].endpoint = k
      BY <1>1, <2>7 DEF Holds, HoldsKyuubi
    <3> QED
      BY <2>1, <2>5, <2>6, <3>1 DEF WithSvc, WithSecret
  <2> QED
    BY <2>1, <2>4, <2>8 DEF Holds, HoldsMetastore, WithBucket
<1>9. CASE \/ GetObject(w, "kyuubiGet", "kyuubi", "done", "kyuubiCreate")
           \/ CallFails(w, {"kyuubiDb", "kyuubiTable", "kyuubiRow"}, "failed")
           \/ CallFails(w, {"kyuubiGet", "kyuubiCreate"}, "failed")
  <2>1. Affects(w) /\ local' = local
    BY <1>9, QuietAffects
  <2>2. pc'[w] \in {"done", "failed"} \/ (pc[w] = "kyuubiGet" /\ pc'[w] = "kyuubiCreate")
    BY <1>1, <1>9 DEF GetObject, CallFails, Goto
  <2> QED
    BY <2>1, <2>2, PlainHolds DEF WithBucket, WithSecret
<1>10. CASE \/ CreateObject(w, "kyuubiCreate", "kyuubi", KyuubiBody(w), "done", "failed")
            \/ CreateUnanswered(w, "kyuubiCreate", "kyuubi", KyuubiBody(w), "failed")
  <2>1. Affects(w) /\ local' = local
    <3>1. Owned(w, "kyuubi", KyuubiBody(w))
      BY <1>5, <1>10 DEF CreateObject, CreateUnanswered, Goto
    <3> QED
      BY <1>1, <1>2, <1>10, <3>1, CreateAffects
  <2>2. pc'[w] \in {"done", "failed"}
    BY <1>1, <1>10 DEF CreateObject, CreateUnanswered, Goto
  <2> QED
    BY <2>1, <2>2, PlainHolds DEF WithBucket, WithSecret
<1> QED
  BY <1>6, <1>7, <1>8, <1>9, <1>10
     DEF reconcileKyuubiCluster, constructKyuubiCluster, KyuubiErrors

-----------------------------------------------------------------------------
(* The invariant.                                                          *)

\* Whatever a worker's call does, its keys and endpoint stay right.
LEMMA WorkKeeps ==
  ASSUME Inv, KeysInv, NEW w \in Workers, Work(w) \/ Errors(w)
  PROVE  Moves(w) /\ Affects(w) /\ Holds(w)'
<1>1. Working(w)
  BY DEF Work, Errors
<1> QED
  BY <1>1, DatabaseSteps, MinioSteps, ZookeeperSteps, DorisSteps, HdfsSteps, MetastoreSteps,
     KyuubiSteps, OthersKeep, MinioKeeps, MetastoreKeeps, KyuubiKeeps DEF Work, Errors

\* What was created is still right, and so is what is created.
LEMMA AgreeStays ==
  ASSUME Inv, KeysInv, Grows, used'.fails \in Nat, used'.fails >= used.fails,
         \A k \in Keys : \A kind \in Kinds :
           \/ objs'[k][kind] = objs[k][kind]
           \/ \E w \in Workers : k = KeyOf(w) /\ Owned(w, kind, objs'[k][kind])
  PROVE  CredentialsAgree'
<1> SUFFICES ASSUME NEW k \in Keys
             PROVE  /\ UsesMinio(k, "metastore")' =>
                         KeysAgree(k, "metastore")' /\ objs'[k]["metastore"].endpoint = k
                    /\ UsesMinio(k, "kyuubi")' /\ used'.fails = 0 =>
                         /\ KeysAgree(k, "kyuubi")'
                         /\ UsesMinio(k, "metastore")' => objs'[k]["kyuubi"].endpoint = k
  BY DEF CredentialsAgree
<1>1. {"minioUserSecret", "metastore", "kyuubi"} \subseteq Kinds /\ used.fails \in Nat
  BY DEF Kinds, Secrets, Inv, Shape
<1>2. objs[k]["minioUserSecret"].cred # None =>
        objs'[k]["minioUserSecret"] = objs[k]["minioUserSecret"]
  BY <1>1 DEF KeysInv, KeysOwned, Grows
<1>3. Exists(k, "metastore") => UsesMinio(k, "metastore")' = UsesMinio(k, "metastore")
  BY <1>1 DEF Grows, UsesMinio, Exists
<1>4. Exists(k, "kyuubi") => Exists(k, "metastore")
  BY DEF Inv, ProvisionOrder, KyuubiOrdered, KeysInv, ServicesOwned
<1>5. UsesMinio(k, "metastore")' =>
        KeysAgree(k, "metastore")' /\ objs'[k]["metastore"].endpoint = k
  BY <1>1, <1>2 DEF KeysInv, CredentialsAgree, UsesMinio, KeysAgree, Exists, Owned
<1>6. UsesMinio(k, "kyuubi")' /\ used'.fails = 0 =>
        /\ KeysAgree(k, "kyuubi")'
        /\ UsesMinio(k, "metastore")' => objs'[k]["kyuubi"].endpoint = k
  <2> SUFFICES ASSUME UsesMinio(k, "kyuubi")', used'.fails = 0
               PROVE  /\ KeysAgree(k, "kyuubi")'
                      /\ UsesMinio(k, "metastore")' => objs'[k]["kyuubi"].endpoint = k
    OBVIOUS
  <2>1. used.fails = 0
    BY <1>1
  <2>2. CASE objs'[k]["kyuubi"] = objs[k]["kyuubi"]
    <3>1. UsesMinio(k, "kyuubi")
      BY <2>2 DEF UsesMinio, Exists
    <3> QED
      BY <1>2, <1>3, <1>4, <2>1, <2>2, <3>1 DEF KeysInv, CredentialsAgree, UsesMinio, KeysAgree
  <2>3. CASE objs'[k]["kyuubi"] # objs[k]["kyuubi"]
    <3>1. PICK w \in Workers : k = KeyOf(w) /\ Owned(w, "kyuubi", objs'[k]["kyuubi"])
      BY <1>1, <2>3
    <3> QED
      BY <1>2, <1>3, <2>1, <3>1 DEF UsesMinio, KeysAgree, Owned
  <2> QED
    BY <2>2, <2>3
<1> QED
  BY <1>5, <1>6

\* The keys of a secret stay those of a worker of its NineCluster.
LEMMA OwnedStays ==
  ASSUME Inv, KeysInv, Grows, begun' \in Nat, begun' >= begun,
         \A r \in Runs : r <= begun => run'[r] = run[r],
         \A k \in Keys : \A kind \in Kinds :
           \/ objs'[k][kind] = objs[k][kind]
           \/ /\ ~ Exists(k, kind) /\ objs'[k][kind].gen # 0
              /\ \E w \in Workers : /\ pc[w] # "idle"
                                    /\ k = KeyOf(w) /\ Owned(w, kind, objs'[k][kind])
  PROVE  KeysOwned'
<1> DEFINE u == "minioUserSecret"
<1> SUFFICES ASSUME NEW k \in Keys
             PROVE  /\ Exists(k, u)' <=> objs'[k][u].cred # None
                    /\ Exists(k, u)' =>
                         LET c == objs'[k][u].cred
                         IN  c \in Workers /\ c[1] <= begun' /\ run'[c[1]].key = k
  BY DEF KeysOwned, KeyOf
<1>1. u \in Kinds /\ begun \in Nat
  BY NineInfraAssumption DEF Kinds, Secrets, Inv, Shape
<1>2. CASE objs'[k][u] = objs[k][u]
  <2>1. Exists(k, u)' = Exists(k, u) /\ (Exists(k, u) <=> objs[k][u].cred # None)
    BY <1>2 DEF Exists, KeysInv, KeysOwned
  <2>2. ASSUME Exists(k, u)
        PROVE  LET c == objs[k][u].cred
               IN  c \in Workers /\ c[1] <= begun' /\ run'[c[1]].key = k
    <3> DEFINE c == objs[k][u].cred
    <3>1. c \in Workers /\ c[1] <= begun /\ KeyOf(c) = k
      BY <2>2 DEF KeysInv, KeysOwned
    <3> HIDE DEF c
    <3>2. c[1] \in Runs /\ c[1] \in Nat
      BY <3>1, NineInfraAssumption DEF Workers, Runs
    <3> QED
      BY <1>1, <3>1, <3>2 DEF KeyOf, c
  <2> QED
    BY <1>2, <2>1, <2>2
<1>3. CASE objs'[k][u] # objs[k][u]
  <2>1. PICK w \in Workers : /\ ~ Exists(k, u) /\ objs'[k][u].gen # 0
                             /\ pc[w] # "idle" /\ k = KeyOf(w)
                             /\ Owned(w, u, objs'[k][u])
    BY <1>1, <1>3
  <2>2. w[1] \in Runs /\ w[1] \in Nat /\ w[1] <= begun
    BY <2>1, NineInfraAssumption DEF Workers, Runs, Inv, Started
  <2>3. objs'[k][u].cred = w /\ w # None
    BY <2>1, NineInfraAssumption DEF Owned
  <2> QED
    BY <1>1, <2>1, <2>2, <2>3 DEF KeyOf, Exists
<1> QED
  BY <1>2, <1>3

\* An object that appears has been created.
LEMMA MovesCreated ==
  ASSUME Inv, NEW w \in Workers, KeyOf(w) \in Keys, Moves(w), Affects(w),
         NEW k \in Keys, NEW kind \in Kinds
  PROVE  \/ objs'[k][kind] = objs[k][kind]
         \/ /\ ~ Exists(k, kind) /\ objs'[k][kind].gen # 0
            /\ k = KeyOf(w) /\ Owned(w, kind, objs'[k][kind])
<1>1. objs \in [Keys -> [Kinds -> Bodies]]
  BY DEF Inv, Shape
<1>2. CASE objs' = objs
  BY <1>2
<1>3. CASE objs' # objs
  <2>1. PICK l \in Kinds, o \in Bodies :
          /\ ~ Exists(KeyOf(w), l) /\ o.gen # 0
          /\ objs' = [objs EXCEPT ![KeyOf(w)][l] = o]
    BY <1>3 DEF Moves
  <2>2. /\ objs'[KeyOf(w)][l] = o
        /\ \A j \in Keys : \A m \in Kinds : <<j, m>> # <<KeyOf(w), l>> => objs'[j][m] = objs[j][m]
    BY <1>1, <2>1, Added
  <2> QED
    BY <2>1, <2>2 DEF Affects
<1> QED
  BY <1>2, <1>3

\* A worker's call.
LEMMA WorkKeysInv ==
  ASSUME Inv, KeysInv, NEW w \in Workers, Work(w) \/ Errors(w)
  PROVE  KeysInv'
<1>1. pc[w] # "idle" /\ KeyOf(w) \in Keys
  BY WorkingFacts DEF Work, Errors, Working, Ended
<1>2. Moves(w) /\ Affects(w) /\ Holds(w)'
  BY WorkKeeps
<1>3. Grows
  BY <1>1, <1>2, MovesGrow
<1>4. /\ used'.fails \in Nat /\ used'.fails >= used.fails
      /\ begun' = begun /\ run' = run /\ begun \in Nat
  BY <1>2, NineInfraAssumption DEF Moves, Affects, Inv, Shape
<1>5. \A k \in Keys : \A kind \in Kinds :
        \/ objs'[k][kind] = objs[k][kind]
        \/ /\ ~ Exists(k, kind) /\ objs'[k][kind].gen # 0
           /\ k = KeyOf(w) /\ Owned(w, kind, objs'[k][kind])
  BY <1>1, <1>2, MovesCreated
<1>6. KeysOwned'
  BY <1>1, <1>3, <1>4, <1>5, OwnedStays
<1>7. ServicesOwned'
  <2>1. \A k \in Keys : \A s : Live(k, s)' = Live(k, s)
    BY <1>2 DEF Moves, Live
  <2>2. \A k \in Keys : Exists(k, "metastore") => Exists(k, "metastore")'
    BY <1>3 DEF Grows, Exists, Kinds
  <2>3. \A k \in Keys : Has(k, "bucket")' => Has(k, "bucket") \/ Live(k, "minio")
    BY <1>2 DEF Affects
  <2> QED
    BY <2>1, <2>2, <2>3 DEF KeysInv, ServicesOwned
<1>8. ASSUME NEW v \in Workers PROVE Holds(v)'
  <2>1. CASE v = w
    BY <1>2, <2>1
  <2>2. CASE v # w
    <3>1. pc'[v] = pc[v] /\ local'[v] = local[v]
      BY <1>2, <2>2 DEF Affects
    <3>2. CASE pc[v] # "idle"
      BY <1>3, <1>4, <3>1, <3>2, HoldsStays
    <3>3. CASE pc[v] = "idle"
      <4>1. local[v].cred = None
        BY <3>3 DEF KeysInv, Holds, HoldsKeys
      <4> QED
        BY <3>1, <3>3, <4>1 DEF Holds, HoldsKeys, HoldsMetastore, HoldsKyuubi, WithBucket,
                                WithSvc, WithSecret
    <3> QED
      BY <3>2, <3>3
  <2> QED
    BY <2>1, <2>2
<1>9. CredentialsAgree'
  BY <1>3, <1>4, <1>5, AgreeStays
<1> QED
  BY <1>6, <1>7, <1>8, <1>9 DEF KeysInv

\* Whatever happens outside the workers' calls.
LEMMA QuietKeysInv ==
  ASSUME Inv, KeysInv, Grows, objs' = objs, items' = items, ServicesOwned',
         used'.fails \in Nat, used'.fails >= used.fails,
         begun' \in Nat, begun' >= begun, \A r \in Runs : r <= begun => run'[r] = run[r],
         \A w \in Workers :
           \/ pc'[w] \in Ignorant /\ local'[w].cred = None
           \/ /\ pc'[w] = pc[w] \/ pc'[w] \notin WithBucket \cup WithSvc
              /\ pc'[w] # "idle" /\ pc[w] # "idle"
              /\ local'[w] = local[w] /\ run'[w[1]] = run[w[1]]
  PROVE  KeysInv'
<1>1. KeysOwned'
  BY OwnedStays
<1>2. CredentialsAgree'
  BY AgreeStays
<1>3. ASSUME NEW w \in Workers PROVE Holds(w)'
  <2>1. CASE pc'[w] \in Ignorant /\ local'[w].cred = None
    BY <2>1 DEF Holds, HoldsKeys, HoldsMetastore, HoldsKyuubi, WithBucket, WithSvc,
                WithSecret, Ignorant, Ended
  <2>2. CASE /\ pc'[w] = pc[w] \/ pc'[w] \notin WithBucket \cup WithSvc
             /\ pc'[w] # "idle" /\ pc[w] # "idle"
             /\ local'[w] = local[w] /\ run'[w[1]] = run[w[1]]
    BY <2>2, HoldsStays DEF WithSvc, WithSecret
  <2> QED
    BY <2>1, <2>2
<1> QED
  BY <1>1, <1>2, <1>3 DEF KeysInv

\* A worker that has not started holds nothing.
LEMMA IdleHolds ==
  ASSUME Inv, KeysInv, NEW w \in Workers
  PROVE  pc[w] = "idle" => local[w].cred = None
  BY DEF KeysInv, Holds, HoldsKeys

\* A service called "minio" appears where there was none.
LEMMA BringUpServices ==
  ASSUME Inv, KeysInv, NEW k \in Keys, NEW s \in Services, BringUp(k, s)
  PROVE  ServicesOwned'
<1>1. /\ live' = live \cup {<<k, s>>} /\ UNCHANGED <<objs, items>>
      /\ Exists(k, IF s = "minio" THEN "tenant" ELSE s)
      /\ s = "minio" => MinioService(k) = {}
  BY DEF BringUp
<1>2. \A j \in Keys : \A d : Live(j, d)' <=> Live(j, d) \/ (j = k /\ d = s)
  BY <1>1 DEF Live
<1>3. \A j \in Keys : (\A d : Has(j, d)' = Has(j, d)) /\ (\A kind : Exists(j, kind)' = Exists(j, kind))
  BY <1>1 DEF Has, Exists
<1>4. s = "minio" => \A j \in Keys : NamespaceOf[j] = NamespaceOf[k] => ~ Live(j, "minio")
  BY <1>1 DEF MinioService
<1> QED
  BY <1>1, <1>2, <1>3, <1>4 DEF KeysInv, ServicesOwned

\* A Reconcile only takes workers that have not started.
LEMMA ReconcileKeysInv ==
  ASSUME Inv, KeysInv, Inv', Grows, NEW k \in Keys, Reconcile(k)
  PROVE  KeysInv'
<1>1. /\ UNCHANGED <<objs, live, items, local, used>>
      /\ begun' = begun + 1 /\ begun \in Nat /\ used.fails \in Nat
      /\ \A r \in Runs : r # begun + 1 => run'[r] = run[r]
      /\ \A w \in Workers : w[1] # begun + 1 => pc'[w] = pc[w]
      /\ \A w \in Workers : w[1] = begun + 1 => pc'[w] \in {"spawned", "done", pc[w]}
  BY NineInfraAssumption DEF Reconcile, Inv, Shape
<1>2. ServicesOwned'
  BY <1>1 DEF KeysInv, ServicesOwned, Live, Has, Exists
<1>3. ASSUME NEW w \in Workers
      PROVE  \/ pc'[w] \in Ignorant /\ local'[w].cred = None
             \/ /\ pc'[w] = pc[w] /\ pc'[w] # "idle" /\ pc[w] # "idle"
                /\ local'[w] = local[w] /\ run'[w[1]] = run[w[1]]
  <2>1. CASE pc[w] = "idle"
    BY <1>1, <2>1, IdleHolds DEF Ignorant, Ended
  <2>2. CASE pc[w] # "idle"
    <3>1. w[1] \in Runs /\ w[1] \in Nat /\ w[1] <= begun
      BY <2>2, NineInfraAssumption DEF Inv, Started, Workers, Runs
    <3> QED
      BY <1>1, <2>2, <3>1
  <2> QED
    BY <2>1, <2>2
<1>4. \A r \in Runs : r <= begun => run'[r] = run[r]
  BY <1>1, NineInfraAssumption DEF Runs
<1> QED
  BY <1>1, <1>2, <1>3, <1>4, QuietKeysInv

\* reconcileRoutine sends no worker where a bucket or an endpoint is needed.
LEMMA DispatchKeysInv ==
  ASSUME Inv, KeysInv, Grows, NEW w \in Workers, StartWorker(w) \/ SkipWorker(w)
  PROVE  KeysInv'
<1>1. /\ UNCHANGED <<objs, live, items, local, used, begun, run>>
      /\ begun \in Nat /\ used.fails \in Nat
      /\ pc[w] = "spawned" /\ pc \in [Workers -> Places]
      /\ \E q \in {Start(w), "skipped"} : pc' = [pc EXCEPT ![w] = q]
  BY NineInfraAssumption DEF StartWorker, SkipWorker, Outside, Inv, Shape
<1>2. Start(w) \notin WithBucket \cup WithSvc /\ Start(w) # "idle"
  <2>1. TypeOf(w) \in WorkerTypes
    BY <1>1 DEF Inv, Started
  <2> QED
    BY <2>1 DEF Start, WorkerTypes, KyuubiStart, AfterAuth, DatabaseStart, DorisStart,
                HdfsStart, WithBucket, WithSvc
<1>3. ServicesOwned'
  BY <1>1 DEF KeysInv, ServicesOwned, Live, Has, Exists
<1>4. \A v \in Workers : pc'[v] = pc[v] \/ (v = w /\ pc'[v] \in {Start(w), "skipped"})
  BY <1>1
<1>5. ASSUME NEW v \in Workers
      PROVE  \/ pc'[v] \in Ignorant /\ local'[v].cred = None
             \/ /\ pc'[v] = pc[v] \/ pc'[v] \notin WithBucket \cup WithSvc
                /\ pc'[v] # "idle" /\ pc[v] # "idle"
                /\ local'[v] = local[v] /\ run'[v[1]] = run[v[1]]
  <2>1. CASE pc[v] = "idle"
    BY <1>1, <1>4, <2>1, IdleHolds DEF Ignorant, Ended
  <2>2. CASE pc[v] # "idle"
    BY <1>1, <1>2, <1>4, <2>2 DEF WithBucket, WithSvc
  <2> QED
    BY <2>1, <2>2
<1>6. \A r \in Runs : r <= begun => run'[r] = run[r]
  BY <1>1
<1> QED
  BY <1>1, <1>3, <1>5, <1>6, QuietKeysInv

\* Users, the resync, the restart and the operators change no worker's place,
\* or all of them.
LEMMA OutsideKeysInv ==
  ASSUME Inv, KeysInv, Grows,
         \/ \E k \in Keys : CreateNineCluster(k) \/ UpdateNineCluster(k)
         \/ Resync
         \/ Restart
         \/ \E k \in Keys : \E s \in Services : BringUp(k, s)
         \/ UNCHANGED vars
  PROVE  KeysInv'
<1>1. /\ UNCHANGED <<objs, items, begun, run>> /\ begun \in Nat /\ used.fails \in Nat
      /\ used'.fails = used.fails
      /\ UNCHANGED <<pc, local>> \/ Restart
      /\ live' = live \/ \E k \in Keys : \E s \in Services : BringUp(k, s)
  BY NineInfraAssumption DEF CreateNineCluster, UpdateNineCluster, Resync, Restart, BringUp,
     vars, Inv, Shape
<1>2. ServicesOwned'
  <2>1. CASE live' = live
    BY <1>1, <2>1 DEF KeysInv, ServicesOwned, Live, Has, Exists
  <2> QED
    BY <1>1, <2>1, BringUpServices
<1>3. ASSUME NEW w \in Workers
      PROVE  \/ pc'[w] \in Ignorant /\ local'[w].cred = None
             \/ /\ pc'[w] = pc[w] \/ pc'[w] \notin WithBucket \cup WithSvc
                /\ pc'[w] # "idle" /\ pc[w] # "idle"
                /\ local'[w] = local[w] /\ run'[w[1]] = run[w[1]]
  <2>1. CASE Restart
    BY <2>1 DEF Restart, NoLocal, Ignorant, Ended
  <2>2. CASE UNCHANGED <<pc, local>> /\ pc[w] = "idle"
    BY <2>2, IdleHolds DEF Ignorant, Ended
  <2>3. CASE UNCHANGED <<pc, local>> /\ pc[w] # "idle"
    BY <1>1, <2>3
  <2> QED
    BY <1>1, <2>1, <2>2, <2>3
<1>4. \A r \in Runs : r <= begun => run'[r] = run[r]
  BY <1>1
<1> QED
  BY <1>1, <1>2, <1>3, <1>4, QuietKeysInv

\* Nothing has been read before anything happens.
LEMMA InitKeysInv ==
  ASSUME Init
  PROVE  KeysInv
<1>1. /\ \A k \in Keys : \A kind \in Kinds : objs[k][kind] = Missing
      /\ \A w \in Workers : pc[w] = "idle" /\ local[w] = NoLocal
      /\ live = {} /\ items = {}
      /\ {"minioUserSecret", "metastore", "kyuubi"} \subseteq Kinds
  BY DEF Init, Kinds, Secrets
<1>2. KeysOwned /\ CredentialsAgree
  BY <1>1 DEF KeysOwned, CredentialsAgree, UsesMinio, Exists, Missing
<1>3. ServicesOwned
  BY <1>1 DEF ServicesOwned, Live, Has
<1>4. \A w \in Workers : Holds(w)
  BY <1>1 DEF Holds, HoldsKeys, HoldsMetastore, HoldsKyuubi, NoLocal, WithBucket, WithSvc,
              WithSecret
<1> QED
  BY <1>2, <1>3, <1>4 DEF KeysInv

\* Every step of the operator keeps it.
LEMMA StepKeysInv ==
  ASSUME Inv, KeysInv, [Next]_vars
  PROVE  KeysInv'
<1>1. Inv' /\ Grows
  BY StepInv
<1> QED
  BY <1>1, WorkKeysInv, ReconcileKeysInv, DispatchKeysInv, OutsideKeysInv DEF Next

\* The MinIO keys and the endpoint in a MetastoreCluster are those of its own
\* tenant, whatever else lives in its namespace, and those in a KyuubiCluster
\* too as long as no call failed and its metastore has the same storage.
THEOREM NineInfraCredentialsAgree == Spec => []CredentialsAgree
<1>1. Init => Inv /\ KeysInv
  BY InitInv, InitKeysInv
<1>2. Inv /\ KeysInv /\ [Next]_vars => (Inv /\ KeysInv)'
  BY StepInv, StepKeysInv
<1>3. KeysInv => CredentialsAgree
  BY DEF KeysInv
<1> QED
  BY <1>1, <1>2, <1>3, PTL DEF Spec

-----------------------------------------------------------------------------
(* Who is left.                                                            *)

ZookeeperPlaces == {"zkGet", "zkCreate", "done", "failed"}
DorisPlaces     == {"dorisGet", "dorisGetNil", "dorisCreate", "done", "failed"}

\* A worker is where workers of its type are.
InPlace(w) ==
  /\ pc[w] \in PgPlaces \ Ended => TypeOf(w) = "database"
  /\ pc[w] \in MinioPlaces \ Ended => TypeOf(w) = "minio"
  /\ pc[w] \in ZookeeperPlaces \ Ended => TypeOf(w) = "zookeeper"
  /\ pc[w] \in DorisPlaces \ Ended => TypeOf(w) = "doris"
  /\ pc[w] \in HdfsPlaces \ Ended => TypeOf(w) = "hdfs"
  /\ pc[w] \in MetastorePlaces \ Ended => TypeOf(w) = "metastore"
  /\ pc[w] \in KyuubiPlaces \ Ended => TypeOf(w) = "kyuubi"

\* An object of this life of the controller, which the cache may not show yet.
Fresh(k, kind) == Exists(k, kind) /\ objs[k][kind].life = used.crashes

\* Why a worker is where it is, if no call failed.
Reason(w) ==
  /\ pc[w] = "dorisGetNil" => ~ Provides(w)
  /\ pc[w] = "msDataDir" => Live(KeyOf(w), "hdfs")
  /\ pc[w] \in {"msMinioSecret", "msBucket"} => local[w].endpoint # None
  /\ pc[w] = "minioConfigCreate" /\ Exists(KeyOf(w), "minioConfigSecret")
     => Fresh(KeyOf(w), "minioConfigSecret")
  /\ pc[w] = "minioUserCreate" /\ Exists(KeyOf(w), "minioUserSecret")
     => Fresh(KeyOf(w), "minioUserSecret")
  /\ pc[w] = "tenantGetNil"
     => Fresh(KeyOf(w), "minioConfigSecret") \/ Fresh(KeyOf(w), "minioUserSecret")

\* Whoever made a secret in this life goes on to the tenant, or leaves that to
\* whoever made the other.
AtTenant == {"tenantGet", "tenantCreate"}
PastConfig == {"minioUserGet", "minioUserCreate"} \cup AtTenant

TenantInHand(k) ==
  /\ Fresh(k, "minioConfigSecret") =>
       Exists(k, "tenant") \/ \E v \in Workers : pc[v] \in PastConfig /\ KeyOf(v) = k
  /\ Fresh(k, "minioUserSecret") =>
       Exists(k, "tenant") \/ \E v \in Workers : pc[v] \in AtTenant /\ KeyOf(v) = k

\* An entry whose object is there, or on its way.
Served(w) ==
  \/ Exists(KeyOf(w), MainKind(TypeOf(w)))
  \/ \E v \in Workers : Working(v) /\ SameTarget(v, w)

Providers(w) == \A v \in Workers : pc[v] # "idle" /\ SameTarget(v, w) => Provides(v)

Over(w) == pc[w] \in {"done", "failed", "skipped"} /\ TypeOf(w) \in WorkerTypes

\* No secret is of a life to come.
Dated ==
  \A k \in Keys : \A kind \in {"minioConfigSecret", "minioUserSecret"} :
    objs[k][kind].life <= used.crashes

Lucky ==
  /\ \A w \in Workers : Reason(w)
  /\ \A k \in Keys : TenantInHand(k)
  /\ \A w \in Workers : Over(w) /\ Providers(w) => Served(w)

\* SomeoneSurvives, and what makes it stay.
SurviveInv ==
  /\ \A w \in Workers : InPlace(w)
  /\ Dated
  /\ used.fails = 0 => Lucky

-----------------------------------------------------------------------------
(* The steps of workers.                                                   *)

\* A call that fails is counted.
LEMMA ErrorsCount ==
  ASSUME Inv, NEW w \in Workers, Errors(w)
  PROVE  used'.fails # 0
<1>1. used' = [used EXCEPT !.fails = used.fails + 1]
  BY DEF Errors, DatabaseErrors, MinioErrors, ZookeeperErrors, DorisErrors, HdfsErrors,
         MetastoreErrors, KyuubiErrors, CallFails, CreateUnanswered, getHdfsExposedInfoTimeout,
         getMinioExposedInfoErrors
<1> QED
  BY <1>1 DEF Inv, Shape

\* The workers of database entries keep to their places.
LEMMA PgPlace ==
  ASSUME Inv, NEW w \in Workers, reconcilePGCluster(w) \/ DatabaseErrors(w)
  PROVE  pc[w] \in PgPlaces \ Ended /\ pc'[w] \in PgPlaces
  BY DEF reconcilePGCluster, DatabaseErrors, reconcilePGInitDBUserSecret,
     reconcilePGSuperUserSecret, GetCached, GetObject, CreateObject, CreateUnanswered,
     CallFails, Goto, PgPlaces, Ended, Inv, Shape

\* So do those of minio entries.
LEMMA MinioPlace ==
  ASSUME Inv, NEW w \in Workers, reconcileMinioTenant(w) \/ MinioErrors(w)
  PROVE  pc[w] \in MinioPlaces \ Ended /\ pc'[w] \in MinioPlaces
  BY DEF reconcileMinioTenant, MinioErrors,
     reconcileMinioTenantConfigSecret, reconcileMinioNewUserSecret, GetCached, GetObject,
     CreateObject, CreateUnanswered, CallFails, Goto, MinioPlaces, Ended, Inv, Shape

\* So do those of zookeeper entries.
LEMMA ZookeeperPlace ==
  ASSUME Inv, NEW w \in Workers, reconcileZookeeperCluster(w) \/ ZookeeperErrors(w)
  PROVE  pc[w] \in ZookeeperPlaces \ Ended /\ pc'[w] \in ZookeeperPlaces
  BY DEF reconcileZookeeperCluster, ZookeeperErrors, GetObject, CreateObject,
     CreateUnanswered, CallFails, Goto, ZookeeperPlaces, Ended, Inv, Shape

\* So do those of doris entries.
LEMMA DorisPlace ==
  ASSUME Inv, NEW w \in Workers, reconcileDorisCluster(w) \/ DorisErrors(w)
  PROVE  pc[w] \in DorisPlaces \ Ended /\ pc'[w] \in DorisPlaces
  BY DEF reconcileDorisCluster, DorisErrors, GetObject, CreateObject,
     CreateUnanswered, CallFails, Goto, DorisPlaces, Ended, Inv, Shape

\* So do those of hdfs entries.
LEMMA HdfsPlace ==
  ASSUME Inv, NEW w \in Workers, reconcileHdfsCluster(w) \/ HdfsErrors(w)
  PROVE  pc[w] \in HdfsPlaces \ Ended /\ pc'[w] \in HdfsPlaces
  BY DEF reconcileHdfsCluster, HdfsErrors, GetObject, CreateObject, WaitFor,
     CreateUnanswered, CallFails, Goto, HdfsPlaces, Ended, Inv, Shape

\* So do those of metastore entries.
LEMMA MetastorePlace ==
  ASSUME Inv, NEW w \in Workers, reconcileMetastoreCluster(w) \/ MetastoreErrors(w)
  PROVE  pc[w] \in MetastorePlaces \ Ended /\ pc'[w] \in MetastorePlaces
  BY DEF reconcileMetastoreCluster, MetastoreErrors, initMetastore,
     constructMetastoreClusterRefs, getHdfsExposedInfo, getHdfsExposedInfoTimeout,
     createHdfsDataDir, getMinioExposedInfo, getMinioExposedInfoErrors,
     createMinioBucketAndFolder, WaitFor, WriteItem, CreateObject, CreateUnanswered,
     CallFails, Goto, MetastorePlaces, AtHdfs, AtMinio, Prepared, Ended, Inv, Shape

\* So do those of kyuubi entries.
LEMMA KyuubiPlace ==
  ASSUME Inv, NEW w \in Workers, reconcileKyuubiCluster(w) \/ KyuubiErrors(w)
  PROVE  pc[w] \in KyuubiPlaces \ Ended /\ pc'[w] \in KyuubiPlaces
  BY DEF reconcileKyuubiCluster, KyuubiErrors, constructKyuubiCluster, configJdbcAuth,
     AfterAuth, getMetastoreExposedInfo, getMinioExposedInfo, getMinioExposedInfoErrors,
     GetObject, WaitFor, WriteItem, CreateObject, CreateUnanswered,
     CallFails, Goto, KyuubiPlaces, BeforeKyuubi, Ended, Inv, Shape

\* The places of two types have only the ends in common.
LEMMA PlacesApart ==
  ASSUME NEW w, InPlace(w),
         \/ pc[w] \in PgPlaces \ Ended /\ pc'[w] \in PgPlaces
         \/ pc[w] \in MinioPlaces \ Ended /\ pc'[w] \in MinioPlaces
         \/ pc[w] \in ZookeeperPlaces \ Ended /\ pc'[w] \in ZookeeperPlaces
         \/ pc[w] \in DorisPlaces \ Ended /\ pc'[w] \in DorisPlaces
         \/ pc[w] \in HdfsPlaces \ Ended /\ pc'[w] \in HdfsPlaces
         \/ pc[w] \in MetastorePlaces \ Ended /\ pc'[w] \in MetastorePlaces
         \/ pc[w] \in KyuubiPlaces \ Ended /\ pc'[w] \in KyuubiPlaces,
         TypeOf(w)' = TypeOf(w)
  PROVE  InPlace(w)'
  BY DEF InPlace, PgPlaces, MinioPlaces, ZookeeperPlaces, DorisPlaces, HdfsPlaces,
         MetastorePlaces, KyuubiPlaces, AtHdfs, AtMinio, Prepared, BeforeKyuubi, Ended

\* Whatever happens in a call, its worker stays where workers of its type are.
LEMMA WorkInPlace ==
  ASSUME Inv, NEW w \in Workers, Work(w) \/ Errors(w), Moves(w), InPlace(w)
  PROVE  InPlace(w)'
<1>1. TypeOf(w)' = TypeOf(w)
  BY DEF Moves, TypeOf, EntryOf, SpecOf
<1> QED
  BY <1>1, PgPlace, MinioPlace, ZookeeperPlace, DorisPlace, HdfsPlace, MetastorePlace,
     KyuubiPlace, PlacesApart DEF Work, Errors

\* The object of a kind is there, and no other has changed.
AddsOnly(w, kind) ==
  /\ KeyOf(w)' = KeyOf(w)
  /\ objs'[KeyOf(w)][kind].gen # 0
  /\ \A k \in Keys : \A l \in Kinds : <<k, l>> # <<KeyOf(w), kind>> => objs'[k][l] = objs[k][l]

\* After a Create that answers, the object is there.
LEMMA CreateExists ==
  ASSUME Inv, NEW w \in Workers, KeyOf(w) \in Keys, NEW here, NEW kind \in Kinds,
         NEW body \in Bodies, body.gen # 0, NEW next, NEW other,
         CreateObject(w, here, kind, body, next, other)
  PROVE  AddsOnly(w, kind)
<1>1. /\ objs \in [Keys -> [Kinds -> Bodies]] /\ KeyOf(w)' = KeyOf(w)
      /\ pc \in [Workers -> Places]
  BY DEF CreateObject, Outside, KeyOf, Inv, Shape
<1>2. CASE Exists(KeyOf(w), kind)
  <2>1. objs' = objs
    BY <1>2 DEF CreateObject
  <2> QED
    BY <1>1, <1>2, <2>1 DEF AddsOnly, Exists
<1>3. CASE ~ Exists(KeyOf(w), kind)
  <2>1. objs' = [objs EXCEPT ![KeyOf(w)][kind] = body]
    BY <1>3 DEF CreateObject
  <2>2. /\ objs'[KeyOf(w)][kind] = body
        /\ \A k \in Keys : \A l \in Kinds : <<k, l>> # <<KeyOf(w), kind>> => objs'[k][l] = objs[k][l]
    BY <1>1, <2>1, Added
  <2> QED
    BY <1>1, <1>3, <2>2 DEF AddsOnly
<1> QED
  BY <1>2, <1>3

\* How a worker of some other type than minio gets on while no call fails: if it
\* ends, its object is there, unless it provides none.
Ends(w) ==
  pc'[w] \in Ended =>
    pc'[w] \in {"done", "failed"}
    /\ (Provides(w) => Exists(KeyOf(w), MainKind(TypeOf(w)))')

\* The secrets of MinIO are left alone.
LeavesSecrets ==
  \A k \in Keys : \A kind \in {"minioConfigSecret", "minioUserSecret"} :
    objs'[k][kind] = objs[k][kind]

\* A Get found the object, or it is created.
LEMMA GetOrCreateEnds ==
  ASSUME Inv, NEW w \in Workers, KeyOf(w) \in Keys, NEW kind \in Kinds \ Secrets,
         NEW body \in Bodies, body.gen # 0, NEW get, NEW create, create \notin Ended,
         \/ GetObject(w, get, kind, "done", create)
         \/ CreateObject(w, create, kind, body, "done", "failed")
  PROVE  /\ pc'[w] \in {"done", "failed", create} /\ pc[w] \in {get, create}
         /\ pc'[w] \in Ended => Exists(KeyOf(w), kind)'
         /\ LeavesSecrets
<1>1. pc \in [Workers -> Places] /\ {"minioConfigSecret", "minioUserSecret"} \subseteq Secrets
  BY DEF Inv, Shape, Secrets
<1>2. CASE GetObject(w, get, kind, "done", create)
  BY <1>1, <1>2 DEF GetObject, Goto, Exists, Outside, KeyOf, LeavesSecrets
<1>3. CASE CreateObject(w, create, kind, body, "done", "failed")
  <2>1. AddsOnly(w, kind)
    BY <1>3, CreateExists
  <2>2. pc[w] = create /\ pc'[w] \in {"done", "failed"}
    BY <1>1, <1>3 DEF CreateObject, Goto
  <2> QED
    BY <1>1, <2>1, <2>2 DEF AddsOnly, Exists, LeavesSecrets, Kinds
<1> QED
  BY <1>2, <1>3

\* The worker of a database entry.
LEMMA DatabaseEnds ==
  ASSUME Inv, NEW w \in Workers, Working(w), InPlace(w), reconcilePGCluster(w)
  PROVE  Ends(w) /\ LeavesSecrets /\ Reason(w)'
<1>1. pc[w] # "idle" /\ KeyOf(w) \in Keys /\ pc \in [Workers -> Places]
  BY WorkingFacts DEF Working, Ended, Inv, Shape
<1>2. /\ Body(w) \in Bodies /\ Body(w).gen # 0
      /\ {"pgUserSecret", "pgSuperSecret", "pg"} \subseteq Kinds /\ "pg" \notin Secrets
      /\ {"pgUserSecret", "pgSuperSecret"} \cap {"minioConfigSecret", "minioUserSecret"} = {}
      /\ {"minioConfigSecret", "minioUserSecret"} \subseteq Kinds
  BY <1>1, BodyType DEF Kinds, Secrets
<1>3. TypeOf(w) = "database" /\ MainKind(TypeOf(w)) = "pg" /\ pc'[w] \in PgPlaces
  BY PgPlace DEF InPlace, MainKind
<1>4. Reason(w)'
  BY <1>3 DEF Reason, PgPlaces
<1>5. CASE reconcilePGInitDBUserSecret(w) \/ reconcilePGSuperUserSecret(w)
  <2>1. pc'[w] \notin Ended
    BY <1>1, <1>5 DEF reconcilePGInitDBUserSecret, reconcilePGSuperUserSecret, GetCached,
       CreateObject, Goto, Ended
  <2>2. CASE objs' = objs
    BY <1>4, <2>1, <2>2 DEF Ends, LeavesSecrets
  <2>3. CASE objs' # objs
    <3>1. PICK kind, here, next : /\ kind \in {"pgUserSecret", "pgSuperSecret"}
                                  /\ CreateObject(w, here, kind, Body(w), next, next)
      BY <1>5, <2>3 DEF reconcilePGInitDBUserSecret, reconcilePGSuperUserSecret, GetCached
    <3>2. AddsOnly(w, kind)
      <4>1. kind \in Kinds
        BY <1>2, <3>1
      <4> QED
        BY <1>1, <1>2, <3>1, <4>1, CreateExists
    <3> QED
      BY <1>2, <1>4, <2>1, <3>1, <3>2 DEF Ends, LeavesSecrets, AddsOnly
  <2> QED
    BY <2>2, <2>3
<1>6. CASE \/ GetObject(w, "pgGet", "pg", "done", "pgCreate")
           \/ CreateObject(w, "pgCreate", "pg", Body(w), "done", "failed")
  <2>1. /\ pc'[w] \in {"done", "failed", "pgCreate"}
        /\ pc'[w] \in Ended => Exists(KeyOf(w), "pg")'
        /\ LeavesSecrets
    BY <1>1, <1>2, <1>6, GetOrCreateEnds DEF Ended
  <2>2. MainKind(TypeOf(w))' = "pg"
    BY <1>3, <1>6 DEF GetObject, CreateObject, Outside, TypeOf, EntryOf, SpecOf
  <2> QED
    BY <1>4, <2>1, <2>2 DEF Ends, Ended
<1> QED
  BY <1>5, <1>6 DEF reconcilePGCluster

\* The workers of zookeeper and doris entries.  Without frontends and backends
\* a doris entry provides nothing.
LEMMA ZookeeperDorisEnds ==
  ASSUME Inv, NEW w \in Workers, Working(w), InPlace(w), Reason(w), Moves(w),
         reconcileZookeeperCluster(w) \/ reconcileDorisCluster(w)
  PROVE  Ends(w) /\ LeavesSecrets /\ Reason(w)'
<1> DEFINE three == [Body(w) EXCEPT !.replicas = 3]
<1>1. pc[w] # "idle" /\ KeyOf(w) \in Keys /\ pc \in [Workers -> Places]
  BY WorkingFacts DEF Working, Ended, Inv, Shape
<1>2. /\ Body(w) \in Bodies /\ Body(w).gen # 0 /\ three \in Bodies /\ three.gen # 0
      /\ {"zookeeper", "doris"} \subseteq Kinds \ Secrets
  BY <1>1, BodyType, BodyTypes DEF Kinds, Secrets
<1>3. TypeOf(w)' = TypeOf(w)
  BY DEF Moves, TypeOf, EntryOf, SpecOf
<1> HIDE DEF three
<1>4. CASE reconcileZookeeperCluster(w)
  <2>1. TypeOf(w) = "zookeeper" /\ pc'[w] \in ZookeeperPlaces
    BY <1>4, ZookeeperPlace DEF InPlace
  <2>2. /\ pc'[w] \in {"done", "failed", "zkCreate"}
        /\ pc'[w] \in Ended => Exists(KeyOf(w), "zookeeper")'
        /\ LeavesSecrets
    BY <1>1, <1>2, <1>4, GetOrCreateEnds DEF Ended, reconcileZookeeperCluster, three
  <2>3. MainKind(TypeOf(w))' = "zookeeper"
    BY <1>3, <2>1 DEF MainKind
  <2> QED
    BY <2>1, <2>2, <2>3 DEF Ends, Ended, Reason, ZookeeperPlaces
<1>5. CASE reconcileDorisCluster(w)
  <2>1. TypeOf(w) = "doris" /\ pc'[w] \in DorisPlaces
    BY <1>5, DorisPlace DEF InPlace
  <2>2. MainKind(TypeOf(w))' = "doris"
    BY <1>3, <2>1 DEF MainKind
  <2>3. CASE \/ GetObject(w, "dorisGet", "doris", "done", "dorisCreate")
             \/ CreateObject(w, "dorisCreate", "doris", Body(w), "done", "failed")
    <3>1. /\ pc'[w] \in {"done", "failed", "dorisCreate"}
          /\ pc'[w] \in Ended => Exists(KeyOf(w), "doris")'
          /\ LeavesSecrets
      BY <1>1, <1>2, <2>3, GetOrCreateEnds DEF Ended
    <3> QED
      BY <2>2, <3>1 DEF Ends, Ended, Reason
  <2>4. CASE GetObject(w, "dorisGetNil", "doris", "done", "failed")
    <3>1. pc[w] = "dorisGetNil" /\ pc'[w] \in {"done", "failed"} /\ objs' = objs
      BY <1>1, <2>4 DEF GetObject, Goto
    <3>2. ~ Provides(w)
      BY <3>1 DEF Reason
    <3> QED
      BY <3>1, <3>2 DEF Ends, Ended, Reason, LeavesSecrets
  <2> QED
    BY <1>5, <2>3, <2>4 DEF reconcileDorisCluster
<1> QED
  BY <1>4, <1>5

\* The worker of an hdfs entry.
LEMMA HdfsEnds ==
  ASSUME Inv, NEW w \in Workers, Working(w), InPlace(w), Moves(w), reconcileHdfsCluster(w)
  PROVE  Ends(w) /\ LeavesSecrets /\ Reason(w)'
<1>1. pc[w] # "idle" /\ KeyOf(w) \in Keys /\ pc \in [Workers -> Places]
  BY WorkingFacts DEF Working, Ended, Inv, Shape
<1>2. HdfsBody(w) \in Bodies /\ HdfsBody(w).gen # 0 /\ "hdfs" \in Kinds \ Secrets
  BY <1>1, HdfsBodyType DEF Kinds, Secrets
<1>3. TypeOf(w) = "hdfs" /\ MainKind(TypeOf(w))' = "hdfs" /\ pc'[w] \in HdfsPlaces
  <2>1. TypeOf(w)' = TypeOf(w)
    BY DEF Moves, TypeOf, EntryOf, SpecOf
  <2> QED
    BY <2>1, HdfsPlace DEF InPlace, MainKind
<1>4. Reason(w)'
  BY <1>3 DEF Reason, HdfsPlaces
<1>5. CASE WaitFor(w, "hdfsZk", getZookeeperExposedInfo(w), "hdfsGet")
  BY <1>1, <1>4, <1>5 DEF WaitFor, Goto, Ends, Ended, LeavesSecrets
<1>6. CASE \/ GetObject(w, "hdfsGet", "hdfs", "done", "hdfsCreate")
           \/ CreateObject(w, "hdfsCreate", "hdfs", HdfsBody(w), "done", "failed")
  <2>1. /\ pc'[w] \in {"done", "failed", "hdfsCreate"}
        /\ pc'[w] \in Ended => Exists(KeyOf(w), "hdfs")'
        /\ LeavesSecrets
    BY <1>1, <1>2, <1>6, GetOrCreateEnds DEF Ended
  <2> QED
    BY <1>3, <1>4, <2>1 DEF Ends, Ended
<1> QED
  BY <1>5, <1>6 DEF reconcileHdfsCluster

\* The worker of a metastore entry has an endpoint when it makes the bucket.
LEMMA MetastoreEnds ==
  ASSUME Inv, NEW w \in Workers, Working(w), InPlace(w), Reason(w), Moves(w),
         reconcileMetastoreCluster(w)
  PROVE  Ends(w) /\ LeavesSecrets /\ Reason(w)'
<1>1. pc[w] # "idle" /\ KeyOf(w) \in Keys /\ pc \in [Workers -> Places]
  BY WorkingFacts DEF Working, Ended, Inv, Shape
<1>2. KeyOf(w)' = KeyOf(w) /\ TypeOf(w)' = TypeOf(w) /\ live' = live
  BY DEF Moves, KeyOf, TypeOf, EntryOf, SpecOf
<1>3. TypeOf(w) = "metastore" /\ pc'[w] \in MetastorePlaces
  BY MetastorePlace DEF InPlace
<1>4. pc'[w] \notin {"dorisGetNil", "minioConfigCreate", "minioUserCreate", "tenantGetNil"}
  BY <1>3 DEF MetastorePlaces, AtHdfs, AtMinio, Prepared
<1>5. local \in [Workers -> [endpoint : Keys \cup {None}, cred : Workers \cup {None},
                             replicas : Nat]]
  BY DEF Inv, Shape
<1>6. CASE \/ initMetastore(w)
           \/ WaitFor(w, "msDatabase", getPGRWSvcNameWithSync(w),
                      IF GetClusterStorage(SpecOf(w)) = "hdfs" THEN "msNamenode" ELSE "msMinioSvc")
  <2>1. objs' = objs /\ pc'[w] \in {"msDatabase", "msNamenode", "msMinioSvc"}
    BY <1>1, <1>6 DEF initMetastore, WaitFor, Goto
  <2> QED
    BY <2>1 DEF Ends, Ended, LeavesSecrets, Reason
<1>7. CASE getHdfsExposedInfo(w, "msNamenode", "msDataDir")
  <2>1. objs' = objs /\ pc'[w] = "msDataDir" /\ Live(KeyOf(w), "hdfs")
    BY <1>1, <1>7 DEF getHdfsExposedInfo, WaitFor, Goto
  <2> QED
    BY <1>2, <2>1 DEF Ends, Ended, LeavesSecrets, Reason, Live
<1>8. CASE createHdfsDataDir(w, "msDataDir", "msGet")
  <2>1. objs' = objs /\ pc[w] = "msDataDir"
        /\ pc'[w] = IF Live(KeyOf(w), "hdfs") THEN "msGet" ELSE "failed"
    BY <1>1, <1>8 DEF createHdfsDataDir, WaitFor, WriteItem, Goto
  <2>2. pc'[w] = "msGet"
    BY <2>1 DEF Reason
  <2> QED
    BY <2>1, <2>2 DEF Ends, Ended, LeavesSecrets, Reason
<1>9. CASE getMinioExposedInfo(w, "msMinioSvc", "msMinioSecret", "msBucket")
  <2>1. objs' = objs /\ pc'[w] \in {"msMinioSvc", "msMinioSecret", "msBucket"}
    BY <1>1, <1>9 DEF getMinioExposedInfo, WaitFor, Goto
  <2>2. pc'[w] = "msMinioSecret" => local'[w].endpoint \in Keys
    BY <1>1, <1>5, <1>9 DEF getMinioExposedInfo, WaitFor, Goto, MinioService
  <2>3. pc'[w] = "msBucket" => pc[w] = "msMinioSecret" /\ local'[w].endpoint = local[w].endpoint
    BY <1>1, <1>5, <1>9 DEF getMinioExposedInfo, WaitFor, Goto
  <2> QED
    BY <2>1, <2>2, <2>3, NineInfraAssumption DEF Ends, Ended, LeavesSecrets, Reason
<1>10. CASE createMinioBucketAndFolder(w, "msBucket", "msFolder", "msGet")
  <2>1. objs' = objs /\ pc'[w] \in {"failed", "msFolder", "msGet"}
    BY <1>1, <1>10 DEF createMinioBucketAndFolder, WaitFor, WriteItem, Goto
  <2>2. pc'[w] = "failed" => pc[w] = "msBucket" /\ local[w].endpoint = None
    BY <1>1, <1>10 DEF createMinioBucketAndFolder, WaitFor, WriteItem, Goto
  <2>3. pc'[w] # "failed"
    BY <2>2 DEF Reason
  <2> QED
    BY <2>1, <2>3 DEF Ends, Ended, LeavesSecrets, Reason
<1>11. CASE /\ Goto(w, "msGet", IF Exists(KeyOf(w), "metastore") THEN "done" ELSE "msCreate")
            /\ UNCHANGED objs
  <2>1. pc'[w] = IF Exists(KeyOf(w), "metastore") THEN "done" ELSE "msCreate"
    BY <1>1, <1>11 DEF Goto
  <2> QED
    BY <1>2, <1>3, <1>11, <2>1 DEF Ends, Ended, LeavesSecrets, Reason, MainKind, Exists
<1>12. CASE CreateObject(w, "msCreate", "metastore", MetastoreBody(w), "done", "failed")
  <2>1. /\ MetastoreBody(w) \in Bodies /\ MetastoreBody(w).gen # 0
        /\ "metastore" \in Kinds \ Secrets /\ "msCreate" \notin Ended
    BY <1>1, MetastoreBodyType DEF Kinds, Secrets, Ended
  <2>2. AddsOnly(w, "metastore")
    BY <1>1, <1>12, <2>1, CreateExists
  <2>3. pc'[w] \in {"done", "failed"}
    BY <1>1, <1>12 DEF CreateObject, Goto
  <2> QED
    BY <1>2, <1>3, <2>2, <2>3 DEF Ends, Ended, LeavesSecrets, Reason, MainKind, Exists,
                                  AddsOnly, Kinds, Secrets
<1> QED
  BY <1>6, <1>7, <1>8, <1>9, <1>10, <1>11, <1>12
  DEF reconcileMetastoreCluster, constructMetastoreClusterRefs

\* The worker of a kyuubi entry only waits on the way to its object.
LEMMA KyuubiEnds ==
  ASSUME Inv, NEW w \in Workers, Working(w), InPlace(w), Moves(w), reconcileKyuubiCluster(w)
  PROVE  Ends(w) /\ LeavesSecrets /\ Reason(w)'
<1>1. pc[w] # "idle" /\ KeyOf(w) \in Keys /\ pc \in [Workers -> Places]
  BY WorkingFacts DEF Working, Ended, Inv, Shape
<1>2. KeyOf(w)' = KeyOf(w) /\ TypeOf(w)' = TypeOf(w)
  BY DEF Moves, KeyOf, TypeOf, EntryOf, SpecOf
<1>3. TypeOf(w) = "kyuubi" /\ pc'[w] \in KyuubiPlaces
  BY KyuubiPlace DEF InPlace
<1>4. Reason(w)'
  BY <1>3 DEF Reason, KyuubiPlaces, BeforeKyuubi
<1>5. CASE constructKyuubiCluster(w)
  <2>1. objs' = objs
    BY <1>5 DEF constructKyuubiCluster, configJdbcAuth, getMetastoreExposedInfo,
       getMinioExposedInfo, WaitFor, WriteItem
  <2>2. pc'[w] \notin Ended
    BY <1>1, <1>5 DEF constructKyuubiCluster, configJdbcAuth, AfterAuth,
       getMetastoreExposedInfo, getMinioExposedInfo, WaitFor, WriteItem, Goto, Ended
  <2> QED
    BY <1>4, <2>1, <2>2 DEF Ends, LeavesSecrets
<1>6. CASE \/ GetObject(w, "kyuubiGet", "kyuubi", "done", "kyuubiCreate")
           \/ CreateObject(w, "kyuubiCreate", "kyuubi", KyuubiBody(w), "done", "failed")
  <2>1. /\ KyuubiBody(w) \in Bodies /\ KyuubiBody(w).gen # 0
        /\ "kyuubi" \in Kinds \ Secrets /\ "kyuubiCreate" \notin Ended
    BY <1>1, KyuubiBodyType DEF Kinds, Secrets, Ended
  <2>2. /\ pc'[w] \in {"done", "failed", "kyuubiCreate"}
        /\ pc'[w] \in Ended => Exists(KeyOf(w), "kyuubi")'
        /\ LeavesSecrets
    BY <1>1, <1>6, <2>1, GetOrCreateEnds
  <2>3. MainKind(TypeOf(w))' = "kyuubi"
    BY <1>2, <1>3 DEF MainKind
  <2> QED
    BY <1>4, <2>1, <2>2, <2>3 DEF Ends, Ended
<1> QED
  BY <1>5, <1>6 DEF reconcileKyuubiCluster

\* A tenant in hand stays in hand, as long as whoever has it goes on.
LEMMA InHandStays ==
  ASSUME Inv, NEW w \in Workers, Moves(w), used'.crashes = used.crashes,
         NEW k \in Keys, TenantInHand(k), k # KeyOf(w) \/ pc[w] \notin PastConfig,
         objs[k]["tenant"].gen # 0 => objs'[k]["tenant"].gen # 0,
         \A kind \in {"minioConfigSecret", "minioUserSecret"} :
           objs'[k][kind] = objs[k][kind]
  PROVE  TenantInHand(k)'
<1>1. /\ Fresh(k, "minioConfigSecret")' <=> Fresh(k, "minioConfigSecret")
      /\ Fresh(k, "minioUserSecret")' <=> Fresh(k, "minioUserSecret")
      /\ Exists(k, "tenant") => Exists(k, "tenant")'
  BY DEF Fresh, Exists
<1>2. \A v \in Workers : v # w => pc'[v] = pc[v]
  BY DEF Moves, Inv, Shape
<1>3. \A v : KeyOf(v)' = KeyOf(v)
  BY DEF Moves, KeyOf
<1>4. ASSUME NEW v \in Workers, pc[v] \in PastConfig, KeyOf(v) = k
      PROVE  pc'[v] = pc[v] /\ KeyOf(v)' = k
  BY <1>2, <1>3, <1>4
<1> QED
  BY <1>1, <1>4 DEF TenantInHand, PastConfig

\* What is left when the worker of a minio entry ends.
EndsWell(w) ==
  pc'[w] \in Ended =>
    /\ pc'[w] \in {"done", "failed"}
    /\ Provides(w) =>
         \/ objs'[KeyOf(w)][MainKind(TypeOf(w))].gen # 0
         \/ \E v \in Workers \ {w} : Working(v) /\ SameTarget(v, w)

\* The worker of a minio entry.  It gives up on the tenant only when another
\* one has made the secret it met.
LEMMA MinioEnds ==
  ASSUME Inv, SurviveInv, NEW w \in Workers, Working(w), Moves(w), Affects(w),
         used.fails = 0, reconcileMinioTenant(w)
  PROVE  EndsWell(w) /\ Reason(w)' /\ TenantInHand(KeyOf(w))'
<1> DEFINE k == KeyOf(w)
           keyed == [Body(w) EXCEPT !.cred = w]
<1>1. pc[w] # "idle" /\ k \in Keys /\ pc \in [Workers -> Places]
  BY WorkingFacts DEF Working, Ended, Inv, Shape
<1>2. k' = k /\ used'.crashes = used.crashes
  BY DEF Moves, KeyOf, Affects
<1>3. /\ Body(w) \in Bodies /\ Body(w).gen # 0 /\ Body(w).life = used.crashes
      /\ keyed \in Bodies /\ keyed.gen # 0 /\ keyed.life = used.crashes
      /\ {"minioConfigSecret", "minioUserSecret", "tenant"} \subseteq Kinds
  BY <1>1, BodyType, BodyTypes DEF Kinds, Secrets, Body, Missing
<1>4. TypeOf(w) = "minio" /\ MainKind(TypeOf(w)) = "tenant" /\ pc'[w] \in MinioPlaces
  BY MinioPlace DEF SurviveInv, InPlace, MainKind
<1>5. Reason(w) /\ TenantInHand(k)
  BY <1>1 DEF SurviveInv, Lucky
<1>6. pc'[w] \notin {"dorisGetNil", "msDataDir", "msMinioSecret", "msBucket"}
  BY <1>4 DEF MinioPlaces
<1>7. ASSUME objs' = objs, pc[w] \notin PastConfig
      PROVE  TenantInHand(k)'
  BY <1>1, <1>2, <1>5, <1>7, InHandStays
<1> HIDE DEF keyed
<1>8. CASE GetCached(w, "minioConfigGet", "minioConfigSecret", "minioUserGet", "minioConfigCreate")
  <2>1. /\ objs' = objs /\ pc[w] = "minioConfigGet"
        /\ \/ pc'[w] = "minioUserGet"
           \/ /\ pc'[w] = "minioConfigCreate"
              /\ objs[k]["minioConfigSecret"].gen = 0 \/ objs[k]["minioConfigSecret"].life = used.crashes
    BY <1>1, <1>8 DEF GetCached, Goto
  <2>2. TenantInHand(k)'
    BY <1>7, <2>1 DEF PastConfig, AtTenant
  <2> QED
    BY <1>2, <2>1, <2>2 DEF EndsWell, Ended, Reason, Fresh, Exists
<1>9. CASE CreateObject(w, "minioConfigCreate", "minioConfigSecret", Body(w), "minioUserGet", "tenantGetNil")
  <2>1. CASE Exists(k, "minioConfigSecret")
    <3>1. objs' = objs /\ pc[w] = "minioConfigCreate" /\ pc'[w] = "tenantGetNil"
      BY <1>1, <1>9, <2>1 DEF CreateObject, Goto
    <3>2. TenantInHand(k)'
      BY <1>7, <3>1 DEF PastConfig, AtTenant
    <3>3. Fresh(k, "minioConfigSecret")
      BY <1>5, <2>1, <3>1 DEF Reason
    <3> QED
      BY <1>2, <3>1, <3>2, <3>3 DEF EndsWell, Ended, Reason, Fresh, Exists
  <2>2. CASE ~ Exists(k, "minioConfigSecret")
    <3>1. /\ objs' = [objs EXCEPT ![k]["minioConfigSecret"] = Body(w)]
          /\ pc[w] = "minioConfigCreate" /\ pc'[w] = "minioUserGet"
      BY <1>1, <1>9, <2>2 DEF CreateObject, Goto
    <3>2. /\ objs'[k]["minioUserSecret"] = objs[k]["minioUserSecret"]
          /\ objs'[k]["tenant"] = objs[k]["tenant"]
      BY <1>1, <1>3, <3>1, Added DEF Inv, Shape
    <3>3. \A v \in Workers : pc[v] \in AtTenant /\ KeyOf(v) = k => pc'[v] = pc[v] /\ KeyOf(v)' = k
      BY <3>1 DEF Affects, AtTenant, Moves, KeyOf
    <3>4. TenantInHand(k)'
      BY <1>2, <1>5, <3>1, <3>2, <3>3 DEF TenantInHand, Fresh, Exists, PastConfig
    <3> QED
      BY <3>1, <3>4 DEF EndsWell, Ended, Reason
  <2> QED
    BY <2>1, <2>2
<1>10. CASE GetCached(w, "minioUserGet", "minioUserSecret", "tenantGet", "minioUserCreate")
  <2>1. /\ objs' = objs /\ pc[w] = "minioUserGet"
        /\ \/ pc'[w] = "tenantGet"
           \/ /\ pc'[w] = "minioUserCreate"
              /\ objs[k]["minioUserSecret"].gen = 0 \/ objs[k]["minioUserSecret"].life = used.crashes
    BY <1>1, <1>10 DEF GetCached, Goto
  <2>2. \A v \in Workers : pc[v] \in AtTenant /\ KeyOf(v) = k => pc'[v] = pc[v] /\ KeyOf(v)' = k
    BY <2>1 DEF Affects, AtTenant, Moves, KeyOf
  <2>3. TenantInHand(k)'
    BY <1>2, <1>5, <2>1, <2>2 DEF TenantInHand, Fresh, Exists, PastConfig, AtTenant
  <2> QED
    BY <1>2, <2>1, <2>3 DEF EndsWell, Ended, Reason, Fresh, Exists
<1>11. CASE CreateObject(w, "minioUserCreate", "minioUserSecret", keyed, "tenantGet", "tenantGetNil")
  <2>1. CASE Exists(k, "minioUserSecret")
    <3>1. objs' = objs /\ pc[w] = "minioUserCreate" /\ pc'[w] = "tenantGetNil"
      BY <1>1, <1>11, <2>1 DEF CreateObject, Goto
    <3>2. Fresh(k, "minioUserSecret")
      BY <1>5, <2>1, <3>1 DEF Reason
    <3>3. Exists(k, "tenant") \/ \E v \in Workers : pc[v] \in AtTenant /\ KeyOf(v) = k
      BY <1>5, <3>2 DEF TenantInHand
    <3>4. \A v \in Workers : pc[v] \in AtTenant /\ KeyOf(v) = k => pc'[v] = pc[v] /\ KeyOf(v)' = k
      BY <3>1 DEF Affects, AtTenant, Moves, KeyOf
    <3>5. TenantInHand(k)'
      BY <1>2, <3>1, <3>3, <3>4 DEF TenantInHand, Exists, PastConfig
    <3> QED
      BY <1>2, <3>1, <3>2, <3>5 DEF EndsWell, Ended, Reason, Fresh, Exists
  <2>2. CASE ~ Exists(k, "minioUserSecret")
    <3>1. pc[w] = "minioUserCreate" /\ pc'[w] = "tenantGet"
      BY <1>1, <1>11, <2>2 DEF CreateObject, Goto
    <3>2. TenantInHand(k)'
      BY <1>2, <3>1 DEF TenantInHand, PastConfig, AtTenant
    <3> QED
      BY <3>1, <3>2 DEF EndsWell, Ended, Reason
  <2> QED
    BY <2>1, <2>2
<1>12. CASE GetObject(w, "tenantGet", "tenant", "done", "tenantCreate")
  <2>1. /\ objs' = objs /\ pc[w] = "tenantGet"
        /\ pc'[w] = IF Exists(k, "tenant") THEN "done" ELSE "tenantCreate"
    BY <1>1, <1>12 DEF GetObject, Goto
  <2>2. TenantInHand(k)'
    BY <1>2, <2>1 DEF TenantInHand, PastConfig, AtTenant, Exists
  <2> QED
    BY <1>4, <2>1, <2>2 DEF EndsWell, Ended, Reason, Exists
<1>13. CASE GetObject(w, "tenantGetNil", "tenant", "done", "failed")
  <2>1. /\ objs' = objs /\ pc[w] = "tenantGetNil"
        /\ pc'[w] = IF Exists(k, "tenant") THEN "done" ELSE "failed"
    BY <1>1, <1>13 DEF GetObject, Goto
  <2>2. TenantInHand(k)'
    BY <1>7, <2>1 DEF PastConfig, AtTenant
  <2>3. EndsWell(w)
    <3>1. CASE Exists(k, "tenant")
      BY <1>4, <2>1, <3>1 DEF EndsWell, Exists
    <3>2. CASE ~ Exists(k, "tenant")
      <4>1. PICK v \in Workers : pc[v] \in PastConfig /\ KeyOf(v) = k
        BY <1>5, <2>1, <3>2 DEF Reason, TenantInHand, PastConfig
      <4>2. v # w
        BY <2>1, <4>1 DEF PastConfig, AtTenant
      <4>3. TypeOf(v) = "minio" /\ Working(v)
        BY <4>1 DEF SurviveInv, InPlace, MinioPlaces, PastConfig, AtTenant, Ended, Working
      <4> QED
        BY <1>4, <2>1, <3>2, <4>1, <4>2, <4>3 DEF EndsWell, SameTarget
    <3> QED
      BY <3>1, <3>2
  <2> QED
    BY <2>1, <2>2, <2>3 DEF Reason
<1>14. CASE CreateObject(w, "tenantCreate", "tenant", Body(w), "done", "failed")
  <2>1. AddsOnly(w, "tenant")
    BY <1>1, <1>3, <1>14, CreateExists
  <2>2. pc'[w] \in {"done", "failed"}
    BY <1>1, <1>14 DEF CreateObject, Goto
  <2>3. TenantInHand(k)'
    BY <1>2, <2>1 DEF AddsOnly, TenantInHand, Exists
  <2> QED
    BY <1>4, <2>1, <2>2, <2>3 DEF AddsOnly, EndsWell, Reason
<1> QED
  BY <1>8, <1>9, <1>10, <1>11, <1>12, <1>13, <1>14
  DEF reconcileMinioTenant, reconcileMinioTenantConfigSecret, reconcileMinioNewUserSecret, keyed

\* The workers of all types, while no call fails.
LEMMA WorkEnds ==
  ASSUME Inv, KeysInv, SurviveInv, NEW w \in Workers, used.fails = 0, Work(w)
  PROVE  EndsWell(w) /\ Reason(w)' /\ \A k \in Keys : TenantInHand(k)'
<1>1. /\ Working(w) /\ pc[w] # "idle" /\ KeyOf(w) \in Keys
      /\ Moves(w) /\ Affects(w) /\ used'.crashes = used.crashes
      /\ InPlace(w) /\ Reason(w)
  BY WorkKeeps, WorkingFacts DEF Work, Working, Ended, Affects, SurviveInv, Lucky
<1>2. /\ {"minioConfigSecret", "minioUserSecret", "tenant"} \subseteq Kinds
      /\ \A k \in Keys : TenantInHand(k)
  BY DEF SurviveInv, Lucky, Kinds, Secrets
<1>3. CASE reconcileMinioTenant(w)
  <2>1. EndsWell(w) /\ Reason(w)' /\ TenantInHand(KeyOf(w))'
    BY <1>1, <1>3, MinioEnds
  <2>2. ASSUME NEW k \in Keys, k # KeyOf(w) PROVE TenantInHand(k)'
    <3>1. \A kind \in Kinds : objs'[k][kind] = objs[k][kind]
      BY <1>1, <2>2 DEF Affects
    <3> QED
      BY <1>1, <1>2, <2>2, <3>1, InHandStays
  <2>3. \A k \in Keys : TenantInHand(k)'
    <3> SUFFICES ASSUME NEW k \in Keys PROVE TenantInHand(k)'
      OBVIOUS
    <3>1. KeyOf(w)' = KeyOf(w)
      BY <1>1 DEF Moves, KeyOf
    <3>2. CASE k = KeyOf(w)
      BY <2>1, <3>1, <3>2 DEF TenantInHand, Fresh, Exists
    <3> QED
      BY <2>2, <3>2
  <2> QED
    BY <2>1, <2>3
<1>4. CASE ~ reconcileMinioTenant(w)
  <2>1. Ends(w) /\ LeavesSecrets /\ Reason(w)'
    BY <1>1, <1>4, DatabaseEnds, ZookeeperDorisEnds, HdfsEnds, MetastoreEnds, KyuubiEnds DEF Work
  <2>2. pc[w] \notin PastConfig /\ TypeOf(w) \in WorkerTypes \ {"minio"}
    <3>1. \/ pc[w] \in PgPlaces \ Ended \/ pc[w] \in ZookeeperPlaces \ Ended
          \/ pc[w] \in DorisPlaces \ Ended \/ pc[w] \in HdfsPlaces \ Ended
          \/ pc[w] \in MetastorePlaces \ Ended \/ pc[w] \in KyuubiPlaces \ Ended
      BY <1>4, PgPlace, ZookeeperPlace, DorisPlace, HdfsPlace, MetastorePlace, KyuubiPlace DEF Work
    <3> QED
      BY <1>1, <3>1 DEF InPlace, PgPlaces, ZookeeperPlaces, DorisPlaces, HdfsPlaces,
         MetastorePlaces, KyuubiPlaces, AtHdfs, AtMinio, Prepared, BeforeKyuubi, Ended,
         PastConfig, AtTenant, WorkerTypes
  <2>3. ASSUME NEW k \in Keys PROVE TenantInHand(k)'
    <3>1. objs[k]["tenant"].gen # 0 => objs'[k]["tenant"].gen # 0
      BY <1>1, <1>2, MovesGrow DEF Grows, Exists
    <3> QED
      BY <1>1, <1>2, <2>1, <2>2, <3>1, InHandStays DEF LeavesSecrets
  <2>4. EndsWell(w)
    <3>1. KeyOf(w)' = KeyOf(w) /\ TypeOf(w)' = TypeOf(w)
      BY <1>1 DEF Moves, KeyOf, TypeOf, EntryOf, SpecOf
    <3>2. MainKind(TypeOf(w))' = MainKind(TypeOf(w))
      BY <3>1 DEF MainKind
    <3> QED
      BY <2>1, <3>1, <3>2 DEF Ends, EndsWell, Exists
  <2> QED
    BY <2>1, <2>3, <2>4
<1> QED
  BY <1>3, <1>4

\* Why another worker is where it is stays true: what exists in this life was
\* made in it, and what is made now is made in this life.
LEMMA ReasonStays ==
  ASSUME Inv, NEW w \in Workers, KeyOf(w) \in Keys, Moves(w), Affects(w),
         NEW v \in Workers, v # w, Reason(v)
  PROVE  Reason(v)'
<1>1. CASE pc[v] = "idle"
  BY <1>1 DEF Affects, Reason
<1>2. CASE pc[v] # "idle"
  <2> DEFINE k == KeyOf(v)
  <2>1. /\ k \in Keys /\ k' = k /\ Provides(v)' = Provides(v)
        /\ pc'[v] = pc[v] /\ local'[v] = local[v] /\ live' = live
        /\ used'.crashes = used.crashes
    BY <1>2, WorkingFacts DEF Moves, Affects, Provides, KeyOf, TypeOf, EntryOf, SpecOf
  <2>2. ASSUME NEW kind \in {"minioConfigSecret", "minioUserSecret"}
        PROVE  /\ Fresh(k, kind) => Fresh(k, kind)'
               /\ ~ Exists(k, kind) /\ Exists(k, kind)' => Fresh(k, kind)'
               /\ Exists(k, kind) => Exists(k, kind)'
    <3>1. kind \in Kinds
      BY DEF Kinds, Secrets
    <3>2. \/ objs'[k][kind] = objs[k][kind]
          \/ /\ ~ Exists(k, kind) /\ objs'[k][kind].gen # 0
             /\ Owned(w, kind, objs'[k][kind])
      BY <2>1, <3>1, MovesCreated
    <3> QED
      BY <2>1, <3>2 DEF Fresh, Exists, Owned
  <2>3. Live(k, "hdfs")' = Live(k, "hdfs")
    BY <2>1 DEF Live
  <2>4. /\ pc'[v] = "dorisGetNil" => ~ Provides(v)'
        /\ pc'[v] = "msDataDir" => Live(k, "hdfs")'
        /\ pc'[v] \in {"msMinioSecret", "msBucket"} => local'[v].endpoint # None
    BY <2>1, <2>3 DEF Reason
  <2>5. pc'[v] = "minioConfigCreate" /\ Exists(k, "minioConfigSecret")'
        => Fresh(k, "minioConfigSecret")'
    BY <2>1, <2>2 DEF Reason
  <2>6. pc'[v] = "minioUserCreate" /\ Exists(k, "minioUserSecret")'
        => Fresh(k, "minioUserSecret")'
    BY <2>1, <2>2 DEF Reason
  <2>7. pc'[v] = "tenantGetNil"
        => Fresh(k, "minioConfigSecret")' \/ Fresh(k, "minioUserSecret")'
    BY <2>1, <2>2 DEF Reason
  <2> QED
    BY <2>1, <2>4, <2>5, <2>6, <2>7 DEF Reason, Live, Fresh, Exists
<1> QED
  BY <1>1, <1>2

\* What a worker's call leaves of who is served.
LEMMA WorkServed ==
  ASSUME Inv, KeysInv, SurviveInv, NEW w \in Workers, used.fails = 0, Work(w), EndsWell(w),
         NEW v \in Workers, Over(v)', Providers(v)'
  PROVE  Served(v)'
<1>1. /\ Working(w) /\ pc[w] # "idle" /\ KeyOf(w) \in Keys /\ TypeOf(w) \in WorkerTypes
      /\ Moves(w) /\ Grows
  <2>1. Working(w) /\ Moves(w)
    BY WorkKeeps DEF Work
  <2>2. pc[w] \notin {"idle", "done", "lost"}
    BY <2>1 DEF Working, Ended
  <2> QED
    BY <2>1, <2>2, WorkingFacts, MovesGrow DEF Inv, Started
<1>2. \A u \in Workers : /\ KeyOf(u)' = KeyOf(u) /\ TypeOf(u)' = TypeOf(u)
                         /\ Provides(u)' = Provides(u)
                         /\ u # w => pc'[u] = pc[u]
  BY <1>1 DEF Moves, Provides, KeyOf, TypeOf, EntryOf, SpecOf, Inv, Shape
<1>3. pc'[w] # "idle" /\ pc'[w] # "spawned"
  <2>1. pc'[w] # "spawned"
    <3>1. \/ pc'[w] \in PgPlaces \/ pc'[w] \in MinioPlaces \/ pc'[w] \in ZookeeperPlaces
          \/ pc'[w] \in DorisPlaces \/ pc'[w] \in HdfsPlaces \/ pc'[w] \in MetastorePlaces
          \/ pc'[w] \in KyuubiPlaces
      BY PgPlace, MinioPlace, ZookeeperPlace, DorisPlace, HdfsPlace, MetastorePlace,
         KyuubiPlace DEF Work
    <3> QED
      BY <3>1 DEF PgPlaces, MinioPlaces, ZookeeperPlaces, DorisPlaces, HdfsPlaces,
         MetastorePlaces, KyuubiPlaces, AtHdfs, AtMinio, Prepared, BeforeKyuubi
  <2> QED
    BY <2>1 DEF EndsWell, Ended
<1>4. \A u \in Workers : SameTarget(u, v)' = SameTarget(u, v)
  BY <1>2 DEF SameTarget
<1>5. Providers(v)
  BY <1>1, <1>2, <1>3, <1>4 DEF Providers
<1>6. ASSUME SameTarget(w, v), pc'[w] \in Ended PROVE Served(v)'
  <2>1. Provides(w)
    BY <1>1, <1>5, <1>6 DEF Providers
  <2>2. CASE objs'[KeyOf(w)][MainKind(TypeOf(w))].gen # 0
    <3>1. KeyOf(v)' = KeyOf(w) /\ TypeOf(v)' = TypeOf(w)
      BY <1>2, <1>6 DEF SameTarget
    <3>2. MainKind(TypeOf(v))' = MainKind(TypeOf(w))
      BY <3>1 DEF MainKind
    <3> QED
      BY <2>2, <3>1, <3>2 DEF Served, Exists
  <2>3. CASE \E u \in Workers \ {w} : Working(u) /\ SameTarget(u, w)
    <3>1. PICK u \in Workers \ {w} : Working(u) /\ SameTarget(u, w)
      BY <2>3
    <3>2. Working(u)' /\ SameTarget(u, v)
      BY <1>2, <1>6, <3>1 DEF Working, SameTarget
    <3> QED
      BY <1>4, <3>2 DEF Served
  <2> QED
    BY <1>6, <2>1, <2>2, <2>3 DEF EndsWell
<1>7. CASE v = w
  BY <1>6, <1>7 DEF Over, SameTarget, Ended
<1>8. CASE v # w
  <2>1. Over(v)
    BY <1>2, <1>8 DEF Over
  <2>2. Served(v)
    BY <1>5, <2>1 DEF SurviveInv, Lucky
  <2>3. CASE Exists(KeyOf(v), MainKind(TypeOf(v)))
    <3>1. KeyOf(v) \in Keys /\ MainKind(TypeOf(v)) \in Kinds
      BY <2>1, WorkingFacts DEF Over, MainKind, Kinds, WorkerTypes
    <3>2. objs'[KeyOf(v)][MainKind(TypeOf(v))].gen # 0
      BY <1>1, <2>3, <3>1 DEF Grows, Exists
    <3>3. MainKind(TypeOf(v))' = MainKind(TypeOf(v))
      BY <1>2 DEF MainKind
    <3> QED
      BY <1>2, <3>2, <3>3 DEF Served, Exists
  <2>4. ASSUME NEW u \in Workers, Working(u), SameTarget(u, v) PROVE Served(v)'
    <3>1. CASE u # w
      BY <1>2, <1>4, <2>4, <3>1 DEF Served, Working
    <3>2. CASE u = w /\ pc'[w] \notin Ended
      BY <1>3, <1>4, <2>4, <3>2 DEF Served, Working
    <3>3. CASE u = w /\ pc'[w] \in Ended
      BY <1>6, <2>4, <3>3
    <3> QED
      BY <3>1, <3>2, <3>3
  <2> QED
    BY <2>2, <2>3, <2>4 DEF Served
<1> QED
  BY <1>7, <1>8

\* Objects have the life they are made in.
LEMMA DatedStays ==
  ASSUME Inv, NEW w \in Workers, KeyOf(w) \in Keys, Moves(w), Affects(w), Dated
  PROVE  Dated'
<1> SUFFICES ASSUME NEW k \in Keys, NEW kind \in {"minioConfigSecret", "minioUserSecret"}
             PROVE  objs'[k][kind].life <= used'.crashes
  BY DEF Dated
<1>1. kind \in Kinds
  BY DEF Kinds, Secrets
<1>2. \/ objs'[k][kind] = objs[k][kind]
      \/ Owned(w, kind, objs'[k][kind])
  BY <1>1, MovesCreated
<1>3. used'.crashes = used.crashes /\ used.crashes \in Nat
  BY DEF Affects, Inv, Shape
<1> QED
  BY <1>2, <1>3 DEF Dated, Owned

\* A worker's call.
LEMMA WorkSurvives ==
  ASSUME Inv, KeysInv, SurviveInv, NEW w \in Workers, Work(w) \/ Errors(w)
  PROVE  SurviveInv'
<1>1. /\ Working(w) /\ pc[w] # "idle" /\ KeyOf(w) \in Keys
      /\ Moves(w) /\ Affects(w)
  BY WorkKeeps, WorkingFacts DEF Work, Errors, Working, Ended
<1>2. ASSUME NEW v \in Workers PROVE InPlace(v)'
  <2>1. CASE v = w
    BY <1>1, <2>1, WorkInPlace DEF SurviveInv
  <2>2. CASE v # w
    <3>1. pc'[v] = pc[v] /\ TypeOf(v)' = TypeOf(v)
      BY <1>1, <2>2 DEF Affects, Moves, TypeOf, EntryOf, SpecOf
    <3>2. InPlace(v)
      BY DEF SurviveInv
    <3> QED
      BY <3>1, <3>2 DEF InPlace
  <2> QED
    BY <2>1, <2>2
<1>3. Dated'
  BY <1>1, DatedStays DEF SurviveInv
<1>4. ASSUME used'.fails = 0 PROVE Lucky'
  <2>1. Work(w)
    BY <1>4, ErrorsCount
  <2>2. used.fails = 0
    BY <1>1, <1>4 DEF Affects, Inv, Shape
  <2>3. EndsWell(w) /\ Reason(w)' /\ \A k \in Keys : TenantInHand(k)'
    BY <2>1, <2>2, WorkEnds
  <2>4. \A v \in Workers : Reason(v)'
    BY <1>1, <2>2, <2>3, ReasonStays DEF SurviveInv, Lucky
  <2>5. \A v \in Workers : Over(v)' /\ Providers(v)' => Served(v)'
    BY <2>1, <2>2, <2>3, WorkServed
  <2> QED
    BY <2>3, <2>4, <2>5 DEF Lucky
<1> QED
  BY <1>2, <1>3, <1>4 DEF SurviveInv

-----------------------------------------------------------------------------
(* The steps that are not of workers.                                      *)

\* The facts of a worker that depend on its run only.
SameRun(w) ==
  /\ KeyOf(w)' = KeyOf(w) /\ TypeOf(w)' = TypeOf(w) /\ Provides(w)' = Provides(w)

\* They stay as long as the run does.
LEMMA RunStays ==
  ASSUME NEW w, run'[w[1]] = run[w[1]]
  PROVE  SameRun(w)
  BY DEF SameRun, Provides, KeyOf, TypeOf, EntryOf, SpecOf

\* Users, resyncs and other operators leave the workers where they are.
LEMMA QuietSurvives ==
  ASSUME Inv, SurviveInv, UNCHANGED <<objs, run, pc, local>>, live \subseteq live',
         used'.crashes = used.crashes, used'.fails = used.fails
  PROVE  SurviveInv'
<1>1. \A w \in Workers : SameRun(w)
  BY RunStays
<1>2. \A w \in Workers : InPlace(w)'
  BY <1>1 DEF SurviveInv, InPlace, SameRun
<1>3. Dated'
  BY DEF SurviveInv, Dated
<1>4. ASSUME used.fails = 0 PROVE Lucky'
  <2>1. /\ \A k, kind : Exists(k, kind)' = Exists(k, kind)
        /\ \A k, kind : Fresh(k, kind)' = Fresh(k, kind)
        /\ \A k, s : Live(k, s) => Live(k, s)'
    BY DEF Exists, Fresh, Live
  <2>2. \A w \in Workers : Reason(w)'
    <3> SUFFICES ASSUME NEW w \in Workers PROVE Reason(w)'
      OBVIOUS
    <3>1. Reason(w) /\ SameRun(w)
      BY <1>1, <1>4 DEF SurviveInv, Lucky
    <3> QED
      BY <3>1 DEF Reason, SameRun, Exists, Fresh, Live
  <2>3. \A k \in Keys : TenantInHand(k)'
    BY <1>1, <1>4, <2>1 DEF SurviveInv, Lucky, TenantInHand, SameRun
  <2>4. ASSUME NEW w \in Workers, Over(w)', Providers(w)' PROVE Served(w)'
    <3>1. Over(w) /\ Providers(w)
      BY <1>1, <2>4 DEF Over, Providers, SameTarget, SameRun
    <3>2. Served(w)
      BY <1>4, <3>1 DEF SurviveInv, Lucky
    <3>3. Exists(KeyOf(w), MainKind(TypeOf(w)))' <=> Exists(KeyOf(w), MainKind(TypeOf(w)))
      BY <1>1 DEF SameRun, Exists, MainKind
    <3>4. \A v \in Workers : Working(v) /\ SameTarget(v, w) => Working(v)' /\ SameTarget(v, w)'
      BY <1>1 DEF SameRun, SameTarget, Working
    <3> QED
      BY <3>2, <3>3, <3>4 DEF Served
  <2> QED
    BY <2>2, <2>3, <2>4 DEF Lucky
<1> QED
  BY <1>2, <1>3, <1>4 DEF SurviveInv

\* After a restart nobody is at work, and no secret is of the new life.
LEMMA RestartSurvives ==
  ASSUME Inv, SurviveInv, Restart
  PROVE  SurviveInv'
<1>1. /\ UNCHANGED <<objs, run>> /\ used.crashes \in Nat /\ used'.crashes = used.crashes + 1
      /\ \A w \in Workers : pc'[w] \in {"idle", "lost"}
  BY DEF Restart, Inv, Shape
<1>2. \A w \in Workers : InPlace(w)' /\ Reason(w)' /\ ~ Over(w)'
  BY <1>1 DEF InPlace, Reason, Over, PgPlaces, MinioPlaces, ZookeeperPlaces, DorisPlaces,
     HdfsPlaces, MetastorePlaces, KyuubiPlaces, AtHdfs, AtMinio, Prepared, BeforeKyuubi, Ended
<1>3. ASSUME NEW k \in Keys, NEW kind \in {"minioConfigSecret", "minioUserSecret"}
      PROVE  /\ objs[k][kind].life <= used.crashes
             /\ objs[k][kind].life \in Nat
  BY <1>3 DEF SurviveInv, Dated, Inv, Shape, Bodies, Kinds, Secrets
<1>4. Dated'
  <2> SUFFICES ASSUME NEW k \in Keys, NEW kind \in {"minioConfigSecret", "minioUserSecret"}
               PROVE  objs'[k][kind].life <= used'.crashes
    BY DEF Dated
  <2> QED
    BY <1>1, <1>3
<1>5. ASSUME NEW k \in Keys PROVE TenantInHand(k)'
  <2>1. /\ objs'[k]["minioConfigSecret"].life # used'.crashes
        /\ objs'[k]["minioUserSecret"].life # used'.crashes
    BY <1>1, <1>3
  <2> QED
    BY <2>1 DEF TenantInHand, Fresh
<1> QED
  BY <1>2, <1>4, <1>5 DEF SurviveInv, Lucky

\* The workers of a Reconcile are none that was at work, and what they are for
\* is not over yet.
LEMMA ReconcileSurvives ==
  ASSUME Inv, SurviveInv, NEW k \in Keys, Reconcile(k)
  PROVE  SurviveInv'
<1> DEFINE r == begun + 1
<1>1. /\ UNCHANGED <<objs, live, local, used>> /\ begun \in Nat /\ r \in Runs
      /\ \A q \in Runs : q # r => run'[q] = run[q]
      /\ run'[r].spec = Fill(nine[k].spec)
  BY NineInfraAssumption DEF Reconcile, Inv, Shape, Runs
<1>2. ASSUME NEW w \in Workers, pc[w] # "idle"
      PROVE  pc'[w] = pc[w] /\ SameRun(w)
  <2>1. w[1] \in Runs /\ w[1] # r
    BY <1>1, <1>2, NineInfraAssumption DEF Inv, Started, Workers, Runs
  <2>2. pc'[w] = pc[w]
    BY <2>1 DEF Reconcile
  <2> QED
    BY <1>1, <2>1, <2>2, RunStays
<1>3. ASSUME NEW w \in Workers, pc[w] = "idle"
      PROVE  /\ pc'[w] \in {"idle", "spawned", "done"}
             /\ pc'[w] = "done" => TypeOf(w)' \notin WorkerTypes
  <2>1. CASE w[1] = r
    <3>1. TypeOf(w)' = Fill(nine[k].spec).clusterSet[w[2]].type
      BY <1>1, <2>1 DEF TypeOf, EntryOf, SpecOf
    <3>2. pc'[w] \in {IF Fill(nine[k].spec).clusterSet[w[2]].type \in WorkerTypes THEN "spawned" ELSE "done", "idle"}
      BY <1>3, <2>1 DEF Reconcile
    <3> QED
      BY <3>1, <3>2
  <2>2. CASE w[1] # r
    BY <1>3, <2>2 DEF Reconcile
  <2> QED
    BY <2>1, <2>2
<1>4. ASSUME NEW w \in Workers PROVE InPlace(w)'
  <2>1. CASE pc[w] = "idle"
    BY <1>3, <2>1 DEF InPlace, PgPlaces, MinioPlaces, ZookeeperPlaces, DorisPlaces,
       HdfsPlaces, MetastorePlaces, KyuubiPlaces, AtHdfs, AtMinio, Prepared, BeforeKyuubi, Ended
  <2>2. CASE pc[w] # "idle"
    BY <1>2, <2>2 DEF SurviveInv, InPlace, SameRun
  <2> QED
    BY <2>1, <2>2
<1>5. Dated'
  BY <1>1 DEF SurviveInv, Dated
<1>6. ASSUME used.fails = 0 PROVE Lucky'
  <2>1. ASSUME NEW w \in Workers PROVE Reason(w)'
    <3>1. CASE pc[w] = "idle"
      BY <1>3, <3>1 DEF Reason
    <3>2. CASE pc[w] # "idle"
      <4>1. Reason(w) /\ SameRun(w) /\ pc'[w] = pc[w]
        BY <1>2, <1>6, <3>2 DEF SurviveInv, Lucky
      <4> QED
        BY <1>1, <4>1 DEF Reason, SameRun, Live, Fresh, Exists
    <3> QED
      BY <3>1, <3>2
  <2>2. ASSUME NEW j \in Keys PROVE TenantInHand(j)'
    <3>1. \A v \in Workers : pc[v] \in PastConfig => pc'[v] = pc[v] /\ KeyOf(v)' = KeyOf(v)
      BY <1>2 DEF PastConfig, AtTenant, SameRun
    <3>2. TenantInHand(j)
      BY <1>6 DEF SurviveInv, Lucky
    <3> QED
      BY <1>1, <3>1, <3>2 DEF TenantInHand, Fresh, Exists, PastConfig
  <2>3. ASSUME NEW w \in Workers, Over(w)', Providers(w)' PROVE Served(w)'
    <3>1. pc[w] # "idle"
      BY <1>3, <2>3 DEF Over
    <3>2. SameRun(w) /\ Over(w)
      BY <1>2, <2>3, <3>1 DEF Over, SameRun
    <3>3. \A v \in Workers : pc[v] # "idle" =>
            /\ SameTarget(v, w)' = SameTarget(v, w) /\ pc'[v] = pc[v]
            /\ Provides(v)' = Provides(v)
      BY <1>2, <3>2 DEF SameRun, SameTarget
    <3>4. Served(w)
      <4>1. Providers(w)
        BY <2>3, <3>3 DEF Providers
      <4> QED
        BY <1>6, <3>2, <4>1 DEF SurviveInv, Lucky
    <3>5. Exists(KeyOf(w), MainKind(TypeOf(w)))' <=> Exists(KeyOf(w), MainKind(TypeOf(w)))
      BY <1>1, <3>2 DEF SameRun, Exists, MainKind
    <3>6. \A v \in Workers : Working(v) /\ SameTarget(v, w) => Working(v)' /\ SameTarget(v, w)'
      BY <3>3 DEF Working, Ended
    <3> QED
      BY <3>4, <3>5, <3>6 DEF Served
  <2> QED
    BY <2>1, <2>2, <2>3 DEF Lucky
<1> QED
  BY <1>1, <1>4, <1>5, <1>6 DEF SurviveInv

\* A worker that is started goes where workers of its type begin, and one that
\* ends there provides nothing.
LEMMA StartPlace ==
  ASSUME NEW w, TypeOf(w) \in WorkerTypes, pc'[w] = Start(w), SameRun(w)
  PROVE  /\ InPlace(w)' /\ Reason(w)'
         /\ Start(w) \notin {"idle", "failed", "skipped"}
         /\ Start(w) = "done" => ~ Provides(w)
<1>1. \/ TypeOf(w) = "kyuubi" /\ Start(w) \in {"kyuubiDb", "kyuubiZk", "kyuubiMetastore"}
      \/ TypeOf(w) = "metastore" /\ Start(w) = "msInit"
      \/ TypeOf(w) = "minio" /\ Start(w) = "minioConfigGet"
      \/ TypeOf(w) = "database" /\ Start(w) = DatabaseStart(w)
      \/ TypeOf(w) = "doris" /\ Start(w) = DorisStart(w)
      \/ TypeOf(w) = "zookeeper" /\ Start(w) = "zkGet"
      \/ TypeOf(w) = "hdfs" /\ Start(w) \in {"hdfsZk", "hdfsGet"}
  BY DEF Start, WorkerTypes, KyuubiStart, AfterAuth, HdfsStart
<1>2. TypeOf(w) = "database" =>
        DatabaseStart(w) = "pgUserGet" \/ (DatabaseStart(w) = "done" /\ ~ Provides(w))
  BY DEF DatabaseStart, Provides
<1>3. TypeOf(w) = "doris" =>
        DorisStart(w) = "dorisGet" \/ (DorisStart(w) = "dorisGetNil" /\ ~ Provides(w))
  BY DEF DorisStart, Provides
<1> QED
  BY <1>1, <1>2, <1>3 DEF SameRun, InPlace, Reason, PgPlaces, MinioPlaces, ZookeeperPlaces, DorisPlaces,
     HdfsPlaces, MetastorePlaces, KyuubiPlaces, AtHdfs, AtMinio, Prepared, BeforeKyuubi, Ended

\* reconcileRoutine turns a worker away only when another one is at work for the
\* same entry, or has been.
LEMMA DispatchSurvives ==
  ASSUME Inv, SurviveInv, NEW w \in Workers, StartWorker(w) \/ SkipWorker(w)
  PROVE  SurviveInv'
<1>1. /\ pc[w] = "spawned" /\ TypeOf(w) \in WorkerTypes
      /\ UNCHANGED <<objs, live, run, local, used>>
      /\ \A v \in Workers : v # w => pc'[v] = pc[v]
      /\ \A v \in Workers : SameRun(v)
  BY RunStays DEF StartWorker, SkipWorker, Outside, Inv, Started, Shape
<1>2. /\ InPlace(w)' /\ Reason(w)' /\ pc'[w] \notin {"idle", "failed"}
      /\ pc'[w] = "done" => ~ Provides(w)
      /\ pc'[w] = "skipped" => SkipWorker(w)
  <2>1. CASE StartWorker(w)
    <3>1. pc'[w] = Start(w)
      BY <2>1 DEF StartWorker, Inv, Shape
    <3> QED
      BY <1>1, <3>1, StartPlace
  <2>2. CASE SkipWorker(w)
    <3>1. pc'[w] = "skipped"
      BY <2>2 DEF SkipWorker, Inv, Shape
    <3> QED
      BY <2>2, <3>1 DEF InPlace, Reason, PgPlaces, MinioPlaces, ZookeeperPlaces, DorisPlaces,
         HdfsPlaces, MetastorePlaces, KyuubiPlaces, AtHdfs, AtMinio, Prepared, BeforeKyuubi,
         Ended
  <2> QED
    BY <2>1, <2>2
<1>3. \A v \in Workers : InPlace(v)'
  BY <1>1, <1>2 DEF SurviveInv, InPlace, SameRun
<1>4. Dated'
  BY <1>1 DEF SurviveInv, Dated
<1>5. ASSUME used.fails = 0 PROVE Lucky'
  <2>1. ASSUME NEW v \in Workers, v # w PROVE Reason(v)'
    <3>1. Reason(v) /\ SameRun(v) /\ pc'[v] = pc[v]
      BY <1>1, <1>5, <2>1 DEF SurviveInv, Lucky
    <3> QED
      BY <1>1, <3>1 DEF Reason, SameRun, Live, Fresh, Exists
  <2>2. ASSUME NEW j \in Keys PROVE TenantInHand(j)'
    <3>1. \A v \in Workers : pc[v] \in PastConfig => pc'[v] = pc[v] /\ KeyOf(v)' = KeyOf(v)
      BY <1>1 DEF PastConfig, AtTenant, SameRun
    <3>2. TenantInHand(j)
      BY <1>5 DEF SurviveInv, Lucky
    <3> QED
      BY <1>1, <3>1, <3>2 DEF TenantInHand, Fresh, Exists, PastConfig
  <2>3. \A v, u \in Workers : SameTarget(v, u)' = SameTarget(v, u)
    BY <1>1 DEF SameRun, SameTarget
  <2>4. \A v \in Workers : pc'[v] = "idle" <=> pc[v] = "idle"
    BY <1>1, <1>2
  <2>5. ASSUME NEW v \in Workers, Providers(v)' PROVE Providers(v)
    BY <1>1, <2>3, <2>4, <2>5 DEF Providers, SameRun
  <2>6. ASSUME NEW v \in Workers, NEW u \in Workers, Served(v), SameTarget(u, v) PROVE Served(u)'
    <3>1. Exists(KeyOf(u), MainKind(TypeOf(u)))' <=> Exists(KeyOf(v), MainKind(TypeOf(v)))
      BY <1>1, <2>6 DEF SameRun, Exists, MainKind, SameTarget
    <3>2. \A x \in Workers : Working(x) /\ SameTarget(x, v) => Working(x)' /\ SameTarget(x, u)'
      BY <1>1, <2>3, <2>6 DEF Working, SameTarget
    <3> QED
      BY <2>6, <3>1, <3>2 DEF Served
  <2>7. ASSUME NEW v \in Workers, Over(v)', Providers(v)' PROVE Served(v)'
    <3>1. CASE v # w
      <4>1. Over(v) /\ Providers(v)
        BY <1>1, <2>5, <2>7, <3>1 DEF Over, SameRun
      <4>2. Served(v)
        BY <1>5, <4>1 DEF SurviveInv, Lucky
      <4> QED
        BY <2>6, <4>2 DEF SameTarget
    <3>2. CASE v = w
      <4>1. pc'[w] = "skipped"
        <5>1. Provides(w)'
          BY <1>2, <2>7, <3>2 DEF Providers, SameTarget
        <5> QED
          BY <1>1, <1>2, <2>7, <3>2, <5>1 DEF Over, SameRun
      <4>2. PICK u \in Workers \ {w} : pc[u] \notin NotStarted /\ SameTarget(u, w)
        BY <1>2, <4>1 DEF SkipWorker
      <4>3. CASE Working(u)
        <5>1. Working(u)' /\ SameTarget(u, w)'
          BY <1>1, <2>3, <4>2, <4>3 DEF Working
        <5> QED
          BY <3>2, <5>1 DEF Served
      <4>4. CASE ~ Working(u)
        <5>1. Over(u)
          BY <1>1, <4>2, <4>4 DEF Over, Working, Ended, NotStarted, SameTarget
        <5>2. Providers(u)
          BY <2>5, <2>7, <3>2, <4>2 DEF Providers, SameTarget
        <5>3. Served(u)
          BY <1>5, <5>1, <5>2 DEF SurviveInv, Lucky
        <5> QED
          BY <2>6, <3>2, <4>2, <5>3 DEF SameTarget
      <4> QED
        BY <4>3, <4>4
    <3> QED
      BY <3>1, <3>2
  <2> QED
    BY <1>2, <2>1, <2>2, <2>7 DEF Lucky
<1> QED
  BY <1>1, <1>3, <1>4, <1>5 DEF SurviveInv

\* Nobody is at work at first.
LEMMA InitSurvives ==
  ASSUME Init
  PROVE  SurviveInv
<1>1. /\ \A k \in Keys : \A kind \in Kinds : objs[k][kind] = Missing
      /\ \A w \in Workers : pc[w] = "idle"
      /\ used.crashes = 0
      /\ {"minioConfigSecret", "minioUserSecret"} \subseteq Kinds
  BY DEF Init, Kinds, Secrets
<1>2. \A w \in Workers : InPlace(w) /\ Reason(w) /\ ~ Over(w)
  BY <1>1 DEF InPlace, Reason, Over, PgPlaces, MinioPlaces, ZookeeperPlaces, DorisPlaces,
     HdfsPlaces, MetastorePlaces, KyuubiPlaces, AtHdfs, AtMinio, Prepared, BeforeKyuubi, Ended
<1>3. Dated /\ \A k \in Keys : TenantInHand(k)
  BY <1>1 DEF Dated, TenantInHand, Fresh, Exists, Missing
<1> QED
  BY <1>2, <1>3 DEF SurviveInv, Lucky

\* Every step keeps it.
LEMMA StepSurvives ==
  ASSUME Inv, KeysInv, SurviveInv, [Next]_vars
  PROVE  SurviveInv'
<1>1. CASE \/ \E k \in Keys : CreateNineCluster(k) \/ UpdateNineCluster(k)
           \/ Resync
           \/ \E k \in Keys : \E s \in Services : BringUp(k, s)
           \/ UNCHANGED vars
  <2>1. /\ UNCHANGED <<objs, run, pc, local>> /\ live \subseteq live'
        /\ used'.crashes = used.crashes /\ used'.fails = used.fails
    BY <1>1 DEF CreateNineCluster, UpdateNineCluster, Resync, BringUp, vars, Inv, Shape
  <2> QED
    BY <2>1, QuietSurvives
<1> QED
  BY <1>1, WorkSurvives, RestartSurvives, ReconcileSurvives, DispatchSurvives DEF Next

\* Of the workers for one entry somebody is left, or the object is there: for
\* any number of Reconciles that overlap, edits and restarts, while no call
\* fails.
THEOREM NineInfraSomeoneSurvives == Spec => []SomeoneSurvives
<1>1. Init => Inv /\ KeysInv /\ SurviveInv
  BY InitInv, InitKeysInv, InitSurvives
<1>2. Inv /\ KeysInv /\ SurviveInv /\ [Next]_vars => (Inv /\ KeysInv /\ SurviveInv)'
  BY StepInv, StepKeysInv, StepSurvives
<1>3. Inv /\ SurviveInv => SomeoneSurvives
  <2> SUFFICES ASSUME Inv, SurviveInv, used.fails = 0, NEW w \in Workers,
                      pc[w] \in {"failed", "skipped"}, Providers(w)
               PROVE  \/ Exists(KeyOf(w), MainKind(TypeOf(w)))
                      \/ \E v \in Workers : pc[v] \notin Ended /\ SameTarget(v, w)
    BY DEF SomeoneSurvives, Providers
  <2>1. Over(w)
    BY DEF Over, Inv, Started
  <2> QED
    BY <2>1 DEF SurviveInv, Lucky, Served, Working
<1> QED
  BY <1>1, <1>2, <1>3, PTL DEF Spec
-----------------------------------------------------------------------------
(* NineInfra implements Provisioning.                                      *)

\* What an item that is written into a service needs.
Hosted(k, d) ==
  /\ d \in {"sqlDatabase", "usersTable", "userRow"} => Live(k, "pg")
  /\ d \in {"bucket", "folder"} => Live(k, "minio")
  /\ d = "dataDir" => Live(k, "hdfs")
  /\ d = "usersTable" => Has(k, "sqlDatabase")
  /\ d = "userRow" => Has(k, "usersTable")
  /\ d = "folder" => Has(k, "bucket")

\* What a worker may write where.
Writes(w) ==
  \E d \in Items : items' = items \cup {<<KeyOf(w), d>>} /\ Hosted(KeyOf(w), d)

\* A call writes an item that has what it needs, or none, and then it creates
\* no object.
LEMMA WriteHosted ==
  ASSUME NEW w \in Workers, NEW here, NEW s, NEW d \in Items, NEW next,
         WriteItem(w, here, s, d, next),
         Live(KeyOf(w), s) => Hosted(KeyOf(w), d)
  PROVE  Writes(w) /\ objs' = objs
BY DEF WriteItem, Writes

\* The workers that write nothing.
LEMMA PlainWrites ==
  ASSUME NEW w \in Workers,
         \/ reconcilePGCluster(w) \/ DatabaseErrors(w)
         \/ reconcileMinioTenant(w) \/ MinioErrors(w)
         \/ reconcileZookeeperCluster(w) \/ ZookeeperErrors(w)
         \/ reconcileDorisCluster(w) \/ DorisErrors(w)
         \/ reconcileHdfsCluster(w) \/ HdfsErrors(w)
  PROVE  items' = items
BY DEF reconcilePGCluster, DatabaseErrors, reconcilePGInitDBUserSecret,
       reconcilePGSuperUserSecret, reconcileMinioTenant, MinioErrors,
       reconcileMinioTenantConfigSecret, reconcileMinioNewUserSecret,
       reconcileZookeeperCluster, ZookeeperErrors, reconcileDorisCluster, DorisErrors,
       reconcileHdfsCluster, HdfsErrors, GetCached, GetObject, CreateObject,
       CreateUnanswered, CallFails, WaitFor

\* The metastore's worker makes the data directory, or a bucket and a folder in it.
LEMMA MetastoreWrites ==
  ASSUME Inv, NEW w \in Workers, Working(w), reconcileMetastoreCluster(w) \/ MetastoreErrors(w)
  PROVE  items' = items \/ (Writes(w) /\ objs' = objs)
<1>a. /\ pc[w] = "msFolder" => Has(KeyOf(w), "bucket")
      /\ {"bucket", "folder", "dataDir"} \subseteq Items
  BY DEF Inv, Knows, MetastoreKnows, Items
<1>1. CASE createHdfsDataDir(w, "msDataDir", "msGet")
  <2>1. CASE WriteItem(w, "msDataDir", "hdfs", "dataDir", "msGet")
    BY <2>1, <1>a, WriteHosted DEF Hosted
  <2> QED
    BY <1>1, <2>1 DEF createHdfsDataDir, WaitFor, CallFails
<1>2. CASE createMinioBucketAndFolder(w, "msBucket", "msFolder", "msGet")
  <2>1. CASE WriteItem(w, "msBucket", "minio", "bucket", "msFolder")
    BY <2>1, <1>a, WriteHosted DEF Hosted
  <2>2. CASE WriteItem(w, "msFolder", "minio", "folder", "msGet")
    BY <2>2, <1>a, WriteHosted DEF Hosted, WriteItem, Goto
  <2> QED
    BY <1>2, <2>1, <2>2 DEF createMinioBucketAndFolder, WaitFor
<1>3. CASE ~ createHdfsDataDir(w, "msDataDir", "msGet")
           /\ ~ createMinioBucketAndFolder(w, "msBucket", "msFolder", "msGet")
  BY <1>3 DEF reconcileMetastoreCluster, initMetastore, constructMetastoreClusterRefs,
       getHdfsExposedInfo, getMinioExposedInfo, MetastoreErrors, getHdfsExposedInfoTimeout,
       getMinioExposedInfoErrors, CreateObject, CreateUnanswered, CallFails, WaitFor
<1> QED
  BY <1>1, <1>2, <1>3

\* Kyuubi's worker writes a database, a table and a row, in this order.
LEMMA KyuubiWrites ==
  ASSUME Inv, NEW w \in Workers, Working(w), reconcileKyuubiCluster(w) \/ KyuubiErrors(w)
  PROVE  items' = items \/ (Writes(w) /\ objs' = objs)
<1>a. /\ pc[w] = "kyuubiTable" => Has(KeyOf(w), "sqlDatabase")
      /\ pc[w] = "kyuubiRow" => Has(KeyOf(w), "usersTable")
      /\ {"sqlDatabase", "usersTable", "userRow"} \subseteq Items
  BY DEF Inv, Knows, KyuubiKnows, Items
<1>1. CASE WriteItem(w, "kyuubiDb", "pg", "sqlDatabase", "kyuubiTable")
  BY <1>1, <1>a, WriteHosted DEF Hosted
<1>2. CASE WriteItem(w, "kyuubiTable", "pg", "usersTable", "kyuubiRow")
  BY <1>2, <1>a, WriteHosted DEF Hosted, WriteItem, Goto
<1>3. CASE WriteItem(w, "kyuubiRow", "pg", "userRow", AfterAuth(w))
  BY <1>3, <1>a, WriteHosted DEF Hosted, WriteItem, Goto
<1>4. CASE ~ (\/ WriteItem(w, "kyuubiDb", "pg", "sqlDatabase", "kyuubiTable")
              \/ WriteItem(w, "kyuubiTable", "pg", "usersTable", "kyuubiRow")
              \/ WriteItem(w, "kyuubiRow", "pg", "userRow", AfterAuth(w)))
  BY <1>4 DEF reconcileKyuubiCluster, constructKyuubiCluster, configJdbcAuth, KyuubiErrors,
       getMetastoreExposedInfo, getMinioExposedInfo, getMinioExposedInfoErrors, GetObject,
       CreateObject, CreateUnanswered, CallFails, WaitFor
<1> QED
  BY <1>1, <1>2, <1>3, <1>4

\* A step of a worker adds at most one thing, and what it adds has all it needs.
LEMMA WorkAdds ==
  ASSUME Inv, NEW w \in Workers, Work(w) \/ Errors(w)
  PROVE  /\ KeyOf(w) \in Keys /\ live' = live
         /\ \/ objs' = objs /\ (items' = items \/ Writes(w))
            \/ /\ items' = items
               /\ \E kind \in Kinds : \E o \in Bodies :
                    /\ ~ Exists(KeyOf(w), kind) /\ o.gen # 0
                    /\ Justified(KeyOf(w), kind, o)
                    /\ objs' = [objs EXCEPT ![KeyOf(w)][kind] = o]
<1>1. Working(w) /\ KeyOf(w) \in Keys
  BY WorkingFacts DEF Work, Errors, Working, Ended
<1>2. Moves(w)
  BY <1>1, DatabaseSteps, MinioSteps, ZookeeperSteps, DorisSteps, HdfsSteps,
     MetastoreSteps, KyuubiSteps DEF Work, Errors
<1>3. items' = items \/ (Writes(w) /\ objs' = objs)
  BY <1>1, PlainWrites, MetastoreWrites, KyuubiWrites DEF Work, Errors
<1> QED
  BY <1>1, <1>2, <1>3 DEF Moves

\* What Provisioning sees.
Seen == [k \in Keys |-> Things(k)]
References == [k \in Keys |-> [kind \in Kinds |-> objs[k][kind].refs]]

\* Things by their tags.
LEMMA ThingsAre ==
  ASSUME NEW k
  PROVE  /\ \A kind : <<"object", kind>> \in Things(k) <=> kind \in Kinds /\ Exists(k, kind)
         /\ \A s : <<"service", s>> \in Things(k) <=> s \in Services /\ Live(k, s)
         /\ \A d : <<"item", d>> \in Things(k) <=> d \in Items /\ Has(k, d)
BY DEF Things

\* No step creates an object and writes an item at once, and no service stops.
Still == objs' = objs /\ live' = live /\ items' = items

\* An object that a worker creates is one Provisioning lets it create.
LEMMA CreatePromised ==
  ASSUME Inv, NEW k \in Keys, NEW kind \in Kinds, NEW o \in Bodies,
         ~ Exists(k, kind), o.gen # 0, Justified(k, kind, o),
         objs' = [objs EXCEPT ![k][kind] = o], live' = live, items' = items
  PROVE  Promise!Create(k, kind)
<1>1. /\ objs \in [Keys -> [Kinds -> Bodies]]
      /\ objs' \in [Keys -> [Kinds -> Bodies]]
      /\ objs'[k][kind] = o
      /\ \A j \in Keys : \A l \in Kinds : <<j, l>> # <<k, kind>> => objs'[j][l] = objs[j][l]
  BY Added DEF Inv, Shape
<1>2. \A j \in Keys : j # k => Things(j)' = Things(j)
  <2> SUFFICES ASSUME NEW j \in Keys, j # k  PROVE Things(j)' = Things(j)
    OBVIOUS
  <2>1. \A l \in Kinds : Exists(j, l)' <=> Exists(j, l)
    BY <1>1 DEF Exists
  <2>2. \A x : Live(j, x)' <=> Live(j, x)
    BY DEF Live
  <2>3. \A x : Has(j, x)' <=> Has(j, x)
    BY DEF Has
  <2> QED
    BY <2>1, <2>2, <2>3 DEF Things
<1>3. Things(k)' = Things(k) \cup {<<"object", kind>>}
  <2>1. \A l \in Kinds : Exists(k, l)' <=> Exists(k, l) \/ l = kind
    BY <1>1 DEF Exists
  <2>2. {q \in Kinds : Exists(k, q)'} = {q \in Kinds : Exists(k, q)} \cup {kind}
    BY <2>1
  <2>3. \A x : Live(k, x)' <=> Live(k, x)
    BY DEF Live
  <2>4. \A x : Has(k, x)' <=> Has(k, x)
    BY DEF Has
  <2> QED
    BY <2>2, <2>3, <2>4 DEF Things
<1>4. Seen' = [Seen EXCEPT ![k] = Seen[k] \cup {<<"object", kind>>}]
  BY <1>2, <1>3 DEF Seen
<1>5. References' = [References EXCEPT ![k][kind] = o.refs]
  <2>1. \A j \in Keys : References'[j] = [l \in Kinds |-> objs'[j][l].refs]
    BY DEF References
  <2>2. \A j \in Keys : References[j] = [l \in Kinds |-> objs[j][l].refs]
    BY DEF References
  <2>3. \A j \in Keys : j # k => References'[j] = References[j]
    <3> SUFFICES ASSUME NEW j \in Keys, j # k
                 PROVE  [l \in Kinds |-> objs'[j][l].refs] = [l \in Kinds |-> objs[j][l].refs]
      BY <2>1, <2>2
    <3> QED
      BY <1>1
  <2>4. References'[k] = [References[k] EXCEPT ![kind] = o.refs]
    <3>1. [l \in Kinds |-> objs'[k][l].refs] = [[l \in Kinds |-> objs[k][l].refs] EXCEPT ![kind] = o.refs]
      BY <1>1
    <3> QED
      BY <2>1, <2>2, <3>1
  <2>5. DOMAIN References' = Keys /\ DOMAIN References = Keys
    BY DEF References
  <2>6. References = [j \in Keys |-> References[j]] /\ References' = [j \in Keys |-> References'[j]]
    BY DEF References
  <2> QED
    BY <2>3, <2>4, <2>5, <2>6
<1>6. <<"object", kind>> \notin Seen[k]
  BY ThingsAre DEF Seen
<1>7. Promise!ObjectNeeds(kind, o.refs) \subseteq Seen[k]
  <2>1. Seen[k] = Things(k)
    BY DEF Seen
  <2>2. \A kk \in Kinds : Exists(k, kk) => <<"object", kk>> \in Seen[k]
    BY <2>1, ThingsAre
  <2>3. \A s \in Services : Live(k, s) => <<"service", s>> \in Seen[k]
    BY <2>1, ThingsAre
  <2>4. \A d \in Items : Has(k, d) => <<"item", d>> \in Seen[k]
    BY <2>1, ThingsAre
  <2>5. CASE kind = "pg"
    BY <2>2, <2>5 DEF Promise!ObjectNeeds, Promise!Object, Justified, Kinds, Secrets
  <2>6. CASE kind = "tenant"
    BY <2>2, <2>6 DEF Promise!ObjectNeeds, Promise!Object, Justified, Kinds, Secrets
  <2>7. CASE kind = "hdfs"
    BY <2>3, <2>7 DEF Promise!ObjectNeeds, Promise!Service, Justified, Services
  <2>8. CASE kind = "metastore"
    BY <2>3, <2>4, <2>8 DEF Promise!ObjectNeeds, Promise!Service, Promise!Item, Justified, Services, Items
  <2>9. CASE kind = "kyuubi"
    BY <2>3, <2>4, <2>9 DEF Promise!ObjectNeeds, Promise!Service, Promise!Item, Justified, Services, Items
  <2>10. CASE kind \notin {"pg", "tenant", "hdfs", "metastore", "kyuubi"}
    BY <2>10 DEF Promise!ObjectNeeds
  <2> QED
    BY <2>5, <2>6, <2>7, <2>8, <2>9, <2>10
<1>8. o.refs \in SUBSET Promise!Refs
  BY DEF Bodies, Refs, Promise!Refs
<1> QED
  BY <1>4, <1>5, <1>6, <1>7, <1>8 DEF Promise!Create, Promise!Add, Promise!Object, Seen,
     References

\* What appears without an object being created.
LEMMA AddsOne ==
  ASSUME Inv, NEW k \in Keys, NEW t, t \notin Things(k), objs' = objs,
         Things(k)' = Things(k) \cup {t},
         \A j \in Keys : j # k => Things(j)' = Things(j)
  PROVE  Promise!Add(k, t) /\ References' = References
<1>1. Seen' = [Seen EXCEPT ![k] = Seen[k] \cup {t}]
  BY DEF Seen
<1> QED
  BY <1>1 DEF Promise!Add, Seen, References

\* A service that comes up.
LEMMA BringUpPromised ==
  ASSUME Inv, NEW k \in Keys, NEW s \in Services, BringUp(k, s)
  PROVE  Promise!Answer(k, s)
<1>1. /\ ~ Live(k, s) /\ Exists(k, IF s = "minio" THEN "tenant" ELSE s)
      /\ objs' = objs /\ items' = items /\ live' = live \cup {<<k, s>>}
  BY DEF BringUp
<1>2. \A j : /\ \A l : Exists(j, l)' <=> Exists(j, l)
             /\ \A d : Has(j, d)' <=> Has(j, d)
             /\ \A q : Live(j, q)' <=> Live(j, q) \/ (j = k /\ q = s)
  BY <1>1 DEF Exists, Has, Live
<1>3. \A j \in Keys : j # k => Things(j)' = Things(j)
  BY <1>2 DEF Things
<1>4. Things(k)' = Things(k) \cup {<<"service", s>>}
  <2>1. {q \in Services : Live(k, q)'} = {q \in Services : Live(k, q)} \cup {s}
    BY <1>2
  <2> QED
    BY <1>2, <2>1 DEF Things
<1>5. <<"object", IF s = "minio" THEN "tenant" ELSE s>> \in Things(k)
  <2>1. (IF s = "minio" THEN "tenant" ELSE s) \in Kinds
    BY DEF Services, Kinds
  <2> QED
    BY <1>1, <2>1, ThingsAre
<1>6. <<"service", s>> \notin Things(k)
  BY <1>1, ThingsAre
<1>7. Promise!Add(k, <<"service", s>>) /\ References' = References
  BY <1>1, <1>3, <1>4, <1>6, AddsOne
<1> QED
  BY <1>5, <1>7 DEF Promise!Answer, Promise!Service, Promise!Object, References

\* Something that is written into a service.
LEMMA WritePromised ==
  ASSUME Inv, NEW k \in Keys, NEW d \in Items, Hosted(k, d), ~ Has(k, d),
         items' = items \cup {<<k, d>>}, objs' = objs, live' = live
  PROVE  Promise!Write(k, d)
<1>1. \A j : /\ \A l : Exists(j, l)' <=> Exists(j, l)
             /\ \A q : Live(j, q)' <=> Live(j, q)
             /\ \A e : Has(j, e)' <=> Has(j, e) \/ (j = k /\ e = d)
  BY DEF Exists, Has, Live
<1>2. \A j \in Keys : j # k => Things(j)' = Things(j)
  BY <1>1 DEF Things
<1>3. Things(k)' = Things(k) \cup {<<"item", d>>}
  <2>1. {q \in Items : Has(k, q)'} = {q \in Items : Has(k, q)} \cup {d}
    BY <1>1
  <2> QED
    BY <1>1, <2>1 DEF Things
<1>4. Promise!ItemNeeds(d) \subseteq Things(k)
  <2>1. \A s \in Services : Live(k, s) => <<"service", s>> \in Things(k)
    BY ThingsAre
  <2>2. \A e \in Items : Has(k, e) => <<"item", e>> \in Things(k)
    BY ThingsAre
  <2> QED
    BY <2>1, <2>2 DEF Hosted, Items, Services, Promise!ItemNeeds, Promise!Service, Promise!Item
<1>5. <<"item", d>> \notin Things(k)
  BY ThingsAre
<1>6. Promise!Add(k, <<"item", d>>) /\ References' = References
  BY <1>2, <1>3, <1>5, AddsOne
<1> QED
  BY <1>4, <1>6 DEF Promise!Write, Promise!Item, References

\* What leaves objects, services and items alone is nothing to Provisioning.
LEMMA StillPromised ==
  ASSUME Still
  PROVE  UNCHANGED Promise!vars
<1>1. \A k : Things(k)' = Things(k)
  BY DEF Still, Things, Exists, Live, Has
<1> QED
  BY <1>1 DEF Still, Promise!vars

\* Every step of NineInfra is one of Provisioning, or none.
LEMMA StepPromised ==
  ASSUME Inv, [Next]_vars
  PROVE  [Promise!Next]_(Promise!vars)
<1>1. ASSUME NEW w \in Workers, Work(w) \/ Errors(w)  PROVE [Promise!Next]_(Promise!vars)
  <2>1. PICK k \in Keys : k = KeyOf(w)
    BY <1>1, WorkAdds
  <2>2. live' = live
    BY <1>1, WorkAdds
  <2>3. CASE objs' = objs /\ items' = items
    BY <2>2, <2>3, StillPromised DEF Still
  <2>4. CASE objs' = objs /\ Writes(w)
    <3>1. PICK d \in Items : items' = items \cup {<<k, d>>} /\ Hosted(k, d)
      BY <2>1, <2>4 DEF Writes
    <3>2. CASE Has(k, d)
      BY <2>2, <2>4, <3>1, <3>2, StillPromised DEF Still, Has
    <3>3. CASE ~ Has(k, d)
      <4>1. Promise!Write(k, d)
        BY <2>2, <2>4, <3>1, <3>3, WritePromised
      <4>2. d \in Promise!Items
        BY DEF Items, Promise!Items
      <4> QED
        BY <4>1, <4>2 DEF Promise!Next
    <3> QED
      BY <3>2, <3>3
  <2>5. ASSUME items' = items, NEW kind \in Kinds, NEW o \in Bodies,
               ~ Exists(k, kind), o.gen # 0, Justified(k, kind, o),
               objs' = [objs EXCEPT ![k][kind] = o]
        PROVE  [Promise!Next]_(Promise!vars)
    <3>1. Promise!Create(k, kind)
      BY <2>2, <2>5, CreatePromised
    <3>2. kind \in Promise!Kinds
      BY DEF Kinds, Secrets, Promise!Kinds
    <3> QED
      BY <3>1, <3>2 DEF Promise!Next
  <2> QED
    BY <1>1, <2>1, <2>3, <2>4, <2>5, WorkAdds
<1>2. ASSUME NEW k \in Keys, NEW s \in Services, BringUp(k, s)
      PROVE  [Promise!Next]_(Promise!vars)
  <2>1. Promise!Answer(k, s)
    BY <1>2, BringUpPromised
  <2>2. s \in Promise!Services
    BY DEF Services, Promise!Services
  <2> QED
    BY <2>1, <2>2 DEF Promise!Next
<1>3. CASE \/ \E k \in Keys : CreateNineCluster(k) \/ UpdateNineCluster(k) \/ Reconcile(k)
           \/ Resync \/ Restart
           \/ \E w \in Workers : StartWorker(w) \/ SkipWorker(w)
           \/ UNCHANGED vars
  <2>1. Still
    BY <1>3 DEF CreateNineCluster, UpdateNineCluster, Reconcile, Resync, Restart, StartWorker,
       SkipWorker, Outside, vars, Still
  <2> QED
    BY <2>1, StillPromised
<1> QED
  BY <1>1, <1>2, <1>3 DEF Next

\* Nothing is there at first.
LEMMA InitPromised == Init => Promise!Init
<1> SUFFICES ASSUME Init PROVE Promise!Init
  OBVIOUS
<1>1. \A k \in Keys : Things(k) = {}
  BY DEF Init, Things, Exists, Live, Has, Missing
<1>2. \A k \in Keys : \A kind \in Kinds : objs[k][kind].refs = {}
  BY DEF Init, Missing
<1>3. Promise!Kinds = Kinds
  BY DEF Kinds, Secrets, Promise!Kinds
<1> QED
  BY <1>1, <1>2, <1>3 DEF Promise!Init

-----------------------------------------------------------------------------
\* The operator implements Provisioning: however many workers overlap, whatever
\* fails, is edited or restarted, a NineCluster grows by one thing at a time,
\* each after all it needs, and nothing changes that is there.
THEOREM NineInfraImplementsProvisioning == Spec => ImplementsProvisioning
<1>1. Init => Inv /\ Promise!Init
  BY InitInv, InitPromised
<1>2. Inv /\ [Next]_vars => Inv' /\ [Promise!Next]_(Promise!vars)
  BY StepInv, StepPromised
<1> QED
  BY <1>1, <1>2, PTL DEF Spec, ImplementsProvisioning, Promise!Spec
=============================================================================
