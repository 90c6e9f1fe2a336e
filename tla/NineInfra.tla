----------------------------- MODULE NineInfra ------------------------------
(***************************************************************************)
(* The whole operator: users create and edit NineClusters, the controller  *)
(* reconciles them, workers provision what their entries ask for, other    *)
(* operators bring the services up, calls fail, the controller restarts.   *)
(***************************************************************************)
EXTENDS Kyuubi, Doris

ASSUME NineInfraAssumption ==
  /\ \A k \in Keys : \A s \in Specs[k] :
       /\ Fill(s).clusterSet \in Seq(ClusterInfos)
       /\ Len(Fill(s).clusterSet) <= MaxEntries
  /\ MaxReconciles \in Nat /\ MaxEntries \in Nat /\ MaxUpdates \in Nat
  /\ MaxResyncs \in Nat /\ MaxFails \in Nat /\ MaxCrashes \in Nat
  /\ None \notin Keys \cup Workers

Created(k) == nine[k].gen # 0

Init ==
  /\ nine = [k \in Keys |-> [gen |-> 0, spec |-> NoSpec]]
  /\ objs = [k \in Keys |-> [kind \in Kinds |-> Missing]]
  /\ live = {} /\ items = {}
  /\ queue = {}
  /\ begun = 0
  /\ run = [r \in Runs |-> NoRun]
  /\ pc = [w \in Workers |-> "idle"]
  /\ local = [w \in Workers |-> NoLocal]
  /\ MetastoreReplicas = 1
  /\ used = [fails |-> 0, crashes |-> 0, updates |-> 0, resyncs |-> 0]

-----------------------------------------------------------------------------
(* Users, and the watch that turns what they do into work.                 *)

CreateNineCluster(k) ==
  /\ ~ Created(k)
  /\ \E s \in Specs[k] : nine' = [nine EXCEPT ![k] = [gen |-> 1, spec |-> s]]
  /\ queue' = queue \cup {k}
  /\ UNCHANGED <<objs, live, items, begun, run, pc, local, MetastoreReplicas, used>>

UpdateNineCluster(k) ==
  /\ Created(k)
  /\ used.updates < MaxUpdates
  /\ \E s \in Specs[k] \ {nine[k].spec} :
       nine' = [nine EXCEPT ![k] = [gen |-> @.gen + 1, spec |-> s]]
  /\ queue' = queue \cup {k}
  /\ used' = [used EXCEPT !.updates = @ + 1]
  /\ UNCHANGED <<objs, live, items, begun, run, pc, local, MetastoreReplicas>>

(* Every NineCluster is queued again, unchanged.                           *)
Resync ==
  /\ used.resyncs < MaxResyncs
  /\ queue' = {k \in Keys : Created(k)}
  /\ queue' # queue
  /\ used' = [used EXCEPT !.resyncs = @ + 1]
  /\ UNCHANGED <<nine, objs, live, items, begun, run, pc, local, MetastoreReplicas>>

-----------------------------------------------------------------------------
\* A loop over the ClusterSet that goes one entry too far.
ReconcileOneTooFar(k) ==
  LET s == nine[k].spec
      r == begun + 1
  IN  /\ k \in queue
      /\ begun < MaxReconciles
      /\ begun' = r
      /\ queue' = queue \ {k}
      /\ run' = [run EXCEPT ![r] = [key |-> k, gen |-> nine[k].gen, spec |-> Fill(s)]]
      /\ pc' = [w \in Workers |->
                  IF w[1] = r /\ w[2] <= Len(Fill(s).clusterSet) + 1 THEN "spawned" ELSE pc[w]]
      /\ UNCHANGED <<nine, objs, live, items, local, MetastoreReplicas, used>>

(* Reconcile: take a NineCluster from the queue, copy it, fill the copy    *)
(* and start a routine per entry.  Entries reconcileRoutine has no case    *)
(* for end at once.  An unsupported type is an error: the key is queued    *)
(* again.  A stream NineCluster is left alone.                             *)
Reconcile(k) ==
  LET s == nine[k].spec
      r == begun + 1
  IN  /\ k \in queue
      /\ begun < MaxReconciles
      /\ begun' = r
      /\ queue' = IF CheckNineClusterTypeSupported(s) THEN queue \ {k} ELSE queue
      /\ run' = [run EXCEPT ![r] = [key |-> k, gen |-> nine[k].gen, spec |-> Fill(s)]]
      /\ pc' = [w \in Workers |->
                  IF w[1] = r /\ Fill(s).type = "batch" /\ w[2] <= Len(Fill(s).clusterSet)
                  THEN IF Fill(s).clusterSet[w[2]].type \in WorkerTypes THEN "spawned" ELSE "done"
                  ELSE pc[w]]
      /\ UNCHANGED <<nine, objs, live, items, local, MetastoreReplicas, used>>

Start(w) ==
  CASE TypeOf(w) = "kyuubi"    -> KyuubiStart(w)
    [] TypeOf(w) = "metastore" -> "msInit"
    [] TypeOf(w) = "minio"     -> "minioConfigGet"
    [] TypeOf(w) = "database"  -> DatabaseStart(w)
    [] TypeOf(w) = "doris"     -> DorisStart(w)
    [] TypeOf(w) = "zookeeper" -> "zkGet"
    [] TypeOf(w) = "hdfs"      -> HdfsStart(w)

NotStarted == {"idle", "spawned", "skipped", "lost"}
Ended      == {"idle", "skipped", "lost", "done", "failed"}

(* reconcileRoutine, as DispatchContract promises it: the worker is        *)
(* started, unless one for the same entry type of the same NineCluster has *)
(* been.                                                                   *)
StartWorker(w) ==
  /\ pc[w] = "spawned"
  /\ pc' = [pc EXCEPT ![w] = Start(w)]
  /\ UNCHANGED <<Outside, objs, items, local, MetastoreReplicas, used>>

\* One lock per NineCluster, whatever the entry type.
SkipWorkerAnyType(w) ==
  /\ pc[w] = "spawned"
  /\ \E v \in Workers \ {w} : pc[v] \notin NotStarted /\ KeyOf(v) = KeyOf(w)
  /\ pc' = [pc EXCEPT ![w] = "skipped"]
  /\ UNCHANGED <<Outside, objs, items, local, MetastoreReplicas, used>>

SkipWorker(w) ==
  /\ pc[w] = "spawned"
  /\ \E v \in Workers \ {w} : pc[v] \notin NotStarted /\ SameTarget(v, w)
  /\ pc' = [pc EXCEPT ![w] = "skipped"]
  /\ UNCHANGED <<Outside, objs, items, local, MetastoreReplicas, used>>

-----------------------------------------------------------------------------
(* Other operators, modelled by what the controller waits for.             *)
BringUp(k, s) ==
  /\ ~ Live(k, s)
  /\ Exists(k, IF s = "minio" THEN "tenant" ELSE s)
  /\ s = "minio" => MinioService(k) = {}
  /\ live' = live \cup {<<k, s>>}
  /\ UNCHANGED <<nine, objs, items, queue, begun, run, pc, local, MetastoreReplicas, used>>

(* The controller restarts: its goroutines, locks and variables are gone,  *)
(* its cache is read anew and every NineCluster is queued.                 *)
Restart ==
  /\ used.crashes < MaxCrashes
  /\ used' = [used EXCEPT !.crashes = @ + 1]
  /\ pc' = [w \in Workers |-> IF pc[w] = "idle" THEN "idle" ELSE "lost"]
  /\ local' = [w \in Workers |-> NoLocal]
  /\ queue' = {k \in Keys : Created(k)}
  /\ MetastoreReplicas' = 1
  /\ UNCHANGED <<nine, objs, live, items, begun, run>>

-----------------------------------------------------------------------------
Working(w) == pc[w] \notin Ended \cup {"spawned"}

Work(w) ==
  /\ Working(w)
  /\ \/ reconcilePGCluster(w)
     \/ reconcileMinioTenant(w)
     \/ reconcileZookeeperCluster(w)
     \/ reconcileDorisCluster(w)
     \/ reconcileHdfsCluster(w)
     \/ reconcileMetastoreCluster(w)
     \/ reconcileKyuubiCluster(w)

Errors(w) ==
  /\ Working(w)
  /\ \/ DatabaseErrors(w)
     \/ MinioErrors(w)
     \/ ZookeeperErrors(w)
     \/ DorisErrors(w)
     \/ HdfsErrors(w)
     \/ MetastoreErrors(w)
     \/ KyuubiErrors(w)

(* A behaviour may end: a worker whose wait is never served waits on, and  *)
(* the controller waits for events.                                        *)
Next ==
  \/ \E k \in Keys : CreateNineCluster(k) \/ UpdateNineCluster(k) \/ Reconcile(k)
  \/ Resync
  \/ Restart
  \/ \E w \in Workers : StartWorker(w) \/ SkipWorker(w) \/ Work(w) \/ Errors(w)
  \/ \E k \in Keys : \E s \in Services : BringUp(k, s)

(* The queue is drained, goroutines that can run do, operators bring up    *)
(* what they are asked for.  Nothing is assumed of users, errors and       *)
(* restarts.                                                               *)
Fairness ==
  /\ \A k \in Keys : WF_vars(Reconcile(k))
  /\ \A w \in Workers : WF_vars(StartWorker(w) \/ SkipWorker(w) \/ Work(w))
  /\ \A k \in Keys : \A s \in Services : WF_vars(BringUp(k, s))

Spec == Init /\ [][Next]_vars /\ Fairness

-----------------------------------------------------------------------------
Places ==
  Ended \cup {"spawned",
    "pgUserGet", "pgUserCreate", "pgSuperGet", "pgSuperCreate", "pgGet", "pgCreate",
    "minioConfigGet", "minioConfigCreate", "minioUserGet", "minioUserCreate",
    "tenantGet", "tenantGetNil", "tenantCreate",
    "zkGet", "zkCreate", "dorisGet", "dorisGetNil", "dorisCreate",
    "hdfsZk", "hdfsGet", "hdfsCreate",
    "msInit", "msDatabase", "msNamenode", "msDataDir", "msMinioSvc", "msMinioSecret",
    "msBucket", "msFolder", "msGet", "msCreate",
    "kyuubiDb", "kyuubiTable", "kyuubiRow", "kyuubiZk", "kyuubiMetastore",
    "kyuubiMinioSvc", "kyuubiMinioSecret", "kyuubiGet", "kyuubiCreate"}

Bodies ==
  [gen : Nat, life : Nat, replicas : Nat, endpoint : Keys \cup {None},
   cred : Workers \cup {None}, refs : SUBSET Refs]

\* Every variable has its type; a worker has an entry to work for.
TypeOK ==
  /\ \A k \in Keys : nine[k].gen \in Nat
  /\ \A k \in Keys : \A kind \in Kinds : objs[k][kind] \in Bodies
  /\ live \subseteq Keys \X Services
  /\ items \subseteq Keys \X Items
  /\ queue \subseteq Keys
  /\ begun \in 0 .. MaxReconciles
  /\ pc \in [Workers -> Places]
  /\ \A w \in Workers : pc[w] # "idle" =>
       KeyOf(w) \in Keys /\ w[2] \in DOMAIN SpecOf(w).clusterSet
  /\ MetastoreReplicas \in Nat

-----------------------------------------------------------------------------
\* A PostgreSQL Cluster is created after the two secrets its spec names.
PgOrdered(k) ==
  Exists(k, "pg") => Exists(k, "pgUserSecret") /\ Exists(k, "pgSuperSecret")

\* A Tenant is created after the two secrets its spec names: never from a
\* construct phase that failed half way.
TenantOrdered(k) ==
  Exists(k, "tenant") => Exists(k, "minioConfigSecret") /\ Exists(k, "minioUserSecret")

\* An HdfsCluster with ZooKeeper's addresses is created after ZooKeeper answers.
HdfsOrdered(k) ==
  "zookeeper" \in objs[k]["hdfs"].refs => Live(k, "zookeeper")

\* A MetastoreCluster is created after the database answers and after the
\* storage it refers to has been prepared.
MetastoreOrdered(k) ==
  Exists(k, "metastore") =>
    /\ Live(k, "pg")
    /\ "minio" \in objs[k]["metastore"].refs => Has(k, "bucket") /\ Has(k, "folder")
    /\ "hdfs" \in objs[k]["metastore"].refs => Has(k, "dataDir")

\* A KyuubiCluster is created after its metastore answers, after the user it
\* authenticates against is in the database, and after ZooKeeper answers.
KyuubiOrdered(k) ==
  Exists(k, "kyuubi") =>
    /\ Live(k, "metastore")
    /\ "jdbc" \in objs[k]["kyuubi"].refs => Has(k, "userRow")
    /\ "zookeeper" \in objs[k]["kyuubi"].refs => Live(k, "zookeeper")

\* Whatever Reconciles overlap, whatever fails and wherever the controller
\* restarts, no object is created before what its spec refers to is there.
ProvisionOrder ==
  \A k \in Keys : /\ PgOrdered(k) /\ TenantOrdered(k) /\ HdfsOrdered(k)
                  /\ MetastoreOrdered(k) /\ KyuubiOrdered(k)

UsesMinio(k, kind) == Exists(k, kind) /\ "minio" \in objs[k][kind].refs

KeysAgree(k, kind) ==
  /\ objs[k][kind].cred = objs[k]["minioUserSecret"].cred
  /\ objs[k][kind].cred # None

\* The keys of MinIO handed to an object are those of the NineCluster's own
\* tenant: of a MetastoreCluster always, of a KyuubiCluster as long as no call
\* of getMinioExposedInfo failed.  So is the endpoint, although it is found by
\* a name every tenant of the namespace has: the metastore's worker has made a
\* bucket there with those keys.  Kyuubi's has not, and relies on a metastore
\* with the same storage.
CredentialsAgree ==
  \A k \in Keys :
    /\ UsesMinio(k, "metastore") =>
         KeysAgree(k, "metastore") /\ objs[k]["metastore"].endpoint = k
    /\ UsesMinio(k, "kyuubi") /\ used.fails = 0 =>
         /\ KeysAgree(k, "kyuubi")
         /\ UsesMinio(k, "metastore") => objs[k]["kyuubi"].endpoint = k

MainKind(t) ==
  CASE t = "database" -> "pg" [] t = "minio" -> "tenant" [] OTHER -> t

(* An entry the code makes an object of.                                   *)
Provides(w) ==
  /\ TypeOf(w) = "database" => DbType(EntryOf(w)) = "postgres"
  /\ TypeOf(w) = "doris" => getFEAndBEClusterInfo(SpecOf(w), EntryOf(w))

\* Overlapping workers never lose everything between them: while no call fails,
\* an entry one of its workers gave up on is provisioned, or another worker is
\* still at it, unless one of them had an entry nothing is made of.
\* AlreadyExists, an error nearly everywhere in the code, only ever ends a
\* worker another one has overtaken.
SomeoneSurvives ==
  used.fails = 0 =>
    \A w \in Workers :
      /\ pc[w] \in {"failed", "skipped"}
      /\ \A v \in Workers : pc[v] # "idle" /\ SameTarget(v, w) => Provides(v)
      => \/ Exists(KeyOf(w), MainKind(TypeOf(w)))
         \/ \E v \in Workers : pc[v] \notin Ended /\ SameTarget(v, w)

\* The controller only ever adds: no step changes an object that exists.
\* The user secret keeps the keys MinIO was started with.
CreateOnly ==
  [][\A k \in Keys : \A kind \in Kinds :
       Exists(k, kind) => objs'[k][kind] = objs[k][kind]]_vars

-----------------------------------------------------------------------------
(* What NineCluster k has, as Provisioning sees it.                        *)
Things(k) ==
  {<<"object", kind>> : kind \in {q \in Kinds : Exists(k, q)}}
  \cup {<<"service", s>> : s \in {q \in Services : Live(k, q)}}
  \cup {<<"item", d>> : d \in {q \in Items : Has(k, q)}}

Promise == INSTANCE Provisioning WITH
  NineClusters <- Keys,
  there <- [k \in Keys |-> Things(k)],
  refs <- [k \in Keys |-> [kind \in Kinds |-> objs[k][kind].refs]]

\* The operator implements Provisioning: with any workers at once, and whatever
\* fails, a NineCluster grows by one thing at a time, objects as well as what
\* workers write into databases and storage, each after all it needs.
ImplementsProvisioning == Promise!Spec

-----------------------------------------------------------------------------
(* The kinds a NineCluster's filled spec asks for.                         *)
Expected(k) ==
  {MainKind(t) : t \in Types(Fill(nine[k].spec).clusterSet) \cap WorkerTypes}

Provisioned(k) == \A kind \in Expected(k) : Exists(k, kind)

(* The cache has caught up with every object of k.                         *)
CacheFresh(k) ==
  \A kind \in Kinds : Exists(k, kind) => objs[k][kind].life < used.crashes

\* A NineCluster that is queued is provisioned in full, unless one more call
\* fails.  Whatever failed before, and wherever the controller stopped between
\* two calls, what is there is taken for what it is and the rest is added:
\* errors are only logged, but a restart heals what they left behind.
EventuallyProvisioned ==
  \A k \in Keys : \A f \in 0 .. MaxFails :
    k \in queue /\ CacheFresh(k) /\ used.fails = f ~> used.fails > f \/ Provisioned(k)

\* Workers do not pile up: as long as no call fails, all of them end.
EveryWorkerEnds ==
  []<>(used.fails > 0 \/ \A w \in Workers : pc[w] \in Ended)

-----------------------------------------------------------------------------
(* What the repository says and the code does not do.                      *)

\* The API: "The replicas of the cluster workload.Default value is 1".  A
\* MetastoreCluster has the replicas its entry gives, or 1.
MetastoreReplicasAsAsked ==
  \A k \in Keys : Exists(k, "metastore") =>
    \E r \in Runs : \E i \in DOMAIN run[r].spec.clusterSet :
      LET c == run[r].spec.clusterSet[i]
      IN  /\ run[r].key = k /\ c.type = "metastore"
          /\ objs[k]["metastore"].replicas = IF c.replicas = 0 THEN 1 ELSE c.replicas
=============================================================================
