# A TLA+ model of the Nineinfra operator

Nineinfra is a Kubernetes operator. A user describes a data platform as a
`NineCluster`; the operator creates the objects (PostgreSQL `Cluster`, MinIO
`Tenant`, `ZookeeperCluster`, `HdfsCluster`, `DorisCluster`, `MetastoreCluster`,
`KyuubiCluster` and some secrets) from which other operators build the platform.
The repository also carries code of the operators it drives: the API packages of
the MinIO operator and of DirectPV with their helpers, and a typed client per
resource. This directory models the operator's own logic, `internal/controller`
and `api/v1alpha1`, and the parts of `pkg` that hold logic, checks them with TLC
and proves the core with TLAPS.

## 1. Inventory

| part | state | operations | interacts with |
|---|---|---|---|
| **Controller** (`ninecluster_controller.go`, `cmd/main.go`) | work queue of the manager | `Reconcile`, `reconcileClusters`, `renconcileDataHouse`; restart | fed by the watch; fills a copy of the NineCluster; dispatches its entries |
| **Dispatch** (`getUniqueClusterLock`, `reconcileCluster`, `reconcileRoutine`) | `clusterReconcileLocks`, a map of mutexes; goroutines | fetch lock, try it, start the worker, release it, end of the worker | called by the controller, starts the workers |
| **API and defaulting** (`ninecluster_types.go`, `ninecluster_metadata.go`, `common.go`) | none (pure) | `FillNineClusterType`, `FillClustersInfo`, `GetRefClusterInfo`, `GetClusterStorage`, … | decides which entries, hence workers, there are |
| **Database worker** (`postgresql.go`) | objects | two secrets, `Cluster`; SQL for Kyuubi | metastore and Kyuubi wait for it |
| **MinIO worker** (`minio.go`) | objects, random keys | two secrets, `Tenant`; bucket and folder | metastore and Kyuubi read endpoint and keys |
| **ZooKeeper worker** (`zookeeper.go`) | objects | `ZookeeperCluster` | HDFS and Kyuubi wait for it |
| **HDFS worker** (`hdfs.go`) | objects | `HdfsCluster`; data directory | waits for ZooKeeper; metastore waits for it |
| **Doris worker** (`doris.go`) | objects | `DorisCluster` | none |
| **Metastore worker** (`metastore.go`) | objects, package variable `MetastoreReplicas` | `MetastoreCluster` | waits for database and storage; Kyuubi waits for it |
| **Kyuubi worker** (`kyuubi.go`) | objects, rows in the database | `KyuubiCluster` | waits for database, ZooKeeper, metastore, MinIO |
| **Lifecycle** (owner references, watch, cache, `main.go`) | NineClusters and their objects by uid; a cache per manager | delete, create again, garbage collection, resync, a second manager, restart | overlapping workers of several generations |
| **Memory** (deep copies, built-in entries, Schemes) | maps shared by address | `DeepCopyInto`, `FillClustersInfo`, the maps workers read and write | all workers of all Reconciles |
| **Sizes** (`common.go`, `minio.go`, `hdfs.go`) | none (pure) | `GiB2Bytes`, `GetDiskNum`, `CapacityPerVolume`, DirectPV nodes | what a Tenant and an HdfsCluster ask for |
| **Sites** (`hdfs.go`, `metastore.go`, `kyuubi.go`) | conf maps of the entry | `constructCoreSite`, `constructHdfsSite`, the addresses of the namenodes | metastore, Kyuubi, nineinfra's own HDFS client |
| **Tenant helpers** (`pkg/minio/operator`, v2) | config.env, users and buckets on a server, files of an archive, pools, containers | parse, `CreateUsers`, `CreateBuckets`, `ExtractTar`, `ValidateDomains`, names, hosts, `EnsureDefaults`, `Validate`, `IsContainersEnvUpdated` | the MinIO operator, with the Tenant nineinfra makes |
| **DirectPV objects** (`pkg/minio/directpv`) | finalizers, labels, conditions | volumes on a drive, claims, suspension, error and lost conditions, label values | callers with copies of their own |
| **Typed clients** (one file per resource) | none | the nine calls of a resource | workers, the API server |
| Webhook, clientsets, listers, informers, fakes, manifests | none of their own | | not modelled (section 8) |

What is hard here:

* **Concurrency.** `Reconcile` returns as soon as its goroutines are started.
  The mutex of an entry is released when its worker is *started*, so workers of
  several Reconciles for the same entry overlap. Each does check-then-create on
  the same objects, through a cache that lags. `MetastoreReplicas` is shared by
  all of them, without a lock.
* **Waiting.** Workers poll without a bound for services that other workers
  provision. Whether the other worker exists is decided elsewhere.
* **Failure.** A worker's error is logged, never returned to the queue. Several
  errors are dropped on the way (`constructMinioTenant`, `constructDorisCluster`,
  `getHdfsExposedInfo`, `getMinioExposedInfo`), and the code goes on with nil or
  empty values. The process may stop between any two calls.
* **Sequences.** NineClusters are edited, deleted and created again while workers
  for the previous generation are still waiting; the objects of a deleted one are
  found and taken for the new one's before they are collected.
* **Shared memory.** The deep copy of a NineCluster separates Reconciles, but the
  workers of one Reconcile get entries with the same maps in them, built-in
  entries are appended with theirs, and Schemes are package variables, some of them
  written by workers of several types. A map written while another goroutine uses
  it ends the process.
* **Numbers.** Capacities are products of `int` and `int32`, divided by a product
  that may be zero or wrapped.
* **Copies.** Everything in `pkg/minio/directpv` changes an object in memory that
  is sent back later; another caller may have changed it meanwhile.

What makes each part correct: the lock is exclusive, given back, and makes a
routine leave only for the entry's own sake (Dispatch); no entry is forgotten
(DispatchContract); defaulting respects the user's entries and adds all that
workers will wait for (Defaulting); no object is created before what it refers
to is there, MinIO's keys agree everywhere, nothing that exists is changed, and
all is provisioned in the end, in spite of overlaps, failures and restarts
(NineInfra); nothing of a deleted NineCluster is left, and one that stays ends up
with objects of its own (Lifecycle); maps are not raced for and not leaked
between Reconciles (Sharing); volumes add up to what was asked (Capacity); the
configuration of a client resolves (Sites); helpers of the MinIO operator report
success only when all is done, and keep what they are given apart; DirectPV's
drives behave as if calls took effect at once. `PROJECT.json` lists the hazards,
each at its line, with the properties that would catch it.

## 2. Modules

```
NineTypes ── Defaulting ─┬─ MCDefaulting       DispatchContract
    │                    └─ DefaultingProofs         ▲ implements
   Kube ─┬─ Database ──┐                         Dispatch ── MCDispatch
         ├─ Minio ─────┤                             │
         ├─ Zookeeper ─ Hdfs ─ Metastore ─ Kyuubi    DispatchProofs
         └─ Doris ──────────────────────────┴─ NineInfra ─┬─ MCNineInfra ── MCOverlap
         Provisioning ◄─implements──────────────┘        └─ NineInfraProofs
Lifecycle ── LifecycleProofs          (module of two runs itself)

NineTypes ── Sharing ── SharingProofs ─┬─ MCObjects ── ObjectsProofs
                    Capacity, Sites ───┘

DriveContract ◄─implements─ DirectPV ── DriveProofs ─┬─ MCOperators ── OperatorsProofs
  MinioConfig, TenantSetup, ExtractTar, TenantDomains, TenantNames, TenantHosts,
  TenantEnv, TenantOptions, Conditions, Labels, Clients ───┘
```

**Dispatch** has one step per step of `reconcileRoutine`. A routine `<<r, i>>`
serves entry `i` in Reconcile `r`. `mutex[w]` is the `*sync.Mutex` it was given,
`holder[m]` who holds it, `routine[w]` and `worker[w]` where the two goroutines
are. Namespaces and names are sequences of dash-separated segments, because
`GenUniqueName4Cluster` joins them with dashes and that is where two names can
meet. Reconciles are called one at a time (`MaxConcurrentReconciles` is left at
1), so the loop over the ClusterSet is a step of its own and is not interleaved
with another loop.

**DispatchContract** is the abstract view: a goroutine that is asked to serve a
target starts its worker, or skips it once another has been started for the same
target. `ImplementsContract` is the refinement; NineInfra takes the contract's
`Start` and `Skip` as its dispatching, so locks do not occur in it.

**NineTypes** holds the specs and every pure decision taken from them.
**Defaulting** lets a user edit one NineCluster in every way and looks at the
copy `Reconcile` fills. (`WaitsFor` collects the unbounded waits of the workers.)

**Kube** holds the state workers share and the calls they make:

| variable | stands for |
|---|---|
| `nine[k]` | the NineCluster, with its generation |
| `objs[k][kind]` | the object created for it: generation of the spec it was built from, life of the process that created it, and the fields properties look at |
| `live` | services that answer, as the manager's cache shows them |
| `items` | SQL database, users table, user row, bucket, folder, data directory |
| `queue`, `begun`, `run[r]` | the work queue; Reconcile `r`'s filled copy |
| `pc[w]`, `local[w]` | the call worker `w` makes next; what it has read |
| `MetastoreReplicas` | the package variable |
| `used` | how much of each bound is used |

A worker's step is one call to the API server or to a service. Work between
calls touches nothing shared and belongs to the call before. A polling loop is a
step guarded by what it waits for. `GetObject` is a Get through a typed
clientset, `GetCached` one through the manager's client: it may miss what was
created in this life of the process. `CreateObject` says where AlreadyExists
leads, which differs from place to place in the code. `CallFails` is a call that
returns an error, and `CreateUnanswered` a Create that succeeded although its
caller sees an error.

**Database, Minio, Zookeeper, Hdfs, Doris, Metastore, Kyuubi** are the workers,
with the source's names. `XStart` is where the worker begins, `XErrors` what its
failing calls lead to.

**NineInfra** composes them with users, watch, resync, `Reconcile`, restarts and
the other operators (`BringUp`, external: an operator brings up what an object
asks for, and a namespace has one service named `minio`).

**Provisioning** is the abstract view of all of that: what a NineCluster has
(objects, services that answer, things written into services) and what each of
its objects refers to. It grows by one thing at a time, each after all it needs.
Workers, entries, Reconciles, failures and restarts do not occur in it.
`ImplementsProvisioning` is the refinement: `Things(k)` says which of NineInfra's
`objs`, `live` and `items` a NineCluster has.

**Lifecycle** is NineInfra's check-then-create loop once more, with what NineInfra
leaves out: objects have an owner (`SetControllerReference`, the uid of the copy
a worker was given), a NineCluster may be deleted and created again under its
name, Kubernetes collects what has no owner, each manager has a cache of its own
that lags per kind, and there may be two managers, as nothing prevents when they
are started without `--leader-elect`, which is off by default (`main.go`). The
kustomize manifests pass the flag, and the chart runs one replica with the strategy
Recreate, so this is about a deployment of a user's own. A worker is the chain of objects of its entry type;
waits are left out, as they only delay. NotFound keeps the name in the queue,
which is a Reconcile that does nothing; the manager watches NineClusters only
(no `Owns`), so a collected object queues nothing and only the resync repairs it.

**Sharing** gives every map an address `<<owner, type, field>>`. `DeepCopyInto`
and `FillClustersInfo` say which entry holds which address; a worker is the list
of its reads and writes of maps, and is in the middle of one of them, so that a race
is two of them at once. A package has one Scheme: `Register` (`AddToGroupVersion`,
`AddToScheme`) writes it, `Call` (a typed client that encodes and decodes) reads it.
hdfs.go, zookeeper.go and metastore.go register their types in the Scheme of the
metastore operator's package, `getDirectPVNodesCount` in DirectPV's for the workers
of MinIO and HDFS. Doris's worker and the database's write no map of these.

**Capacity** has Go's arithmetic with the widths as constants (`Wrap`, division
towards zero, a panic that ends the manager); a worker computes the sizes on every
Reconcile, before it looks whether there is an object; products wrap, and so does the quotient
of the least int by -1. `dfs.replication` may be missing, which means the default, or
be any number, 0 too. A user edits the spec, nodes come
and go, workers make Tenants and HdfsClusters, and the MinIO operator takes or
refuses a Tenant (`Pool.Validate`).

**Sites** makes core-site, hdfs-site and addresses from specs that are edited
between the HdfsCluster's creation and its clients'.

Helpers of the MinIO operator (`pkg/minio/operator/apis/minio.min.io/v2`):
**MinioConfig** (config.env as nineinfra writes it, a user adds lines, and
`ParseRawConfiguration` reads it, line by line in a recursive function), **TenantSetup** (`CreateUsers` and
`CreateBuckets` call by call against a server that refuses or loses answers, with
contexts that run out, called again after an error), **ExtractTar** (entry by
entry, with copies that break off), **TenantDomains** (`ValidateDomains`, `lcp`,
`GetDomainHosts`), **TenantNames** (names as the words that dashes join),
**TenantHosts** (`EnsureDefaults`' pool names, `MinIOHosts` while the status lags,
pools retired and added), **TenantEnv** (`IsContainersEnvUpdated` and the rollout
it decides on), **TenantOptions** (`EnsureDefaults`, `Validate`, TLS, KES and the
endpoint nineinfra tells its other clusters).

DirectPV (`pkg/minio/directpv`): **DirectPV** has the methods of a drive as
functions on a copy and callers that get, change and update one; **DriveContract**
is the drive on which every call takes effect at once, which DirectPV implements.
**Conditions** has error conditions and the lost condition with times that lose
their fractions at the server. **Labels** follows one label of a volume: of a pod (all its
setters convert the name with `ToLabelValue`), of a drive or node (`NewDirectPVVolume`
puts the name there as it is), or of a claim (`SetClaimID` never converts);
`CopyLabels` copies what there is, getters convert what they read, and the API server
refuses an object with a label that is no label value.

**Clients** is the nine methods of a typed client: the files for the ten resources
are the same but for the resource's name and whether it lives in a namespace, which
are parameters here. What the API server makes of `UpdateStatus` and `Update` depends
on whether the type declares a status subresource: DirectPV's four do not.

**MCDispatch, MCDefaulting, MCNineInfra, MCOverlap** give the constants values.
`MCOverlap` restricts which entry types' workers of the second Reconcile are
scheduled (section 4). **MCObjects** and **MCOperators** instantiate components
that have no state in common and keep their constants as their own (with
`ObjectsAssumption` and `OperatorsAssumption`: widths and bounds are numbers, a
Reconcile is not named as the manager's cache is, no claim as a suspension; the
values for TLC are in the .cfg and at the end of the module). A variable `part` names
the one a behaviour is about, its actions are that component's, the variables of the others are constant.
The state space is the sum of theirs, not the product, and nothing is said about
interactions, of which there are none.

Definitions whose comment describes something the code does not do
(`getUniqueClusterLockNil`, `CreateObjectApply`, `SetPolicyUnchecked`, …) are
deliberate faults: replacing the definition after them by one of these must break
the property named in `PROJECT.json` ("mutants"), which shows that the property
says something about the code.

## 3. Properties

Dispatch: `LockExclusive`, `SkippedOnlyForSelf`, `NoTypeStarves`, `LockReleased`,
`ImplementsContract`.

Defaulting: `UserEntriesWin`, `WaitsServed`, `SparkFound`, `FillIdempotent`.
`WaitsServed` takes two things for granted (`Sensible`): a database that is
PostgreSQL, and an HDFS entry listed along with something that brings in
ZooKeeper. Without either it fails (section 7, items 4 and 5).

NineInfra:

* `ProvisionOrder`: an object is created after what its spec refers to. PostgreSQL and the
  Tenant after their secrets; HDFS after ZooKeeper answers; the metastore after
  the database answers and its bucket and folder, or data directory, are made;
  Kyuubi after the metastore and ZooKeeper answer and its user is in the database.
* `ImplementsProvisioning`: NineInfra implements Provisioning. Beyond
  `ProvisionOrder` this says that no step makes two things, that none changes or
  goes, and that what is written *into* a service has its order too: the users
  table after its database, the user row after the table, the folder after the
  bucket, each while the service answers.
* `CredentialsAgree`: a metastore that refers to MinIO has the keys and the
  endpoint of the NineCluster's own tenant, even though every Reconcile generates
  new keys. For such a Kyuubi the same as long as no call fails:
  `getMinioExposedInfo` goes on with empty values after an error, and Kyuubi,
  unlike the metastore, does not try them before it is created. Its endpoint is
  sure only with a metastore on the same storage: MinIO's service is looked up by
  its name, which in a namespace with several NineClusters may be another tenant's,
  and only the metastore's worker finds out, when that tenant refuses the keys.
* `SomeoneSurvives`: AlreadyExists is an error nearly everywhere, yet a worker it
  ends has been overtaken by one that finishes. It is about entries an object is
  made of (`Provides`): a mysql database or a doris entry without frontends or
  backends ends its worker with nothing made.
* `CreateOnly`: no step changes an object that exists.
* `EventuallyProvisioned`: a queued NineCluster is provisioned in full unless a
  further call fails, whatever failed before. It is stated for a cache that has
  caught up: a manager that starts reads it anew.
* `EveryWorkerEnds`: no worker waits for ever while no call fails.

Lifecycle: `NothingLeft` (after the last deletion nothing of the NineCluster
stays, although workers with old copies go on creating), `OwnObjectsInTheEnd` (one
that stays ends up owning every object, although its workers took objects of its
predecessor for theirs).

MCObjects, each a conjunction of the components' properties:

* `MapsSafe`: `SharedMapsUnwritten`, nothing of the cache or of the built-in
  entries is written; `NoMapRace`, no map is used while another worker writes it,
  with the exceptions of section 7, item 7, which the property names
  (`ZookeeperConfGiven`, `Registrars`).
* `CapacityHolds`: `CapacityIsShared`, the volumes of the object have together
  what was asked for when it was made; `DefaultTenantAccepted`; `NoPanicInRange`, a
  division by zero only if the disks of all nodes do not fit an int32.
* `SitesAgree`: `DefaultFSResolves`, `AddressesKnown`, `MetastoreNamesWhatRuns`.

MCOperators:

* `TenantServes`: `ParsedAsWritten`, `CredentialsKept`, `EndpointAgrees`, `KESComplete`.
* `DoneMeansDone`, `SetUpInTheEnd`: nil from `CreateUsers` and `CreateBuckets` means
  all is there; retries get there although the server did things whose answers
  were lost.
* `NilMeansExtracted`: for archives with no file twice.
* `TenantPartsApart`: `OverlapIsSeen`, `OrderDoesNotMatter` (domains), `PartsApart`,
  `PlainTenantsApart` (names), `ToldWhatRuns`, `DrivesApart`, `TemplateCovers` (hosts).
* `EnvironmentsCurrent`: `ValuesCurrent`, `RolledOut`.
* `KeepsContract`: DirectPV implements DriveContract.
* `ReadBackAsSet`: `CountOfProtected`, `LatestUnlessTied`, `LostStaysLost`;
  `ReadIsValid`, the getters of a label all whose setters convert return label values;
  `ConvertedIsValid`, such a label is one the server takes, and `FoundByName`, a name is
  found by its selector and read back, whichever setters put it there, or the server has
  refused it: both but for names that `EndsBadly` describes (section 7, item 10).
* `CallsApart`: `WritersApart`, `ScopeKept`, `DeletesWhatIsListed`.

## 4. Runs

| run | instance | distinct states | shows |
|---|---|---|---|
| `dispatch` | 2 NineClusters, 1 entry, 3 Reconciles | 2,211 | all Dispatch properties |
| `dispatch_overlap` | 1 NineCluster, 2 Reconciles | violation | two workers for one entry |
| `defaulting` | 3 types, 3 features, up to 3 of 8 entries | 147,420 | all Defaulting properties |
| `restart` | the sample, 1 failing call, 1 restart, 2 Reconciles | 78,725 | `EventuallyProvisioned` |
| `full` | HDFS, HA Kyuubi, Doris; 1 failing call | 14,256 | `ImplementsProvisioning`, `EventuallyProvisioned`, `EveryWorkerEnds` |
| `overlap` | the sample, 2 Reconciles, 1 failing call | 316,918 | safety of overlapping workers |
| `edits` | 6 specs, 1 edit at any time, 2 Reconciles | 128,346 | types and order across generations |
| `replicas` | 2 NineClusters with a metastore each | violation | section 7, item 2 |
| `lifecycle` | MinIO's chain, 1 manager, 2 NineClusters of one name, 2 workers at a time, 1 restart | 329,266 | deletion and creation |
| `takeover` | PostgreSQL's chain, 2 managers, 1 restart, a deletion | 133,047 | managers without `--leader-elect` |
| `objects` | section 2, MCObjects | 919,152 | maps, sizes, sites |
| `operators` | section 2, MCOperators | 374,948 | helpers, drives, clients |

**Bounds.** Three Reconciles make two overlap with a third coming later, which
covers a lock taken, refused and free again; one entry is enough since entries
share nothing in Dispatch but the loop, and the theorems hold for any number.
In NineInfra two Reconciles are enough for every race, since a race here is
between two workers for one entry (or between workers of two entries, which one
Reconcile has). One failing call reaches every error path; the second Reconcile
or the restart meets what it left. Three user entries reach every pair of
listed types with one more to disturb them. In `lifecycle` two uids are enough,
since a third NineCluster would meet objects of a dead owner just as the second
does; `minio` is the chain with all of the code's ways to go on after
AlreadyExists except PostgreSQL's, which `takeover` has. `objects` lets the
workers of HDFS, ZooKeeper, the metastore and MinIO of one Reconcile overlap with
each other and with HDFS's and Kyuubi's of another: every pair of types that share a
Scheme, within a Reconcile, and HDFS's with itself and the rest between two. Its
integers are six and nine bits wide, with volumes and disks at, below and
above the edge. In `operators`: two secrets, two buckets and two faults (a fault in each
loop, or two in one), a context for four calls; archives of three entries; three
domains of up to three letters (the least that distinguishes a common suffix of
all from one of two); two tenants whose names split differently over the same
words; three pools, one of which is retired before another is added; two callers,
two volumes and a claim on a drive, up to its sixth version; three seconds of two
ticks; names of up to four characters for labels of three; two objects in two namespaces.

**Overlaps.** All workers of two Reconciles together have too many
interleavings. Workers for different entry types meet only in what they wait
for, so `Focused`, an action constraint, lets second workers of one set of types
run at a time; those of the other types are started and not scheduled within the
behaviour. This only removes behaviours of NineInfra, so a violation is one of
NineInfra's; what is not covered is a race that needs the second workers of
several sets at once. The sets are the database's workers, MinIO's and the
metastore's together (they share keys, endpoint, bucket), Kyuubi's, and in
`edits` the metastore's, HDFS's and ZooKeeper's together, and Doris's.

**Deadlock** is checked for Dispatch and Defaulting. NineInfra's behaviours end
when nothing is queued and the bounds are used, or with a worker whose wait is
never served; Lifecycle's when the uids are used and the last is gone; a tenant
is set up and an archive read once, a drive has no version left. So it is off
there, and the liveness properties say what must not be left undone.

**Fairness.** Weak fairness of each goroutine (the Go scheduler is fair and
polls are repeated every second), of `Reconcile` of a queued key (the work queue
is drained by the controller's thread), and of `BringUp` (the other operators do
their work). None for users, failing calls, restarts and resyncs. In Lifecycle: weak
fairness of the watch and the caches, of the resync (controller-runtime's
`SyncPeriod`, on by default), of Reconcile, of each worker's step and of the
garbage collector; none of users and restarts. In MCOperators only of the setup
of a tenant: the MinIO operator synchronises a tenant again until it is set up,
and a server that refuses does so finitely often. Everything else there is safety.
The action constraint `FailsBeforeRestart` lets calls fail only before the restart, which
loses nothing: `EventuallyProvisioned` asks nothing after a further failure.
It restricts no step that fairness is assumed of.

## 5. Proofs

`DispatchProofs` proves, for any NineClusters, ClusterSet and number of
Reconciles, from the assumption `DispatchAssumption` on the constants only:

* `DispatchTypeOK`, `DispatchLockExclusive`: `Spec => []TypeOK` and
  `Spec => []LockExclusive`. `LockExclusive` is not inductive: it speaks of
  routines with the same target, while the lock is a fact about mutex objects.
  The invariant adds that a routine in the lock holds its mutex object, that
  a routine's mutex is the one registered under its target's unique name and
  stays registered, that the object was allocated for a routine that has been
  started, and that routines not yet visited are idle. Two routines in the lock
  for one target then have one name, one mutex and one holder.
* `SkipsOnlyForSelf`, `DispatchImplementsContract`: the action property and the
  safety part of the refinement, under `NamesDistinct`: different targets have
  different unique names. `data-lake`/`house` and `data`/`lake-house` show that the
  hypothesis is needed (section 7, item 3). Both need the converse direction: a held mutex is held by
  a routine in the lock, and two routines with one mutex have one unique name.

`NineInfraProofs` proves, from `NineInfraAssumption` only (the bounds are
numbers, filled ClusterSets are sequences of ClusterInfos no longer than
`MaxEntries`), for any NineClusters, namespaces and specs and for any bounds:

* `NineInfraProvisionOrder`, `NineInfraCreateOnly`, `NineInfraTypeOK`. The runs
  `overlap` and `edits` look at two Reconciles and hold second workers of most
  types back; the theorems have no such restriction.
* `ProvisionOrder` is not inductive: it speaks of objects that exist, and a
  worker about to create one has looked at what the object refers to several
  calls earlier. The invariant `Inv` adds `Knows`: for each place in a worker's
  code, what the Gets, Creates and waits on the way there have established
  (`pgCreate`: both secrets exist; `msGet`: the database answers and the storage
  of the spec is prepared; `kyuubiCreate`: the metastore answers, …). Such a fact
  outlives everything another worker, an edit or a restart can do, because
  objects, services and items only grow (`Grows`, which is also `CreateOnly`) and
  because a worker keeps to the copy its Reconcile took (`Started`).
* The argument: a worker's step is one of six calls, each with a lemma
  (`GetMoves`, `CreateMoves`, `LostMoves`, `WaitMoves`, `WriteMoves`,
  `FailMoves`) that says it is a `Moves`: the worker goes on and adds at most one
  object that is `Justified`. One lemma per worker shows that it knows what it
  should where it arrives; `MovesInv` does the rest. Users, resync, restart,
  other operators and the start of workers create nothing (`QuietInv`). A
  Reconcile takes a number whose workers are idle.

* `NineInfraCredentialsAgree`. What a worker carries in `local` comes from Gets that
  are several calls old, and the service `minio` may be another tenant's. `KeysInv`
  adds to `Inv`: keys are named after the worker that made them, which served that
  NineCluster (`KeysOwned`); a namespace has one service `minio`, and a NineCluster
  whose bucket is made has its own tenant answering there (`ServicesOwned`); and,
  place by place, that what a worker has read is its own NineCluster's (`Holds`). A
  metastore's worker has the right endpoint from `msFolder` on, since only its own
  tenant takes its keys when it makes the bucket; Kyuubi's has it from a metastore on
  the same storage, and has the keys only while no call has failed.
* `NineInfraSomeoneSurvives`. `SurviveInv`: a worker is at a place of its entry's type
  (`InPlace`), and, while no call has failed, for a reason (`Reason`: it creates a
  secret that exists only if the cache may not show it yet, that is, if it was made in
  this life of the process), whoever made a secret in this life is on the way to
  the tenant or somebody else is (`TenantInHand`), and each worker that ended left an
  object or somebody who works (`Served`). The secrets are what makes it hard: two
  workers may each lose the race for one of them.
* `NineInfraImplementsProvisioning`, the refinement. Each step of NineInfra is a step of
  Provisioning or a stutter: a worker's step adds at most one thing (`WorkAdds`), for
  which `Knows` has what it needs (`Hosted`, `CreatePromised`, `WritePromised`); that
  Kyuubi's worker has made the database before the table is part of `Knows` for this
  reason. `BringUp` is `Answer`, everything else a stutter.

`LifecycleProofs`, from `LifecycleAssumption`: `LifecycleTypeOK`, for any managers
and bounds: owners, caches and the copies workers hold are of NineClusters that
were created, and a running worker is at an object of its chain (`Workers` and
`Owners` grow with every birth, `WorkerFields` says what a step does to a worker).

`DefaultingProofs`: all five properties of `defaulting`, for any types, features and
entries and any number of entries a user lists. `FillInv` is the invariant: a copy is
`Fill` of the spec it was taken from, a spec of a supported type. The rest is
about `Fill`, that is, the loop of `FillClustersInfo` over the built-in entries.
`Grown` is the invariant of that loop: the user's entries come first and
unchanged, what follows are missing built-in entries, each once, and of those
passed by none is left out (`FilledGrown`). The loop is a recursive function;
that it has a solution (`FillingLoop`) and that `Grown` holds after every entry
(`FilledGrown`) are proved by induction. `NatSetInduction` states induction for a
*set* of numbers, the provers being unable to use the library's theorems, which
take an operator; it follows from the well-foundedness of `<`.

`SharingProofs`: `SharingTypeOK`, `SharingMapsUnwritten` and `SharingNoMapRace`, for
any Reconciles, workers and maps given, if workers belong to Reconciles
(`WorkersOfReconciles`). The invariant says what the pointers of a Reconcile's copy
point to (`CopyOf`: nil, a map of that copy, or one of a built-in entry; the Conf of
the zookeeper entry, the one map of an entry that workers write, is there only if
the user gave it and is then the copy's own), and that every worker is at one of the
accesses those pointers give it. `AccessesUse` bounds the maps of every access
(`Uses`: read a map of the copy, use a Scheme the worker's type registers in, or write
that Conf), and no two accesses within that bound are a race, except those `NoMapRace`
names. Of the Schemes this says that they are raced for only by workers that
register types in them (`Registrars`): nobody merely encodes or decodes with a Scheme
another type's worker writes.

`DriveProofs`: `DriveTypeOK`, `DriveCountOfProtected` and `DriveKeepsContract`, the
refinement of DriveContract by DirectPV, for any callers, volumes, claims and
versions, provided no claim is the label of a suspended drive (`LabelsApart`). What
makes concurrent callers safe is the third part of the invariant: a copy with the
version of the drive *is* the drive, since each accepted update raises the version.
An update that is accepted is then a method applied to the drive as it is, and the
lemmas say what a method does to the set of finalizers and labels
(`Appended`, `Removed`, `ProtectionOnly`, `LetGoOnly`). `Removed` rests on the loop of
`RemoveVolumeFinalizer`, which appends the finalizers that stay to a new slice (`LeftAll`,
again by `NatSetInduction`). That `GetVolumeCount` is a number of volumes, and not of
finalizers, rests on there being none twice, which `AddVolumeFinalizer` sees to.

`ObjectsProofs` and `OperatorsProofs` prove the composites `objects` and `operators`
check. Each component has an invariant of its own (`XInv`), lemmas that its Init
establishes it, that its actions keep it and what follows from it; `IInv` is their
conjunction over `part`, and a step of one part leaves the others' variables alone
(`PartSteps`). The theorems are about the composites' own specifications.

`ObjectsProofs`, from `ObjectsAssumption`: `ObjectsTypeOK`, `ObjectsMapsSafe`,
`ObjectsCapacityHolds`, `ObjectsSitesAgree`: all four properties of `objects`, for any
Reconciles, workers and maps, for integers of any width (in which the default of
`GetDiskNum` fits) and any specs and nodes that fit them, and for any name
services and domains.

* Sharing: the theorems of `SharingProofs`, instantiated.
* Capacity: `SizesInv` says that a size that exists is what `CapacityPerVolume` gives
  for the spec and the number of servers in the object, whatever was edited
  since. The arithmetic is in lemmas: what is in range does not wrap (`WrapId`), what has wrapped is in range (`WrapIn`), division towards
  zero is `\div` of natural numbers (`QuoNat`). `SizeInRange` is the heart: when
  neither product wraps, the volumes have together what was asked for, up to the
  remainder. That a product of positive numbers below the limit is not zero
  (`NoZeroProduct`) is what `NoPanicInRange` needs.
* Sites: `ConfsInv` keeps what was true of the spec a client's site was built from,
  although the spec has been edited since; `SiteFits` is what one site says of one spec.

`OperatorsProofs`, from `OperatorsAssumption` and `NamespacesAssumption`, for any bounds
and any values:

* `OperatorsDoneMeansDone` (TenantSetup). The property speaks of the end of the
  loops; the invariant says that what stands before the element at hand is done
  (`UsersDone`, `BucketsDone`), that a secret was found usable before its user is
  added, and that the user is there before its policy is set. `OutcomeGrows` is the
  lemma about the server: however a call ends, nothing gets lost, and ok means done.
* `OperatorsNilMeansExtracted` (ExtractTar). `success` is a counter; that it is the
  number of files still missing is a fact about cardinalities: `Missing` loses one
  element when a copy is written (`CopyMissing`, because an archive that is `Proper`
  brings a file once), and a counter at zero means an empty set (`MissingNumber`).
* `OperatorsReadBackAsSet`. The drive's part is `DriveCountOfProtected`. Conditions: no
  type is in the list twice, every time in it has passed, and none is later than that
  of the error set last (`LatestStands`), also when the server has cut them all to the
  second: `Fractions` is the lemma that cut times keep their order. Labels: `Carried` says
  what a volume may carry whichever setter was used: characters a label may have if all
  setters of that key convert, and, unless the name ends badly, the name or its
  conversion. `ConvertedUnlessEnd` says that the conversion is a label value but for that
  end; converting it again gives one in any case (`ConvertedTwiceIsValid`), which is
  why getters return one; and only the conversion passes the API server.
* `OperatorsKeepsContract`: the theorem of `DriveProofs` for the composite, at the first
  state and at every step.
* `OperatorsEnvironmentsCurrent` (TenantEnv). In a list of variables that may name one
  twice, the last counts. Both directions of the comparison in
  `IsContainersEnvUpdated` have to agree on it, which `HasLast`, `OneLast` and `NoLast`
  do: a name that occurs has exactly one last place.
* `OperatorsTenantServes`. MinioConfig: `ParseRawConfiguration` is a loop over lines; that
  the recursive function has a solution (`ParsingLoop`) and that after `n` lines each
  key has the value of its last entry among them (`LatestStep`, `LatestAll`) are proved
  by `NatSetInduction`. TenantOptions: `OptionsInv` says what `EnsureDefaults` has
  left in a tenant that was not edited since, and that nineinfra's own tenant has no
  certificate until somebody edits it; KES may have any number of replicas from zero up.
* `OperatorsCallsApart`, for the typed clients: `CallsInv` (what is stored is an object
  with a spec and a status) and what each of the nine calls addresses and changes
  (`WriteParts`, `RemoveParts`), with and without a status subresource.
* `OperatorsTypeOK`, from the same invariants.

What proving changed in the models. In Capacity, the quotient of
`CapacityPerVolume` left its int in one case (the least int divided by -1), and
`NoPanicInRange` looked at the disks in the spec only, although the default that stands
for none may wrap around as well, when there are many nodes. Two definitions
were restated without a change of meaning, in forms that can be reasoned about:
`ParseRawConfiguration` as a recursive function rather than a fold, and `Effective` of
TenantEnv as the variable after which no other has the name rather than the last of
a filtered list.

Only model-checked:

* the liveness properties, as the prover handles neither fairness nor ENABLED:
  `NoTypeStarves`, `LockReleased`, the liveness part of `ImplementsContract`,
  `EventuallyProvisioned`, `EveryWorkerEnds`, `NothingLeft`, `OwnObjectsInTheEnd`,
  `SetUpInTheEnd`;
* `TenantPartsApart`. `lcp` sorts and folds over lists of domains, names are sequences
  of words joined over dashes, hosts are ranges cut out of templates: what these
  compute for every input takes induction over data, and the library's induction
  takes an operator, which the provers cannot instantiate. The bounds of section 4
  are the argument for it.

## 6. How to run

`tlc -config MCX.cfg <module>` with the module `PROJECT.json` gives for the run;
`tlapm <module>` for each of the eight modules whose name ends in `Proofs`.

## 7. Where code and documentation disagree

Two runs show it:

1. `reconcileRoutine` reports that a cluster "is under reconciling now" as the
   reason to leave, but the lock is released when the worker has been started:
   two workers for one entry run side by side (`dispatch_overlap`). `CreateOnly`
   and `SomeoneSurvives` show that the objects do not suffer from it; memory may
   (item 7).
2. Metastore replicas default to 1 and are per entry according to the API; in
   the code they are one variable for all NineClusters (`replicas`).

The others were met while modelling. Each is a hypothesis or a named exception in
a property or theorem, so that the property says exactly where the code does not
keep the promise:

3. The lock's name joins namespace and name with dashes: NineClusters of two
   namespaces can exclude each other's routines (`NamesDistinct` in DispatchProofs).
4. The API offers mysql; nothing provisions it, and the metastore waits for
   PostgreSQL for ever (`Sensible`).
5. ZooKeeper is added because of features, waited for because of entries
   (`Sensible`).
6. Reconcile is said to move the cluster towards the desired state and to
   "create or update"; nothing is ever updated (`CreateOnly`). MinIO's service is
   named `minio` because "each namespace has only one Tenant"; two NineClusters in
   a namespace create two (NineInfra gives a NineCluster a namespace of its own
   unless `NamespaceOf` says otherwise).
7. Memory, `MapsSafe`. hdfs writes ZooKeeper's addresses into the map of the zookeeper
   entry, which the zookeeper worker of the same Reconcile may be reading, when a user
   gave that entry a Conf (`ZookeeperConfGiven`). And workers register types in
   package-level Schemes without a lock: those of hdfs, zookeeper and metastore in the
   one of the metastore operator's package, those of minio and hdfs in DirectPV's,
   within one Reconcile; and two workers of a type, which item 1 makes possible
   (`Registrars`). The metastore's worker, and minio's and hdfs's for DirectPV, also
   encode and decode with a Scheme the others write.
8. The API says that disks default to 1; `GetDiskNum` gives 4. A tenant made with
   the default is valid (`DefaultTenantAccepted`).
9. A user's `dfs.nameservices` changes hdfs-site but not `fs.defaultFS` in
    core-site (`NamedAlike`), and the HdfsCluster's k8sConf is filled from Conf, so
    the cluster domain in addresses is not the cluster's own.
10. DirectPV's `GetVolumeCount` is -1 for a drive that has been let go
    (`CountOfProtected`); the latest error is the first in the list among those set
    in one second (`LatestUnlessTied`). `ToLabelValue` "validates and converts string value
    to label value", but a character that a label may not have becomes a dash also at
    the end of the value, or where it is cut, and the result is then no label value
    (`EndsBadly`; names of pods have no such characters). `NewDirectPVVolume`, `SetClaimID` and `CopyLabels`
    set labels as they are given, so that a getter may return what is no label value
    (`ReadIsValid` is about labels that are always converted), and the API server refuses
    such a volume.
11. In the MinIO operator's helpers: one 20 second context for all users
    (`SetUpInTheEnd` is stated for users that fit); `ExtractTar` counts entries, not
    files (`Proper`); two of three domains may overlap unseen, and domains that
    begin with http count as having a scheme (`OverlapIsSeen`); signing requests of
    two tenants may share a name (`PlainTenantsApart`); a new pool gets the name of
    one that is there after an earlier one was retired (`DrivesApart`); a changed
    reference in an environment is no change (`ValuesCurrent`).

## 8. Not modelled

Images, resource requirements, ports and URLs beyond scheme, port and host;
passwords in the database's rows; Spark's and Kyuubi's conf maps beyond the systems
they refer to; the status (the controller never writes it); back-off times, probes
and metrics. The webhook is scaffolding: it accepts everything and logs.

Of `pkg`: deep copies, OpenAPI definitions, defaulters, register functions, listers,
informers, appliers and fakes are generated and mechanical; types without methods
have no behaviour. JWT tokens, HTTP transports and the release download around
`ExtractTar` are I/O. Making clients (`NewForConfig`) is not modelled: each call of
`GetK8sClientConfig` returns a configuration of its own, so nothing is shared.
Manifests and charts do no more than start the manager: the manifests with
`--leader-elect`, the chart as one replica that is stopped before the next starts.
`takeover` is about managers started otherwise.

## 9. Plan

Done: Dispatch with its contract and proofs; defaulting and its proofs; all
workers; their composition with failures, restarts, overlaps and edits; the proofs
of its types, its order of creation, `CreateOnly`, `CredentialsAgree`,
`SomeoneSurvives` and of the refinement of Provisioning; deletion and takeover;
shared memory; sizes; sites; helpers, drives (with the proof that DirectPV implements
DriveContract) and clients; the proofs of all properties of `objects`, and of all
safety properties of `operators` but `TenantPartsApart`.

What is left, in this order:

1. `TenantPartsApart`, part by part: the domains with `lcp` as a recursive function, for
   which `NatSetInduction` serves; names, by the words they begin and end with.
2. Lifecycle without liveness: what a worker took for its own has an owner that is
   gone or is its own, as an invariant that `OwnObjectsInTheEnd` rests on.
3. The hazards no property covers, each with a note in `PROJECT.json`: a run for the
   second NineCluster whose metastore replicas Kyuubi's worker waits for; a mysql entry
   and a ZooKeeper without its feature, whose clients wait for ever; locks that share a
   name; a user row that keeps an older password; users that outlast their context.
