-------------------------------- MODULE Kube --------------------------------
(***************************************************************************)
(* The state the controller's workers share, and the calls they make on    *)
(* it: the API server's objects, the manager's cache of them, the services *)
(* other operators bring up, what the workers write into those services,   *)
(* and the controller process itself.                                      *)
(*                                                                         *)
(* A worker is named <<r, i>>: it serves entry i of the filled ClusterSet  *)
(* of Reconcile r.  Its program counter names the call it makes next.      *)
(* Work between two calls touches nothing shared and belongs to the call   *)
(* it follows; a loop that polls for a condition is a step guarded by it.  *)
(***************************************************************************)
EXTENDS NineTypes

CONSTANTS
  Keys,           \* NineClusters, by namespaced name
  NamespaceOf,    \* NamespaceOf[k]: the namespace of k
  Specs,          \* Specs[k]: the specs a user may give k
  MaxReconciles,  \* bound: Reconciles in a behaviour
  MaxEntries,     \* bound: entries of a filled ClusterSet
  MaxUpdates,     \* bound: edits of NineClusters
  MaxResyncs,     \* bound: periodic resyncs of the cache
  MaxFails,       \* bound: API calls that return an error and waits that expire
  MaxCrashes,     \* bound: restarts of the controller
  None            \* no NineCluster, no worker

Runs    == 1 .. MaxReconciles
Workers == Runs \X (1 .. MaxEntries)

(* The objects the controller creates for a NineCluster.                   *)
Secrets == {"pgUserSecret", "pgSuperSecret", "minioConfigSecret", "minioUserSecret"}
Kinds   == Secrets \cup {"pg", "tenant", "zookeeper", "hdfs", "doris", "metastore", "kyuubi"}

(* What operators bring up once the object that asks for it exists.        *)
Services == {"pg", "minio", "zookeeper", "hdfs", "metastore"}

(* What workers write into the services of a NineCluster.                  *)
Items == {"sqlDatabase", "usersTable", "userRow", "bucket", "folder", "dataDir"}

(* The systems an object's spec refers to.                                 *)
Refs == {"database", "minio", "hdfs", "zookeeper", "metastore", "jdbc", "spark"}

VARIABLES
  nine,    \* nine[k]: the NineCluster, [gen, spec]; gen 0 before it is created
  objs,    \* objs[k][kind]: the object created for k; gen 0 if there is none
  live,    \* <<k, s>>: service s of k answers, as the cache shows it
  items,   \* <<k, d>>: item d has been written into a service of k
  queue,   \* the controller's work queue
  begun,   \* Reconciles begun
  run,     \* run[r]: the copy of the NineCluster Reconcile r works on
  pc,      \* pc[w]: the call worker w makes next
  local,   \* local[w]: what w has read: MinIO endpoint and keys, replicas
  MetastoreReplicas, \* the package variable of metastore.go
  used     \* how much of each bound the behaviour has used

vars == <<nine, objs, live, items, queue, begun, run, pc, local,
          MetastoreReplicas, used>>

-----------------------------------------------------------------------------
NoSpec  == [type |-> "", features |-> <<>>, clusterSet |-> <<>>]
NoRun   == [key |-> None, gen |-> 0, spec |-> NoSpec]
NoLocal == [endpoint |-> None, cred |-> None, replicas |-> 0]
Missing == [gen |-> 0, life |-> 0, replicas |-> 0, endpoint |-> None, cred |-> None,
            refs |-> {}]

KeyOf(w)    == run[w[1]].key
SpecOf(w)   == run[w[1]].spec
EntryOf(w)  == SpecOf(w).clusterSet[w[2]]
TypeOf(w)   == EntryOf(w).type
SameTarget(v, w) == KeyOf(v) = KeyOf(w) /\ TypeOf(v) = TypeOf(w)

Exists(k, kind) == objs[k][kind].gen # 0
Live(k, s)      == <<k, s>> \in live
Has(k, d)       == <<k, d>> \in items

(* An object made from w's copy of the NineCluster, in this life of the    *)
(* controller process, that keeps nothing else a property needs.           *)
Body(w) == [Missing EXCEPT !.gen = run[w[1]].gen, !.life = used.crashes]

-----------------------------------------------------------------------------
(* The calls of a worker.                                                  *)

Goto(w, here, next) == pc[w] = here /\ pc' = [pc EXCEPT ![w] = next]

(* What no call of a worker changes.                                       *)
Outside == <<nine, live, queue, begun, run>>

(* A Get that goes to the API server.                                      *)
GetObject(w, here, kind, found, missing) ==
  /\ Goto(w, here, IF Exists(KeyOf(w), kind) THEN found ELSE missing)
  /\ UNCHANGED <<Outside, objs, items, local, MetastoreReplicas, used>>

(* A Get through the manager's cache.  The cache was read when the process *)
(* started and lags behind since: it may miss what was created in this     *)
(* life of the process.                                                    *)
GetCached(w, here, kind, found, missing) ==
  LET o == objs[KeyOf(w)][kind]
  IN  /\ \/ Goto(w, here, found) /\ o.gen # 0
         \/ Goto(w, here, missing) /\ (o.gen = 0 \/ o.life = used.crashes)
      /\ UNCHANGED <<Outside, objs, items, local, MetastoreReplicas, used>>

\* A Create that replaces what is there.
CreateObjectApply(w, here, kind, body, next, exists) ==
  /\ Goto(w, here, next)
  /\ objs' = [objs EXCEPT ![KeyOf(w)][kind] = body]
  /\ UNCHANGED <<Outside, items, local, MetastoreReplicas, used>>

(* A Create.  exists is where AlreadyExists leads.                         *)
CreateObject(w, here, kind, body, next, exists) ==
  LET k == KeyOf(w)
  IN  /\ Goto(w, here, IF Exists(k, kind) THEN exists ELSE next)
      /\ objs' = IF Exists(k, kind) THEN objs ELSE [objs EXCEPT ![k][kind] = body]
      /\ UNCHANGED <<Outside, items, local, MetastoreReplicas, used>>

(* A write into a service of k that answers; next to be done after.        *)
WriteItem(w, here, s, d, next) ==
  /\ Goto(w, here, next)
  /\ Live(KeyOf(w), s)
  /\ items' = items \cup {<<KeyOf(w), d>>}
  /\ UNCHANGED <<Outside, objs, local, MetastoreReplicas, used>>

(* A loop that polls until ready.                                          *)
WaitFor(w, here, ready, next) ==
  /\ Goto(w, here, next)
  /\ ready
  /\ UNCHANGED <<Outside, objs, items, local, MetastoreReplicas, used>>

(* The call at one of the places in from returns an error.                 *)
CallFails(w, from, next) ==
  /\ used.fails < MaxFails
  /\ pc[w] \in from
  /\ pc' = [pc EXCEPT ![w] = next]
  /\ used' = [used EXCEPT !.fails = @ + 1]
  /\ UNCHANGED <<Outside, objs, items, local, MetastoreReplicas>>

(* A Create whose answer is lost: the object is there, the caller sees an  *)
(* error.                                                                  *)
CreateUnanswered(w, here, kind, body, next) ==
  /\ used.fails < MaxFails
  /\ Goto(w, here, next)
  /\ ~ Exists(KeyOf(w), kind)
  /\ objs' = [objs EXCEPT ![KeyOf(w)][kind] = body]
  /\ used' = [used EXCEPT !.fails = @ + 1]
  /\ UNCHANGED <<Outside, items, local, MetastoreReplicas>>
=============================================================================
