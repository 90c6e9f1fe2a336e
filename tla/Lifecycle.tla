----------------------------- MODULE Lifecycle ------------------------------
(***************************************************************************)
(* A NineCluster is deleted, and one of the same name created, while       *)
(* workers for the deleted one still run; and two managers reconcile at    *)
(* the same time, as they may where they are started without               *)
(* --leader-elect, which is off by default.  (The manifests in config/     *)
(* turn it on, and the chart runs one replica with the strategy Recreate.) *)
(* NineInfra has neither.                                                  *)
(*                                                                         *)
(* There is one name.  A NineCluster is known by its uid, and what a       *)
(* worker creates carries the uid of the copy the worker was given, the    *)
(* owner reference set by SetControllerReference.                          *)
(***************************************************************************)
EXTENDS Naturals, Sequences, FiniteSets

CONSTANTS
  Managers,    \* the manager processes
  Types,       \* the entry types with a worker
  MaxOverlap,  \* bound: workers of one type a manager runs at a time
  MaxUid,      \* bound: NineClusters created under the name
  MaxCrashes   \* bound: restarts of managers

ASSUME LifecycleAssumption ==
  /\ Types \subseteq {"minio", "database", "zookeeper"}
  /\ MaxOverlap \in Nat \ {0} /\ MaxUid \in Nat /\ MaxCrashes \in Nat

(* What the worker of an entry type creates, in this order.                *)
Chain(t) ==
  CASE t = "minio"     -> <<"minioConfigSecret", "minioUserSecret", "tenant">>
    [] t = "database"  -> <<"pgUserSecret", "pgSuperSecret", "pg">>
    [] t = "zookeeper" -> <<"zookeeper">>

Kinds == UNION {{Chain(t)[i] : i \in DOMAIN Chain(t)} : t \in Types}

(* Secrets are looked for through the manager's cache, the other objects   *)
(* through clients of their own.                                           *)
Cached == Kinds \ {"tenant", "pg", "zookeeper"}

Slots == Managers \X Types \X (1 .. MaxOverlap)
Uids  == 0 .. MaxUid          \* 0: there is none
Nobody == MaxUid + 1           \* owns what has no owner reference
Free  == [pc |-> "free", uid |-> 0, at |-> 1]

VARIABLES
  nine,     \* the uid of the NineCluster, 0 if there is none
  born,     \* NineClusters created so far
  objs,     \* objs[kind]: the owner of the object, 0 if there is none
  cache,    \* cache[m]: what manager m's cache shows, [nine, objs]
  queued,   \* the managers whose queue holds the name
  worker,   \* worker[s]: the worker in slot s: next call, uid of its copy, place in its chain
  crashes   \* restarts so far

vars == <<nine, born, objs, cache, queued, worker, crashes>>

Init ==
  /\ nine = 0 /\ born = 0 /\ crashes = 0
  /\ objs = [kind \in Kinds |-> 0]
  /\ cache = [m \in Managers |-> [nine |-> 0, objs |-> [kind \in Cached |-> 0]]]
  /\ queued = {}
  /\ worker = [s \in Slots |-> Free]

-----------------------------------------------------------------------------
(* The user.                                                               *)
Create ==
  /\ nine = 0 /\ born < MaxUid
  /\ nine' = born + 1 /\ born' = born + 1
  /\ UNCHANGED <<objs, cache, queued, worker, crashes>>

Delete ==
  /\ nine # 0
  /\ nine' = 0
  /\ UNCHANGED <<born, objs, cache, queued, worker, crashes>>

(* Kubernetes deletes an object whose owner is gone.                       *)
Collect(kind) ==
  /\ objs[kind] \in 1 .. MaxUid /\ objs[kind] # nine
  /\ objs' = [objs EXCEPT ![kind] = 0]
  /\ UNCHANGED <<nine, born, cache, queued, worker, crashes>>

-----------------------------------------------------------------------------
(* The caches follow, each kind on its own, and the watch queues the name. *)
WatchNine(m) ==
  /\ cache[m].nine # nine
  /\ cache' = [cache EXCEPT ![m].nine = nine]
  /\ queued' = queued \cup {m}
  /\ UNCHANGED <<nine, born, objs, worker, crashes>>

WatchObject(m, kind) ==
  /\ cache[m].objs[kind] # objs[kind]
  /\ cache' = [cache EXCEPT ![m].objs[kind] = objs[kind]]
  /\ UNCHANGED <<nine, born, objs, queued, worker, crashes>>

(* The periodic resync of the cache.                                       *)
Resync(m) ==
  /\ cache[m].nine # 0 /\ m \notin queued
  /\ queued' = queued \cup {m}
  /\ UNCHANGED <<nine, born, objs, cache, worker, crashes>>

FreeSlot(m, t) == CHOOSE n \in 1 .. MaxOverlap : worker[<<m, t, n>>] = Free

(* Reconcile of the NineCluster in the cache: a worker per entry.  For one *)
(* that is not there it returns NotFound, an error: the name stays queued. *)
Reconcile(m) ==
  /\ m \in queued
  /\ cache[m].nine # 0
  /\ \A t \in Types : \E n \in 1 .. MaxOverlap : worker[<<m, t, n>>] = Free
  /\ queued' = queued \ {m}
  /\ worker' = [s \in Slots |->
       IF s[1] = m /\ s[3] = FreeSlot(m, s[2])
       THEN [pc |-> "get", uid |-> cache[m].nine, at |-> 1] ELSE worker[s]]
  /\ UNCHANGED <<nine, born, objs, cache, crashes>>

-----------------------------------------------------------------------------
KindAt(s) == Chain(s[2])[worker[s].at]

\* One object too many.
LastPlusOne(s) == worker[s].at > Len(Chain(s[2]))
Last(s) == worker[s].at = Len(Chain(s[2]))

\* The object belongs to nobody.
OwnerNone(s) == Nobody

(* ctrl.SetControllerReference: the copy the worker was given owns it.     *)
Owner(s) == worker[s].uid

(* An object is there: on to the next, or success.                         *)
Advance(s) ==
  worker' = IF Last(s) THEN [worker EXCEPT ![s] = Free]
            ELSE [worker EXCEPT ![s].pc = "get", ![s].at = @ + 1]

\* A worker that finds its first object takes the rest for done.
GetAllOrNothing(s) ==
  LET kind  == KindAt(s)
      there == IF kind \in Cached THEN cache[s[1]].objs[kind] # 0 ELSE objs[kind] # 0
  IN  /\ worker[s].pc = "get"
      /\ worker' = [worker EXCEPT ![s] = IF there THEN Free ELSE [@ EXCEPT !.pc = "create"]]
      /\ UNCHANGED <<nine, born, objs, cache, queued, crashes>>

(* Whoever owns the object, one that is found is taken for what is needed. *)
Get(s) ==
  LET kind  == KindAt(s)
      there == IF kind \in Cached THEN cache[s[1]].objs[kind] # 0 ELSE objs[kind] # 0
  IN  /\ worker[s].pc = "get"
      /\ IF there THEN Advance(s)
         ELSE worker' = [worker EXCEPT ![s].pc = "create"]
      /\ UNCHANGED <<nine, born, objs, cache, queued, crashes>>

(* AlreadyExists for a secret is success to PostgreSQL's worker and a nil  *)
(* Tenant, which still has to be looked for, to MinIO's.  For any other    *)
(* object it ends the worker.                                              *)
AlreadyExists(s) ==
  CASE KindAt(s) \in {"pgUserSecret", "pgSuperSecret"} -> Advance(s)
    [] KindAt(s) \in {"minioConfigSecret", "minioUserSecret"} ->
         worker' = [worker EXCEPT ![s].pc = "getNil", ![s].at = Len(Chain(s[2]))]
    [] OTHER -> worker' = [worker EXCEPT ![s] = Free]

CreateObject(s) ==
  LET kind == KindAt(s)
  IN  /\ worker[s].pc = "create"
      /\ \/ objs[kind] = 0 /\ objs' = [objs EXCEPT ![kind] = Owner(s)] /\ Advance(s)
         \/ objs[kind] # 0 /\ AlreadyExists(s) /\ UNCHANGED objs
      /\ UNCHANGED <<nine, born, cache, queued, crashes>>

(* A nil Tenant cannot be created; one that is there is a success.         *)
GetNil(s) ==
  /\ worker[s].pc = "getNil"
  /\ \/ objs[KindAt(s)] # 0 /\ Advance(s)
     \/ objs[KindAt(s)] = 0 /\ worker' = [worker EXCEPT ![s] = Free]
  /\ UNCHANGED <<nine, born, objs, cache, queued, crashes>>

Step(s) == Get(s) \/ CreateObject(s) \/ GetNil(s)

(* A manager restarts: its workers are gone, its cache is read anew.       *)
Restart(m) ==
  /\ crashes < MaxCrashes
  /\ crashes' = crashes + 1
  /\ worker' = [s \in Slots |-> IF s[1] = m THEN Free ELSE worker[s]]
  /\ cache' = [cache EXCEPT ![m] = [nine |-> nine, objs |-> [kind \in Cached |-> objs[kind]]]]
  /\ queued' = IF nine # 0 THEN queued \cup {m} ELSE queued \ {m}
  /\ UNCHANGED <<nine, born, objs>>

Next ==
  \/ Create \/ Delete
  \/ \E kind \in Kinds : Collect(kind)
  \/ \E m \in Managers : WatchNine(m) \/ Resync(m) \/ Reconcile(m) \/ Restart(m)
  \/ \E m \in Managers : \E kind \in Cached : WatchObject(m, kind)
  \/ \E s \in Slots : Step(s)

(* Nothing is assumed of the user and of restarts.                         *)
Fairness ==
  /\ \A kind \in Kinds : WF_vars(Collect(kind))
  /\ \A m \in Managers : WF_vars(WatchNine(m)) /\ WF_vars(Resync(m)) /\ WF_vars(Reconcile(m))
  /\ \A m \in Managers : \A kind \in Cached : WF_vars(WatchObject(m, kind))
  /\ \A s \in Slots : WF_vars(Step(s))

Spec == Init /\ [][Next]_vars /\ Fairness

-----------------------------------------------------------------------------
\* Every variable has its type, and nothing is owned by what has not been born.
TypeOK ==
  /\ nine \in {0, born} /\ born \in Uids /\ crashes \in 0 .. MaxCrashes
  /\ objs \in [Kinds -> 0 .. born \cup {Nobody}]
  /\ \A m \in Managers : cache[m].nine <= born /\ cache[m].objs \in [Cached -> 0 .. born \cup {Nobody}]
  /\ queued \subseteq Managers
  /\ \A s \in Slots : worker[s] # Free =>
       worker[s].uid \in 1 .. born /\ worker[s].at \in DOMAIN Chain(s[2])

\* After a NineCluster has been deleted for good nothing of it is left, although
\* workers that do not know of the deletion go on creating objects for it, and
\* managers with an old cache start more of them.
NothingLeft == <>[](nine = 0) => <>[](\A kind \in Kinds : objs[kind] = 0)

\* A NineCluster that stays ends up with objects of its own, all of them, however
\* many of the same name were deleted before it: workers take the objects of the
\* deleted ones for theirs, but those are collected and the resync starts over.
OwnObjectsInTheEnd == <>[](nine # 0) => <>[](\A kind \in Kinds : objs[kind] = nine)
=============================================================================
