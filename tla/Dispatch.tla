------------------------------ MODULE Dispatch ------------------------------
(***************************************************************************)
(* How one Reconcile of a NineCluster hands the entries of its ClusterSet  *)
(* to goroutines (internal/controller/ninecluster_controller.go).          *)
(*                                                                         *)
(* renconcileDataHouse walks the ClusterSet.  For each entry it fetches    *)
(* the mutex registered under the entry's unique name and starts a         *)
(* ROUTINE: a goroutine that gives up if TryLock fails and otherwise       *)
(* starts a WORKER, a second goroutine that does the work, and unlocks     *)
(* the mutex when it returns, which it does without waiting for the        *)
(* worker.  Reconcile itself is called by one controller thread            *)
(* (MaxConcurrentReconciles is left at 1) and returns as soon as the       *)
(* routines are started, so routines and workers of several Reconciles     *)
(* overlap.                                                                *)
(*                                                                         *)
(* A routine is named <<r, i>>: entry i of the ClusterSet in Reconcile r.  *)
(* The mutex objects are named after the routine they were allocated for.  *)
(***************************************************************************)
EXTENDS Naturals, Sequences

CONSTANTS
  Clusters,       \* the NineClusters: records [ns, name], each of the two a
                  \* sequence of the segments its dashes separate
  ClusterSet,     \* types of the entries of the filled ClusterSet, in order
  MaxReconciles,  \* bound: Reconciles in a behaviour
  None            \* no cluster, no mutex, no holder

ASSUME DispatchAssumption ==
  /\ \A c \in Clusters : c.ns \in Seq(STRING) /\ c.name \in Seq(STRING)
  /\ ClusterSet \in Seq(STRING)
  /\ MaxReconciles \in Nat
  /\ None \notin Clusters \cup (Nat \X Nat)

Runs     == 1 .. MaxReconciles
Entries  == 1 .. Len(ClusterSet)
Routines == Runs \X Entries

VARIABLES
  key,      \* key[r]: the NineCluster Reconcile r was called for, or None
  begun,    \* Reconciles begun
  visited,  \* entries the loop of the last Reconcile has visited
  clusterReconcileLocks, \* unique name -> mutex object (map entries made)
  mutex,    \* mutex[w]: the mutex object routine w was given, or None
  holder,   \* holder[m]: the routine that holds mutex object m, or None
  routine,  \* where each routine is
  worker    \* where the worker each routine starts is

vars == <<key, begun, visited, clusterReconcileLocks, mutex, holder,
          routine, worker>>

-----------------------------------------------------------------------------
(* fmt.Sprintf("%s-%s-%s-%s", "nineinfra", Namespace, Name, clusterType):  *)
(* the segments run together, what separates namespace from name is lost.  *)
GenUniqueName4Cluster(c, t) == c.ns \o c.name \o <<t>>

UniqueNames ==
  {GenUniqueName4Cluster(c, ClusterSet[i]) : c \in Clusters, i \in Entries}

ClusterOf(w) == key[w[1]]
TypeOf(w)    == ClusterSet[w[2]]

\* Two routines that serve the same entry type of the same NineCluster.
SameTarget(v, w) == ClusterOf(v) = ClusterOf(w) /\ TypeOf(v) = TypeOf(w)

Init ==
  /\ key = [r \in Runs |-> None]
  /\ begun = 0
  /\ visited = Len(ClusterSet)
  /\ clusterReconcileLocks = [n \in UniqueNames |-> None]
  /\ mutex = [w \in Routines |-> None]
  /\ holder = [w \in Routines |-> None]
  /\ routine = [w \in Routines |-> "idle"]
  /\ worker = [w \in Routines |-> "idle"]

-----------------------------------------------------------------------------
(* Reconcile is entered for cluster c and reaches the loop over the        *)
(* ClusterSet.  The previous Reconcile has returned.                       *)
Reconcile(c) ==
  /\ visited = Len(ClusterSet)
  /\ begun < MaxReconciles
  /\ begun' = begun + 1
  /\ key' = [key EXCEPT ![begun + 1] = c]
  /\ visited' = 0
  /\ UNCHANGED <<clusterReconcileLocks, mutex, holder, routine, worker>>

\* Always a new mutex object, as if the test of the map were left out.
getUniqueClusterLockFresh(w, n) ==
  /\ clusterReconcileLocks' = [clusterReconcileLocks EXCEPT ![n] = w]
  /\ mutex' = [mutex EXCEPT ![w] = w]

\* The map read before the mutex is registered: nil for a new name.
getUniqueClusterLockNil(w, n) ==
  /\ clusterReconcileLocks' = [clusterReconcileLocks EXCEPT ![n] = w]
  /\ mutex' = [mutex EXCEPT ![w] = clusterReconcileLocks[n]]

(* getUniqueClusterLock: the mutex registered under the entry's name,      *)
(* registered first if there is none.  locksMutex makes it atomic.         *)
getUniqueClusterLock(w, n) ==
  LET m == IF clusterReconcileLocks[n] = None THEN w
                                              ELSE clusterReconcileLocks[n]
  IN  /\ clusterReconcileLocks' = [clusterReconcileLocks EXCEPT ![n] = m]
      /\ mutex' = [mutex EXCEPT ![w] = m]

(* reconcileCluster for the next entry: fetch its lock, start the routine. *)
ReconcileCluster ==
  /\ visited < Len(ClusterSet)
  /\ LET w == <<begun, visited + 1>>
     IN  /\ getUniqueClusterLock(w, GenUniqueName4Cluster(ClusterOf(w), TypeOf(w)))
         /\ routine' = [routine EXCEPT ![w] = "spawned"]
  /\ visited' = visited + 1
  /\ UNCHANGED <<key, begun, holder, worker>>

\* A TryLock that fails although the mutex is free.
TryLockSpurious(w) ==
  /\ routine[w] = "spawned"
  /\ routine' = [routine EXCEPT ![w] = "skipped"]
  /\ UNCHANGED <<key, begun, visited, clusterReconcileLocks, mutex, holder, worker>>

(* TryLock: go on with the mutex, or log "is under reconciling now" and    *)
(* return.                                                                 *)
TryLock(w) ==
  /\ routine[w] = "spawned"
  /\ \/ /\ holder[mutex[w]] = None
        /\ holder' = [holder EXCEPT ![mutex[w]] = w]
        /\ routine' = [routine EXCEPT ![w] = "locked"]
     \/ /\ holder[mutex[w]] # None
        /\ routine' = [routine EXCEPT ![w] = "skipped"]
        /\ UNCHANGED holder
  /\ UNCHANGED <<key, begun, visited, clusterReconcileLocks, mutex, worker>>

(* The switch on clus.Type: the goroutine of the worker is started.        *)
StartWorker(w) ==
  /\ routine[w] = "locked"
  /\ routine' = [routine EXCEPT ![w] = "returning"]
  /\ worker' = [worker EXCEPT ![w] = "running"]
  /\ UNCHANGED <<key, begun, visited, clusterReconcileLocks, mutex, holder>>

\* The routine returns without its deferred call.
UnlockForgotten(w) ==
  /\ routine[w] = "returning"
  /\ routine' = [routine EXCEPT ![w] = "returned"]
  /\ UNCHANGED <<key, begun, visited, clusterReconcileLocks, mutex, holder, worker>>

(* The deferred mutex.Unlock, when the routine returns.                    *)
Unlock(w) ==
  /\ routine[w] = "returning"
  /\ holder' = [holder EXCEPT ![mutex[w]] = None]
  /\ routine' = [routine EXCEPT ![w] = "returned"]
  /\ UNCHANGED <<key, begun, visited, clusterReconcileLocks, mutex, worker>>

(* The worker's reconcile function returns, with or without an error: an   *)
(* error is logged and nothing else.                                       *)
WorkerEnds(w) ==
  /\ worker[w] = "running"
  /\ worker' = [worker EXCEPT ![w] = "ended"]
  /\ UNCHANGED <<key, begun, visited, clusterReconcileLocks, mutex, holder, routine>>

(* Nothing left to do until the next event.                                *)
Quiet ==
  /\ begun = MaxReconciles /\ visited = Len(ClusterSet)
  /\ \A w \in Routines : /\ routine[w] \in {"idle", "skipped", "returned"}
                         /\ worker[w] # "running"
  /\ UNCHANGED vars

RoutineStep(w) == TryLock(w) \/ StartWorker(w) \/ Unlock(w) \/ WorkerEnds(w)

Next ==
  \/ \E c \in Clusters : Reconcile(c)
  \/ ReconcileCluster
  \/ \E w \in Routines : RoutineStep(w)
  \/ Quiet

(* Goroutines are scheduled: a routine or a worker that can run does.      *)
Fairness ==
  /\ WF_vars(ReconcileCluster)
  /\ \A w \in Routines : WF_vars(RoutineStep(w))

Spec == Init /\ [][Next]_vars /\ Fairness

-----------------------------------------------------------------------------
\* Every variable has its type, and no routine is handed a nil mutex.
TypeOK ==
  /\ key \in [Runs -> Clusters \cup {None}]
  /\ begun \in 0 .. MaxReconciles
  /\ visited \in 0 .. Len(ClusterSet)
  /\ clusterReconcileLocks \in [UniqueNames -> Routines \cup {None}]
  /\ mutex \in [Routines -> Routines \cup {None}]
  /\ holder \in [Routines -> Routines \cup {None}]
  /\ routine \in [Routines -> {"idle", "spawned", "locked", "returning",
                               "returned", "skipped"}]
  /\ worker \in [Routines -> {"idle", "running", "ended"}]
  /\ \A w \in Routines : routine[w] # "idle" => mutex[w] # None

InLock(w) == routine[w] \in {"locked", "returning"}

\* At most one routine per entry type of a NineCluster is between TryLock and
\* Unlock, however many Reconciles overlap: the mutex does guard the part of
\* reconcileRoutine it spans.
LockExclusive ==
  \A v, w \in Routines :
    InLock(v) /\ InLock(w) /\ SameTarget(v, w) => v = w

\* At most one worker per entry type of a NineCluster runs at a time.  This is
\* what the log line "Cluster:%s of %s in %s is under reconciling now" of a
\* routine that gives up says: it leaves because the other one is at work.
OneWorkerAtATime ==
  \A v, w \in Routines :
    /\ worker[v] = "running" /\ worker[w] = "running"
    /\ SameTarget(v, w)
    => v = w

\* A routine gives up only while a routine for the same entry type of the same
\* NineCluster holds the mutex, the one the log line "is under reconciling now"
\* names.
SkippedOnlyForSelf ==
  [][\A w \in Routines :
       routine[w] = "spawned" /\ routine'[w] = "skipped"
       => \E v \in Routines \ {w} : InLock(v) /\ SameTarget(v, w)]_vars

\* No entry is forgotten: once a routine is started for an entry type of a
\* NineCluster, a worker for that type of that NineCluster is running or has
\* run, although the routine itself may have given up.
NoTypeStarves ==
  \A w \in Routines :
    routine[w] = "spawned" ~>
      \E v \in Routines : SameTarget(v, w) /\ worker[v] # "idle"

\* A routine that took the mutex gives it back: later Reconciles are not shut
\* out for good.
LockReleased ==
  \A w \in Routines : InLock(w) ~> \A m \in Routines : holder[m] # w

-----------------------------------------------------------------------------
(* A goroutine has decided once TryLock has returned.                      *)
Phase(w) ==
  CASE routine[w] = "idle"    -> "idle"
    [] routine[w] = "spawned" -> "pending"
    [] routine[w] = "skipped" -> "skipped"
    [] OTHER                  -> "started"

Contract == INSTANCE DispatchContract WITH
  Workers <- Routines,
  Targets <- Clusters \X {ClusterSet[i] : i \in Entries},
  phase   <- [w \in Routines |-> Phase(w)],
  target  <- [w \in Routines |-> IF routine[w] = "idle" THEN None
                                 ELSE <<ClusterOf(w), TypeOf(w)>>]

\* reconcileCluster and reconcileRoutine implement the contract the rest of the
\* operator builds on: every routine decides, and leaves its entry alone only
\* after another one has taken the same entry type of the same NineCluster on.
ImplementsContract == Contract!Spec

\* The safety part of ImplementsContract.
ImplementsSafely == Contract!Safety
=============================================================================
