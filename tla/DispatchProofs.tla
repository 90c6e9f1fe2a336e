--------------------------- MODULE DispatchProofs ---------------------------
(***************************************************************************)
(* TLAPS proofs about Dispatch, for any set of NineClusters, any           *)
(* ClusterSet and any number of Reconciles.                                *)
(***************************************************************************)
EXTENDS Dispatch, TLAPS

\* The loop of w's Reconcile has visited w's entry.
Visited(w) == w[1] < begun \/ (w[1] = begun /\ w[2] <= visited)

NameOf(w) == GenUniqueName4Cluster(ClusterOf(w), TypeOf(w))

\* The Reconciles begun have a NineCluster, and there is one to walk for.
KeysKnown ==
  /\ \A r \in Runs : r <= begun => key[r] \in Clusters
  /\ visited < Len(ClusterSet) => begun \in Runs

\* A routine was started by the loop that visited its entry and keeps the mutex registered under
\* its name; a mutex registered was allocated for a routine of that name.
LocksRegistered ==
  /\ \A w \in Routines : routine[w] # "idle" =>
        /\ Visited(w)
        /\ mutex[w] = clusterReconcileLocks[NameOf(w)]
        /\ mutex[w] \in Routines
  /\ \A n \in UniqueNames : clusterReconcileLocks[n] # None =>
        /\ routine[clusterReconcileLocks[n]] # "idle"
        /\ NameOf(clusterReconcileLocks[n]) = n

\* A routine is between TryLock and Unlock iff it holds its mutex.
HolderInLock ==
  /\ \A w \in Routines : InLock(w) => holder[mutex[w]] = w
  /\ \A m \in Routines : holder[m] # None =>
        InLock(holder[m]) /\ mutex[holder[m]] = m

Inv == TypeOK /\ KeysKnown /\ LocksRegistered /\ HolderInLock

-----------------------------------------------------------------------------
LEMMA NoneFresh == None \notin Routines /\ None \notin Clusters
  BY DispatchAssumption DEF Routines, Runs, Entries

LEMMA NameInUniqueNames ==
  ASSUME NEW c \in Clusters, NEW i \in Entries
  PROVE  GenUniqueName4Cluster(c, ClusterSet[i]) \in UniqueNames
  BY DEF UniqueNames

\* What is known of a routine once it is started.
LEMMA StartedFacts ==
  ASSUME Inv, NEW w \in Routines, routine[w] # "idle"
  PROVE  /\ w[1] \in Runs /\ w[2] \in Entries
         /\ w[1] <= begun
         /\ ClusterOf(w) \in Clusters
         /\ NameOf(w) \in UniqueNames
<1>1. w[1] \in Runs /\ w[2] \in Entries
  BY DEF Routines
<1>2. Visited(w)
  BY DEF Inv, LocksRegistered
<1>3. w[1] <= begun
  BY <1>1, <1>2, DispatchAssumption DEF Inv, TypeOK, Visited, Runs
<1>4. ClusterOf(w) \in Clusters
  BY <1>1, <1>3 DEF Inv, KeysKnown, ClusterOf
<1> QED
  BY <1>1, <1>3, <1>4, NameInUniqueNames DEF NameOf, TypeOf

LEMMA InitInv == Init => Inv
  BY NoneFresh, DispatchAssumption
  DEF Init, Inv, TypeOK, KeysKnown, LocksRegistered, HolderInLock, InLock, Visited, Runs, Entries

LEMMA ReconcileInv ==
  ASSUME Inv, NEW c \in Clusters, Reconcile(c)
  PROVE  Inv'
<1> USE DispatchAssumption DEF Runs, Entries
<1>0. \A w \in Routines : w[1] \in Runs /\ w[2] \in Entries
  BY DEF Routines
<1>1. \A w \in Routines : routine[w] # "idle" => NameOf(w)' = NameOf(w)
  <2> TAKE w \in Routines
  <2> HAVE routine[w] # "idle"
  <2>1. w[1] \in Runs /\ w[1] <= begun
    BY StartedFacts
  <2>2. key'[w[1]] = key[w[1]]
    BY <2>1 DEF Inv, TypeOK, Reconcile
  <2> QED
    BY <2>2 DEF NameOf, ClusterOf, TypeOf
<1>2. TypeOK' /\ KeysKnown'
  BY DEF Inv, TypeOK, KeysKnown, Reconcile
<1>3. LocksRegistered'
  <2>1. \A w \in Routines : routine'[w] # "idle" =>
           /\ Visited(w)' /\ mutex'[w] = clusterReconcileLocks'[NameOf(w)']
           /\ mutex'[w] \in Routines
    <3> SUFFICES ASSUME NEW w \in Routines, routine'[w] # "idle"
                 PROVE  /\ Visited(w)'
                        /\ mutex'[w] = clusterReconcileLocks'[NameOf(w)']
                        /\ mutex'[w] \in Routines
      OBVIOUS
    <3>1. routine[w] # "idle" /\ w[1] \in Runs /\ w[1] <= begun
      BY StartedFacts DEF Reconcile
    <3>2. Visited(w)'
      BY <3>1 DEF Inv, TypeOK, Reconcile, Visited
    <3> QED
      BY <3>1, <3>2, <1>1 DEF Inv, LocksRegistered, Reconcile
  <2>2. \A n \in UniqueNames : clusterReconcileLocks'[n] # None =>
           /\ routine'[clusterReconcileLocks'[n]] # "idle"
           /\ NameOf(clusterReconcileLocks[n])' = n
    <3> TAKE n \in UniqueNames
    <3>1. clusterReconcileLocks[n] # None => clusterReconcileLocks[n] \in Routines
      BY DEF Inv, TypeOK
    <3> QED
      BY <3>1, <1>1 DEF Inv, LocksRegistered, Reconcile
  <2> QED
    BY <2>1, <2>2 DEF LocksRegistered
<1>4. HolderInLock'
  BY DEF Inv, HolderInLock, InLock, Reconcile
<1> QED
  BY <1>2, <1>3, <1>4 DEF Inv

LEMMA ReconcileClusterInv ==
  ASSUME Inv, ReconcileCluster
  PROVE  Inv'
<1> USE DispatchAssumption, NoneFresh DEF Runs, Entries
<1> DEFINE w0 == <<begun, visited + 1>>
<1> DEFINE n0 == NameOf(w0)
<1> DEFINE m0 == IF clusterReconcileLocks[n0] = None THEN w0
                                                     ELSE clusterReconcileLocks[n0]
<1>1. w0 \in Routines /\ w0[1] = begun /\ w0[2] = visited + 1
  BY DEF Inv, TypeOK, KeysKnown, ReconcileCluster, Routines
<1>2. n0 \in UniqueNames
  <2>1. begun \in Runs /\ visited + 1 \in Entries /\ key[begun] \in Clusters
    BY DEF Inv, TypeOK, KeysKnown, ReconcileCluster
  <2>2. GenUniqueName4Cluster(key[begun], ClusterSet[visited + 1]) \in UniqueNames
    BY <2>1, NameInUniqueNames
  <2> QED
    BY <1>1, <2>2 DEF NameOf, ClusterOf, TypeOf
<1>3. /\ clusterReconcileLocks' = [clusterReconcileLocks EXCEPT ![n0] = m0]
      /\ mutex' = [mutex EXCEPT ![w0] = m0]
      /\ routine' = [routine EXCEPT ![w0] = "spawned"]
      /\ visited' = visited + 1
      /\ UNCHANGED <<key, begun, holder, worker>>
  BY DEF ReconcileCluster, getUniqueClusterLock, NameOf
<1>4. \A w : NameOf(w)' = NameOf(w)
  BY <1>3 DEF NameOf, ClusterOf, TypeOf
<1>5. m0 \in Routines
  BY <1>1, <1>2 DEF Inv, TypeOK
<1>6. clusterReconcileLocks[n0] # None => NameOf(clusterReconcileLocks[n0]) = n0
  BY <1>2 DEF Inv, LocksRegistered
<1>7. NameOf(m0) = n0
  BY <1>6
<1> HIDE DEF w0, n0, m0
<1>8. TypeOK'
  <2>1. visited' \in 0 .. Len(ClusterSet)
    BY <1>3 DEF Inv, TypeOK, ReconcileCluster
  <2>2. clusterReconcileLocks' \in [UniqueNames -> Routines \cup {None}]
    BY <1>2, <1>3, <1>5 DEF Inv, TypeOK
  <2>3. mutex' \in [Routines -> Routines \cup {None}]
    BY <1>1, <1>3, <1>5 DEF Inv, TypeOK
  <2>4. routine' \in [Routines -> {"idle", "spawned", "locked", "returning",
                                   "returned", "skipped"}]
    BY <1>1, <1>3 DEF Inv, TypeOK
  <2>5. \A w \in Routines : routine'[w] # "idle" => mutex'[w] # None
    BY <1>1, <1>3, <1>5 DEF Inv, TypeOK
  <2> QED
    BY <1>3, <2>1, <2>2, <2>3, <2>4, <2>5 DEF Inv, TypeOK
<1>9. KeysKnown'
  BY <1>3 DEF Inv, TypeOK, KeysKnown, ReconcileCluster
<1>10. LocksRegistered'
  <2>1. \A n \in UniqueNames :
          clusterReconcileLocks[n] # None => clusterReconcileLocks'[n] = clusterReconcileLocks[n]
    BY <1>2, <1>3 DEF Inv, TypeOK, m0
  <2>2. \A w \in Routines : routine[w] # "idle" =>
          NameOf(w) \in UniqueNames
    BY StartedFacts
  <2>3. \A w \in Routines : routine'[w] # "idle" =>
           /\ Visited(w)' /\ mutex'[w] = clusterReconcileLocks'[NameOf(w)]
           /\ mutex'[w] \in Routines
    <3> SUFFICES ASSUME NEW w \in Routines, routine'[w] # "idle"
                 PROVE /\ Visited(w)' /\ mutex'[w] = clusterReconcileLocks'[NameOf(w)]
                       /\ mutex'[w] \in Routines
      OBVIOUS
    <3>1. CASE w = w0
      <4>1. NameOf(w) = n0
        BY <3>1 DEF n0
      <4>2. mutex'[w] = m0 /\ clusterReconcileLocks'[n0] = m0
        BY <3>1, <1>2, <1>3 DEF Inv, TypeOK
      <4>3. Visited(w)'
        BY <3>1, <1>1, <1>3 DEF Inv, TypeOK, Visited
      <4> QED
        BY <4>1, <4>2, <4>3, <1>5
    <3>2. CASE w # w0
      <4>1. w[1] \in Runs /\ w[2] \in Entries
        BY DEF Routines
      <4>2. routine[w] # "idle" /\ mutex'[w] = mutex[w]
        BY <3>2, <1>3 DEF Inv, TypeOK
      <4>3. Visited(w)'
        BY <4>1, <4>2, <1>3 DEF Inv, TypeOK, LocksRegistered, Visited
      <4> QED
        BY <4>2, <4>3, <2>1, <2>2, NoneFresh DEF Inv, LocksRegistered
    <3> QED
      BY <3>1, <3>2
  <2>4. \A n \in UniqueNames : clusterReconcileLocks'[n] # None =>
           /\ routine'[clusterReconcileLocks'[n]] # "idle"
           /\ NameOf(clusterReconcileLocks'[n]) = n
    <3> SUFFICES ASSUME NEW n \in UniqueNames, clusterReconcileLocks'[n] # None
                 PROVE  /\ routine'[clusterReconcileLocks'[n]] # "idle"
                        /\ NameOf(clusterReconcileLocks'[n]) = n
      OBVIOUS
    <3>1. CASE n = n0
      <4>1. clusterReconcileLocks'[n] = m0
        BY <3>1, <1>3 DEF Inv, TypeOK
      <4>2. routine'[m0] # "idle"
        BY <1>1, <1>2, <1>3, <1>5 DEF Inv, TypeOK, LocksRegistered, m0
      <4> QED
        BY <4>1, <4>2, <1>7, <3>1
    <3>2. CASE n # n0
      <4>1. clusterReconcileLocks'[n] = clusterReconcileLocks[n]
        BY <3>2, <1>3 DEF Inv, TypeOK
      <4> QED
        BY <4>1, <1>1, <1>3 DEF Inv, TypeOK, LocksRegistered
    <3> QED
      BY <3>1, <3>2
  <2> QED
    BY <2>3, <2>4, <1>4 DEF LocksRegistered
<1>11. HolderInLock'
  <2>1. routine[w0] = "idle"
    <3>1. ~ Visited(w0)
      BY <1>1 DEF Inv, TypeOK, Visited
    <3> QED
      BY <1>1, <3>1 DEF Inv, LocksRegistered
  <2>2. \A w \in Routines : InLock(w)' = InLock(w)
    BY <2>1, <1>1, <1>3 DEF Inv, TypeOK, InLock
  <2>3. \A w \in Routines : InLock(w) => w # w0 /\ mutex'[w] = mutex[w]
    BY <2>1, <1>3 DEF Inv, TypeOK, InLock
  <2>4. \A m \in Routines : holder[m] # None => holder[m] \in Routines
    BY DEF Inv, TypeOK
  <2> QED
    BY <2>2, <2>3, <2>4, <1>3 DEF Inv, HolderInLock
<1> QED
  BY <1>8, <1>9, <1>10, <1>11 DEF Inv

LEMMA TryLockInv ==
  ASSUME Inv, NEW w \in Routines, TryLock(w)
  PROVE  Inv'
<1> USE NoneFresh
<1>1. mutex[w] \in Routines
  BY DEF Inv, LocksRegistered, TryLock
<1>2. TypeOK'
  BY <1>1 DEF Inv, TypeOK, TryLock
<1>3. KeysKnown'
  BY DEF Inv, KeysKnown, TryLock
<1>4. LocksRegistered'
  BY DEF Inv, TypeOK, LocksRegistered, TryLock, Visited, NameOf, ClusterOf, TypeOf
<1>5. HolderInLock'
  <2>1. CASE holder[mutex[w]] = None
    <3>1. /\ holder' = [holder EXCEPT ![mutex[w]] = w]
          /\ routine' = [routine EXCEPT ![w] = "locked"]
          /\ mutex' = mutex
      BY <2>1 DEF TryLock
    <3>2. \A v \in Routines : InLock(v)' <=> InLock(v) \/ v = w
      BY <3>1 DEF Inv, TypeOK, InLock
    <3>3. \A v \in Routines : InLock(v) => mutex[v] # mutex[w]
      BY <2>1 DEF Inv, HolderInLock
    <3>4. \A m \in Routines : holder'[m] = IF m = mutex[w] THEN w ELSE holder[m]
      BY <1>1, <3>1 DEF Inv, TypeOK
    <3>5. \A v \in Routines : InLock(v) => mutex[v] \in Routines
      BY DEF Inv, LocksRegistered, InLock
    <3>6. \A m \in Routines : holder[m] # None => holder[m] \in Routines
      BY DEF Inv, TypeOK
    <3>7. \A v \in Routines : InLock(v)' => holder'[mutex'[v]] = v
      BY <1>1, <3>1, <3>2, <3>3, <3>4, <3>5 DEF Inv, HolderInLock
    <3>8. \A m \in Routines : holder'[m] # None =>
            InLock(holder[m])' /\ mutex'[holder'[m]] = m
      BY <1>1, <3>1, <3>2, <3>4, <3>6 DEF Inv, HolderInLock
    <3> QED
      BY <3>7, <3>8 DEF HolderInLock
  <2>2. CASE holder[mutex[w]] # None
    BY <1>1, <2>2 DEF Inv, TypeOK, HolderInLock, InLock, TryLock
  <2> QED
    BY <2>1, <2>2
<1> QED
  BY <1>2, <1>3, <1>4, <1>5 DEF Inv

LEMMA StartWorkerInv ==
  ASSUME Inv, NEW w \in Routines, StartWorker(w)
  PROVE  Inv'
<1>1. TypeOK' /\ KeysKnown'
  BY DEF Inv, TypeOK, KeysKnown, StartWorker
<1>2. LocksRegistered'
  BY NoneFresh DEF Inv, TypeOK, LocksRegistered, StartWorker, Visited, NameOf, ClusterOf, TypeOf
<1>3. HolderInLock'
  BY NoneFresh DEF Inv, TypeOK, HolderInLock, InLock, StartWorker
<1> QED
  BY <1>1, <1>2, <1>3 DEF Inv

LEMMA UnlockInv ==
  ASSUME Inv, NEW w \in Routines, Unlock(w)
  PROVE  Inv'
<1> USE NoneFresh
<1>1. mutex[w] \in Routines /\ holder[mutex[w]] = w
  BY DEF Inv, LocksRegistered, HolderInLock, InLock, Unlock
<1>2. TypeOK' /\ KeysKnown'
  BY <1>1 DEF Inv, TypeOK, KeysKnown, Unlock
<1>3. LocksRegistered'
  BY DEF Inv, TypeOK, LocksRegistered, Unlock, Visited, NameOf, ClusterOf, TypeOf
<1>4. HolderInLock'
  BY <1>1 DEF Inv, TypeOK, HolderInLock, InLock, Unlock
<1> QED
  BY <1>2, <1>3, <1>4 DEF Inv

LEMMA WorkerEndsInv ==
  ASSUME Inv, NEW w \in Routines, WorkerEnds(w)
  PROVE  Inv'
  BY DEF Inv, TypeOK, KeysKnown, LocksRegistered, HolderInLock, InLock, Visited,
         WorkerEnds, NameOf, ClusterOf, TypeOf

LEMMA StutterInv ==
  ASSUME Inv, UNCHANGED vars
  PROVE  Inv'
  BY DEF Inv, TypeOK, KeysKnown, LocksRegistered, HolderInLock, InLock, Visited,
         vars, NameOf, ClusterOf, TypeOf

LEMMA NextInv ==
  ASSUME Inv, [Next]_vars
  PROVE  Inv'
<1>1. CASE \E c \in Clusters : Reconcile(c)
  BY <1>1, ReconcileInv
<1>2. CASE ReconcileCluster
  BY <1>2, ReconcileClusterInv
<1>3. CASE \E w \in Routines : RoutineStep(w)
  BY <1>3, TryLockInv, StartWorkerInv, UnlockInv, WorkerEndsInv DEF RoutineStep
<1>4. CASE Quiet \/ UNCHANGED vars
  BY <1>4, StutterInv DEF Quiet
<1> QED
  BY <1>1, <1>2, <1>3, <1>4 DEF Next

\* The inductive invariant holds of every reachable state of the dispatcher.
THEOREM DispatchInvariant == Spec => []Inv
  BY InitInv, NextInv, PTL DEF Spec

\* Every variable of the dispatcher keeps its type.
THEOREM DispatchTypeOK == Spec => []TypeOK
<1>1. Inv => TypeOK
  BY DEF Inv
<1> QED
  BY <1>1, DispatchInvariant, PTL

\* However many Reconciles overlap, at most one routine per entry type of a
\* NineCluster is between TryLock and Unlock of reconcileRoutine.
THEOREM DispatchLockExclusive == Spec => []LockExclusive
<1>1. Inv => LockExclusive
  <2> SUFFICES ASSUME Inv, NEW v \in Routines, NEW w \in Routines,
                      InLock(v), InLock(w), SameTarget(v, w)
               PROVE  v = w
    BY DEF LockExclusive
  <2>1. NameOf(v) = NameOf(w)
    BY DEF SameTarget, NameOf
  <2>2. mutex[v] = mutex[w]
    BY <2>1 DEF Inv, LocksRegistered, InLock
  <2> QED
    BY <2>2 DEF Inv, HolderInLock
<1> QED
  BY <1>1, DispatchInvariant, PTL

-----------------------------------------------------------------------------
\* Different entry types and different NineClusters have different unique names.
\* Nothing in the code enforces it: "data-lake"/"house" and "data"/"lake-house"
\* share theirs.
NamesDistinct ==
  \A c, d \in Clusters : \A i, j \in Entries :
    GenUniqueName4Cluster(c, ClusterSet[i]) = GenUniqueName4Cluster(d, ClusterSet[j])
    => c = d /\ ClusterSet[i] = ClusterSet[j]

\* Where unique names are distinct, a routine whose TryLock fails finds the mutex
\* with a routine of the same NineCluster and entry type.
LEMMA TryLockFailsForSelf ==
  ASSUME NamesDistinct, Inv, NEW w \in Routines, TryLock(w), routine'[w] = "skipped"
  PROVE  \E v \in Routines \ {w} : InLock(v) /\ SameTarget(v, w)
<1> DEFINE v == holder[mutex[w]]
<1>1. v # None
  BY DEF TryLock, Inv, TypeOK
<1>2. mutex[w] \in Routines
  BY DEF Inv, LocksRegistered, TryLock
<1>3. v \in Routines /\ InLock(v) /\ mutex[v] = mutex[w]
  BY <1>1, <1>2 DEF Inv, TypeOK, HolderInLock
<1>4. v # w /\ routine[v] # "idle" /\ routine[w] # "idle"
  BY <1>3 DEF InLock, TryLock
<1> HIDE DEF v
<1>5. ASSUME NEW u \in Routines, routine[u] # "idle"
      PROVE  NameOf(mutex[u]) = NameOf(u)
  <2>1. NameOf(u) \in UniqueNames
    BY <1>5, StartedFacts
  <2> QED
    BY <1>5, <2>1, NoneFresh DEF Inv, LocksRegistered
<1>6. NameOf(v) = NameOf(w)
  BY <1>3, <1>4, <1>5
<1>7. /\ ClusterOf(v) \in Clusters /\ v[2] \in Entries
      /\ ClusterOf(w) \in Clusters /\ w[2] \in Entries
  BY <1>3, <1>4, StartedFacts
<1>8. SameTarget(v, w)
  BY <1>6, <1>7 DEF NamesDistinct, NameOf, TypeOf, SameTarget
<1> QED
  BY <1>3, <1>4, <1>8

\* Where unique names are distinct, a routine that gives up leaves its entry to
\* a routine of the same NineCluster and entry type that holds the mutex.
THEOREM SkipsOnlyForSelf == NamesDistinct => (Spec => SkippedOnlyForSelf)
<1> SUFFICES ASSUME NamesDistinct PROVE Spec => SkippedOnlyForSelf
  OBVIOUS
<1> DEFINE A == \A w \in Routines :
                  routine[w] = "spawned" /\ routine'[w] = "skipped"
                  => \E v \in Routines \ {w} : InLock(v) /\ SameTarget(v, w)
<1>1. ASSUME Inv, [Next]_vars
      PROVE  A
  <2> SUFFICES ASSUME NEW w \in Routines,
                      routine[w] = "spawned", routine'[w] = "skipped"
               PROVE  \E v \in Routines \ {w} : InLock(v) /\ SameTarget(v, w)
    OBVIOUS
  <2>1. ASSUME NEW u \in Routines, RoutineStep(u) PROVE TryLock(w)
    <3>1. TryLock(u) \/ StartWorker(u) \/ Unlock(u) \/ WorkerEnds(u)
      BY <2>1 DEF RoutineStep
    <3>2. CASE TryLock(u)
      BY <3>2, <1>1 DEF TryLock, Inv, TypeOK
    <3>3. CASE StartWorker(u) \/ Unlock(u) \/ WorkerEnds(u)
      BY <3>3, <1>1 DEF StartWorker, Unlock, WorkerEnds, Inv, TypeOK
    <3> QED
      BY <3>1, <3>2, <3>3
  <2>2. routine' # routine
    OBVIOUS
  <2>3. ~ ReconcileCluster
    BY <1>1 DEF ReconcileCluster, Inv, TypeOK
  <2>4. \E u \in Routines : RoutineStep(u)
    BY <1>1, <2>2, <2>3 DEF Next, Reconcile, Quiet, vars
  <2> QED
    BY <1>1, <2>1, <2>4, TryLockFailsForSelf
<1> QED
  BY <1>1, DispatchInvariant, PTL DEF Spec, SkippedOnlyForSelf

-----------------------------------------------------------------------------
(* Dispatch implements DispatchContract.                                   *)

Target(w) == IF routine[w] = "idle" THEN None ELSE <<ClusterOf(w), TypeOf(w)>>
PhaseBar  == [w \in Routines |-> Phase(w)]
TargetBar == [w \in Routines |-> Target(w)]

LEMMA ContractInit == Init => Contract!Init
  BY DEF Init, Contract!Init, Phase

\* Entering Reconcile asks nobody yet.
LEMMA ReconcileRefines ==
  ASSUME Inv, NEW c \in Clusters, Reconcile(c)
  PROVE  UNCHANGED <<PhaseBar, TargetBar>>
<1>1. UNCHANGED routine
  BY DEF Reconcile
<1>2. ASSUME NEW w \in Routines, routine[w] # "idle" PROVE ClusterOf(w)' = ClusterOf(w)
  <2>1. w[1] \in Runs /\ w[1] <= begun
    BY <1>2, StartedFacts
  <2> QED
    BY <2>1, DispatchAssumption DEF Reconcile, ClusterOf, Inv, TypeOK, Runs
<1>3. \A w \in Routines : Phase(w)' = Phase(w)
  BY <1>1 DEF Phase
<1>4. \A w \in Routines : Target(w)' = Target(w)
  BY <1>1, <1>2 DEF Target, TypeOf
<1> QED
  BY <1>3, <1>4 DEF PhaseBar, TargetBar

\* reconcileCluster asks one routine.
LEMMA ReconcileClusterRefines ==
  ASSUME Inv, ReconcileCluster
  PROVE  \E w \in Routines : \E t \in Clusters \X {ClusterSet[i] : i \in Entries} :
           Contract!Ask(w, t)
<1> DEFINE w == <<begun, visited + 1>>
           t == <<ClusterOf(w), TypeOf(w)>>
<1>1. begun \in Runs /\ visited + 1 \in Entries /\ key[begun] \in Clusters
  BY DispatchAssumption DEF ReconcileCluster, Inv, TypeOK, KeysKnown, Runs, Entries
<1>2. w \in Routines /\ w[1] = begun /\ w[2] = visited + 1
  BY <1>1 DEF Routines
<1>3. t \in Clusters \X {ClusterSet[i] : i \in Entries}
  BY <1>1 DEF ClusterOf, TypeOf
<1>4. routine[w] = "idle"
  <2>1. ~ Visited(w)
    BY <1>1, <1>2, DispatchAssumption DEF Visited, Inv, TypeOK, Runs, Entries
  <2> QED
    BY <1>2, <2>1 DEF Inv, LocksRegistered
<1>5. routine' = [routine EXCEPT ![w] = "spawned"] /\ key' = key
  BY DEF ReconcileCluster
<1> HIDE DEF w
<1>6. PhaseBar[w] = "idle"
  BY <1>2, <1>4 DEF PhaseBar, Phase
<1>7. PhaseBar' = [PhaseBar EXCEPT ![w] = "pending"]
  <2>1. \A u \in Routines : Phase(u)' = IF u = w THEN "pending" ELSE Phase(u)
    BY <1>2, <1>5 DEF Phase, Inv, TypeOK
  <2> QED
    BY <2>1 DEF PhaseBar
<1>8. TargetBar' = [TargetBar EXCEPT ![w] = t]
  <2>1. \A u \in Routines : Target(u)' = IF u = w THEN t ELSE Target(u)
    BY <1>2, <1>5 DEF Target, ClusterOf, TypeOf, Inv, TypeOK
  <2> QED
    BY <2>1 DEF TargetBar
<1>9. Contract!Ask(w, t)
  BY <1>6, <1>7, <1>8 DEF Contract!Ask, PhaseBar, TargetBar, Target
<1> HIDE DEF t
<1> QED
  BY <1>2, <1>3, <1>9 DEF Contract!Ask

\* TryLock decides.
LEMMA TryLockRefines ==
  ASSUME NamesDistinct, Inv, NEW w \in Routines, TryLock(w)
  PROVE  Contract!Start(w) \/ Contract!Skip(w)
<1>1. routine[w] = "spawned" /\ key' = key
  BY DEF TryLock
<1>2. PhaseBar[w] = "pending"
  BY <1>1 DEF PhaseBar, Phase
<1>3. TargetBar' = TargetBar
  <2>1. \A u \in Routines : Target(u)' = Target(u)
    BY <1>1 DEF TryLock, Target, ClusterOf, TypeOf, Inv, TypeOK
  <2> QED
    BY <2>1 DEF TargetBar
<1>4. CASE routine' = [routine EXCEPT ![w] = "locked"]
  <2>1. \A u \in Routines : Phase(u)' = IF u = w THEN "started" ELSE Phase(u)
    BY <1>4 DEF Phase, Inv, TypeOK
  <2>2. PhaseBar' = [PhaseBar EXCEPT ![w] = "started"]
    BY <2>1 DEF PhaseBar
  <2> QED
    BY <1>2, <1>3, <2>2 DEF Contract!Start, PhaseBar, TargetBar, Target
<1>5. CASE routine' = [routine EXCEPT ![w] = "skipped"]
  <2>1. \A u \in Routines : Phase(u)' = IF u = w THEN "skipped" ELSE Phase(u)
    BY <1>5 DEF Phase, Inv, TypeOK
  <2>2. PhaseBar' = [PhaseBar EXCEPT ![w] = "skipped"]
    BY <2>1 DEF PhaseBar
  <2>3. routine'[w] = "skipped"
    BY <1>5 DEF Inv, TypeOK
  <2>4. PICK v \in Routines \ {w} : InLock(v) /\ SameTarget(v, w)
    BY <2>3, TryLockFailsForSelf
  <2>5. PhaseBar[v] = "started" /\ TargetBar[v] = TargetBar[w]
    BY <1>1, <2>4 DEF PhaseBar, Phase, TargetBar, Target, InLock, SameTarget
  <2> QED
    BY <1>2, <1>3, <2>2, <2>4, <2>5 DEF Contract!Skip, PhaseBar, TargetBar, Target
<1> QED
  BY <1>4, <1>5 DEF TryLock

\* After TryLock nothing of what the contract speaks of changes.
LEMMA LaterStepsRefine ==
  ASSUME Inv, NEW w \in Routines, StartWorker(w) \/ Unlock(w) \/ WorkerEnds(w)
  PROVE  UNCHANGED <<PhaseBar, TargetBar>>
<1>1. \A u \in Routines : Phase(u)' = Phase(u) /\ Target(u)' = Target(u)
  BY DEF StartWorker, Unlock, WorkerEnds, Phase, Target, ClusterOf, TypeOf, Inv, TypeOK
<1> QED
  BY <1>1 DEF PhaseBar, TargetBar

\* Where unique names are distinct, what reconcileCluster and reconcileRoutine do
\* is what DispatchContract allows: an entry is left alone only when another
\* routine has taken it on.
THEOREM DispatchImplementsContract == NamesDistinct => (Spec => ImplementsSafely)
<1> SUFFICES ASSUME NamesDistinct PROVE Spec => ImplementsSafely
  OBVIOUS
<1>1. ASSUME Inv, [Next]_vars
      PROVE  [Contract!Next]_(Contract!vars)
  <2>1. CASE \E c \in Clusters : Reconcile(c)
    BY <1>1, <2>1, ReconcileRefines DEF Contract!vars, PhaseBar, TargetBar, Target
  <2>2. CASE ReconcileCluster
    BY <1>1, <2>2, ReconcileClusterRefines DEF Contract!Next
  <2>3. CASE \E w \in Routines : RoutineStep(w)
    <3>1. PICK w \in Routines : RoutineStep(w)
      BY <2>3
    <3>2. CASE TryLock(w)
      BY <1>1, <3>2, TryLockRefines DEF Contract!Next
    <3>3. CASE StartWorker(w) \/ Unlock(w) \/ WorkerEnds(w)
      BY <1>1, <3>3, LaterStepsRefine DEF Contract!vars, PhaseBar, TargetBar, Target
    <3> QED
      BY <3>1, <3>2, <3>3 DEF RoutineStep
  <2>4. CASE UNCHANGED vars
    BY <2>4 DEF vars, Contract!vars, Phase, ClusterOf, TypeOf
  <2> QED
    BY <1>1, <2>1, <2>2, <2>3, <2>4 DEF Next, Quiet
<1> QED
  BY <1>1, ContractInit, DispatchInvariant, PTL DEF Spec, ImplementsSafely, Contract!Safety
=============================================================================
