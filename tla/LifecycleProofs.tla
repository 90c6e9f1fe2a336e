-------------------------- MODULE LifecycleProofs ---------------------------
(***************************************************************************)
(* Whatever users, caches, overlapping workers and restarts do, nothing    *)
(* belongs to a NineCluster that has not been born, and every worker has a *)
(* call to make: for any managers, entry types and bounds.                 *)
(***************************************************************************)
EXTENDS Lifecycle, TLAPS

Owners == 0 .. born \cup {Nobody}
Workers ==
  {w \in [pc : {"free", "get", "create", "getNil"}, uid : 0 .. born, at : Nat] :
     w # Free => w.uid \in 1 .. born}

IInv ==
  /\ nine \in {0, born} /\ born \in Uids /\ crashes \in 0 .. MaxCrashes
  /\ objs \in [Kinds -> Owners]
  /\ cache \in [Managers -> [nine : 0 .. born, objs : [Cached -> Owners]]]
  /\ queued \subseteq Managers
  /\ worker \in [Slots -> Workers]
  /\ \A s \in Slots : worker[s].at \in DOMAIN Chain(s[2])

-----------------------------------------------------------------------------
(* A worker's chain is one, or three, objects long, and they are of Kinds. *)
LEMMA Chains ==
  ASSUME NEW t \in Types
  PROVE  /\ Len(Chain(t)) \in {1, 3} /\ DOMAIN Chain(t) = 1 .. Len(Chain(t))
         /\ \A i \in DOMAIN Chain(t) : Chain(t)[i] \in Kinds
<1>1. t \in {"minio", "database", "zookeeper"}  BY LifecycleAssumption
<1>2. Len(Chain(t)) \in {1, 3} /\ DOMAIN Chain(t) = 1 .. Len(Chain(t))
  <2>1. CASE t = "minio"
    <3>1. Chain(t) = <<"minioConfigSecret", "minioUserSecret", "tenant">>  BY <2>1 DEF Chain
    <3> QED  BY <3>1
  <2>2. CASE t = "database"
    <3>1. Chain(t) = <<"pgUserSecret", "pgSuperSecret", "pg">>  BY <2>2 DEF Chain
    <3> QED  BY <3>1
  <2>3. CASE t = "zookeeper"
    <3>1. Chain(t) = <<"zookeeper">>  BY <2>3 DEF Chain
    <3> QED  BY <3>1
  <2> QED  BY <1>1, <2>1, <2>2, <2>3
<1>3. \A i \in DOMAIN Chain(t) : Chain(t)[i] \in Kinds  BY DEF Kinds
<1> QED  BY <1>2, <1>3

LEMMA FreeIsWorker == ASSUME IInv PROVE Free \in Workers /\ \A t \in Types : Free.at \in DOMAIN Chain(t)
<1>1. Free \in Workers  BY LifecycleAssumption DEF IInv, Free, Workers, Uids
<1>2. \A t \in Types : 1 \in DOMAIN Chain(t)  BY Chains
<1> QED  BY <1>1, <1>2 DEF Free

LEMMA InitIInv == Init => IInv
<1> SUFFICES ASSUME Init PROVE IInv  OBVIOUS
<1>1. Free \in Workers  BY DEF Init, Free, Workers
<1>2. \A s \in Slots : s[2] \in Types  BY DEF Slots
<1>3. \A t \in Types : 1 \in DOMAIN Chain(t)  BY Chains
<1>4. born = 0 /\ nine = 0 /\ 0 \in Owners /\ born \in Uids /\ crashes \in 0 .. MaxCrashes
  BY LifecycleAssumption DEF Init, Owners, Uids
<1>5. objs \in [Kinds -> Owners] /\ [kind \in Cached |-> 0] \in [Cached -> Owners]
  BY <1>4 DEF Init
<1>6. cache \in [Managers -> [nine : 0 .. born, objs : [Cached -> Owners]]]
  BY <1>4, <1>5 DEF Init
<1>7. worker \in [Slots -> Workers] /\ \A s \in Slots : worker[s].at \in DOMAIN Chain(s[2])
  BY <1>1, <1>2, <1>3 DEF Init, Free
<1> QED  BY <1>4, <1>5, <1>6, <1>7 DEF Init, IInv

-----------------------------------------------------------------------------
(* Workers and owners stay what they are while uids are given.             *)
LEMMA CreateIInv == ASSUME IInv, Create PROVE IInv'
<1>1. born' = born + 1 /\ born' \in Uids /\ born \in Nat
      /\ UNCHANGED <<objs, cache, queued, worker, crashes>> /\ nine' = born'
  BY LifecycleAssumption DEF Create, IInv, Uids
<1>2. Owners \subseteq Owners'  BY <1>1, LifecycleAssumption DEF Owners, Nobody
<1>3. Workers \subseteq Workers'  BY <1>1 DEF Workers, Free
<1>4. objs' \in [Kinds -> Owners']  BY <1>1, <1>2 DEF IInv
<1>5. cache' \in [Managers -> [nine : 0 .. born', objs : [Cached -> Owners']]]
  <2>1. [Cached -> Owners] \subseteq [Cached -> Owners']  BY <1>2
  <2>2. [nine : 0 .. born, objs : [Cached -> Owners]] \subseteq [nine : 0 .. born', objs : [Cached -> Owners']]
    BY <1>1, <2>1
  <2> QED  BY <1>1, <2>2 DEF IInv
<1>6. worker' \in [Slots -> Workers']  BY <1>1, <1>3 DEF IInv
<1> QED  BY <1>1, <1>4, <1>5, <1>6 DEF IInv

LEMMA UserIInv == ASSUME IInv, Delete PROVE IInv'
BY DEF Delete, IInv, Owners, Workers, Uids

LEMMA CollectIInv == ASSUME IInv, NEW kind \in Kinds, Collect(kind) PROVE IInv'
<1>1. objs' \in [Kinds -> Owners]  BY DEF Collect, IInv, Owners, Uids
<1> QED  BY <1>1 DEF Collect, IInv, Owners, Workers

LEMMA WatchIInv ==
  ASSUME IInv, NEW m \in Managers, WatchNine(m) \/ Resync(m) \/ \E kind \in Cached : WatchObject(m, kind)
  PROVE  IInv'
<1>1. cache' \in [Managers -> [nine : 0 .. born, objs : [Cached -> Owners]]]
  <2>1. cache[m] \in [nine : 0 .. born, objs : [Cached -> Owners]]  BY DEF IInv
  <2>2. CASE WatchNine(m)
    <3>1. nine \in 0 .. born  BY DEF IInv, Uids
    <3> QED  BY <2>1, <2>2, <3>1 DEF WatchNine, IInv
  <2>3. CASE Resync(m)  BY <2>3 DEF Resync, IInv
  <2>4. ASSUME NEW kind \in Cached, WatchObject(m, kind)
        PROVE  cache' \in [Managers -> [nine : 0 .. born, objs : [Cached -> Owners]]]
    <3>1. objs[kind] \in Owners  BY DEF IInv, Cached
    <3>2. cache' = [cache EXCEPT ![m].objs[kind] = objs[kind]]  BY <2>4 DEF WatchObject
    <3> QED  BY <2>1, <3>1, <3>2 DEF IInv
  <2> QED  BY <2>2, <2>3, <2>4
<1>2. queued' \subseteq Managers /\ UNCHANGED <<nine, born, objs, worker, crashes>>
  BY DEF WatchNine, Resync, WatchObject, IInv
<1> QED  BY <1>1, <1>2 DEF IInv, Owners, Workers

LEMMA ReconcileIInv == ASSUME IInv, NEW m \in Managers, Reconcile(m) PROVE IInv'
<1> DEFINE new == [pc |-> "get", uid |-> cache[m].nine, at |-> 1]
<1>1. cache[m].nine \in 1 .. born  BY DEF Reconcile, IInv, Uids
<1>2. new \in Workers  BY <1>1 DEF Workers, IInv, Uids
<1>3. \A s \in Slots : s[2] \in Types /\ 1 \in DOMAIN Chain(s[2])  BY Chains DEF Slots
<1>4. /\ worker' = [s \in Slots |-> IF s[1] = m /\ s[3] = FreeSlot(m, s[2]) THEN new ELSE worker[s]]
      /\ queued' \subseteq Managers /\ UNCHANGED <<nine, born, objs, cache, crashes>>
  BY DEF Reconcile, IInv
<1> HIDE DEF FreeSlot
<1>5. worker' \in [Slots -> Workers]  BY <1>2, <1>4 DEF IInv
<1>6. \A s \in Slots : worker'[s].at \in DOMAIN Chain(s[2])
  <2> SUFFICES ASSUME NEW s \in Slots PROVE worker'[s].at \in DOMAIN Chain(s[2])  OBVIOUS
  <2>1. worker'[s] = new \/ worker'[s] = worker[s]  BY <1>4
  <2> QED  BY <2>1, <1>3 DEF IInv
<1> QED  BY <1>4, <1>5, <1>6 DEF IInv, Owners, Workers

(* A worker that goes on in its chain, or ends, is a worker.               *)
LEMMA WorkerMoves ==
  ASSUME IInv, NEW s \in Slots, NEW w \in Workers, w.at \in DOMAIN Chain(s[2]),
         worker' = [worker EXCEPT ![s] = w], UNCHANGED <<nine, born, cache, queued, crashes>>,
         objs' \in [Kinds -> Owners]
  PROVE  IInv'
<1>1. worker' \in [Slots -> Workers]  BY DEF IInv
<1>2. \A r \in Slots : worker'[r].at \in DOMAIN Chain(r[2])  BY DEF IInv
<1> QED  BY <1>1, <1>2 DEF IInv, Owners, Workers

(* The two ways in which a worker's record is changed.                     *)
LEMMA WorkerFields ==
  ASSUME NEW s \in Slots, worker \in [Slots -> Workers], NEW p, NEW i
  PROVE  /\ [worker EXCEPT ![s].pc = p]
              = [worker EXCEPT ![s] = [pc |-> p, uid |-> worker[s].uid, at |-> worker[s].at]]
         /\ [worker EXCEPT ![s].pc = p, ![s].at = i]
              = [worker EXCEPT ![s] = [pc |-> p, uid |-> worker[s].uid, at |-> i]]
<1>1. worker[s] \in [pc : {"free", "get", "create", "getNil"}, uid : 0 .. born, at : Nat]
  BY DEF Workers
<1>2. worker[s] = [pc |-> worker[s].pc, uid |-> worker[s].uid, at |-> worker[s].at]  BY <1>1
<1>3. [worker[s] EXCEPT !.pc = p] = [pc |-> p, uid |-> worker[s].uid, at |-> worker[s].at]
  BY <1>2
<1>4. [worker[s] EXCEPT !.pc = p, !.at = i] = [pc |-> p, uid |-> worker[s].uid, at |-> i]
  <2>1. [worker[s] EXCEPT !.pc = p, !.at = i] = [[worker[s] EXCEPT !.pc = p] EXCEPT !.at = i]
    OBVIOUS
  <2>2. [[pc |-> p, uid |-> worker[s].uid, at |-> worker[s].at] EXCEPT !.at = i]
          = [pc |-> p, uid |-> worker[s].uid, at |-> i]
    OBVIOUS
  <2> QED  BY <1>3, <2>1, <2>2
<1>5. [worker EXCEPT ![s].pc = p] = [worker EXCEPT ![s] = [worker[s] EXCEPT !.pc = p]]
  OBVIOUS
<1>6. [worker EXCEPT ![s].pc = p, ![s].at = i]
        = [worker EXCEPT ![s] = [worker[s] EXCEPT !.pc = p, !.at = i]]
  OBVIOUS
<1> QED  BY <1>3, <1>4, <1>5, <1>6

LEMMA StepIInv == ASSUME IInv, NEW s \in Slots, Step(s) PROVE IInv'
<1> DEFINE n == Len(Chain(s[2]))
<1>1. s[2] \in Types  BY DEF Slots
<1>2. /\ n \in {1, 3} /\ DOMAIN Chain(s[2]) = 1 .. n
      /\ worker[s] \in Workers /\ worker[s].at \in 1 .. n
  BY <1>1, Chains DEF IInv
<1>3. worker[s].pc # "free"  BY DEF Step, Get, CreateObject, GetNil
<1>4. worker[s].uid \in 1 .. born  BY <1>2, <1>3 DEF Workers, Free
<1>5. KindAt(s) \in Kinds  BY <1>1, <1>2, Chains DEF KindAt
<1> DEFINE Going(p, i) == [pc |-> p, uid |-> worker[s].uid, at |-> i]
<1>6. \A p \in {"get", "create", "getNil"} : \A i \in 1 .. n :
        Going(p, i) \in Workers /\ Going(p, i).at = i
  <2> SUFFICES ASSUME NEW p \in {"get", "create", "getNil"}, NEW i \in 1 .. n
               PROVE  Going(p, i) \in Workers /\ Going(p, i).at = i
    OBVIOUS
  <2>1. i \in Nat  BY <1>2
  <2>2. worker[s] \in [pc : {"free", "get", "create", "getNil"}, uid : 0 .. born, at : Nat]
    BY <1>2 DEF Workers
  <2>3. worker[s].uid \in 0 .. born /\ p \in {"free", "get", "create", "getNil"}  BY <2>2
  <2> QED  BY <2>1, <2>3, <1>4 DEF Workers, Free
<1>7. UNCHANGED <<nine, born, cache, queued, crashes>>
  BY DEF Step, Get, CreateObject, GetNil
<1>8. objs' \in [Kinds -> Owners]
  <2>1. Owner(s) \in Owners  BY <1>4 DEF Owner, Owners, IInv, Uids
  <2> QED  BY <2>1, <1>5 DEF Step, Get, CreateObject, GetNil, IInv
<1>9. \/ worker' = [worker EXCEPT ![s] = Free]
      \/ \E p \in {"get", "create", "getNil"}, i \in 1 .. n : worker' = [worker EXCEPT ![s] = Going(p, i)]
  <2>1. ASSUME Advance(s)
        PROVE  \/ worker' = [worker EXCEPT ![s] = Free]
               \/ worker' = [worker EXCEPT ![s] = Going("get", worker[s].at + 1)]
                  /\ worker[s].at + 1 \in 1 .. n
    <3>1. CASE Last(s)  BY <2>1, <3>1 DEF Advance
    <3>2. CASE ~ Last(s)
      <4>1. worker' = [worker EXCEPT ![s].pc = "get", ![s].at = @ + 1]  BY <2>1, <3>2 DEF Advance
      <4>2. worker' = [worker EXCEPT ![s] = Going("get", worker[s].at + 1)]
        BY <4>1, WorkerFields DEF IInv
      <4>3. worker[s].at + 1 \in 1 .. n  BY <3>2, <1>2 DEF Last
      <4> QED  BY <4>2, <4>3
    <3> QED  BY <3>1, <3>2
  <2>2. CASE Get(s)
    <3>1. Advance(s) \/ worker' = [worker EXCEPT ![s].pc = "create"]  BY <2>2 DEF Get
    <3>2. [worker EXCEPT ![s].pc = "create"] = [worker EXCEPT ![s] = Going("create", worker[s].at)]
      BY WorkerFields DEF IInv
    <3>3. CASE Advance(s)  BY <3>3, <2>1
    <3>4. CASE worker' = [worker EXCEPT ![s].pc = "create"]  BY <3>2, <3>4, <1>2
    <3> QED  BY <3>1, <3>3, <3>4
  <2>3. CASE CreateObject(s)
    <3>1. Advance(s) \/ AlreadyExists(s)  BY <2>3 DEF CreateObject
    <3>2. ASSUME AlreadyExists(s)
          PROVE  \/ Advance(s) \/ worker' = [worker EXCEPT ![s] = Free]
                 \/ worker' = [worker EXCEPT ![s].pc = "getNil", ![s].at = n]
      BY <3>2 DEF AlreadyExists
    <3>3. [worker EXCEPT ![s].pc = "getNil", ![s].at = n] = [worker EXCEPT ![s] = Going("getNil", n)]
      BY WorkerFields DEF IInv
    <3>4. n \in 1 .. n  BY <1>2
    <3>5. CASE Advance(s)  BY <3>5, <2>1
    <3>6. CASE worker' = [worker EXCEPT ![s].pc = "getNil", ![s].at = n]  BY <3>3, <3>4, <3>6
    <3> QED  BY <3>1, <3>2, <3>5, <3>6
  <2>4. CASE GetNil(s)
    <3>1. Advance(s) \/ worker' = [worker EXCEPT ![s] = Free]  BY <2>4 DEF GetNil
    <3>2. CASE Advance(s)  BY <3>2, <2>1
    <3> QED  BY <3>1, <3>2
  <2> QED  BY <2>2, <2>3, <2>4 DEF Step
<1>10. CASE worker' = [worker EXCEPT ![s] = Free]
  BY <1>10, <1>1, <1>7, <1>8, FreeIsWorker, WorkerMoves
<1>11. CASE \E p \in {"get", "create", "getNil"}, i \in 1 .. n : worker' = [worker EXCEPT ![s] = Going(p, i)]
  <2>1. PICK p \in {"get", "create", "getNil"}, i \in 1 .. n : worker' = [worker EXCEPT ![s] = Going(p, i)]
    BY <1>11
  <2>2. Going(p, i) \in Workers /\ Going(p, i).at \in DOMAIN Chain(s[2])  BY <1>2, <1>6
  <2> HIDE DEF Going
  <2> QED  BY <2>1, <2>2, <1>7, <1>8, WorkerMoves
<1> QED  BY <1>9, <1>10, <1>11

LEMMA RestartIInv == ASSUME IInv, NEW m \in Managers, Restart(m) PROVE IInv'
<1>1. /\ worker' = [s \in Slots |-> IF s[1] = m THEN Free ELSE worker[s]]
      /\ cache' = [cache EXCEPT ![m] = [nine |-> nine, objs |-> [kind \in Cached |-> objs[kind]]]]
      /\ queued' \subseteq Managers /\ UNCHANGED <<nine, born, objs>>
      /\ crashes' \in 0 .. MaxCrashes
  BY LifecycleAssumption DEF Restart, IInv
<1>2. worker' \in [Slots -> Workers]  BY <1>1, FreeIsWorker DEF IInv
<1>3. \A s \in Slots : worker'[s].at \in DOMAIN Chain(s[2])
  BY <1>1, FreeIsWorker DEF IInv, Slots
<1>4. [nine |-> nine, objs |-> [kind \in Cached |-> objs[kind]]] \in [nine : 0 .. born, objs : [Cached -> Owners]]
  BY DEF IInv, Cached, Uids
<1>5. cache' \in [Managers -> [nine : 0 .. born, objs : [Cached -> Owners]]]  BY <1>1, <1>4 DEF IInv
<1> QED  BY <1>1, <1>2, <1>3, <1>5 DEF IInv, Owners, Workers

-----------------------------------------------------------------------------
(* Every owner, copy and cache is of a NineCluster that has been created,  *)
(* and every running worker is at an object of its chain.                  *)
THEOREM LifecycleTypeOK == Spec => []TypeOK
<1>1. IInv /\ [Next]_vars => IInv'
  <2> SUFFICES ASSUME IInv, [Next]_vars PROVE IInv'  OBVIOUS
  <2>1. CASE UNCHANGED vars  BY <2>1 DEF vars, IInv, Owners, Workers
  <2> QED
    BY <2>1, CreateIInv, UserIInv, CollectIInv, WatchIInv, ReconcileIInv, StepIInv, RestartIInv DEF Next
<1>2. IInv => TypeOK
  <2> SUFFICES ASSUME IInv PROVE TypeOK  OBVIOUS
  <2>1. \A m \in Managers : cache[m].nine <= born /\ cache[m].objs \in [Cached -> 0 .. born \cup {Nobody}]
    BY DEF IInv, Owners, Uids
  <2>2. \A s \in Slots : worker[s] # Free => worker[s].uid \in 1 .. born
    BY DEF IInv, Workers
  <2> QED  BY <2>1, <2>2 DEF IInv, TypeOK, Owners
<1> QED  BY <1>1, <1>2, InitIInv, PTL DEF Spec
=============================================================================
