---------------------------- MODULE TenantHosts -----------------------------
(***************************************************************************)
(* The pools of a tenant and the drives its servers are told of            *)
(* (helper.go of minio.min.io/v2): EnsureDefaults names the pools,         *)
(* MinIOHosts, TemplatedMinIOHosts and VolumePathForPool give ranges of    *)
(* hosts and of paths, while the operator creates the StatefulSets and     *)
(* records them in the status one step later.                              *)
(***************************************************************************)
EXTENDS Naturals, Sequences, FiniteSets, SequencesExt, FiniteSetsExt

CONSTANTS
  UserNames,   \* names users give to pools
  MaxServers,  \* bound: servers of a pool
  MaxVolumes,  \* bound: volumes of a server
  MaxPools     \* bound: pools of the tenant

None == <<"", 0>>
Pool(n, s, v) == [name |-> n, servers |-> s, volumes |-> v]

VARIABLES
  pools,     \* Spec.Pools
  status,    \* Status.Pools: the names of the StatefulSets
  running,   \* the StatefulSets there are, pool by pool
  retired    \* a pool was taken out of service
vars == <<pools, status, running, retired>>

-----------------------------------------------------------------------------
(* A pool without a name is called after its place, counted from 0.        *)
DefaultName(ps, i) == IF ps[i].name = None THEN <<"ss", i - 1>> ELSE ps[i].name

EnsureDefaults(ps) == [i \in DOMAIN ps |-> [ps[i] EXCEPT !.name = DefaultName(ps, i)]]

(* What StatefulSets were called by older operators.                       *)
LegacyStatefulsetName(name) == IF name[1] = "ss" THEN <<"zone", name[2]>> ELSE name

genEllipsis(start, end) == start..end

Host(ss, ordinals) == [ss |-> ss, ordinals |-> ordinals]

\* From the names in the spec.
MinIOHostsSpec(ps, st) ==
  [i \in DOMAIN ps |->
     Host(ps[i].name, IF ps[i].servers = 1 THEN {0} ELSE genEllipsis(0, ps[i].servers - 1))]

(* From the status as far as there is one.                                 *)
MinIOHosts(ps, st) ==
  [i \in DOMAIN ps |->
     Host(IF Len(st) >= i THEN st[i] ELSE ps[i].name,
          IF ps[i].servers = 1 THEN {0} ELSE genEllipsis(0, ps[i].servers - 1))]

(* One turn of the loop: the servers of all pools are counted through.     *)
Templated(acc, p) ==
  [max |-> acc.max + p.servers, ranges |-> Append(acc.ranges, genEllipsis(acc.max, acc.max + p.servers - 1))]

TemplatedMinIOHosts(ps) == FoldLeft(Templated, [max |-> 0, ranges |-> <<>>], ps).ranges

VolumePathForPool(p) == IF p.volumes = 1 THEN {0} ELSE genEllipsis(0, p.volumes - 1)

-----------------------------------------------------------------------------
(* A new tenant, or one an older operator made.                            *)
Init ==
  /\ \/ pools = <<>> /\ running = <<>>
     \/ \E s \in 1..MaxServers, v \in 1..MaxVolumes :
          /\ pools = <<Pool(<<"ss", 0>>, s, v)>>
          /\ running = <<[name |-> LegacyStatefulsetName(<<"ss", 0>>), servers |-> s, volumes |-> v]>>
  /\ status = [i \in DOMAIN running |-> running[i].name]
  /\ retired = FALSE

AddPool ==
  /\ Len(pools) < MaxPools
  /\ \E n \in UserNames \cup {None}, s \in 1..MaxServers, v \in 1..MaxVolumes :
       /\ n = None \/ \A i \in DOMAIN pools : pools[i].name # n
       /\ pools' = Append(pools, Pool(n, s, v))
  /\ UNCHANGED <<status, running, retired>>

Default ==
  /\ pools' = EnsureDefaults(pools)
  /\ UNCHANGED <<status, running, retired>>

(* The operator, for the next pool that has none.                          *)
CreateStatefulSet ==
  /\ Len(running) < Len(pools)
  /\ LET p == EnsureDefaults(pools)[Len(running) + 1]
     IN  running' = Append(running, p)
  /\ UNCHANGED <<pools, status, retired>>

RecordStatus ==
  /\ Len(status) < Len(running)
  /\ status' = [i \in DOMAIN running |-> running[i].name]
  /\ UNCHANGED <<pools, running, retired>>

(* A pool is taken out of service once everything was recorded.            *)
Retire ==
  /\ Len(status) = Len(pools) /\ Len(pools) > 1
  /\ \E i \in DOMAIN pools :
       /\ pools' = RemoveAt(pools, i)
       /\ running' = RemoveAt(running, i)
       /\ status' = RemoveAt(status, i)
  /\ retired' = TRUE

Next == AddPool \/ Default \/ CreateStatefulSet \/ RecordStatus \/ Retire

Spec == Init /\ [][Next]_vars

-----------------------------------------------------------------------------
Hosts == MinIOHosts(EnsureDefaults(pools), status)

DrivesOf(ss, ordinals, paths) == {<<ss, o, p>> : o \in ordinals, p \in paths}
Told(i) == DrivesOf(Hosts[i].ss, Hosts[i].ordinals, VolumePathForPool(pools[i]))
There(i) == DrivesOf(running[i].name, 0..(running[i].servers - 1), 0..(running[i].volumes - 1))

\* The servers are told of the drives that run, pool by pool and whatever the StatefulSets
\* are called: also between the creation of one and its record in the status.
ToldWhatRuns == \A i \in DOMAIN running : Told(i) = There(i)

\* As long as no pool was retired and users leave the generated names alone, no drive is
\* in two pools.
DrivesApart ==
  ~retired /\ (\A i \in DOMAIN pools : pools[i].name[1] = "ss" => pools[i].name = <<"ss", i - 1>>) =>
    \A i, j \in DOMAIN pools : i # j => Told(i) \cap Told(j) = {}

\* The ranges of a host template cover every server of the tenant once, in the order of
\* the pools.
TemplateCovers ==
  LET R == TemplatedMinIOHosts(pools)
  IN  /\ UNION ToSet(R) = {n \in 0..(MaxPools * MaxServers) : n < MapThenSumSet(LAMBDA i : pools[i].servers, DOMAIN pools)}
      /\ \A i \in DOMAIN pools : Cardinality(R[i]) = pools[i].servers
      /\ \A i, j \in DOMAIN pools : i < j => \A m \in R[i], n \in R[j] : m < n
=============================================================================
