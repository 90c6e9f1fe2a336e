--------------------------- MODULE Provisioning -----------------------------
(***************************************************************************)
(* What the whole operator promises, whoever provisions: a NineCluster     *)
(* grows by one thing at a time, an object, a service that answers or      *)
(* something written into a service, each after the things it needs, and   *)
(* nothing that is there changes or goes.  NineInfra, with all its         *)
(* workers, overlaps, failures and restarts, implements this.              *)
(***************************************************************************)
CONSTANT NineClusters

VARIABLES
  there,   \* there[k]: the things NineCluster k has
  refs     \* refs[k][kind]: the systems the spec of that object refers to

vars == <<there, refs>>

Object(kind) == <<"object", kind>>
Service(s)   == <<"service", s>>
Item(d)      == <<"item", d>>

Kinds == {"pgUserSecret", "pgSuperSecret", "minioConfigSecret", "minioUserSecret",
          "pg", "tenant", "zookeeper", "hdfs", "doris", "metastore", "kyuubi"}
Refs  == {"database", "minio", "hdfs", "zookeeper", "metastore", "jdbc", "spark"}

Services == {"pg", "minio", "zookeeper", "hdfs", "metastore"}
Items    == {"sqlDatabase", "usersTable", "userRow", "bucket", "folder", "dataDir"}

(* What an object that refers to the systems in r needs.                   *)
ObjectNeeds(kind, r) ==
  CASE kind = "pg"        -> {Object("pgUserSecret"), Object("pgSuperSecret")}
    [] kind = "tenant"    -> {Object("minioConfigSecret"), Object("minioUserSecret")}
    [] kind = "hdfs"      -> {Service(s) : s \in r \cap {"zookeeper"}}
    [] kind = "metastore" -> {Service("pg")}
                             \cup (IF "minio" \in r THEN {Item("bucket"), Item("folder")} ELSE {})
                             \cup (IF "hdfs" \in r THEN {Item("dataDir")} ELSE {})
    [] kind = "kyuubi"    -> {Service("metastore")} \cup {Service(s) : s \in r \cap {"zookeeper"}}
                             \cup (IF "jdbc" \in r THEN {Item("userRow")} ELSE {})
    [] OTHER              -> {}

(* What something written into a service needs.                            *)
ItemNeeds(d) ==
  CASE d = "sqlDatabase" -> {Service("pg")}
    [] d = "usersTable"  -> {Service("pg"), Item("sqlDatabase")}
    [] d = "userRow"     -> {Service("pg"), Item("usersTable")}
    [] d = "bucket"      -> {Service("minio")}
    [] d = "folder"      -> {Service("minio"), Item("bucket")}
    [] d = "dataDir"     -> {Service("hdfs")}

-----------------------------------------------------------------------------
Init ==
  /\ there = [k \in NineClusters |-> {}]
  /\ refs = [k \in NineClusters |-> [kind \in Kinds |-> {}]]

Add(k, thing) ==
  /\ thing \notin there[k]
  /\ there' = [there EXCEPT ![k] = @ \cup {thing}]

Create(k, kind) ==
  /\ Add(k, Object(kind))
  /\ \E r \in SUBSET Refs :
       /\ ObjectNeeds(kind, r) \subseteq there[k]
       /\ refs' = [refs EXCEPT ![k][kind] = r]

Answer(k, s) ==
  /\ Add(k, Service(s))
  /\ Object(IF s = "minio" THEN "tenant" ELSE s) \in there[k]
  /\ UNCHANGED refs

Write(k, d) ==
  /\ Add(k, Item(d))
  /\ ItemNeeds(d) \subseteq there[k]
  /\ UNCHANGED refs

Next ==
  \E k \in NineClusters :
    \/ \E kind \in Kinds : Create(k, kind)
    \/ \E s \in Services : Answer(k, s)
    \/ \E d \in Items : Write(k, d)

Spec == Init /\ [][Next]_vars
=============================================================================
