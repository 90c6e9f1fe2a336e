------------------------------- MODULE Sites --------------------------------
(***************************************************************************)
(* The configuration of HDFS clients: the core-site and hdfs-site given to *)
(* the metastore and to Kyuubi, the addresses nineinfra's own client uses, *)
(* and the configuration of the HdfsCluster itself, all made from the conf *)
(* maps of the hdfs entry by workers that run at different times, from     *)
(* specs that a user may have edited in between.                           *)
(*                                                                         *)
(* A site keeps the keys that matter for finding namenodes; the key of an  *)
(* address is <<nameservice, namenode>>, or <<nameservice>> for the only   *)
(* one.                                                                    *)
(***************************************************************************)
EXTENDS Naturals

CONSTANTS
  Names,     \* the names a user may give a nameservice, and the default one
  Domains    \* the domains a user may give the Kubernetes cluster, and the default one

DefaultNameService == "nineinfra"
DefaultClusterDomain == "cluster.local"

Unset == "unset"

(* What a user may have set: fs.defaultFS and dfs.nameservices in the Conf *)
(* of the hdfs entry, the domain in its K8sConf, the number of namenodes.  *)
Specs ==
  [defaultFS : Names \cup {Unset}, nameservices : Names \cup {Unset},
   domain : Domains \cup {Unset}, namenodes : {1, 2}]

VARIABLES
  spec,      \* the spec there is
  cluster,   \* the HdfsCluster, None before it is made
  client     \* what a client was given, None before: [kind, asked, coreSite, hdfsSite, waited]

vars == <<spec, cluster, client>>

None == [kind |-> "none"]

-----------------------------------------------------------------------------
GetClusterDomain(s) == IF s.domain # Unset THEN s.domain ELSE DefaultClusterDomain

checkHdfsNameNodeHA(s) == s.namenodes = 2

(* The address of namenode i.                                              *)
NameNode(s, i) == [pod |-> i, domain |-> GetClusterDomain(s)]

(* fs.defaultFS: the user's; else a nameservice, or the only namenode.     *)
constructCoreSite(s) ==
  CASE s.defaultFS # Unset -> [service |-> s.defaultFS]
    [] s.defaultFS = Unset /\ checkHdfsNameNodeHA(s)   -> [service |-> DefaultNameService]
    [] s.defaultFS = Unset /\ ~ checkHdfsNameNodeHA(s) -> NameNode(s, 0)

nameservices(s) == IF s.nameservices # Unset THEN s.nameservices ELSE DefaultNameService

\* The loop over the namenodes ends one short.
constructHdfsSiteShort(s) ==
  LET ns == nameservices(s)
      ha == {<<ns, "nn0">>, <<ns, "nn1">>}
  IN  [nameservices |-> ns,
       namenodes    |-> IF checkHdfsNameNodeHA(s) THEN ha ELSE {},
       rpcAddress   |-> IF checkHdfsNameNodeHA(s)
                        THEN [k \in {<<ns, "nn0">>} |-> NameNode(s, 0)]
                        ELSE [k \in {<<ns>>} |-> NameNode(s, 0)]]

(* dfs.nameservices, dfs.ha.namenodes and dfs.namenode.rpc-address.        *)
constructHdfsSite(s) ==
  LET ns == nameservices(s)
      ha == {<<ns, "nn0">>, <<ns, "nn1">>}
  IN  [nameservices |-> ns,
       namenodes    |-> IF checkHdfsNameNodeHA(s) THEN ha ELSE {},
       rpcAddress   |-> IF checkHdfsNameNodeHA(s)
                        THEN [k \in ha |-> NameNode(s, IF k[2] = "nn0" THEN 0 ELSE 1)]
                        ELSE [k \in {<<ns>>} |-> NameNode(s, 0)]]

-----------------------------------------------------------------------------
Init == spec \in Specs /\ cluster = None /\ client = None

Edit(s) ==
  /\ spec # s /\ spec' = s
  /\ UNCHANGED <<cluster, client>>

(* Both maps of the HdfsCluster are filled from the entry's Conf.          *)
constructHdfsCluster ==
  /\ cluster = None
  /\ LET conf == [defaultFS |-> spec.defaultFS, nameservices |-> spec.nameservices]
     IN  cluster' = [kind |-> "hdfs", asked |-> spec, namenodes |-> spec.namenodes, conf |-> conf, k8sConf |-> conf]
  /\ UNCHANGED <<spec, client>>

Given(kind, waited) ==
  /\ client = None
  /\ client' = [kind |-> kind, asked |-> spec, waited |-> waited,
                coreSite |-> constructCoreSite(spec), hdfsSite |-> constructHdfsSite(spec)]
  /\ UNCHANGED <<spec, cluster>>

\* Any namenode will do.
getHdfsExposedInfoAny == cluster # None

(* getHdfsExposedInfo waits for as many namenodes as the spec has.         *)
getHdfsExposedInfo == cluster # None /\ cluster.namenodes >= spec.namenodes

(* The metastore gets its sites after that wait.  After 600 polls that     *)
(* find no endpoints the wait is over as well, and the first namenode to   *)
(* answer since then is enough to make the directory.                      *)
Metastore        == getHdfsExposedInfo /\ Given("metastore", TRUE)
MetastoreTimeout == cluster # None /\ Given("metastore", FALSE)

(* Kyuubi does not wait for HDFS.                                          *)
Kyuubi == Given("kyuubi", FALSE)

DeleteClient ==
  /\ client # None /\ client' = None
  /\ UNCHANGED <<spec, cluster>>

Next ==
  \/ \E s \in Specs : Edit(s)
  \/ constructHdfsCluster \/ Metastore \/ MetastoreTimeout \/ Kyuubi \/ DeleteClient

Spec == Init /\ [][Next]_vars

-----------------------------------------------------------------------------
(* The addresses createHdfsDataDir gives its client, None for a key that   *)
(* is not there.                                                           *)
createHdfsDataDirAddresses(site) ==
  LET keys == IF site.namenodes # {} THEN site.namenodes ELSE {<<site.nameservices>>}
  IN  {IF k \in DOMAIN site.rpcAddress THEN site.rpcAddress[k] ELSE None : k \in keys}

(* The address a client ends up with for fs.defaultFS.                     *)
Resolves(c) ==
  IF "service" \in DOMAIN c.coreSite
  THEN \E k \in DOMAIN c.hdfsSite.rpcAddress : k[1] = c.coreSite.service
  ELSE \E k \in DOMAIN c.hdfsSite.rpcAddress : c.hdfsSite.rpcAddress[k] = c.coreSite

(* The user named the same nameservice in both places, or none.            *)
NamedAlike(s) ==
  /\ s.defaultFS # Unset => s.defaultFS = nameservices(s)
  /\ s.nameservices # Unset /\ checkHdfsNameNodeHA(s) => s.defaultFS = s.nameservices

\* Every variable has its type; a site has an address for each of its namenodes.
TypeOK ==
  /\ spec \in Specs
  /\ cluster # None => cluster.asked \in Specs
  /\ client # None => client.asked \in Specs /\ client.hdfsSite.namenodes \subseteq DOMAIN client.hdfsSite.rpcAddress

\* The file system that core-site names is one that the hdfs-site next to it
\* resolves, unless the user gave the nameservice a name in one place only.
DefaultFSResolves == client # None /\ NamedAlike(client.asked) => Resolves(client)

\* nineinfra's client looks for the namenodes under the keys the site has, whatever
\* the nameservice is called: it never dials an empty address, and misses none.
AddressesKnown ==
  client # None =>
    createHdfsDataDirAddresses(client.hdfsSite) = {NameNode(client.asked, i) : i \in 0 .. client.asked.namenodes - 1}

\* Although the spec may have changed since the HdfsCluster was made, a metastore
\* that has waited for HDFS is given no namenode that the cluster does not have.
MetastoreNamesWhatRuns ==
  client # None /\ client.kind = "metastore" /\ client.waited =>
    \A k \in DOMAIN client.hdfsSite.rpcAddress : client.hdfsSite.rpcAddress[k].pod < cluster.namenodes
=============================================================================
