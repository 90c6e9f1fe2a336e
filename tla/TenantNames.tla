---------------------------- MODULE TenantNames -----------------------------
(***************************************************************************)
(* The names of what belongs to a tenant (names.go of minio.min.io/v2).    *)
(* A name is the sequence of its words, which "-" joins: so that           *)
(* "a-b" + "-" + "c" and "a" + "-" + "b-c" are the same name, as they are  *)
(* for Kubernetes.                                                         *)
(***************************************************************************)
EXTENDS Naturals, Sequences, FiniteSets

CONSTANTS
  Names,       \* names tenants get
  Namespaces,  \* names of namespaces
  PoolNames,   \* names pools get
  MaxTenants   \* bound: tenants there are

VARIABLE tenants   \* each with its name, namespace and pools
vars == <<tenants>>

-----------------------------------------------------------------------------
Named(kind, namespace, name) == [kind |-> kind, namespace |-> namespace, name |-> name]

MinIONames(t) ==
  {Named("StatefulSet", t.namespace, t.name \o p) : p \in t.pools}
  \cup {Named("Secret", t.namespace, t.name \o <<"tls">>),
        Named("Secret", t.namespace, t.name \o <<"client", "tls">>),
        Named("Secret", t.namespace, t.name \o <<"configuration">>),
        Named("Service", t.namespace, t.name \o <<"hl">>),
        Named("Service", t.namespace, <<"minio">>)}

KESNames(t) ==
  {Named("StatefulSet", t.namespace, t.name \o <<"kes">>),
   Named("Secret", t.namespace, t.name \o <<"kes", "tls">>),
   Named("Service", t.namespace, t.name \o <<"kes", "hl", "svc">>)}

ConsoleNames(t) ==
  {Named("Deployment", t.namespace, t.name \o <<"console">>),
   Named("Service", t.namespace, t.name \o <<"console">>),
   Named("Secret", t.namespace, t.name \o <<"console", "tls">>)}

(* Signing requests have no namespace.                                     *)
CSRNames(t) ==
  {Named("CSR", <<>>, t.name \o t.namespace \o <<"csr">>),
   Named("CSR", <<>>, t.name \o <<"client">> \o t.namespace \o <<"csr">>),
   Named("CSR", <<>>, t.name \o <<"kes">> \o t.namespace \o <<"csr">>),
   Named("CSR", <<>>, t.name \o <<"console">> \o t.namespace \o <<"csr">>)}

-----------------------------------------------------------------------------
Init == tenants = {}

(* "each namespace has only one Tenant"                                    *)
Create ==
  \E name \in Names, namespace \in Namespaces, pools \in SUBSET PoolNames :
    /\ Cardinality(tenants) < MaxTenants
    /\ \A t \in tenants : t.namespace # namespace
    /\ tenants' = tenants \cup {[name |-> name, namespace |-> namespace, pools |-> pools]}

Delete == \E t \in tenants : tenants' = tenants \ {t}

Next == Create \/ Delete

Spec == Init /\ [][Next]_vars

-----------------------------------------------------------------------------
AllNames(t) == MinIONames(t) \cup KESNames(t) \cup ConsoleNames(t) \cup CSRNames(t)
Plain(t) == Len(t.name) = 1 /\ Len(t.namespace) = 1
Reserved == {<<"client">>, <<"kes">>, <<"console">>}

\* A tenant's parts never share an object: MinIO's, KES's and the console's names are
\* apart, unless a pool is called "kes".
PartsApart ==
  \A t \in tenants :
    /\ Cardinality(MinIONames(t)) = Cardinality(t.pools) + 5
    /\ <<"kes">> \notin t.pools => MinIONames(t) \cap KESNames(t) = {}
    /\ (MinIONames(t) \cup KESNames(t)) \cap ConsoleNames(t) = {}

\* Tenants whose names and namespaces are one word each share no object, signing requests
\* included, which no namespace keeps apart.
PlainTenantsApart ==
  \A t, u \in tenants :
    t # u /\ Plain(t) /\ Plain(u) /\ {t.namespace, u.namespace} \cap Reserved = {}
    => AllNames(t) \cap AllNames(u) = {}
=============================================================================
