------------------------------ MODULE Clients -------------------------------
(***************************************************************************)
(* The typed clients for the resources of the operators nineinfra drives,  *)
(* and for its own: one file per resource, with the same nine methods,     *)
(* each of which builds one request. The files differ in the resource they *)
(* name and in whether it lives in a namespace; what the API server does   *)
(* with a request, which is external, differs by whether the type declares *)
(* a status subresource.                                                   *)
(***************************************************************************)
EXTENDS Naturals, FiniteSets

CONSTANTS
  Names, Namespaces,
  Selected,     \* the names a label selector picks
  MaxObjects    \* bound: objects there are

(* The nine methods for each resource. Each has an UpdateStatus, but the   *)
(* types of DirectPV declare no status subresource.                        *)
Resource(group, name, namespaced, status) ==
  [group |-> group, name |-> name, namespaced |-> namespaced, status |-> status]
clusters         == Resource("postgresql", "clusters", TRUE, TRUE)
backups          == Resource("postgresql", "backups", TRUE, TRUE)
poolers          == Resource("postgresql", "poolers", TRUE, TRUE)
scheduledBackups == Resource("postgresql", "scheduledbackups", TRUE, TRUE)
tenants          == Resource("minio", "tenants", TRUE, TRUE)
nineClusters     == Resource("nineinfra", "nineclusters", TRUE, TRUE)
directPVNodes    == Resource("directpv", "directpvnodes", FALSE, FALSE)
directPVDrives   == Resource("directpv", "directpvdrives", FALSE, FALSE)
directPVVolumes  == Resource("directpv", "directpvvolumes", FALSE, FALSE)
directPVInitRequests == Resource("directpv", "directpvinitrequests", FALSE, FALSE)

(* What the client of each group hands out.                                *)
PostgresqlV1Client      == {clusters, backups, poolers, scheduledBackups}
MinioV2Client           == {tenants}
NineinfraV1alpha1Client == {nineClusters}
DirectpvV1beta1Client   == {directPVNodes, directPVDrives, directPVVolumes, directPVInitRequests}
Resources == PostgresqlV1Client \cup MinioV2Client \cup NineinfraV1alpha1Client \cup DirectpvV1beta1Client

VARIABLES
  kinds,   \* the resources in use: the caller's and another
  store,   \* the API server's objects by path
  held     \* the object the caller has read, and may have changed in memory
vars == <<kinds, store, held>>

-----------------------------------------------------------------------------
(* A request: its verb, and the resource, namespace, name, subresource and *)
(* selector in its path; "" where one is left out.                         *)
Request(verb, r, ns, name, sub, select) ==
  [verb |-> verb, resource |-> r, ns |-> IF r.namespaced THEN ns ELSE "", name |-> name,
   sub |-> sub, select |-> select]

Get(r, ns, name)            == Request("GET", r, ns, name, "", FALSE)
\* Also Watch, on the same path.
List(r, ns, select)         == Request("GET", r, ns, "", "", select)
Create(r, ns, name)         == Request("POST", r, ns, name, "", FALSE)
Update(r, ns, name)         == Request("PUT", r, ns, name, "", FALSE)
UpdateStatus(r, ns, name)   == Request("PUT", r, ns, name, "status", FALSE)
Delete(r, ns, name)         == Request("DELETE", r, ns, name, "", FALSE)
\* With the options of the deletion only.
DeleteAll(r, ns, select)    == Request("DELETE", r, ns, "", "", FALSE)
DeleteCollection(r, ns, select) == Request("DELETE", r, ns, "", "", select)
Patch(r, ns, name, sub)     == Request("PATCH", r, ns, name, sub, FALSE)

-----------------------------------------------------------------------------
(* The API server: what a request is about, and what it then does. An      *)
(* empty namespace is all of them, an empty name the whole collection.     *)
Addressed(q) ==
  {p \in DOMAIN store :
     /\ p.resource = q.resource
     /\ q.ns # "" => p.ns = q.ns
     /\ IF q.name # "" THEN p.name = q.name ELSE q.select => p.name \in Selected}

(* A status of its own path is written there and nowhere else; one that    *)
(* has none is written with the rest.                                      *)
Written(q, old, new) ==
  [spec   |-> IF q.sub = "status" THEN old.spec ELSE new.spec,
   status |-> IF q.resource.status /\ q.sub # "status" THEN old.status ELSE new.status]

(* There is nothing on the status path of a type without the subresource.  *)
Served(q) == q.sub = "status" => q.resource.status

Path(r, ns, name) == [resource |-> r, ns |-> IF r.namespaced THEN ns ELSE "", name |-> name]
Without(S) == [p \in DOMAIN store \ S |-> store[p]]

Write(q, new) ==
  store' = [p \in DOMAIN store |->
              IF Served(q) /\ p \in Addressed(q) THEN Written(q, store[p], new) ELSE store[p]]
Remove(q) == store' = Without(Addressed(q))

-----------------------------------------------------------------------------
Nothing == [path |-> Path(clusters, "", ""), spec |-> 0, status |-> 0]

Init ==
  /\ \E r \in Resources, s \in {tenants, directPVDrives} : r # s /\ kinds = <<r, s>>
  /\ store = [p \in {} |-> [spec |-> 0, status |-> 0]]
  /\ held = Nothing

DoGet(ns, name) ==
  /\ \E p \in Addressed(Get(kinds[1], ns, name)) :
       held' = [path |-> p, spec |-> store[p].spec, status |-> store[p].status]
  /\ UNCHANGED <<kinds, store>>

(* One of what a list, or a watch on the same path, shows.                 *)
DoList(ns, select) ==
  /\ \E p \in Addressed(List(kinds[1], ns, select)) :
       held' = [path |-> p, spec |-> store[p].spec, status |-> store[p].status]
  /\ UNCHANGED <<kinds, store>>

(* Defaulting in memory, a new status computed.                            *)
Mutate ==
  /\ held # Nothing
  /\ \E s, t \in {0, 1} : held' = [held EXCEPT !.spec = s, !.status = t]
  /\ UNCHANGED <<kinds, store>>

(* The caller's, or anybody's for the other resource. The server drops the *)
(* status of a body where it has a path of its own.                        *)
DoCreate(i, ns, name) ==
  /\ Cardinality(DOMAIN store) < MaxObjects
  /\ LET q == Create(kinds[i], ns, name)
         p == Path(q.resource, q.ns, q.name)
     IN  /\ p \notin DOMAIN store
         /\ \E s \in {0, 1}, t \in IF q.resource.status THEN {0} ELSE {0, 1} :
              store' = [x \in DOMAIN store \cup {p} |-> IF x = p THEN [spec |-> s, status |-> t] ELSE store[x]]
  /\ UNCHANGED <<kinds, held>>

DoUpdate ==
  /\ held # Nothing
  /\ Write(Update(held.path.resource, held.path.ns, held.path.name), held)
  /\ UNCHANGED <<kinds, held>>

DoUpdateStatus ==
  /\ held # Nothing
  /\ Write(UpdateStatus(held.path.resource, held.path.ns, held.path.name), held)
  /\ UNCHANGED <<kinds, held>>

DoPatch(ns, name, sub) ==
  /\ \E s, t \in {0, 1} : Write(Patch(kinds[1], ns, name, sub), [spec |-> s, status |-> t])
  /\ UNCHANGED <<kinds, held>>

DoDelete(ns, name) ==
  /\ Remove(Delete(kinds[1], ns, name))
  /\ UNCHANGED <<kinds, held>>

DoDeleteCollection(ns, select) ==
  /\ Remove(DeleteCollection(kinds[1], ns, select))
  /\ UNCHANGED <<kinds, held>>

Next ==
  \/ Mutate \/ DoUpdate \/ DoUpdateStatus
  \/ \E ns \in Namespaces :
       \/ \E select \in BOOLEAN : DoList(ns, select) \/ DoDeleteCollection(ns, select)
       \/ \E name \in Names : DoGet(ns, name) \/ DoDelete(ns, name)
       \/ \E name \in Names, i \in {1, 2} : DoCreate(i, ns, name)
       \/ \E name \in Names, sub \in {"", "status"} : DoPatch(ns, name, sub)

Spec == Init /\ [][Next]_vars

-----------------------------------------------------------------------------
Kept(field) == \A p \in DOMAIN store : p \in DOMAIN store' /\ store'[p][field] = store[p][field]

\* The two writers of an object do not disturb each other: with whatever it holds in
\* memory, who writes the status leaves every spec alone; and who writes the spec every
\* status, if the type declares the subresource.
WritersApart ==
  /\ DoUpdateStatus => Kept("spec")
  /\ held.path.resource.status /\ DoUpdate => Kept("status")

\* No call for one resource in one namespace touches another resource or namespace.
ScopeKept ==
  \A ns \in Namespaces, select \in BOOLEAN :
    DoDeleteCollection(ns, select) =>
      \A p \in DOMAIN store \ DOMAIN store' :
        p.resource = kinds[1] /\ (p.resource.namespaced => p.ns = ns)

\* What a DeleteCollection removes is what a List with the same options would show.
DeletesWhatIsListed ==
  \A ns \in Namespaces, select \in BOOLEAN :
    DoDeleteCollection(ns, select) =>
      DOMAIN store \ DOMAIN store' \subseteq Addressed(List(kinds[1], ns, select))
=============================================================================
