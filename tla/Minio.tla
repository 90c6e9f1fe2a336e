------------------------------- MODULE Minio --------------------------------
(***************************************************************************)
(* The worker of a "minio" entry (minio.go): configuration secret, user    *)
(* secret with random keys, number of DirectPV nodes, Tenant.  Also what   *)
(* the metastore's and Kyuubi's workers do with MinIO.                     *)
(***************************************************************************)
EXTENDS Kube

\* New keys written over those of a secret the Get did not find in time.
reconcileMinioNewUserSecretFreshKeys(w) ==
  \/ GetCached(w, "minioUserGet", "minioUserSecret", "tenantGet", "minioUserCreate")
  \/ /\ Goto(w, "minioUserCreate", "tenantGet")
     /\ objs' = [objs EXCEPT ![KeyOf(w)]["minioUserSecret"] = [Body(w) EXCEPT !.cred = w]]
     /\ UNCHANGED <<Outside, items, local, MetastoreReplicas, used>>

(* A secret that is found is kept, one that Create meets is an error:      *)
(* constructMinioTenant returns nil, and the caller drops the error.       *)
reconcileMinioTenantConfigSecret(w) ==
  \/ GetCached(w, "minioConfigGet", "minioConfigSecret", "minioUserGet", "minioConfigCreate")
  \/ CreateObject(w, "minioConfigCreate", "minioConfigSecret", Body(w), "minioUserGet", "tenantGetNil")

(* GenerateCredentials: the keys are new, so they are named after w.       *)
reconcileMinioNewUserSecret(w) ==
  \/ GetCached(w, "minioUserGet", "minioUserSecret", "tenantGet", "minioUserCreate")
  \/ CreateObject(w, "minioUserCreate", "minioUserSecret",
                  [Body(w) EXCEPT !.cred = w], "tenantGet", "tenantGetNil")

\* The Tenant created from whatever constructMinioTenant returned.
reconcileMinioTenantUnchecked(w) ==
  \/ reconcileMinioTenantConfigSecret(w)
  \/ reconcileMinioNewUserSecret(w)
  \/ GetObject(w, "tenantGet", "tenant", "done", "tenantCreate")
  \/ GetObject(w, "tenantGetNil", "tenant", "done", "tenantCreate")
  \/ CreateObject(w, "tenantCreate", "tenant", Body(w), "done", "failed")

(* Between the secrets and the Tenant the DirectPV nodes are listed, which *)
(* changes nothing.  With a nil Tenant the Get still decides: a Tenant     *)
(* that exists is a success, otherwise there is nothing to create.         *)
reconcileMinioTenant(w) ==
  \/ reconcileMinioTenantConfigSecret(w)
  \/ reconcileMinioNewUserSecret(w)
  \/ GetObject(w, "tenantGet", "tenant", "done", "tenantCreate")
  \/ GetObject(w, "tenantGetNil", "tenant", "done", "failed")
  \/ CreateObject(w, "tenantCreate", "tenant", Body(w), "done", "failed")

(* Errors of the construct phase, getDirectPVNodesCount finding none among *)
(* them, lead to the nil Tenant.                                           *)
MinioErrors(w) ==
  \/ CallFails(w, {"minioConfigGet", "minioConfigCreate", "minioUserGet",
                   "minioUserCreate", "tenantGet"}, "tenantGetNil")
  \/ CallFails(w, {"tenantGet", "tenantGetNil", "tenantCreate"}, "failed")
  \/ CreateUnanswered(w, "minioConfigCreate", "minioConfigSecret", Body(w), "tenantGetNil")
  \/ CreateUnanswered(w, "minioUserCreate", "minioUserSecret",
                      [Body(w) EXCEPT !.cred = w], "tenantGetNil")
  \/ CreateUnanswered(w, "tenantCreate", "tenant", Body(w), "failed")

-----------------------------------------------------------------------------
(* getMinioExposedInfo: poll for the service named "minio" of the          *)
(* namespace, then for the user secret, back to the service while there is *)
(* no secret.                                                              *)
MinioService(k) ==
  {e \in Keys : NamespaceOf[e] = NamespaceOf[k] /\ Live(e, "minio")}

getMinioExposedInfo(w, svc, secret, next) ==
  \/ /\ Goto(w, svc, secret)
     /\ \E e \in MinioService(KeyOf(w)) : local' = [local EXCEPT ![w].endpoint = e]
     /\ UNCHANGED <<Outside, objs, items, MetastoreReplicas, used>>
  \/ /\ Goto(w, secret, next)
     /\ Exists(KeyOf(w), "minioUserSecret")
     /\ local' = [local EXCEPT ![w].cred = objs[KeyOf(w)]["minioUserSecret"].cred]
     /\ UNCHANGED <<Outside, objs, items, MetastoreReplicas, used>>
  \/ WaitFor(w, secret, ~ Exists(KeyOf(w), "minioUserSecret"), svc)

(* An error other than NotFound is logged, and what was to be read stays   *)
(* as it was: empty.                                                       *)
getMinioExposedInfoErrors(w, svc, secret, next) ==
  CallFails(w, {svc}, secret) \/ CallFails(w, {secret}, next)

(* The server behind the endpoint takes the keys w read.                   *)
MinioAccepts(w) ==
  /\ local[w].endpoint # None /\ local[w].cred # None
  /\ local[w].cred = objs[local[w].endpoint]["minioUserSecret"].cred

(* createMinioBucketAndFolder: an empty endpoint is refused; the bucket is *)
(* looked for and made until that succeeds; the folder once.               *)
createMinioBucketAndFolder(w, bucket, folder, next) ==
  \/ WaitFor(w, bucket, local[w].endpoint = None, "failed")
  \/ WriteItem(w, bucket, "minio", "bucket", folder) /\ MinioAccepts(w)
  \/ WriteItem(w, folder, "minio", "folder", next)
=============================================================================
