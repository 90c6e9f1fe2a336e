------------------------------ MODULE Database ------------------------------
(***************************************************************************)
(* The worker of a "database" entry (postgresql.go): two secrets, then the *)
(* CloudNativePG Cluster that refers to them.  Also the wait every client  *)
(* of the database goes through.                                           *)
(***************************************************************************)
EXTENDS Kube

(* reconcileDatabaseCluster: mysql, or any other subtype, is left alone.   *)
DatabaseStart(w) == IF DbType(EntryOf(w)) = "postgres" THEN "pgUserGet" ELSE "done"

\* The secret created without being looked for, AlreadyExists an error.
reconcilePGInitDBUserSecretStrict(w) ==
  CreateObject(w, "pgUserGet", "pgUserSecret", Body(w), "pgSuperGet", "failed")

(* An existing secret, found or met by Create, is as good as a new one.    *)
reconcilePGInitDBUserSecret(w) ==
  \/ GetCached(w, "pgUserGet", "pgUserSecret", "pgSuperGet", "pgUserCreate")
  \/ CreateObject(w, "pgUserCreate", "pgUserSecret", Body(w), "pgSuperGet", "pgSuperGet")

reconcilePGSuperUserSecret(w) ==
  \/ GetCached(w, "pgSuperGet", "pgSuperSecret", "pgGet", "pgSuperCreate")
  \/ CreateObject(w, "pgSuperCreate", "pgSuperSecret", Body(w), "pgGet", "pgGet")

(* The Cluster itself: AlreadyExists is an error.                          *)
reconcilePGCluster(w) ==
  \/ reconcilePGInitDBUserSecret(w)
  \/ reconcilePGSuperUserSecret(w)
  \/ GetObject(w, "pgGet", "pg", "done", "pgCreate")
  \/ CreateObject(w, "pgCreate", "pg", Body(w), "done", "failed")

(* Every error ends the worker.                                            *)
DatabaseErrors(w) ==
  \/ CallFails(w, {"pgUserGet", "pgUserCreate", "pgSuperGet", "pgSuperCreate",
                   "pgGet", "pgCreate"}, "failed")
  \/ CreateUnanswered(w, "pgUserCreate", "pgUserSecret", Body(w), "failed")
  \/ CreateUnanswered(w, "pgSuperCreate", "pgSuperSecret", Body(w), "failed")
  \/ CreateUnanswered(w, "pgCreate", "pg", Body(w), "failed")

(* getPGRWSvcNameWithSync polls until the read-write service has an        *)
(* address and three pods are ready; an error of the poll counts as not    *)
(* ready.                                                                  *)
getPGRWSvcNameWithSync(w) == Live(KeyOf(w), "pg")
=============================================================================
