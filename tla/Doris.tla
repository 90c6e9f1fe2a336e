------------------------------- MODULE Doris --------------------------------
(***************************************************************************)
(* The worker of a "doris" entry (doris.go).                               *)
(***************************************************************************)
EXTENDS Kube

(* constructDorisCluster fails without frontend and backend entries; the   *)
(* error is dropped and nil goes on.                                       *)
DorisStart(w) ==
  IF getFEAndBEClusterInfo(SpecOf(w), EntryOf(w)) THEN "dorisGet" ELSE "dorisGetNil"

reconcileDorisCluster(w) ==
  \/ GetObject(w, "dorisGet", "doris", "done", "dorisCreate")
  \/ GetObject(w, "dorisGetNil", "doris", "done", "failed")
  \/ CreateObject(w, "dorisCreate", "doris", Body(w), "done", "failed")

DorisErrors(w) ==
  \/ CallFails(w, {"dorisGet", "dorisGetNil", "dorisCreate"}, "failed")
  \/ CreateUnanswered(w, "dorisCreate", "doris", Body(w), "failed")
=============================================================================
