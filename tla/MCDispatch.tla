----------------------------- MODULE MCDispatch -----------------------------
(* Instances of Dispatch for TLC.                                          *)
EXTENDS Dispatch

(* Two NineClusters of different namespaces whose unique names differ.     *)
MCClusters == {[ns |-> <<"dev">>, name |-> <<"house">>],
               [ns |-> <<"prod">>, name |-> <<"house">>]}

MCOneCluster == {[ns |-> <<"dev">>, name |-> <<"house">>]}

MCOneType == <<"metastore">>
=============================================================================
