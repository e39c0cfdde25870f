------------------------------ MODULE MCIngestion ------------------------------
(* Ingestion on a small instance: two managers and two readers that share     *)
(* five edges the way launch_edge_readers does: the last takes the rest.      *)
EXTENDS Ingestion, TLC
CONSTANTS p1, p2
TwoManagers == {0, 1}
TwoAndThree == p1 :> 2 @@ p2 :> 3
===============================================================================
