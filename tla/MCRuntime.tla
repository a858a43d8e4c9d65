----------------------------- MODULE MCRuntime ------------------------------
(* The runtime with two application threads.                               *)
EXTENDS Runtime, TLC

CONSTANTS t1, t2

(* The second thread also drives the lifecycle, while the first one stops, *)
(* logs in or transfers, and saves when the activity goes to the           *)
(* background.                                                             *)
TwoLifecycleThreads ==
  t1 :> {"start", "login", "stop", "transfer"} @@ t2 :> {"start", "prepare", "stop"}
=============================================================================
