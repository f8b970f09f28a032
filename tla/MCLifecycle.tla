---------------------------- MODULE MCLifecycle ----------------------------
(* Instances of Lifecycle for TLC.                                          *)
EXTENDS Lifecycle

CONSTANTS old, new

(* A rollout from one release to the next.                                  *)
Rollout == [r \in Replicas |-> IF r = new THEN 2 ELSE 1]
=============================================================================
