-------------------------- MODULE ServiceRefinement --------------------------
(***************************************************************************)
(* The composition of service controller, provider and LoadBalancer API    *)
(* keeps the promise of module ServicePromise.  The load balancer a        *)
(* Service holds is not recorded anywhere in the cluster: it is whichever  *)
(* row of the API server holds resources.                                  *)
(***************************************************************************)
EXTENDS ServiceController

heldRow == IF \E k \in Attempts : Live(k)
             THEN CHOOSE k \in Attempts : Live(k) ELSE None

Promise == INSTANCE ServicePromise WITH
    LBs <- Attempts,
    present <- svc.present,
    held <- heldRow,
    used <- {k \in Attempts : Created(k)},
    published <- svc.status

(* Every step of syncService, nodeSyncService, the provider and the API    *)
(* server is a step of the promise or changes nothing it speaks of, in     *)
(* every order of the two workers and with every RPC and every write that  *)
(* may fail: no creation before the last load balancer was released, no    *)
(* load balancer used twice, no address published that is not held, no     *)
(* status cleared and no Service let go while one is held.                 *)
KeepsPromise == Promise!Spec
=============================================================================
