-------------------------------- MODULE LBApi --------------------------------
(***************************************************************************)
(* The external LoadBalancer API (loadbalancer.v1.LoadBalancerService), as *)
(* far as the cloud provider in pkg/provider depends on it.                *)
(*                                                                         *)
(* A load balancer is named by the creation attempt that asked for it.     *)
(* createIdempotencyKey gives attempt 0 the Service UID and attempt n > 0  *)
(* a UUID derived from the UID and n; the server answers a repeated key    *)
(* with the creation it already knows.  Key, attempt and load balancer id  *)
(* are therefore in one-to-one correspondence and share one number.        *)
(*                                                                         *)
(* A listener list is a pair: the port specification it renders and the    *)
(* node set its endpoints come from.  Two lists are the same value exactly *)
(* when they marshal to the same JSON.                                     *)
(***************************************************************************)
EXTENDS Integers

CONSTANTS
    Attempts,       \* creation attempts the model can tell apart
    Ports,          \* versions of the Service's port specification
    NodeSets,       \* node sets with at least one usable endpoint
    None,           \* absent annotation, absent listener list
    IpType,         \* getEffectiveIpType: "external", "internal" or "both"
    PurgeDeleted    \* the server forgets deleted rows and answers NOT_FOUND

VARIABLE lbs        \* lbs[k]: what the server holds for attempt k

Listeners == Ports \X NodeSets

(* PENDING, PROVISIONING and UPDATING are one state: the provider treats   *)
(* them alike.  "none" was never created; "purged" answers NOT_FOUND.      *)
LBState == {"none", "provisioning", "ready", "failed",
            "deleting", "deleted", "purged"}

LB == [state : LBState, fip : BOOLEAN, cfg : Listeners \cup {None}]

LBInit == lbs = [k \in Attempts |-> [state |-> "none", fip |-> FALSE, cfg |-> None]]

(* The load balancer holds network resources nobody asked to release.      *)
Live(k) == lbs[k].state \in {"provisioning", "ready", "failed"}

(* GetLoadBalancer(k) answers with a row rather than NOT_FOUND.            *)
Known(k) == lbs[k].state \notin {"none", "purged"}

(* READY with an address, the condition both EnsureLoadBalancer and        *)
(* pollLoadBalancerReady start from.                                       *)
Ready(k) == lbs[k].state = "ready"

isFipEnabled == IpType \in {"external", "both"}

FipSettled(k) == isFipEnabled => lbs[k].fip

-----------------------------------------------------------------------------
(* Effects of the calls, on the server.                                    *)

ApiCreate(k, listeners) ==
    lbs' = IF lbs[k].state = "none"
             THEN [lbs EXCEPT ![k] = [state |-> "provisioning", fip |-> FALSE,
                                      cfg |-> listeners]]
             ELSE lbs

ApiUpdate(k, listeners) ==
    lbs' = [lbs EXCEPT ![k].state = "provisioning", ![k].cfg = listeners]

(* DeleteLoadBalancer marks the row DELETING and returns; NOT_FOUND and a  *)
(* row already being deleted change nothing.                               *)
ApiDelete(k) ==
    lbs' = IF Live(k) THEN [lbs EXCEPT ![k].state = "deleting"] ELSE lbs

-----------------------------------------------------------------------------
(* What the server does on its own.                                        *)

Provisioned(k) ==
    /\ lbs[k].state = "provisioning"
    /\ \E outcome \in {"ready", "failed"} : lbs' = [lbs EXCEPT ![k].state = outcome]

FipActivated(k) ==
    /\ isFipEnabled
    /\ Live(k) /\ ~lbs[k].fip
    /\ lbs' = [lbs EXCEPT ![k].fip = TRUE]

Deleted(k) ==
    /\ lbs[k].state = "deleting"
    /\ lbs' = [lbs EXCEPT ![k].state = "deleted"]

Purged(k) ==
    /\ PurgeDeleted
    /\ lbs[k].state = "deleted"
    /\ lbs' = [lbs EXCEPT ![k].state = "purged"]

ServerStep(k) == Provisioned(k) \/ FipActivated(k) \/ Deleted(k) \/ Purged(k)
=============================================================================
