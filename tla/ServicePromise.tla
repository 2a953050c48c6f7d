--------------------------- MODULE ServicePromise ---------------------------
(***************************************************************************)
(* What the cloud provider promises the owner of a Service, without saying *)
(* how: the Service holds at most one load balancer at a time, every load  *)
(* balancer is held once, the address in the status is that of a load      *)
(* balancer that was held when it was published and it is withdrawn only   *)
(* when none is held any more, and a Service that is gone holds none.      *)
(***************************************************************************)

CONSTANTS
    LBs,            \* the load balancers the Service may be given
    None

VARIABLES
    present,        \* the Service exists
    held,           \* the load balancer it holds, or None
    used,           \* load balancers it holds or has held
    published       \* the load balancer its status names, or None

promiseVars == <<present, held, used, published>>

Init == /\ present = TRUE
        /\ held = None /\ used = {} /\ published = None

Acquire(k) ==
    /\ present /\ held = None /\ k \notin used
    /\ held' = k /\ used' = used \cup {k}
    /\ UNCHANGED <<present, published>>

Release ==
    /\ held # None
    /\ held' = None
    /\ UNCHANGED <<present, used, published>>

Publish ==
    /\ present /\ held # None
    /\ published' = held
    /\ UNCHANGED <<present, held, used>>

Withdraw ==
    /\ held = None
    /\ published' = None
    /\ UNCHANGED <<present, held, used>>

Gone ==
    /\ present /\ held = None
    /\ present' = FALSE /\ published' = None
    /\ UNCHANGED <<held, used>>

Next == (\E k \in LBs : Acquire(k)) \/ Release \/ Publish \/ Withdraw \/ Gone

Spec == Init /\ [][Next]_promiseVars
=============================================================================
