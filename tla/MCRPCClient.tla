---------------------------- MODULE MCRPCClient ----------------------------
(* Instance of RPCClient for TLC. *)
EXTENDS RPCClient

CONSTANTS c1, c2

MCConfigs == {c1, c2}
(* Reads take the same path as a write that changes nothing.               *)
MCOps == AllOps \ {"GetLoadBalancer", "ListLoadBalancers"}
=============================================================================
