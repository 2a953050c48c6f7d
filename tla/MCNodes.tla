------------------------------- MODULE MCNodes -------------------------------
(* An instance of Nodes for TLC: node a is named like its instance, node b *)
(* is the hostname of an instance with a dot in its name.                  *)
EXTENDS Nodes

MCNodeNames == {"a", "b"}
MCVMINames == {"a", "v.b"}
MCHostname == [v \in MCVMINames |-> IF v = "a" THEN "a" ELSE "b"]
MCInstanceOf == [n \in MCNodeNames |-> IF n = "a" THEN "a" ELSE "v.b"]
MCInstanceLabel == [n \in MCNodeNames |-> None]
MCDotted == {"v.b"}
MCPool == [v \in MCVMINames |-> IF v = "a" THEN {2, 4} ELSE {3}]
MCIPs == 1..5
MCReachable == 2..5

TCP80 == [port |-> 80, protocol |-> "TCP", nodePort |-> 30080]
UDP53 == [port |-> 53, protocol |-> "UDP", nodePort |-> 30053]
Plain == [ports |-> <<TCP80>>, path |-> None, method |-> None]
Grown == [ports |-> <<UDP53, TCP80>>, path |-> None, method |-> None]
Routed == [ports |-> <<TCP80>>, path |-> "/api", method |-> "TRACE"]

Server == [scheme |-> "http", host |-> "server", port |-> ""]
Full == [kubeconfig |-> "file", namespace |-> "tenant", rpcServerAddr |-> Server]
Https == [instancesEnabled |-> FALSE, rpcServerAddr |-> [Server EXCEPT !.scheme = "https"]]
NoServer == [instancesEnabled |-> FALSE, kubeconfig |-> "file", eps |-> TRUE]
NoNodes == [instancesEnabled |-> FALSE, eps |-> TRUE,
            rpcServerAddr |-> [Server EXCEPT !.scheme = "none", !.port = "9000"]]
OnlyNodes == [lbEnabled |-> FALSE]
Unreadable == [kubeconfig |-> "missing"]

MCPaths == {"", "/api"}
MCSpecs == {Plain, Grown, Routed}
MCFiles == {Full, Https, NoServer, NoNodes, OnlyNodes, Unreadable, Garbled}
=============================================================================
