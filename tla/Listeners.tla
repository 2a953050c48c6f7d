------------------------------ MODULE Listeners ------------------------------
(***************************************************************************)
(* pkg/provider/loadbalancer.go: from a Service and a list of nodes to the *)
(* listeners of the LoadBalancer API.  Everything here is a function of    *)
(* its arguments.  Messages are records with the fields the provider sets; *)
(* fields it always leaves at one value (weight, algorithm, thresholds,    *)
(* TLS) are left out.                                                      *)
(*                                                                         *)
(* Addresses are numbers, so that they have the order normalizeEndpoints   *)
(* sorts by; which of them other machines can reach is a constant.         *)
(***************************************************************************)
EXTENDS Integers, Sequences, FiniteSets, SequencesExt

CONSTANTS
    IPs,            \* addresses, a set of numbers
    Reachable,      \* those that are routable
    Paths,          \* values of the route path annotation
    None            \* absent annotation, id not assigned, empty string

(* No link-local, loopback or unspecified address.                         *)
isUsableNodeIP(ip) == ip \in Reachable

-----------------------------------------------------------------------------
(* Enumerations and messages (gen/loadbalancer.pb.go).                     *)

Protocol == {"TCP", "UDP", "HTTP"}

HttpMethod == {"GET", "POST", "PUT", "DELETE", "PATCH", "HEAD", "OPTIONS"}

BackendRef == [ip : IPs, port : Nat]

(* The annotation's value stands for the path.                             *)
HttpRouteMatch == [path : Paths \cup {None}, method : HttpMethod \cup {None}]

RuleBackend(ids) == [id : ids, endpoints : Seq(BackendRef)]

HealthMonitor == [path : Paths \cup {None, "/"}, method : HttpMethod \cup {None}]

ListenerRule(ids) == [id : ids, matches : Seq(HttpRouteMatch),
                      backends : Seq(RuleBackend(ids)), monitor : HealthMonitor]

Listener(ids) == [id : ids, port : Nat, protocol : Protocol,
                  rules : Seq(ListenerRule(ids))]

-----------------------------------------------------------------------------
(* Endpoints.                                                              *)

(* The elements of S in an order.                                          *)
Sorted(S, before(_, _)) ==
    CHOOSE s \in [1..Cardinality(S) -> S] :
        \A i, j \in DOMAIN s : i < j => before(s[i], s[j])

(* The elements of s at the places in I, in their order.                   *)
At(s, I) ==
    LET place == Sorted(I, LAMBDA i, j : i < j)
    IN  [k \in DOMAIN place |-> s[place[k]]]

(* The first element of s with a property, as a set of at most one.        *)
firstWith(s, P(_)) ==
    {s[i] : i \in {i \in DOMAIN s : P(s[i]) /\ \A k \in 1..(i - 1) : ~P(s[k])}}

(* The first usable address in the interface's list; its single IP field   *)
(* when the list has none.                                                 *)
interfaceIP(iface) ==
    LET listed == firstWith(iface.ips, isUsableNodeIP)
    IN  IF listed # {} THEN listed ELSE {ip \in {iface.ip} : isUsableNodeIP(ip)}

(* The address of the first interface named "default", or the empty set.   *)
defaultInterfaceIP(ifs) ==
    UNION {interfaceIP(iface) : iface \in firstWith(ifs, LAMBDA i : i.name = "default")}

(* vmis: the instances the label selector finds, in any order.             *)
buildEndpointsFromVMI(port, vmis) ==
    FlattenSeq([i \in DOMAIN vmis |->
        SetToSeq({[ip |-> ip, port |-> port.nodePort] : ip \in defaultInterfaceIP(vmis[i].ifs)})])

(* Element i of s occurs there for the first time.                         *)
New(s, i) == \A j \in 1..(i - 1) : s[j] # s[i]

(* Mutant: duplicates are dropped and nothing is sorted.                   *)
firstOccurrences(endpoints) == At(endpoints, {i \in DOMAIN endpoints : New(endpoints, i)})

(* Duplicate ip:port pairs are dropped and the rest is sorted.             *)
normalizeEndpoints(endpoints) ==
    Sorted(ToSet(endpoints),
           LAMBDA d, e : d.ip < e.ip \/ (d.ip = e.ip /\ d.port < e.port))

(* The usable addresses of one type, node by node.                         *)
addressesOfType(type, port, nodes) ==
    LET endpoint(a) == IF a.type = type /\ isUsableNodeIP(a.ip)
                         THEN <<[ip |-> a.ip, port |-> port.nodePort]>> ELSE <<>>
        ofNode(addrs) == FlattenSeq([j \in DOMAIN addrs |-> endpoint(addrs[j])])
    IN  FlattenSeq([i \in DOMAIN nodes |-> ofNode(nodes[i].addrs)])

(* Internal addresses; external ones when there is none; those of the      *)
(* instances when no node has either (the cluster has a name).             *)
buildEndpoints(port, nodes, vmis) ==
    LET internal == addressesOfType("InternalIP", port, nodes)
        external == addressesOfType("ExternalIP", port, nodes)
    IN  normalizeEndpoints(CASE internal # <<>> -> internal
                             [] internal = <<>> /\ external # <<>> -> external
                             [] OTHER -> buildEndpointsFromVMI(port, vmis))

-----------------------------------------------------------------------------
(* Listeners.                                                              *)

Set(value) == value \notin {None, ""}

(* Mutant: the annotation is taken as it is.                               *)
unparsedMethod(method) == method

(* A method the API does not know becomes GET (letter case is left out).   *)
parseHTTPMethod(method) == IF method \in HttpMethod THEN method ELSE "GET"

(* UDP stays UDP; the path annotation, even an empty one, makes HTTP of    *)
(* everything else.                                                        *)
listenerProtocol(service, port) ==
    CASE port.protocol = "UDP" -> "UDP"
      [] port.protocol # "UDP" /\ service.path # None -> "HTTP"
      [] OTHER -> "TCP"

(* The single rule of a listener.  A match constrains something or is not  *)
(* there; the health monitor of an HTTP rule has defaults.                 *)
buildRule(service, protocol, endpoints) ==
    LET path == IF Set(service.path) THEN service.path ELSE None
        method == IF Set(service.method) THEN parseHTTPMethod(service.method) ELSE None
        http == protocol = "HTTP"
    IN  [id |-> None,
         backends |-> <<[id |-> None, endpoints |-> endpoints]>>,
         matches |-> IF http /\ (path # None \/ method # None)
                       THEN <<[path |-> path, method |-> method]>> ELSE <<>>,
         monitor |-> IF http THEN [path |-> IF path = None THEN "/" ELSE path,
                                   method |-> IF method = None THEN "GET" ELSE method]
                     ELSE [path |-> None, method |-> None]]

(* One listener per port, in the order of the ports.                       *)
buildListeners(service, nodes, vmis) ==
    [i \in DOMAIN service.ports |->
        LET port == service.ports[i]
            protocol == listenerProtocol(service, port)
        IN  [id |-> None, port |-> port.port, protocol |-> protocol,
             rules |-> <<buildRule(service, protocol, buildEndpoints(port, nodes, vmis))>>]]

validateListeners(listeners) ==
    /\ listeners # <<>>
    /\ \A i \in DOMAIN listeners : \A j \in DOMAIN listeners[i].rules :
         \A k \in DOMAIN listeners[i].rules[j].backends :
            listeners[i].rules[j].backends[k].endpoints # <<>>

listenerKey(l) == <<l.port, l.protocol>>

(* Rule and backend keep their place when both sides have exactly one.     *)
mergeRule(want, have) ==
    LET merged == [want EXCEPT !.id = have.id]
    IN  IF Len(want.backends) = 1 /\ Len(have.backends) = 1
          THEN [merged EXCEPT !.backends[1].id = have.backends[1].id] ELSE merged

mergeListener(want, have) ==
    LET merged == [want EXCEPT !.id = have.id]
    IN  IF Len(want.rules) = 1 /\ Len(have.rules) = 1
          THEN [merged EXCEPT !.rules[1] = mergeRule(@, have.rules[1])] ELSE merged

(* Mutant: only the first listener keeps its identifiers.                  *)
mergeFirstOnly(desired, current) ==
    [i \in DOMAIN desired |->
        IF i = 1 /\ current # <<>> /\ listenerKey(current[1]) = listenerKey(desired[1])
          THEN mergeListener(desired[1], current[1]) ELSE desired[i]]

(* The identifiers the server assigned, by port and protocol; of several   *)
(* current listeners with one key the last counts.                         *)
mergeListenerIDs(desired, current) ==
    [i \in DOMAIN desired |->
        LET same == {k \in DOMAIN current : listenerKey(current[k]) = listenerKey(desired[i])}
        IN  IF same = {} THEN desired[i] ELSE mergeListener(desired[i], current[Max(same)])]

(* SHA-256 of the marshalled list, taken as injective.                     *)
listenersHashStr(listeners) == <<"sha256", listeners>>
=============================================================================
