--------------------------- MODULE ListenerProofs ---------------------------
(***************************************************************************)
(* What a sync sends: the types of module Nodes, and that the listener     *)
(* hash changes only with what the load balancer serves.                   *)
(***************************************************************************)
EXTENDS NodesProofs

-----------------------------------------------------------------------------
(* Endpoints in their order.                                               *)

InLine(E) == Sorted(E, LAMBDA d, e : d.ip < e.ip \/ (d.ip = e.ip /\ d.port < e.port))

(* Two different endpoints differ in the address or in the port, so that   *)
(* the order of normalizeEndpoints leaves no choice: every endpoint has    *)
(* its place, and none is lost.                                            *)
LEMMA AllInLine ==
    ASSUME NEW E, IsFiniteSet(E), E \subseteq BackendRef
    PROVE  InLine(E) \in Seq(E) /\ ToSet(InLine(E)) = E
<1> DEFINE before(d, e) == d.ip < e.ip \/ (d.ip = e.ip /\ d.port < e.port)
           c == Cardinality(E)
           R == {p \in E \X E : before(p[1], p[2])}
           s == InLine(E)
<1>1. \A d, e \in E : <<d, e>> \in R <=> before(d, e)
  OBVIOUS
<1>2. \A e \in E : e.ip \in Nat /\ e.port \in Nat /\ e = [ip |-> e.ip, port |-> e.port]
  <2>1. IPs \subseteq Nat
    BY NodesConstants
  <2>2. \A e \in E : e \in [ip : IPs, port : Nat]
    BY DEF BackendRef
  <2> HIDE DEF R
  <2> QED BY <2>1, <2>2
<1> HIDE DEF R
<1>3. Orders(R, E)
  <2>1. \A x \in E : <<x, x>> \notin R
    BY <1>1, <1>2
  <2>2. \A x, y, z \in E : <<x, y>> \in R /\ <<y, z>> \in R => <<x, z>> \in R
    BY <1>1, <1>2
  <2>3. \A x, y \in E : x # y => <<x, y>> \in R \/ <<y, x>> \in R
    BY <1>1, <1>2
  <2> QED BY <2>1, <2>2, <2>3 DEF Orders
<1>4. c \in Nat
  BY FS_CardinalityType
<1>5. s \in [1..c -> E] /\ \A k, l \in 1..c : k < l => before(s[k], s[l])
  <2>1. PICK f \in [1..c -> E] : \A k, l \in 1..c : k < l => <<f[k], f[l]>> \in R
    BY <1>3, CanBeListed
  <2>2. \A k, l \in DOMAIN f : k < l => before(f[k], f[l])
    BY <1>1, <2>1
  <2>3. \E f1 \in [1..c -> E] : \A k, l \in DOMAIN f1 : k < l => before(f1[k], f1[l])
    BY <2>2
  <2>4. s = CHOOSE f1 \in [1..c -> E] : \A k, l \in DOMAIN f1 : k < l => before(f1[k], f1[l])
    BY DEF InLine, Sorted
  <2> HIDE DEF s, before
  <2>5. s \in [1..c -> E] /\ \A k, l \in DOMAIN s : k < l => before(s[k], s[l])
    BY <2>3, <2>4
  <2> QED BY <2>5
<1> HIDE DEF s
<1>6. s \in Injection(1..c, E)
  <2>1. ASSUME NEW k \in 1..c, NEW l \in 1..c, s[k] = s[l] PROVE k = l
    <3>1. s[k] \in E /\ s[l] \in E
      BY <1>5
    <3>2. ~(k < l) /\ ~(l < k)
      BY <1>2, <1>5, <2>1, <3>1
    <3>3. k \in Nat /\ l \in Nat
      BY <1>4
    <3> QED BY <3>2, <3>3
  <2>2. DOMAIN s = 1..c
    BY <1>5
  <2> QED BY <1>5, <2>1, <2>2 DEF Injection, IsInjective
<1>7. s \in Surjection(1..c, E)
  <2>1. Cardinality(1..c) = c
    BY <1>4, FS_Interval
  <2> QED BY <1>6, <2>1, FS_Injection
<1>8. ToSet(s) = E
  BY <1>5, <1>7 DEF Surjection, ToSet
<1>9. s \in Seq(E)
  BY <1>4, <1>5
<1> QED BY <1>8, <1>9 DEF s

LEMMA ElementsAreFinite ==
    ASSUME NEW T, NEW s \in Seq(T)
    PROVE  IsFiniteSet(ToSet(s)) /\ ToSet(s) \subseteq T
<1>1. s \in [1..Len(s) -> ToSet(s)] /\ Len(s) \in Nat
  BY DEF ToSet
<1>2. s \in Surjection(1..Len(s), ToSet(s))
  BY <1>1 DEF Surjection, ToSet
<1>3. IsFiniteSet(1..Len(s))
  BY <1>1, FS_Interval
<1>4. IsFiniteSet(ToSet(s))
  BY <1>2, <1>3, FS_Surjection
<1>5. ToSet(s) \subseteq T
  BY DEF ToSet
<1> QED BY <1>4, <1>5

(* normalizeEndpoints neither adds nor loses an endpoint, and normalizing  *)
(* twice is normalizing once.                                              *)
LEMMA Normalized ==
    ASSUME NEW raw \in Seq(BackendRef)
    PROVE  LET e == normalizeEndpoints(raw)
           IN  /\ e \in Seq(BackendRef) /\ ToSet(e) = ToSet(raw)
               /\ normalizeEndpoints(e) = e
<1> DEFINE E == ToSet(raw)
           e == normalizeEndpoints(raw)
<1>1. e = InLine(E)
  BY DEF normalizeEndpoints, InLine
<1>2. IsFiniteSet(E) /\ E \subseteq BackendRef
  BY ElementsAreFinite
<1>3. e \in Seq(E) /\ ToSet(e) = E
  <2> HIDE DEF E, e
  <2> QED BY <1>1, <1>2, AllInLine
<1>4. e \in Seq(BackendRef)
  <2> HIDE DEF E, e
  <2> QED BY <1>2, <1>3
<1>5. normalizeEndpoints(e) = InLine(ToSet(e))
  BY DEF normalizeEndpoints, InLine
<1> QED BY <1>1, <1>3, <1>4, <1>5

(* Normalized lists with the same endpoints are equal.                     *)
LEMMA NormalFormIsUnique ==
    ASSUME NEW d, NEW e, normalizeEndpoints(d) = d, normalizeEndpoints(e) = e,
           ToSet(d) = ToSet(e)
    PROVE  d = e
BY DEF normalizeEndpoints
-----------------------------------------------------------------------------
(* Lists of lists.  The recursive function of FlattenSeq exists, since it  *)
(* can be continued from every place to the next, and its values are       *)
(* lists, since no place is the first where one is not.                    *)
LEMMA Flattened ==
    ASSUME NEW T, NEW ss \in Seq(Seq(T))
    PROVE  FlattenSeq(ss) \in Seq(T)
<1> DEFINE n == Len(ss)
           next(F, i) == IF i = 1 THEN ss[i] ELSE F[i - 1] \o ss[i]
           Upto(k, g) == g \in [1..k -> Seq(T)] /\ \A i \in 1..k : g[i] = next(g, i)
           Stuck == {k \in Nat : k <= n /\ ~ \E g : Upto(k, g)}
<1>1. n \in Nat /\ \A i \in 1..n : ss[i] \in Seq(T)
  OBVIOUS
<1>2. Stuck = {}
  <2> SUFFICES ASSUME Stuck # {} PROVE FALSE
    OBVIOUS
  <2>1. PICK k \in Stuck : \A l \in Stuck : k <= l
    <3>1. Stuck \subseteq Nat
      OBVIOUS
    <3> HIDE DEF Stuck
    <3> QED BY <3>1, NatMin
  <2>2. k \in Nat /\ k <= n /\ ~ \E g : Upto(k, g)
    BY <2>1
  <2>3. k # 0
    <3> DEFINE g == [i \in 1..0 |-> <<>>]
    <3>1. Upto(0, g)
      OBVIOUS
    <3> QED BY <2>2, <3>1
  <2>4. k - 1 \in Nat /\ k - 1 <= n /\ ~(k <= k - 1)
    <3> HIDE DEF n, Upto
    <3> QED BY <1>1, <2>2, <2>3
  <2>5. PICK g : Upto(k - 1, g)
    <3>1. k - 1 \notin Stuck
      <4> HIDE DEF Stuck
      <4> QED BY <2>1, <2>4
    <3> HIDE DEF Upto, n
    <3> QED BY <2>4, <3>1
  <2> DEFINE h == [i \in 1..k |-> IF i = k THEN next(g, k) ELSE g[i]]
  <2>6. next(g, k) \in Seq(T)
    <3>1. ss[k] \in Seq(T)
      BY <1>1, <2>2, <2>3
    <3>2. CASE k = 1
      BY <3>1, <3>2
    <3>3. CASE k # 1
      <4>1. g[k - 1] \in Seq(T)
        BY <2>2, <2>3, <2>5, <3>3
      <4> QED BY <3>1, <3>3, <4>1
    <3> QED BY <3>2, <3>3
  <2>7. h \in [1..k -> Seq(T)]
    <3>1. \A i \in 1..k : i # k => i \in 1..(k - 1)
      BY <2>2, <2>3
    <3> HIDE DEF next
    <3> QED BY <2>5, <2>6, <3>1
  <2>8. \A i \in 1..k : h[i] = next(h, i)
    <3> SUFFICES ASSUME NEW i \in 1..k PROVE h[i] = next(h, i)
      OBVIOUS
    <3>1. next(h, i) = next(g, i)
      <4>1. CASE i = 1
        BY <4>1
      <4>2. CASE i # 1
        <5>1. i - 1 \in 1..k /\ i - 1 # k
          BY <2>2, <4>2
        <5>2. h[i - 1] = g[i - 1]
          <6> HIDE DEF next
          <6> QED BY <5>1
        <5> HIDE DEF h
        <5> QED BY <4>2, <5>2
      <4> QED BY <4>1, <4>2
    <3>2. h[i] = IF i = k THEN next(g, k) ELSE g[i]
      <4> HIDE DEF next
      <4> QED OBVIOUS
    <3>3. i # k => g[i] = next(g, i)
      <4>1. i # k => i \in 1..(k - 1)
        BY <2>2
      <4> HIDE DEF next
      <4> QED BY <2>5, <4>1
    <3> HIDE DEF h, next
    <3> QED BY <3>1, <3>2, <3>3
  <2> HIDE DEF h, next
  <2> QED BY <2>2, <2>7, <2>8
<1>3. PICK g : Upto(n, g)
  <2>1. n \notin Stuck /\ n <= n
    <3> HIDE DEF Stuck, n
    <3> QED BY <1>1, <1>2
  <2> HIDE DEF Upto, n
  <2> QED BY <1>1, <2>1
<1> DEFINE flatten == CHOOSE F : F = [i \in 1..n |-> next(F, i)]
<1>4. g = [i \in 1..n |-> next(g, i)]
  <2> HIDE DEF next
  <2> QED BY <1>3
<1>5. flatten = [i \in 1..n |-> next(flatten, i)]
  <2>1. \E F : F = [i \in 1..n |-> next(F, i)]
    BY <1>4
  <2> QED BY <2>1, Zenon
<1>6. FlattenSeq(ss) = IF n = 0 THEN ss ELSE flatten[n]
  BY DEF FlattenSeq
<1> HIDE DEF flatten
<1>7. \A i \in 1..n : flatten[i] = next(flatten, i)
  <2> HIDE DEF next
  <2> QED BY <1>5
<1> DEFINE Wrong == {i \in 1..n : flatten[i] \notin Seq(T)}
<1>8. Wrong = {}
  <2> SUFFICES ASSUME Wrong # {} PROVE FALSE
    OBVIOUS
  <2>1. PICK k \in Wrong : \A l \in Wrong : k <= l
    <3>1. Wrong \subseteq Nat
      BY <1>1
    <3> HIDE DEF Wrong
    <3> QED BY <3>1, NatMin
  <2>2. k \in 1..n /\ flatten[k] \notin Seq(T)
    BY <2>1
  <2>3. CASE k = 1
    BY <1>1, <1>7, <2>2, <2>3
  <2>4. CASE k # 1
    <3>1. k - 1 \in 1..n /\ ~(k <= k - 1)
      BY <1>1, <2>2, <2>4
    <3>2. flatten[k - 1] \in Seq(T)
      BY <2>1, <3>1
    <3>3. flatten[k] = flatten[k - 1] \o ss[k]
      BY <1>7, <2>2, <2>4
    <3> QED BY <1>1, <2>2, <3>2, <3>3
  <2> QED BY <2>3, <2>4
<1>9. CASE n = 0
  <2>1. ss = <<>>
    BY <1>9
  <2> QED BY <1>6, <1>9, <2>1
<1>10. CASE n # 0
  <2>1. n \in 1..n
    BY <1>1, <1>10
  <2>2. flatten[n] \in Seq(T)
    BY <1>8, <2>1
  <2> QED BY <1>6, <1>10, <2>2
<1> QED BY <1>9, <1>10
-----------------------------------------------------------------------------
(* Endpoints come from nodes and instances.                                *)

LEMMA ListedOnce ==
    ASSUME NEW S, IsFiniteSet(S)
    PROVE  SetToSeq(S) \in [1..Cardinality(S) -> S] /\ Cardinality(S) \in Nat
<1>1. Cardinality(S) \in Nat /\ ExistsBijection(1..Cardinality(S), S)
  BY FS_CardinalityType
<1>2. \E f \in [1..Cardinality(S) -> S] : IsInjective(f)
  BY <1>1 DEF ExistsBijection, Bijection, Injection
<1> QED BY <1>1, <1>2 DEF SetToSeq

LEMMA VMIListed ==
    ASSUME NEW vs \in VMILists
    PROVE  \E n \in Nat : /\ DOMAIN vs = 1..n
                          /\ \A i \in 1..n : \E v \in VMINames : vs[i] = vmis[v]
<1> DEFINE S == {v \in VMINames : Exists(v)}
           q == SetToSeq(S)
           n == Cardinality(S)
<1>1. vs = [i \in DOMAIN q |-> vmis[q[i]]]
  BY DEF VMILists
<1>2. IsFiniteSet(S) /\ S \subseteq VMINames
  BY InstancesConstants, FS_Subset
<1>3. q \in [1..n -> S] /\ n \in Nat
  <2> HIDE DEF S
  <2> QED BY <1>2, ListedOnce
<1> HIDE DEF S, q, n
<1> QED BY <1>1, <1>2, <1>3

LEMMA NodeListed ==
    ASSUME NEW ns \in NodeLists
    PROVE  \E n \in Nat : /\ DOMAIN ns = 1..n
                          /\ \A i \in 1..n : \E m \in NodeNames : ns[i] = nodes[m]
<1> DEFINE n == Cardinality(Listed)
<1>1. PICK q \in [1..n -> Listed] : ns = [i \in DOMAIN q |-> nodes[q[i]]]
  BY DEF NodeLists, SetToSeqs
<1>2. IsFiniteSet(NodeNames)
  BY NodesConstants
<1>3. Listed \in SUBSET NodeNames
  BY DEF Listed
<1>4. n \in Nat
  BY <1>2, <1>3, FS_Subset, FS_CardinalityType
<1> HIDE DEF n
<1> QED BY <1>1, <1>3, <1>4

(* The address of an instance can be reached, and there is no more than    *)
(* the report holds.                                                       *)
LEMMA InstanceAddress ==
    ASSUME NEW v \in VMINames, NEW ifs \in Reports(v)
    PROVE  defaultInterfaceIP(ifs) \subseteq IPs /\ IsFiniteSet(defaultInterfaceIP(ifs))
<1>1. ASSUME NEW a \in defaultInterfaceIP(ifs)
      PROVE  /\ a \in Reachable
             /\ \E i \in DOMAIN ifs :
                   /\ ifs[i].name = "default"
                   /\ a = ifs[i].ip \/ \E j \in DOMAIN ifs[i].ips : a = ifs[i].ips[j]
  <2>1. PICK i \in DOMAIN ifs : ifs[i].name = "default" /\ a \in interfaceIP(ifs[i])
    BY <1>1 DEF defaultInterfaceIP, firstWith
  <2>2. a \in Reachable /\ (a = ifs[i].ip \/ \E j \in DOMAIN ifs[i].ips : a = ifs[i].ips[j])
    BY <2>1 DEF interfaceIP, firstWith, isUsableNodeIP
  <2> QED BY <2>1, <2>2
<1>2. Reachable \subseteq IPs
  BY NodesConstants
<1>3. \E ip : defaultInterfaceIP(ifs) \in SUBSET {LinkLocal, ip}
  <2>1. CASE ifs = <<>>
    BY <1>1, <2>1
  <2>2. ASSUME NEW ip, ifs = Interfaces(ip)
        PROVE  defaultInterfaceIP(ifs) \in SUBSET {LinkLocal, ip}
    <3>1. ASSUME NEW i \in DOMAIN ifs, ifs[i].name = "default"
          PROVE  ifs[i].ip = ip /\ \A j \in DOMAIN ifs[i].ips : ifs[i].ips[j] \in {LinkLocal, ip}
      <4>1. i = 1 \/ i = 2
        BY <2>2 DEF Interfaces
      <4>2. i # 1
        BY <2>2, <3>1 DEF Interfaces
      <4>3. /\ ifs[2].ip = ip
            /\ ifs[2].ips = <<>> \/ ifs[2].ips = <<LinkLocal, ip>>
        BY <2>2 DEF Interfaces
      <4> QED BY <4>1, <4>2, <4>3
    <3> QED BY <1>1, <3>1
  <2> QED BY <2>1, <2>2 DEF Reports
<1>4. \A x, y : IsFiniteSet({x, y})
  <2> SUFFICES ASSUME NEW x, NEW y PROVE IsFiniteSet({x, y})
    OBVIOUS
  <2>1. IsFiniteSet({x})
    BY FS_Singleton
  <2>2. IsFiniteSet({x} \cup {y})
    BY <2>1, FS_AddElement
  <2>3. {x, y} = {x} \cup {y}
    OBVIOUS
  <2> QED BY <2>2, <2>3
<1>5. IsFiniteSet(defaultInterfaceIP(ifs))
  BY <1>3, <1>4, FS_Subset
<1> QED BY <1>1, <1>2, <1>5

LEMMA EndpointsFromVMIs ==
    ASSUME VMIsOK, NEW vs \in VMILists, NEW port, port.nodePort \in Nat
    PROVE  buildEndpointsFromVMI(port, vs) \in Seq(BackendRef)
<1> DEFINE of(i) == {[ip |-> ip, port |-> port.nodePort] : ip \in defaultInterfaceIP(vs[i].ifs)}
           lists == [i \in DOMAIN vs |-> SetToSeq(of(i))]
<1>1. PICK n \in Nat : /\ DOMAIN vs = 1..n
                       /\ \A i \in 1..n : \E v \in VMINames : vs[i] = vmis[v]
  BY VMIListed
<1>2. ASSUME NEW i \in 1..n PROVE SetToSeq(of(i)) \in Seq(BackendRef)
  <2> DEFINE ips == defaultInterfaceIP(vs[i].ifs)
             f == [ip \in ips |-> [ip |-> ip, port |-> port.nodePort]]
  <2>1. PICK v \in VMINames : vs[i] = vmis[v]
    BY <1>1
  <2>2. ips \subseteq IPs /\ IsFiniteSet(ips)
    BY <2>1, InstanceAddress DEF VMIsOK
  <2>3. of(i) \subseteq BackendRef
    <3> HIDE DEF ips
    <3> QED BY <2>2 DEF BackendRef, ips
  <2>4. IsFiniteSet(of(i))
    <3>1. f \in Surjection(ips, of(i))
      <4> HIDE DEF ips
      <4>1. of(i) = {[ip |-> ip, port |-> port.nodePort] : ip \in ips}
        BY DEF ips
      <4> QED BY <4>1 DEF Surjection
    <3> HIDE DEF f, ips, of
    <3> QED BY <2>2, <3>1, FS_Surjection
  <2> HIDE DEF of
  <2>5. SetToSeq(of(i)) \in [1..Cardinality(of(i)) -> of(i)] /\ Cardinality(of(i)) \in Nat
    BY <2>4, ListedOnce
  <2>6. SetToSeq(of(i)) \in Seq(of(i))
    BY <2>5
  <2> QED BY <2>3, <2>6
<1>3. lists \in Seq(Seq(BackendRef))
  <2> HIDE DEF of
  <2> QED BY <1>1, <1>2
<1>4. buildEndpointsFromVMI(port, vs) = FlattenSeq(lists)
  BY DEF buildEndpointsFromVMI
<1> HIDE DEF lists
<1> QED BY <1>3, <1>4, Flattened

LEMMA EndpointsFromNodes ==
    ASSUME nodes \in [NodeNames -> Node], NEW ns \in NodeLists,
           NEW port, port.nodePort \in Nat, NEW type
    PROVE  addressesOfType(type, port, ns) \in Seq(BackendRef)
<1> DEFINE endpoint(a) == IF a.type = type /\ isUsableNodeIP(a.ip)
                            THEN <<[ip |-> a.ip, port |-> port.nodePort]>> ELSE <<>>
           each(addrs) == [j \in DOMAIN addrs |-> endpoint(addrs[j])]
           lists == [i \in DOMAIN ns |-> FlattenSeq(each(ns[i].addrs))]
<1>1. PICK n \in Nat : /\ DOMAIN ns = 1..n
                       /\ \A i \in 1..n : \E m \in NodeNames : ns[i] = nodes[m]
  BY NodeListed
<1>2. \A a : endpoint(a) \in Seq(BackendRef)
  <2>1. Reachable \subseteq IPs
    BY NodesConstants
  <2> SUFFICES ASSUME NEW a PROVE endpoint(a) \in Seq(BackendRef)
    OBVIOUS
  <2>2. CASE a.type = type /\ isUsableNodeIP(a.ip)
    <3>1. [ip |-> a.ip, port |-> port.nodePort] \in BackendRef
      BY <2>1, <2>2 DEF BackendRef, isUsableNodeIP
    <3> QED BY <2>2, <3>1
  <2>3. CASE ~(a.type = type /\ isUsableNodeIP(a.ip))
    BY <2>3
  <2> QED BY <2>2, <2>3
<1> HIDE DEF endpoint
<1>3. ASSUME NEW i \in 1..n PROVE FlattenSeq(each(ns[i].addrs)) \in Seq(BackendRef)
  <2>1. ns[i].addrs \in Seq(NodeAddress)
    BY <1>1 DEF Node
  <2>2. each(ns[i].addrs) \in Seq(Seq(BackendRef))
    BY <1>2, <2>1
  <2> HIDE DEF each
  <2> QED BY <2>2, Flattened
<1>4. lists \in Seq(Seq(BackendRef))
  <2> HIDE DEF each
  <2> QED BY <1>1, <1>3
<1>5. addressesOfType(type, port, ns) = FlattenSeq(lists)
  BY DEF addressesOfType, endpoint
<1> HIDE DEF lists
<1> QED BY <1>4, <1>5, Flattened

(* Whatever list the endpoints come from, they are typed and normalized.   *)
LEMMA EndpointsBuilt ==
    ASSUME VMIsOK, nodes \in [NodeNames -> Node], NEW ns \in NodeLists, NEW vs \in VMILists,
           NEW port, port.nodePort \in Nat
    PROVE  LET e == buildEndpoints(port, ns, vs)
           IN  e \in Seq(BackendRef) /\ normalizeEndpoints(e) = e
<1> DEFINE internal == addressesOfType("InternalIP", port, ns)
           external == addressesOfType("ExternalIP", port, ns)
           fromVMIs == buildEndpointsFromVMI(port, vs)
           raw == CASE internal # <<>> -> internal
                    [] internal = <<>> /\ external # <<>> -> external
                    [] OTHER -> fromVMIs
<1>1. internal \in Seq(BackendRef) /\ external \in Seq(BackendRef) /\ fromVMIs \in Seq(BackendRef)
  BY EndpointsFromNodes, EndpointsFromVMIs
<1>2. buildEndpoints(port, ns, vs) = normalizeEndpoints(raw)
  BY DEF buildEndpoints
<1> HIDE DEF internal, external, fromVMIs
<1>3. raw \in Seq(BackendRef)
  BY <1>1
<1> HIDE DEF raw
<1> QED BY <1>2, <1>3, Normalized
-----------------------------------------------------------------------------
(* Listeners.                                                              *)

(* The health monitor follows from the protocol and the match.             *)
monitorOf(protocol, matches) ==
    IF protocol # "HTTP" THEN [path |-> None, method |-> None]
    ELSE IF matches = <<>> THEN [path |-> "/", method |-> "GET"]
    ELSE [path |-> IF matches[1].path = None THEN "/" ELSE matches[1].path,
          method |-> IF matches[1].method = None THEN "GET" ELSE matches[1].method]

(* What a row may serve.                                                   *)
Sound(content) ==
    /\ content.key \in Nat \X Protocol
    /\ content.matches \in Seq(HttpRouteMatch)
    /\ content.monitor \in HealthMonitor
    /\ content.monitor = monitorOf(content.key[2], content.matches)
    /\ content.endpoints \in Seq(BackendRef)
    /\ normalizeEndpoints(content.endpoints) = content.endpoints

LEMMA RuleBuilt ==
    ASSUME NEW spec \in ServiceSpecs, NEW protocol, NEW endpoints
    PROVE  LET rule == buildRule(spec, protocol, endpoints)
           IN  /\ rule.matches \in Seq(HttpRouteMatch) /\ rule.monitor \in HealthMonitor
               /\ rule.monitor = monitorOf(protocol, rule.matches)
               /\ rule.backends[1].endpoints = endpoints
<1> DEFINE path == IF Set(spec.path) THEN spec.path ELSE None
           method == IF Set(spec.method) THEN parseHTTPMethod(spec.method) ELSE None
           rule == buildRule(spec, protocol, endpoints)
<1>1. spec.path \in Paths \cup {None}
  BY NodesConstants
<1>2. path \in Paths \cup {None} /\ method \in HttpMethod \cup {None}
  BY <1>1 DEF parseHTTPMethod, HttpMethod
<1> HIDE DEF path, method
<1>3. /\ rule.matches = IF protocol = "HTTP" /\ (path # None \/ method # None)
                          THEN <<[path |-> path, method |-> method]>> ELSE <<>>
      /\ rule.monitor = IF protocol = "HTTP"
                          THEN [path |-> IF path = None THEN "/" ELSE path,
                                method |-> IF method = None THEN "GET" ELSE method]
                          ELSE [path |-> None, method |-> None]
      /\ rule.backends[1].endpoints = endpoints
  BY DEF buildRule, path, method
<1> HIDE DEF rule
<1>4. rule.matches \in Seq(HttpRouteMatch)
  <2>1. [path |-> path, method |-> method] \in HttpRouteMatch
    BY <1>2 DEF HttpRouteMatch
  <2> QED BY <1>3, <2>1
<1>5. rule.monitor \in HealthMonitor
  <2>1. "GET" \in HttpMethod
    BY DEF HttpMethod
  <2> QED BY <1>2, <1>3, <2>1 DEF HealthMonitor
<1>6. rule.monitor = monitorOf(protocol, rule.matches)
  <2>1. CASE protocol # "HTTP"
    BY <1>3, <2>1 DEF monitorOf
  <2>2. CASE protocol = "HTTP" /\ path = None /\ method = None
    BY <1>3, <2>2 DEF monitorOf
  <2>3. CASE protocol = "HTTP" /\ (path # None \/ method # None)
    <3>1. /\ rule.matches # <<>> /\ rule.matches[1].path = path
          /\ rule.matches[1].method = method
      BY <1>3, <2>3
    <3> QED BY <1>3, <2>3, <3>1 DEF monitorOf
  <2> QED BY <2>1, <2>2, <2>3
<1> QED BY <1>3, <1>4, <1>5, <1>6 DEF rule

(* Every row a sync wants is sound.                                        *)
LEMMA WantedIsSound ==
    ASSUME VMIsOK, nodes \in [NodeNames -> Node], service.spec \in ServiceSpecs,
           NEW want \in WantedListeners, NEW j \in DOMAIN want
    PROVE  Sound(Serves(want[j]))
<1>1. PICK ns \in NodeLists, vs \in VMILists : want = buildListeners(service.spec, ns, vs)
  BY DEF WantedListeners
<1> DEFINE spec == service.spec
           port == spec.ports[j]
           protocol == listenerProtocol(spec, port)
           endpoints == buildEndpoints(port, ns, vs)
           rule == buildRule(spec, protocol, endpoints)
<1>2. j \in DOMAIN spec.ports /\ want[j] = [id |-> None, port |-> port.port,
                                            protocol |-> protocol, rules |-> <<rule>>]
  BY <1>1 DEF buildListeners
<1>3. port \in ServicePort
  <2>1. spec.ports \in Seq(ServicePort)
    BY NodesConstants
  <2> QED BY <1>2, <2>1
<1>4. port.port \in Nat /\ port.nodePort \in Nat
  BY <1>3 DEF ServicePort
<1>5. protocol \in Protocol
  BY DEF listenerProtocol, Protocol
<1>6. endpoints \in Seq(BackendRef) /\ normalizeEndpoints(endpoints) = endpoints
  BY <1>4, EndpointsBuilt
<1> HIDE DEF endpoints, protocol, port, spec
<1>7. /\ rule.matches \in Seq(HttpRouteMatch) /\ rule.monitor \in HealthMonitor
      /\ rule.monitor = monitorOf(protocol, rule.matches)
      /\ rule.backends[1].endpoints = endpoints
  BY RuleBuilt DEF spec
<1> HIDE DEF rule
<1> DEFINE content == Serves(want[j])
<1>8. /\ content.key = <<port.port, protocol>> /\ content.matches = rule.matches
      /\ content.monitor = rule.monitor /\ content.endpoints = endpoints
  BY <1>2, <1>7 DEF Serves, listenerKey
<1>9. content.key \in Nat \X Protocol /\ content.key[2] = protocol
  BY <1>4, <1>5, <1>8
<1> HIDE DEF content
<1>10. Sound(content)
  BY <1>6, <1>7, <1>8, <1>9 DEF Sound
<1> QED BY <1>10 DEF content

(* A sound row with identifiers is a listener of the API.                  *)
LEMMA SoundRowIsListener ==
    ASSUME NEW l, NEW id \in Ids, NEW ruleId \in Ids, NEW backendId \in Ids,
           Row(l, id, ruleId, backendId), Sound(Serves(l))
    PROVE  l \in Listener(Ids)
<1> DEFINE backend == [id |-> backendId, endpoints |-> l.rules[1].backends[1].endpoints]
           rule == [id |-> ruleId, backends |-> <<backend>>,
                    matches |-> l.rules[1].matches, monitor |-> l.rules[1].monitor]
<1>1. l = [id |-> id, port |-> l.port, protocol |-> l.protocol, rules |-> <<rule>>]
  BY DEF Row
<1> DEFINE content == Serves(l)
<1>2. /\ content.key = <<l.port, l.protocol>> /\ content.matches = l.rules[1].matches
      /\ content.monitor = l.rules[1].monitor
      /\ content.endpoints = l.rules[1].backends[1].endpoints
  BY DEF Serves, listenerKey
<1> HIDE DEF content
<1>3. /\ content.key \in Nat \X Protocol /\ content.matches \in Seq(HttpRouteMatch)
      /\ content.monitor \in HealthMonitor /\ content.endpoints \in Seq(BackendRef)
  BY DEF content, Sound
<1>4. /\ l.port \in Nat /\ l.protocol \in Protocol
      /\ l.rules[1].matches \in Seq(HttpRouteMatch)
      /\ l.rules[1].monitor \in HealthMonitor
      /\ l.rules[1].backends[1].endpoints \in Seq(BackendRef)
  BY <1>2, <1>3
<1>5. <<backend>> \in Seq(RuleBackend(Ids))
  <2>1. backend \in RuleBackend(Ids)
    BY <1>4 DEF RuleBackend
  <2> HIDE DEF backend
  <2> QED BY <2>1
<1>6. <<rule>> \in Seq(ListenerRule(Ids))
  <2> HIDE DEF backend
  <2>1. rule \in ListenerRule(Ids)
    BY <1>4, <1>5 DEF ListenerRule
  <2> HIDE DEF rule
  <2> QED BY <2>1
<1> DEFINE rules == <<rule>>
           row == [id |-> id, port |-> l.port, protocol |-> l.protocol, rules |-> rules]
<1> HIDE DEF rules
<1>7. row \in Listener(Ids)
  BY <1>4, <1>6 DEF Listener, rules
<1>8. l = row
  BY <1>1 DEF rules
<1> QED BY <1>7, <1>8
-----------------------------------------------------------------------------
(* Types.                                                                  *)

(* A process that starts runs with one of the wirings.                     *)
LEMMA StartedWith ==
    ASSUME file \in Files, startProcess(file) # Rejected
    PROVE  startProcess(file) \in Wiring
<1> DEFINE config == NewCloudConfigFromBytes(file)
           namespace == IF config.namespace = "" /\ config.kubeconfig # ""
                          THEN "default" ELSE config.namespace
           process == kubevirtCloudProviderFactory(file)
<1>1. process # Rejected /\ file # Garbled
  BY DEF startProcess, kubevirtCloudProviderFactory
<1>2. config \in CloudConfig
  BY <1>1, NodesConstants
<1>3. config.namespace \in {"", "tenant", "default"} /\ config.instancesEnabled \in BOOLEAN
  <2> HIDE DEF config
  <2> QED BY <1>2 DEF CloudConfig
<1>4. process = [namespace |-> namespace, config |-> config]
  BY <1>1 DEF kubevirtCloudProviderFactory
<1> HIDE DEF config, process
<1>5. namespace \in {"", "tenant", "default"}
  BY <1>3
<1> HIDE DEF namespace
<1>6. process.namespace = namespace /\ process.config = config
  BY <1>4
<1>7. startKubevirtCloudController(config) # Rejected
  BY <1>1, <1>6 DEF startProcess, process
<1>8. startProcess(file) = [namespace |-> namespace, lb |-> LoadBalancer(config),
                            instances |-> config.instancesEnabled,
                            eps |-> startKubevirtCloudController(config)]
  BY <1>1, <1>6, <1>7 DEF startProcess, process, InstancesV2
<1>9. startKubevirtCloudController(config) \in {"off", "running"}
  BY <1>7 DEF startKubevirtCloudController
<1>10. LoadBalancer(config) \in {"unsupported", "nil", "client"}
  BY DEF LoadBalancer
<1> DEFINE lb == LoadBalancer(config)
           eps == startKubevirtCloudController(config)
           instances == config.instancesEnabled
<1> HIDE DEF lb, eps, instances
<1>11. [namespace |-> namespace, lb |-> lb, instances |-> instances, eps |-> eps] \in Wiring
  BY <1>3, <1>5, <1>9, <1>10 DEF Wiring, lb, eps, instances
<1> QED BY <1>8, <1>11 DEF lb, eps, instances

ProcessOK ==
    /\ file \in Files
    /\ proc \in {"down", "up", "fatal", "panic"} /\ cloud \in Wiring \cup {None}
    /\ proc = "up" => cloud # None

LEMMA ProcessStep ==
    ASSUME ProcessOK, [Next]_vars
    PROVE  ProcessOK'
<1>1. CASE UNCHANGED <<proc, cloud, file>>
  BY <1>1 DEF ProcessOK
<1>2. CASE Start
  <2>1. CASE startProcess(file) = Rejected
    BY <1>2, <2>1 DEF Start, ProcessOK
  <2>2. CASE startProcess(file) # Rejected
    BY <1>2, <2>2, StartedWith, NodesConstants DEF Start, ProcessOK
  <2> QED BY <2>1, <2>2
<1>3. CASE Crash
  BY <1>3 DEF Crash, ProcessOK
<1>4. CASE proc' = "panic" /\ UNCHANGED <<cloud, file>>
  BY <1>4 DEF ProcessOK
<1> QED BY <1>1, <1>2, <1>3, <1>4, ProcessSteps
QueuesOK ==
    /\ svcQueued \in BOOLEAN /\ nodeQueued \in BOOLEAN /\ untriggered \in BOOLEAN
    /\ lastSynced = None \/ lastSynced \subseteq NodeNames \X ProviderID
    /\ trouble \in 0..MaxTrouble

LEMMA QueuesStep ==
    ASSUME QueuesOK, nodes \in [NodeNames -> Node], [Next]_vars
    PROVE  QueuesOK'
<1> USE DEF QueuesOK
<1>1. protoNodes \subseteq NodeNames \X ProviderID
  BY DEF protoNodes, Listed, Node
<1>2. Trouble => trouble' \in 0..MaxTrouble
  BY NodesConstants DEF Trouble
<1>3. CASE UNCHANGED vars
  BY <1>3 DEF vars, lbVars
<1>4. CASE Start
  BY <1>4 DEF Start
<1>5. CASE Kubelet
  BY <1>5 DEF Kubelet, Register, Heartbeat, lbVars
<1>6. CASE NodeControllers
  <2>1. CASE syncNodeAddresses
    BY <1>2, <2>1 DEF syncNodeAddresses, writeAddresses
  <2>2. CASE DeleteNode
    BY <2>2 DEF DeleteNode
  <2>3. ASSUME NEW n \in NodeNames, syncNode(n) PROVE QueuesOK'
    BY <2>3 DEF syncNode
  <2>4. ASSUME NEW n \in NodeNames, MonitorNode(n) PROVE QueuesOK'
    BY <2>4 DEF MonitorNode, lbVars
  <2>5. ASSUME NEW n \in NodeNames, UpdateNodeStatus(n) PROVE QueuesOK'
    BY <1>2, <2>5 DEF UpdateNodeStatus, writeAddresses
  <2> QED BY <1>6, <2>1, <2>2, <2>3, <2>4, <2>5 DEF NodeControllers
<1>7. ASSUME NEW want, NEW queued \in BOOLEAN, SendListeners(want, queued)
      PROVE  svcQueued' \in BOOLEAN /\ trouble' \in 0..MaxTrouble
  BY <1>2, <1>7 DEF SendListeners
<1>8. CASE SyncService
  BY <1>1, <1>7, <1>8 DEF SyncService
<1>9. CASE SyncNodes
  <2>1. svcQueued' \in BOOLEAN /\ trouble' \in 0..MaxTrouble
    BY <1>7, <1>9 DEF SyncNodes
  <2> QED BY <1>1, <1>9, <2>1 DEF SyncNodes
<1>10. CASE InstanceChanges
  BY <1>2, <1>10 DEF InstanceChanges, CreateVMI, BootVMI, StopVMI, DeleteVMI, MuteVMI,
                     RenumberVMI, Change, lbVars
<1>11. CASE EditService \/ Crash
  BY <1>2, <1>11 DEF EditService, Crash, lbVars
<1> QED BY <1>3, <1>4, <1>5, <1>6, <1>8, <1>9, <1>10, <1>11
        DEF Next, System, Environment

(* The API server's side: every row is sound and has identifiers it gave.  *)
ServedOK ==
    /\ service = [spec |-> service.spec, hash |-> service.hash]
    /\ service.spec \in ServiceSpecs
    /\ nextId \in 1..(MaxIds + 1)
    /\ listeners # None =>
          /\ Rows(listeners) /\ \E n \in Nat : listeners = [i \in 1..n |-> listeners[i]]
          /\ \A i \in DOMAIN listeners :
                /\ Sound(Serves(listeners[i]))
                /\ \E id, ruleId, backendId \in Ids : Row(listeners[i], id, ruleId, backendId)

LEMMA AcceptedIsServed ==
    ASSUME ServedOK, VMIsOK, nodes \in [NodeNames -> Node],
           NEW want \in WantedListeners, Accept(Request(want))
    PROVE  /\ nextId' \in 1..(MaxIds + 1) /\ Rows(listeners')
           /\ \E n \in Nat : listeners' = [j \in 1..n |-> listeners'[j]]
           /\ \A j \in DOMAIN listeners' :
                 /\ Sound(Serves(listeners'[j]))
                 /\ \E id, ruleId, backendId \in Ids : Row(listeners'[j], id, ruleId, backendId)
<1>1. /\ listeners # None => Rows(listeners)
      /\ service.spec \in ServiceSpecs /\ nextId \in Nat /\ nextId >= 1
  BY NodesConstants DEF ServedOK
<1>2. PICK n \in Nat : DOMAIN want = 1..n /\ listeners' = [j \in 1..n |-> listeners'[j]]
  BY <1>1, AcceptedRows
<1>3. DOMAIN listeners' = 1..n
  BY <1>2
<1>4. nextId' \in 1..(MaxIds + 1)
  <2>1. nextId' \in Nat /\ nextId <= nextId'
    BY <1>1, AcceptedRows
  <2>2. nextId' <= MaxIds + 1
    BY DEF Accept
  <2> QED BY <1>1, <2>1, <2>2, NodesConstants
<1>5. ASSUME NEW j \in 1..n
      PROVE  /\ Sound(Serves(listeners'[j])) /\ listeners'[j].id # None
             /\ \E id, ruleId, backendId \in Ids : Row(listeners'[j], id, ruleId, backendId)
  <2>1. Serves(listeners'[j]) = Serves(want[j]) /\ listeners'[j].id # None
    BY <1>1, <1>2, AcceptedRows
  <2>2. Sound(Serves(want[j]))
    BY <1>1, <1>2, WantedIsSound
  <2>3. CASE \E i \in DOMAIN listeners : listeners # None /\ Named(listeners'[j], listeners[i])
    <3>1. PICK i \in DOMAIN listeners : listeners # None /\ Named(listeners'[j], listeners[i])
      BY <2>3
    <3>2. PICK id \in Ids, ruleId \in Ids, backendId \in Ids :
             Row(listeners[i], id, ruleId, backendId)
      BY <3>1 DEF ServedOK
    <3>3. /\ listeners[i].id = id /\ listeners[i].rules[1].id = ruleId
          /\ listeners[i].rules[1].backends[1].id = backendId
      BY <3>2 DEF Row
    <3>4. Row(listeners'[j], id, ruleId, backendId)
      BY <3>1, <3>3 DEF Named
    <3> QED BY <2>1, <2>2, <3>4
  <2>4. CASE \E id \in Nat : nextId <= id /\ id < nextId' /\ Row(listeners'[j], id, id, id)
    <3>1. PICK id \in Nat : nextId <= id /\ id < nextId' /\ Row(listeners'[j], id, id, id)
      BY <2>4
    <3>2. id \in Ids
      BY <1>1, <1>4, <3>1, NodesConstants DEF Ids
    <3> QED BY <2>1, <2>2, <3>1, <3>2
  <2> QED BY <1>1, <1>2, <2>3, <2>4, AcceptedRows
<1>6. \A j \in 1..n : Named(listeners'[j], listeners'[j])
  <2> SUFFICES ASSUME NEW j \in 1..n PROVE Named(listeners'[j], listeners'[j])
    OBVIOUS
  <2>1. PICK id, ruleId, backendId : Row(listeners'[j], id, ruleId, backendId)
    BY <1>5
  <2> QED BY <2>1 DEF Named, Row
<1>7. Rows(listeners')
  BY <1>3, <1>5, <1>6 DEF Rows
<1> QED BY <1>2, <1>3, <1>4, <1>5, <1>7

LEMMA ServedStep ==
    ASSUME ServedOK, VMIsOK, nodes \in [NodeNames -> Node], [Next]_vars
    PROVE  ServedOK'
<1>1. /\ service' = [spec |-> service'.spec, hash |-> service'.hash]
      /\ service'.spec \in ServiceSpecs
  BY ServiceSteps DEF ServedOK
<1>2. CASE UNCHANGED <<listeners, nextId>>
  BY <1>1, <1>2 DEF ServedOK
<1>3. CASE \E want \in WantedListeners : Accept(Request(want))
  BY <1>1, <1>3, AcceptedIsServed DEF ServedOK
<1> QED BY <1>2, <1>3, ListenerSteps

LEMMA ServedIsTyped ==
    ASSUME ServedOK, listeners # None
    PROVE  listeners \in Seq(Listener(Ids))
<1>1. PICK n \in Nat : listeners = [i \in 1..n |-> listeners[i]]
  BY DEF ServedOK
<1>2. \A i \in 1..n : listeners[i] \in Listener(Ids)
  <2> SUFFICES ASSUME NEW i \in 1..n PROVE listeners[i] \in Listener(Ids)
    OBVIOUS
  <2>1. i \in DOMAIN listeners
    BY <1>1
  <2>2. /\ Sound(Serves(listeners[i]))
        /\ \E id, ruleId, backendId \in Ids : Row(listeners[i], id, ruleId, backendId)
    BY <2>1 DEF ServedOK
  <2> QED BY <2>2, SoundRowIsListener
<1> QED BY <1>1, <1>2

(* Every address a node may be given.                                      *)
AnyIP == [n \in NodeNames |-> IPs]

TypeInv == ProcessOK /\ QueuesOK /\ ServedOK /\ OwnInv(AnyIP)

LEMMA TypedAlways == Spec => []TypeInv
<1>1. Covers(AnyIP)
  BY NodesConstants DEF Covers, AnyIP
<1>2. Init => TypeInv
  <2> SUFFICES ASSUME Init PROVE TypeInv
    OBVIOUS
  <2>1. ProcessOK /\ QueuesOK
    <3>1. ProcessOK
      BY DEF Init, ProcessOK
    <3>2. MaxTrouble \in 0..MaxTrouble
      BY NodesConstants
    <3> QED BY <3>1, <3>2 DEF Init, QueuesOK
  <2>2. ServedOK
    BY NodesConstants DEF Init, ServedOK
  <2>3. OwnInv(AnyIP)
    BY OwnAtFirst
  <2> QED BY <2>1, <2>2, <2>3 DEF TypeInv
<1>3. TypeInv /\ [Next]_vars => TypeInv'
  <2> SUFFICES ASSUME TypeInv, [Next]_vars PROVE TypeInv'
    OBVIOUS
  <2>1. VMIsOK /\ nodes \in [NodeNames -> Node]
    BY DEF TypeInv, OwnInv, NodesOK
  <2>2. OwnInv(AnyIP)'
    BY <1>1, OwnStep DEF TypeInv
  <2>3. ProcessOK' /\ QueuesOK' /\ ServedOK'
    BY <2>1, ProcessStep, QueuesStep, ServedStep DEF TypeInv
  <2> QED BY <2>2, <2>3 DEF TypeInv
<1> QED BY <1>2, <1>3, PTL DEF Spec

(* Every variable keeps its type, however often the process is restarted:  *)
(* in particular, what is sent to the API server are well-formed messages, *)
(* whatever the annotations of the Service, the addresses of the nodes and *)
(* the reports of the instances say, and an identifier of the API server   *)
(* reaches every listener, rule and backend (buildListeners,               *)
(* normalizeEndpoints, mergeListenerIDs, startProcess).                    *)
THEOREM NodesTyped == Spec => []TypeOK
<1>1. TypeInv => TypeOK
  <2> SUFFICES ASSUME TypeInv PROVE TypeOK
    OBVIOUS
  <2>1. \A v \in VMINames : vmis[v].phase \in Phase
    BY DEF TypeInv, OwnInv, VMIsOK
  <2>2. /\ nodes \in [NodeNames -> Node] /\ joinAddrs \in Seq(NodeAddress)
        /\ joining \in NodeNames \cup {None} /\ doomed \in NodeNames \cup {None}
    <3>1. nodes \in [NodeNames -> Node] /\ doomed \in NodeNames \cup {None}
      BY DEF TypeInv, OwnInv, NodesOK, DoomedOK
    <3>2. CASE joining = None /\ joinAddrs = <<>>
      BY <3>1, <3>2
    <3>3. CASE joining \in NodeNames /\ Owned(AnyIP, joining, joinAddrs)
      BY <3>1, <3>3 DEF Owned
    <3> QED BY <3>2, <3>3 DEF TypeInv, OwnInv, OnTheWay
  <2>3. listeners = None \/ listeners \in Seq(Listener(Ids))
    BY ServedIsTyped DEF TypeInv
  <2>4. service.spec \in ServiceSpecs /\ nextId \in 1..(MaxIds + 1)
    BY DEF TypeInv, ServedOK
  <2> QED BY <2>1, <2>2, <2>3, <2>4 DEF TypeInv, ProcessOK, QueuesOK, TypeOK
<1> QED BY <1>1, TypedAlways, PTL
-----------------------------------------------------------------------------
(* Updates.                                                                *)

(* The listener keys of a Service, in the order of its ports.              *)
Keys(spec) == [i \in DOMAIN spec.ports |->
                  <<spec.ports[i].port, listenerProtocol(spec, spec.ports[i])>>]

(* No edit of the Service does nothing but change the order of its ports.  *)
(* One that does changes the hash, and the load balancer is updated to     *)
(* serve what it serves already.                                           *)
SameOrder ==
    \A s, t \in ServiceSpecs : ToSet(Keys(s)) = ToSet(Keys(t)) => Keys(s) = Keys(t)

(* The list that was hashed.                                               *)
Hashed(ls) ==
    /\ service.hash = listenersHashStr(ls)
    /\ \E spec \in ServiceSpecs :
          /\ DOMAIN listeners = DOMAIN spec.ports
          /\ ls = [i \in DOMAIN spec.ports |-> ls[i]]
          /\ \A i \in DOMAIN spec.ports : listenerKey(ls[i]) = Keys(spec)[i]
    /\ \A i \in DOMAIN listeners :
          Row(ls[i], None, None, None) /\ Serves(ls[i]) = Serves(listeners[i])

(* The hash annotation is that of the load balancer's own listeners, as    *)
(* they were before the API server gave them identifiers.                  *)
HashInv == listeners # None => \E ls : Hashed(ls)

(* A list is accepted only together with its hash, and not if the hash was *)
(* there before.                                                           *)
LEMMA HashSteps ==
    ASSUME [Next]_vars, service = [spec |-> service.spec, hash |-> service.hash]
    PROVE  \/ UNCHANGED listeners /\ service'.hash = service.hash
           \/ \E want \in WantedListeners :
                 /\ Accept(Request(want)) /\ (listeners = None \/ configChanged(want))
                 /\ service'.hash = listenersHashStr(want)
<1>1. CASE UNCHANGED vars
  BY <1>1 DEF vars, lbVars
<1>2. CASE Start
  BY <1>2 DEF Start
<1>3. CASE Kubelet
  BY <1>3 DEF Kubelet, Register, Heartbeat, lbVars
<1>4. CASE NodeControllers
  BY <1>4 DEF NodeControllers, syncNodeAddresses, DeleteNode, syncNode, MonitorNode,
              UpdateNodeStatus, lbVars
<1>5. ASSUME NEW want, NEW queued, SendListeners(want, queued)
      PROVE  \/ UNCHANGED listeners /\ service'.hash = service.hash
             \/ Accept(Request(want)) /\ service'.hash = listenersHashStr(want)
  <2>1. [service EXCEPT !.hash = listenersHashStr(want)].hash = listenersHashStr(want)
    <3> DEFINE hash == listenersHashStr(want)
    <3> HIDE DEF hash
    <3>1. [service EXCEPT !.hash = hash].hash = hash
      OBVIOUS
    <3> QED BY <3>1 DEF hash
  <2> QED BY <1>5, <2>1 DEF SendListeners
<1>6. CASE SyncService
  BY <1>5, <1>6 DEF SyncService
<1>7. CASE SyncNodes
  BY <1>5, <1>7 DEF SyncNodes
<1>8. CASE InstanceChanges
  BY <1>8 DEF InstanceChanges, CreateVMI, BootVMI, StopVMI, DeleteVMI, MuteVMI,
              RenumberVMI, Change, lbVars
<1>9. CASE EditService
  BY <1>9 DEF EditService
<1>10. CASE Crash
  BY <1>10 DEF Crash, lbVars
<1> QED BY <1>1, <1>2, <1>3, <1>4, <1>6, <1>7, <1>8, <1>9, <1>10
        DEF Next, System, Environment

(* A wanted list as a function of the ports.                               *)
LEMMA WantedByPort ==
    ASSUME NEW want \in WantedListeners
    PROVE  /\ want = [i \in DOMAIN service.spec.ports |-> want[i]]
           /\ \A i \in DOMAIN service.spec.ports :
                 /\ Row(want[i], None, None, None)
                 /\ listenerKey(want[i]) = Keys(service.spec)[i]
<1>1. PICK ns \in NodeLists, vs \in VMILists : want = buildListeners(service.spec, ns, vs)
  BY DEF WantedListeners
<1>2. want = [i \in DOMAIN service.spec.ports |-> want[i]]
  BY <1>1 DEF buildListeners
<1>3. Wanted(want)
  BY SyncsWant
<1> QED BY <1>2, <1>3 DEF Wanted, Keys, listenerKey

LEMMA HashStep ==
    ASSUME TypeInv, HashInv, [Next]_vars
    PROVE  HashInv'
<1>1. /\ listeners # None => Rows(listeners)
      /\ service.spec \in ServiceSpecs /\ nextId \in Nat
      /\ service = [spec |-> service.spec, hash |-> service.hash]
  BY NodesConstants DEF TypeInv, ServedOK
<1>2. CASE UNCHANGED listeners /\ service'.hash = service.hash
  BY <1>2 DEF HashInv, Hashed
<1>3. ASSUME NEW want \in WantedListeners, Accept(Request(want)),
             service'.hash = listenersHashStr(want)
      PROVE  HashInv'
  <2> DEFINE spec == service.spec
  <2>1. /\ want = [i \in DOMAIN spec.ports |-> want[i]]
        /\ \A i \in DOMAIN spec.ports :
              Row(want[i], None, None, None) /\ listenerKey(want[i]) = Keys(spec)[i]
    BY WantedByPort
  <2>2. /\ \E n \in Nat : DOMAIN want = 1..n /\ listeners' = [j \in 1..n |-> listeners'[j]]
        /\ \A j \in DOMAIN want : Serves(listeners'[j]) = Serves(want[j])
    BY <1>1, <1>3, AcceptedRows
  <2>3. DOMAIN listeners' = DOMAIN spec.ports /\ DOMAIN want = DOMAIN spec.ports
    BY <2>1, <2>2
  <2>4. spec \in ServiceSpecs
    BY <1>1
  <2> HIDE DEF spec
  <2>5. Hashed(want)'
    BY <1>3, <2>1, <2>2, <2>3, <2>4 DEF Hashed
  <2> QED BY <2>5 DEF HashInv
<1> QED BY <1>1, <1>2, <1>3, HashSteps
(* Two sound rows without identifiers that serve the same endpoints under  *)
(* the same key and match are the same row.                                *)
LEMMA SameRow ==
    ASSUME NEW k, NEW l, Row(k, None, None, None), Row(l, None, None, None),
           Sound(Serves(k)), Sound(Serves(l)),
           listenerKey(k) = listenerKey(l), k.rules[1].matches = l.rules[1].matches,
           ToSet(k.rules[1].backends[1].endpoints) = ToSet(l.rules[1].backends[1].endpoints)
    PROVE  k = l
<1> DEFINE row(x) == Serves(x)
<1>1. \A x : /\ row(x).key = listenerKey(x) /\ row(x).matches = x.rules[1].matches
             /\ row(x).monitor = x.rules[1].monitor
             /\ row(x).endpoints = x.rules[1].backends[1].endpoints
  BY DEF Serves
<1>2. k.rules[1].monitor = l.rules[1].monitor
  BY <1>1 DEF Sound
<1>3. k.rules[1].backends[1].endpoints = l.rules[1].backends[1].endpoints
  BY <1>1, NormalFormIsUnique DEF Sound
<1>4. k.port = l.port /\ k.protocol = l.protocol
  BY DEF listenerKey
<1> QED BY <1>2, <1>3, <1>4 DEF Row

(* A changed hash means changed content.                                   *)
LEMMA ChangeIsNeeded ==
    ASSUME PortsApart, SameOrder, TypeInv, HashInv, listeners # None,
           NEW want \in WantedListeners, Accept(Request(want)), configChanged(want),
           Content(listeners') = Content(listeners)
    PROVE  FALSE
<1> DEFINE spec == service.spec
           have == listeners
           next == listeners'
<1>1. /\ Rows(listeners) /\ service.spec \in ServiceSpecs /\ nextId \in Nat
      /\ \A i \in DOMAIN listeners : Sound(Serves(listeners[i]))
  BY NodesConstants DEF TypeInv, ServedOK
<1>2. PICK ls : Hashed(ls)
  BY DEF HashInv
<1>3. PICK old \in ServiceSpecs :
         /\ DOMAIN have = DOMAIN old.ports /\ ls = [i \in DOMAIN old.ports |-> ls[i]]
         /\ \A i \in DOMAIN old.ports : listenerKey(ls[i]) = Keys(old)[i]
  BY <1>2 DEF Hashed
<1>4. \A i \in DOMAIN old.ports : Row(ls[i], None, None, None) /\ Serves(ls[i]) = Serves(have[i])
  BY <1>2, <1>3 DEF Hashed
<1>5. /\ want = [i \in DOMAIN spec.ports |-> want[i]]
      /\ \A i \in DOMAIN spec.ports :
            Row(want[i], None, None, None) /\ listenerKey(want[i]) = Keys(spec)[i]
  BY WantedByPort
<1>6. /\ DOMAIN next = DOMAIN spec.ports
      /\ \A i \in DOMAIN spec.ports : Serves(next[i]) = Serves(want[i])
  <2>1. /\ \E n \in Nat : DOMAIN want = 1..n /\ listeners' = [j \in 1..n |-> listeners'[j]]
        /\ \A j \in DOMAIN want : Serves(listeners'[j]) = Serves(want[j])
    BY <1>1, AcceptedRows
  <2> QED BY <1>5, <2>1
<1>7. \A i \in DOMAIN spec.ports : Sound(Serves(want[i]))
  <2>1. VMIsOK /\ nodes \in [NodeNames -> Node]
    BY DEF TypeInv, OwnInv, NodesOK
  <2>2. DOMAIN want = DOMAIN spec.ports
    BY <1>5
  <2> QED BY <1>1, <2>1, <2>2, WantedIsSound
<1>8. \A i \in DOMAIN old.ports : Sound(Serves(ls[i]))
  BY <1>1, <1>3, <1>4
<1> DEFINE serves(l) == [port |-> l.port, protocol |-> l.protocol,
                         matches |-> l.rules[1].matches,
                         endpoints |-> ToSet(l.rules[1].backends[1].endpoints)]
<1>9. \A k, l : Serves(k) = Serves(l) => serves(k) = serves(l)
  <2> SUFFICES ASSUME NEW k, NEW l, Serves(k) = Serves(l) PROVE serves(k) = serves(l)
    OBVIOUS
  <2>1. /\ Serves(k).key = <<k.port, k.protocol>> /\ Serves(k).matches = k.rules[1].matches
        /\ Serves(k).endpoints = k.rules[1].backends[1].endpoints
    BY DEF Serves, listenerKey
  <2>2. /\ Serves(l).key = <<l.port, l.protocol>> /\ Serves(l).matches = l.rules[1].matches
        /\ Serves(l).endpoints = l.rules[1].backends[1].endpoints
    BY DEF Serves, listenerKey
  <2>3. <<k.port, k.protocol>> = <<l.port, l.protocol>>
    BY <2>1, <2>2
  <2>4. k.port = l.port /\ k.protocol = l.protocol
    BY <2>3
  <2>5. /\ k.rules[1].matches = l.rules[1].matches
        /\ k.rules[1].backends[1].endpoints = l.rules[1].backends[1].endpoints
    BY <2>1, <2>2
  <2> QED BY <2>4, <2>5
<1>10. \A k, l : serves(k) = serves(l) =>
          /\ listenerKey(k) = listenerKey(l) /\ k.rules[1].matches = l.rules[1].matches
          /\ ToSet(k.rules[1].backends[1].endpoints) = ToSet(l.rules[1].backends[1].endpoints)
  <2> SUFFICES ASSUME NEW k, NEW l, serves(k) = serves(l)
               PROVE  /\ listenerKey(k) = listenerKey(l)
                      /\ k.rules[1].matches = l.rules[1].matches
                      /\ ToSet(k.rules[1].backends[1].endpoints)
                           = ToSet(l.rules[1].backends[1].endpoints)
    OBVIOUS
  <2>1. \A x : /\ serves(x).port = x.port /\ serves(x).protocol = x.protocol
               /\ serves(x).matches = x.rules[1].matches
               /\ serves(x).endpoints = ToSet(x.rules[1].backends[1].endpoints)
    OBVIOUS
  <2> HIDE DEF serves
  <2> QED BY <2>1 DEF listenerKey
<1>11. Content(have) = {serves(have[i]) : i \in DOMAIN have}
       /\ Content(next) = {serves(next[i]) : i \in DOMAIN next}
  BY DEF Content
<1> HIDE DEF serves, spec, next, have
<1>12. /\ \A i \in DOMAIN old.ports : \E j \in DOMAIN spec.ports : serves(ls[i]) = serves(want[j])
       /\ \A j \in DOMAIN spec.ports : \E i \in DOMAIN old.ports : serves(want[j]) = serves(ls[i])
  <2>1. Content(next) = Content(have)
    BY DEF next, have
  <2>2. {serves(next[i]) : i \in DOMAIN next} = {serves(have[i]) : i \in DOMAIN have}
    BY <1>11, <2>1
  <2>3. \A i \in DOMAIN old.ports : serves(have[i]) = serves(ls[i])
    BY <1>4, <1>9
  <2>4. \A i \in DOMAIN spec.ports : serves(next[i]) = serves(want[i])
    BY <1>6, <1>9
  <2> QED BY <1>3, <1>6, <2>2, <2>3, <2>4
<1>13. Keys(old) = Keys(spec)
  <2>1. \A s : ToSet(Keys(s)) = {Keys(s)[i] : i \in DOMAIN s.ports}
    BY DEF Keys, ToSet
  <2>2. ASSUME NEW i \in DOMAIN old.ports
        PROVE  \E j \in DOMAIN spec.ports : Keys(old)[i] = Keys(spec)[j]
    <3>1. PICK j \in DOMAIN spec.ports : serves(ls[i]) = serves(want[j])
      BY <1>12
    <3>2. listenerKey(ls[i]) = listenerKey(want[j])
      BY <1>10, <3>1
    <3> QED BY <1>3, <1>5, <3>2
  <2>3. ASSUME NEW j \in DOMAIN spec.ports
        PROVE  \E i \in DOMAIN old.ports : Keys(old)[i] = Keys(spec)[j]
    <3>1. PICK i \in DOMAIN old.ports : serves(want[j]) = serves(ls[i])
      BY <1>12
    <3>2. listenerKey(ls[i]) = listenerKey(want[j])
      BY <1>10, <3>1
    <3> QED BY <1>3, <1>5, <3>2
  <2>4. ToSet(Keys(old)) = ToSet(Keys(spec))
    <3>1. /\ ToSet(Keys(old)) = {Keys(old)[i] : i \in DOMAIN old.ports}
          /\ ToSet(Keys(spec)) = {Keys(spec)[i] : i \in DOMAIN spec.ports}
      BY <2>1
    <3> QED BY <2>2, <2>3, <3>1
  <2> QED BY <1>1, <2>4 DEF SameOrder, spec
<1>14. DOMAIN old.ports = DOMAIN spec.ports
  BY <1>13 DEF Keys
<1>15. ASSUME NEW i \in DOMAIN spec.ports PROVE ls[i] = want[i]
  <2>1. PICK j \in DOMAIN spec.ports : serves(ls[i]) = serves(want[j])
    BY <1>12, <1>14
  <2>2. Keys(spec)[i] = Keys(spec)[j]
    <3>1. listenerKey(ls[i]) = listenerKey(want[j])
      BY <1>10, <2>1
    <3>2. listenerKey(ls[i]) = Keys(old)[i] /\ listenerKey(want[j]) = Keys(spec)[j]
      BY <1>3, <1>5, <1>14
    <3> QED BY <1>13, <3>1, <3>2
  <2>3. i = j
    BY <1>1, <2>2 DEF PortsApart, Keys, spec
  <2>4. /\ listenerKey(ls[i]) = listenerKey(want[i])
        /\ ls[i].rules[1].matches = want[i].rules[1].matches
        /\ ToSet(ls[i].rules[1].backends[1].endpoints)
             = ToSet(want[i].rules[1].backends[1].endpoints)
    BY <1>10, <2>1, <2>3
  <2>5. /\ Row(ls[i], None, None, None) /\ Row(want[i], None, None, None)
        /\ Sound(Serves(ls[i])) /\ Sound(Serves(want[i]))
    BY <1>4, <1>5, <1>7, <1>8, <1>14
  <2> QED BY <2>4, <2>5, SameRow
<1>16. ls = want
  BY <1>3, <1>5, <1>14, <1>15
<1> QED BY <1>2, <1>16 DEF Hashed, configChanged

(* The load balancer is updated only for a change of what it serves: not   *)
(* for another order of the nodes, a restart or an address reported twice. *)
(* It holds for any number of nodes, ports and versions of the Service, if *)
(* no two ports become one listener and no edit merely reorders the ports  *)
(* (normalizeEndpoints, buildListeners and the listener hash).             *)
THEOREM NoUpdateIsNeedless ==
    ASSUME PortsApart, SameOrder
    PROVE  Spec => NoNeedlessUpdate
<1>1. Init => HashInv
  BY DEF Init, HashInv
<1>2. TypeInv /\ HashInv /\ [Next]_vars => HashInv'
  BY HashStep
<1>3. ASSUME TypeInv, HashInv, [Next]_vars, listeners # None, listeners' # listeners,
             Content(listeners') = Content(listeners)
      PROVE  FALSE
  <2>1. service = [spec |-> service.spec, hash |-> service.hash]
    BY <1>3 DEF TypeInv, ServedOK
  <2>2. PICK want \in WantedListeners : Accept(Request(want)) /\ configChanged(want)
    BY <1>3, <2>1, HashSteps
  <2> QED BY <1>3, <2>2, ChangeIsNeeded
<1>4. TypeInv /\ HashInv /\ [Next]_vars =>
         (listeners # None /\ listeners' # listeners => Content(listeners') # Content(listeners))
  BY <1>3
<1> QED BY <1>1, <1>2, <1>4, TypedAlways, PTL DEF Spec, NoNeedlessUpdate
=============================================================================
