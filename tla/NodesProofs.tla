----------------------------- MODULE NodesProofs -----------------------------
(***************************************************************************)
(* What holds of nodes and listeners for every cluster: any number of      *)
(* nodes, instances, addresses, versions of the Service and configuration  *)
(* files.                                                                  *)
(***************************************************************************)
EXTENDS Nodes, FiniteSetTheorems, WellFoundedInduction, TLAPS

-----------------------------------------------------------------------------
(* Least and greatest elements.                                            *)

LEMMA NatMin ==
    ASSUME NEW S, S \subseteq Nat, S # {}
    PROVE  \E x \in S : \A y \in S : x <= y
<1>1. PICK x \in S : \A y \in S : ~(<<y, x>> \in OpToRel(<, Nat))
  BY NatLessThanWellFounded, WFMin
<1>2. \A y \in S : ~(y < x)
  BY <1>1 DEF OpToRel
<1> QED BY <1>2

LEMMA MinIsMember ==
    ASSUME NEW S, S \subseteq Nat, S # {}
    PROVE  Min(S) \in S
BY NatMin DEF Min

(* A bounded set has a greatest element: the one nearest to the bound.     *)
LEMMA MaxIsMember ==
    ASSUME NEW n \in Nat, NEW S, S \subseteq 1..n, S # {}
    PROVE  Max(S) \in S
<1> DEFINE Below == {k \in Nat : n - k \in S}
<1>1. PICK s : s \in S
  OBVIOUS
<1>2. n - s \in Below
  <2>1. s \in 1..n
    BY <1>1
  <2>2. n - s \in Nat /\ n - (n - s) = s
    BY <2>1
  <2> QED BY <1>1, <2>2
<1>3. PICK x \in Below : \A y \in Below : x <= y
  <2>1. Below \subseteq Nat /\ Below # {}
    BY <1>2
  <2> HIDE DEF Below
  <2> QED BY <2>1, NatMin
<1>4. \A y \in S : n - x >= y
  <2> SUFFICES ASSUME NEW y \in S PROVE n - x >= y
    OBVIOUS
  <2>1. y \in 1..n
    OBVIOUS
  <2>2. n - y \in Nat /\ n - (n - y) = y
    BY <2>1
  <2>3. n - y \in Below
    BY <2>2
  <2> QED BY <1>3, <2>1, <2>3
<1> QED BY <1>3, <1>4 DEF Max

-----------------------------------------------------------------------------
(* The process.                                                            *)

(* What it runs with comes from its file.                                  *)
Wired == /\ proc = "up" => cloud = startProcess(file) /\ startProcess(file) # Rejected
         /\ NoPanic

LEMMA ClientOrNone ==
    ASSUME AddressAccepted, startProcess(file) # Rejected
    PROVE  startProcess(file).lb # "nil"
<1> DEFINE config == NewCloudConfigFromBytes(file)
<1>1. file # Garbled /\ NewClient(config.rpcServerAddr) # Rejected
  BY DEF AddressAccepted
<1>2. config.rpcServerAddr # NoAddress
  <2>1. NoAddress.scheme = "none" /\ NoAddress.host = ""
    BY DEF NoAddress
  <2>2. normalizeServerAddr(NoAddress) = Rejected
    BY <2>1 DEF normalizeServerAddr
  <2> QED BY <1>1, <2>2 DEF NewClient
<1>3. kubevirtCloudProviderFactory(file) # Rejected
  BY DEF startProcess
<1>4. kubevirtCloudProviderFactory(file).config = config
  BY <1>1, <1>3 DEF kubevirtCloudProviderFactory
<1> HIDE DEF config
<1>5. LoadBalancer(config) # "nil"
  BY <1>1, <1>2 DEF LoadBalancer
<1>6. startProcess(file).lb = LoadBalancer(config)
  BY <1>3, <1>4 DEF startProcess
<1> QED BY <1>5, <1>6

(* A step that is no start and no end leaves the process alone, unless the *)
(* client is nil.                                                          *)
LEMMA ProcessSteps ==
    ASSUME [Next]_vars
    PROVE  \/ UNCHANGED <<proc, cloud, file>>
           \/ Start
           \/ Crash
           \/ proc = "up" /\ cloud.lb = "nil" /\ proc' = "panic" /\ UNCHANGED <<cloud, file>>
<1>1. CASE UNCHANGED vars
  BY <1>1 DEF vars
<1>2. CASE Kubelet
  BY <1>2 DEF Kubelet, Register, Heartbeat
<1>3. CASE NodeControllers
  <2>1. CASE syncNodeAddresses
    BY <2>1 DEF syncNodeAddresses
  <2>2. CASE DeleteNode
    BY <2>2 DEF DeleteNode
  <2>3. ASSUME NEW n \in NodeNames, syncNode(n)
        PROVE  UNCHANGED <<proc, cloud, file>>
    BY <2>3 DEF syncNode
  <2>4. ASSUME NEW n \in NodeNames, MonitorNode(n)
        PROVE  UNCHANGED <<proc, cloud, file>>
    BY <2>4 DEF MonitorNode
  <2>5. ASSUME NEW n \in NodeNames, UpdateNodeStatus(n)
        PROVE  UNCHANGED <<proc, cloud, file>>
    BY <2>5 DEF UpdateNodeStatus
  <2> QED BY <1>3, <2>1, <2>2, <2>3, <2>4, <2>5 DEF NodeControllers
<1>4. CASE SyncService
  BY <1>4 DEF SyncService, SendListeners, ServicesRun
<1>5. CASE SyncNodes
  BY <1>5 DEF SyncNodes, SendListeners, ServicesRun
<1>6. CASE InstanceChanges
  BY <1>6 DEF InstanceChanges, CreateVMI, BootVMI, StopVMI, DeleteVMI, MuteVMI,
              RenumberVMI, Change
<1>7. CASE EditService
  BY <1>7 DEF EditService
<1>8. CASE Crash
  BY <1>8
<1> QED BY <1>1, <1>2, <1>3, <1>4, <1>5, <1>6, <1>7, <1>8
        DEF Next, System, Environment

LEMMA WiredStep ==
    ASSUME Wired, [Next]_vars
    PROVE  Wired'
<1>1. file' = file /\ AddressAccepted' = AddressAccepted
  BY ProcessSteps DEF Start, Crash, AddressAccepted
<1>2. startProcess(file)' = startProcess(file)
  BY <1>1
<1>3. CASE UNCHANGED <<proc, cloud, file>>
  BY <1>1, <1>2, <1>3 DEF Wired, NoPanic
<1>4. CASE Start
  BY <1>1, <1>2, <1>4 DEF Wired, NoPanic, Start
<1>5. CASE Crash
  BY <1>5 DEF Wired, NoPanic, Crash
<1>6. CASE proc = "up" /\ cloud.lb = "nil" /\ proc' = "panic"
  BY <1>1, <1>6, ClientOrNone DEF Wired, NoPanic
<1> QED BY <1>3, <1>4, <1>5, <1>6, ProcessSteps

(* With an address the provider accepts, no sync meets a nil client,       *)
(* whatever else the configuration file says and however often the process *)
(* is started again (Cloud.LoadBalancer, normalizeServerAddr).             *)
THEOREM ClientHolds == Spec => []NoPanic
<1>1. Init => Wired
  BY DEF Init, Wired, NoPanic
<1>2. Wired => NoPanic
  BY DEF Wired
<1> QED BY <1>1, <1>2, WiredStep, PTL DEF Spec
-----------------------------------------------------------------------------
(* Places of a list.                                                       *)

LEMMA PlacesAreFinite ==
    ASSUME NEW n \in Nat, NEW I, I \subseteq 1..n
    PROVE  IsFiniteSet(I) /\ Cardinality(I) \in Nat /\ Cardinality(I) <= n
<1>1. IsFiniteSet(1..n) /\ Cardinality(1..n) = n
  <2>1. 1 \in Int /\ n \in Int
    OBVIOUS
  <2>2. IsFiniteSet(1..n) /\ Cardinality(1..n) = IF 1 > n THEN 0 ELSE n - 1 + 1
    BY <2>1, FS_Interval
  <2> QED BY <2>2
<1>2. I \in SUBSET (1..n)
  OBVIOUS
<1>3. IsFiniteSet(I) /\ Cardinality(I) <= n
  BY <1>1, <1>2, FS_Subset
<1> QED BY <1>3, FS_CardinalityType

(* Relation R tells any two elements of S apart and orders them.           *)
Orders(R, S) ==
    /\ \A x \in S : <<x, x>> \notin R
    /\ \A x, y, z \in S : <<x, y>> \in R /\ <<y, z>> \in R => <<x, z>> \in R
    /\ \A x, y \in S : x # y => <<x, y>> \in R \/ <<y, x>> \in R

(* A finite set can be listed in an order: every element has a rank, the   *)
(* number of those that do not come after it, and no rank is left out.     *)
LEMMA CanBeListed ==
    ASSUME NEW S, IsFiniteSet(S), NEW R, Orders(R, S)
    PROVE  \E f \in [1..Cardinality(S) -> S] :
              \A k, l \in 1..Cardinality(S) : k < l => <<f[k], f[l]>> \in R
<1> DEFINE c == Cardinality(S)
           upTo(x) == {y \in S : y = x \/ <<y, x>> \in R}
           rank == [x \in S |-> Cardinality(upTo(x))]
<1>1. c \in Nat
  BY FS_CardinalityType
<1>2. \A x \in S : /\ IsFiniteSet(upTo(x)) /\ rank[x] \in Nat /\ rank[x] <= c
                   /\ rank[x] # 0
  <2> SUFFICES ASSUME NEW x \in S
               PROVE  /\ IsFiniteSet(upTo(x)) /\ rank[x] \in Nat /\ rank[x] <= c
                      /\ rank[x] # 0
    OBVIOUS
  <2>1. upTo(x) \in SUBSET S /\ x \in upTo(x)
    OBVIOUS
  <2>2. IsFiniteSet(upTo(x)) /\ Cardinality(upTo(x)) <= c
    BY <2>1, FS_Subset
  <2>3. Cardinality(upTo(x)) \in Nat /\ Cardinality(upTo(x)) # 0
    BY <2>1, <2>2, FS_CardinalityType, FS_EmptySet
  <2> QED BY <2>2, <2>3
<1>3. \A x, y \in S : <<x, y>> \in R => rank[x] < rank[y]
  <2> SUFFICES ASSUME NEW x \in S, NEW y \in S, <<x, y>> \in R PROVE rank[x] < rank[y]
    OBVIOUS
  <2>1. upTo(x) \in SUBSET upTo(y) /\ y \in upTo(y)
    BY DEF Orders
  <2>2. y \notin upTo(x)
    BY DEF Orders
  <2>3. Cardinality(upTo(x)) <= Cardinality(upTo(y))
        /\ Cardinality(upTo(x)) # Cardinality(upTo(y))
    <3> HIDE DEF upTo
    <3> QED BY <1>2, <2>1, <2>2, FS_Subset
  <2> QED BY <1>2, <2>3
<1>4. rank \in Injection(S, 1..c)
  <2>1. rank \in [S -> 1..c]
    BY <1>1, <1>2
  <2>2. \A x, y \in S : rank[x] = rank[y] => x = y
    <3> SUFFICES ASSUME NEW x \in S, NEW y \in S, rank[x] = rank[y], x # y PROVE FALSE
      OBVIOUS
    <3>1. <<x, y>> \in R \/ <<y, x>> \in R
      BY DEF Orders
    <3>2. rank[x] \in Nat /\ rank[y] \in Nat
      BY <1>2
    <3>3. rank[x] < rank[y] \/ rank[y] < rank[x]
      BY <1>3, <3>1
    <3> HIDE DEF rank
    <3> QED BY <3>2, <3>3
  <2> HIDE DEF rank
  <2> QED BY <2>1, <2>2 DEF Injection, IsInjective
<1>5. rank \in Surjection(S, 1..c)
  <2>1. IsFiniteSet(1..c) /\ Cardinality(1..c) = c
    BY <1>1, FS_Interval
  <2> HIDE DEF rank
  <2> QED BY <1>4, <2>1, FS_Injection
<1> DEFINE f == [k \in 1..c |-> CHOOSE x \in S : rank[x] = k]
<1>6. \A k \in 1..c : f[k] \in S /\ rank[f[k]] = k
  BY <1>5 DEF Surjection
<1>7. ASSUME NEW k \in 1..c, NEW l \in 1..c, k < l PROVE <<f[k], f[l]>> \in R
  <2> HIDE DEF f, rank
  <2>1. f[k] \in S /\ f[l] \in S /\ rank[f[k]] = k /\ rank[f[l]] = l
    BY <1>6
  <2>2. <<f[l], f[k]>> \notin R /\ f[l] # f[k]
    BY <1>1, <1>3, <1>7, <2>1
  <2> QED BY <2>1, <2>2 DEF Orders
<1>8. f \in [1..c -> S]
  BY <1>6
<1> HIDE DEF f, rank
<1> QED BY <1>7, <1>8

(* Places are listed in their order.                                       *)
LEMMA InOrder ==
    ASSUME NEW n \in Nat, NEW I, I \subseteq 1..n
    PROVE  \E f \in [1..Cardinality(I) -> I] : \A i, j \in DOMAIN f : i < j => f[i] < f[j]
<1> DEFINE R == {p \in I \X I : p[1] < p[2]}
<1>1. \A i, j \in I : <<i, j>> \in R <=> i < j
  OBVIOUS
<1>2. \A i \in I : i \in Nat
  OBVIOUS
<1> HIDE DEF R
<1>3. Orders(R, I)
  BY <1>1, <1>2 DEF Orders
<1>4. PICK f \in [1..Cardinality(I) -> I] :
              \A k, l \in 1..Cardinality(I) : k < l => <<f[k], f[l]>> \in R
  BY <1>3, CanBeListed, PlacesAreFinite
<1>5. \A i, j \in DOMAIN f : i < j => f[i] < f[j]
  BY <1>1, <1>4
<1> QED BY <1>5

(* A selection holds the elements of the selected places and no other.     *)
LEMMA Selection ==
    ASSUME NEW T, NEW s \in Seq(T), NEW I, I \subseteq DOMAIN s
    PROVE  /\ At(s, I) \in Seq(T)
           /\ \A k \in DOMAIN At(s, I) : \E i \in I : At(s, I)[k] = s[i]
<1> DEFINE place == CHOOSE f \in [1..Cardinality(I) -> I] :
                       \A i, j \in DOMAIN f : i < j => f[i] < f[j]
<1>1. I \subseteq 1..Len(s) /\ Len(s) \in Nat
  OBVIOUS
<1>2. place \in [1..Cardinality(I) -> I]
  BY <1>1, InOrder
<1>3. Cardinality(I) \in Nat
  BY <1>1, PlacesAreFinite
<1>4. At(s, I) = [k \in 1..Cardinality(I) |-> s[place[k]]]
  BY <1>2 DEF At, Sorted
<1> HIDE DEF place
<1>5. \A k \in 1..Cardinality(I) : place[k] \in I /\ s[place[k]] \in T
  BY <1>2
<1>6. At(s, I) \in Seq(T)
  BY <1>3, <1>4, <1>5
<1>7. \A k \in DOMAIN At(s, I) : k \in 1..Cardinality(I) /\ At(s, I)[k] = s[place[k]]
  BY <1>4
<1> QED BY <1>5, <1>6, <1>7
-----------------------------------------------------------------------------
(* Addresses.                                                              *)

(* A lookup for node n may come to instance v: by the label, when there is *)
(* one, and by the name or the hostname otherwise.                         *)
MayFind(n, v) == IF InstanceLabel[n] # None THEN v = InstanceLabel[n]
                 ELSE v = n \/ Hostname[v] = n

(* No lookup leads to another instance than the node's own.                *)
LookupsAgree ==
    \A n \in NodeNames : \A v \in VMINames : MayFind(n, v) => v = InstanceOf[n]

(* The interfaces an instance may report.                                  *)
Reports(v) == {<<>>} \cup {Interfaces(ip) : ip \in Pool[v] \cup {None}}

(* P[n] holds every address a lookup for node n may find.                  *)
Covers(P) == \A n \in NodeNames : \A v \in VMINames : MayFind(n, v) => Pool[v] \subseteq P[n]

(* All of the addresses are in P[n].                                       *)
Owned(P, n, addrs) == /\ addrs \in Seq(NodeAddress)
                      /\ \A i \in DOMAIN addrs : addrs[i].ip \in P[n]

VMIsOK == /\ vmis \in [VMINames -> [phase : Phase, ifs : UNION {Reports(v) : v \in VMINames}]]
          /\ \A v \in VMINames : vmis[v].ifs \in Reports(v)

NodesOK(P) == /\ nodes \in [NodeNames -> Node]
              /\ \A n \in NodeNames : Owned(P, n, nodes[n].addrs)

OnTheWay(P) == \/ joining = None /\ joinAddrs = <<>>
               \/ joining \in NodeNames /\ Owned(P, joining, joinAddrs)

DoomedOK == doomed # None => doomed \in NodeNames

(* The addresses of the nodes and those that are on their way.             *)
OwnInv(P) == VMIsOK /\ NodesOK(P) /\ OnTheWay(P) /\ DoomedOK

(* Only addresses of the pod network come out of a report.                 *)
LEMMA DefaultInterface ==
    ASSUME NEW v \in VMINames, NEW ifs \in Reports(v),
           NEW i \in DOMAIN ifs, ifs[i].name = "default"
    PROVE  /\ ifs[i].ips \in Seq(IPs)
           /\ \A j \in DOMAIN ifs[i].ips :
                 isUsableNodeIP(ifs[i].ips[j]) => ifs[i].ips[j] \in Pool[v]
<1>1. PICK ip \in Pool[v] \cup {None} : ifs = Interfaces(ip)
  BY DEF Reports
<1>2. ifs[i].ips = IF ip = None THEN <<>> ELSE <<LinkLocal, ip>>
  <2>1. i = 1 \/ i = 2
    BY <1>1 DEF Interfaces
  <2>2. i # 1
    BY <1>1 DEF Interfaces
  <2> QED BY <1>1, <2>1, <2>2 DEF Interfaces
<1>3. CASE ip = None
  BY <1>2, <1>3
<1>4. CASE ip # None
  <2>1. ip \in Pool[v] /\ ip \in IPs /\ LinkLocal \in IPs /\ LinkLocal \notin Reachable
    BY <1>4, NodesConstants
  <2>2. ifs[i].ips = <<LinkLocal, ip>>
    BY <1>2, <1>4
  <2> QED BY <2>1, <2>2 DEF isUsableNodeIP
<1> QED BY <1>3, <1>4

LEMMA AddressesAreOwn ==
    ASSUME NEW P, NEW n \in NodeNames, NEW v \in VMINames, Pool[v] \subseteq P[n],
           NEW ifs \in Reports(v), NEW addrs, Owned(P, n, addrs)
    PROVE  Owned(P, n, getNodeAddresses(ifs, addrs))
<1> DEFINE default == {i \in DOMAIN ifs : ifs[i].name = "default"}
           ips == IF default = {} THEN <<>> ELSE ifs[Min(default)].ips
           found == {i \in DOMAIN ips : isUsableNodeIP(ips[i]) /\ New(ips, i)}
           previous == {i \in DOMAIN addrs :
                           /\ addrs[i].type = "InternalIP" /\ isUsableNodeIP(addrs[i].ip)
                           /\ New(addrs, i)}
           reported == [i \in DOMAIN ips |-> [type |-> "InternalIP", ip |-> ips[i]]]
<1>1. getNodeAddresses(ifs, addrs) =
         IF found = {} THEN At(addrs, previous) ELSE At(reported, found)
  BY DEF getNodeAddresses
<1>3. /\ ips \in Seq(IPs)
      /\ \A j \in DOMAIN ips : isUsableNodeIP(ips[j]) => ips[j] \in Pool[v]
  <2>1. CASE default = {}
    BY <2>1
  <2>2. CASE default # {}
    <3>1. default \subseteq Nat
      BY DEF Reports, Interfaces
    <3>2. Min(default) \in default
      BY <2>2, <3>1, MinIsMember
    <3>3. Min(default) \in DOMAIN ifs /\ ifs[Min(default)].name = "default"
      BY <3>2
    <3>4. ips = ifs[Min(default)].ips
      BY <2>2
    <3> HIDE DEF default, ips
    <3> QED BY <3>3, <3>4, DefaultInterface
  <2> QED BY <2>1, <2>2
<1>4. Owned(P, n, At(addrs, previous))
  <2>1. addrs \in Seq(NodeAddress) /\ previous \subseteq DOMAIN addrs
    BY DEF Owned
  <2> HIDE DEF previous
  <2>2. /\ At(addrs, previous) \in Seq(NodeAddress)
        /\ \A k \in DOMAIN At(addrs, previous) :
              \E i \in previous : At(addrs, previous)[k] = addrs[i]
    BY <2>1, Selection
  <2> QED BY <2>1, <2>2 DEF Owned
<1>5. Owned(P, n, At(reported, found))
  <2>1. /\ reported \in Seq(NodeAddress) /\ found \subseteq DOMAIN reported
        /\ \A i \in found : reported[i].ip \in P[n]
    <3> HIDE DEF ips
    <3>1. \A i \in DOMAIN ips : ips[i] \in IPs
      BY <1>3
    <3>2. \A i \in DOMAIN ips : [type |-> "InternalIP", ip |-> ips[i]] \in NodeAddress
      BY <3>1 DEF NodeAddress
    <3>3. DOMAIN ips = 1..Len(ips) /\ Len(ips) \in Nat
      BY <1>3
    <3>4. reported \in Seq(NodeAddress)
      BY <3>2, <3>3
    <3>5. \A i \in DOMAIN ips : reported[i].ip = ips[i]
      OBVIOUS
    <3> QED BY <1>3, <3>4, <3>5
  <2> HIDE DEF reported, found
  <2>2. /\ At(reported, found) \in Seq(NodeAddress)
        /\ \A k \in DOMAIN At(reported, found) :
              \E i \in found : At(reported, found)[k] = reported[i]
    BY <2>1, Selection
  <2> QED BY <2>1, <2>2 DEF Owned
<1> HIDE DEF found, previous, reported
<1> QED BY <1>1, <1>4, <1>5

(* What a lookup finds is an instance it may find.                         *)
LEMMA FoundIsOwn ==
    ASSUME NEW P, Covers(P), OwnInv(P), NEW n \in NodeNames,
           NEW meta \in InstanceMetadata(n, nodes[n])
    PROVE  Owned(P, n, meta.addrs) /\ meta.providerID \in ProviderID
<1> DEFINE named == InstanceByVMIName(n)
           hosted == InstanceByVMIHostname(n)
           found == findInstance(IF InstanceLabel[n] # None
                                   THEN <<InstanceByVMIName(InstanceLabel[n])>>
                                   ELSE <<named, hosted>>)
<1>1. /\ found \in VMINames /\ meta.providerID = getProviderID(found)
      /\ meta.addrs = getNodeAddresses(vmis[found].ifs, nodes[n].addrs)
  BY DEF InstanceMetadata
<1>2. MayFind(n, found)
  <2>1. CASE InstanceLabel[n] # None
    <3> DEFINE labelled == InstanceByVMIName(InstanceLabel[n])
               fetched == <<labelled>>
               decided == {i \in DOMAIN fetched : fetched[i] # NotFound}
    <3>1. found = IF decided = {} THEN NotFound ELSE fetched[Min(decided)]
      BY <2>1 DEF findInstance
    <3>2. decided # {}
      BY <1>1, <3>1, InstancesConstants
    <3>3. Min(decided) \in decided
      <4>1. decided \subseteq Nat
        OBVIOUS
      <4> HIDE DEF decided
      <4> QED BY <3>2, <4>1, MinIsMember
    <3>4. found = labelled
      BY <3>1, <3>2, <3>3
    <3> QED BY <1>1, <2>1, <3>4, InstancesConstants DEF InstanceByVMIName, MayFind
  <2>2. CASE InstanceLabel[n] = None
    <3> DEFINE fetched == <<named, hosted>>
               decided == {i \in DOMAIN fetched : fetched[i] # NotFound}
    <3>1. found = IF decided = {} THEN NotFound ELSE fetched[Min(decided)]
      BY <2>2 DEF findInstance
    <3>2. decided # {}
      BY <1>1, <3>1, InstancesConstants
    <3>3. Min(decided) \in decided
      <4>1. decided \subseteq Nat
        OBVIOUS
      <4> HIDE DEF decided
      <4> QED BY <3>2, <4>1, MinIsMember
    <3>4. found = named \/ found = hosted
      BY <3>1, <3>2, <3>3
    <3>5. CASE found = named
      BY <1>1, <2>2, <3>5, InstancesConstants DEF InstanceByVMIName, MayFind
    <3>6. CASE found = hosted
      <4> DEFINE with == {v \in VMINames : Exists(v) /\ Hostname[v] = n}
      <4>1. hosted = IF Cardinality(with) = 1 THEN CHOOSE v \in with : TRUE ELSE Failed
        BY DEF InstanceByVMIHostname
      <4>2. Cardinality(with) = 1
        BY <1>1, <3>6, <4>1, InstancesConstants
      <4>3. with # {}
        <5> HIDE DEF with
        <5> QED BY <4>2, FS_EmptySet
      <4>4. hosted \in with
        BY <4>1, <4>2, <4>3
      <4> QED BY <2>2, <3>6, <4>4 DEF MayFind
    <3> QED BY <3>4, <3>5, <3>6
  <2> QED BY <2>1, <2>2
<1> HIDE DEF found
<1>3. vmis[found].ifs \in Reports(found) /\ Owned(P, n, nodes[n].addrs)
  BY <1>1 DEF OwnInv, VMIsOK, NodesOK
<1>4. Pool[found] \subseteq P[n]
  BY <1>1, <1>2 DEF Covers
<1> QED BY <1>1, <1>3, <1>4, AddressesAreOwn DEF ProviderID

LEMMA NoNodeIsOwn ==
    ASSUME NEW P
    PROVE  /\ NoNode \in Node /\ \A n \in NodeNames : Owned(P, n, NoNode.addrs)
           /\ \A n \in NodeNames : Owned(P, n, <<>>)
<1>1. <<>> \in Seq(NodeAddress) /\ NoNode.addrs = <<>>
  BY DEF NoNode
<1>2. None \in ProviderID
  BY DEF ProviderID
<1>3. NoNode \in Node
  BY <1>1, <1>2 DEF NoNode, Node
<1> QED BY <1>1, <1>3 DEF Owned

LEMMA OneNodeWritten ==
    ASSUME NEW P, NodesOK(P), NEW n \in NodeNames, NEW node \in Node, Owned(P, n, node.addrs),
           nodes' = [nodes EXCEPT ![n] = node]
    PROVE  NodesOK(P)'
<1>1. nodes' \in [NodeNames -> Node]
  BY DEF NodesOK
<1>2. ASSUME NEW m \in NodeNames PROVE Owned(P, m, nodes[m].addrs)'
  <2>1. CASE m = n
    <3>1. nodes'[m] = node
      BY <2>1 DEF NodesOK
    <3> QED BY <2>1, <3>1 DEF Owned
  <2>2. CASE m # n
    <3>1. nodes'[m] = nodes[m]
      BY <2>2 DEF NodesOK
    <3> QED BY <3>1 DEF NodesOK, Owned
  <2> QED BY <2>1, <2>2
<1> QED BY <1>1, <1>2 DEF NodesOK

LEMMA AddressesWritten ==
    ASSUME NEW P, NodesOK(P), NEW n \in NodeNames, NEW addrs, Owned(P, n, addrs),
           writeAddresses(n, addrs)
    PROVE  NodesOK(P)'
<1>1. CASE UNCHANGED nodes
  BY <1>1 DEF NodesOK, Owned
<1>2. CASE nodes' = [nodes EXCEPT ![n].addrs = addrs]
  <2> DEFINE node == [nodes[n] EXCEPT !.addrs = addrs]
  <2>1. nodes' = [nodes EXCEPT ![n] = node]
    BY <1>2
  <2>2. node \in Node /\ node.addrs = addrs
    BY DEF NodesOK, Node, Owned
  <2> HIDE DEF node
  <2> QED BY <2>1, <2>2, OneNodeWritten
<1> QED BY <1>1, <1>2 DEF writeAddresses

LEMMA InstancesStep ==
    ASSUME VMIsOK, InstanceChanges
    PROVE  VMIsOK'
<1>1. PICK v \in VMINames : \/ CreateVMI(v) \/ BootVMI(v) \/ StopVMI(v) \/ DeleteVMI(v)
                            \/ MuteVMI(v) \/ RenumberVMI(v)
  BY DEF InstanceChanges
<1>2. ASSUME NEW instance, Change(v, instance), instance.phase \in Phase,
             instance.ifs \in Reports(v),
             instance = [phase |-> instance.phase, ifs |-> instance.ifs]
      PROVE  VMIsOK'
  <2>1. vmis' = [vmis EXCEPT ![v] = instance]
    BY <1>2 DEF Change
  <2>2. instance \in [phase : Phase, ifs : UNION {Reports(u) : u \in VMINames}]
    BY <1>2
  <2>3. vmis' \in [VMINames -> [phase : Phase, ifs : UNION {Reports(u) : u \in VMINames}]]
    BY <2>1, <2>2 DEF VMIsOK
  <2>4. \A u \in VMINames : vmis'[u].ifs \in Reports(u)
    BY <1>2, <2>1 DEF VMIsOK
  <2> QED BY <2>3, <2>4 DEF VMIsOK, Reports, Interfaces
<1>3. ASSUME NEW phase \in {"Scheduling", "Running"}, NEW ip \in Pool[v] \cup {None},
             Change(v, VMI(phase, ip))
      PROVE  VMIsOK'
  <2>1. VMI(phase, ip).ifs \in Reports(v)
    BY DEF VMI, Reports
  <2> QED BY <1>2, <1>3, <2>1 DEF VMI, Phase
<1>4. CASE CreateVMI(v)
  BY <1>3, <1>4 DEF CreateVMI
<1>5. CASE BootVMI(v)
  BY <1>3, <1>5 DEF BootVMI
<1>6. CASE StopVMI(v)
  <2>1. PICK phase \in {"Failed", "Unknown"} : Change(v, [vmis[v] EXCEPT !.phase = phase])
    BY <1>6 DEF StopVMI
  <2> DEFINE instance == [vmis[v] EXCEPT !.phase = phase]
  <2>2. /\ instance.phase \in Phase /\ instance.ifs = vmis[v].ifs
        /\ instance = [phase |-> instance.phase, ifs |-> instance.ifs]
    BY DEF VMIsOK, Phase
  <2>3. Change(v, instance)
    BY <2>1
  <2> HIDE DEF instance
  <2> QED BY <1>2, <2>2, <2>3 DEF VMIsOK
<1>7. CASE DeleteVMI(v)
  BY <1>2, <1>7 DEF DeleteVMI, NoVMI, Phase, Reports
<1>8. CASE MuteVMI(v)
  BY <1>3, <1>8 DEF MuteVMI
<1>9. CASE RenumberVMI(v)
  BY <1>3, <1>9 DEF RenumberVMI
<1> QED BY <1>1, <1>4, <1>5, <1>6, <1>7, <1>8, <1>9
LEMMA NodeControllersStep ==
    ASSUME NEW P, Covers(P), OwnInv(P), NodeControllers
    PROVE  NodesOK(P)' /\ OnTheWay(P)' /\ DoomedOK'
<1> USE DEF OwnInv
<1>1. CASE syncNodeAddresses
  <2>1. joining \in NodeNames /\ Owned(P, joining, joinAddrs) /\ writeAddresses(joining, joinAddrs)
    BY <1>1 DEF syncNodeAddresses, OnTheWay
  <2>2. NodesOK(P)'
    BY <2>1, AddressesWritten
  <2> QED BY <1>1, <2>2 DEF syncNodeAddresses, OnTheWay, DoomedOK
<1>2. CASE DeleteNode
  <2>1. doomed \in NodeNames /\ nodes' = [nodes EXCEPT ![doomed] = NoNode]
    BY <1>2 DEF DeleteNode, DoomedOK
  <2>2. NodesOK(P)'
    BY <2>1, NoNodeIsOwn, OneNodeWritten
  <2> QED BY <1>2, <2>2 DEF DeleteNode, OnTheWay, DoomedOK, Owned
<1>3. ASSUME NEW n \in NodeNames, syncNode(n)
      PROVE  NodesOK(P)' /\ OnTheWay(P)' /\ DoomedOK'
  <2>1. PICK meta \in InstanceMetadata(n, nodes[n]) :
            /\ nodes' = [nodes EXCEPT ![n].tainted = FALSE,
                                      ![n].providerID = IF @ = None THEN meta.providerID ELSE @]
            /\ joinAddrs' = meta.addrs
    BY <1>3 DEF syncNode
  <2>2. Owned(P, n, meta.addrs) /\ meta.providerID \in ProviderID
    BY <2>1, FoundIsOwn
  <2> DEFINE id == IF nodes[n].providerID = None THEN meta.providerID ELSE nodes[n].providerID
             node == [nodes[n] EXCEPT !.tainted = FALSE, !.providerID = id]
  <2>3. nodes' = [nodes EXCEPT ![n] = node]
    BY <2>1 DEF NodesOK, Node
  <2>4. node \in Node /\ node.addrs = nodes[n].addrs
    BY <2>2 DEF NodesOK, Node
  <2>5. NodesOK(P)'
    <3> HIDE DEF node
    <3> QED BY <2>3, <2>4, OneNodeWritten DEF NodesOK
  <2>6. OnTheWay(P)' /\ DoomedOK'
    BY <1>3, <2>1, <2>2 DEF syncNode, OnTheWay, DoomedOK, Owned
  <2> QED BY <2>5, <2>6
<1>4. ASSUME NEW n \in NodeNames, MonitorNode(n)
      PROVE  NodesOK(P)' /\ OnTheWay(P)' /\ DoomedOK'
  <2>1. OnTheWay(P)' /\ DoomedOK'
    BY <1>4 DEF MonitorNode, OnTheWay, DoomedOK, Owned
  <2>2. CASE UNCHANGED nodes
    BY <2>1, <2>2 DEF NodesOK, Owned
  <2>3. CASE \E b \in BOOLEAN : nodes' = [nodes EXCEPT ![n].shutdown = b]
    <3>1. PICK b \in BOOLEAN : nodes' = [nodes EXCEPT ![n].shutdown = b]
      BY <2>3
    <3> DEFINE node == [nodes[n] EXCEPT !.shutdown = b]
    <3>2. nodes' = [nodes EXCEPT ![n] = node]
      BY <3>1
    <3>3. node \in Node /\ node.addrs = nodes[n].addrs
      BY DEF NodesOK, Node
    <3> HIDE DEF node
    <3> QED BY <2>1, <3>2, <3>3, OneNodeWritten DEF NodesOK
  <2> QED BY <1>4, <2>2, <2>3 DEF MonitorNode
<1>5. ASSUME NEW n \in NodeNames, UpdateNodeStatus(n)
      PROVE  NodesOK(P)' /\ OnTheWay(P)' /\ DoomedOK'
  <2>1. PICK meta \in InstanceMetadata(n, nodes[n]) : writeAddresses(n, meta.addrs)
    BY <1>5 DEF UpdateNodeStatus
  <2>2. NodesOK(P)'
    BY <2>1, FoundIsOwn, AddressesWritten
  <2> QED BY <1>5, <2>2 DEF UpdateNodeStatus, OnTheWay, DoomedOK, Owned
<1> QED BY <1>1, <1>2, <1>3, <1>4, <1>5 DEF NodeControllers

LEMMA KubeletStep ==
    ASSUME NEW P, OwnInv(P), Kubelet
    PROVE  NodesOK(P)'
<1>1. ASSUME NEW n \in NodeNames, Register(n) PROVE NodesOK(P)'
  <2> DEFINE node == [NoNode EXCEPT !.present = TRUE, !.ready = TRUE, !.tainted = TRUE]
  <2>1. nodes' = [nodes EXCEPT ![n] = node]
    BY <1>1 DEF Register
  <2>2. node \in Node /\ node.addrs = NoNode.addrs
    BY NoNodeIsOwn DEF Node
  <2> HIDE DEF node
  <2> QED BY <2>1, <2>2, NoNodeIsOwn, OneNodeWritten DEF OwnInv
<1>2. ASSUME NEW n \in NodeNames, Heartbeat(n) PROVE NodesOK(P)'
  <2> DEFINE node == [nodes[n] EXCEPT !.ready = ~@]
  <2>1. nodes' = [nodes EXCEPT ![n] = node]
    BY <1>2 DEF Heartbeat
  <2>2. node \in Node /\ node.addrs = nodes[n].addrs
    BY DEF OwnInv, NodesOK, Node
  <2> HIDE DEF node
  <2> QED BY <2>1, <2>2, OneNodeWritten DEF OwnInv, NodesOK
<1> QED BY <1>1, <1>2 DEF Kubelet

LEMMA OwnStep ==
    ASSUME NEW P, Covers(P), OwnInv(P), [Next]_vars
    PROVE  OwnInv(P)'
<1>1. ASSUME UNCHANGED vmis PROVE VMIsOK'
  BY <1>1 DEF OwnInv, VMIsOK, Reports, Interfaces
<1>2. ASSUME UNCHANGED nodeVars PROVE NodesOK(P)' /\ OnTheWay(P)' /\ DoomedOK'
  BY <1>2 DEF OwnInv, NodesOK, OnTheWay, DoomedOK, Owned, nodeVars
<1>3. CASE UNCHANGED vars
  BY <1>1, <1>2, <1>3 DEF vars, nodeVars, OwnInv
<1>4. CASE Start
  BY <1>1, <1>2, <1>4 DEF Start, OwnInv
<1>5. CASE Kubelet
  <2>1. UNCHANGED <<vmis, joining, joinAddrs, doomed>>
    BY <1>5 DEF Kubelet, Register, Heartbeat
  <2>2. OnTheWay(P)' /\ DoomedOK'
    BY <2>1 DEF OwnInv, OnTheWay, DoomedOK, Owned
  <2> QED BY <1>1, <1>5, <2>1, <2>2, KubeletStep DEF OwnInv
<1>6. CASE NodeControllers
  <2>1. UNCHANGED vmis
    BY <1>6 DEF NodeControllers, syncNodeAddresses, DeleteNode, syncNode, MonitorNode,
                UpdateNodeStatus
  <2> QED BY <1>1, <1>6, <2>1, NodeControllersStep DEF OwnInv
<1>7. CASE SyncService \/ SyncNodes
  BY <1>1, <1>2, <1>7 DEF SyncService, SyncNodes, OwnInv
<1>8. CASE InstanceChanges
  <2>1. UNCHANGED nodeVars
    BY <1>8 DEF InstanceChanges, CreateVMI, BootVMI, StopVMI, DeleteVMI, MuteVMI,
                RenumberVMI, Change
  <2> QED BY <1>2, <1>8, <2>1, InstancesStep DEF OwnInv
<1>9. CASE EditService
  BY <1>1, <1>2, <1>9 DEF EditService, OwnInv
<1>10. CASE Crash
  <2>1. NodesOK(P)' /\ OnTheWay(P)' /\ DoomedOK'
    BY <1>10 DEF Crash, OwnInv, NodesOK, OnTheWay, DoomedOK, Owned
  <2> QED BY <1>1, <1>10, <2>1 DEF Crash, OwnInv
<1> QED BY <1>3, <1>4, <1>5, <1>6, <1>7, <1>8, <1>9, <1>10
        DEF Next, System, Environment

LEMMA OwnAtFirst ==
    ASSUME NEW P, Init
    PROVE  OwnInv(P)
<1>1. VMI("Scheduling", None) = [phase |-> "Scheduling", ifs |-> <<>>]
  BY DEF VMI
<1>2. VMIsOK
  BY <1>1 DEF Init, VMIsOK, Reports, Phase
<1>3. NodesOK(P)
  <2>1. nodes = [n \in NodeNames |-> NoNode]
    BY DEF Init
  <2> QED BY <2>1, NoNodeIsOwn DEF NodesOK
<1>4. OnTheWay(P) /\ DoomedOK
  BY DEF Init, OnTheWay, DoomedOK
<1> QED BY <1>2, <1>3, <1>4 DEF OwnInv

(* No node ever carries an address of another instance, or one that is not *)
(* on the pod network, for any number of nodes and instances, if no lookup *)
(* leads to the wrong instance (findInstance, getNodeAddresses).           *)
THEOREM AddressesHold ==
    ASSUME LookupsAgree
    PROVE  Spec => []AddressOwned
<1> DEFINE P == [n \in NodeNames |-> Pool[InstanceOf[n]]]
<1>1. Covers(P)
  BY DEF LookupsAgree, Covers
<1>2. OwnInv(P) => AddressOwned
  BY DEF OwnInv, NodesOK, Owned, AddressOwned
<1> HIDE DEF P
<1>3. Init => OwnInv(P)
  BY OwnAtFirst
<1>4. OwnInv(P) /\ [Next]_vars => OwnInv(P)'
  BY <1>1, OwnStep
<1> QED BY <1>2, <1>3, <1>4, PTL DEF Spec
-----------------------------------------------------------------------------
(* Identifiers.                                                            *)

(* No two ports of a Service become one listener: that happens to a TCP    *)
(* and an SCTP port with the same number.                                  *)
PortsApart ==
    \A spec \in ServiceSpecs : \A i, j \in DOMAIN spec.ports :
        /\ spec.ports[i].port = spec.ports[j].port
        /\ listenerProtocol(spec, spec.ports[i]) = listenerProtocol(spec, spec.ports[j])
        => i = j

(* A listener with one rule and one backend.                               *)
Row(l, id, ruleId, backendId) ==
    l = [id |-> id, port |-> l.port, protocol |-> l.protocol,
         rules |-> <<[id |-> ruleId,
                      backends |-> <<[id |-> backendId,
                                      endpoints |-> l.rules[1].backends[1].endpoints]>>,
                      matches |-> l.rules[1].matches, monitor |-> l.rules[1].monitor]>>]

(* What a row serves, its identifiers left out.                            *)
Serves(l) == [key |-> listenerKey(l), matches |-> l.rules[1].matches,
              monitor |-> l.rules[1].monitor,
              endpoints |-> l.rules[1].backends[1].endpoints]

(* Row l has the identifiers of row h.                                     *)
Named(l, h) == Row(l, h.id, h.rules[1].id, h.rules[1].backends[1].id)

(* What the API server holds: every row has an identifier, and no two have *)
(* one key.                                                                *)
Rows(ls) ==
    /\ \E n \in Nat : DOMAIN ls = 1..n
    /\ \A i \in DOMAIN ls : ls[i].id # None /\ Named(ls[i], ls[i])

Held(ls) ==
    /\ Rows(ls)
    /\ \A i, j \in DOMAIN ls : listenerKey(ls[i]) = listenerKey(ls[j]) => i = j

IdInv ==
    /\ service = [spec |-> service.spec, hash |-> service.hash]
    /\ service.spec \in ServiceSpecs
    /\ nextId \in Nat
    /\ listeners # None => Held(listeners)
(* What a sync wants: one row per port, without identifiers.               *)
Wanted(want) ==
    /\ DOMAIN want = DOMAIN service.spec.ports
    /\ \A i \in DOMAIN want :
          /\ Row(want[i], None, None, None)
          /\ want[i].port = service.spec.ports[i].port
          /\ want[i].protocol = listenerProtocol(service.spec, service.spec.ports[i])

LEMMA SyncsWant ==
    ASSUME NEW want \in WantedListeners
    PROVE  Wanted(want)
<1>1. PICK node \in NodeLists, vmi \in VMILists :
         want = buildListeners(service.spec, node, vmi)
  BY DEF WantedListeners
<1> DEFINE spec == service.spec
           protocol(i) == listenerProtocol(spec, spec.ports[i])
           rule(i) == buildRule(spec, protocol(i), buildEndpoints(spec.ports[i], node, vmi))
<1>2. want = [i \in DOMAIN spec.ports |->
                 [id |-> None, port |-> spec.ports[i].port, protocol |-> protocol(i),
                  rules |-> <<rule(i)>>]]
  BY <1>1 DEF buildListeners
<1>3. \A i : rule(i) = [id |-> None,
                        backends |-> <<[id |-> None,
                                        endpoints |-> rule(i).backends[1].endpoints]>>,
                        matches |-> rule(i).matches, monitor |-> rule(i).monitor]
  BY DEF buildRule
<1> HIDE DEF rule, protocol
<1>4. \A i \in DOMAIN want :
         /\ want[i].port = spec.ports[i].port /\ want[i].protocol = protocol(i)
         /\ Row(want[i], None, None, None)
  BY <1>2, <1>3 DEF Row
<1> QED BY <1>2, <1>4 DEF Wanted, protocol

(* Lists of one element, written in place.                                 *)
LEMMA OnlyOne ==
    ASSUME NEW x, NEW y
    PROVE  [<<x>> EXCEPT ![1] = y] = <<y>>
OBVIOUS

LEMMA OnlyOnesId ==
    ASSUME NEW x, NEW y
    PROVE  [<<x>> EXCEPT ![1].id = y] = <<[x EXCEPT !.id = y]>>
<1> DEFINE z == [x EXCEPT !.id = y]
<1>1. [<<x>> EXCEPT ![1].id = y] = [<<x>> EXCEPT ![1] = z]
  OBVIOUS
<1> HIDE DEF z
<1>2. [<<x>> EXCEPT ![1].id = y] = <<z>>
  BY <1>1, OnlyOne
<1> QED BY <1>2 DEF z

(* A merged row is the wanted one with the identifiers of the held one.    *)
LEMMA MergedRow ==
    ASSUME NEW l, Row(l, None, None, None), NEW h, NEW id, NEW ruleId, NEW backendId,
           Row(h, id, ruleId, backendId)
    PROVE  /\ Row(mergeListener(l, h), id, ruleId, backendId)
           /\ Serves(mergeListener(l, h)) = Serves(l)
<1> DEFINE backend == [id |-> None, endpoints |-> l.rules[1].backends[1].endpoints]
           rule == [id |-> None, backends |-> <<backend>>,
                    matches |-> l.rules[1].matches, monitor |-> l.rules[1].monitor]
           newBackend == [id |-> backendId, endpoints |-> l.rules[1].backends[1].endpoints]
           newRule == [id |-> ruleId, backends |-> <<newBackend>>,
                       matches |-> l.rules[1].matches, monitor |-> l.rules[1].monitor]
           merged == [id |-> id, port |-> l.port, protocol |-> l.protocol, rules |-> <<newRule>>]
<1>1. l = [id |-> None, port |-> l.port, protocol |-> l.protocol, rules |-> <<rule>>]
  BY DEF Row
<1>2. /\ Len(h.rules) = 1 /\ h.id = id /\ h.rules[1].id = ruleId
      /\ Len(h.rules[1].backends) = 1 /\ h.rules[1].backends[1].id = backendId
  BY DEF Row
<1>3. mergeRule(rule, h.rules[1]) = newRule
  <2>1. Len(rule.backends) = 1 /\ rule.backends = <<backend>>
    OBVIOUS
  <2>2. mergeRule(rule, h.rules[1]) =
           [[rule EXCEPT !.id = ruleId] EXCEPT !.backends[1].id = backendId]
    BY <1>2, <2>1 DEF mergeRule
  <2> DEFINE named == [id |-> ruleId, backends |-> <<backend>>,
                       matches |-> l.rules[1].matches, monitor |-> l.rules[1].monitor]
  <2>3. [rule EXCEPT !.id = ruleId] = named /\ named.backends = <<backend>>
    OBVIOUS
  <2>4. [named EXCEPT !.backends[1].id = backendId] =
           [named EXCEPT !.backends = [named.backends EXCEPT ![1].id = backendId]]
    <3> HIDE DEF named
    <3> QED OBVIOUS
  <2>5. [named.backends EXCEPT ![1].id = backendId] = <<[backend EXCEPT !.id = backendId]>>
    <3> HIDE DEF named, backend
    <3> QED BY <2>3, OnlyOnesId
  <2>6. [backend EXCEPT !.id = backendId] = newBackend
    OBVIOUS
  <2>7. [named EXCEPT !.backends = <<newBackend>>] = newRule
    <3> HIDE DEF backend, newBackend
    <3> QED OBVIOUS
  <2> HIDE DEF named, backend, newBackend, rule, newRule
  <2> QED BY <2>2, <2>3, <2>4, <2>5, <2>6, <2>7
<1>4. mergeListener(l, h) = merged
  <2>1. l.rules = <<rule>> /\ Len(l.rules) = 1 /\ l.rules[1] = rule
    BY <1>1
  <2>2. mergeListener(l, h) = [[l EXCEPT !.id = id] EXCEPT !.rules[1] = mergeRule(@, h.rules[1])]
    BY <1>2, <2>1 DEF mergeListener
  <2> HIDE DEF rule, newRule
  <2>3. [l EXCEPT !.id = id] =
           [id |-> id, port |-> l.port, protocol |-> l.protocol, rules |-> <<rule>>]
    BY <1>1
  <2> DEFINE named == [id |-> id, port |-> l.port, protocol |-> l.protocol, rules |-> <<rule>>]
  <2>4. named.rules = <<rule>> /\ named.rules[1] = rule
    OBVIOUS
  <2>5. mergeListener(l, h) =
           [named EXCEPT !.rules = [named.rules EXCEPT ![1] = mergeRule(named.rules[1], h.rules[1])]]
    <3>1. mergeListener(l, h) = [named EXCEPT !.rules[1] = mergeRule(@, h.rules[1])]
      BY <2>2, <2>3
    <3> HIDE DEF named
    <3> QED BY <3>1
  <2>6. [named.rules EXCEPT ![1] = newRule] = <<newRule>>
    <3> HIDE DEF named
    <3> QED BY <2>4, OnlyOne
  <2>7. [named EXCEPT !.rules = <<newRule>>] = merged
    OBVIOUS
  <2> HIDE DEF named, merged
  <2> QED BY <1>3, <2>4, <2>5, <2>6, <2>7
<1>5. /\ merged.rules[1].backends[1].endpoints = l.rules[1].backends[1].endpoints
      /\ merged.rules[1].matches = l.rules[1].matches
      /\ merged.rules[1].monitor = l.rules[1].monitor
      /\ merged.port = l.port /\ merged.protocol = l.protocol
  OBVIOUS
<1> QED BY <1>4, <1>5 DEF Row, Serves, listenerKey

(* A row that is stored has an identifier; one that had one keeps it.      *)
LEMMA StoredRow ==
    ASSUME NEW l, Row(l, None, None, None), NEW id
    PROVE  LET s == [l EXCEPT !.id = id, !.rules[1].id = id, !.rules[1].backends[1].id = id]
           IN  Row(s, id, id, id) /\ Serves(s) = Serves(l)
<1> DEFINE backend(k) == [id |-> k, endpoints |-> l.rules[1].backends[1].endpoints]
           rule(k) == [id |-> k, backends |-> <<backend(k)>>,
                       matches |-> l.rules[1].matches, monitor |-> l.rules[1].monitor]
           row(k) == [id |-> k, port |-> l.port, protocol |-> l.protocol, rules |-> <<rule(k)>>]
           s == [l EXCEPT !.id = id, !.rules[1].id = id, !.rules[1].backends[1].id = id]
<1>1. l = row(None)
  BY DEF Row
<1>2. s = row(id)
  <2> DEFINE half == [id |-> id, backends |-> <<backend(None)>>,
                      matches |-> l.rules[1].matches, monitor |-> l.rules[1].monitor]
             first == [id |-> id, port |-> l.port, protocol |-> l.protocol, rules |-> <<rule(None)>>]
             second == [id |-> id, port |-> l.port, protocol |-> l.protocol, rules |-> <<half>>]
  <2>0. [l EXCEPT !.id = id] = first
    <3> HIDE DEF rule
    <3> QED BY <1>1
  <2>1. s = [[first EXCEPT !.rules[1].id = id] EXCEPT !.rules[1].backends[1].id = id]
    BY <2>0
  <2>2. [first EXCEPT !.rules[1].id = id] = second
    <3>1. first.rules = <<rule(None)>>
      OBVIOUS
    <3>2. [first EXCEPT !.rules[1].id = id] =
             [first EXCEPT !.rules = [first.rules EXCEPT ![1].id = id]]
      <4> HIDE DEF first
      <4> QED OBVIOUS
    <3>3. [rule(None) EXCEPT !.id = id] = half
      OBVIOUS
    <3>4. [first EXCEPT !.rules = <<half>>] = second
      <4> HIDE DEF half, rule
      <4> QED OBVIOUS
    <3>5. [first.rules EXCEPT ![1].id = id] = <<half>>
      <4> HIDE DEF first, rule, half
      <4> QED BY <3>1, <3>3, OnlyOnesId
    <3> HIDE DEF first, second
    <3> QED BY <3>2, <3>4, <3>5
  <2>3. second.rules = <<half>> /\ second.rules[1] = half /\ half.backends = <<backend(None)>>
    OBVIOUS
  <2>4. [second EXCEPT !.rules[1].backends[1].id = id] =
           [second EXCEPT !.rules = [second.rules EXCEPT ![1] =
              [second.rules[1] EXCEPT !.backends =
                 [second.rules[1].backends EXCEPT ![1].id = id]]]]
    <3> HIDE DEF second
    <3> QED OBVIOUS
  <2>5. [half.backends EXCEPT ![1].id = id] = <<[backend(None) EXCEPT !.id = id]>>
    <3> HIDE DEF half, backend
    <3> QED BY <2>3, OnlyOnesId
  <2>6. [backend(None) EXCEPT !.id = id] = backend(id)
    OBVIOUS
  <2>7. [half EXCEPT !.backends = <<backend(id)>>] = rule(id)
    <3> HIDE DEF backend
    <3> QED OBVIOUS
  <2>8. [second.rules EXCEPT ![1] = rule(id)] = <<rule(id)>>
    <3> HIDE DEF second, rule
    <3> QED BY <2>3, OnlyOne
  <2>9. [second EXCEPT !.rules = <<rule(id)>>] = row(id)
    <3> HIDE DEF rule, half
    <3> QED OBVIOUS
  <2> HIDE DEF half, first, second, backend, rule, row, s
  <2>10. s = [second EXCEPT !.rules[1].backends[1].id = id]
    BY <2>1, <2>2
  <2>11. [second.rules[1].backends EXCEPT ![1].id = id] = <<backend(id)>>
    BY <2>3, <2>5, <2>6
  <2>12. [second.rules[1] EXCEPT !.backends = <<backend(id)>>] = rule(id)
    BY <2>3, <2>7
  <2> QED BY <2>4, <2>8, <2>9, <2>10, <2>11, <2>12
<1>3. /\ row(id).rules[1].backends[1].endpoints = l.rules[1].backends[1].endpoints
      /\ row(id).rules[1].matches = l.rules[1].matches
      /\ row(id).rules[1].monitor = l.rules[1].monitor
      /\ row(id).port = l.port /\ row(id).protocol = l.protocol
  OBVIOUS
<1> QED BY <1>2, <1>3 DEF Row, Serves, listenerKey
(* What is sent for row j: the wanted row, with the identifiers of a held  *)
(* row of the same key if there is one.                                    *)
LEMMA SentRow ==
    ASSUME listeners # None => Rows(listeners), NEW want, Wanted(want), NEW j \in DOMAIN want
    PROVE  LET sent == Request(want)
               same == {k \in DOMAIN listeners : listenerKey(listeners[k]) = listenerKey(want[j])}
           IN  /\ DOMAIN sent = DOMAIN want
               /\ Serves(sent[j]) = Serves(want[j])
               /\ \/ /\ Row(sent[j], None, None, None) /\ sent[j].id = None
                     /\ listeners # None => same = {}
                  \/ /\ listeners # None /\ sent[j].id # None
                     /\ \E i \in same : Named(sent[j], listeners[i])
<1> DEFINE sent == Request(want)
           same == {k \in DOMAIN listeners : listenerKey(listeners[k]) = listenerKey(want[j])}
<1>1. Row(want[j], None, None, None) /\ want[j].id = None
  BY DEF Wanted, Row
<1>2. CASE listeners = None
  BY <1>1, <1>2 DEF Request
<1>3. CASE listeners # None
  <2>1. Rows(listeners)
    BY <1>3
  <2>2. PICK n \in Nat : DOMAIN listeners = 1..n
    BY <2>1 DEF Rows
  <2>3. /\ DOMAIN sent = DOMAIN want
        /\ sent[j] = IF same = {} THEN want[j] ELSE mergeListener(want[j], listeners[Max(same)])
    BY <1>3 DEF Request, mergeListenerIDs
  <2>4. CASE same = {}
    BY <1>1, <2>3, <2>4
  <2>5. CASE same # {}
    <3>1. Max(same) \in same
      <4>1. same \subseteq 1..n
        BY <2>2
      <4> HIDE DEF same
      <4> QED BY <2>5, <4>1, MaxIsMember
    <3> DEFINE h == listeners[Max(same)]
               id == h.id
               ruleId == h.rules[1].id
               backendId == h.rules[1].backends[1].id
    <3>2. id # None /\ Row(h, id, ruleId, backendId)
      BY <2>1, <3>1 DEF Rows, Named
    <3>3. sent[j] = mergeListener(want[j], h)
      BY <2>3, <2>5
    <3> HIDE DEF sent, same, id, ruleId, backendId
    <3>4. Row(sent[j], id, ruleId, backendId) /\ Serves(sent[j]) = Serves(want[j])
      <4> HIDE DEF h
      <4> QED BY <1>1, <3>2, <3>3, MergedRow
    <3>5. sent[j].id # None
      BY <3>2, <3>4 DEF Row
    <3>6. Named(sent[j], listeners[Max(same)])
      BY <3>4 DEF Named, id, ruleId, backendId
    <3> HIDE DEF h
    <3>7. /\ DOMAIN sent = DOMAIN want /\ Serves(sent[j]) = Serves(want[j])
          /\ listeners # None /\ sent[j].id # None
          /\ \E i \in same : Named(sent[j], listeners[i])
      BY <1>3, <2>3, <3>1, <3>4, <3>5, <3>6
    <3> QED BY <3>7 DEF sent, same
  <2> QED BY <2>4, <2>5
<1> QED BY <1>2, <1>3

(* New identifiers are numbers.                                            *)
LEMMA FreshIsNat ==
    ASSUME NEW n \in Nat, NEW sent, DOMAIN sent = 1..n
    PROVE  Fresh(sent) \in Nat
<1>1. {i \in DOMAIN sent : sent[i].id = None} \subseteq 1..n
  OBVIOUS
<1> QED BY <1>1, PlacesAreFinite DEF Fresh

(* A row without an identifier is counted by Fresh, and not by those       *)
(* before it.                                                              *)
LEMMA FreshGrows ==
    ASSUME NEW n \in Nat, NEW sent, DOMAIN sent = 1..n, NEW j \in 1..n, sent[j].id = None,
           NEW part, DOMAIN part = 1..(j - 1), \A k \in 1..(j - 1) : part[k] = sent[k]
    PROVE  Fresh(part) \in Nat /\ Fresh(part) < Fresh(sent)
<1> DEFINE all == {i \in DOMAIN sent : sent[i].id = None}
           before == {i \in DOMAIN part : part[i].id = None}
<1>1. j - 1 \in Nat /\ before \subseteq 1..(j - 1) /\ all \subseteq 1..n
  OBVIOUS
<1>2. j \in all /\ j \notin before /\ before \subseteq all
  OBVIOUS
<1>3. Fresh(part) = Cardinality(before) /\ Fresh(sent) = Cardinality(all)
  BY DEF Fresh
<1> HIDE DEF all, before
<1>4. /\ IsFiniteSet(before) /\ Cardinality(before) \in Nat
      /\ IsFiniteSet(all) /\ Cardinality(all) \in Nat
  BY <1>1, PlacesAreFinite
<1>5. Cardinality(before \cup {j}) = Cardinality(before) + 1
  BY <1>2, <1>4, FS_AddElement
<1>6. Cardinality(before \cup {j}) <= Cardinality(all)
  <2>1. before \cup {j} \in SUBSET all
    BY <1>2
  <2> QED BY <1>4, <2>1, FS_Subset
<1> QED BY <1>3, <1>4, <1>5, <1>6

(* What the API server holds after it accepted a request: the wanted rows, *)
(* named like the held ones of the same key or with a new identifier.      *)
LEMMA AcceptedRows ==
    ASSUME listeners # None => Rows(listeners), service.spec \in ServiceSpecs, nextId \in Nat,
           NEW want \in WantedListeners, Accept(Request(want))
    PROVE  /\ nextId' \in Nat /\ nextId <= nextId'
           /\ \E n \in Nat : /\ DOMAIN want = 1..n
                             /\ listeners' = [j \in 1..n |-> listeners'[j]]
           /\ \A j \in DOMAIN want :
                 /\ Serves(listeners'[j]) = Serves(want[j])
                 /\ listeners'[j].id # None
                 /\ \/ /\ listeners # None
                       /\ \E i \in DOMAIN listeners :
                             /\ listenerKey(listeners[i]) = listenerKey(want[j])
                             /\ Named(listeners'[j], listeners[i])
                    \/ /\ listeners # None =>
                             \A i \in DOMAIN listeners :
                                listenerKey(listeners[i]) # listenerKey(want[j])
                       /\ \E id \in Nat : /\ nextId <= id /\ id < nextId'
                                          /\ Row(listeners'[j], id, id, id)
<1> DEFINE sent == Request(want)
           id(j) == nextId + Fresh(SubSeq(sent, 1, j - 1))
           new(j) == [sent[j] EXCEPT !.id = id(j), !.rules[1].id = id(j),
                                     !.rules[1].backends[1].id = id(j)]
<1>1. Wanted(want)
  BY SyncsWant
<1>2. PICK n \in Nat : DOMAIN want = 1..n
  <2>1. service.spec.ports \in Seq(ServicePort)
    BY NodesConstants
  <2> QED BY <1>1, <2>1 DEF Wanted
<1>3. sent = [k \in 1..n |-> sent[k]]
  <2>1. CASE listeners = None
    <3>1. PICK ns \in NodeLists, vs \in VMILists : want = buildListeners(service.spec, ns, vs)
      BY DEF WantedListeners
    <3> QED BY <1>2, <2>1, <3>1 DEF Request, buildListeners
  <2>2. CASE listeners # None
    BY <1>2, <2>2 DEF Request, mergeListenerIDs
  <2> QED BY <2>1, <2>2
<1>4. nextId' = nextId + Fresh(sent) /\ listeners' = Stored(sent)
  BY DEF Accept
<1>5. nextId' \in Nat /\ nextId <= nextId' /\ Fresh(sent) \in Nat
  <2> HIDE DEF sent
  <2>1. Fresh(sent) \in Nat
    BY <1>3, FreshIsNat
  <2> QED BY <1>4, <2>1
<1>6. listeners' = [j \in 1..n |-> IF sent[j].id # None THEN sent[j] ELSE new(j)]
  <2>1. listeners' = [j \in DOMAIN sent |-> IF sent[j].id # None THEN sent[j] ELSE new(j)]
    BY <1>4 DEF Stored
  <2>2. DOMAIN sent = 1..n
    <3> HIDE DEF sent
    <3> QED BY <1>3
  <2> HIDE DEF sent, new
  <2> QED BY <2>1, <2>2
<1>7. ASSUME NEW j \in 1..n, sent[j].id = None
      PROVE  id(j) \in Nat /\ nextId <= id(j) /\ id(j) < nextId'
  <2> DEFINE S == {sent[k] : k \in DOMAIN sent}
             part == SubSeq(sent, 1, j - 1)
  <2> HIDE DEF sent
  <2>1. sent \in Seq(S) /\ DOMAIN sent = 1..n /\ Len(sent) = n
    BY <1>3
  <2> HIDE DEF S
  <2>2. DOMAIN part = 1..(j - 1) /\ \A k \in 1..(j - 1) : part[k] = sent[k]
    BY <2>1
  <2> HIDE DEF part
  <2>3. Fresh(part) \in Nat /\ Fresh(part) < Fresh(sent)
    BY <1>7, <2>1, <2>2, FreshGrows
  <2>4. id(j) = nextId + Fresh(part)
    BY DEF part
  <2> QED BY <1>4, <1>5, <2>3, <2>4
<1>8. ASSUME NEW j \in 1..n
      PROVE  /\ Serves(listeners'[j]) = Serves(want[j])
             /\ listeners'[j].id # None
             /\ \/ /\ listeners # None
                   /\ \E i \in DOMAIN listeners :
                         /\ listenerKey(listeners[i]) = listenerKey(want[j])
                         /\ Named(listeners'[j], listeners[i])
                \/ /\ listeners # None =>
                         \A i \in DOMAIN listeners :
                            listenerKey(listeners[i]) # listenerKey(want[j])
                   /\ \E k \in Nat : /\ nextId <= k /\ k < nextId'
                                     /\ Row(listeners'[j], k, k, k)
  <2> DEFINE same == {k \in DOMAIN listeners : listenerKey(listeners[k]) = listenerKey(want[j])}
  <2>1. /\ Serves(sent[j]) = Serves(want[j])
        /\ \/ /\ Row(sent[j], None, None, None) /\ sent[j].id = None
              /\ listeners # None => same = {}
           \/ /\ listeners # None /\ sent[j].id # None
              /\ \E i \in same : Named(sent[j], listeners[i])
    BY <1>1, <1>2, SentRow
  <2> HIDE DEF sent
  <2>2. CASE sent[j].id # None
    <3>1. listeners'[j] = sent[j]
      BY <1>6, <2>2
    <3> QED BY <2>1, <2>2, <3>1
  <2>3. CASE sent[j].id = None
    <3>1. listeners'[j] = new(j) /\ Row(sent[j], None, None, None)
      BY <1>6, <2>1, <2>3
    <3>2. Row(new(j), id(j), id(j), id(j)) /\ Serves(new(j)) = Serves(sent[j])
      <4> HIDE DEF id
      <4> QED BY <3>1, StoredRow
    <3>3. id(j) \in Nat /\ nextId <= id(j) /\ id(j) < nextId'
      BY <1>7, <2>3
    <3> HIDE DEF id, new
    <3>4. new(j).id = id(j)
      BY <3>2 DEF Row
    <3>5. new(j).id # None
      BY <3>3, <3>4, NodesConstants
    <3>6. listeners # None =>
             \A i \in DOMAIN listeners : listenerKey(listeners[i]) # listenerKey(want[j])
      BY <2>1, <2>3
    <3> QED BY <2>1, <3>1, <3>2, <3>3, <3>5, <3>6
  <2> QED BY <2>2, <2>3
<1>9. listeners' = [j \in 1..n |-> listeners'[j]]
  <2> HIDE DEF sent, new
  <2> QED BY <1>6
<1> HIDE DEF sent, id, new
<1> QED BY <1>2, <1>5, <1>8, <1>9

LEMMA AcceptedIsHeld ==
    ASSUME PortsApart, IdInv, NEW want \in WantedListeners, Accept(Request(want))
    PROVE  /\ nextId' \in Nat /\ Held(listeners')
           /\ listeners # None =>
                \A i \in DOMAIN listeners : \A j \in DOMAIN listeners' :
                   listenerKey(listeners[i]) = listenerKey(listeners'[j]) =>
                      /\ listeners[i].id = listeners'[j].id
                      /\ listeners[i].rules[1].id = listeners'[j].rules[1].id
                      /\ listeners[i].rules[1].backends[1].id
                           = listeners'[j].rules[1].backends[1].id
<1>1. /\ listeners # None => Rows(listeners)
      /\ service.spec \in ServiceSpecs /\ nextId \in Nat
  BY DEF IdInv, Held
<1>2. Wanted(want)
  BY SyncsWant
<1>3. PICK n \in Nat : /\ DOMAIN want = 1..n
                       /\ listeners' = [j \in 1..n |-> listeners'[j]]
  BY <1>1, AcceptedRows
<1>4. DOMAIN listeners' = 1..n /\ nextId' \in Nat
  BY <1>1, <1>3, AcceptedRows
<1>5. \A j \in 1..n :
         /\ listenerKey(listeners'[j]) = listenerKey(want[j])
         /\ listeners'[j].id # None
         /\ \/ /\ listeners # None
               /\ \E i \in DOMAIN listeners :
                     /\ listenerKey(listeners[i]) = listenerKey(want[j])
                     /\ Named(listeners'[j], listeners[i])
            \/ /\ listeners # None =>
                     \A i \in DOMAIN listeners :
                        listenerKey(listeners[i]) # listenerKey(want[j])
               /\ \E id \in Nat : Row(listeners'[j], id, id, id)
  <2>1. \A j \in 1..n : Serves(listeners'[j]).key = Serves(want[j]).key
    BY <1>1, <1>3, AcceptedRows
  <2>2. \A j \in 1..n : listenerKey(listeners'[j]) = listenerKey(want[j])
    BY <2>1 DEF Serves
  <2> QED BY <1>1, <1>3, <2>2, AcceptedRows
<1>6. \A j \in 1..n : Named(listeners'[j], listeners'[j])
  <2> SUFFICES ASSUME NEW j \in 1..n PROVE Named(listeners'[j], listeners'[j])
    OBVIOUS
  <2>1. PICK id, ruleId, backendId : Row(listeners'[j], id, ruleId, backendId)
    BY <1>5 DEF Named
  <2> QED BY <2>1 DEF Named, Row
<1>7. \A i, j \in 1..n : listenerKey(listeners'[i]) = listenerKey(listeners'[j]) => i = j
  <2>1. \A j \in 1..n : listenerKey(want[j]) =
           <<service.spec.ports[j].port, listenerProtocol(service.spec, service.spec.ports[j])>>
    BY <1>2, <1>3 DEF Wanted, listenerKey
  <2>2. DOMAIN service.spec.ports = 1..n /\ service.spec \in ServiceSpecs
    BY <1>1, <1>2, <1>3 DEF Wanted
  <2>3. \A j \in 1..n : listenerKey(listeners'[j]) = listenerKey(want[j])
    BY <1>5
  <2> SUFFICES ASSUME NEW i \in 1..n, NEW j \in 1..n,
                      listenerKey(listeners'[i]) = listenerKey(listeners'[j])
               PROVE  i = j
    OBVIOUS
  <2>4. listenerKey(want[i]) = listenerKey(want[j])
    BY <2>3
  <2>5. /\ service.spec.ports[i].port = service.spec.ports[j].port
        /\ listenerProtocol(service.spec, service.spec.ports[i])
             = listenerProtocol(service.spec, service.spec.ports[j])
    BY <2>1, <2>4
  <2> QED BY <2>2, <2>5 DEF PortsApart
<1>8. Held(listeners')
  BY <1>4, <1>5, <1>6, <1>7 DEF Held, Rows
<1>9. ASSUME listeners # None, NEW i \in DOMAIN listeners, NEW j \in 1..n,
             listenerKey(listeners[i]) = listenerKey(listeners'[j])
      PROVE  /\ listeners[i].id = listeners'[j].id
             /\ listeners[i].rules[1].id = listeners'[j].rules[1].id
             /\ listeners[i].rules[1].backends[1].id
                  = listeners'[j].rules[1].backends[1].id
  <2>1. PICK h \in DOMAIN listeners : /\ listenerKey(listeners[h]) = listenerKey(want[j])
                                      /\ Named(listeners'[j], listeners[h])
    BY <1>5, <1>9
  <2>2. h = i
    BY <1>5, <1>9, <2>1 DEF IdInv, Held
  <2> QED BY <2>1, <2>2 DEF Named, Row
<1> QED BY <1>4, <1>8, <1>9
(* Only an accepted request changes what the API server holds.             *)
LEMMA ListenerSteps ==
    ASSUME [Next]_vars
    PROVE  \/ UNCHANGED <<listeners, nextId>>
           \/ \E want \in WantedListeners : Accept(Request(want))
<1>1. CASE UNCHANGED vars
  BY <1>1 DEF vars, lbVars
<1>2. CASE Start
  BY <1>2 DEF Start
<1>3. CASE Kubelet
  BY <1>3 DEF Kubelet, Register, Heartbeat, lbVars
<1>4. CASE NodeControllers
  BY <1>4 DEF NodeControllers, syncNodeAddresses, DeleteNode, syncNode, MonitorNode,
              UpdateNodeStatus, lbVars
<1>5. CASE SyncService
  BY <1>5 DEF SyncService, SendListeners
<1>6. CASE SyncNodes
  BY <1>6 DEF SyncNodes, SendListeners
<1>7. CASE InstanceChanges
  BY <1>7 DEF InstanceChanges, CreateVMI, BootVMI, StopVMI, DeleteVMI, MuteVMI,
              RenumberVMI, Change, lbVars
<1>8. CASE EditService \/ Crash
  BY <1>8 DEF EditService, Crash, lbVars
<1> QED BY <1>1, <1>2, <1>3, <1>4, <1>5, <1>6, <1>7, <1>8
        DEF Next, System, Environment

LEMMA ServiceSteps ==
    ASSUME [Next]_vars
    PROVE  \/ UNCHANGED service
           \/ \E hash : service' = [service EXCEPT !.hash = hash]
           \/ \E spec \in ServiceSpecs : service' = [service EXCEPT !.spec = spec]
<1>1. CASE UNCHANGED vars
  BY <1>1 DEF vars, lbVars
<1>2. CASE Start
  BY <1>2 DEF Start
<1>3. CASE Kubelet
  BY <1>3 DEF Kubelet, Register, Heartbeat, lbVars
<1>4. CASE NodeControllers
  BY <1>4 DEF NodeControllers, syncNodeAddresses, DeleteNode, syncNode, MonitorNode,
              UpdateNodeStatus, lbVars
<1>5. CASE SyncService
  BY <1>5 DEF SyncService, SendListeners
<1>6. CASE SyncNodes
  BY <1>6 DEF SyncNodes, SendListeners
<1>7. CASE InstanceChanges
  BY <1>7 DEF InstanceChanges, CreateVMI, BootVMI, StopVMI, DeleteVMI, MuteVMI,
              RenumberVMI, Change, lbVars
<1>8. CASE EditService
  BY <1>8 DEF EditService
<1>9. CASE Crash
  BY <1>9 DEF Crash, lbVars
<1> QED BY <1>1, <1>2, <1>3, <1>4, <1>5, <1>6, <1>7, <1>8, <1>9
        DEF Next, System, Environment

LEMMA IdStep ==
    ASSUME PortsApart, IdInv, [Next]_vars
    PROVE  IdInv'
<1>1. /\ service' = [spec |-> service'.spec, hash |-> service'.hash]
      /\ service'.spec \in ServiceSpecs
  BY ServiceSteps DEF IdInv
<1>2. CASE UNCHANGED <<listeners, nextId>>
  BY <1>1, <1>2 DEF IdInv, Held, Rows, Named, Row, listenerKey
<1>3. CASE \E want \in WantedListeners : Accept(Request(want))
  <2>1. nextId' \in Nat /\ Held(listeners')
    BY <1>3, AcceptedIsHeld
  <2>2. Held(listeners)'
    BY <2>1 DEF Held, Rows, Named, Row, listenerKey
  <2> QED BY <1>1, <2>1, <2>2 DEF IdInv
<1> QED BY <1>2, <1>3, ListenerSteps

(* An update never changes the identifiers of a listener whose port and    *)
(* protocol stay, nor those of its rule and backend, for every Service     *)
(* whose ports become different listeners (mergeListenerIDs).              *)
THEOREM IdsHold ==
    ASSUME PortsApart
    PROVE  Spec => IdsSurvive
<1>1. Init => IdInv
  BY NodesConstants DEF Init, IdInv
<1>2. IdInv /\ [Next]_vars => IdInv'
  BY IdStep
<1>3. ASSUME IdInv, [Next]_vars, listeners # None,
             NEW i \in DOMAIN listeners, NEW j \in DOMAIN listeners',
             listenerKey(listeners[i]) = listenerKey(listeners'[j])
      PROVE  /\ listeners[i].id = listeners'[j].id
             /\ listeners[i].rules[1].id = listeners'[j].rules[1].id
             /\ listeners[i].rules[1].backends[1].id
                  = listeners'[j].rules[1].backends[1].id
  <2>1. CASE UNCHANGED listeners
    <3>1. i = j
      BY <1>3, <2>1 DEF IdInv, Held
    <3> QED BY <2>1, <3>1
  <2>2. CASE \E want \in WantedListeners : Accept(Request(want))
    BY <1>3, <2>2, AcceptedIsHeld
  <2> QED BY <1>3, <2>1, <2>2, ListenerSteps
<1>4. IdInv /\ [Next]_vars =>
         (listeners # None =>
            \A i \in DOMAIN listeners : \A j \in DOMAIN listeners' :
               listenerKey(listeners[i]) = listenerKey(listeners'[j]) =>
                  /\ listeners[i].id = listeners'[j].id
                  /\ listeners[i].rules[1].id = listeners'[j].rules[1].id
                  /\ listeners[i].rules[1].backends[1].id
                       = listeners'[j].rules[1].backends[1].id)
  BY <1>3
<1> QED BY <1>1, <1>2, <1>4, PTL DEF Spec, IdsSurvive
=============================================================================
