-------------------------------- MODULE Nodes --------------------------------
(***************************************************************************)
(* Nodes, the instances behind them and the endpoints of a load balancer:  *)
(* the node controller and the node lifecycle controller of                *)
(* k8s.io/cloud-provider (vendored) on top of InstancesV2, and the service *)
(* controller's two ways of sending a node list to the provider.  Module   *)
(* ServiceController treats a node set as a value; here it is made of      *)
(* addresses that arrive one patch at a time.                              *)
(*                                                                         *)
(* The Service exists and stays.  A sync of the service controller is one  *)
(* step: what can happen between its calls is the subject of module        *)
(* ServiceController.                                                      *)
(***************************************************************************)
EXTENDS Instances, Cloud

CONSTANTS
    NodeNames,      \* names of tenant nodes
    InstanceOf,     \* InstanceOf[n]: the instance node n's kubelet runs in
    Pool,           \* Pool[v]: addresses instance v may get
    PodIP,          \* address of a guest interface that is not "default"
    LinkLocal,      \* address that accompanies every real one
    ServiceSpecs,   \* versions of the Service: ports and route annotations
    FirstSpec,      \* the one it is created with
    Files,          \* configuration files the process may be started with
    MaxTrouble,     \* changes of instances and of the Service, refused RPCs,
                    \* failed patches and restarts, all together
    MaxIds          \* identifiers the API server can hand out

VARIABLES
    nodes,          \* nodes[n]: the Node object
    joining,        \* node between the two writes of syncNode, or None
    joinAddrs,      \* addresses the second write will carry
    doomed,         \* node the lifecycle controller is about to delete
    service,        \* the Service, with its id and hash annotations
    listeners,      \* the load balancer on the API server, or None
    nextId,         \* next identifier of the API server
    svcQueued,      \* the Service's key is in the service queue
    nodeQueued,     \* the node queue holds its key
    lastSynced,     \* lastSyncedNodes: name and provider id, or None
    untriggered,    \* history: addresses changed and no list was taken since
    proc,           \* the process
    cloud,          \* what it runs with, once it is up
    file,           \* its configuration file
    trouble         \* how many of MaxTrouble are left

nodeVars == <<nodes, joining, joinAddrs, doomed>>
lbVars == <<service, listeners, nextId, svcQueued, nodeQueued, lastSynced, untriggered>>
vars == <<vmis, nodeVars, lbVars, proc, cloud, file, trouble>>

Ids == 1..MaxIds

ServicePort == [port : Nat, protocol : {"TCP", "UDP", "SCTP"}, nodePort : Nat]

Wiring == [namespace : {"", "tenant", "default"}, lb : {"unsupported", "nil", "client"},
           instances : BOOLEAN, eps : {"off", "running"}]

ASSUME NodesConstants ==
    /\ IPs \subseteq Nat /\ Reachable \subseteq IPs /\ None \notin IPs
    /\ \A v \in VMINames : Pool[v] \subseteq Reachable
    /\ PodIP \in Reachable /\ LinkLocal \in IPs \ Reachable
    /\ FirstSpec \in ServiceSpecs /\ MaxTrouble \in Nat /\ MaxIds \in Nat
    /\ None \notin NodeNames /\ None \notin Nat
    /\ InstanceOf \in [NodeNames -> VMINames]
    /\ IsFiniteSet(NodeNames) /\ None \notin Wiring
    /\ \A spec \in ServiceSpecs :
          spec.ports \in Seq(ServicePort) /\ spec.path \in Paths \cup {None}
    /\ \A f \in Files \ {Garbled} : NewCloudConfigFromBytes(f) \in CloudConfig

-----------------------------------------------------------------------------
(* Values.                                                                 *)

NodeAddress == [type : {"InternalIP", "ExternalIP"}, ip : IPs]

ProviderID == {getProviderID(v) : v \in VMINames} \cup {None}

NoNode == [present |-> FALSE, ready |-> FALSE, tainted |-> FALSE, shutdown |-> FALSE,
           providerID |-> None, addrs |-> <<>>]

Node == [present : BOOLEAN, ready : BOOLEAN, tainted : BOOLEAN, shutdown : BOOLEAN,
         providerID : ProviderID, addrs : Seq(NodeAddress)]

TypeOK ==
    /\ \A v \in VMINames : vmis[v].phase \in Phase
    /\ nodes \in [NodeNames -> Node]
    /\ joining \in NodeNames \cup {None} /\ doomed \in NodeNames \cup {None}
    /\ joinAddrs \in Seq(NodeAddress)
    /\ service.spec \in ServiceSpecs
    /\ listeners = None \/ listeners \in Seq(Listener(Ids))
    /\ nextId \in 1..(MaxIds + 1)
    /\ svcQueued \in BOOLEAN /\ nodeQueued \in BOOLEAN /\ untriggered \in BOOLEAN
    /\ lastSynced = None \/ lastSynced \subseteq NodeNames \X ProviderID
    /\ proc \in {"down", "up", "fatal", "panic"} /\ cloud \in Wiring \cup {None}
    /\ proc = "up" => cloud # None
    /\ trouble \in 0..MaxTrouble

-----------------------------------------------------------------------------
(* Instances and kubelets.                                                 *)

(* What the guest agent reports: a CNI interface first, then the pod       *)
(* network with its link-local companion.                                  *)
Interfaces(ip) ==
    <<[name |-> "cilium_host", ips |-> <<PodIP>>, ip |-> PodIP],
      [name |-> "default", ips |-> IF ip = None THEN <<>> ELSE <<LinkLocal, ip>>, ip |-> ip]>>

VMI(phase, ip) == [phase |-> phase, ifs |-> IF phase = "Scheduling" THEN <<>> ELSE Interfaces(ip)]

NoVMI == [phase |-> "absent", ifs |-> <<>>]

Trouble == trouble > 0 /\ trouble' = trouble - 1

Change(v, instance) ==
    /\ vmis' = [vmis EXCEPT ![v] = instance]
    /\ UNCHANGED <<nodeVars, lbVars, proc, cloud, file>>

CreateVMI(v) == vmis[v].phase = "absent" /\ Trouble /\ Change(v, VMI("Scheduling", None))

(* A new start may come with a new address.                                *)
BootVMI(v) == /\ vmis[v].phase = "Scheduling" /\ UNCHANGED trouble
              /\ \E ip \in Pool[v] : Change(v, VMI("Running", ip))

StopVMI(v) == /\ vmis[v].phase = "Running" /\ Trouble
              /\ \E phase \in {"Failed", "Unknown"} :
                    Change(v, [vmis[v] EXCEPT !.phase = phase])

DeleteVMI(v) == Exists(v) /\ Trouble /\ Change(v, NoVMI)

(* An internal reboot or a silent guest agent: no addresses.               *)
MuteVMI(v) == vmis[v].phase = "Running" /\ Trouble /\ Change(v, VMI("Running", None))

RenumberVMI(v) == /\ vmis[v].phase = "Running" /\ Trouble
                  /\ \E ip \in Pool[v] : Change(v, VMI("Running", ip))

InstanceChanges ==
    \E v \in VMINames : \/ CreateVMI(v) \/ BootVMI(v) \/ StopVMI(v) \/ DeleteVMI(v)
                        \/ MuteVMI(v) \/ RenumberVMI(v)

(* A kubelet registers its node with the cloud taint and no addresses; an  *)
(* added node is a reason for a node sync.                                 *)
Register(n) ==
    /\ ~nodes[n].present /\ vmis[InstanceOf[n]].phase = "Running"
    /\ nodes' = [nodes EXCEPT ![n] = [NoNode EXCEPT !.present = TRUE, !.ready = TRUE,
                                                    !.tainted = TRUE]]
    /\ nodeQueued' = TRUE
    /\ UNCHANGED <<vmis, joining, joinAddrs, doomed, service, listeners, nextId,
                   svcQueued, lastSynced, untriggered, proc, cloud, file, trouble>>

(* The Ready condition follows the kubelet.                                *)
Heartbeat(n) ==
    /\ nodes[n].present
    /\ nodes[n].ready # (vmis[InstanceOf[n]].phase = "Running")
    /\ nodes' = [nodes EXCEPT ![n].ready = ~@]
    /\ UNCHANGED <<vmis, joining, joinAddrs, doomed, lbVars, proc, cloud, file, trouble>>

Kubelet == \E n \in NodeNames : Register(n) \/ Heartbeat(n)

-----------------------------------------------------------------------------
(* The node controller and the node lifecycle controller.                  *)

NodesRun == proc = "up" /\ cloud.instances

ServicesRun == proc = "up" /\ cloud.lb # "unsupported"

(* syncNode of a node that is not initialised: the first write sets the    *)
(* provider id and takes the taint off.  The informers see it at once.     *)
syncNode(n) ==
    /\ NodesRun /\ joining = None
    /\ UNCHANGED <<vmis, doomed, service, listeners, nextId, svcQueued, lastSynced,
                   untriggered, proc, cloud, file, trouble>>
    /\ nodes[n].present /\ nodes[n].tainted
    /\ joining' = n /\ nodeQueued' = TRUE
    /\ \E meta \in InstanceMetadata(n, nodes[n]) :
         /\ nodes' = [nodes EXCEPT ![n].tainted = FALSE,
                                   ![n].providerID = IF @ = None THEN meta.providerID ELSE @]
         /\ joinAddrs' = meta.addrs

(* updateNodeAddress: an empty list is ignored, and so is an error.  A     *)
(* change of addresses alone is no reason for a node sync.                 *)
writeAddresses(n, addrs) ==
    LET changes == nodes[n].present /\ addrs # <<>> /\ addrs # nodes[n].addrs
    IN  \/ /\ changes /\ UNCHANGED trouble
           /\ nodes' = [nodes EXCEPT ![n].addrs = addrs]
           /\ untriggered' = TRUE
        \/ /\ changes /\ Trouble
           /\ UNCHANGED <<nodes, untriggered>>
        \/ ~changes /\ UNCHANGED <<nodes, untriggered, trouble>>

(* The second write of syncNode.                                           *)
syncNodeAddresses ==
    /\ NodesRun /\ joining # None
    /\ writeAddresses(joining, joinAddrs)
    /\ joining' = None /\ joinAddrs' = <<>>
    /\ UNCHANGED <<vmis, doomed, service, listeners, nextId, svcQueued, nodeQueued,
                   lastSynced, proc, cloud, file>>

(* The periodic refresh of an initialised node's addresses.                *)
UpdateNodeStatus(n) ==
    /\ NodesRun /\ nodes[n].present /\ ~nodes[n].tainted
    /\ UNCHANGED <<vmis, joining, joinAddrs, doomed, service, listeners, nextId,
                   svcQueued, nodeQueued, lastSynced, proc, cloud, file>>
    /\ \E meta \in InstanceMetadata(n, nodes[n]) :
         /\ meta.addrs # <<>> /\ meta.addrs # nodes[n].addrs
         /\ writeAddresses(n, meta.addrs)

(* MonitorNodes, one node: a ready one loses the shutdown taint, another   *)
(* one is checked against the provider.                                    *)
MonitorNode(n) ==
    /\ NodesRun /\ doomed = None /\ nodes[n].present
    /\ \/ /\ nodes[n].ready /\ nodes[n].shutdown
          /\ nodes' = [nodes EXCEPT ![n].shutdown = FALSE] /\ UNCHANGED doomed
       \/ /\ ~nodes[n].ready /\ InstanceExists(nodes[n]) = "no"
          /\ doomed' = n /\ UNCHANGED nodes
       \/ /\ ~nodes[n].ready /\ InstanceExists(nodes[n]) = "yes"
          /\ InstanceShutdown(nodes[n]) = "yes" /\ ~nodes[n].shutdown
          /\ nodes' = [nodes EXCEPT ![n].shutdown = TRUE] /\ UNCHANGED doomed
    /\ UNCHANGED <<vmis, joining, joinAddrs, lbVars, proc, cloud, file, trouble>>

(* ... and deleted, whatever has happened to it since the check.           *)
DeleteNode ==
    /\ NodesRun /\ doomed # None
    /\ nodes' = [nodes EXCEPT ![doomed] = NoNode]
    /\ doomed' = None
    /\ nodeQueued' = TRUE
    /\ UNCHANGED <<vmis, joining, joinAddrs, service, listeners, nextId, svcQueued,
                   lastSynced, untriggered, proc, cloud, file, trouble>>

NodeControllers == \/ syncNodeAddresses \/ DeleteNode
                   \/ \E n \in NodeNames : \/ syncNode(n) \/ MonitorNode(n)
                                           \/ UpdateNodeStatus(n)

-----------------------------------------------------------------------------
(* The service controller and the API server.                              *)

Listed == {n \in NodeNames : nodes[n].present}

(* nodesSufficientlyEqual compares names and provider ids, not addresses.  *)
protoNodes == {<<n, nodes[n].providerID>> : n \in Listed}

(* The lister returns the nodes in any order.                              *)
NodeLists == {[i \in DOMAIN ns |-> nodes[ns[i]]] : ns \in SetToSeqs(Listed)}

(* The infra client is not cached: there is one list of instances, in the  *)
(* order of the API server.                                                *)
VMILists == {[i \in DOMAIN vs |-> vmis[vs[i]]] : vs \in {SetToSeq({v \in VMINames : Exists(v)})}}

WantedListeners == {buildListeners(service.spec, ns, vs) : ns \in NodeLists, vs \in VMILists}

(* The API server gives every row without an identifier a new one, and     *)
(* drops the rows an update does not mention.                              *)
Fresh(sent) == Cardinality({i \in DOMAIN sent : sent[i].id = None})

Stored(sent) ==
    [i \in DOMAIN sent |->
        IF sent[i].id # None THEN sent[i]
        ELSE LET id == nextId + Fresh(SubSeq(sent, 1, i - 1))
             IN  [sent[i] EXCEPT !.id = id, !.rules[1].id = id,
                                 !.rules[1].backends[1].id = id]]

Accept(sent) == /\ nextId + Fresh(sent) <= MaxIds + 1
                /\ nextId' = nextId + Fresh(sent)
                /\ listeners' = Stored(sent)

(* The listeners of a request: an update takes over the identifiers.       *)
Request(want) == IF listeners = None THEN want ELSE mergeListenerIDs(want, listeners)

(* Mutant: the hash is recorded before the call.                           *)
HashFirst(want, queued) ==
    /\ cloud.lb = "client" /\ UNCHANGED proc
    /\ service' = [service EXCEPT !.hash = listenersHashStr(want)]
    /\ \/ Accept(Request(want)) /\ svcQueued' = queued /\ UNCHANGED trouble
       \/ Trouble /\ svcQueued' = TRUE /\ UNCHANGED <<listeners, nextId>>

(* CreateLoadBalancer or UpdateLoadBalancer and the hash annotation; or    *)
(* the RPC fails and the Service is queued again; or the client is nil.    *)
SendListeners(want, queued) ==
    \/ /\ cloud.lb = "client" /\ Accept(Request(want))
       /\ service' = [service EXCEPT !.hash = listenersHashStr(want)]
       /\ svcQueued' = queued
       /\ UNCHANGED <<proc, trouble>>
    \/ /\ cloud.lb = "client" /\ Trouble
       /\ svcQueued' = TRUE
       /\ UNCHANGED <<service, listeners, nextId, proc>>
    \/ /\ cloud.lb = "nil"
       /\ proc' = "panic"
       /\ UNCHANGED <<service, listeners, nextId, svcQueued, trouble>>

configChanged(want) == service.hash # listenersHashStr(want)

(* syncService: EnsureLoadBalancer with the nodes of this moment.          *)
SyncService ==
    /\ ServicesRun /\ svcQueued
    /\ UNCHANGED <<vmis, nodeVars, nodeQueued, cloud, file>>
    /\ lastSynced' = protoNodes /\ untriggered' = FALSE
    /\ \E want \in WantedListeners :
          \/ /\ ~validateListeners(want)
             /\ UNCHANGED <<service, listeners, nextId, svcQueued, proc, trouble>>
          \/ /\ validateListeners(want) /\ (listeners = None \/ configChanged(want))
             /\ SendListeners(want, FALSE)
          \/ /\ validateListeners(want) /\ listeners # None /\ ~configChanged(want)
             /\ svcQueued' = FALSE
             /\ UNCHANGED <<service, listeners, nextId, proc, trouble>>

(* A Service that no sync has seen since the start is not in the cache of  *)
(* the service controller, and gets no node sync.                          *)
NothingToSync == lastSynced \in {None, protoNodes}

(* nodeSyncService and UpdateLoadBalancer.  An error hands the Service to  *)
(* the service queue, unless it has no load balancer.                      *)
SyncNodes ==
    /\ ServicesRun /\ nodeQueued
    /\ UNCHANGED <<vmis, nodeVars, cloud, file>>
    /\ nodeQueued' = FALSE
    /\ \/ /\ NothingToSync
          /\ UNCHANGED <<service, listeners, nextId, svcQueued, lastSynced, proc,
                         trouble, untriggered>>
       \/ /\ ~NothingToSync
          /\ lastSynced' = protoNodes /\ untriggered' = FALSE
          /\ \E want \in WantedListeners :
                \/ /\ listeners = None \/ ~validateListeners(want)
                   /\ svcQueued' = (svcQueued \/ listeners # None)
                   /\ UNCHANGED <<service, listeners, nextId, proc, trouble>>
                \/ /\ listeners # None /\ validateListeners(want) /\ configChanged(want)
                   /\ SendListeners(want, svcQueued)
                \/ /\ listeners # None /\ validateListeners(want) /\ ~configChanged(want)
                   /\ UNCHANGED <<service, listeners, nextId, svcQueued, proc, trouble>>

EditService ==
    /\ Trouble
    /\ \E spec \in ServiceSpecs \ {service.spec} : service' = [service EXCEPT !.spec = spec]
    /\ svcQueued' = TRUE
    /\ UNCHANGED <<vmis, nodeVars, listeners, nextId, nodeQueued, lastSynced,
                   untriggered, proc, cloud, file>>

-----------------------------------------------------------------------------
(* The process.                                                            *)

(* The informers list everything: every node and the Service are added.    *)
Start ==
    /\ proc = "down"
    /\ \/ /\ startProcess(file) = Rejected
          /\ proc' = "fatal" /\ UNCHANGED cloud
       \/ /\ startProcess(file) # Rejected
          /\ proc' = "up" /\ cloud' = startProcess(file)
    /\ svcQueued' = TRUE /\ nodeQueued' = TRUE /\ lastSynced' = None
    /\ UNCHANGED <<vmis, nodeVars, service, listeners, nextId, untriggered, file,
                   trouble>>

(* What was in memory is gone, the second write of syncNode included.      *)
Crash ==
    /\ proc = "up"
    /\ Trouble
    /\ proc' = "down" /\ cloud' = None
    /\ joining' = None /\ joinAddrs' = <<>> /\ doomed' = None
    /\ UNCHANGED <<vmis, nodes, lbVars, file>>

-----------------------------------------------------------------------------
Init ==
    /\ vmis = [v \in VMINames |-> VMI("Scheduling", None)]
    /\ nodes = [n \in NodeNames |-> NoNode]
    /\ joining = None /\ joinAddrs = <<>> /\ doomed = None
    /\ service = [spec |-> FirstSpec, hash |-> None]
    /\ listeners = None /\ nextId = 1
    /\ svcQueued = FALSE /\ nodeQueued = FALSE /\ lastSynced = None
    /\ untriggered = FALSE
    /\ proc = "down" /\ cloud = None /\ file \in Files
    /\ trouble = MaxTrouble

Alive == proc \notin {"fatal", "panic"}

System == Alive /\ (Start \/ Kubelet \/ NodeControllers \/ SyncNodes \/ SyncService)

Environment == Alive /\ (InstanceChanges \/ EditService \/ Crash)

(* What goes on without the process, once it has ended for good, is of no  *)
(* interest here.                                                          *)
Next == System \/ Environment

Spec == Init /\ [][Next]_vars

(* Kubelets report, the loops and queues of the controllers run, and a     *)
(* process that ended is started again.  One condition for all of them is  *)
(* enough.  Nothing is assumed of the instances, of the Service's owner or *)
(* of the faults.                                                          *)
FairSpec == Spec /\ WF_vars(System)

-----------------------------------------------------------------------------
(* Properties.                                                             *)

(* An address the provider accepts keeps the process alive: neither sync   *)
(* path meets a nil client (Cloud.LoadBalancer, normalizeServerAddr).      *)
AddressAccepted ==
    file # Garbled /\ NewClient(NewCloudConfigFromBytes(file).rpcServerAddr) # Rejected

NoPanic == AddressAccepted => proc # "panic"

(* A node never carries an address that is not one of its own instance's   *)
(* on the pod network, whatever interfaces the guest reports, in whatever  *)
(* order lookups by label, name and hostname succeed, and however often    *)
(* instances come and go (findInstance, getNodeAddresses).                 *)
AddressOwned ==
    \A n \in NodeNames : \A i \in DOMAIN nodes[n].addrs :
        nodes[n].addrs[i].ip \in Pool[InstanceOf[n]]

(* What an API user would call the configuration: order left out.          *)
Content(ls) ==
    {[port |-> ls[i].port, protocol |-> ls[i].protocol, matches |-> ls[i].rules[1].matches,
      endpoints |-> ToSet(ls[i].rules[1].backends[1].endpoints)] : i \in DOMAIN ls}

(* The load balancer is put through another provisioning cycle only for a  *)
(* change of what it serves, and never because the lister returned the     *)
(* nodes in another order or the process was restarted (normalizeEndpoints *)
(* and the listener hash).                                                 *)
NoNeedlessUpdate ==
    [][listeners # None /\ listeners' # listeners =>
          Content(listeners') # Content(listeners)]_vars

(* An update that keeps a port and its protocol keeps the identifiers of   *)
(* its listener, rule and backend, so that the API server changes the row  *)
(* in place (mergeListenerIDs).                                            *)
IdsSurvive ==
    [][listeners # None =>
          \A i \in DOMAIN listeners : \A j \in DOMAIN listeners' :
             listenerKey(listeners[i]) = listenerKey(listeners'[j]) =>
                /\ listeners[i].id = listeners'[j].id
                /\ listeners[i].rules[1].id = listeners'[j].rules[1].id
                /\ listeners[i].rules[1].backends[1].id
                     = listeners'[j].rules[1].backends[1].id]_vars

(* The node agrees with its instance: the addresses the instance reports,  *)
(* the shutdown taint of a stopped one, and no node without an instance.   *)
(* A name with a dot breaks the round trip through the provider id.        *)
NodeSettled(n) ==
    LET v == InstanceOf[n]
        reported == getNodeAddresses(vmis[v].ifs, nodes[n].addrs)
    IN  nodes[n].present /\ ~nodes[n].tainted =>
            /\ Exists(v) => nodes[n].addrs = reported
            /\ v \notin Dotted =>
                  /\ Exists(v)
                  /\ vmis[v].phase = "Failed" => nodes[n].shutdown
                  /\ vmis[v].phase = "Running" => ~nodes[n].shutdown

(* Once the instances stop changing, every initialised node comes to agree *)
(* with its instance and stays so, through late addresses, new addresses,  *)
(* failed patches, restarts between the two writes of syncNode and an      *)
(* instance that comes back while its node is being deleted (InstancesV2). *)
NodesConverge == <>[](NodesRun => \A n \in NodeNames : NodeSettled(n))

InSync ==
    /\ listeners # None
    /\ \A want \in WantedListeners : Content(listeners) = Content(want)

(* The load balancer ends up with the ports of the Service and the         *)
(* addresses of the nodes, as long as some node has one.  The only reason  *)
(* why it may not is a change of addresses after the last list was taken:  *)
(* nothing in the service controller reacts to one (buildListeners,        *)
(* UpdateLoadBalancer, nodesSufficientlyEqual).                            *)
EndpointsConverge ==
    <>[](/\ proc = "up" /\ cloud.lb = "client" /\ ~untriggered
         /\ \E n \in Listed : nodes[n].addrs # <<>>
         => InSync)
=============================================================================
