---------------------------- MODULE LoadBalancer ----------------------------
(***************************************************************************)
(* pkg/provider/loadbalancer.go: the cloudprovider.LoadBalancer that turns *)
(* one Service into calls of the LoadBalancer API and keeps its state in   *)
(* annotations of that Service.                                            *)
(*                                                                         *)
(* Every RPC and every write to the API server is one step, so anything    *)
(* can happen between two of them.  The code between two calls belongs to  *)
(* the step that precedes it.  Two goroutines run the provider for the     *)
(* Service: the service worker (frame w: EnsureLoadBalancer,               *)
(* GetLoadBalancer, EnsureLoadBalancerDeleted) and the node worker (frame  *)
(* n: UpdateLoadBalancer).  Neither may modify the Service object it was   *)
(* given: w.obj and n.obj stay as they were when the call began.           *)
(***************************************************************************)
EXTENDS LBApi

CONSTANTS
    MaxRetries,             \* maxLoadBalancerRetries
    MaxCreateCount,         \* maxLoadBalancerCreateCount
    NoNodes,                \* node set without a usable endpoint
    OnlyServiceController,  \* configuration: mode 2, annotations give the networks
    FipNetworkConfigured,   \* configuration: fipNetworkID is set
    Hazards                 \* which of HazardKinds the environment may inject

VARIABLES
    svc,            \* the Service object held by the API server
    retries,        \* loadbalancer.retryCounts[uid], in memory
    advertised,     \* KamajiControlPlane.spec.network.advertiseAddress
    nodes,          \* the node set the service controller lists
    faults,         \* how many more hazards the environment may inject
    seenNotReady,   \* history: syncs that found load balancer k not ready
    w,              \* frame of the service worker
    n               \* frame of the node worker

(* "...Fail": the call had no effect and reports an error.  "...Lost": it  *)
(* took effect and still reports an error (deadline, broken connection).   *)
(* "idWrite", "annWrite": the annotation write fails for the id and for    *)
(* the other annotations (and the Kamaji patch).  "patch": a finalizer or  *)
(* status patch of the service controller fails.  "crash": the process     *)
(* restarts.  "lag": a sync starts on an out-of-date lister.  "overlap":   *)
(* both workers handle the Service at once.  "strip", "retype", "reset":   *)
(* the user removes the configuration annotations, changes spec.type, or   *)
(* follows the documented remedy for a load balancer that failed for good. *)
HazardKinds == {"createFail", "createLost", "getFail", "updateFail", "updateLost",
                "deleteFail", "deleteLost", "idWrite", "annWrite", "patch",
                "crash", "lag", "overlap", "strip", "retype", "reset"}

ASSUME Constants ==
    /\ MaxRetries \in Nat /\ MaxCreateCount \in Nat \ {0} /\ Ports # {}
    /\ Attempts \subseteq Nat /\ 0..MaxCreateCount \subseteq Attempts
    /\ None \notin Nat /\ None \notin Listeners /\ NoNodes \notin NodeSets
    /\ IpType \in {"external", "internal", "both"}
    /\ OnlyServiceController \in BOOLEAN /\ FipNetworkConfigured \in BOOLEAN
    /\ PurgeDeleted \in BOOLEAN /\ Hazards \subseteq HazardKinds

LBId == Attempts \cup {None}

(* Values the create-count annotation takes.                               *)
CreateCount == 0..MaxCreateCount

AnyPort == CHOOSE p \in Ports : TRUE

-----------------------------------------------------------------------------
(* Values.                                                                 *)

(* listenersHashStr: SHA-256 of the marshalled list, taken as injective.   *)
listenersHashStr(listeners) == <<"sha256", listeners>>

Hash == {listenersHashStr(l) : l \in Listeners}

ASSUME NoneIsNoHash == None \notin Hash

(* wants: spec.type is LoadBalancer.  config: the network and subnet       *)
(* annotations are there.  count is what getCreateCount reads: an absent   *)
(* or unreadable annotation is 0.  status is the load balancer whose       *)
(* address is in status.loadBalancer.                                      *)
Service == [present : BOOLEAN, deleting : BOOLEAN, finalizer : BOOLEAN,
            wants : BOOLEAN, config : BOOLEAN, ports : Ports, id : LBId,
            count : CreateCount, hash : Hash \cup {None}, internalIP : LBId, status : LBId]

Absent == [present |-> FALSE, deleting |-> FALSE, finalizer |-> FALSE,
           wants |-> FALSE, config |-> FALSE, ports |-> AnyPort,
           id |-> None, count |-> 0, hash |-> None, internalIP |-> None,
           status |-> None]

EnsurePC == {"ensure", "create", "annId", "annCount", "annHash", "get", "update",
             "recordHash", "recDelete", "poll", "kamaji", "internalIP"}

DeletePC == {"exists", "cleanup", "find", "delete"}

(* Where the service controller is, or what the provider returned to it.   *)
ControllerPC == {"idle", "addFinalizer", "publish", "done", "failed",
                 "removed", "clearStatus"}

(* id: load balancer being created, polled or deleted; count: what to      *)
(* record; late: the update was sent while the load balancer was not       *)
(* ready; orphan: the sync cleans up a Service that has left the lister.   *)
WFrame == [pc : EnsurePC \cup DeletePC \cup ControllerPC, obj : Service,
           want : Listeners \cup {None}, id : LBId, count : CreateCount,
           late : BOOLEAN, orphan : BOOLEAN]

NFrame == [pc : {"idle", "get", "update", "recordHash", "failed"},
           obj : Service, want : Listeners \cup {None}]

WIdle == [pc |-> "idle", obj |-> Absent, want |-> None, id |-> None, count |-> 0,
          late |-> FALSE, orphan |-> FALSE]

NIdle == [pc |-> "idle", obj |-> Absent, want |-> None]

-----------------------------------------------------------------------------
(* Helpers.                                                                *)

Fault(kind) == kind \in Hazards /\ faults > 0 /\ faults' = faults - 1

NoFault == UNCHANGED faults

(* A write to the Service fails by injection, or because it is gone.       *)
WriteFails(kind) == Fault(kind) \/ (~svc.present /\ NoFault)

Goto(pc) == w' = [w EXCEPT !.pc = pc]

(* One listener per port, whose endpoints are the usable nodes.            *)
buildListeners(service, nodeSet) == <<service.ports, nodeSet>>

validateListeners(listeners) == listeners \in Listeners

configChanged(service, listeners) == service.hash # listenersHashStr(listeners)

shouldSkipService(service) == OnlyServiceController /\ ~service.config

(* A declined Service, unless it still carries the id of a load balancer.  *)
hasNothing(service) == shouldSkipService(service) /\ service.id = None

(* With floating IPs requested and no external network configured, neither *)
(* the create nor the recreate path sends anything.                        *)
fipRefused == isFipEnabled /\ ~FipNetworkConfigured

clearRetryCount == retries' = 0

(* Mutant: a sync that finds the load balancer not ready is not counted.   *)
uncountedRetry == UNCHANGED retries

incrementRetryCount == retries' = retries + 1

(* Attempt number of the first creation: the recorded count, 0 at first.   *)
firstAttempt(service) == service.count

(* Mutant: the key of a recreation is the bare Service UID.                *)
bareUIDAttempt(service) == 0

(* Attempt number of the creation that replaces a stuck load balancer.     *)
nextAttempt(service) == service.count + 1

(* Mutant: one creation too many.                                          *)
createsExhaustedLate(service) == service.count > MaxCreateCount

createsExhausted(service) == service.count >= MaxCreateCount

(* What follows a successful poll: the Kamaji patch in mode 2, then the    *)
(* internal address in mode "both", then the status is returned.           *)
afterKamaji == IF IpType = "both" THEN "internalIP" ELSE "publish"

afterPoll == IF OnlyServiceController THEN "kamaji" ELSE afterKamaji

-----------------------------------------------------------------------------
(* EnsureLoadBalancer.                                                     *)

(* Up to the first call: decline, refuse, or go and create or read.        *)
EnsureLoadBalancer ==
    /\ w.pc = "ensure"
    /\ LET want == buildListeners(w.obj, nodes)
           refused == ~validateListeners(want) \/ (w.obj.id = None /\ fipRefused)
       IN  \/ /\ shouldSkipService(w.obj)
              /\ Goto("done")
           \/ /\ ~shouldSkipService(w.obj) /\ refused
              /\ Goto("failed")
           \/ /\ ~shouldSkipService(w.obj) /\ ~refused /\ w.obj.id = None
              /\ w' = [w EXCEPT !.pc = "create", !.want = want,
                                !.id = firstAttempt(w.obj), !.count = 1]
           \/ /\ ~shouldSkipService(w.obj) /\ ~refused /\ w.obj.id # None
              /\ w' = [w EXCEPT !.pc = "get", !.want = want, !.id = w.obj.id]
    /\ UNCHANGED <<lbs, svc, retries, advertised, nodes, faults, seenNotReady, n>>

(* CreateLoadBalancer, first or recreated.  A lost answer leaves a load    *)
(* balancer whose id nobody has recorded.                                  *)
CreateRPC ==
    /\ w.pc = "create"
    /\ \/ NoFault /\ ApiCreate(w.id, w.want) /\ Goto("annId")
       \/ Fault("createLost") /\ ApiCreate(w.id, w.want) /\ Goto("failed")
       \/ Fault("createFail") /\ UNCHANGED lbs /\ Goto("failed")
    /\ UNCHANGED <<svc, retries, advertised, nodes, seenNotReady, n>>

(* ensureServiceAnnotation(loadbalancer-id): the only annotation write     *)
(* whose failure ends the sync.                                            *)
AnnotateId ==
    /\ w.pc = "annId"
    /\ \/ /\ svc.present /\ NoFault
          /\ svc' = [svc EXCEPT !.id = w.id]
          /\ Goto("annCount")
       \/ WriteFails("idWrite") /\ UNCHANGED svc /\ Goto("failed")
    /\ UNCHANGED <<lbs, retries, advertised, nodes, seenNotReady, n>>

(* ensureServiceAnnotation(create-count): a failure is logged only.        *)
AnnotateCount ==
    /\ w.pc = "annCount"
    /\ \/ svc.present /\ NoFault /\ svc' = [svc EXCEPT !.count = w.count]
       \/ WriteFails("annWrite") /\ UNCHANGED svc
    /\ Goto("annHash")
    /\ UNCHANGED <<lbs, retries, advertised, nodes, seenNotReady, n>>

(* Mutant: the retry count survives a creation.                            *)
recordHashKeepsRetries ==
    /\ w.pc \in {"annHash", "recordHash"}
    /\ \/ svc.present /\ NoFault /\ svc' = [svc EXCEPT !.hash = listenersHashStr(w.want)]
       \/ WriteFails("annWrite") /\ UNCHANGED svc
    /\ Goto("poll")
    /\ UNCHANGED <<lbs, retries, advertised, nodes, seenNotReady, n>>

(* recordListenerHash; after a creation the retry count is cleared too.    *)
recordListenerHash ==
    /\ w.pc \in {"annHash", "recordHash"}
    /\ \/ svc.present /\ NoFault /\ svc' = [svc EXCEPT !.hash = listenersHashStr(w.want)]
       \/ WriteFails("annWrite") /\ UNCHANGED svc
    /\ IF w.pc = "annHash" THEN clearRetryCount ELSE UNCHANGED retries
    /\ Goto("poll")
    /\ UNCHANGED <<lbs, advertised, nodes, seenNotReady, n>>

(* GetLoadBalancer of a Service that has an id: READY with an address.     *)
FoundReady ==
    /\ Ready(w.id)
    /\ \/ /\ configChanged(w.obj, w.want)
          /\ w' = [w EXCEPT !.pc = "update", !.late = FALSE]
          /\ UNCHANGED retries
       \/ /\ ~configChanged(w.obj, w.want) /\ ~FipSettled(w.id)
          /\ Goto("poll")
          /\ UNCHANGED retries
       \/ /\ ~configChanged(w.obj, w.want) /\ FipSettled(w.id)
          /\ clearRetryCount
          /\ Goto("publish")
    /\ UNCHANGED seenNotReady

(* ... in any other state: recreate, update, or count the attempt.         *)
FoundNotReady ==
    /\ ~Ready(w.id)
    /\ \/ /\ retries >= MaxRetries
          /\ createsExhausted(w.obj) \/ fipRefused
          /\ Goto("failed")
          /\ UNCHANGED retries
       \/ /\ retries >= MaxRetries
          /\ ~createsExhausted(w.obj) /\ ~fipRefused
          /\ Goto("recDelete")
          /\ UNCHANGED retries
       \/ /\ retries < MaxRetries /\ configChanged(w.obj, w.want)
          /\ w' = [w EXCEPT !.pc = "update", !.late = TRUE]
          /\ UNCHANGED retries
       \/ /\ retries < MaxRetries /\ ~configChanged(w.obj, w.want)
          /\ incrementRetryCount
          /\ Goto("failed")
    /\ seenNotReady' = IF seenNotReady[w.id] > MaxRetries THEN seenNotReady
                       ELSE [seenNotReady EXCEPT ![w.id] = @ + 1]

EnsureGet ==
    /\ w.pc = "get"
    /\ \/ /\ Fault("getFail") \/ (~Known(w.id) /\ NoFault)
          /\ Goto("failed")
          /\ UNCHANGED <<retries, seenNotReady>>
       \/ /\ Known(w.id) /\ NoFault
          /\ FoundReady \/ FoundNotReady
    /\ UNCHANGED <<lbs, svc, advertised, nodes, n>>

(* Mutant: the stuck load balancer is replaced but not deleted.            *)
RecreateWithoutDelete ==
    /\ w.pc = "recDelete"
    /\ NoFault
    /\ w' = [w EXCEPT !.pc = "create", !.id = nextAttempt(w.obj),
                      !.count = nextAttempt(w.obj)]
    /\ UNCHANGED <<lbs, svc, retries, advertised, nodes, seenNotReady, n>>

(* The delete that precedes a recreation: whatever it answers, the create  *)
(* follows.                                                                *)
RecreateDelete ==
    /\ w.pc = "recDelete"
    /\ \/ (NoFault \/ Fault("deleteLost")) /\ ApiDelete(w.id)
       \/ Fault("deleteFail") /\ UNCHANGED lbs
    /\ w' = [w EXCEPT !.pc = "create", !.id = nextAttempt(w.obj),
                      !.count = nextAttempt(w.obj)]
    /\ UNCHANGED <<svc, retries, advertised, nodes, seenNotReady, n>>

(* UpdateLoadBalancer RPC; the server refuses it on a row that is going    *)
(* away.  On a load balancer that was not ready an error is counted.       *)
UpdateRPC ==
    /\ w.pc = "update"
    /\ \/ /\ Live(w.id) /\ NoFault
          /\ ApiUpdate(w.id, w.want)
          /\ Goto("recordHash")
          /\ UNCHANGED retries
       \/ /\ \/ Live(w.id) /\ Fault("updateLost") /\ ApiUpdate(w.id, w.want)
             \/ Fault("updateFail") /\ UNCHANGED lbs
             \/ ~Live(w.id) /\ NoFault /\ UNCHANGED lbs
          /\ Goto("failed")
          /\ IF w.late THEN incrementRetryCount ELSE UNCHANGED retries
    /\ UNCHANGED <<svc, advertised, nodes, seenNotReady, n>>

(* pollLoadBalancerReady returns: ready, or FAILED, or out of time.        *)
PollReady ==
    /\ w.pc = "poll"
    /\ Ready(w.id) /\ FipSettled(w.id)
    /\ Goto(afterPoll)
    /\ IF w.late THEN clearRetryCount ELSE UNCHANGED retries
    /\ UNCHANGED <<lbs, svc, advertised, nodes, faults, seenNotReady, n>>

(* Mutant: every poll that gives up counts as a retry.                     *)
PollAlwaysCounts ==
    /\ w.pc = "poll"
    /\ Goto("failed")
    /\ incrementRetryCount
    /\ UNCHANGED <<lbs, svc, advertised, nodes, faults, seenNotReady, n>>

PollGivesUp ==
    /\ w.pc = "poll"
    /\ Goto("failed")
    /\ IF w.late THEN incrementRetryCount ELSE UNCHANGED retries
    /\ UNCHANGED <<lbs, svc, advertised, nodes, faults, seenNotReady, n>>

(* updateKamajiAdvertiseAddress: a failed patch is logged only.            *)
updateKamajiAdvertiseAddress ==
    /\ w.pc = "kamaji"
    /\ \/ NoFault /\ advertised' = w.id
       \/ Fault("annWrite") /\ UNCHANGED advertised
    /\ Goto(afterKamaji)
    /\ UNCHANGED <<lbs, svc, retries, nodes, seenNotReady, n>>

storeInternalIpIfBothMode ==
    /\ w.pc = "internalIP"
    /\ \/ svc.present /\ NoFault /\ svc' = [svc EXCEPT !.internalIP = w.id]
       \/ WriteFails("annWrite") /\ UNCHANGED svc
    /\ Goto("publish")
    /\ UNCHANGED <<lbs, retries, advertised, nodes, seenNotReady, n>>

-----------------------------------------------------------------------------
(* Mutant: an error of the lookup reads as "does not exist".               *)
GetErrorMeansAbsent ==
    /\ w.pc = "exists"
    /\ \/ Fault("getFail") /\ Goto("removed")
       \/ w.obj.id = None /\ NoFault /\ Goto("removed")
       \/ w.obj.id # None /\ NoFault /\ Goto("cleanup")
    /\ UNCHANGED <<lbs, svc, retries, advertised, nodes, seenNotReady, n>>

(* GetLoadBalancer, as the service controller asks before a cleanup: no    *)
(* id annotation, or a declined Service, means "does not exist".           *)
GetLoadBalancer ==
    /\ w.pc = "exists"
    /\ LET unread == shouldSkipService(w.obj) \/ w.obj.id = None IN
       \/ unread /\ NoFault /\ Goto("removed")
       \/ /\ ~unread
          /\ Fault("getFail") \/ (~Known(w.obj.id) /\ NoFault)
          /\ Goto("failed")
       \/ ~unread /\ Known(w.obj.id) /\ NoFault /\ Goto("cleanup")
    /\ UNCHANGED <<lbs, svc, retries, advertised, nodes, seenNotReady, n>>

(* Mutant: only a Service of type LoadBalancer has one to delete.          *)
DeletedOnlyIfWanted ==
    /\ w.pc = "cleanup"
    /\ \/ ~w.obj.wants /\ Goto("removed")
       \/ w.obj.wants /\ w.obj.id # None
          /\ w' = [w EXCEPT !.pc = "delete", !.id = w.obj.id]
    /\ UNCHANGED <<lbs, svc, retries, advertised, nodes, faults, seenNotReady, n>>

(* EnsureLoadBalancerDeleted up to its first call.                         *)
EnsureLoadBalancerDeleted ==
    /\ w.pc = "cleanup"
    /\ \/ hasNothing(w.obj) /\ Goto("removed")
       \/ ~hasNothing(w.obj) /\ w.obj.id = None /\ Goto("find")
       \/ w.obj.id # None /\ w' = [w EXCEPT !.pc = "delete", !.id = w.obj.id]
    /\ UNCHANGED <<lbs, svc, retries, advertised, nodes, faults, seenNotReady, n>>

(* findLoadBalancerByName: every load balancer of the Service has the same *)
(* name, so the list may show any of them first.                           *)
findLoadBalancerByName ==
    /\ w.pc = "find"
    /\ \/ \E k \in Attempts : /\ Known(k) /\ NoFault
                              /\ w' = [w EXCEPT !.pc = "delete", !.id = k]
                              /\ UNCHANGED retries
       \/ (\A k \in Attempts : ~Known(k)) /\ NoFault /\ clearRetryCount /\ Goto("removed")
       \/ Fault("getFail") /\ clearRetryCount /\ Goto("failed")
    /\ UNCHANGED <<lbs, svc, advertised, nodes, seenNotReady, n>>

(* The DeleteLoadBalancer RPC; NOT_FOUND is success.  The retry count is   *)
(* cleared on every return.                                                *)
DeleteRPC ==
    /\ w.pc = "delete"
    /\ \/ NoFault /\ ApiDelete(w.id) /\ Goto("removed")
       \/ Fault("deleteLost") /\ ApiDelete(w.id) /\ Goto("failed")
       \/ Fault("deleteFail") /\ UNCHANGED lbs /\ Goto("failed")
    /\ clearRetryCount
    /\ UNCHANGED <<svc, advertised, nodes, seenNotReady, n>>

-----------------------------------------------------------------------------
(* UpdateLoadBalancer, called by the node worker with a Service object.    *)

UpdateLoadBalancer(service) ==
    LET want == buildListeners(service, nodes)
    IN  \/ /\ hasNothing(service) \/ ( /\ service.id # None /\ validateListeners(want)
                                       /\ ~configChanged(service, want) )
           /\ UNCHANGED n
        \/ /\ ~hasNothing(service)
           /\ service.id = None \/ ~validateListeners(want)
           /\ n' = [NIdle EXCEPT !.pc = "failed", !.obj = service]
        \/ /\ service.id # None /\ validateListeners(want)
           /\ configChanged(service, want)
           /\ n' = [pc |-> "get", obj |-> service, want |-> want]

NodeGet ==
    /\ n.pc = "get"
    /\ \/ Known(n.obj.id) /\ NoFault /\ n' = [n EXCEPT !.pc = "update"]
       \/ Fault("getFail") /\ n' = [n EXCEPT !.pc = "failed"]
       \/ ~Known(n.obj.id) /\ NoFault /\ n' = [n EXCEPT !.pc = "failed"]
    /\ UNCHANGED <<lbs, svc, retries, advertised, nodes, seenNotReady, w>>

NodeUpdate ==
    /\ n.pc = "update"
    /\ \/ /\ Live(n.obj.id) /\ NoFault
          /\ ApiUpdate(n.obj.id, n.want)
          /\ n' = [n EXCEPT !.pc = "recordHash"]
       \/ /\ \/ Live(n.obj.id) /\ Fault("updateLost") /\ ApiUpdate(n.obj.id, n.want)
             \/ Fault("updateFail") /\ UNCHANGED lbs
             \/ ~Live(n.obj.id) /\ NoFault /\ UNCHANGED lbs
          /\ n' = [n EXCEPT !.pc = "failed"]
    /\ UNCHANGED <<svc, retries, advertised, nodes, seenNotReady, w>>

NodeRecordHash ==
    /\ n.pc = "recordHash"
    /\ \/ svc.present /\ NoFault /\ svc' = [svc EXCEPT !.hash = listenersHashStr(n.want)]
       \/ WriteFails("annWrite") /\ UNCHANGED svc
    /\ n' = NIdle
    /\ UNCHANGED <<lbs, retries, advertised, nodes, seenNotReady, w>>

-----------------------------------------------------------------------------
(* The provider's steps once a call is under way, entry points left out.   *)
EnsureStep == \/ CreateRPC \/ AnnotateId \/ AnnotateCount \/ recordListenerHash
              \/ EnsureGet \/ RecreateDelete \/ UpdateRPC \/ PollReady \/ PollGivesUp
              \/ updateKamajiAdvertiseAddress \/ storeInternalIpIfBothMode

DeleteStep == \/ GetLoadBalancer \/ EnsureLoadBalancerDeleted
              \/ findLoadBalancerByName \/ DeleteRPC

NodeStep == NodeGet \/ NodeUpdate \/ NodeRecordHash
=============================================================================
