-------------------------- MODULE ServiceController --------------------------
(***************************************************************************)
(* The service controller of k8s.io/cloud-provider (vendored) driving the  *)
(* provider of module LoadBalancer for one Service, together with the      *)
(* Service's owner, the nodes, the informer, the API server and restarts.  *)
(*                                                                         *)
(* The service queue never hands one key to two workers, so one frame w    *)
(* stands for all service workers.  The node worker holds no lock that the *)
(* service worker takes: with "overlap" both handle the Service at once.   *)
(***************************************************************************)
EXTENDS LoadBalancer

CONSTANTS
    MaxFaults,      \* hazards the environment injects in one behaviour
    MaxEdits        \* changes of nodes, ports, type and configuration

VARIABLES
    queued,         \* the Service's key is in the service queue
    nodeQueued,     \* the node queue holds its key
    cached,         \* the Service in the informer's lister
    scCache,        \* serviceCache: the object of the last sync
    lastSynced,     \* lastSyncedNodes
    edits           \* changes the user and the nodes may still make

ASSUME Bounds == MaxFaults \in Nat /\ MaxEdits \in Nat

providerVars == <<lbs, svc, retries, advertised, nodes, faults, seenNotReady, w, n>>

controllerVars == <<queued, nodeQueued, cached, scCache, lastSynced, edits>>

vars == <<lbs, svc, retries, advertised, nodes, faults, seenNotReady, w, n,
          queued, nodeQueued, cached, scCache, lastSynced, edits>>

NodesOrNot == NodeSets \cup {NoNodes}

TypeOK ==
    /\ lbs \in [Attempts -> LB]
    /\ svc \in Service /\ cached \in Service /\ scCache \in Service
    /\ retries \in 0..MaxRetries
    /\ advertised \in LBId
    /\ nodes \in NodesOrNot /\ lastSynced \in NodesOrNot \cup {None}
    /\ faults \in Nat /\ edits \in Nat
    /\ seenNotReady \in [Attempts -> 0..(MaxRetries + 1)]
    /\ w \in WFrame /\ n \in NFrame
    /\ queued \in BOOLEAN /\ nodeQueued \in BOOLEAN

-----------------------------------------------------------------------------
needsCleanup(service) == service.finalizer /\ (service.deleting \/ ~service.wants)

(* The annotations and the port specification; neither status nor          *)
(* finalizers count.                                                       *)
needsUpdate(old, new) ==
    /\ old.wants \/ new.wants
    /\ \/ old.wants # new.wants
       \/ old.ports # new.ports
       \/ <<old.config, old.id, old.count, old.hash, old.internalIP>>
            # <<new.config, new.id, new.count, new.hash, new.internalIP>>

(* Mutant: an update that only sets the deletion timestamp is ignored.     *)
enqueuesUpdatesOnly(old, new) ==
    /\ new.present
    /\ IF old.present THEN needsUpdate(old, new) ELSE new.wants

(* AddFunc and UpdateFunc of the Service informer; there is no DeleteFunc. *)
enqueues(old, new) ==
    /\ new.present
    /\ \/ needsCleanup(new)
       \/ IF old.present THEN needsUpdate(old, new) ELSE new.wants

(* A sync works on what the lister holds.  Unless "lag" is a hazard it     *)
(* holds the latest version when a sync starts.                            *)
ListerCurrent == (cached = svc /\ NoFault) \/ (cached # svc /\ Fault("lag"))

Alone(frame) == frame.pc = "idle" \/ "overlap" \in Hazards

SyncFrame(service, pc, orphan) ==
    [WIdle EXCEPT !.pc = pc, !.obj = service, !.orphan = orphan]

-----------------------------------------------------------------------------
InformerDeliver ==
    /\ cached # svc
    /\ cached' = svc
    /\ queued' = (queued \/ enqueues(cached, svc))
    /\ UNCHANGED <<providerVars, nodeQueued, scCache, lastSynced, edits>>

(* processNextServiceItem and syncService up to the first call.            *)
SyncStart ==
    /\ queued /\ w.pc = "idle" /\ Alone(n)
    /\ ListerCurrent
    /\ queued' = FALSE
    /\ \/ /\ cached.present
          /\ scCache' = cached
          /\ w' = SyncFrame(cached,
                            IF ~cached.wants \/ needsCleanup(cached)
                              THEN "exists" ELSE "addFinalizer", FALSE)
       \/ /\ ~cached.present /\ scCache.wants
          /\ UNCHANGED scCache
          /\ w' = SyncFrame(scCache, "cleanup", TRUE)
       \/ /\ ~cached.present /\ ~scCache.wants
          /\ scCache' = Absent
          /\ UNCHANGED w
    /\ UNCHANGED <<lbs, svc, retries, advertised, nodes, seenNotReady, n,
                   nodeQueued, cached, lastSynced, edits>>

addFinalizer ==
    /\ w.pc = "addFinalizer"
    /\ \/ w.obj.finalizer /\ NoFault /\ UNCHANGED svc /\ Goto("ensure")
       \/ /\ ~w.obj.finalizer /\ svc.present /\ NoFault
          /\ svc' = [svc EXCEPT !.finalizer = TRUE]
          /\ Goto("ensure")
       \/ ~w.obj.finalizer /\ WriteFails("patch") /\ UNCHANGED svc /\ Goto("failed")
    /\ UNCHANGED <<lbs, retries, advertised, nodes, seenNotReady, n, controllerVars>>

(* The nodes are remembered as synced before the provider is called.       *)
ensureLoadBalancer ==
    /\ EnsureLoadBalancer
    /\ lastSynced' = nodes
    /\ UNCHANGED <<queued, nodeQueued, cached, scCache, edits>>

(* patchStatus with the load balancer's address.                           *)
publishStatus ==
    /\ w.pc = "publish"
    /\ \/ w.obj.status = w.id /\ NoFault /\ UNCHANGED svc /\ Goto("done")
       \/ /\ w.obj.status # w.id /\ NoFault
          /\ svc' = IF svc.present THEN [svc EXCEPT !.status = w.id] ELSE svc
          /\ Goto("done")
       \/ w.obj.status # w.id /\ Fault("patch") /\ UNCHANGED svc /\ Goto("failed")
    /\ UNCHANGED <<lbs, retries, advertised, nodes, seenNotReady, n, controllerVars>>

(* The API server drops a Service that is being deleted with its last      *)
(* finalizer.                                                              *)
removeFinalizer ==
    /\ w.pc = "removed" /\ ~w.orphan
    /\ \/ ~w.obj.finalizer /\ NoFault /\ UNCHANGED svc /\ Goto("clearStatus")
       \/ /\ w.obj.finalizer /\ svc.present /\ NoFault
          /\ svc' = IF svc.deleting THEN Absent ELSE [svc EXCEPT !.finalizer = FALSE]
          /\ Goto("clearStatus")
       \/ w.obj.finalizer /\ WriteFails("patch") /\ UNCHANGED svc /\ Goto("failed")
    /\ UNCHANGED <<lbs, retries, advertised, nodes, seenNotReady, n, controllerVars>>

(* patchStatus with an empty status; a Service that is gone is no error.   *)
(* A cleanup that succeeds ends with its entry in the cache.               *)
clearStatus ==
    /\ w.pc = "clearStatus"
    /\ \/ /\ NoFault
          /\ svc' = IF w.obj.status # None /\ svc.present
                      THEN [svc EXCEPT !.status = None] ELSE svc
          /\ scCache' = Absent
          /\ Goto("done")
       \/ /\ w.obj.status # None /\ Fault("patch")
          /\ Goto("failed")
          /\ UNCHANGED <<svc, scCache>>
    /\ UNCHANGED <<lbs, retries, advertised, nodes, seenNotReady, n,
                   queued, nodeQueued, cached, lastSynced, edits>>

(* processServiceDeletion after a successful delete.                       *)
forgetOrphan ==
    /\ w.pc = "removed" /\ w.orphan
    /\ scCache' = Absent
    /\ Goto("done")
    /\ UNCHANGED <<lbs, svc, retries, advertised, nodes, faults, seenNotReady, n,
                   queued, nodeQueued, cached, lastSynced, edits>>

(* processNextServiceItem: a failed sync is queued again.                  *)
SyncEnd ==
    /\ w.pc \in {"done", "failed"}
    /\ queued' = (queued \/ w.pc = "failed")
    /\ w' = WIdle
    /\ UNCHANGED <<lbs, svc, retries, advertised, nodes, faults, seenNotReady, n,
                   nodeQueued, cached, scCache, lastSynced, edits>>

ServiceWorker ==
    \/ SyncStart \/ addFinalizer \/ ensureLoadBalancer \/ publishStatus
    \/ removeFinalizer \/ clearStatus \/ forgetOrphan \/ SyncEnd
    \/ (EnsureStep \/ DeleteStep) /\ UNCHANGED controllerVars

-----------------------------------------------------------------------------
(* nodeSyncService up to the first call: the object is the one of the last *)
(* service sync, and the nodes count as synced from here on.               *)
nodeSyncService ==
    /\ nodeQueued /\ n.pc = "idle" /\ Alone(w)
    /\ nodeQueued' = FALSE
    /\ \/ ~scCache.wants /\ UNCHANGED <<n, lastSynced>>
       \/ scCache.wants /\ lastSynced = nodes /\ UNCHANGED <<n, lastSynced>>
       \/ /\ scCache.wants /\ lastSynced # nodes
          /\ lastSynced' = nodes
          /\ UpdateLoadBalancer(scCache)
    /\ UNCHANGED <<lbs, svc, retries, advertised, nodes, faults, seenNotReady, w,
                   queued, cached, scCache, edits>>

(* Mutant: a failed host update is not handed to the service queue.        *)
NodeFailureDropped ==
    /\ n.pc = "failed"
    /\ n' = NIdle
    /\ UNCHANGED <<lbs, svc, retries, advertised, nodes, faults, seenNotReady, w,
                   queued, nodeQueued, cached, scCache, lastSynced, edits>>

(* lockedUpdateLoadBalancerHosts after an error: the service queue retries *)
(* it, unless GetLoadBalancer says there is no load balancer.              *)
NodeFailed ==
    /\ n.pc = "failed"
    /\ queued' = (queued \/ ~(shouldSkipService(n.obj) \/ n.obj.id = None))
    /\ n' = NIdle
    /\ UNCHANGED <<lbs, svc, retries, advertised, nodes, faults, seenNotReady, w,
                   nodeQueued, cached, scCache, lastSynced, edits>>

NodeWorker == nodeSyncService \/ NodeFailed \/ (NodeStep /\ UNCHANGED controllerVars)

-----------------------------------------------------------------------------
(* The environment.                                                        *)

UserDelete ==
    /\ svc.present /\ ~svc.deleting
    /\ svc' = IF svc.finalizer THEN [svc EXCEPT !.deleting = TRUE] ELSE Absent
    /\ UNCHANGED <<lbs, retries, advertised, nodes, faults, seenNotReady, w, n,
                   controllerVars>>

Edit(service) ==
    /\ edits > 0 /\ edits' = edits - 1
    /\ svc.present /\ ~svc.deleting
    /\ svc' = service
    /\ UNCHANGED <<lbs, retries, advertised, nodes, faults, seenNotReady, w, n,
                   queued, nodeQueued, cached, scCache, lastSynced>>

EditPorts == \E p \in Ports \ {svc.ports} : Edit([svc EXCEPT !.ports = p])

ToggleConfig == /\ OnlyServiceController /\ "strip" \in Hazards
                /\ Edit([svc EXCEPT !.config = ~@])

Retype == "retype" \in Hazards /\ Edit([svc EXCEPT !.wants = ~@])

ChangeNodes ==
    /\ edits > 0 /\ edits' = edits - 1
    /\ \E s \in NodesOrNot \ {nodes} : nodes' = s
    /\ nodeQueued' = TRUE
    /\ UNCHANGED <<lbs, svc, retries, advertised, faults, seenNotReady, w, n,
                   queued, cached, scCache, lastSynced>>

(* A load balancer that stays not ready with every creation used up.       *)
HardStop == /\ svc.present /\ svc.id # None
            /\ createsExhausted(svc) /\ ~Ready(svc.id)

(* docs/user-guide.md, "Hard stop": delete the two annotations and the     *)
(* load balancer itself.                                                   *)
ResetAnnotations ==
    /\ HardStop /\ retries >= MaxRetries
    /\ Fault("reset")
    /\ ApiDelete(svc.id)
    /\ svc' = [svc EXCEPT !.id = None, !.count = 0]
    /\ UNCHANGED <<retries, advertised, nodes, seenNotReady, w, n, controllerVars>>

(* The process restarts: memory is lost, the informers list everything.    *)
Crash ==
    /\ Fault("crash")
    /\ w' = WIdle /\ n' = NIdle
    /\ retries' = 0
    /\ scCache' = Absent /\ lastSynced' = None
    /\ cached' = svc /\ queued' = enqueues(Absent, svc)
    /\ nodeQueued' = TRUE
    /\ UNCHANGED <<lbs, svc, advertised, nodes, seenNotReady, edits>>

Server(k) == /\ ServerStep(k)
             /\ UNCHANGED <<svc, retries, advertised, nodes, faults, seenNotReady,
                            w, n, controllerVars>>

Environment == \/ UserDelete \/ EditPorts \/ ToggleConfig \/ Retype \/ ChangeNodes
               \/ ResetAnnotations \/ Crash

-----------------------------------------------------------------------------
Fresh(p, c) == [Absent EXCEPT !.present = TRUE, !.wants = TRUE, !.config = c, !.ports = p]

Init ==
    /\ LBInit
    /\ \E p \in Ports, c \in {OnlyServiceController, FALSE} : svc = Fresh(p, c)
    /\ retries = 0 /\ advertised = None
    /\ nodes \in NodeSets
    /\ faults = MaxFaults /\ edits = MaxEdits
    /\ seenNotReady = [k \in Attempts |-> 0]
    /\ w = WIdle /\ n = NIdle
    /\ queued = FALSE /\ nodeQueued = TRUE
    /\ cached = Absent /\ scCache = Absent /\ lastSynced = None

Next == \/ ServiceWorker \/ NodeWorker \/ InformerDeliver \/ Environment
        \/ \E k \in Attempts : Server(k)

Spec == Init /\ [][Next]_vars

(* The workers and the informer run while they have work, and the server   *)
(* finishes what it started.  Nothing is assumed of the user, the nodes or *)
(* the hazards, and a poll may end in a time-out every time.               *)
Fairness == /\ WF_vars(ServiceWorker) /\ WF_vars(NodeWorker)
            /\ WF_vars(InformerDeliver)
            /\ \A k \in Attempts : WF_vars(Server(k))

FairSpec == Spec /\ Fairness

-----------------------------------------------------------------------------
(* Properties.                                                             *)

Created(k) == lbs[k].state # "none"

(* Whatever is lost, delayed, repeated or restarted, and however stale the *)
(* lister is, a Service never has a load balancer created beyond attempt   *)
(* maxLoadBalancerCreateCount: the bound lives in an annotation that the   *)
(* attempts themselves must advance (EnsureLoadBalancer, create count).    *)
BoundedCreation == \A k \in Attempts : Created(k) => k <= MaxCreateCount

(* A Service has at most one load balancer that holds resources, at every  *)
(* instant of every create, replay and recreate path: the old one is given *)
(* up before the new one is asked for, and a repeated request replays.     *)
AtMostOneLive == \A j, k \in Attempts : Live(j) /\ Live(k) => j = k

(* A creation is never answered with a load balancer that was given up:    *)
(* the comment on createIdempotencyKey asks for keys that differ between   *)
(* attempts, or the recreate path silently does nothing.                   *)
NoDeadReplay == w.pc = "annId" => Live(w.id)

(* A sync that is not a cleanup gives up a load balancer only after more   *)
(* than maxLoadBalancerRetries syncs have found that load balancer, and    *)
(* not one of its predecessors, not ready.                                 *)
OnlyStuckIsReplaced ==
    [][\A k \in Attempts : Live(k) /\ ~Live(k)' =>
          \/ seenNotReady[k] > MaxRetries
          \/ w.orphan \/ ~w.obj.wants \/ needsCleanup(w.obj)]_vars

(* When the Service is gone no load balancer of it is left: the finalizer  *)
(* is added before the first creation and removed after the last deletion, *)
(* and the cleanup finds the load balancer by the id annotation.           *)
NoOrphan == ~svc.present => \A k \in Attempts : ~Live(k)

(* The same for a Service that stopped being of type LoadBalancer, once    *)
(* its finalizer is off.                                                   *)
NoOrphanAfterRetype ==
    svc.present /\ ~svc.wants /\ ~svc.finalizer /\ w.pc = "idle" =>
        \A k \in Attempts : ~Live(k)

Quiescent == /\ w.pc = "idle" /\ n.pc = "idle" /\ ~queued /\ ~nodeQueued
             /\ cached = svc

(* The Service asks this provider for a load balancer and it can have one. *)
Provisionable == /\ svc.present /\ ~svc.deleting /\ svc.wants
                 /\ ~shouldSkipService(svc) /\ nodes \in NodeSets

InSync(k) == lbs[k].cfg = buildListeners(svc, nodes)

(* When nothing is queued and nobody is working, the load balancer of the  *)
(* id annotation is published and carries the listeners that the current   *)
(* ports and nodes ask for: no change is forgotten because the listener    *)
(* hash, the object of the last sync or lastSyncedNodes was out of date.   *)
QuiescentInSync ==
    Quiescent /\ Provisionable =>
        svc.id # None /\ svc.status = svc.id /\ InSync(svc.id)

(* A Service that is being deleted is let go in the end.                   *)
DeletionCompletes == svc.deleting ~> ~svc.present

Settled ==
    \/ ~svc.present
    \/ svc.present /\ ~svc.wants /\ ~svc.finalizer
    \/ svc.present /\ ~svc.deleting /\ svc.wants /\ ~Provisionable
    \/ Provisionable /\ fipRefused
    \/ Provisionable /\ HardStop
    \/ Provisionable /\ svc.id # None /\ Ready(svc.id)
                       /\ svc.status = svc.id /\ InSync(svc.id)

(* Once the environment leaves it alone, the Service ends up for good with *)
(* a ready load balancer that is published and up to date, at the hard     *)
(* stop after the last creation, or without a load balancer because it     *)
(* wants none or can have none.                                            *)
Converges == <>[]Settled
=============================================================================
