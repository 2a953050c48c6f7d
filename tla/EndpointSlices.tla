---------------------------- MODULE EndpointSlices ----------------------------
(***************************************************************************)
(* The EndpointSlice controller (pkg/controller/kubevirteps) for one       *)
(* LoadBalancer Service of the infra cluster: the handlers of its three    *)
(* informers, the queue, its one worker, and the clusters around it.       *)
(*                                                                         *)
(* Every informer event makes a request of its own: requests are pointers, *)
(* which the queue never merges.  Undelivered events that lead to the same *)
(* request are taken together.  The slices of both clusters are listed     *)
(* from the API servers, the Service comes from the lister.  The VMIs of a *)
(* reconcile are read in one step: no property tells their moments apart.  *)
(***************************************************************************)
EXTENDS SlicePlan, Sequences

CONSTANTS
    TenantSlices,   \* slices of the tenant's Service
    Modes,          \* selector and traffic policy the Service may take
    MaxRetries,     \* maxRetries
    QueueBound,     \* requests waiting at which delivery pauses
    Hazards,        \* kinds of hazards that may happen
    MaxFaults,      \* hazards in one behaviour
    MaxEdits        \* changes by users, tenants and other controllers

VARIABLES
    svc,            \* the Service in the infra cluster
    cached,         \* the Service in the lister
    tenant,         \* nodes in each tenant slice
    vmi,            \* phase of each node's VMI
    infra,          \* the slices in the infra cluster
    tracker,        \* register: entries per tenant slice, 2 is "several"
    tenantEvents,   \* tenant slices with an event not yet handled
    infraEvents,    \* kinds of events of managed infra slices not yet handled
    queue,          \* requests waiting
    r,              \* the worker's frame in reconcile
    restarted,      \* history: the process was restarted
    faults, edits   \* what the environment may still do

vars == <<svc, cached, tenant, vmi, infra, tracker, tenantEvents, infraEvents,
          queue, r, restarted, faults, edits>>

clusters == <<svc, tenant, vmi, infra>>
process == <<cached, tracker, tenantEvents, infraEvents, queue, r, restarted>>

(* Requests hold the Service, or nil when none was found for a tenant      *)
(* slice.                                                                  *)
Request == {"svc", "nil"} \X (0..MaxRetries)

HazardKinds == {"fail", "lost", "refused", "vmiGet", "handlerGet", "tombstone",
                "crash", "newSlice", "vmi"}

ASSUME ControllerConstants ==
    /\ MaxRetries \in Nat /\ QueueBound \in Nat \ {0}
    /\ MaxFaults \in Nat /\ MaxEdits \in Nat
    /\ Modes \subseteq Mode /\ Hazards \subseteq HazardKinds

PC == {"idle", "listInfra", "listTenant", "lookup", "finalize", "panic"}

Frame == [pc : PC, req : Request, svc : Service, gone : BOOLEAN,
          listed : Listing, nodes : SUBSET Nodes, desired : SUBSET Endpoint,
          create : SUBSET Endpoint, update : [Names -> SUBSET Endpoint],
          delete : SUBSET Names, unneeded : SUBSET Names]

TypeOK ==
    /\ svc \in Service /\ cached \in Service
    /\ tenant \in [TenantSlices -> (SUBSET Nodes) \cup {Absent}]
    /\ vmi \in [Nodes -> {"none", "running", "ended"}]
    /\ infra \in Listing
    /\ tracker \in [TenantSlices -> 0..2]
    /\ tenantEvents \subseteq TenantSlices /\ infraEvents \subseteq {"write", "delete"}
    /\ queue \in Seq(Request)
    /\ r \in Frame
    /\ restarted \in BOOLEAN /\ faults \in Nat /\ edits \in Nat

NoService == [present |-> FALSE, deleting |-> FALSE, uid |-> 0, mode |-> "none",
              spec |-> CHOOSE s \in Specs : TRUE]

Idle == [pc |-> "idle", req |-> <<"svc", 0>>, svc |-> NoService, gone |-> FALSE,
         listed |-> [i \in Names |-> Absent], nodes |-> {}, desired |-> {},
         create |-> {}, update |-> [i \in Names |-> {}], delete |-> {},
         unneeded |-> {}]

-----------------------------------------------------------------------------
Fault(kind) == kind \in Hazards /\ faults > 0 /\ faults' = faults - 1
NoFault == UNCHANGED faults

Panic == [Idle EXCEPT !.pc = "panic"]

RoomToQueue == Len(queue) < QueueBound

Enqueue(kind) == queue' = Append(queue, <<kind, 0>>)

(* Mutant: one retry too many.                                             *)
requeueOnceMore(waiting, req) ==
    /\ queue' = IF req[2] <= MaxRetries THEN Append(waiting, <<req[1], req[2] + 1>>)
                                        ELSE waiting
    /\ r' = Idle

(* processNextItem after an error: again later, or dropped.                *)
requeue(waiting, req) ==
    /\ queue' = IF req[2] < MaxRetries THEN Append(waiting, <<req[1], req[2] + 1>>)
                                       ELSE waiting
    /\ r' = Idle

Failed == requeue(queue, r.req)

(* remove takes out one entry of the register; add appends one every time. *)
entriesAfterRemove(k) == IF k = 2 THEN {1, 2} ELSE {0}

(* Mutant: the listing does not enter the slices.                          *)
entriesNotAdded(k) == k

entriesAfterAdd(k) == IF k = 0 THEN 1 ELSE 2

(* A write to a slice, with its event when the controller manages it.      *)
WriteSlice(i, slice) ==
    /\ infra' = [infra EXCEPT ![i] = slice]
    /\ infraEvents' =
         IF /\ infra[i] # slice
            /\ IF slice = Absent THEN infra[i].managed ELSE slice.managed
           THEN infraEvents \cup {IF slice = Absent THEN "delete" ELSE "write"}
           ELSE infraEvents

-----------------------------------------------------------------------------
(* Informer handlers.  A deletion found by a relist arrives as a tombstone *)
(* and fails the handler's type assertion.                                 *)

Up == r.pc # "panic"

Dies == r' = Panic

(* Mutant: no DeleteFunc for Services.                                     *)
ServiceHandlerIgnoresDelete ==
    /\ Up /\ cached # svc /\ RoomToQueue
    /\ NoFault /\ cached' = svc
    /\ IF svc.present THEN Enqueue("svc") ELSE UNCHANGED queue
    /\ UNCHANGED <<clusters, tracker, tenantEvents, infraEvents, r, restarted, edits>>

ServiceHandler ==
    /\ Up /\ cached # svc /\ RoomToQueue
    /\ \/ /\ NoFault /\ cached' = svc /\ Enqueue("svc") /\ UNCHANGED r
       \/ /\ ~svc.present /\ Fault("tombstone") /\ Dies
          /\ UNCHANGED <<cached, queue>>
    /\ UNCHANGED <<clusters, tracker, tenantEvents, infraEvents, restarted, edits>>

contains(s) == tracker[s] > 0

(* The look-ups of the handlers: by label for a tenant slice, where no     *)
(* match gives nil, and by name for an infra slice.                        *)
getInfraServiceFromTenantEPS == IF svc.present THEN "svc" ELSE "nil"

getInfraServiceForEPS == svc.present

(* Only a slice the tracker knows leads to a request; an error of          *)
(* getInfraServiceFromTenantEPS loses the event.                           *)
TenantHandler(s) ==
    /\ Up /\ s \in tenantEvents /\ RoomToQueue
    /\ tenantEvents' = tenantEvents \ {s}
    /\ \/ /\ ~contains(s)
          /\ NoFault /\ UNCHANGED <<tracker, queue, r>>
       \/ /\ contains(s)
          /\ IF tenant[s] = Absent
               THEN \E k \in entriesAfterRemove(tracker[s]) :
                        tracker' = [tracker EXCEPT ![s] = k]
               ELSE UNCHANGED tracker
          /\ \/ NoFault /\ Enqueue(getInfraServiceFromTenantEPS)
             \/ Fault("handlerGet") /\ UNCHANGED queue
          /\ UNCHANGED r
       \/ /\ tenant[s] = Absent /\ Fault("tombstone") /\ Dies
          /\ UNCHANGED <<tracker, queue>>
    /\ UNCHANGED <<clusters, cached, infraEvents, restarted, edits>>

(* A Service that is gone makes no request.                                *)
InfraHandler(kind) ==
    /\ Up /\ kind \in infraEvents /\ RoomToQueue
    /\ infraEvents' = infraEvents \ {kind}
    /\ \/ /\ NoFault /\ UNCHANGED r
          /\ IF getInfraServiceForEPS THEN Enqueue("svc") ELSE UNCHANGED queue
       \/ Fault("handlerGet") /\ UNCHANGED <<queue, r>>
       \/ kind = "delete" /\ Fault("tombstone") /\ Dies /\ UNCHANGED queue
    /\ UNCHANGED <<clusters, cached, tracker, tenantEvents, restarted, edits>>

-----------------------------------------------------------------------------
(* The worker.  processNextItem, and reconcile up to its first call.       *)
Take ==
    /\ r.pc = "idle" /\ queue # <<>>
    /\ \/ Head(queue)[1] = "nil" /\ requeue(Tail(queue), Head(queue))
       \/ /\ Head(queue)[1] = "svc"
          /\ queue' = Tail(queue)
          /\ r' = [Idle EXCEPT !.pc = "listInfra", !.req = Head(queue),
                               !.svc = cached, !.gone = ~cached.present]
    /\ UNCHANGED <<clusters, cached, tracker, tenantEvents, infraEvents,
                   restarted, faults, edits>>

getInfraEPSFromInfraService ==
    /\ r.pc = "listInfra"
    /\ \/ /\ NoFault /\ UNCHANGED queue
          /\ r' = [r EXCEPT !.pc = IF r.gone THEN "finalize" ELSE "listTenant",
                            !.listed = infra,
                            !.unneeded = unneeded(r.svc, r.gone, infra)]
       \/ Fault("fail") /\ Failed
    /\ UNCHANGED <<clusters, cached, tracker, tenantEvents, infraEvents, restarted, edits>>

(* Every slice listed is entered into the tracker again.  Only a Service   *)
(* without selector or with policy Local has its nodes looked up.          *)
getTenantEPSFromInfraService ==
    /\ r.pc = "listTenant"
    /\ LET listed == {s \in TenantSlices : tenant[s] # Absent}
       IN \/ /\ NoFault /\ UNCHANGED queue
             /\ tracker' = [s \in TenantSlices |->
                               IF s \in listed THEN entriesAfterAdd(tracker[s])
                                               ELSE tracker[s]]
             /\ r' = [r EXCEPT !.pc = "lookup",
                               !.nodes = IF r.svc.mode = "cluster" THEN {}
                                         ELSE UNION {tenant[s] : s \in listed}]
          \/ Fault("fail") /\ Failed /\ UNCHANGED tracker
    /\ UNCHANGED <<clusters, cached, tenantEvents, infraEvents, restarted, edits>>

endpointOf(node) ==
    IF vmi[node] = "none" THEN {} ELSE {[addr |-> node, up |-> vmi[node] = "running"]}

(* getDesiredEndpoints: a VMI that is missing, has no address yet or       *)
(* cannot be read is skipped.                                              *)
getDesiredEndpoints(unread) == UNION {endpointOf(node) : node \in r.nodes \ unread}

(* The look-ups, the plan, and the head of finalize.                       *)
reconcileByAddressType ==
    /\ r.pc = "lookup"
    /\ \E unread \in {{}} \cup {{node} : node \in r.nodes} :
         /\ IF unread = {} THEN NoFault ELSE Fault("vmiGet")
         /\ LET desired == getDesiredEndpoints(unread)
            IN \E place \in placements(r.svc, r.listed, desired) :
                 r' = IF indexOutOfRange(r.svc, r.listed, desired, place)
                        THEN Panic
                        ELSE [r EXCEPT !.pc = "finalize",
                                !.desired = desired, !.nodes = {},
                                !.create = given(place, NewSlice),
                                !.update = [i \in Names |->
                                    IF i \in toUpdate(r.svc, r.listed, desired, place)
                                      THEN contents(r.svc, r.listed, desired, place, i)
                                      ELSE {}],
                                !.delete = toDelete(r.svc, r.listed, desired)]
    /\ UNCHANGED <<clusters, cached, tracker, tenantEvents, infraEvents, queue,
                   restarted, edits>>

-----------------------------------------------------------------------------
(* finalize: creations, then updates, then deletions; then the slices that *)
(* reconcile found unneeded.                                               *)

creating == r.create # {} /\ ~r.svc.deleting

updating == {i \in Names : r.update[i] # {}}

(* GenerateName gives a name that no slice has.                            *)
newSlice ==
    /\ r.pc = "finalize" /\ creating
    /\ \/ /\ \E i \in Names :
               /\ infra[i] = Absent /\ r.listed[i] = Absent
               /\ WriteSlice(i, [eps |-> r.create, owner |-> r.svc.uid, managed |-> TRUE,
                                 supported |-> TRUE, spec |-> r.svc.spec])
          /\ \/ NoFault /\ UNCHANGED queue /\ r' = [r EXCEPT !.create = {}]
             \/ Fault("lost") /\ Failed
       \/ Fault("fail") /\ Failed /\ UNCHANGED <<infra, infraEvents>>
       \/ /\ Fault("refused")    \* NamespaceTerminating: finalize returns nil
          /\ UNCHANGED queue
          /\ r' = [r EXCEPT !.create = {}, !.update = Idle.update, !.delete = {}]
          /\ UNCHANGED <<infra, infraEvents>>
    /\ UNCHANGED <<svc, tenant, vmi, cached, tracker, tenantEvents, restarted, edits>>

(* The update carries the version that was listed.                         *)
updateSlice(i) ==
    /\ r.pc = "finalize" /\ ~creating /\ i \in updating
    /\ \/ /\ infra[i] # Absent /\ infra[i] = r.listed[i]
          /\ WriteSlice(i, [infra[i] EXCEPT !.eps = r.update[i], !.managed = TRUE,
                                            !.spec = r.svc.spec])
          /\ \/ NoFault /\ UNCHANGED queue /\ r' = [r EXCEPT !.update[i] = {}]
             \/ Fault("lost") /\ Failed
       \/ /\ infra[i] # r.listed[i] /\ NoFault
          /\ Failed /\ UNCHANGED <<infra, infraEvents>>
       \/ Fault("fail") /\ Failed /\ UNCHANGED <<infra, infraEvents>>
    /\ UNCHANGED <<svc, tenant, vmi, cached, tracker, tenantEvents, restarted, edits>>

toRemove == IF r.delete # {} THEN r.delete ELSE r.unneeded

deleteSlice(i) ==
    /\ r.pc = "finalize" /\ ~creating /\ updating = {} /\ i \in toRemove
    /\ \/ /\ infra[i] # Absent
          /\ WriteSlice(i, Absent)
          /\ \/ /\ NoFault /\ UNCHANGED queue
                /\ r' = [r EXCEPT !.delete = @ \ {i},
                                  !.unneeded = IF r.delete = {} THEN @ \ {i} ELSE @]
             \/ Fault("lost") /\ Failed
       \/ /\ infra[i] = Absent /\ NoFault       \* NotFound is an error
          /\ Failed /\ UNCHANGED <<infra, infraEvents>>
       \/ Fault("fail") /\ Failed /\ UNCHANGED <<infra, infraEvents>>
    /\ UNCHANGED <<svc, tenant, vmi, cached, tracker, tenantEvents, restarted, edits>>

reconcileDone ==
    /\ r.pc = "finalize" /\ ~creating /\ updating = {} /\ toRemove = {}
    /\ r' = Idle
    /\ UNCHANGED <<clusters, cached, tracker, tenantEvents, infraEvents, queue,
                   restarted, faults, edits>>

Worker ==
    \/ Take \/ getInfraEPSFromInfraService \/ getTenantEPSFromInfraService
    \/ reconcileByAddressType \/ newSlice
    \/ \E i \in Names : updateSlice(i) \/ deleteSlice(i)
    \/ reconcileDone

(* The AddFunc for the Service that the first listing finds.               *)
initialQueue == IF svc.present THEN << <<"svc", 0>> >> ELSE <<>>

(* The process starts again: the informers list everything.                *)
Restart ==
    /\ \/ r.pc = "panic" /\ NoFault
       \/ Up /\ Fault("crash")
    /\ r' = Idle /\ restarted' = TRUE
    /\ cached' = svc
    /\ queue' = initialQueue
    /\ tracker' = [s \in TenantSlices |-> 0]
    /\ tenantEvents' = {s \in TenantSlices : tenant[s] # Absent}
    /\ infraEvents' = {kind \in {"write"} :
                         \E i \in Names : infra[i] # Absent /\ infra[i].managed}
    /\ UNCHANGED <<clusters, edits>>

-----------------------------------------------------------------------------
(* The clusters.                                                           *)

Edit == edits > 0 /\ edits' = edits - 1 /\ UNCHANGED faults

SetTenantSlice(s, content) ==
    /\ Edit
    /\ tenant' = [tenant EXCEPT ![s] = content]
    /\ tenantEvents' = tenantEvents \cup {s}
    /\ UNCHANGED <<svc, vmi, infra, cached, tracker, infraEvents, queue, r, restarted>>

TenantChange(s) ==
    /\ tenant[s] # Absent
    /\ \E content \in ((SUBSET Nodes) \cup {Absent}) \ {tenant[s]} : SetTenantSlice(s, content)

(* The tenant's Service gets one slice more.                               *)
TenantAdd(s) ==
    /\ "newSlice" \in Hazards /\ tenant[s] = Absent
    /\ \E content \in SUBSET Nodes : SetTenantSlice(s, content)

(* No informer watches the VMIs.                                           *)
VMIChange(node) ==
    /\ "vmi" \in Hazards /\ Edit
    /\ \E phase \in {"none", "running", "ended"} \ {vmi[node]} :
         vmi' = [vmi EXCEPT ![node] = phase]
    /\ UNCHANGED <<svc, tenant, infra, process>>

SetService(service) ==
    /\ Edit
    /\ svc' = service
    /\ UNCHANGED <<tenant, vmi, infra, process>>

ServiceCreate ==
    /\ ~svc.present /\ svc.uid < MaxServices
    /\ \E m \in Modes, p \in Specs :
         SetService([present |-> TRUE, deleting |-> FALSE, uid |-> svc.uid + 1,
                     mode |-> m, spec |-> p])

ServiceChange ==
    /\ svc.present
    /\ \E m \in Modes, p \in Specs :
         /\ <<m, p>> # <<svc.mode, svc.spec>>
         /\ SetService([svc EXCEPT !.mode = m, !.spec = p])

(* A finalizer of the infra cluster's load balancer may hold the Service.  *)
ServiceDelete ==
    /\ svc.present /\ ~svc.deleting
    /\ \E held \in BOOLEAN :
         SetService(IF held THEN [svc EXCEPT !.deleting = TRUE]
                            ELSE [NoService EXCEPT !.uid = svc.uid])

ServiceReleased ==
    /\ svc.deleting
    /\ svc' = [NoService EXCEPT !.uid = svc.uid]
    /\ UNCHANGED <<tenant, vmi, infra, process, faults, edits>>

SetSlice(i, slice) ==
    /\ WriteSlice(i, slice)
    /\ UNCHANGED <<svc, tenant, vmi, cached, tracker, tenantEvents, queue, r, restarted>>

(* A user deletes a slice or takes endpoints out of it.                    *)
SliceTouched(i) ==
    /\ infra[i] # Absent /\ Edit
    /\ \E slice \in {Absent} \cup
                    {[infra[i] EXCEPT !.eps = rest] : rest \in SUBSET infra[i].eps} :
         slice # infra[i] /\ SetSlice(i, slice)

(* The infra cluster's own controller makes slices, of either address      *)
(* type, for a Service with a selector.                                    *)
OtherControllerAdds(i) ==
    /\ svc.present /\ svc.mode # "none" /\ infra[i] = Absent /\ Edit
    /\ \E t \in BOOLEAN :
         SetSlice(i, [eps |-> {[addr |-> Foreign, up |-> TRUE]}, owner |-> svc.uid,
                      managed |-> FALSE, supported |-> t, spec |-> svc.spec])

GarbageCollect(i) ==
    /\ infra[i] # Absent /\ ~(svc.present /\ infra[i].owner = svc.uid)
    /\ SetSlice(i, Absent)
    /\ UNCHANGED <<faults, edits>>

Environment ==
    \/ \E s \in TenantSlices : TenantChange(s) \/ TenantAdd(s)
    \/ \E node \in Nodes : VMIChange(node)
    \/ ServiceCreate \/ ServiceChange \/ ServiceDelete \/ ServiceReleased
    \/ \E i \in Names : SliceTouched(i) \/ OtherControllerAdds(i)

(* The Service may exist before the process starts.                        *)
Init ==
    /\ svc \in {NoService} \cup
              {[NoService EXCEPT !.present = TRUE, !.uid = 1, !.mode = m] : m \in Modes}
    /\ cached = svc
    /\ tenant \in [TenantSlices -> (SUBSET Nodes) \cup {Absent}]
    /\ vmi \in [Nodes -> {"none", "running"}]
    /\ infra = [i \in Names |-> Absent]
    /\ tracker = [s \in TenantSlices |-> 0]
    /\ tenantEvents = {s \in TenantSlices : tenant[s] # Absent} /\ infraEvents = {}
    /\ queue = initialQueue
    /\ r = Idle
    /\ restarted = FALSE /\ faults = MaxFaults /\ edits = MaxEdits

Next ==
    \/ Worker \/ Restart \/ Environment
    \/ ServiceHandler
    \/ \E s \in TenantSlices : TenantHandler(s)
    \/ \E kind \in {"write", "delete"} : InfraHandler(kind)
    \/ \E i \in Names : GarbageCollect(i)

Spec == Init /\ [][Next]_vars

(* The worker and the informers run, the process is started again, and the *)
(* infra cluster collects slices whose Service is gone.                    *)
Fairness ==
    /\ WF_vars(Worker) /\ WF_vars(Restart) /\ WF_vars(ServiceHandler)
    /\ \A s \in TenantSlices : WF_vars(TenantHandler(s))
    /\ \A kind \in {"write", "delete"} : WF_vars(InfraHandler(kind))
    /\ \A i \in Names : WF_vars(GarbageCollect(i))

FairSpec == Spec /\ Fairness

-----------------------------------------------------------------------------
(* Properties.                                                             *)

Managed == {i \in Names : infra[i] # Absent /\ infra[i].managed /\ infra[i].supported}

(* No address is in two of the Service's slices, whatever fails, is lost,  *)
(* restarted or changed between the listing and the last write: the new    *)
(* endpoints of a plan go to exactly one slice and those already covered   *)
(* stay where they are (reconcileByAddressType, steps 1 to 4).             *)
NoDuplicate ==
    \A i, j \in Managed :
        i # j => Addrs(infra[i].eps) \cap Addrs(infra[j].eps) = {}

(* No slice of this controller outgrows maxEndPointsPerSlice, however many *)
(* reconciles fill it up.                                                  *)
WithinLimit == \A i \in Managed : Cardinality(infra[i].eps) <= Limit

Served == UNION {Addrs(infra[i].eps) : i \in Managed}

(* A write of the worker never takes an address out of service that the    *)
(* reconcile at hand wants there: endpoints are not moved from one slice   *)
(* to another through a moment in which no slice has them.                 *)
NoGap ==
    [][\A e \in r.desired :
          r.pc = "finalize" /\ r' # r /\ e.addr \in Served
              => e.addr \in Served']_vars

Quiescent ==
    /\ r.pc = "idle" /\ queue = <<>> /\ cached = svc
    /\ tenantEvents = {} /\ infraEvents = {}

(* As long as the process lives, it deletes the slices of a Service that   *)
(* is gone by itself: a slice created by a reconcile that the deletion     *)
(* overtook is found by the request the deletion makes.                    *)
CleansUp == Quiescent /\ ~svc.present /\ ~restarted => Managed = {}

Desired ==
    UNION {endpointOf(node) :
             node \in UNION {tenant[s] : s \in {x \in TenantSlices : tenant[x] # Absent}}}

InSync ==
    \/ svc.deleting
    \/ ~svc.present /\ Managed = {}
    \/ svc.present /\ svc.mode # "none" /\ Managed = {}
    \/ /\ svc.present /\ svc.mode = "none"
       /\ UNION {infra[i].eps : i \in Managed} = Desired
       /\ \A i \in Managed : infra[i].spec = svc.spec

(* Once the clusters stay as they are, the infra slices come to hold       *)
(* exactly the endpoints of the tenant's slices, with the Service's ports  *)
(* and labels, and stay so: no event is lost between listing and tracking, *)
(* and endpoints left over at the limit get their slice.  The one way out  *)
(* is the index error of finalize, which restarts the process for ever.    *)
SlicesConverge == <>[]InSync \/ []<>(r.pc = "panic")

(* finalize turns a deletion and a creation into an update of the slice.   *)
ReplacesInPlace == r.pc # "panic"
=============================================================================
