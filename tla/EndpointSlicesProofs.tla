------------------------- MODULE EndpointSlicesProofs -------------------------
(***************************************************************************)
(* What holds of EndpointSlices for any number of nodes, tenant slices,    *)
(* slice names, faults, edits and retries: its types, the limit on a       *)
(* slice, that no address is in two slices, and that no write takes a      *)
(* wanted address out of service.                                          *)
(***************************************************************************)
EXTENDS EndpointSlices, FiniteSetTheorems, TLAPS

-----------------------------------------------------------------------------
(* The invariants.                                                         *)

(* A slice of the Service's address type lists address a under name i.     *)
At(listed, i, a) ==
    listed[i] # Absent /\ listed[i].supported /\ a \in Addrs(listed[i].eps)

(* No node is in two slices; only slices of other controllers hold the     *)
(* foreign address, and nothing else.                                      *)
Distinct(listed) ==
    \A i, j \in Names, a \in Nodes : At(listed, i, a) /\ At(listed, j, a) => i = j

Separate(listed) ==
    \A i \in Names : listed[i] # Absent =>
        Addrs(listed[i].eps) \subseteq (IF listed[i].managed THEN Nodes ELSE {Foreign})

(* The worker holds a listing, and no plan yet.                            *)
HasListed == r.pc \in {"listTenant", "lookup"}

NoPlan == /\ r.desired = {} /\ r.create = {} /\ r.delete = {}
          /\ \A i \in Names : r.update[i] = {}

(* Only nodes are ever planned for.                                        *)
Apart ==
    /\ Separate(infra)
    /\ HasListed => Separate(r.listed)
    /\ r.pc = "listInfra" \/ HasListed => NoPlan
    /\ r.pc = "finalize" =>
          /\ Addrs(r.desired) \subseteq Nodes /\ Addrs(r.create) \subseteq Nodes
          /\ \A i \in Names : Addrs(r.update[i]) \subseteq Nodes

(* A Service with a selector and policy Local never occurs.                *)
NoLocal == svc.mode # "local" /\ cached.mode # "local" /\ r.svc.mode # "local"

(* Between the listing and the plan only the worker could have added nodes *)
(* to a slice, so what is there was listed.                                *)
ListingHolds ==
    HasListed =>
        /\ Distinct(r.listed)
        /\ \A i \in Names, a \in Nodes : At(infra, i, a) => At(r.listed, i, a)
        /\ r.unneeded = unneeded(r.svc, FALSE, r.listed)
        /\ r.pc = "lookup" /\ r.svc.mode # "none" => r.nodes = {}

(* What the plan has still to write goes where no other slice and no other *)
(* part of the plan has it; what it has still to delete is not wanted; an  *)
(* update keeps what is wanted.                                            *)
CreateHolds ==
    \A a \in Addrs(r.create), j \in Names :
        ~At(infra, j, a) /\ a \notin Addrs(r.update[j])

UpdateHolds ==
    /\ \A i, j \in Names : \A a \in Addrs(r.update[i]) :
           At(infra, j, a) \/ a \in Addrs(r.update[j]) => i = j
    /\ \A i \in Names : \A a \in Addrs(r.desired) :
           r.update[i] # {} /\ At(r.listed, i, a) => a \in Addrs(r.update[i])
    /\ \A i \in Names : r.update[i] # {} =>
           r.listed[i] # Absent /\ i \notin r.delete \cup r.unneeded

DeleteHolds ==
    \A i \in r.delete \cup r.unneeded :
        r.listed[i] # Absent /\ \A a \in Addrs(r.desired) : ~At(infra, i, a)

SliceInv ==
    /\ Distinct(infra) /\ ListingHolds
    /\ r.pc = "finalize" => CreateHolds /\ UpdateHolds /\ DeleteHolds

(* Every slice is finite, and one of this controller is within the limit.  *)
Small(slice) ==
    /\ IsFiniteSet(slice.eps)
    /\ slice.managed => Cardinality(slice.eps) <= Limit

AllSmall(listed) == \A i \in Names : listed[i] # Absent => Small(listed[i])

SizeInv ==
    /\ AllSmall(infra)
    /\ HasListed => AllSmall(r.listed)
    /\ r.pc = "finalize" =>
          /\ IsFiniteSet(r.create) /\ Cardinality(r.create) <= Limit
          /\ \A i \in Names : /\ IsFiniteSet(r.update[i])
                              /\ Cardinality(r.update[i]) <= Limit

-----------------------------------------------------------------------------
(* Type correctness.                                                       *)

LEMMA FixedValues ==
    NoService \in Service /\ Idle \in Frame /\ Panic \in Frame
<1>1. NoService \in Service
  <2>1. (CHOOSE s \in Specs : TRUE) \in Specs
    BY PlanConstants
  <2> QED BY <2>1, PlanConstants DEF NoService, Service, Mode
<1>2. [i \in Names |-> Absent] \in Listing /\ [i \in Names |-> {}] \in [Names -> SUBSET Endpoint]
  BY DEF Listing
<1>3. <<"svc", 0>> \in Request
  BY ControllerConstants DEF Request
<1>4. Idle \in Frame
  BY <1>1, <1>2, <1>3 DEF Idle, Frame, PC
<1>5. Panic \in Frame
  BY <1>4 DEF Panic, Frame, PC
<1> QED BY <1>1, <1>4, <1>5

LEMMA InitType == Init => TypeOK
<1> SUFFICES ASSUME Init PROVE TypeOK
  OBVIOUS
<1>1. svc \in Service
  <2>1. CASE svc = NoService
    BY <2>1, FixedValues
  <2>2. ASSUME NEW m \in Modes,
               svc = [NoService EXCEPT !.present = TRUE, !.uid = 1, !.mode = m]
        PROVE  svc \in Service
    <3>1. m \in Mode /\ 1 \in 0..MaxServices
      BY PlanConstants, ControllerConstants
    <3> QED BY <2>2, <3>1, FixedValues DEF Service
  <2> QED BY <2>1, <2>2 DEF Init
<1>2. queue \in Seq(Request)
  <2>1. <<"svc", 0>> \in Request
    BY ControllerConstants DEF Request
  <2>2. queue = initialQueue
    BY Zenon DEF Init
  <2> QED BY <2>1, <2>2 DEF initialQueue
<1>3. infra \in Listing /\ r \in Frame
  BY FixedValues DEF Init, Listing
<1>4. tracker \in [TenantSlices -> 0..2] /\ vmi \in [Nodes -> {"none", "running", "ended"}]
  <2>1. vmi \in [Nodes -> {"none", "running"}] /\ tracker = [s \in TenantSlices |-> 0]
    BY Zenon DEF Init
  <2> QED BY <2>1
<1> QED BY <1>1, <1>2, <1>3, <1>4, ControllerConstants DEF Init, TypeOK

LEMMA FaultType ==
    ASSUME faults \in Nat, NoFault \/ \E kind \in HazardKinds : Fault(kind)
    PROVE  faults' \in Nat
BY DEF Fault, NoFault

(* A request goes back to the queue, or the worker gives up.               *)
LEMMA RequeueType ==
    ASSUME NEW waiting \in Seq(Request), NEW req \in Request, requeue(waiting, req)
    PROVE  queue' \in Seq(Request) /\ r' \in Frame
<1>1. PICK k \in {"svc", "nil"}, n \in 0..MaxRetries : req = <<k, n>>
  BY DEF Request
<1>2. req[1] = k /\ req[2] = n
  BY <1>1
<1>3. n < MaxRetries => <<k, n + 1>> \in Request
  BY ControllerConstants DEF Request
<1> QED BY <1>1, <1>2, <1>3, FixedValues DEF requeue

LEMMA FailedType ==
    ASSUME TypeOK, Failed
    PROVE  queue' \in Seq(Request) /\ r' \in Frame
<1>1. r.req \in Request /\ queue \in Seq(Request)
  BY DEF TypeOK, Frame
<1> QED BY <1>1, RequeueType DEF Failed

LEMMA WriteType ==
    ASSUME TypeOK, NEW i \in Names, NEW slice \in Slice \cup {Absent},
           WriteSlice(i, slice)
    PROVE  infra' \in Listing /\ infraEvents' \subseteq {"write", "delete"}
BY DEF TypeOK, WriteSlice, Listing

LEMMA HandlerType ==
    ASSUME TypeOK,
           \/ ServiceHandler
           \/ \E s \in TenantSlices : TenantHandler(s)
           \/ \E kind \in {"write", "delete"} : InfraHandler(kind)
    PROVE  TypeOK'
<1>1. \A kind \in {"svc", "nil"} : Enqueue(kind) => queue' \in Seq(Request)
  BY ControllerConstants DEF Enqueue, Request, TypeOK
<1>2. CASE ServiceHandler
  <2>1. r' \in Frame /\ queue' \in Seq(Request) /\ cached' \in Service
    BY <1>1, <1>2, FixedValues DEF ServiceHandler, TypeOK, Dies
  <2>2. faults' \in Nat
    BY <1>2 DEF ServiceHandler, Fault, NoFault, TypeOK
  <2> QED BY <1>2, <2>1, <2>2 DEF ServiceHandler, TypeOK, clusters
<1>3. ASSUME NEW s \in TenantSlices, TenantHandler(s) PROVE TypeOK'
  <2>1. r' \in Frame /\ queue' \in Seq(Request)
    BY <1>1, <1>3, FixedValues
       DEF TenantHandler, TypeOK, Dies, getInfraServiceFromTenantEPS
  <2>2. faults' \in Nat
    BY <1>3 DEF TenantHandler, Fault, NoFault, TypeOK
  <2>3. tracker' \in [TenantSlices -> 0..2]
    <3>1. \A k \in entriesAfterRemove(tracker[s]) : k \in 0..2
      BY DEF entriesAfterRemove
    <3> QED BY <1>3, <3>1 DEF TenantHandler, TypeOK
  <2> QED BY <1>3, <2>1, <2>2, <2>3 DEF TenantHandler, TypeOK, clusters
<1>4. ASSUME NEW kind \in {"write", "delete"}, InfraHandler(kind) PROVE TypeOK'
  <2>1. r' \in Frame /\ queue' \in Seq(Request)
    BY <1>1, <1>4, FixedValues DEF InfraHandler, TypeOK, Dies
  <2>2. faults' \in Nat
    BY <1>4 DEF InfraHandler, Fault, NoFault, TypeOK
  <2> QED BY <1>4, <2>1, <2>2 DEF InfraHandler, TypeOK, clusters
<1> QED BY <1>2, <1>3, <1>4

LEMMA TakeType == ASSUME TypeOK, Take PROVE TypeOK'
<1>1. Head(queue) \in Request /\ Tail(queue) \in Seq(Request)
  BY DEF Take, TypeOK
<1>2. queue' \in Seq(Request) /\ r' \in Frame
  <2>1. CASE Head(queue)[1] = "nil" /\ requeue(Tail(queue), Head(queue))
    BY <1>1, <2>1, RequeueType
  <2>2. CASE /\ queue' = Tail(queue)
             /\ r' = [Idle EXCEPT !.pc = "listInfra", !.req = Head(queue),
                                  !.svc = cached, !.gone = ~cached.present]
    BY <1>1, <2>2, FixedValues DEF TypeOK, Frame, PC
  <2> QED BY <2>1, <2>2 DEF Take
<1> QED BY <1>2 DEF Take, TypeOK, clusters

LEMMA ListInfraType == ASSUME TypeOK, getInfraEPSFromInfraService PROVE TypeOK'
<1>1. queue' \in Seq(Request) /\ r' \in Frame
  <2>1. CASE Failed
    BY <2>1, FailedType
  <2>2. CASE /\ UNCHANGED queue
             /\ r' = [r EXCEPT !.pc = IF r.gone THEN "finalize" ELSE "listTenant",
                               !.listed = infra,
                               !.unneeded = unneeded(r.svc, r.gone, infra)]
    <3>1. unneeded(r.svc, r.gone, infra) \subseteq Names
      BY DEF unneeded
    <3> QED BY <2>2, <3>1 DEF TypeOK, Frame, PC
  <2> QED BY <2>1, <2>2 DEF getInfraEPSFromInfraService
<1>2. faults' \in Nat
  BY DEF getInfraEPSFromInfraService, Fault, NoFault, TypeOK
<1> QED BY <1>1, <1>2 DEF getInfraEPSFromInfraService, TypeOK, clusters

LEMMA ListTenantType == ASSUME TypeOK, getTenantEPSFromInfraService PROVE TypeOK'
<1> DEFINE listed == {s \in TenantSlices : tenant[s] # Absent}
<1>1. queue' \in Seq(Request) /\ r' \in Frame
  <2>1. CASE Failed
    BY <2>1, FailedType
  <2>2. CASE /\ UNCHANGED queue
             /\ r' = [r EXCEPT !.pc = "lookup",
                               !.nodes = IF r.svc.mode = "cluster" THEN {}
                                         ELSE UNION {tenant[s] : s \in listed}]
    <3>1. UNION {tenant[s] : s \in listed} \subseteq Nodes
      <4>1. \A s \in listed : tenant[s] \subseteq Nodes
        BY DEF TypeOK
      <4> QED BY <4>1
    <3> QED BY <2>2, <3>1 DEF TypeOK, Frame, PC
  <2> QED BY <2>1, <2>2 DEF getTenantEPSFromInfraService
<1>2. tracker' \in [TenantSlices -> 0..2]
  BY DEF getTenantEPSFromInfraService, entriesAfterAdd, TypeOK
<1>3. faults' \in Nat
  BY DEF getTenantEPSFromInfraService, Fault, NoFault, TypeOK
<1> QED BY <1>1, <1>2, <1>3 DEF getTenantEPSFromInfraService, TypeOK, clusters
(* What a plan is made of, whatever was listed and is desired.             *)
LEMMA PlanParts ==
    ASSUME NEW service, NEW listed, NEW desired,
           NEW place \in placements(service, listed, desired)
    PROVE  /\ DOMAIN place = uncovered(service, listed, desired)
           /\ DOMAIN place \subseteq desired
           /\ packs(service, listed, desired, place)
           /\ \A t : given(place, t) \subseteq desired
           /\ \A t : contents(service, listed, desired, place, t) \subseteq desired
           /\ existing(service, listed) \subseteq Names
           /\ toUpdate(service, listed, desired, place) \subseteq existing(service, listed)
           /\ toUpdate(service, listed, desired, place) \cap
                  toDelete(service, listed, desired) = {}
           /\ toUpdate(service, listed, desired, place)
                  \subseteq targets(service, listed, desired)
           /\ toDelete(service, listed, desired) \subseteq existing(service, listed)
<1>1. DOMAIN place = uncovered(service, listed, desired) /\ DOMAIN place \subseteq desired
  BY DEF placements, uncovered
<1>2. packs(service, listed, desired, place)
  BY DEF placements
<1>3. \A t : given(place, t) \subseteq desired
  BY <1>1 DEF given
<1>4. \A t : contents(service, listed, desired, place, t) \subseteq desired
  BY <1>3 DEF contents, covered
<1>5. existing(service, listed) \subseteq Names
  BY DEF existing
<1>6. toDelete(service, listed, desired) \subseteq existing(service, listed)
  BY DEF toDelete
<1>7. updated(service, listed, desired) \subseteq existing(service, listed)
  BY DEF updated
<1>8. untouched(service, listed, desired) \subseteq existing(service, listed)
  BY DEF untouched
<1>9. updated(service, listed, desired) \cap toDelete(service, listed, desired) = {}
  BY DEF updated, toDelete
<1>10. untouched(service, listed, desired) \cap toDelete(service, listed, desired) = {}
  BY DEF untouched
<1>11. toUpdate(service, listed, desired, place) \subseteq
          updated(service, listed, desired) \cup untouched(service, listed, desired)
  BY DEF toUpdate
<1> QED BY <1>1, <1>2, <1>3, <1>4, <1>5, <1>6, <1>7, <1>8, <1>9, <1>10, <1>11 DEF targets

(* The frame that the plan leaves behind.                                  *)
Planned(desired, place) ==
    [r EXCEPT !.pc = "finalize",
        !.desired = desired, !.nodes = {},
        !.create = given(place, NewSlice),
        !.update = [i \in Names |->
            IF i \in toUpdate(r.svc, r.listed, desired, place)
              THEN contents(r.svc, r.listed, desired, place, i)
              ELSE {}],
        !.delete = toDelete(r.svc, r.listed, desired)]

(* The endpoints wanted are those of nodes looked up, one for each.        *)
LEMMA DesiredParts ==
    ASSUME TypeOK, NEW unread
    PROVE  LET desired == getDesiredEndpoints(unread)
           IN  /\ desired \subseteq Endpoint
               /\ Addrs(desired) \subseteq r.nodes
               /\ \A d, e \in desired : d.addr = e.addr => d = e
<1> DEFINE desired == getDesiredEndpoints(unread)
<1>1. \A e \in desired : \E node \in r.nodes : e \in endpointOf(node)
  BY DEF getDesiredEndpoints
<1>2. r.nodes \subseteq Nodes
  BY DEF TypeOK, Frame
<1>3. \A node : \A e \in endpointOf(node) :
          e = [addr |-> node, up |-> vmi[node] = "running"]
  BY DEF endpointOf
<1>4. desired \subseteq Endpoint
  <2>1. \A node \in Nodes : [addr |-> node, up |-> vmi[node] = "running"] \in Endpoint
    BY DEF Endpoint
  <2> QED BY <1>1, <1>2, <1>3, <2>1
<1>5. \A node : \A e \in endpointOf(node) : e.addr = node
  BY <1>3
<1>6. Addrs(desired) \subseteq r.nodes
  BY <1>1, <1>5 DEF Addrs
<1>7. \A d, e \in desired : d.addr = e.addr => d = e
  BY <1>1, <1>3, <1>5, Zenon
<1> QED BY <1>4, <1>6, <1>7

LEMMA PlanStep ==
    ASSUME TypeOK, reconcileByAddressType
    PROVE  \/ r' = Panic
           \/ \E unread : \E place \in placements(r.svc, r.listed, getDesiredEndpoints(unread)) :
                  r' = Planned(getDesiredEndpoints(unread), place)
BY DEF reconcileByAddressType, Planned

LEMMA PlannedType ==
    ASSUME TypeOK, NEW desired \in SUBSET Endpoint,
           NEW place \in placements(r.svc, r.listed, desired),
           r' = Planned(desired, place)
    PROVE  r' \in Frame
<1>1. \A t : given(place, t) \subseteq Endpoint
  BY PlanParts
<1>2. \A t : contents(r.svc, r.listed, desired, place, t) \subseteq Endpoint
  BY PlanParts
<1>3. toDelete(r.svc, r.listed, desired) \subseteq Names
  BY PlanParts
<1> DEFINE update == [i \in Names |->
            IF i \in toUpdate(r.svc, r.listed, desired, place)
              THEN contents(r.svc, r.listed, desired, place, i)
              ELSE {}]
<1>4. update \in [Names -> SUBSET Endpoint]
  BY <1>2
<1> HIDE DEF update
<1>5. r' = [r EXCEPT !.pc = "finalize", !.desired = desired, !.nodes = {},
                     !.create = given(place, NewSlice), !.update = update,
                     !.delete = toDelete(r.svc, r.listed, desired)]
  BY DEF Planned, update
<1>6. given(place, NewSlice) \in SUBSET Endpoint
  BY <1>1
<1>7. r \in Frame
  BY DEF TypeOK
<1> QED BY ZenonT(30), <1>3, <1>4, <1>5, <1>6, <1>7 DEF Frame, PC

LEMMA PlanType == ASSUME TypeOK, reconcileByAddressType PROVE TypeOK'
<1>1. r' \in Frame
  <2>1. CASE r' = Panic
    BY <2>1, FixedValues
  <2>2. ASSUME NEW unread,
               NEW place \in placements(r.svc, r.listed, getDesiredEndpoints(unread)),
               r' = Planned(getDesiredEndpoints(unread), place)
        PROVE  r' \in Frame
    BY <2>2, DesiredParts, PlannedType
  <2> QED BY <2>1, <2>2, PlanStep
<1>2. faults' \in Nat
  BY DEF reconcileByAddressType, Fault, NoFault, TypeOK
<1> QED BY <1>1, <1>2 DEF reconcileByAddressType, TypeOK, clusters

LEMMA NewSliceType == ASSUME TypeOK, newSlice PROVE TypeOK'
<1>1. [eps |-> r.create, owner |-> r.svc.uid, managed |-> TRUE, supported |-> TRUE,
       spec |-> r.svc.spec] \in Slice
  BY DEF TypeOK, Frame, Slice, Service
<1>2. infra' \in Listing /\ infraEvents' \subseteq {"write", "delete"}
  BY <1>1, WriteType DEF newSlice, TypeOK
<1>3. queue' \in Seq(Request) /\ r' \in Frame
  <2>1. CASE Failed
    BY <2>1, FailedType
  <2>2. CASE UNCHANGED queue /\ r' = [r EXCEPT !.create = {}]
    BY <2>2 DEF TypeOK, Frame
  <2>3. CASE /\ UNCHANGED queue
             /\ r' = [r EXCEPT !.create = {}, !.update = Idle.update, !.delete = {}]
    <3>1. Idle.update \in [Names -> SUBSET Endpoint]
      BY DEF Idle
    <3> QED BY <2>3, <3>1 DEF TypeOK, Frame
  <2> QED BY <2>1, <2>2, <2>3 DEF newSlice
<1>4. faults' \in Nat
  BY DEF newSlice, Fault, NoFault, TypeOK
<1> QED BY <1>2, <1>3, <1>4 DEF newSlice, TypeOK

LEMMA UpdateSliceType ==
    ASSUME TypeOK, NEW i \in Names, updateSlice(i) PROVE TypeOK'
<1>1. infra[i] # Absent =>
         [infra[i] EXCEPT !.eps = r.update[i], !.managed = TRUE, !.spec = r.svc.spec]
             \in Slice
  <2>1. infra[i] # Absent => infra[i] \in Slice
    BY DEF TypeOK, Listing
  <2>2. r.update[i] \subseteq Endpoint /\ r.svc.spec \in Specs
    BY DEF TypeOK, Frame, Service
  <2> QED BY <2>1, <2>2 DEF Slice
<1>2. infra' \in Listing /\ infraEvents' \subseteq {"write", "delete"}
  BY <1>1, WriteType DEF updateSlice, TypeOK
<1>3. queue' \in Seq(Request) /\ r' \in Frame
  <2>1. CASE Failed
    BY <2>1, FailedType
  <2>2. CASE UNCHANGED queue /\ r' = [r EXCEPT !.update[i] = {}]
    BY <2>2 DEF TypeOK, Frame
  <2> QED BY <2>1, <2>2 DEF updateSlice
<1>4. faults' \in Nat
  BY DEF updateSlice, Fault, NoFault, TypeOK
<1> QED BY <1>2, <1>3, <1>4 DEF updateSlice, TypeOK

LEMMA DeleteSliceType ==
    ASSUME TypeOK, NEW i \in Names, deleteSlice(i) PROVE TypeOK'
<1>1. infra' \in Listing /\ infraEvents' \subseteq {"write", "delete"}
  BY WriteType DEF deleteSlice, TypeOK
<1>2. queue' \in Seq(Request) /\ r' \in Frame
  <2>1. CASE Failed
    BY <2>1, FailedType
  <2>2. CASE /\ UNCHANGED queue
             /\ r' = [r EXCEPT !.delete = @ \ {i},
                               !.unneeded = IF r.delete = {} THEN @ \ {i} ELSE @]
    BY <2>2 DEF TypeOK, Frame
  <2> QED BY <2>1, <2>2 DEF deleteSlice
<1>3. faults' \in Nat
  BY DEF deleteSlice, Fault, NoFault, TypeOK
<1> QED BY <1>1, <1>2, <1>3 DEF deleteSlice, TypeOK

LEMMA WorkerType == ASSUME TypeOK, Worker PROVE TypeOK'
<1>1. reconcileDone => TypeOK'
  BY FixedValues DEF reconcileDone, TypeOK, clusters
<1> QED
  BY <1>1, TakeType, ListInfraType, ListTenantType, PlanType, NewSliceType,
     UpdateSliceType, DeleteSliceType DEF Worker

LEMMA RestartType == ASSUME TypeOK, Restart PROVE TypeOK'
<1>1. queue' \in Seq(Request)
  <2>1. <<"svc", 0>> \in Request
    BY ControllerConstants DEF Request
  <2> QED BY <2>1 DEF Restart, initialQueue
<1>2. faults' \in Nat
  BY DEF Restart, Fault, NoFault, TypeOK
<1> QED BY <1>1, <1>2, FixedValues DEF Restart, TypeOK, clusters

LEMMA TenantType ==
    ASSUME TypeOK, NEW s \in TenantSlices, TenantChange(s) \/ TenantAdd(s)
    PROVE  TypeOK'
<1>1. PICK content \in (SUBSET Nodes) \cup {Absent} : SetTenantSlice(s, content)
  BY DEF TenantChange, TenantAdd
<1> QED BY <1>1 DEF SetTenantSlice, Edit, TypeOK

LEMMA SetServiceType ==
    ASSUME TypeOK, NEW service \in Service, SetService(service) PROVE TypeOK'
BY DEF SetService, Edit, TypeOK, process

LEMMA ServiceType ==
    ASSUME TypeOK, ServiceCreate \/ ServiceChange \/ ServiceDelete \/ ServiceReleased
    PROVE  TypeOK'
<1>1. svc \in Service
  BY DEF TypeOK
<1>2. [NoService EXCEPT !.uid = svc.uid] \in Service
  BY <1>1, FixedValues DEF Service
<1>3. CASE ServiceCreate
  <2>1. PICK m \in Modes, p \in Specs :
           /\ svc.uid < MaxServices
           /\ SetService([present |-> TRUE, deleting |-> FALSE, uid |-> svc.uid + 1,
                          mode |-> m, spec |-> p])
    BY <1>3 DEF ServiceCreate
  <2>2. svc.uid + 1 \in 0..MaxServices
    BY <1>1, <2>1, PlanConstants DEF Service
  <2>3. [present |-> TRUE, deleting |-> FALSE, uid |-> svc.uid + 1, mode |-> m,
         spec |-> p] \in Service
    BY <2>2, ControllerConstants DEF Service
  <2> QED BY <2>1, <2>3, SetServiceType
<1>4. CASE ServiceChange
  <2>1. PICK m \in Modes, p \in Specs : SetService([svc EXCEPT !.mode = m, !.spec = p])
    BY <1>4 DEF ServiceChange
  <2>2. [svc EXCEPT !.mode = m, !.spec = p] \in Service
    BY <1>1, ControllerConstants DEF Service
  <2> QED BY <2>1, <2>2, SetServiceType
<1>5. CASE ServiceDelete
  <2>1. [svc EXCEPT !.deleting = TRUE] \in Service
    BY <1>1 DEF Service
  <2> QED BY <1>2, <1>5, <2>1, SetServiceType DEF ServiceDelete
<1>6. CASE ServiceReleased
  BY <1>2, <1>6 DEF ServiceReleased, TypeOK, process
<1> QED BY <1>3, <1>4, <1>5, <1>6

LEMMA OthersType ==
    ASSUME TypeOK, NEW i \in Names,
           SliceTouched(i) \/ OtherControllerAdds(i) \/ GarbageCollect(i)
    PROVE  TypeOK'
<1>1. edits' \in Nat /\ faults' \in Nat
  BY DEF SliceTouched, OtherControllerAdds, GarbageCollect, Edit, TypeOK
<1>2. infra[i] # Absent => infra[i] \in Slice
  BY DEF TypeOK, Listing
<1>3. PICK slice \in Slice \cup {Absent} : SetSlice(i, slice)
  <2>1. CASE SliceTouched(i)
    <3>1. infra[i] # Absent => \A rest \in SUBSET infra[i].eps :
              [infra[i] EXCEPT !.eps = rest] \in Slice
      BY <1>2 DEF Slice
    <3> QED BY <2>1, <3>1 DEF SliceTouched
  <2>2. CASE OtherControllerAdds(i)
    <3>1. \A t \in BOOLEAN :
             [eps |-> {[addr |-> Foreign, up |-> TRUE]}, owner |-> svc.uid,
              managed |-> FALSE, supported |-> t, spec |-> svc.spec] \in Slice
      BY DEF TypeOK, Service, Slice, Endpoint
    <3> QED BY <2>2, <3>1 DEF OtherControllerAdds
  <2>3. CASE GarbageCollect(i)
    BY <2>3 DEF GarbageCollect
  <2> QED BY <2>1, <2>2, <2>3
<1>4. infra' \in Listing /\ infraEvents' \subseteq {"write", "delete"}
  BY <1>3, WriteType DEF SetSlice
<1> QED BY <1>1, <1>3, <1>4 DEF SetSlice, TypeOK

LEMMA TypeStep == TypeOK /\ [Next]_vars => TypeOK'
<1> SUFFICES ASSUME TypeOK, [Next]_vars PROVE TypeOK'
  OBVIOUS
<1>1. CASE UNCHANGED vars
  BY <1>1 DEF vars, TypeOK
<1>2. CASE Environment
  <2>1. ASSUME NEW node \in Nodes, VMIChange(node) PROVE TypeOK'
    BY <2>1 DEF VMIChange, Edit, TypeOK, process
  <2> QED BY <1>2, <2>1, TenantType, ServiceType, OthersType DEF Environment
<1> QED BY <1>1, <1>2, HandlerType, WorkerType, RestartType, OthersType DEF Next

(* The clusters and the controller stay within their types, whatever the   *)
(* numbers of nodes, slices, retries and faults: in particular a request   *)
(* never carries more than maxRetries, and a plan never names a slice that *)
(* does not exist.                                                         *)
THEOREM TypeCorrect == Spec => []TypeOK
BY InitType, TypeStep, PTL DEF Spec
-----------------------------------------------------------------------------
(* The ways in which a step changes the slices and the worker's frame.     *)

(* Whoever it is, nobody but newSlice and updateSlice adds a node.         *)
Vanishes(i) == infra' = [infra EXCEPT ![i] = Absent]

Loses(i) ==
    /\ infra[i] # Absent
    /\ \E rest \in SUBSET infra[i].eps :
           infra' = [infra EXCEPT ![i] = [infra[i] EXCEPT !.eps = rest]]

Arrives(i) ==
    \E t \in BOOLEAN :
        infra' = [infra EXCEPT ![i] =
                    [eps |-> {[addr |-> Foreign, up |-> TRUE]}, owner |-> svc.uid,
                     managed |-> FALSE, supported |-> t, spec |-> svc.spec]]

AddsNoNode ==
    UNCHANGED infra \/ \E i \in Names : Vanishes(i) \/ Loses(i) \/ Arrives(i)

Creates(i) ==
    /\ r.pc = "finalize" /\ r.create # {}
    /\ infra[i] = Absent /\ r.listed[i] = Absent
    /\ infra' = [infra EXCEPT ![i] = [eps |-> r.create, owner |-> r.svc.uid,
                                      managed |-> TRUE, supported |-> TRUE,
                                      spec |-> r.svc.spec]]

Updates(i) ==
    /\ r.pc = "finalize" /\ r.update[i] # {}
    /\ infra[i] # Absent /\ infra[i] = r.listed[i]
    /\ infra' = [infra EXCEPT ![i] = [infra[i] EXCEPT !.eps = r.update[i],
                                                      !.managed = TRUE,
                                                      !.spec = r.svc.spec]]

(* The worker stops, and whatever it was writing is written or not.        *)
GivesUp == r' = Idle \/ r' = Panic

Starts ==
    /\ r.pc = "idle" /\ queue # <<>> /\ Head(queue)[1] = "svc"
    /\ queue' = Tail(queue)
    /\ r' = [Idle EXCEPT !.pc = "listInfra", !.req = Head(queue), !.svc = cached,
                         !.gone = ~cached.present]

Lists ==
    /\ r.pc = "listInfra"
    /\ r' = [r EXCEPT !.pc = IF r.gone THEN "finalize" ELSE "listTenant",
                      !.listed = infra,
                      !.unneeded = unneeded(r.svc, r.gone, infra)]

Collects ==
    /\ r.pc = "listTenant"
    /\ r' = [r EXCEPT !.pc = "lookup",
                      !.nodes = IF r.svc.mode = "cluster" THEN {}
                                ELSE UNION {tenant[s] : s \in {x \in TenantSlices :
                                                                 tenant[x] # Absent}}]

Plans ==
    /\ r.pc = "lookup"
    /\ \E unread :
         \E place \in placements(r.svc, r.listed, getDesiredEndpoints(unread)) :
             r' = Planned(getDesiredEndpoints(unread), place)

Refused ==
    /\ r.pc = "finalize"
    /\ r' = [r EXCEPT !.create = {}, !.update = Idle.update, !.delete = {}]

Erases(i) == r.pc = "finalize" /\ i \in toRemove /\ Vanishes(i)

Removes(i) ==
    /\ Erases(i)
    /\ r' = [r EXCEPT !.delete = @ \ {i},
                      !.unneeded = IF r.delete = {} THEN @ \ {i} ELSE @]

LEMMA HandlerMoves ==
    ASSUME \/ ServiceHandler
           \/ \E s \in TenantSlices : TenantHandler(s)
           \/ \E kind \in {"write", "delete"} : InfraHandler(kind)
    PROVE  UNCHANGED infra /\ (r' = r \/ r' = Panic)
<1>1. ServiceHandler => UNCHANGED infra /\ (r' = r \/ r' = Panic)
  BY DEF ServiceHandler, Dies, clusters
<1>2. ASSUME NEW s \in TenantSlices, TenantHandler(s)
      PROVE  UNCHANGED infra /\ (r' = r \/ r' = Panic)
  BY <1>2 DEF TenantHandler, Dies, clusters
<1>3. ASSUME NEW kind \in {"write", "delete"}, InfraHandler(kind)
      PROVE  UNCHANGED infra /\ (r' = r \/ r' = Panic)
  BY <1>3 DEF InfraHandler, Dies, clusters
<1> QED BY <1>1, <1>2, <1>3

LEMMA EnvironmentMoves ==
    ASSUME Environment \/ \E i \in Names : GarbageCollect(i)
    PROVE  r' = r /\ AddsNoNode
<1>1. ASSUME NEW s \in TenantSlices, TenantChange(s) \/ TenantAdd(s)
      PROVE  r' = r /\ UNCHANGED infra
  BY <1>1 DEF TenantChange, TenantAdd, SetTenantSlice
<1>2. ASSUME NEW node \in Nodes, VMIChange(node) PROVE r' = r /\ UNCHANGED infra
  BY <1>2 DEF VMIChange, process
<1>3. \A service : SetService(service) => r' = r /\ UNCHANGED infra
  BY DEF SetService, process
<1>4. ServiceCreate \/ ServiceChange \/ ServiceDelete \/ ServiceReleased
          => r' = r /\ UNCHANGED infra
  BY <1>3, Zenon DEF ServiceCreate, ServiceChange, ServiceDelete, ServiceReleased, process
<1>5. ASSUME NEW i \in Names, SliceTouched(i) PROVE r' = r /\ (Vanishes(i) \/ Loses(i))
  BY <1>5 DEF SliceTouched, SetSlice, WriteSlice, Vanishes, Loses
<1>6. ASSUME NEW i \in Names, OtherControllerAdds(i) PROVE r' = r /\ Arrives(i)
  BY <1>6 DEF OtherControllerAdds, SetSlice, WriteSlice, Arrives
<1>7. ASSUME NEW i \in Names, GarbageCollect(i) PROVE r' = r /\ Vanishes(i)
  BY <1>7 DEF GarbageCollect, SetSlice, WriteSlice, Vanishes
<1> QED BY <1>1, <1>2, <1>4, <1>5, <1>6, <1>7 DEF Environment, AddsNoNode

LEMMA WorkerMoves ==
    ASSUME TypeOK, Worker
    PROVE  \/ GivesUp /\ (UNCHANGED infra \/ \E i \in Names : Creates(i) \/ Updates(i) \/ Erases(i))
           \/ UNCHANGED infra /\ (Starts \/ Lists \/ Collects \/ Plans \/ Refused)
           \/ \E i \in Names :
                \/ Creates(i) /\ r' = [r EXCEPT !.create = {}]
                \/ Updates(i) /\ r' = [r EXCEPT !.update[i] = {}]
                \/ Removes(i)
<1>1. Failed => GivesUp
  BY DEF Failed, requeue, GivesUp
<1>2. CASE Take
  <2>1. UNCHANGED infra
    BY <1>2 DEF Take, clusters
  <2>2. GivesUp \/ Starts
    BY <1>2 DEF Take, requeue, GivesUp, Starts
  <2> QED BY <2>1, <2>2
<1>3. CASE getInfraEPSFromInfraService
  <2>1. UNCHANGED infra
    BY <1>3 DEF getInfraEPSFromInfraService, clusters
  <2>2. GivesUp \/ Lists
    BY <1>1, <1>3 DEF getInfraEPSFromInfraService, Lists
  <2> QED BY <2>1, <2>2
<1>4. CASE getTenantEPSFromInfraService
  <2>1. UNCHANGED infra
    BY <1>4 DEF getTenantEPSFromInfraService, clusters
  <2>2. GivesUp \/ Collects
    BY <1>1, <1>4 DEF getTenantEPSFromInfraService, Collects
  <2> QED BY <2>1, <2>2
<1>5. CASE reconcileByAddressType
  <2>1. UNCHANGED infra /\ r.pc = "lookup"
    BY <1>5 DEF reconcileByAddressType, clusters
  <2>2. GivesUp \/ Plans
    BY <1>5, <2>1, PlanStep DEF GivesUp, Plans
  <2> QED BY <2>1, <2>2
<1>6. CASE newSlice
  <2>1. r.pc = "finalize" /\ r.create # {}
    BY <1>6 DEF newSlice, creating
  <2>2. CASE UNCHANGED infra
    BY <1>1, <1>6, <2>1, <2>2, Zenon DEF newSlice, Refused, WriteSlice, Creates
  <2>3. CASE \E i \in Names :
               /\ infra[i] = Absent /\ r.listed[i] = Absent
               /\ WriteSlice(i, [eps |-> r.create, owner |-> r.svc.uid, managed |-> TRUE,
                                 supported |-> TRUE, spec |-> r.svc.spec])
    <3>1. PICK i \in Names : Creates(i)
      BY <2>1, <2>3 DEF WriteSlice, Creates
    <3>2. GivesUp \/ r' = [r EXCEPT !.create = {}] \/ (Refused /\ UNCHANGED infra)
      BY <1>1, <1>6, <2>1 DEF newSlice, Refused
    <3> QED BY <3>1, <3>2
  <2> QED BY <1>6, <2>2, <2>3 DEF newSlice
<1>7. ASSUME NEW i \in Names, updateSlice(i)
      PROVE  \/ GivesUp /\ (UNCHANGED infra \/ Updates(i))
             \/ Updates(i) /\ r' = [r EXCEPT !.update[i] = {}]
  <2>1. r.pc = "finalize" /\ r.update[i] # {}
    BY <1>7 DEF updateSlice, updating
  <2>2. \/ UNCHANGED infra /\ GivesUp
        \/ /\ infra[i] # Absent /\ infra[i] = r.listed[i]
           /\ WriteSlice(i, [infra[i] EXCEPT !.eps = r.update[i], !.managed = TRUE,
                                             !.spec = r.svc.spec])
           /\ r' = [r EXCEPT !.update[i] = {}] \/ GivesUp
    BY <1>1, <1>7 DEF updateSlice
  <2> QED BY <2>1, <2>2 DEF Updates, WriteSlice
<1>8. ASSUME NEW i \in Names, deleteSlice(i)
      PROVE  (GivesUp /\ (UNCHANGED infra \/ Erases(i))) \/ Removes(i)
  <2>1. r.pc = "finalize" /\ i \in toRemove
    BY <1>8 DEF deleteSlice
  <2>2. \/ UNCHANGED infra /\ GivesUp
        \/ /\ WriteSlice(i, Absent)
           /\ \/ r' = [r EXCEPT !.delete = @ \ {i},
                                !.unneeded = IF r.delete = {} THEN @ \ {i} ELSE @]
              \/ GivesUp
    BY <1>1, <1>8 DEF deleteSlice
  <2> QED BY <2>1, <2>2 DEF Erases, Removes, Vanishes, WriteSlice
<1>9. CASE reconcileDone
  BY <1>9 DEF reconcileDone, clusters, GivesUp
<1> QED BY <1>2, <1>3, <1>4, <1>5, <1>6, <1>7, <1>8, <1>9 DEF Worker

(* Every step is one of these.                                             *)
LEMMA FineMoves ==
    ASSUME TypeOK, [Next]_vars
    PROVE  \/ r' = r /\ AddsNoNode
           \/ GivesUp /\ (UNCHANGED infra \/ \E i \in Names : Creates(i) \/ Updates(i) \/ Erases(i))
           \/ UNCHANGED infra /\ (Starts \/ Lists \/ Collects \/ Plans \/ Refused)
           \/ \E i \in Names :
                \/ Creates(i) /\ r' = [r EXCEPT !.create = {}]
                \/ Updates(i) /\ r' = [r EXCEPT !.update[i] = {}]
                \/ Removes(i)
<1>1. CASE UNCHANGED vars
  BY <1>1 DEF vars, AddsNoNode
<1>2. CASE Restart
  BY <1>2 DEF Restart, clusters, GivesUp
<1>3. CASE \/ ServiceHandler
           \/ \E s \in TenantSlices : TenantHandler(s)
           \/ \E kind \in {"write", "delete"} : InfraHandler(kind)
  BY <1>3, HandlerMoves DEF GivesUp, AddsNoNode
<1>4. CASE Environment \/ \E i \in Names : GarbageCollect(i)
  BY <1>4, EnvironmentMoves
<1>5. CASE Worker
  BY <1>5, WorkerMoves, Zenon
<1> QED BY <1>1, <1>2, <1>3, <1>4, <1>5 DEF Next
(* A deletion adds no node either.                                         *)
LEMMA Moves ==
    ASSUME TypeOK, [Next]_vars
    PROVE  \/ r' = r /\ AddsNoNode
           \/ GivesUp /\ (AddsNoNode \/ \E i \in Names : Creates(i) \/ Updates(i))
           \/ UNCHANGED infra /\ (Starts \/ Lists \/ Collects \/ Plans \/ Refused)
           \/ \E i \in Names :
                \/ Creates(i) /\ r' = [r EXCEPT !.create = {}]
                \/ Updates(i) /\ r' = [r EXCEPT !.update[i] = {}]
                \/ Removes(i)
<1>1. UNCHANGED infra \/ (\E i \in Names : Erases(i)) => AddsNoNode
  BY DEF Erases, AddsNoNode
<1> QED BY <1>1, FineMoves, Zenon

-----------------------------------------------------------------------------
(* What a write does to the slices.                                        *)

(* Addresses of a set of endpoints, made usable without set comprehension. *)
LEMMA AddrsOf ==
    ASSUME NEW endpoints, NEW a
    PROVE  a \in Addrs(endpoints) <=> \E e \in endpoints : e.addr = a
BY DEF Addrs

LEMMA NodesOnly ==
    ASSUME TypeOK, AddsNoNode, NEW i \in Names, NEW a \in Nodes, At(infra, i, a)'
    PROVE  At(infra, i, a)
<1>1. infra \in Listing /\ Foreign \notin Nodes
  BY PlanConstants DEF TypeOK
<1>2. CASE UNCHANGED infra
  BY <1>2 DEF At, Addrs
<1>3. ASSUME NEW j \in Names, Vanishes(j) PROVE At(infra, i, a)
  BY <1>1, <1>3 DEF Vanishes, At, Listing, Addrs
<1>4. ASSUME NEW j \in Names, Loses(j) PROVE At(infra, i, a)
  <2>1. PICK rest \in SUBSET infra[j].eps :
            infra' = [infra EXCEPT ![j] = [infra[j] EXCEPT !.eps = rest]]
    BY <1>4 DEF Loses
  <2>2. infra[j] \in Slice
    BY <1>1, <1>4 DEF Loses, Listing
  <2>3. CASE i # j
    BY <1>1, <2>1, <2>3 DEF At, Listing, Addrs
  <2>4. CASE i = j
    <3>1. infra'[i].eps = rest /\ infra'[i].supported = infra[i].supported
      BY <1>1, <2>1, <2>2, <2>4 DEF Listing, Slice
    <3>2. infra[i] # Absent
      BY <1>4, <2>4 DEF Loses
    <3> QED BY <2>1, <2>4, <3>1, <3>2 DEF At, Addrs
  <2> QED BY <2>3, <2>4
<1>5. ASSUME NEW j \in Names, Arrives(j) PROVE At(infra, i, a)
  <2>1. PICK t \in BOOLEAN :
           infra' = [infra EXCEPT ![j] =
                    [eps |-> {[addr |-> Foreign, up |-> TRUE]}, owner |-> svc.uid,
                     managed |-> FALSE, supported |-> t, spec |-> svc.spec]]
    BY <1>5 DEF Arrives
  <2>2. CASE i # j
    BY <1>1, <2>1, <2>2 DEF At, Listing, Addrs
  <2>3. CASE i = j
    <3>1. infra'[i].eps = {[addr |-> Foreign, up |-> TRUE]}
      BY <1>1, <2>1, <2>3 DEF Listing
    <3>2. a = Foreign
      BY <3>1 DEF At, Addrs
    <3> QED BY <1>1, <3>2
  <2> QED BY <2>2, <2>3
<1> QED BY <1>2, <1>3, <1>4, <1>5 DEF AddsNoNode

(* The slices other than i, and slice i, after a write of the worker.      *)
LEMMA CreatesParts ==
    ASSUME TypeOK, NEW i \in Names, Creates(i)
    PROVE  /\ \A j \in Names \ {i} : infra'[j] = infra[j]
           /\ infra'[i] = [eps |-> r.create, owner |-> r.svc.uid, managed |-> TRUE,
                           supported |-> TRUE, spec |-> r.svc.spec]
           /\ \A j \in Names, a \in Nodes :
                  At(infra, j, a)' <=> At(infra, j, a) \/ (j = i /\ a \in Addrs(r.create))
<1>1. \A j \in Names \ {i} : infra'[j] = infra[j]
  BY DEF Creates, TypeOK, Listing
<1>2. infra'[i] = [eps |-> r.create, owner |-> r.svc.uid, managed |-> TRUE,
                   supported |-> TRUE, spec |-> r.svc.spec]
  BY DEF Creates, TypeOK, Listing
<1>3. infra'[i] # Absent
  <2>1. [eps |-> r.create, owner |-> r.svc.uid, managed |-> TRUE,
         supported |-> TRUE, spec |-> r.svc.spec] \in Slice
    BY DEF TypeOK, Frame, Slice, Service
  <2> QED BY <1>2, <2>1, AbsentIsNoSlice
<1> QED BY <1>1, <1>2, <1>3 DEF At, Creates

LEMMA UpdatesParts ==
    ASSUME TypeOK, NEW i \in Names, Updates(i)
    PROVE  /\ \A j \in Names \ {i} : infra'[j] = infra[j]
           /\ infra'[i] = [infra[i] EXCEPT !.eps = r.update[i], !.managed = TRUE,
                                           !.spec = r.svc.spec]
           /\ infra'[i].eps = r.update[i] /\ infra'[i].managed
           /\ infra'[i].supported = infra[i].supported
           /\ \A j \in Names, a \in Nodes :
                  At(infra, j, a)' =>
                      IF j = i THEN a \in Addrs(r.update[i]) ELSE At(infra, j, a)
<1>1. \A j \in Names \ {i} : infra'[j] = infra[j]
  BY DEF Updates, TypeOK, Listing
<1>2. infra'[i] = [infra[i] EXCEPT !.eps = r.update[i], !.managed = TRUE,
                                   !.spec = r.svc.spec]
  BY DEF Updates, TypeOK, Listing
<1>3. infra[i] \in Slice
  BY DEF Updates, TypeOK, Listing
<1>4. /\ infra'[i].eps = r.update[i] /\ infra'[i].managed
      /\ infra'[i].supported = infra[i].supported
  BY <1>2, <1>3 DEF Slice
<1> QED BY <1>1, <1>2, <1>4 DEF At
-----------------------------------------------------------------------------
(* Nodes and the foreign address are kept apart.                           *)

LEMMA InitApart == Init => Apart
<1> SUFFICES ASSUME Init PROVE Apart
  OBVIOUS
<1>1. infra = [i \in Names |-> Absent] /\ r = Idle
  BY Zenon DEF Init
<1> QED BY <1>1 DEF Apart, Separate, HasListed, Idle

LEMMA SeparateBeside ==
    ASSUME TypeOK, Separate(infra), AddsNoNode
    PROVE  Separate(infra)'
<1>1. infra \in Listing
  BY DEF TypeOK
<1>2. CASE UNCHANGED infra
  BY <1>2 DEF Separate
<1>3. ASSUME NEW j \in Names, Vanishes(j) PROVE Separate(infra)'
  BY <1>1, <1>3 DEF Vanishes, Separate, Listing
<1>4. ASSUME NEW j \in Names, Loses(j) PROVE Separate(infra)'
  <2>1. PICK rest \in SUBSET infra[j].eps :
            infra' = [infra EXCEPT ![j] = [infra[j] EXCEPT !.eps = rest]]
    BY <1>4 DEF Loses
  <2>2. infra[j] \in Slice /\ infra[j] # Absent
    BY <1>1, <1>4 DEF Loses, Listing
  <2>3. infra'[j].eps = rest /\ infra'[j].managed = infra[j].managed
    BY <1>1, <2>1, <2>2 DEF Listing, Slice
  <2>4. Addrs(rest) \subseteq Addrs(infra[j].eps)
    BY <2>1 DEF Addrs
  <2>5. \A i \in Names \ {j} : infra'[i] = infra[i]
    BY <1>1, <2>1 DEF Listing
  <2> QED BY <2>2, <2>3, <2>4, <2>5 DEF Separate
<1>5. ASSUME NEW j \in Names, Arrives(j) PROVE Separate(infra)'
  <2>1. PICK t \in BOOLEAN :
           infra' = [infra EXCEPT ![j] =
                    [eps |-> {[addr |-> Foreign, up |-> TRUE]}, owner |-> svc.uid,
                     managed |-> FALSE, supported |-> t, spec |-> svc.spec]]
    BY <1>5 DEF Arrives
  <2>2. infra'[j].eps = {[addr |-> Foreign, up |-> TRUE]} /\ ~infra'[j].managed
    BY <1>1, <2>1 DEF Listing
  <2>3. Addrs({[addr |-> Foreign, up |-> TRUE]}) = {Foreign}
    BY DEF Addrs
  <2>4. \A i \in Names \ {j} : infra'[i] = infra[i]
    BY <1>1, <2>1 DEF Listing
  <2> QED BY <2>2, <2>3, <2>4 DEF Separate
<1> QED BY <1>2, <1>3, <1>4, <1>5 DEF AddsNoNode

LEMMA SeparateWrites ==
    ASSUME TypeOK, Apart, NEW i \in Names, Creates(i) \/ Updates(i)
    PROVE  Separate(infra)'
<1>1. /\ \A j \in Names \ {i} : infra'[j] = infra[j]
      /\ infra'[i].managed /\ infra'[i].eps \in {r.create, r.update[i]}
  <2>1. CASE Creates(i)
    BY <2>1, CreatesParts
  <2>2. CASE Updates(i)
    BY <2>2, UpdatesParts
  <2> QED BY <2>1, <2>2
<1>2. Addrs(r.create) \subseteq Nodes /\ Addrs(r.update[i]) \subseteq Nodes
  BY DEF Apart, Creates, Updates
<1> QED BY <1>1, <1>2 DEF Apart, Separate

LEMMA NoAddrs == Addrs({}) = {}
BY DEF Addrs

LEMMA IdleFrame ==
    /\ Idle.pc = "idle" /\ Panic.pc = "panic" /\ Idle.svc.mode = "none"
    /\ Panic.svc.mode = "none"
    /\ Idle.desired = {} /\ Idle.create = {} /\ Idle.delete = {} /\ Idle.unneeded = {}
    /\ \A i \in Names : Idle.update[i] = {}
BY DEF Idle, Panic, NoService

(* The fields of a planned frame.                                          *)
LEMMA PlannedParts ==
    ASSUME TypeOK, NEW desired, NEW place, r' = Planned(desired, place)
    PROVE  /\ r'.pc = "finalize" /\ r'.desired = desired
           /\ r'.create = given(place, NewSlice)
           /\ \A i \in Names :
                 r'.update[i] = IF i \in toUpdate(r.svc, r.listed, desired, place)
                                  THEN contents(r.svc, r.listed, desired, place, i)
                                  ELSE {}
           /\ r'.delete = toDelete(r.svc, r.listed, desired)
           /\ r'.unneeded = r.unneeded /\ r'.listed = r.listed /\ r'.svc = r.svc
<1> DEFINE update == [i \in Names |->
            IF i \in toUpdate(r.svc, r.listed, desired, place)
              THEN contents(r.svc, r.listed, desired, place, i)
              ELSE {}]
<1>1. r \in Frame
  BY DEF TypeOK
<1>2. \A i \in Names :
         update[i] = IF i \in toUpdate(r.svc, r.listed, desired, place)
                       THEN contents(r.svc, r.listed, desired, place, i) ELSE {}
  OBVIOUS
<1> HIDE DEF update
<1>3. r' = [r EXCEPT !.pc = "finalize", !.desired = desired, !.nodes = {},
                     !.create = given(place, NewSlice), !.update = update,
                     !.delete = toDelete(r.svc, r.listed, desired)]
  BY DEF Planned, update
<1> QED BY <1>1, <1>2, <1>3 DEF Frame

LEMMA ApartStep == TypeOK /\ TypeOK' /\ Apart /\ [Next]_vars => Apart'
<1> SUFFICES ASSUME TypeOK, TypeOK', Apart, [Next]_vars PROVE Apart'
  OBVIOUS
<1>1. CASE r' = r /\ AddsNoNode
  <2>1. Separate(infra)'
    BY <1>1, SeparateBeside DEF Apart
  <2> QED BY <1>1, <2>1 DEF Apart, HasListed, NoPlan, Separate, Addrs
<1>2. CASE GivesUp /\ (AddsNoNode \/ \E i \in Names : Creates(i) \/ Updates(i))
  <2>1. Separate(infra)'
    BY <1>2, SeparateBeside, SeparateWrites DEF Apart
  <2> QED BY <1>2, <2>1, IdleFrame DEF Apart, HasListed, GivesUp
<1>3. CASE UNCHANGED infra /\ Starts
  <2>1. Separate(infra)'
    BY <1>3 DEF Apart, Separate
  <2>2. r'.pc = "listInfra" /\ NoPlan'
    BY <1>3, IdleFrame, FixedValues DEF Starts, NoPlan, Frame
  <2> QED BY <2>1, <2>2 DEF Apart, HasListed
<1>4. CASE UNCHANGED infra /\ Lists
  <2>1. Separate(infra)'
    BY <1>4 DEF Apart, Separate
  <2>2. /\ r'.listed = infra /\ r'.desired = r.desired /\ r'.create = r.create
        /\ r'.update = r.update /\ r'.delete = r.delete
        /\ r'.pc \in {"finalize", "listTenant"}
    BY <1>4 DEF Lists, TypeOK, Frame
  <2>3. NoPlan
    BY <1>4 DEF Lists, Apart
  <2>4. NoPlan' /\ Separate(r.listed)'
    BY <1>4, <2>2, <2>3 DEF NoPlan, Apart, Separate
  <2>5. /\ Addrs(r'.desired) \subseteq Nodes /\ Addrs(r'.create) \subseteq Nodes
        /\ \A i \in Names : Addrs(r'.update[i]) \subseteq Nodes
    BY <2>4, NoAddrs DEF NoPlan
  <2> QED BY <2>1, <2>2, <2>4, <2>5 DEF Apart, HasListed
<1>5. CASE UNCHANGED infra /\ Collects
  <2>1. Separate(infra)'
    BY <1>5 DEF Apart, Separate
  <2>2. /\ r'.listed = r.listed /\ r'.desired = r.desired /\ r'.create = r.create
        /\ r'.update = r.update /\ r'.delete = r.delete /\ r'.pc = "lookup"
    BY <1>5 DEF Collects, TypeOK, Frame
  <2>3. NoPlan /\ Separate(r.listed)
    BY <1>5 DEF Collects, Apart, HasListed
  <2>4. NoPlan' /\ Separate(r.listed)'
    BY <2>2, <2>3 DEF NoPlan, Separate
  <2> QED BY <2>1, <2>2, <2>4 DEF Apart, HasListed
<1>6. CASE UNCHANGED infra /\ Plans
  <2>1. Separate(infra)'
    BY <1>6 DEF Apart, Separate
  <2>2. PICK unread :
          \E place \in placements(r.svc, r.listed, getDesiredEndpoints(unread)) :
             r' = Planned(getDesiredEndpoints(unread), place)
    BY <1>6 DEF Plans
  <2> DEFINE desired == getDesiredEndpoints(unread)
  <2>3. Addrs(desired) \subseteq Nodes
    <3>1. Addrs(desired) \subseteq r.nodes
      BY DesiredParts
    <3> QED BY <3>1 DEF TypeOK, Frame
  <2>4. PICK place \in placements(r.svc, r.listed, desired) : r' = Planned(desired, place)
    BY <2>2
  <2> HIDE DEF desired
  <2>5. /\ r'.create \subseteq desired /\ r'.desired = desired /\ r'.pc = "finalize"
        /\ \A i \in Names : r'.update[i] \subseteq desired
    BY <2>4, PlannedParts, PlanParts
  <2>6. \A endpoints : endpoints \subseteq desired => Addrs(endpoints) \subseteq Nodes
    BY <2>3 DEF Addrs
  <2> QED BY <2>1, <2>3, <2>5, <2>6 DEF Apart, HasListed
<1>7. CASE UNCHANGED infra /\ Refused
  <2>1. Separate(infra)'
    BY <1>7 DEF Apart, Separate
  <2>2. /\ r'.desired = r.desired /\ r'.create = {} /\ r'.pc = "finalize"
        /\ \A i \in Names : r'.update[i] = {}
    BY <1>7, IdleFrame DEF Refused, TypeOK, Frame
  <2>3. Addrs(r.desired) \subseteq Nodes
    BY <1>7 DEF Refused, Apart
  <2> QED BY <2>1, <2>2, <2>3, NoAddrs DEF Apart, HasListed
<1>8. ASSUME NEW i \in Names, Creates(i), r' = [r EXCEPT !.create = {}]
      PROVE  Apart'
  <2>1. Separate(infra)'
    BY <1>8, SeparateWrites
  <2>2. /\ r'.desired = r.desired /\ r'.create = {} /\ r'.pc = "finalize"
        /\ r'.update = r.update
    BY <1>8 DEF Creates, TypeOK, Frame
  <2> QED BY <1>8, <2>1, <2>2, NoAddrs DEF Apart, HasListed, Creates
<1>9. ASSUME NEW i \in Names, Updates(i), r' = [r EXCEPT !.update[i] = {}]
      PROVE  Apart'
  <2>1. Separate(infra)'
    BY <1>9, SeparateWrites
  <2>2. /\ r'.desired = r.desired /\ r'.create = r.create /\ r'.pc = "finalize"
        /\ \A j \in Names : r'.update[j] \in {{}, r.update[j]}
    BY <1>9 DEF Updates, TypeOK, Frame
  <2> QED BY <1>9, <2>1, <2>2, NoAddrs DEF Apart, HasListed, Updates
<1>10. ASSUME NEW i \in Names, Removes(i) PROVE Apart'
  <2>1. Separate(infra)'
    BY <1>10, SeparateBeside DEF Apart, Removes, Erases, AddsNoNode
  <2>2. /\ r'.desired = r.desired /\ r'.create = r.create /\ r'.pc = "finalize"
        /\ r'.update = r.update
    BY <1>10 DEF Removes, Erases, TypeOK, Frame
  <2> QED BY <1>10, <2>1, <2>2 DEF Apart, HasListed, Removes, Erases
<1> QED BY <1>1, <1>2, <1>3, <1>4, <1>5, <1>6, <1>7, <1>8, <1>9, <1>10, Moves
-----------------------------------------------------------------------------
(* The limit.                                                              *)

LEMMA CardOfNothing == IsFiniteSet({}) /\ Cardinality({}) <= Limit
BY FS_EmptySet, PlanConstants

(* One endpoint for each node makes a finite set.                          *)
LEMMA FiniteEndpoints ==
    ASSUME NEW desired, Addrs(desired) \subseteq Nodes,
           \A d, e \in desired : d.addr = e.addr => d = e
    PROVE  IsFiniteSet(desired)
<1> DEFINE f == [e \in desired |-> e.addr]
<1>1. \A e \in desired : e.addr \in Nodes
  BY DEF Addrs
<1>2. f \in Injection(desired, Nodes)
  BY <1>1 DEF Injection, IsInjective
<1> HIDE DEF f
<1> QED BY <1>2, FS_Injection, PlanConstants

(* What a slice covers is not more than what it listed.                    *)
LEMMA CoveredIsNoMore ==
    ASSUME NEW service, NEW listed, NEW desired, NEW i,
           \A d, e \in desired : d.addr = e.addr => d = e,
           IsFiniteSet(listed[i].eps)
    PROVE  LET inside == covered(service, listed, desired, i)
           IN  IsFiniteSet(inside) /\ Cardinality(inside) <= Cardinality(listed[i].eps)
<1> DEFINE inside == covered(service, listed, desired, i)
           old(e) == CHOOSE x \in listed[i].eps : x.addr = e.addr
           f == [e \in inside |-> old(e)]
<1>1. \A e \in inside : e \in desired /\ \E x \in listed[i].eps : x.addr = e.addr
  BY DEF covered, Addrs
<1>2. \A e \in inside : old(e) \in listed[i].eps /\ old(e).addr = e.addr
  BY <1>1
<1> HIDE DEF inside, old
<1>3. f \in [inside -> listed[i].eps]
  BY <1>2
<1>4. \A d, e \in inside : f[d] = f[e] => d = e
  <2>1. \A d, e \in inside : old(d) = old(e) => d = e
    BY <1>1, <1>2
  <2> QED BY <2>1
<1>5. f \in Injection(inside, listed[i].eps)
  BY <1>3, <1>4 DEF Injection, IsInjective
<1> HIDE DEF f
<1>6. IsFiniteSet(inside) /\ Cardinality(inside) <= Cardinality(listed[i].eps)
  BY <1>5, FS_Injection
<1> QED BY <1>6 DEF inside

LEMMA InitSize == Init => SizeInv
<1> SUFFICES ASSUME Init PROVE SizeInv
  OBVIOUS
<1>1. infra = [i \in Names |-> Absent] /\ r = Idle
  BY Zenon DEF Init
<1> QED BY <1>1, IdleFrame DEF SizeInv, AllSmall, HasListed

LEMMA SmallBeside ==
    ASSUME TypeOK, AllSmall(infra), AddsNoNode
    PROVE  AllSmall(infra)'
<1>1. infra \in Listing
  BY DEF TypeOK
<1>2. CASE UNCHANGED infra
  BY <1>2 DEF AllSmall, Small
<1>3. ASSUME NEW j \in Names, Vanishes(j) PROVE AllSmall(infra)'
  <2>1. \A i \in Names : infra'[i] = Absent \/ infra'[i] = infra[i]
    BY <1>1, <1>3 DEF Vanishes, Listing
  <2> QED BY <2>1 DEF AllSmall, Small
<1>4. ASSUME NEW j \in Names, Loses(j) PROVE AllSmall(infra)'
  <2>1. PICK rest \in SUBSET infra[j].eps :
            infra' = [infra EXCEPT ![j] = [infra[j] EXCEPT !.eps = rest]]
    BY <1>4 DEF Loses
  <2>2. infra[j] \in Slice /\ infra[j] # Absent
    BY <1>1, <1>4 DEF Loses, Listing
  <2>3. infra'[j].eps = rest /\ infra'[j].managed = infra[j].managed
    BY <1>1, <2>1, <2>2 DEF Listing, Slice
  <2>4. IsFiniteSet(infra[j].eps)
    BY <2>2 DEF AllSmall, Small
  <2>5. IsFiniteSet(rest) /\ Cardinality(rest) <= Cardinality(infra[j].eps)
    BY <2>1, <2>4, FS_Subset
  <2>6. Cardinality(rest) \in Nat /\ Cardinality(infra[j].eps) \in Nat /\ Limit \in Nat
    BY <2>4, <2>5, FS_CardinalityType, PlanConstants
  <2>7. infra[j].managed => Cardinality(rest) <= Limit
    <3>1. infra[j].managed => Cardinality(infra[j].eps) <= Limit
      BY <2>2 DEF AllSmall, Small
    <3> QED BY <2>5, <2>6, <3>1
  <2>8. Small(infra[j])'
    BY <2>3, <2>5, <2>7 DEF Small
  <2>9. \A i \in Names \ {j} : infra'[i] = infra[i]
    BY <1>1, <2>1 DEF Listing
  <2> QED BY <2>8, <2>9 DEF AllSmall, Small
<1>5. ASSUME NEW j \in Names, Arrives(j) PROVE AllSmall(infra)'
  <2>1. PICK t \in BOOLEAN :
           infra' = [infra EXCEPT ![j] =
                    [eps |-> {[addr |-> Foreign, up |-> TRUE]}, owner |-> svc.uid,
                     managed |-> FALSE, supported |-> t, spec |-> svc.spec]]
    BY <1>5 DEF Arrives
  <2>2. infra'[j].eps = {[addr |-> Foreign, up |-> TRUE]} /\ ~infra'[j].managed
    BY <1>1, <2>1 DEF Listing
  <2>3. IsFiniteSet({[addr |-> Foreign, up |-> TRUE]})
    BY FS_Singleton
  <2>4. \A i \in Names \ {j} : infra'[i] = infra[i]
    BY <1>1, <2>1 DEF Listing
  <2> QED BY <2>2, <2>3, <2>4 DEF AllSmall, Small
<1> QED BY <1>2, <1>3, <1>4, <1>5 DEF AddsNoNode

LEMMA SmallWrites ==
    ASSUME TypeOK, SizeInv, NEW i \in Names, Creates(i) \/ Updates(i)
    PROVE  AllSmall(infra)'
<1>1. /\ \A j \in Names \ {i} : infra'[j] = infra[j]
      /\ infra'[i].eps \in {r.create, r.update[i]}
  <2>1. CASE Creates(i)
    BY <2>1, CreatesParts
  <2>2. CASE Updates(i)
    BY <2>2, UpdatesParts
  <2> QED BY <2>1, <2>2
<1>2. \A endpoints \in {r.create, r.update[i]} :
          IsFiniteSet(endpoints) /\ Cardinality(endpoints) <= Limit
  BY DEF SizeInv, Creates, Updates
<1> QED BY <1>1, <1>2 DEF SizeInv, AllSmall, Small

(* A plan fills no slice beyond the limit: a slice that is given endpoints *)
(* fits with them, any other one only lost some.                           *)
LEMMA PlanFits ==
    ASSUME NEW service, NEW listed, NEW desired, AllSmall(listed), Separate(listed),
           Addrs(desired) \subseteq Nodes,
           \A d, e \in desired : d.addr = e.addr => d = e,
           NEW place \in placements(service, listed, desired),
           NEW t \in toUpdate(service, listed, desired, place) \cup {NewSlice}
    PROVE  LET inside == contents(service, listed, desired, place, t)
           IN  IsFiniteSet(inside) /\ Cardinality(inside) <= Limit
<1> DEFINE inside == contents(service, listed, desired, place, t)
<1>1. IsFiniteSet(inside)
  <2>1. inside \subseteq desired
    BY PlanParts
  <2> QED BY <2>1, FiniteEndpoints, FS_Subset
<1>2. CASE given(place, t) # {}
  <2>1. t \in targets(service, listed, desired)
    BY PlanParts DEF targets
  <2>2. fits(inside)
    BY <1>2, <2>1, PlanParts DEF packs
  <2> QED BY <1>1, <2>2 DEF fits
<1>3. CASE given(place, t) = {} /\ t \notin Names
  <2>1. inside = {}
    BY <1>3 DEF contents
  <2> QED BY <2>1, CardOfNothing
<1>4. CASE given(place, t) = {} /\ t \in Names
  <2>1. inside = covered(service, listed, desired, t)
    BY <1>4 DEF contents
  <2>2. listed[t] # Absent
    <3>1. t # NewSlice
      BY <1>4, PlanConstants DEF Names, NewSlice
    <3>2. t \in existing(service, listed)
      BY <3>1, PlanParts
    <3> QED BY <3>2 DEF existing
  <2>3. IsFiniteSet(listed[t].eps)
    BY <1>4, <2>2 DEF AllSmall, Small
  <2>4. Cardinality(inside) <= Cardinality(listed[t].eps)
    BY <2>1, <2>3, CoveredIsNoMore
  <2>5. CASE listed[t].managed
    <3>1. Cardinality(listed[t].eps) <= Limit
      BY <1>4, <2>2, <2>5 DEF AllSmall, Small
    <3>2. Cardinality(inside) \in Nat /\ Cardinality(listed[t].eps) \in Nat /\ Limit \in Nat
      BY <1>1, <2>3, FS_CardinalityType, PlanConstants
    <3>3. Cardinality(inside) <= Limit
      <4> HIDE DEF inside
      <4> QED BY <2>4, <3>1, <3>2
    <3> QED BY <1>1, <3>3
  <2>6. CASE ~listed[t].managed
    <3>1. Addrs(listed[t].eps) \subseteq {Foreign}
      BY <1>4, <2>2, <2>6 DEF Separate
    <3>2. \A e \in desired : e.addr \in Nodes
      BY DEF Addrs
    <3>3. inside = {}
      BY <2>1, <3>1, <3>2, PlanConstants DEF covered
    <3> QED BY <3>3, CardOfNothing
  <2> QED BY <2>5, <2>6
<1> QED BY <1>2, <1>3, <1>4

LEMMA SizeStep == TypeOK /\ TypeOK' /\ Apart /\ SizeInv /\ [Next]_vars => SizeInv'
<1> SUFFICES ASSUME TypeOK, TypeOK', Apart, SizeInv, [Next]_vars PROVE SizeInv'
  OBVIOUS
<1>1. UNCHANGED infra => AllSmall(infra)'
  BY DEF SizeInv, AllSmall, Small
<1>2. CASE r' = r /\ AddsNoNode
  <2>1. AllSmall(infra)'
    BY <1>2, SmallBeside DEF SizeInv
  <2> QED BY <1>2, <2>1 DEF SizeInv, HasListed, AllSmall, Small
<1>3. CASE GivesUp /\ (AddsNoNode \/ \E i \in Names : Creates(i) \/ Updates(i))
  <2>1. AllSmall(infra)'
    BY <1>3, SmallBeside, SmallWrites DEF SizeInv
  <2> QED BY <1>3, <2>1, IdleFrame DEF SizeInv, HasListed, GivesUp
<1>4. CASE UNCHANGED infra /\ Starts
  <2>1. r'.pc = "listInfra"
    BY <1>4, FixedValues DEF Starts, Frame
  <2> QED BY <1>1, <1>4, <2>1 DEF SizeInv, HasListed
<1>5. CASE UNCHANGED infra /\ Lists
  <2>1. /\ r'.listed = infra /\ r'.create = r.create /\ r'.update = r.update
        /\ r'.pc \in {"finalize", "listTenant"}
    BY <1>5 DEF Lists, TypeOK, Frame
  <2>2. NoPlan
    BY <1>5 DEF Lists, Apart
  <2>3. r'.create = {} /\ \A i \in Names : r'.update[i] = {}
    BY <2>1, <2>2 DEF NoPlan
  <2>4. AllSmall(r.listed)'
    BY <1>5, <2>1 DEF SizeInv, AllSmall, Small
  <2> QED BY <1>1, <1>5, <2>3, <2>4, CardOfNothing DEF SizeInv
<1>6. CASE UNCHANGED infra /\ Collects
  <2>1. r'.listed = r.listed /\ r'.pc = "lookup"
    BY <1>6 DEF Collects, TypeOK, Frame
  <2>2. AllSmall(r.listed)
    BY <1>6 DEF Collects, HasListed, SizeInv
  <2>3. AllSmall(r.listed)'
    BY <2>1, <2>2 DEF AllSmall, Small
  <2> QED BY <1>1, <1>6, <2>1, <2>3 DEF SizeInv
<1>7. CASE UNCHANGED infra /\ Plans
  <2>1. PICK unread :
          \E place \in placements(r.svc, r.listed, getDesiredEndpoints(unread)) :
             r' = Planned(getDesiredEndpoints(unread), place)
    BY <1>7 DEF Plans
  <2> DEFINE desired == getDesiredEndpoints(unread)
  <2>2. Addrs(desired) \subseteq Nodes /\ \A d, e \in desired : d.addr = e.addr => d = e
    <3>1. Addrs(desired) \subseteq r.nodes /\ \A d, e \in desired : d.addr = e.addr => d = e
      BY DesiredParts
    <3> QED BY <3>1 DEF TypeOK, Frame
  <2>3. PICK place \in placements(r.svc, r.listed, desired) : r' = Planned(desired, place)
    BY <2>1
  <2> HIDE DEF desired
  <2>4. AllSmall(r.listed) /\ Separate(r.listed)
    BY <1>7 DEF Plans, HasListed, SizeInv, Apart
  <2>5. IsFiniteSet(r'.create) /\ Cardinality(r'.create) <= Limit
    <3>1. r'.create = contents(r.svc, r.listed, desired, place, NewSlice)
      <4>1. NewSlice \notin Names
        BY PlanConstants DEF Names, NewSlice
      <4>2. r'.create = given(place, NewSlice)
        BY <2>3, PlannedParts
      <4> QED BY <4>1, <4>2 DEF contents
    <3> QED BY <2>2, <2>3, <2>4, <3>1, PlanFits
  <2>6. ASSUME NEW i \in Names
        PROVE  IsFiniteSet(r'.update[i]) /\ Cardinality(r'.update[i]) <= Limit
    <3>1. CASE i \in toUpdate(r.svc, r.listed, desired, place)
      <4>1. r'.update[i] = contents(r.svc, r.listed, desired, place, i)
        BY <2>3, <3>1, PlannedParts
      <4> QED BY <2>2, <2>3, <2>4, <3>1, <4>1, PlanFits
    <3>2. CASE i \notin toUpdate(r.svc, r.listed, desired, place)
      BY <2>3, <3>2, PlannedParts, CardOfNothing
    <3> QED BY <3>1, <3>2
  <2>7. r'.pc = "finalize"
    BY <2>3, PlannedParts
  <2> QED BY <1>1, <1>7, <2>5, <2>6, <2>7 DEF SizeInv, HasListed
<1>8. CASE UNCHANGED infra /\ Refused
  <2>1. r'.create = {} /\ r'.pc = "finalize" /\ \A i \in Names : r'.update[i] = {}
    BY <1>8, IdleFrame DEF Refused, TypeOK, Frame
  <2> QED BY <1>1, <1>8, <2>1, CardOfNothing DEF SizeInv, HasListed
<1>9. ASSUME NEW i \in Names, Creates(i), r' = [r EXCEPT !.create = {}]
      PROVE  SizeInv'
  <2>1. AllSmall(infra)'
    BY <1>9, SmallWrites
  <2>2. r'.create = {} /\ r'.pc = "finalize" /\ r'.update = r.update
    BY <1>9 DEF Creates, TypeOK, Frame
  <2> QED BY <1>9, <2>1, <2>2, CardOfNothing DEF SizeInv, HasListed, Creates
<1>10. ASSUME NEW i \in Names, Updates(i), r' = [r EXCEPT !.update[i] = {}]
       PROVE  SizeInv'
  <2>1. AllSmall(infra)'
    BY <1>10, SmallWrites
  <2>2. /\ r'.create = r.create /\ r'.pc = "finalize"
        /\ \A j \in Names : r'.update[j] \in {{}, r.update[j]}
    BY <1>10 DEF Updates, TypeOK, Frame
  <2> QED BY <1>10, <2>1, <2>2, CardOfNothing DEF SizeInv, HasListed, Updates
<1>11. ASSUME NEW i \in Names, Removes(i) PROVE SizeInv'
  <2>1. AllSmall(infra)'
    BY <1>11, SmallBeside DEF SizeInv, Removes, Erases, AddsNoNode
  <2>2. r'.create = r.create /\ r'.pc = "finalize" /\ r'.update = r.update
    BY <1>11 DEF Removes, Erases, TypeOK, Frame
  <2> QED BY <1>11, <2>1, <2>2 DEF SizeInv, HasListed, Removes, Erases
<1> QED BY <1>2, <1>3, <1>4, <1>5, <1>6, <1>7, <1>8, <1>9, <1>10, <1>11, Moves

LEMMA SizeHolds == Spec => [](TypeOK /\ Apart /\ SizeInv)
<1>1. Init => TypeOK /\ Apart /\ SizeInv
  BY InitType, InitApart, InitSize
<1>2. (TypeOK /\ Apart /\ SizeInv) /\ [Next]_vars => (TypeOK /\ Apart /\ SizeInv)'
  BY TypeStep, ApartStep, SizeStep
<1> QED BY <1>1, <1>2, PTL DEF Spec

(* No slice of this controller outgrows maxEndPointsPerSlice, for any      *)
(* limit, any number of nodes and any faults: steps 2 to 4 of              *)
(* reconcileByAddressType fill slices up to the limit, step 1 never makes  *)
(* one larger, and a slice of another controller is never taken over with  *)
(* what it holds.                                                          *)
THEOREM LimitKept == Spec => []WithinLimit
<1>1. SizeInv => WithinLimit
  BY DEF SizeInv, AllSmall, Small, WithinLimit, Managed
<1> QED BY <1>1, SizeHolds, PTL
-----------------------------------------------------------------------------
(* No Service with a selector and policy Local.                            *)

LEMMA InitNoLocal == ASSUME "local" \notin Modes PROVE Init => NoLocal
<1> SUFFICES ASSUME Init PROVE NoLocal
  OBVIOUS
<1>1. svc.mode # "local"
  <2>1. CASE svc = NoService
    BY <2>1 DEF NoService
  <2>2. ASSUME NEW m \in Modes,
               svc = [NoService EXCEPT !.present = TRUE, !.uid = 1, !.mode = m]
        PROVE  svc.mode # "local"
    <3>1. svc.mode = m
      BY <2>2, FixedValues DEF Service
    <3> QED BY <3>1
  <2> QED BY <2>1, <2>2 DEF Init
<1>2. cached = svc /\ r = Idle
  BY Zenon DEF Init
<1> QED BY <1>1, <1>2, IdleFrame DEF NoLocal

(* Only the Service's owner changes its mode, and only to one of Modes.    *)
LEMMA ServiceMode ==
    ASSUME "local" \notin Modes, TypeOK, NoLocal, [Next]_vars
    PROVE  svc'.mode # "local"
<1>1. svc \in Service /\ NoService \in Service /\ NoService.mode = "none"
  BY FixedValues DEF TypeOK, NoService
<1>2. ServiceCreate => svc'.mode # "local"
  BY DEF ServiceCreate, SetService
<1>3. ServiceChange => svc'.mode # "local"
  <2>1. \A m, p : [svc EXCEPT !.mode = m, !.spec = p].mode = m
    BY <1>1 DEF Service
  <2> QED BY <2>1 DEF ServiceChange, SetService
<1>4. [NoService EXCEPT !.uid = svc.uid].mode = "none"
  BY <1>1 DEF Service
<1>5. ServiceDelete => svc'.mode # "local"
  <2>1. [svc EXCEPT !.deleting = TRUE].mode = svc.mode
    BY <1>1 DEF Service
  <2> QED BY <1>4, <2>1 DEF ServiceDelete, SetService, NoLocal
<1>6. ServiceReleased => svc'.mode # "local"
  BY <1>4 DEF ServiceReleased
<1>7. Environment => svc'.mode # "local"
  <2>1. \A s \in TenantSlices : TenantChange(s) \/ TenantAdd(s) => UNCHANGED svc
    BY DEF TenantChange, TenantAdd, SetTenantSlice
  <2>2. \A node \in Nodes : VMIChange(node) => UNCHANGED svc
    BY DEF VMIChange
  <2>3. \A i \in Names : SliceTouched(i) \/ OtherControllerAdds(i) => UNCHANGED svc
    BY DEF SliceTouched, OtherControllerAdds, SetSlice
  <2> QED BY <1>2, <1>3, <1>5, <1>6, <2>1, <2>2, <2>3 DEF Environment, NoLocal
<1>8. Worker => UNCHANGED svc
  BY DEF Worker, Take, getInfraEPSFromInfraService, getTenantEPSFromInfraService,
         reconcileByAddressType, newSlice, updateSlice, deleteSlice, reconcileDone, clusters
<1>9. Restart \/ ServiceHandler => UNCHANGED svc
  BY DEF Restart, ServiceHandler, clusters
<1>10. /\ \A s \in TenantSlices : TenantHandler(s) => UNCHANGED svc
       /\ \A kind \in {"write", "delete"} : InfraHandler(kind) => UNCHANGED svc
       /\ \A i \in Names : GarbageCollect(i) => UNCHANGED svc
  BY DEF TenantHandler, InfraHandler, GarbageCollect, SetSlice, clusters
<1> QED BY <1>7, <1>8, <1>9, <1>10 DEF Next, vars, NoLocal

(* The lister's copy is the one it had, or the Service itself.             *)
LEMMA CachedMoves ==
    ASSUME [Next]_vars
    PROVE  cached' \in {cached, svc}
<1>1. Worker => UNCHANGED cached
  BY DEF Worker, Take, getInfraEPSFromInfraService, getTenantEPSFromInfraService,
         reconcileByAddressType, newSlice, updateSlice, deleteSlice, reconcileDone
<1>2. Restart \/ ServiceHandler => cached' \in {cached, svc}
  BY DEF Restart, ServiceHandler
<1>3. /\ \A s \in TenantSlices : TenantHandler(s) => UNCHANGED cached
      /\ \A kind \in {"write", "delete"} : InfraHandler(kind) => UNCHANGED cached
      /\ \A i \in Names : GarbageCollect(i) => UNCHANGED cached
  BY DEF TenantHandler, InfraHandler, GarbageCollect, SetSlice
<1>4. Environment => UNCHANGED cached
  BY DEF Environment, TenantChange, TenantAdd, SetTenantSlice, VMIChange,
         ServiceCreate, ServiceChange, ServiceDelete, ServiceReleased, SetService,
         SliceTouched, OtherControllerAdds, SetSlice, process
<1> QED BY <1>1, <1>2, <1>3, <1>4 DEF Next, vars

LEMMA NoLocalStep ==
    ASSUME "local" \notin Modes
    PROVE  TypeOK /\ NoLocal /\ [Next]_vars => NoLocal'
<1> SUFFICES ASSUME TypeOK, NoLocal, [Next]_vars PROVE NoLocal'
  OBVIOUS
<1>1. r'.svc.mode # "local"
  <2>1. r \in Frame /\ Idle \in Frame
    BY FixedValues DEF TypeOK
  <2>2. CASE r' = r
    BY <2>2 DEF NoLocal
  <2>3. CASE GivesUp
    BY <2>3, IdleFrame DEF GivesUp
  <2>4. CASE Starts
    <3>1. r'.svc = cached
      BY <2>1, <2>4 DEF Starts, Frame
    <3> QED BY <3>1 DEF NoLocal
  <2>5. CASE Lists \/ Collects \/ Refused
    <3>1. r'.svc = r.svc
      BY <2>1, <2>5 DEF Lists, Collects, Refused, Frame
    <3> QED BY <3>1 DEF NoLocal
  <2>6. CASE Plans
    <3>1. r'.svc = r.svc
      BY <2>6, PlannedParts DEF Plans
    <3> QED BY <3>1 DEF NoLocal
  <2>7. ASSUME NEW i \in Names,
               \/ r' = [r EXCEPT !.create = {}]
               \/ r' = [r EXCEPT !.update[i] = {}]
               \/ Removes(i)
        PROVE  r'.svc.mode # "local"
    <3>1. r'.svc = r.svc
      BY <2>1, <2>7 DEF Removes, Frame
    <3> QED BY <3>1 DEF NoLocal
  <2> QED BY <2>2, <2>3, <2>4, <2>5, <2>6, <2>7, Moves
<1> QED BY <1>1, ServiceMode, CachedMoves DEF NoLocal
-----------------------------------------------------------------------------
(* Every endpoint of a plan has one place.                                 *)

LEMMA OnePlace ==
    ASSUME NEW service, NEW listed, NEW desired, Distinct(listed),
           service.mode = "none", Addrs(desired) \subseteq Nodes,
           NEW place \in placements(service, listed, desired)
    PROVE  LET inside(t) == contents(service, listed, desired, place, t)
               slots == toUpdate(service, listed, desired, place) \cup {NewSlice}
           IN  /\ \A e \in desired, i \in Names :
                     At(listed, i, e.addr) => e \in covered(service, listed, desired, i)
               /\ \A t \in slots, i \in Names : \A e \in inside(t) :
                     At(listed, i, e.addr) => i = t
               /\ \A s, t \in slots : \A e \in inside(s) : e \in inside(t) => s = t
<1> DEFINE inside(t) == contents(service, listed, desired, place, t)
           slots == toUpdate(service, listed, desired, place) \cup {NewSlice}
<1>1. \A e \in desired : e.addr \in Nodes
  BY DEF Addrs
<1>2. \A i \in Names : \A a : At(listed, i, a) => i \in existing(service, listed)
  BY DEF At, existing
<1>3. \A i \in existing(service, listed) : \A a :
          a \in Addrs(listed[i].eps) => i \in Names /\ At(listed, i, a)
  BY DEF At, existing
<1>4. \A i \in Names : i \in Int
  BY PlanConstants DEF Names
<1>5. ASSUME NEW e \in desired, NEW i \in Names, At(listed, i, e.addr)
      PROVE  e \in covered(service, listed, desired, i)
  <2>1. \A j \in existing(service, listed) : j < i => e.addr \notin Addrs(listed[j].eps)
    <3>1. \A j \in existing(service, listed) : e.addr \in Addrs(listed[j].eps) => j = i
      BY <1>1, <1>3, <1>5 DEF Distinct
    <3> QED BY <1>4, <3>1
  <2> QED BY <1>5, <2>1 DEF covered, At
<1>6. \A t \in slots : t \in Names => t \in existing(service, listed)
  BY PlanParts, PlanConstants DEF Names, NewSlice
<1>7. ASSUME NEW t \in slots, NEW e \in inside(t)
      PROVE  /\ e \in desired
             /\ \/ e \in given(place, t) /\ e \in uncovered(service, listed, desired)
                \/ t \in Names /\ At(listed, t, e.addr)
  <2>1. e \in desired
    BY PlanParts
  <2>2. CASE e \in given(place, t)
    BY <2>1, <2>2, PlanParts DEF given
  <2>3. CASE t \in Names /\ e \in covered(service, listed, desired, t)
    BY <1>3, <1>6, <2>1, <2>3 DEF covered
  <2> QED BY <2>2, <2>3 DEF contents
<1>8. \A e \in uncovered(service, listed, desired), i \in Names : ~At(listed, i, e.addr)
  BY <1>2 DEF uncovered, At
<1>9. ASSUME NEW t \in slots, NEW i \in Names, NEW e \in inside(t), At(listed, i, e.addr)
      PROVE  i = t
  BY <1>1, <1>7, <1>8, <1>9 DEF Distinct
<1>10. ASSUME NEW s \in slots, NEW t \in slots, NEW e \in inside(s), e \in inside(t)
       PROVE  s = t
  <2>1. CASE e \in given(place, s) /\ e \in given(place, t)
    BY <2>1 DEF given
  <2>2. CASE s \in Names /\ At(listed, s, e.addr)
    BY <1>9, <1>10, <2>2
  <2>3. CASE t \in Names /\ At(listed, t, e.addr)
    BY <1>9, <1>10, <2>3
  <2> QED BY <1>7, <1>10, <2>1, <2>2, <2>3
<1> QED BY <1>5, <1>9, <1>10

LEMMA InitSlices == Init => SliceInv
<1> SUFFICES ASSUME Init PROVE SliceInv
  OBVIOUS
<1>1. infra = [i \in Names |-> Absent] /\ r = Idle
  BY Zenon DEF Init
<1> QED BY <1>1, IdleFrame DEF SliceInv, Distinct, At, ListingHolds, HasListed

LEMMA DistinctBeside ==
    ASSUME TypeOK, Distinct(infra), AddsNoNode
    PROVE  Distinct(infra)'
BY NodesOnly DEF Distinct

LEMMA DistinctWrites ==
    ASSUME TypeOK, Apart, SliceInv, NEW i \in Names, Creates(i) \/ Updates(i)
    PROVE  Distinct(infra)'
<1> SUFFICES ASSUME NEW j \in Names, NEW k \in Names, NEW a \in Nodes,
                    At(infra, j, a)', At(infra, k, a)'
             PROVE  j = k
  BY DEF Distinct
<1>1. Distinct(infra)
  BY DEF SliceInv
<1>2. CASE Creates(i)
  <2>1. \A x \in Names : At(infra, x, a)' => At(infra, x, a) \/ (x = i /\ a \in Addrs(r.create))
    BY <1>2, CreatesParts
  <2>2. a \in Addrs(r.create) => \A x \in Names : ~At(infra, x, a)
    BY <1>2 DEF SliceInv, Creates, CreateHolds
  <2> QED BY <1>1, <2>1, <2>2 DEF Distinct
<1>3. CASE Updates(i)
  <2>1. \A x \in Names : At(infra, x, a)' =>
            IF x = i THEN a \in Addrs(r.update[i]) ELSE At(infra, x, a)
    BY <1>3, UpdatesParts
  <2>2. a \in Addrs(r.update[i]) => \A x \in Names : At(infra, x, a) => x = i
    BY <1>3 DEF SliceInv, Updates, UpdateHolds
  <2> QED BY <1>1, <2>1, <2>2 DEF Distinct
<1> QED BY <1>2, <1>3

(* Whoever removes nodes from slices leaves the worker's view true.        *)
LEMMA SlicesBeside ==
    ASSUME TypeOK, Apart, SliceInv, AddsNoNode, r' = r
    PROVE  SliceInv'
<1>1. Distinct(infra)'
  BY DistinctBeside DEF SliceInv
<1>2. \A i \in Names, a \in Nodes : At(infra, i, a)' => At(infra, i, a)
  BY NodesOnly
<1>3. ListingHolds'
  BY <1>2 DEF SliceInv, ListingHolds, HasListed, Distinct, At, unneeded
<1>4. ASSUME r.pc = "finalize" PROVE (CreateHolds /\ UpdateHolds /\ DeleteHolds)'
  <2>1. /\ Addrs(r.desired) \subseteq Nodes /\ Addrs(r.create) \subseteq Nodes
        /\ \A i \in Names : Addrs(r.update[i]) \subseteq Nodes
    BY <1>4 DEF Apart
  <2>2. CreateHolds /\ UpdateHolds /\ DeleteHolds
    BY <1>4 DEF SliceInv
  <2>3. CreateHolds'
    BY <1>2, <2>1, <2>2 DEF CreateHolds
  <2>4. UpdateHolds'
    <3>1. \A i \in Names : \A a : At(r.listed, i, a)' <=> At(r.listed, i, a)
      BY DEF At
    <3> QED BY <1>2, <2>1, <2>2, <3>1 DEF UpdateHolds
  <2>5. DeleteHolds'
    <3>1. r.delete \cup r.unneeded \subseteq Names
      BY DEF TypeOK, Frame
    <3> QED BY <1>2, <2>1, <2>2, <3>1 DEF DeleteHolds
  <2> QED BY <2>3, <2>4, <2>5
<1> QED BY <1>1, <1>3, <1>4 DEF SliceInv

LEMMA SlicesGivenUp ==
    ASSUME GivesUp, Distinct(infra)' PROVE SliceInv'
BY IdleFrame DEF GivesUp, SliceInv, ListingHolds, HasListed
(* The listing, and the plan of a Service that is gone: nothing to write.  *)
LEMMA SlicesListed ==
    ASSUME TypeOK, Apart, SliceInv, Lists, UNCHANGED infra
    PROVE  SliceInv'
<1>1. /\ r'.listed = infra /\ r'.desired = r.desired /\ r'.create = r.create
      /\ r'.update = r.update /\ r'.delete = r.delete /\ r'.svc = r.svc
      /\ r'.unneeded = unneeded(r.svc, r.gone, infra)
      /\ r'.pc = IF r.gone THEN "finalize" ELSE "listTenant"
  BY DEF Lists, TypeOK, Frame
<1>2. NoPlan
  BY DEF Lists, Apart
<1>3. Distinct(infra)'
  BY DEF SliceInv, Distinct, At
<1>4. r'.pc = "listTenant" => r.gone = FALSE
  BY <1>1 DEF TypeOK, Frame
<1>5. ListingHolds'
  <2>1. Distinct(r.listed)'
    BY <1>1 DEF SliceInv, Distinct, At
  <2>2. \A i \in Names, a \in Nodes : At(infra, i, a)' => At(r.listed, i, a)'
    BY <1>1 DEF At
  <2>3. r'.pc = "listTenant" => r'.unneeded = unneeded(r'.svc, FALSE, r'.listed)
    BY <1>1, <1>4
  <2>4. HasListed' => r'.pc = "listTenant"
    BY <1>1 DEF HasListed
  <2> QED BY <2>1, <2>2, <2>3, <2>4 DEF ListingHolds
<1>6. NoPlan'
  BY <1>1, <1>2 DEF NoPlan
<1>7. CreateHolds' /\ UpdateHolds'
  BY <1>6, NoAddrs DEF NoPlan, CreateHolds, UpdateHolds
<1>8. DeleteHolds'
  <2>1. r'.delete \cup r'.unneeded \subseteq unneeded(r.svc, r.gone, infra)
    BY <1>1, <1>2 DEF NoPlan
  <2>2. \A i \in r'.delete \cup r'.unneeded : r'.listed[i] # Absent
    BY <1>1, <2>1 DEF unneeded
  <2> QED BY <1>6, <2>2, NoAddrs DEF DeleteHolds, NoPlan
<1> QED BY <1>3, <1>5, <1>7, <1>8 DEF SliceInv

(* Without policy Local, a Service with a selector has no nodes looked up. *)
LEMMA SlicesCollected ==
    ASSUME TypeOK, NoLocal, SliceInv, Collects, UNCHANGED infra
    PROVE  SliceInv'
<1>1. /\ r'.listed = r.listed /\ r'.svc = r.svc /\ r'.unneeded = r.unneeded
      /\ r'.pc = "lookup" /\ (r.svc.mode = "cluster" => r'.nodes = {})
  BY DEF Collects, TypeOK, Frame
<1>2. Distinct(infra)'
  BY DEF SliceInv, Distinct, At
<1>3. /\ Distinct(r.listed) /\ r.unneeded = unneeded(r.svc, FALSE, r.listed)
      /\ \A i \in Names, a \in Nodes : At(infra, i, a) => At(r.listed, i, a)
  BY DEF Collects, SliceInv, ListingHolds, HasListed
<1>4. Distinct(r.listed)'
  BY <1>1, <1>3 DEF Distinct, At
<1>5. \A i \in Names, a \in Nodes : At(infra, i, a)' => At(r.listed, i, a)'
  BY <1>1, <1>3 DEF At
<1>6. r'.unneeded = unneeded(r'.svc, FALSE, r'.listed)
  BY <1>1, <1>3
<1>7. r'.svc.mode # "none" => r'.nodes = {}
  <2>1. r.svc.mode \in {"none", "cluster"}
    BY DEF TypeOK, Frame, Service, Mode, NoLocal
  <2> QED BY <1>1, <2>1
<1> QED BY <1>1, <1>2, <1>4, <1>5, <1>6, <1>7 DEF SliceInv, ListingHolds, HasListed

(* The plan: what it writes is in no other slice, what it deletes is not   *)
(* wanted.                                                                 *)
LEMMA SlicesPlanned ==
    ASSUME TypeOK, Apart, NoLocal, SliceInv, Plans, UNCHANGED infra
    PROVE  SliceInv'
<1>1. PICK unread :
        \E place \in placements(r.svc, r.listed, getDesiredEndpoints(unread)) :
           r' = Planned(getDesiredEndpoints(unread), place)
  BY DEF Plans
<1> DEFINE desired == getDesiredEndpoints(unread)
<1>2. /\ Addrs(desired) \subseteq r.nodes /\ Addrs(desired) \subseteq Nodes
      /\ \A d, e \in desired : d.addr = e.addr => d = e
  <2>1. Addrs(desired) \subseteq r.nodes /\ \A d, e \in desired : d.addr = e.addr => d = e
    BY DesiredParts
  <2> QED BY <2>1 DEF TypeOK, Frame
<1>3. PICK place \in placements(r.svc, r.listed, desired) : r' = Planned(desired, place)
  BY <1>1
<1> HIDE DEF desired
<1> DEFINE inside(t) == contents(r.svc, r.listed, desired, place, t)
           update == toUpdate(r.svc, r.listed, desired, place)
<1>4. /\ r'.pc = "finalize" /\ r'.desired = desired
      /\ r'.create = given(place, NewSlice)
      /\ \A i \in Names : r'.update[i] = IF i \in update THEN inside(i) ELSE {}
      /\ r'.delete = toDelete(r.svc, r.listed, desired)
      /\ r'.unneeded = r.unneeded /\ r'.listed = r.listed
  BY <1>3, PlannedParts
<1>5. /\ Distinct(r.listed) /\ r.unneeded = unneeded(r.svc, FALSE, r.listed)
      /\ \A i \in Names, a \in Nodes : At(infra, i, a) => At(r.listed, i, a)
      /\ r.svc.mode # "none" => r.nodes = {}
  BY DEF Plans, SliceInv, ListingHolds, HasListed
<1>6. \A i \in Names, a \in Nodes : At(infra, i, a)' => At(r.listed, i, a)
  BY <1>5 DEF At
<1>7. NewSlice \notin Names
  BY PlanConstants DEF Names, NewSlice
<1>8. Distinct(infra)'
  BY DEF SliceInv, Distinct, At
<1>9. /\ toDelete(r.svc, r.listed, desired) \subseteq existing(r.svc, r.listed)
      /\ update \subseteq existing(r.svc, r.listed)
      /\ update \cap toDelete(r.svc, r.listed, desired) = {}
      /\ \A t : inside(t) \subseteq desired
      /\ given(place, NewSlice) \subseteq desired
  BY PlanParts
<1>10. \A i \in existing(r.svc, r.listed) :
          r.listed[i] # Absent /\ r.listed[i].supported /\ i \in Names
  BY DEF existing
<1>11. \A i \in Names : \A a : At(r.listed, i, a)' <=> At(r.listed, i, a)
  BY <1>4 DEF At
<1>12. CASE r.svc.mode = "none"
  <2>1. \A e \in desired : e.addr \in Nodes
    BY <1>2 DEF Addrs
  <2>2. /\ \A e \in desired, i \in Names :
              At(r.listed, i, e.addr) => e \in covered(r.svc, r.listed, desired, i)
        /\ \A t \in update \cup {NewSlice}, i \in Names : \A e \in inside(t) :
              At(r.listed, i, e.addr) => i = t
        /\ \A s, t \in update \cup {NewSlice} :
              \A e \in inside(s) : e \in inside(t) => s = t
    BY <1>2, <1>5, <1>12, OnePlace
  <2>3. given(place, NewSlice) = inside(NewSlice)
    BY <1>7 DEF contents
  <2>4. \A i \in Names : covered(r.svc, r.listed, desired, i) \subseteq inside(i)
    BY DEF contents
  <2> HIDE DEF inside, update
  <2>5. CreateHolds'
    <3> SUFFICES ASSUME NEW a \in Addrs(r'.create), NEW j \in Names
                 PROVE  ~At(infra, j, a)' /\ a \notin Addrs(r'.update[j])
      BY DEF CreateHolds
    <3>1. PICK e \in inside(NewSlice) : e.addr = a
      BY <1>4, <2>3, AddrsOf
    <3>2. e \in desired /\ a \in Nodes
      BY <1>9, <2>1, <3>1
    <3>3. ~At(infra, j, a)'
      BY <1>6, <1>7, <2>2, <3>1, <3>2
    <3>4. ASSUME a \in Addrs(r'.update[j]) PROVE FALSE
      <4>1. PICK d \in r'.update[j] : d.addr = a
        BY <3>4, AddrsOf
      <4>2. j \in update /\ d \in inside(j)
        BY <1>4, <4>1
      <4>3. d = e
        BY <1>2, <1>9, <3>1, <3>2, <4>1, <4>2
      <4> QED BY <1>7, <2>2, <3>1, <4>2, <4>3
    <3> QED BY <3>3, <3>4
  <2>6. UpdateHolds'
    <3>1. ASSUME NEW i \in Names, NEW j \in Names, NEW a \in Addrs(r'.update[i]),
                 At(infra, j, a)' \/ a \in Addrs(r'.update[j])
          PROVE  i = j
      <4>1. PICK e \in r'.update[i] : e.addr = a
        BY AddrsOf
      <4>2. i \in update /\ e \in inside(i)
        BY <1>4, <4>1
      <4>3. e \in desired /\ a \in Nodes
        BY <1>9, <2>1, <4>1, <4>2
      <4>4. CASE At(infra, j, a)'
        BY <1>6, <2>2, <4>1, <4>2, <4>3, <4>4
      <4>5. CASE a \in Addrs(r'.update[j])
        <5>1. PICK d \in r'.update[j] : d.addr = a
          BY <4>5, AddrsOf
        <5>2. j \in update /\ d \in inside(j)
          BY <1>4, <5>1
        <5>3. d = e
          BY <1>2, <1>9, <4>1, <4>3, <5>1, <5>2
        <5> QED BY <2>2, <4>2, <5>2, <5>3
      <4> QED BY <3>1, <4>4, <4>5
    <3>2. ASSUME NEW i \in Names, NEW a \in Addrs(r'.desired), r'.update[i] # {},
                 At(r.listed, i, a)'
          PROVE  a \in Addrs(r'.update[i])
      <4>1. PICK e \in desired : e.addr = a
        BY <1>4, AddrsOf
      <4>2. At(r.listed, i, e.addr)
        BY <1>11, <3>2, <4>1
      <4>3. e \in inside(i)
        BY <2>2, <2>4, <4>2
      <4>4. r'.update[i] = inside(i)
        BY <1>4, <3>2
      <4> QED BY <4>1, <4>3, <4>4, AddrsOf
    <3>3. ASSUME NEW i \in Names, r'.update[i] # {}
          PROVE  r'.listed[i] # Absent /\ i \notin r'.delete \cup r'.unneeded
      <4>1. i \in update
        BY <1>4, <3>3
      <4>2. i \in existing(r.svc, r.listed) /\ i \notin toDelete(r.svc, r.listed, desired)
        BY <1>9, <4>1
      <4>3. i \notin unneeded(r.svc, FALSE, r.listed)
        BY <1>10, <1>12, <4>2 DEF unneeded
      <4> QED BY <1>4, <1>5, <1>10, <4>2, <4>3
    <3> QED BY <3>1, <3>2, <3>3 DEF UpdateHolds
  <2>7. DeleteHolds'
    <3> SUFFICES ASSUME NEW i \in r'.delete \cup r'.unneeded
                 PROVE  /\ r'.listed[i] # Absent
                        /\ \A a \in Addrs(r'.desired) : ~At(infra, i, a)'
      BY DEF DeleteHolds
    <3>1. i \in Names /\ r.listed[i] # Absent
      BY <1>4, <1>5, <1>9, <1>10 DEF unneeded
    <3>2. ASSUME NEW a \in Addrs(r'.desired), At(infra, i, a)' PROVE FALSE
      <4>1. PICK e \in desired : e.addr = a
        BY <1>4, AddrsOf
      <4>2. At(r.listed, i, a)
        BY <1>6, <2>1, <3>1, <3>2, <4>1
      <4>3. e \in covered(r.svc, r.listed, desired, i)
        BY <2>2, <3>1, <4>1, <4>2
      <4>4. i \notin toDelete(r.svc, r.listed, desired)
        BY <4>3 DEF toDelete
      <4>5. i \notin unneeded(r.svc, FALSE, r.listed)
        BY <1>12, <4>2 DEF unneeded, At
      <4> QED BY <1>4, <1>5, <4>4, <4>5
    <3> QED BY <1>4, <3>1, <3>2
  <2> QED BY <1>4, <1>8, <2>5, <2>6, <2>7 DEF SliceInv, ListingHolds, HasListed
<1>13. CASE r.svc.mode # "none"
  <2>1. desired = {}
    <3>1. Addrs(desired) = {}
      BY <1>2, <1>5, <1>13
    <3>2. \A e \in desired : e.addr \in Addrs(desired)
      BY DEF Addrs
    <3> QED BY <3>1, <3>2
  <2>2. /\ r'.desired = {} /\ r'.create = {} /\ \A i \in Names : r'.update[i] = {}
    BY <1>4, <1>9, <2>1
  <2>3. existing(r.svc, r.listed) = {}
    BY <1>13 DEF existing
  <2>4. \A i \in r'.delete \cup r'.unneeded : r'.listed[i] # Absent
    BY <1>4, <1>5, <1>9, <2>3 DEF unneeded
  <2>5. CreateHolds' /\ UpdateHolds' /\ DeleteHolds'
    BY <2>2, <2>4, NoAddrs DEF CreateHolds, UpdateHolds, DeleteHolds
  <2> QED BY <1>4, <1>8, <2>5 DEF SliceInv, ListingHolds, HasListed
<1> QED BY <1>12, <1>13
LEMMA SlicesRefused ==
    ASSUME TypeOK, SliceInv, Refused, UNCHANGED infra
    PROVE  SliceInv'
<1>1. /\ r'.desired = r.desired /\ r'.create = {} /\ r'.pc = "finalize"
      /\ r'.delete = {} /\ r'.unneeded = r.unneeded /\ r'.listed = r.listed
      /\ \A i \in Names : r'.update[i] = {}
  BY IdleFrame DEF Refused, TypeOK, Frame
<1>2. Distinct(infra)'
  BY DEF SliceInv, Distinct, At
<1>3. DeleteHolds
  BY DEF SliceInv, Refused
<1>4. CreateHolds' /\ UpdateHolds'
  BY <1>1, NoAddrs DEF CreateHolds, UpdateHolds
<1>5. DeleteHolds'
  BY <1>1, <1>3 DEF DeleteHolds, At
<1> QED BY <1>1, <1>2, <1>4, <1>5 DEF SliceInv, ListingHolds, HasListed

LEMMA SlicesCreated ==
    ASSUME TypeOK, Apart, SliceInv, NEW i \in Names, Creates(i),
           r' = [r EXCEPT !.create = {}]
    PROVE  SliceInv'
<1>1. /\ r'.desired = r.desired /\ r'.create = {} /\ r'.pc = "finalize"
      /\ r'.delete = r.delete /\ r'.unneeded = r.unneeded /\ r'.listed = r.listed
      /\ r'.update = r.update
  BY DEF Creates, TypeOK, Frame
<1>2. Distinct(infra)'
  BY DistinctWrites
<1>3. \A j \in Names, a \in Nodes :
         At(infra, j, a)' => At(infra, j, a) \/ (j = i /\ a \in Addrs(r.create))
  BY CreatesParts
<1>4. /\ CreateHolds /\ UpdateHolds /\ DeleteHolds
      /\ Addrs(r.desired) \subseteq Nodes
      /\ \A j \in Names : Addrs(r.update[j]) \subseteq Nodes
  BY DEF SliceInv, Apart, Creates
<1>5. r.listed[i] = Absent
  BY DEF Creates
<1>6. CreateHolds'
  BY <1>1, NoAddrs DEF CreateHolds
<1>7. UpdateHolds'
  <2>1. \A k, j \in Names : \A a \in Addrs(r'.update[k]) :
            At(infra, j, a)' \/ a \in Addrs(r'.update[j]) => k = j
    BY <1>1, <1>3, <1>4 DEF UpdateHolds, CreateHolds
  <2>2. \A k \in Names : \A a : At(r.listed, k, a)' <=> At(r.listed, k, a)
    BY <1>1 DEF At
  <2> QED BY <1>1, <1>4, <2>1, <2>2 DEF UpdateHolds
<1>8. DeleteHolds'
  <2>1. r.delete \cup r.unneeded \subseteq Names
    BY DEF TypeOK, Frame
  <2>2. i \notin r.delete \cup r.unneeded
    BY <1>4, <1>5 DEF DeleteHolds
  <2> QED BY <1>1, <1>3, <1>4, <2>1, <2>2 DEF DeleteHolds
<1> QED BY <1>1, <1>2, <1>6, <1>7, <1>8 DEF SliceInv, ListingHolds, HasListed

LEMMA SlicesUpdated ==
    ASSUME TypeOK, Apart, SliceInv, NEW i \in Names, Updates(i),
           r' = [r EXCEPT !.update[i] = {}]
    PROVE  SliceInv'
<1>1. /\ r'.desired = r.desired /\ r'.create = r.create /\ r'.pc = "finalize"
      /\ r'.delete = r.delete /\ r'.unneeded = r.unneeded /\ r'.listed = r.listed
      /\ \A j \in Names : r'.update[j] = IF j = i THEN {} ELSE r.update[j]
  BY DEF Updates, TypeOK, Frame
<1>2. Distinct(infra)'
  BY DistinctWrites
<1>3. \A j \in Names, a \in Nodes :
         At(infra, j, a)' => IF j = i THEN a \in Addrs(r.update[i]) ELSE At(infra, j, a)
  BY UpdatesParts
<1>4. /\ CreateHolds /\ UpdateHolds /\ DeleteHolds
      /\ Addrs(r.desired) \subseteq Nodes /\ Addrs(r.create) \subseteq Nodes
      /\ \A j \in Names : Addrs(r.update[j]) \subseteq Nodes
  BY DEF SliceInv, Apart, Updates
<1>5. r.update[i] # {}
  BY DEF Updates
<1>6. CreateHolds'
  BY <1>1, <1>3, <1>4, NoAddrs DEF CreateHolds
<1>7. UpdateHolds'
  <2>1. ASSUME NEW k \in Names, NEW j \in Names, NEW a \in Addrs(r'.update[k]),
               At(infra, j, a)' \/ a \in Addrs(r'.update[j])
        PROVE  k = j
    <3>1. k # i /\ a \in Addrs(r.update[k]) /\ a \in Nodes
      BY <1>1, <1>4, NoAddrs
    <3>2. At(infra, j, a) \/ a \in Addrs(r.update[j])
      BY <1>1, <1>3, <2>1, <3>1, NoAddrs
    <3> QED BY <1>4, <3>1, <3>2 DEF UpdateHolds
  <2>2. \A k \in Names : \A a : At(r.listed, k, a)' <=> At(r.listed, k, a)
    BY <1>1 DEF At
  <2> QED BY <1>1, <1>4, <2>1, <2>2 DEF UpdateHolds
<1>8. DeleteHolds'
  <2>1. r.delete \cup r.unneeded \subseteq Names
    BY DEF TypeOK, Frame
  <2>2. i \notin r.delete \cup r.unneeded
    BY <1>4, <1>5 DEF UpdateHolds
  <2> QED BY <1>1, <1>3, <1>4, <2>1, <2>2 DEF DeleteHolds
<1> QED BY <1>1, <1>2, <1>6, <1>7, <1>8 DEF SliceInv, ListingHolds, HasListed

LEMMA SlicesRemoved ==
    ASSUME TypeOK, Apart, SliceInv, NEW i \in Names, Removes(i)
    PROVE  SliceInv'
<1>1. /\ r'.desired = r.desired /\ r'.create = r.create /\ r'.pc = "finalize"
      /\ r'.delete \subseteq r.delete /\ r'.unneeded \subseteq r.unneeded
      /\ r'.listed = r.listed /\ r'.update = r.update
  BY DEF Removes, Erases, TypeOK, Frame
<1>2. AddsNoNode
  BY DEF Removes, Erases, AddsNoNode
<1>3. Distinct(infra)'
  BY <1>2, DistinctBeside DEF SliceInv
<1>4. \A j \in Names, a \in Nodes : At(infra, j, a)' => At(infra, j, a)
  BY <1>2, NodesOnly
<1>5. /\ CreateHolds /\ UpdateHolds /\ DeleteHolds
      /\ Addrs(r.desired) \subseteq Nodes /\ Addrs(r.create) \subseteq Nodes
      /\ \A j \in Names : Addrs(r.update[j]) \subseteq Nodes
  BY DEF SliceInv, Apart, Removes, Erases
<1>6. CreateHolds'
  BY <1>1, <1>4, <1>5 DEF CreateHolds
<1>7. UpdateHolds'
  <2>1. \A k \in Names : \A a : At(r.listed, k, a)' <=> At(r.listed, k, a)
    BY <1>1 DEF At
  <2> QED BY <1>1, <1>4, <1>5, <2>1 DEF UpdateHolds
<1>8. DeleteHolds'
  <2>1. r.delete \cup r.unneeded \subseteq Names
    BY DEF TypeOK, Frame
  <2> QED BY <1>1, <1>4, <1>5, <2>1 DEF DeleteHolds
<1> QED BY <1>1, <1>3, <1>6, <1>7, <1>8 DEF SliceInv, ListingHolds, HasListed

LEMMA SlicesStep == TypeOK /\ Apart /\ NoLocal /\ SliceInv /\ [Next]_vars => SliceInv'
<1> SUFFICES ASSUME TypeOK, Apart, NoLocal, SliceInv, [Next]_vars PROVE SliceInv'
  OBVIOUS
<1>1. CASE r' = r /\ AddsNoNode
  BY <1>1, SlicesBeside
<1>2. CASE GivesUp /\ (AddsNoNode \/ \E i \in Names : Creates(i) \/ Updates(i))
  <2>1. Distinct(infra)'
    BY <1>2, DistinctBeside, DistinctWrites DEF SliceInv
  <2> QED BY <1>2, <2>1, SlicesGivenUp
<1>3. CASE UNCHANGED infra /\ Starts
  <2>1. r'.pc = "listInfra"
    BY <1>3, FixedValues DEF Starts, Frame
  <2>2. Distinct(infra)'
    BY <1>3 DEF SliceInv, Distinct, At
  <2> QED BY <2>1, <2>2 DEF SliceInv, ListingHolds, HasListed
<1> QED BY <1>1, <1>2, <1>3, Moves, SlicesListed, SlicesCollected, SlicesPlanned,
           SlicesRefused, SlicesCreated, SlicesUpdated, SlicesRemoved

LEMMA SlicesHold ==
    ASSUME "local" \notin Modes
    PROVE  Spec => [](TypeOK /\ Apart /\ NoLocal /\ SliceInv)
<1>1. Init => TypeOK /\ Apart /\ NoLocal /\ SliceInv
  BY InitType, InitApart, InitNoLocal, InitSlices
<1>2. (TypeOK /\ Apart /\ NoLocal /\ SliceInv) /\ [Next]_vars
          => (TypeOK /\ Apart /\ NoLocal /\ SliceInv)'
  BY TypeStep, ApartStep, NoLocalStep, SlicesStep
<1> QED BY <1>1, <1>2, PTL DEF Spec

(* No address is in two slices of the Service, for any limit and numbers   *)
(* of nodes and slices, whatever fails, is lost, restarted or changed      *)
(* between the listing and the last write of finalize.  Policy Local is    *)
(* left out: there every reconcile makes a new slice before it deletes the *)
(* old one.                                                                *)
THEOREM NoAddressTwice ==
    ASSUME "local" \notin Modes
    PROVE  Spec => []NoDuplicate
<1>1. TypeOK /\ Apart /\ SliceInv => NoDuplicate
  <2> SUFFICES ASSUME TypeOK, Apart, SliceInv, NEW i \in Managed, NEW j \in Managed, i # j,
                      NEW a \in Addrs(infra[i].eps), a \in Addrs(infra[j].eps)
               PROVE  FALSE
    BY DEF NoDuplicate
  <2>1. i \in Names /\ j \in Names /\ a \in Nodes
    BY DEF Managed, Apart, Separate
  <2>2. At(infra, i, a) /\ At(infra, j, a)
    BY DEF Managed, At
  <2> QED BY <2>1, <2>2 DEF SliceInv, Distinct
<1> QED BY <1>1, SlicesHold, PTL

(* No write of the worker takes an address out of service that its         *)
(* reconcile wants there: an update keeps every wanted address its slice   *)
(* lists, and a slice that is deleted holds none, even though the deletion *)
(* carries no version.  Policy Local is left out: its old slice goes even  *)
(* when the namespace refused the new one.                                 *)
THEOREM NoWriteLeavesGap ==
    ASSUME "local" \notin Modes
    PROVE  Spec => NoGap
<1> DEFINE Keeps == \A e \in r.desired :
              r.pc = "finalize" /\ r' # r /\ e.addr \in Served => e.addr \in Served'
<1>1. TypeOK /\ Apart /\ SliceInv /\ [Next]_vars => Keeps
  <2> SUFFICES ASSUME TypeOK, Apart, SliceInv, [Next]_vars, NEW e \in r.desired,
                      r.pc = "finalize", r' # r, e.addr \in Served
               PROVE  e.addr \in Served'
    OBVIOUS
  <2>1. PICK k \in Managed : e.addr \in Addrs(infra[k].eps)
    BY DEF Served
  <2>2. k \in Names /\ At(infra, k, e.addr) /\ infra[k].managed
    BY <2>1 DEF Managed, At
  <2>3. e.addr \in Addrs(r.desired)
    BY DEF Addrs
  <2>4. e.addr \in Nodes /\ UpdateHolds /\ DeleteHolds
    BY <2>3 DEF Apart, SliceInv
  <2>5. ASSUME NEW j \in Names, At(infra, j, e.addr)', infra'[j].managed
        PROVE  e.addr \in Served'
    BY <2>5 DEF Served, Managed, At
  <2>6. infra'[k] = infra[k] => e.addr \in Served'
    BY <2>2, <2>5 DEF At
  <2>7. ASSUME NEW i \in Names, Creates(i) PROVE e.addr \in Served'
    <3>1. k # i
      BY <2>2, <2>7 DEF Creates, At
    <3> QED BY <2>2, <2>6, <2>7, <3>1, CreatesParts
  <2>8. ASSUME NEW i \in Names, Updates(i) PROVE e.addr \in Served'
    <3>1. CASE k # i
      BY <2>2, <2>6, <2>8, <3>1, UpdatesParts
    <3>2. CASE k = i
      <4>1. At(r.listed, i, e.addr) /\ r.update[i] # {}
        BY <2>2, <2>8, <3>2 DEF Updates, At
      <4>2. e.addr \in Addrs(r.update[i])
        BY <2>3, <2>4, <4>1 DEF UpdateHolds
      <4>3. infra'[i].eps = r.update[i] /\ infra'[i].managed /\ infra'[i].supported
        BY <2>2, <2>8, <3>2, UpdatesParts DEF At
      <4>4. infra'[i] # Absent
        <5>1. infra[i] \in Slice /\ r.update[i] \subseteq Endpoint /\ r.svc.spec \in Specs
          BY <2>8 DEF Updates, TypeOK, Listing, Frame, Service
        <5>2. [infra[i] EXCEPT !.eps = r.update[i], !.managed = TRUE, !.spec = r.svc.spec]
                  \in Slice
          BY <5>1 DEF Slice
        <5> QED BY ZenonT(30), <2>8, <5>2, UpdatesParts, AbsentIsNoSlice
      <4> QED BY <2>5, <4>2, <4>3, <4>4 DEF At
    <3> QED BY <3>1, <3>2
  <2>9. ASSUME NEW i \in Names, Erases(i) PROVE e.addr \in Served'
    <3>1. i \in r.delete \cup r.unneeded
      BY <2>9 DEF Erases, toRemove
    <3>2. k # i
      BY <2>2, <2>3, <2>4, <3>1 DEF DeleteHolds
    <3>3. infra'[k] = infra[k]
      BY <2>2, <2>9, <3>2 DEF Erases, Vanishes, TypeOK, Listing
    <3> QED BY <2>6, <3>3
  <2>10. CASE UNCHANGED infra
    BY <2>6, <2>10
  <2> QED BY <2>7, <2>8, <2>9, <2>10, FineMoves DEF Removes
<1> QED BY <1>1, SlicesHold, PTL DEF Spec, NoGap
-----------------------------------------------------------------------------
(* Cleaning up after a Service that is gone.                               *)

(* The slices labelled as this controller's.                               *)
Ours == {i \in Names : infra[i] # Absent /\ infra[i].managed}

(* A request with n retries behind it survives f faults still to come and  *)
(* the loss of k slices under its hands.                                   *)
Enough(n, f, k) == n + f + k <= MaxRetries

Waiting(waiting, f, k) ==
    \E x \in 1..Len(waiting) : waiting[x][1] = "svc" /\ Enough(waiting[x][2], f, k)

(* A reconcile that still takes the Service for present.                   *)
InFlight ==
    r.pc \in {"listInfra", "listTenant", "lookup", "finalize"} /\ ~r.gone

(* A reconcile that knows it is gone, and can be done again if it fails.   *)
Sweeping ==
    /\ r.gone
    /\ \/ r.pc = "listInfra" /\ Enough(r.req[2], faults, Cardinality(Ours))
       \/ /\ r.pc = "finalize" /\ Ours \subseteq r.unneeded
          /\ Enough(r.req[2], faults, Cardinality(r.unneeded))

(* The lister lags behind the Service: a Service is never taken for one    *)
(* deleted earlier.                                                        *)
CacheLags ==
    /\ svc.deleting => svc.present
    /\ cached.uid <= svc.uid
    /\ cached.uid = svc.uid /\ svc.present => cached.present

FrameFits ==
    /\ r.pc \in {"listInfra", "listTenant", "lookup", "finalize"} => r.req[1] = "svc"
    /\ r.gone /\ r.pc \in {"listInfra", "finalize"} => NoPlan
    /\ r.gone => r.pc \notin {"listTenant", "lookup"}

SweepAhead ==
    /\ InFlight => Waiting(queue, faults, NumNames)
    /\ ~InFlight /\ Ours # {} => Waiting(queue, faults, Cardinality(Ours)) \/ Sweeping

Swept == ~restarted /\ ~svc.present /\ cached = svc /\ Up => SweepAhead

CleanInv == faults <= MaxFaults /\ CacheLags /\ FrameFits /\ Swept
LEMMA NamesCount ==
    ASSUME NEW S \in SUBSET Names
    PROVE  /\ IsFiniteSet(S) /\ Cardinality(S) \in Nat /\ Cardinality(S) <= NumNames
           /\ \A T \in SUBSET S : Cardinality(T) \in Nat /\ Cardinality(T) <= Cardinality(S)
           /\ \A i \in S : Cardinality(S \ {i}) + 1 = Cardinality(S)
<1>1. NumNames \in Nat /\ 1 \in Int /\ NumNames \in Int
  BY PlanConstants
<1>2. IsFiniteSet(Names) /\ Cardinality(Names) = NumNames
  BY <1>1, FS_Interval DEF Names
<1>3. IsFiniteSet(S) /\ Cardinality(S) <= NumNames
  BY <1>2, FS_Subset
<1>4. Cardinality(S) \in Nat
  BY <1>3, FS_CardinalityType
<1>5. \A T \in SUBSET S : Cardinality(T) \in Nat /\ Cardinality(T) <= Cardinality(S)
  BY <1>3, FS_Subset, FS_CardinalityType
<1>6. ASSUME NEW i \in S PROVE Cardinality(S \ {i}) + 1 = Cardinality(S)
  <2>1. Cardinality(S \ {i}) = Cardinality(S) - 1
    BY <1>3, FS_RemoveElement
  <2> QED BY <1>4, <2>1
<1> QED BY <1>3, <1>4, <1>5, <1>6

LEMMA OursBeside ==
    ASSUME TypeOK, AddsNoNode PROVE Ours' \subseteq Ours
<1>1. infra \in Listing
  BY DEF TypeOK
<1>2. CASE UNCHANGED infra
  BY <1>2 DEF Ours
<1>3. ASSUME NEW j \in Names, Vanishes(j) PROVE Ours' \subseteq Ours
  BY <1>1, <1>3 DEF Vanishes, Ours, Listing
<1>4. ASSUME NEW j \in Names, Loses(j) PROVE Ours' \subseteq Ours
  <2>1. PICK rest \in SUBSET infra[j].eps :
            infra' = [infra EXCEPT ![j] = [infra[j] EXCEPT !.eps = rest]]
    BY <1>4 DEF Loses
  <2>2. infra[j] \in Slice /\ infra[j] # Absent
    BY <1>1, <1>4 DEF Loses, Listing
  <2>3. infra'[j].managed = infra[j].managed
    BY <1>1, <2>1, <2>2 DEF Listing, Slice
  <2>4. \A i \in Names \ {j} : infra'[i] = infra[i]
    BY <1>1, <2>1 DEF Listing
  <2> QED BY <2>2, <2>3, <2>4 DEF Ours
<1>5. ASSUME NEW j \in Names, Arrives(j) PROVE Ours' \subseteq Ours
  <2>1. ~infra'[j].managed /\ \A i \in Names \ {j} : infra'[i] = infra[i]
    BY <1>1, <1>5 DEF Arrives, Listing
  <2> QED BY <2>1 DEF Ours
<1> QED BY <1>2, <1>3, <1>4, <1>5 DEF AddsNoNode

(* Faults are used up, never gained.                                       *)
LEMMA FaultsFall ==
    ASSUME TypeOK, [Next]_vars
    PROVE  faults' \in Nat /\ faults' <= faults
<1>1. faults \in Nat
  BY DEF TypeOK
<1>2. Worker => faults' \in Nat /\ faults' <= faults
  <2>1. Take \/ reconcileDone => faults' = faults
    BY DEF Take, reconcileDone
  <2>2. getInfraEPSFromInfraService \/ getTenantEPSFromInfraService
            => faults' \in Nat /\ faults' <= faults
    BY <1>1 DEF getInfraEPSFromInfraService, getTenantEPSFromInfraService, Fault, NoFault
  <2>3. reconcileByAddressType => faults' \in Nat /\ faults' <= faults
    BY <1>1 DEF reconcileByAddressType, Fault, NoFault
  <2>4. newSlice => faults' \in Nat /\ faults' <= faults
    BY <1>1 DEF newSlice, Fault, NoFault
  <2>5. \A i \in Names : updateSlice(i) => faults' \in Nat /\ faults' <= faults
    BY <1>1 DEF updateSlice, Fault, NoFault
  <2>6. \A i \in Names : deleteSlice(i) => faults' \in Nat /\ faults' <= faults
    BY <1>1 DEF deleteSlice, Fault, NoFault
  <2> QED BY <1>1, <2>1, <2>2, <2>3, <2>4, <2>5, <2>6 DEF Worker
<1>3. Restart \/ ServiceHandler => faults' \in Nat /\ faults' <= faults
  BY <1>1 DEF Restart, ServiceHandler, Fault, NoFault
<1>4. \A s \in TenantSlices : TenantHandler(s) => faults' \in Nat /\ faults' <= faults
  BY <1>1 DEF TenantHandler, Fault, NoFault
<1>5. \A kind \in {"write", "delete"} :
          InfraHandler(kind) => faults' \in Nat /\ faults' <= faults
  BY <1>1 DEF InfraHandler, Fault, NoFault
<1>6. Environment => faults' = faults
  BY DEF Environment, TenantChange, TenantAdd, SetTenantSlice, VMIChange,
         ServiceCreate, ServiceChange, ServiceDelete, ServiceReleased, SetService,
         SliceTouched, OtherControllerAdds, SetSlice, Edit
<1>7. \A i \in Names : GarbageCollect(i) => faults' = faults
  BY DEF GarbageCollect
<1> QED BY <1>1, <1>2, <1>3, <1>4, <1>5, <1>6, <1>7 DEF Next, vars

(* Nobody but the Service's owner changes it, and a Service that is gone   *)
(* is news to the lister.                                                  *)
LEMMA ServiceMoves ==
    ASSUME TypeOK, CacheLags, [Next]_vars
    PROVE  \/ svc' = svc
           \/ /\ cached' = cached /\ r' = r
              /\ svc'.deleting => svc'.present
              /\ \/ svc'.present /\ svc'.uid = svc.uid + 1 /\ ~svc.present
                 \/ svc'.present /\ svc'.uid = svc.uid /\ svc.present
                 \/ ~svc'.present /\ svc'.uid = svc.uid /\ svc.present
<1>1. svc \in Service /\ NoService \in Service
  BY FixedValues DEF TypeOK
<1>2. \A service : SetService(service) => svc' = service /\ cached' = cached /\ r' = r
  BY DEF SetService, process
<1>3. CASE ServiceCreate
  BY <1>2, <1>3 DEF ServiceCreate
<1>4. CASE ServiceChange
  <2>1. PICK m, p : SetService([svc EXCEPT !.mode = m, !.spec = p])
    BY <1>4 DEF ServiceChange
  <2>2. /\ [svc EXCEPT !.mode = m, !.spec = p].present = svc.present
        /\ [svc EXCEPT !.mode = m, !.spec = p].uid = svc.uid
    BY <1>1 DEF Service
  <2> QED BY <1>2, <1>4, <2>1, <2>2 DEF ServiceChange
<1>5. LET gone == [NoService EXCEPT !.uid = svc.uid]
      IN  ~gone.present /\ ~gone.deleting /\ gone.uid = svc.uid
  BY DEF NoService
<1>6. CASE ServiceDelete
  <2>1. /\ [svc EXCEPT !.deleting = TRUE].present = svc.present
        /\ [svc EXCEPT !.deleting = TRUE].uid = svc.uid
    BY <1>1 DEF Service
  <2> QED BY <1>2, <1>5, <1>6, <2>1 DEF ServiceDelete
<1>7. CASE ServiceReleased
  <2>1. svc' = [NoService EXCEPT !.uid = svc.uid] /\ cached' = cached /\ r' = r /\ svc.present
    BY <1>7 DEF ServiceReleased, process, CacheLags
  <2> QED BY <1>5, <2>1
<1>8. Worker => UNCHANGED svc
  BY DEF Worker, Take, getInfraEPSFromInfraService, getTenantEPSFromInfraService,
         reconcileByAddressType, newSlice, updateSlice, deleteSlice, reconcileDone, clusters
<1>9. Restart \/ ServiceHandler => UNCHANGED svc
  BY DEF Restart, ServiceHandler, clusters
<1>10. /\ \A s \in TenantSlices : TenantHandler(s) => UNCHANGED svc
       /\ \A kind \in {"write", "delete"} : InfraHandler(kind) => UNCHANGED svc
       /\ \A i \in Names : GarbageCollect(i) => UNCHANGED svc
  BY DEF TenantHandler, InfraHandler, GarbageCollect, SetSlice, clusters
<1>11. /\ \A s \in TenantSlices : TenantChange(s) \/ TenantAdd(s) => UNCHANGED svc
       /\ \A node \in Nodes : VMIChange(node) => UNCHANGED svc
       /\ \A i \in Names : SliceTouched(i) \/ OtherControllerAdds(i) => UNCHANGED svc
  BY DEF TenantChange, TenantAdd, SetTenantSlice, VMIChange, SliceTouched,
         OtherControllerAdds, SetSlice
<1> QED BY <1>3, <1>4, <1>6, <1>7, <1>8, <1>9, <1>10, <1>11 DEF Next, Environment, vars

LEMMA CacheStep ==
    ASSUME TypeOK, TypeOK', CacheLags, [Next]_vars
    PROVE  CacheLags'
<1>1. svc.uid \in Nat /\ cached.uid \in Nat
  BY PlanConstants DEF TypeOK, Service
<1>2. CASE svc' # svc
  BY <1>1, <1>2, ServiceMoves DEF CacheLags
<1>3. CASE svc' = svc
  <2>1. cached' \in {cached, svc}
    BY CachedMoves
  <2> QED BY <1>1, <1>3, <2>1 DEF CacheLags
<1> QED BY <1>2, <1>3
(* A reconcile that knows the Service is gone never has a plan.            *)
LEMMA FrameFitsStep ==
    ASSUME TypeOK, TypeOK', Apart, FrameFits, [Next]_vars
    PROVE  FrameFits'
<1> USE DEF FrameFits
<1>1. r \in Frame /\ Idle \in Frame /\ Panic \in Frame
  BY FixedValues DEF TypeOK
<1>2. CASE r' = r
  BY <1>2 DEF NoPlan
<1>3. CASE GivesUp
  <2>1. r'.pc \in {"idle", "panic"}
    BY <1>3, IdleFrame DEF GivesUp
  <2> QED BY <2>1
<1>4. CASE Starts
  <2>1. /\ r'.pc = "listInfra" /\ r'.req = Head(queue)
        /\ r'.desired = {} /\ r'.create = {} /\ r'.delete = {}
        /\ \A i \in Names : r'.update[i] = {}
    BY <1>1, <1>4, IdleFrame DEF Starts, Frame
  <2>2. Head(queue)[1] = "svc"
    BY <1>4 DEF Starts
  <2> QED BY <2>1, <2>2 DEF NoPlan
<1>5. CASE Lists
  <2>1. /\ r'.pc = (IF r.gone THEN "finalize" ELSE "listTenant") /\ r'.req = r.req
        /\ r'.desired = r.desired /\ r'.create = r.create /\ r'.delete = r.delete
        /\ r'.update = r.update /\ r'.gone = r.gone /\ r.pc = "listInfra"
    BY <1>1, <1>5 DEF Lists, Frame
  <2> QED BY <2>1 DEF NoPlan
<1>6. CASE Collects
  <2>1. r'.pc = "lookup" /\ r'.req = r.req /\ r'.gone = r.gone /\ r.pc = "listTenant"
    BY <1>1, <1>6 DEF Collects, Frame
  <2> QED BY <2>1
<1>7. CASE Plans
  <2>1. r'.pc = "finalize" /\ r'.req = r.req /\ r'.gone = r.gone /\ r.pc = "lookup"
    <3>1. PICK unread :
            \E place \in placements(r.svc, r.listed, getDesiredEndpoints(unread)) :
               r' = Planned(getDesiredEndpoints(unread), place)
      BY <1>7 DEF Plans
    <3>2. \A desired, place : Planned(desired, place).pc = "finalize"
                           /\ Planned(desired, place).req = r.req
                           /\ Planned(desired, place).gone = r.gone
      BY <1>1 DEF Planned, Frame
    <3> QED BY <1>7, <3>1, <3>2 DEF Plans
  <2> QED BY <2>1
<1>8. CASE Refused
  <2>1. /\ r'.pc = "finalize" /\ r.pc = "finalize" /\ r'.req = r.req
        /\ r'.desired = r.desired /\ r'.create = {} /\ r'.delete = {}
        /\ r'.gone = r.gone /\ \A i \in Names : r'.update[i] = {}
    BY <1>1, <1>8, IdleFrame DEF Refused, Frame
  <2> QED BY <2>1 DEF NoPlan
<1>9. ASSUME NEW i \in Names, r.pc = "finalize",
             \/ r' = [r EXCEPT !.create = {}]
             \/ r' = [r EXCEPT !.update[i] = {}]
             \/ Removes(i)
      PROVE  FrameFits'
  <2>1. /\ r'.pc = "finalize" /\ r'.req = r.req /\ r'.gone = r.gone
        /\ r'.desired = r.desired /\ r'.create \subseteq r.create
        /\ r'.delete \subseteq r.delete
        /\ \A j \in Names : r'.update[j] \in {{}, r.update[j]}
    <3>1. CASE r' = [r EXCEPT !.create = {}]
      BY <1>1, <1>9, <3>1 DEF Frame
    <3>2. CASE r' = [r EXCEPT !.update[i] = {}]
      BY <1>1, <1>9, <3>2 DEF Frame
    <3>3. CASE Removes(i)
      BY <1>1, <1>9, <3>3 DEF Removes, Frame
    <3> QED BY <1>9, <3>1, <3>2, <3>3
  <2> QED BY <1>9, <2>1 DEF NoPlan
<1> QED BY <1>2, <1>3, <1>4, <1>5, <1>6, <1>7, <1>8, <1>9, Moves
           DEF Creates, Updates, Removes, Erases
LEMMA EnoughLeft ==
    ASSUME NEW n \in Nat, NEW f \in Nat, NEW k \in Nat, NEW g \in Nat, NEW j \in Nat,
           Enough(n, f, k), g <= f, j <= k
    PROVE  Enough(n, g, j)
BY ControllerConstants DEF Enough

(* A new request can afford everything.                                    *)
LEMMA EnoughAtFirst ==
    ASSUME NEW f \in Nat, NEW g \in Nat, g <= f, f <= MaxFaults,
           MaxFaults + NumNames <= MaxRetries
    PROVE  Enough(0, g, NumNames)
BY PlanConstants, ControllerConstants DEF Enough

(* A failed attempt counts as one retry more, and costs a fault or a       *)
(* slice.                                                                  *)
LEMMA EnoughAgain ==
    ASSUME NEW n \in Nat, NEW f \in Nat, NEW k \in Nat, NEW g \in Nat, NEW j \in Nat,
           Enough(n, f, k), (g <= f /\ j < k) \/ (g < f /\ j <= k)
    PROVE  Enough(n + 1, g, j) /\ n < MaxRetries
BY ControllerConstants DEF Enough

LEMMA RequestParts ==
    ASSUME NEW q \in Request PROVE q[2] \in Nat /\ q[2] <= MaxRetries
BY ControllerConstants DEF Request

(* What waits goes on waiting when requests are added.                     *)
LEMMA WaitingKept ==
    ASSUME NEW old \in Seq(Request), NEW new,
           new = old \/ \E q : new = Append(old, q),
           NEW f \in Nat, NEW k \in Nat, NEW g \in Nat, NEW j \in Nat,
           g <= f, j <= k, Waiting(old, f, k)
    PROVE  Waiting(new, g, j)
<1>1. PICK x \in 1..Len(old) : old[x][1] = "svc" /\ Enough(old[x][2], f, k)
  BY DEF Waiting
<1>2. old[x] \in Request /\ Len(old) \in Nat
  OBVIOUS
<1>3. x \in 1..Len(new) /\ new[x] = old[x]
  BY <1>2
<1>4. Enough(old[x][2], g, j)
  BY <1>1, <1>2, RequestParts, EnoughLeft
<1> QED BY <1>1, <1>3, <1>4 DEF Waiting

LEMMA WaitingAdded ==
    ASSUME NEW old \in Seq(Request), NEW n, NEW f, NEW k, Enough(n, f, k)
    PROVE  Waiting(Append(old, <<"svc", n>>), f, k)
<1> DEFINE new == Append(old, <<"svc", n>>)
           x == Len(old) + 1
<1>1. x \in 1..Len(new) /\ new[x] = <<"svc", n>>
  OBVIOUS
<1>2. new[x][1] = "svc" /\ new[x][2] = n
  BY <1>1
<1> HIDE DEF new, x
<1>3. Waiting(new, f, k)
  BY <1>1, <1>2 DEF Waiting
<1> QED BY <1>3 DEF new

(* Taking the first request leaves the others.                             *)
LEMMA WaitingTail ==
    ASSUME NEW old \in Seq(Request), old # <<>>, NEW f, NEW k, Waiting(old, f, k)
    PROVE  \/ Waiting(Tail(old), f, k)
           \/ Head(old)[1] = "svc" /\ Enough(Head(old)[2], f, k)
<1>1. PICK x \in 1..Len(old) : old[x][1] = "svc" /\ Enough(old[x][2], f, k)
  BY DEF Waiting
<1>2. Len(old) \in Nat /\ Len(Tail(old)) = Len(old) - 1 /\ Head(old) = old[1]
  OBVIOUS
<1>3. CASE x = 1
  BY <1>1, <1>2, <1>3
<1>4. CASE x # 1
  <2>1. x - 1 \in 1..Len(Tail(old)) /\ Tail(old)[x - 1] = old[x]
    BY <1>2, <1>4
  <2> QED BY <1>1, <2>1 DEF Waiting
<1> QED BY <1>3, <1>4

QueueGrows == queue' = queue \/ \E q : queue' = Append(queue, q)
(* Only the worker takes requests out, and only a restart forgets them.    *)
LEMMA QueueMoves ==
    ASSUME TypeOK, [Next]_vars, ~Take, ~Restart
    PROVE  QueueGrows /\ restarted' = restarted
<1>1. \A waiting, req : requeue(waiting, req) =>
          queue' = waiting \/ \E q : queue' = Append(waiting, q)
  BY DEF requeue
<1>2. Failed => QueueGrows
  BY <1>1 DEF Failed, QueueGrows
<1>3. getInfraEPSFromInfraService \/ getTenantEPSFromInfraService
          => QueueGrows /\ restarted' = restarted
  BY <1>2 DEF getInfraEPSFromInfraService, getTenantEPSFromInfraService, QueueGrows
<1>4. reconcileByAddressType \/ reconcileDone => QueueGrows /\ restarted' = restarted
  BY DEF reconcileByAddressType, reconcileDone, QueueGrows
<1>5. newSlice => QueueGrows /\ restarted' = restarted
  BY <1>2 DEF newSlice, QueueGrows
<1>6. \A i \in Names : updateSlice(i) => QueueGrows /\ restarted' = restarted
  BY <1>2 DEF updateSlice, QueueGrows
<1>7. \A i \in Names : deleteSlice(i) => QueueGrows /\ restarted' = restarted
  BY <1>2 DEF deleteSlice, QueueGrows
<1>8. \A kind : Enqueue(kind) => QueueGrows
  BY DEF Enqueue, QueueGrows
<1>9. ServiceHandler => QueueGrows /\ restarted' = restarted
  BY <1>8 DEF ServiceHandler, QueueGrows
<1>10. \A s \in TenantSlices : TenantHandler(s) => QueueGrows /\ restarted' = restarted
  BY <1>8 DEF TenantHandler, QueueGrows
<1>11. \A kind \in {"write", "delete"} :
          InfraHandler(kind) => QueueGrows /\ restarted' = restarted
  BY <1>8 DEF InfraHandler, QueueGrows
<1>12. Environment => queue' = queue /\ restarted' = restarted
  BY DEF Environment, TenantChange, TenantAdd, SetTenantSlice, VMIChange,
         ServiceCreate, ServiceChange, ServiceDelete, ServiceReleased, SetService,
         SliceTouched, OtherControllerAdds, SetSlice, process
<1>13. \A i \in Names : GarbageCollect(i) => queue' = queue /\ restarted' = restarted
  BY DEF GarbageCollect, SetSlice
<1> QED BY <1>3, <1>4, <1>5, <1>6, <1>7, <1>9, <1>10, <1>11, <1>12, <1>13
           DEF Next, Worker, vars, QueueGrows

(* The numbers the counting needs.                                         *)
LEMMA Counts ==
    ASSUME TypeOK
    PROVE  /\ faults \in Nat /\ queue \in Seq(Request) /\ NumNames \in Nat
           /\ Cardinality(Ours) \in Nat /\ Cardinality(Ours) <= NumNames
           /\ Cardinality(r.unneeded) \in Nat /\ r.req[2] \in Nat
<1>1. Ours \subseteq Names /\ r.unneeded \subseteq Names /\ r.req \in Request
  BY DEF Ours, TypeOK, Frame
<1> QED BY <1>1, NamesCount, RequestParts, PlanConstants DEF TypeOK

LEMMA CountsNext ==
    ASSUME TypeOK'
    PROVE  /\ faults' \in Nat /\ queue' \in Seq(Request) /\ NumNames \in Nat
           /\ Cardinality(Ours') \in Nat /\ Cardinality(Ours') <= NumNames
           /\ Cardinality(r'.unneeded) \in Nat /\ r'.req[2] \in Nat
<1>1. Ours' \subseteq Names /\ r'.unneeded \subseteq Names /\ r'.req \in Request
  BY DEF Ours, TypeOK, Frame
<1> QED BY <1>1, NamesCount, RequestParts, PlanConstants DEF TypeOK

(* A request that can lose every slice there may be is good for all of     *)
(* them.                                                                   *)
LEMMA SweptByFresh ==
    ASSUME TypeOK', Waiting(queue', faults', NumNames)
    PROVE  SweepAhead'
<1>1. Waiting(queue', faults', Cardinality(Ours'))
  BY CountsNext, WaitingKept
<1> QED BY <1>1 DEF SweepAhead

(* A step that leaves the worker alone.                                    *)
LEMMA SweptBeside ==
    ASSUME TypeOK, TypeOK', SweepAhead, r' = r, AddsNoNode, QueueGrows,
           faults' <= faults
    PROVE  SweepAhead'
<1>1. Ours' \subseteq Ours /\ Cardinality(Ours') <= Cardinality(Ours)
  <2>1. Ours' \subseteq Ours /\ Ours \subseteq Names
    BY OursBeside DEF Ours
  <2> QED BY <2>1, NamesCount
<1>2. queue' = queue \/ \E q : queue' = Append(queue, q)
  BY DEF QueueGrows
<1>3. \A k, j \in Nat : j <= k /\ Waiting(queue, faults, k) => Waiting(queue', faults', j)
  BY <1>2, Counts, CountsNext, WaitingKept
<1>4. CASE InFlight
  BY <1>3, <1>4, Counts, SweptByFresh DEF SweepAhead
<1>5. CASE ~InFlight
  <2>1. ~InFlight'
    BY <1>5 DEF InFlight
  <2>2. SUFFICES ASSUME Ours' # {}
                 PROVE  Waiting(queue', faults', Cardinality(Ours')) \/ Sweeping'
    BY <2>1 DEF SweepAhead
  <2>3. CASE Waiting(queue, faults, Cardinality(Ours))
    BY <1>1, <1>3, <2>3, Counts, CountsNext
  <2>4. CASE Sweeping
    <3>1. CASE r.pc = "listInfra" /\ Enough(r.req[2], faults, Cardinality(Ours))
      <4>1. Enough(r.req[2], faults', Cardinality(Ours'))
        BY <1>1, <3>1, Counts, CountsNext, EnoughLeft
      <4> QED BY <2>4, <3>1, <4>1 DEF Sweeping
    <3>2. CASE /\ r.pc = "finalize" /\ Ours \subseteq r.unneeded
               /\ Enough(r.req[2], faults, Cardinality(r.unneeded))
      <4>1. Enough(r.req[2], faults', Cardinality(r.unneeded))
        <5>1. Cardinality(r.unneeded) \in Nat
                  /\ Cardinality(r.unneeded) <= Cardinality(r.unneeded)
          BY Counts
        <5> QED BY <3>2, <5>1, Counts, CountsNext, EnoughLeft
      <4> QED BY <1>1, <2>4, <3>2, <4>1 DEF Sweeping
    <3> QED BY <2>4, <3>1, <3>2 DEF Sweeping
  <2> QED BY <1>1, <1>5, <2>2, <2>3, <2>4 DEF SweepAhead
<1> QED BY <1>4, <1>5

(* The worker takes a request while the lister knows the Service is gone.  *)
LEMMA SweptTaken ==
    ASSUME TypeOK, TypeOK', SweepAhead, Take, ~cached.present
    PROVE  SweepAhead'
<1>1. queue \in Seq(Request) /\ queue # <<>> /\ r.pc = "idle" /\ faults' = faults
  BY DEF TypeOK, Take
<1>2. Ours' = Ours
  BY DEF Take, clusters, Ours
<1>3. ~InFlight /\ ~Sweeping
  BY <1>1 DEF InFlight, Sweeping
<1>4. Ours # {} => \/ Waiting(Tail(queue), faults, Cardinality(Ours))
                   \/ /\ Head(queue)[1] = "svc"
                      /\ Enough(Head(queue)[2], faults, Cardinality(Ours))
  BY <1>1, <1>3, WaitingTail DEF SweepAhead
<1>5. CASE Head(queue)[1] = "nil" /\ requeue(Tail(queue), Head(queue))
  <2>1. ~InFlight'
    BY <1>5, IdleFrame DEF requeue, InFlight
  <2>2. queue' = Tail(queue) \/ \E q : queue' = Append(Tail(queue), q)
    BY <1>5 DEF requeue
  <2>3. Tail(queue) \in Seq(Request)
    BY <1>1
  <2>4. Ours # {} => Waiting(queue', faults', Cardinality(Ours'))
    <3>1. /\ faults \in Nat /\ faults <= faults
          /\ Cardinality(Ours) \in Nat /\ Cardinality(Ours) <= Cardinality(Ours)
      BY Counts
    <3>2. Ours # {} => Waiting(Tail(queue), faults, Cardinality(Ours))
      BY <1>4, <1>5
    <3> QED BY <1>1, <1>2, <2>2, <2>3, <3>1, <3>2, WaitingKept
  <2> QED BY <1>2, <2>1, <2>4 DEF SweepAhead
<1>6. CASE /\ Head(queue)[1] = "svc" /\ queue' = Tail(queue)
           /\ r' = [Idle EXCEPT !.pc = "listInfra", !.req = Head(queue),
                                !.svc = cached, !.gone = ~cached.present]
  <2>1. r'.pc = "listInfra" /\ r'.req = Head(queue) /\ r'.gone
    BY <1>6, FixedValues DEF Frame
  <2>2. ~InFlight'
    BY <2>1 DEF InFlight
  <2>3. Ours # {} => Waiting(queue', faults', Cardinality(Ours')) \/ Sweeping'
    BY <1>1, <1>2, <1>4, <1>6, <2>1 DEF Sweeping
  <2> QED BY <1>2, <2>2, <2>3 DEF SweepAhead
<1> QED BY <1>5, <1>6 DEF Take
(* A reconcile that knows the Service is gone: every failure leaves a      *)
(* request that can go on, every deletion one slice less.                  *)
LEMMA SweptAgain ==
    ASSUME TypeOK, TypeOK', FrameFits, r.pc \in {"listInfra", "finalize"}, Failed,
           NEW k \in Nat, Enough(r.req[2], faults, k),
           \/ faults' <= faults /\ Cardinality(Ours') < k
           \/ faults' < faults /\ Cardinality(Ours') <= k
    PROVE  Waiting(queue', faults', Cardinality(Ours'))
<1>1. /\ Enough(r.req[2] + 1, faults', Cardinality(Ours')) /\ r.req[2] < MaxRetries
  BY Counts, CountsNext, EnoughAgain
<1>2. r.req[1] = "svc"
  BY DEF FrameFits
<1>3. queue' = Append(queue, <<"svc", r.req[2] + 1>>)
  BY <1>1, <1>2 DEF Failed, requeue
<1> QED BY <1>1, <1>3, Counts, WaitingAdded

LEMMA SweptListed ==
    ASSUME TypeOK, TypeOK', FrameFits, r.gone, Sweeping, getInfraEPSFromInfraService
    PROVE  Waiting(queue', faults', Cardinality(Ours')) \/ Sweeping'
<1>1. Ours' = Ours /\ r.pc = "listInfra"
  BY DEF getInfraEPSFromInfraService, clusters, Ours
<1>2. Enough(r.req[2], faults, Cardinality(Ours))
  BY <1>1 DEF Sweeping
<1>3. CASE Fault("fail") /\ Failed
  <2>1. faults' < faults /\ Cardinality(Ours') <= Cardinality(Ours)
    BY <1>1, <1>3, Counts DEF Fault
  <2> QED BY <1>1, <1>2, <1>3, <2>1, Counts, SweptAgain
<1>4. CASE /\ NoFault
           /\ r' = [r EXCEPT !.pc = IF r.gone THEN "finalize" ELSE "listTenant",
                             !.listed = infra,
                             !.unneeded = unneeded(r.svc, r.gone, infra)]
  <2>1. /\ r'.pc = "finalize" /\ r'.gone /\ r'.req = r.req
        /\ r'.unneeded = unneeded(r.svc, r.gone, infra)
    BY <1>4 DEF TypeOK, Frame
  <2>2. r'.unneeded = Ours
    BY <2>1 DEF unneeded, Ours
  <2> QED BY <1>1, <1>2, <1>4, <2>1, <2>2 DEF Sweeping, NoFault
<1> QED BY <1>3, <1>4 DEF getInfraEPSFromInfraService

LEMMA SweptDeleted ==
    ASSUME TypeOK, TypeOK', FrameFits, r.gone, Sweeping, NEW i \in Names, deleteSlice(i)
    PROVE  Waiting(queue', faults', Cardinality(Ours')) \/ Sweeping'
<1>1. r.pc = "finalize" /\ i \in toRemove
  BY DEF deleteSlice
<1>2. /\ Ours \subseteq r.unneeded /\ r.unneeded \subseteq Names
      /\ Enough(r.req[2], faults, Cardinality(r.unneeded))
  BY <1>1 DEF Sweeping, TypeOK, Frame
<1>3. r.delete = {} /\ i \in r.unneeded
  BY <1>1 DEF FrameFits, NoPlan, toRemove
<1>4. Ours' \subseteq Ours
  <2>1. infra' = infra \/ Vanishes(i)
    BY DEF deleteSlice, WriteSlice, Vanishes
  <2> QED BY <2>1, OursBeside DEF AddsNoNode
<1>5. Cardinality(Ours') <= Cardinality(r.unneeded)
  BY <1>2, <1>4, NamesCount
<1>6. CASE Failed /\ faults' < faults
  BY <1>1, <1>2, <1>5, <1>6, Counts, SweptAgain
<1>7. CASE infra[i] = Absent /\ NoFault /\ Failed /\ UNCHANGED infra
  <2>1. Ours' \subseteq r.unneeded \ {i}
    BY <1>2, <1>7 DEF Ours
  <2>2. /\ Cardinality(r.unneeded \ {i}) + 1 = Cardinality(r.unneeded)
        /\ Cardinality(r.unneeded \ {i}) \in Nat
        /\ Cardinality(Ours') <= Cardinality(r.unneeded \ {i})
    <3>1. r.unneeded \ {i} \in SUBSET Names
      BY <1>2
    <3> QED BY <1>2, <1>3, <2>1, <3>1, NamesCount
  <2>3. Cardinality(Ours') < Cardinality(r.unneeded) /\ faults' <= faults
    BY <1>7, <2>2, Counts, CountsNext DEF NoFault
  <2> QED BY <1>1, <1>2, <1>7, <2>3, Counts, SweptAgain
<1>8. CASE /\ NoFault /\ WriteSlice(i, Absent)
           /\ r' = [r EXCEPT !.delete = @ \ {i},
                             !.unneeded = IF r.delete = {} THEN @ \ {i} ELSE @]
  <2>1. /\ r'.pc = "finalize" /\ r'.gone /\ r'.req = r.req
        /\ r'.unneeded = r.unneeded \ {i}
    BY <1>1, <1>3, <1>8 DEF TypeOK, Frame
  <2>2. Ours' \subseteq r'.unneeded
    <3>1. i \notin Ours'
      BY <1>8 DEF WriteSlice, Ours, TypeOK, Listing
    <3> QED BY <1>2, <1>4, <2>1, <3>1
  <2>3. Cardinality(r'.unneeded) <= Cardinality(r.unneeded)
    BY <1>2, <2>1, NamesCount
  <2>4. Enough(r.req[2], faults', Cardinality(r'.unneeded))
    <3>1. faults' <= faults
      BY <1>8, Counts DEF NoFault
    <3> QED BY <1>2, <2>3, <3>1, Counts, CountsNext, EnoughLeft
  <2> QED BY <2>1, <2>2, <2>4 DEF Sweeping
<1>9. \A kind : Fault(kind) => faults' < faults
  BY Counts DEF Fault
<1> QED BY <1>6, <1>7, <1>8, <1>9 DEF deleteSlice

LEMMA SweptStep ==
    ASSUME MaxFaults + NumNames <= MaxRetries, TypeOK, TypeOK', CleanInv, CacheLags',
           [Next]_vars
    PROVE  Swept'
<1> SUFFICES ASSUME ~restarted', ~svc'.present, cached' = svc', Up'
             PROVE  SweepAhead'
  BY DEF Swept
<1>1. faults' \in Nat /\ faults' <= faults /\ faults <= MaxFaults
  BY FaultsFall DEF CleanInv
<1>2. svc' = svc
  <2>1. svc.uid \in Nat /\ cached.uid \in Nat
    BY PlanConstants DEF TypeOK, Service
  <2> QED BY <2>1, ServiceMoves DEF CleanInv, CacheLags
<1>3. CASE ServiceHandler
  <2>1. queue' = Append(queue, <<"svc", 0>>)
    BY <1>3 DEF ServiceHandler, Enqueue, Dies, Up, Panic, Idle
  <2>2. Enough(0, faults', NumNames)
    BY <1>1, Counts, EnoughAtFirst
  <2>3. Waiting(queue', faults', NumNames)
    BY <2>1, <2>2, Counts, WaitingAdded
  <2> QED BY <2>3, SweptByFresh
<1>4. CASE ~ServiceHandler
  <2>1. ~Restart
    BY DEF Restart
  <2>2. cached' = cached
    <3>1. Worker => UNCHANGED cached
      BY DEF Worker, Take, getInfraEPSFromInfraService, getTenantEPSFromInfraService,
             reconcileByAddressType, newSlice, updateSlice, deleteSlice, reconcileDone
    <3>2. /\ \A s \in TenantSlices : TenantHandler(s) => UNCHANGED cached
          /\ \A kind \in {"write", "delete"} : InfraHandler(kind) => UNCHANGED cached
          /\ \A i \in Names : GarbageCollect(i) => UNCHANGED cached
      BY DEF TenantHandler, InfraHandler, GarbageCollect, SetSlice
    <3>3. Environment => UNCHANGED cached
      BY DEF Environment, TenantChange, TenantAdd, SetTenantSlice, VMIChange,
             ServiceCreate, ServiceChange, ServiceDelete, ServiceReleased, SetService,
             SliceTouched, OtherControllerAdds, SetSlice, process
    <3> QED BY <1>4, <2>1, <3>1, <3>2, <3>3 DEF Next, vars
  <2>3. restarted' = restarted
    <3>1. Take => restarted' = restarted
      BY DEF Take
    <3> QED BY <2>1, <3>1, QueueMoves
  <2>4. r.pc # "panic"
    <3>1. Worker => r.pc # "panic"
      BY DEF Worker, Take, getInfraEPSFromInfraService, getTenantEPSFromInfraService,
             reconcileByAddressType, newSlice, updateSlice, deleteSlice, reconcileDone
    <3>2. /\ \A s \in TenantSlices : TenantHandler(s) => Up
          /\ \A kind \in {"write", "delete"} : InfraHandler(kind) => Up
      BY DEF TenantHandler, InfraHandler
    <3>3. Environment \/ (\E i \in Names : GarbageCollect(i)) \/ UNCHANGED vars => r' = r
      BY EnvironmentMoves DEF vars
    <3> QED BY <1>4, <2>1, <3>1, <3>2, <3>3 DEF Next, Up
  <2>5. SweepAhead
    BY <1>2, <2>2, <2>3, <2>4 DEF CleanInv, Swept, Up
  <2>6. CASE Take
    BY <1>2, <2>2, <2>5, <2>6, SweptTaken
  <2>7. CASE ~Take /\ InFlight
    <3>1. queue' = queue \/ \E q : queue' = Append(queue, q)
      BY <2>1, <2>7, QueueMoves DEF QueueGrows
    <3>2. Waiting(queue, faults, NumNames)
      BY <2>5, <2>7 DEF SweepAhead
    <3>3. NumNames <= NumNames
      BY PlanConstants
    <3>4. Waiting(queue', faults', NumNames)
      BY <1>1, <3>1, <3>2, <3>3, Counts, WaitingKept
    <3> QED BY <3>4, SweptByFresh
  <2>8. CASE r' = r /\ AddsNoNode /\ ~Take
    BY <1>1, <2>1, <2>5, <2>8, QueueMoves, SweptBeside
  <2>9. CASE Worker /\ ~Take /\ ~InFlight
    <3>1. r.gone /\ r.pc \in {"listInfra", "finalize"} /\ NoPlan
      <4>1. r.pc \in {"listInfra", "listTenant", "lookup", "finalize"}
        BY <2>9 DEF Worker, getInfraEPSFromInfraService, getTenantEPSFromInfraService,
                    reconcileByAddressType, newSlice, updateSlice, deleteSlice, reconcileDone
      <4> QED BY <2>9, <4>1 DEF InFlight, CleanInv, FrameFits
    <3>2. getInfraEPSFromInfraService \/ (\E i \in Names : deleteSlice(i)) \/ reconcileDone
      <4>1. ~newSlice /\ \A i \in Names : ~updateSlice(i)
        BY <3>1 DEF newSlice, creating, updateSlice, updating, NoPlan
      <4>2. ~getTenantEPSFromInfraService /\ ~reconcileByAddressType
        BY <3>1 DEF getTenantEPSFromInfraService, reconcileByAddressType
      <4> QED BY <2>9, <4>1, <4>2 DEF Worker
    <3>3. Ours' \subseteq Ours
      <4>1. getInfraEPSFromInfraService \/ reconcileDone => infra' = infra
        BY DEF getInfraEPSFromInfraService, reconcileDone, clusters
      <4>2. \A i \in Names : deleteSlice(i) => infra' = infra \/ Vanishes(i)
        BY DEF deleteSlice, WriteSlice, Vanishes
      <4> QED BY <3>2, <4>1, <4>2, OursBeside DEF AddsNoNode
    <3>4. ~InFlight'
      <4>1. GivesUp => ~InFlight'
        BY IdleFrame DEF GivesUp, InFlight
      <4>2. Failed => GivesUp
        BY DEF Failed, requeue, GivesUp
      <4>3. getInfraEPSFromInfraService => GivesUp \/ r'.gone = r.gone
        BY <4>2 DEF getInfraEPSFromInfraService, TypeOK, Frame
      <4>4. \A i \in Names : deleteSlice(i) => GivesUp \/ r'.gone = r.gone
        BY <4>2 DEF deleteSlice, TypeOK, Frame
      <4>5. reconcileDone => GivesUp
        BY DEF reconcileDone, GivesUp
      <4> QED BY <3>1, <3>2, <4>1, <4>3, <4>4, <4>5 DEF InFlight
    <3>5. SUFFICES ASSUME Ours' # {}
                   PROVE  Waiting(queue', faults', Cardinality(Ours')) \/ Sweeping'
      BY <3>4 DEF SweepAhead
    <3>6. CASE Waiting(queue, faults, Cardinality(Ours))
      <4>1. queue' = queue \/ \E q : queue' = Append(queue, q)
        BY <2>1, <2>9, QueueMoves DEF QueueGrows
      <4>2. Cardinality(Ours') <= Cardinality(Ours)
        <5>1. Ours \subseteq Names
          BY DEF Ours
        <5> QED BY <3>3, <5>1, NamesCount
      <4> QED BY <1>1, <3>6, <4>1, <4>2, Counts, CountsNext, WaitingKept
    <3>7. CASE Sweeping
      <4>1. ~reconcileDone
        <5>1. reconcileDone => r.unneeded = {} /\ r.pc = "finalize"
          BY <3>1 DEF reconcileDone, toRemove, NoPlan
        <5> QED BY <3>3, <3>5, <3>7, <5>1 DEF Sweeping
      <4> QED BY <3>1, <3>2, <3>7, <4>1, SweptListed, SweptDeleted DEF CleanInv
    <3> QED BY <2>5, <2>9, <3>3, <3>5, <3>6, <3>7 DEF SweepAhead
  <2>10. CASE ~Worker
    <3>1. ~Take
      BY <2>10 DEF Worker
    <3>2. r' = r /\ AddsNoNode
      <4>1. CASE \/ \E s \in TenantSlices : TenantHandler(s)
                 \/ \E kind \in {"write", "delete"} : InfraHandler(kind)
        <5>1. r' # Panic
          BY IdleFrame DEF Up
        <5> QED BY <4>1, <5>1, HandlerMoves DEF AddsNoNode
      <4>2. CASE UNCHANGED vars
        BY <4>2 DEF vars, AddsNoNode
      <4> QED BY <1>4, <2>1, <2>10, <4>1, <4>2, EnvironmentMoves DEF Next
    <3> QED BY <2>8, <3>1, <3>2
  <2> QED BY <2>6, <2>7, <2>9, <2>10
<1> QED BY <1>3, <1>4

LEMMA InitClean == Init => CleanInv
<1> SUFFICES ASSUME Init PROVE CleanInv
  OBVIOUS
<1>1. infra = [i \in Names |-> Absent] /\ r = Idle /\ cached = svc /\ faults = MaxFaults
  BY Zenon DEF Init
<1>2. TypeOK
  BY InitType
<1>3. svc.deleting => svc.present
  <2>1. CASE svc = NoService
    BY <2>1 DEF NoService
  <2>2. ASSUME NEW m \in Modes,
               svc = [NoService EXCEPT !.present = TRUE, !.uid = 1, !.mode = m]
        PROVE  svc.deleting => svc.present
    BY <2>2, FixedValues DEF Service
  <2> QED BY <2>1, <2>2 DEF Init
<1>4. CacheLags
  <2>1. svc.uid \in Nat
    BY <1>2, PlanConstants DEF TypeOK, Service
  <2> QED BY <1>1, <1>3, <2>1 DEF CacheLags
<1>5. FrameFits
  BY <1>1, IdleFrame DEF FrameFits
<1>6. Ours = {} /\ ~InFlight
  BY <1>1, IdleFrame DEF Ours, InFlight
<1>7. faults <= MaxFaults
  BY <1>1, ControllerConstants
<1> QED BY <1>4, <1>5, <1>6, <1>7 DEF CleanInv, Swept, SweepAhead

(* As long as the process lives it deletes the slices of a Service that is *)
(* gone by itself, also one that a reconcile the deletion overtook creates *)
(* afterwards, whatever fails on the way, if the faults and the slices     *)
(* that vanish under its hands are not more than maxRetries: each of them  *)
(* costs the request one retry.                                            *)
THEOREM GoneIsCleanedUp ==
    ASSUME MaxFaults + NumNames <= MaxRetries
    PROVE  Spec => []CleansUp
<1> DEFINE IInv == TypeOK /\ Apart /\ CleanInv
<1>1. Init => IInv
  BY InitType, InitApart, InitClean
<1>2. IInv /\ [Next]_vars => IInv'
  <2> SUFFICES ASSUME TypeOK, Apart, CleanInv, [Next]_vars
               PROVE  TypeOK' /\ Apart' /\ CleanInv'
    OBVIOUS
  <2>1. TypeOK'
    BY TypeStep
  <2>2. Apart'
    BY <2>1, ApartStep
  <2>3. CacheLags' /\ FrameFits'
    BY <2>1, CacheStep, FrameFitsStep DEF CleanInv
  <2>4. Swept'
    BY <2>1, <2>3, SweptStep
  <2>5. faults' <= MaxFaults
    <3>1. faults' \in Nat /\ faults' <= faults /\ faults \in Nat
      BY FaultsFall DEF TypeOK
    <3> QED BY <3>1, ControllerConstants DEF CleanInv
  <2> QED BY <2>1, <2>2, <2>3, <2>4, <2>5 DEF CleanInv
<1>3. IInv => CleansUp
  <2> SUFFICES ASSUME TypeOK, CleanInv, Quiescent, ~svc.present, ~restarted
               PROVE  Managed = {}
    BY DEF CleansUp
  <2>1. SweepAhead /\ r.pc = "idle" /\ queue = <<>>
    BY DEF CleanInv, Swept, Quiescent, Up
  <2>2. ~InFlight /\ ~Sweeping /\ ~Waiting(queue, faults, Cardinality(Ours))
    BY <2>1 DEF InFlight, Sweeping, Waiting
  <2>3. Ours = {}
    BY <2>1, <2>2 DEF SweepAhead
  <2> QED BY <2>3 DEF Ours, Managed
<1> QED BY <1>1, <1>2, <1>3, PTL DEF Spec
=============================================================================
