------------------------------ MODULE SlicePlan ------------------------------
(***************************************************************************)
(* reconcileByAddressType and the head of finalize of the EndpointSlice    *)
(* controller, without the calls they make: which infra slices are         *)
(* created, updated and deleted so that they hold the desired endpoints.   *)
(*                                                                         *)
(* Slices are named 1..NumNames in the order the API server lists them.    *)
(* An endpoint is its address and the conditions derived from the phase of *)
(* its virtual machine; the hash of EndpointSet is the address.  The ports *)
(* and labels a slice takes over from the Service are one value, "spec".   *)
(* The Service has one address type: "supported" says a slice has it too.  *)
(***************************************************************************)
EXTENDS Integers, FiniteSets

CONSTANTS
    Nodes,          \* tenant nodes; also the addresses of their VMIs
    Foreign,        \* an address some other controller put into a slice
    NumNames,       \* slice names the model can tell apart
    Limit,          \* maxEndPointsPerSlice
    Specs,          \* versions of the Service's ports and labels
    MaxServices,    \* Services of the one name, told apart by UID
    Absent          \* no slice

ASSUME PlanConstants ==
    /\ NumNames \in Nat /\ Limit \in Nat \ {0} /\ MaxServices \in Nat \ {0}
    /\ IsFiniteSet(Nodes) /\ Foreign \notin Nodes /\ Specs # {}

Names == 1..NumNames
NewSlice == NumNames + 1    \* the slice made by newSlice, not yet named
Later == NumNames + 2       \* left over for a later reconcile

Endpoint == [addr : Nodes \cup {Foreign}, up : BOOLEAN]

Slice == [eps : SUBSET Endpoint, owner : 0..MaxServices, managed : BOOLEAN,
          supported : BOOLEAN, spec : Specs]

ASSUME AbsentIsNoSlice == Absent \notin Slice

Listing == [Names -> Slice \cup {Absent}]

(* "none": no selector.  "cluster" and "local": the Service has a selector *)
(* and this externalTrafficPolicy.                                         *)
Mode == {"none", "cluster", "local"}

Service == [present : BOOLEAN, deleting : BOOLEAN, uid : 0..MaxServices,
            mode : Mode, spec : Specs]

Addrs(endpoints) == {e.addr : e \in endpoints}

-----------------------------------------------------------------------------
(* The first loop of reconcile: the slices that go in any case, and those  *)
(* handed to reconcileByAddressType.                                       *)

unneeded(service, gone, listed) ==
    {i \in Names :
        /\ listed[i] # Absent
        /\ IF gone \/ service.mode # "none" THEN listed[i].managed
                                            ELSE ~listed[i].supported}

existing(service, listed) ==
    {i \in Names : /\ service.mode = "none"
                   /\ listed[i] # Absent /\ listed[i].supported}

-----------------------------------------------------------------------------
(* Step 1.  A desired endpoint is covered by the first slice that lists    *)
(* its address; it is taken out of the set at that point.                  *)

covered(service, listed, desired, i) ==
    {e \in desired :
        /\ e.addr \in Addrs(listed[i].eps)
        /\ \A j \in existing(service, listed) :
               j < i => e.addr \notin Addrs(listed[j].eps)}

(* Mutant: covered endpoints stay in the desired set.                      *)
uncoveredKeepsAll(service, listed, desired) == desired

uncovered(service, listed, desired) ==
    {e \in desired : \A i \in existing(service, listed) :
                         e.addr \notin Addrs(listed[i].eps)}

(* The ports or the labels need an update.                                 *)
ensureEndpointSliceLabels(service, slice) ==
    slice.spec # service.spec \/ ~slice.managed

changed(service, listed, desired, i) ==
    \/ ensureEndpointSliceLabels(service, listed[i])
    \/ listed[i].eps # covered(service, listed, desired, i)

toDelete(service, listed, desired) ==
    {i \in existing(service, listed) :
        /\ changed(service, listed, desired, i)
        /\ covered(service, listed, desired, i) = {}}

updated(service, listed, desired) ==
    {i \in existing(service, listed) :
        /\ changed(service, listed, desired, i)
        /\ covered(service, listed, desired, i) # {}}

untouched(service, listed, desired) ==
    existing(service, listed)
        \ (toDelete(service, listed, desired) \cup updated(service, listed, desired))

-----------------------------------------------------------------------------
(* Steps 2 to 4 hand the uncovered endpoints out with PopAny: any one of   *)
(* them to the updated slices in order, then to the untouched ones, then   *)
(* to one new slice.  "place" says where each one goes.                    *)

targets(service, listed, desired) ==
    updated(service, listed, desired) \cup untouched(service, listed, desired)
        \cup {NewSlice}

filledBefore(service, listed, desired, s, t) ==
    LET rank(x) == CASE x \in updated(service, listed, desired) -> 0
                     [] x \in untouched(service, listed, desired) -> 1
                     [] OTHER -> 2
    IN rank(s) < rank(t) \/ (rank(s) = rank(t) /\ s < t)

given(place, t) == {e \in DOMAIN place : place[e] = t}

(* Mutant: the covered endpoints of an updated slice are overwritten.      *)
contentsGivenOnly(service, listed, desired, place, t) == given(place, t)

contents(service, listed, desired, place, t) ==
    given(place, t) \cup
    (IF t \in Names THEN covered(service, listed, desired, t) ELSE {})

(* Mutant: one endpoint too many fits into a slice.                        *)
fitsOneMore(endpoints) == Cardinality(endpoints) <= Limit + 1

fits(endpoints) == Cardinality(endpoints) <= Limit

full(endpoints) == Cardinality(endpoints) >= Limit

packs(service, listed, desired, place) ==
    LET inside(t) == contents(service, listed, desired, place, t)
        where == targets(service, listed, desired)
    IN /\ \A e \in DOMAIN place : place[e] \in where \cup {Later}
       /\ \A t \in where : given(place, t) # {} => fits(inside(t))
       /\ \A t \in where, e \in DOMAIN place :
              filledBefore(service, listed, desired, t, place[e]) => full(inside(t))

placements(service, listed, desired) ==
    {place \in [uncovered(service, listed, desired) -> 1..Later] :
        packs(service, listed, desired, place)}

(* Untouched slices are updated as soon as step 2 left something over.     *)
toUpdate(service, listed, desired, place) ==
    updated(service, listed, desired) \cup
    (IF \E e \in DOMAIN place : place[e] \notin updated(service, listed, desired)
       THEN untouched(service, listed, desired) ELSE {})

ownedBy(slice, service) == slice.owner = service.uid

(* finalize drops the slice to create from its list and then reads the     *)
(* first element of that list, which is now empty.                         *)
indexOutOfRange(service, listed, desired, place) ==
    /\ given(place, NewSlice) # {}
    /\ \E i \in toDelete(service, listed, desired) : ownedBy(listed[i], service)
=============================================================================
