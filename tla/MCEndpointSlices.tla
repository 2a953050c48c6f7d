-------------------------- MODULE MCEndpointSlices --------------------------
(* Instances of EndpointSlices for TLC. *)
EXTENDS EndpointSlices, TLC

CONSTANTS n1, n2, n3, t1, t2, s1, s2

TwoNodes == {n1, n2}
ThreeNodes == {n1, n2, n3}
OneTenantSlice == {t1}
TwoTenantSlices == {t1, t2}
OneSpec == {s1}
TwoSpecs == {s1, s2}
Selectorless == {"none"}
SelectorOrNot == {"none", "cluster"}
AllModes == Mode

NodeSymmetry == Permutations(Nodes)

AllHazards == HazardKinds
Recoverable == {"fail", "lost", "crash", "tombstone"}
NoHazards == {}
=============================================================================
