------------------------ MODULE MCServiceController ------------------------
(* Instances of ServiceController for TLC. *)
EXTENDS ServiceRefinement, TLC

CONSTANTS n1, n2, p1, p2

(* One attempt more than the code may use, so that a creation out of       *)
(* bounds is a state TLC can reach and not an evaluation error.            *)
MCAttempts == 0..(MaxCreateCount + 1)

OnePort == {p1}
TwoPorts == {p1, p2}
OneNodeSet == {n1}
TwoNodeSets == {n1, n2}

NodeSymmetry == Permutations(NodeSets)

NoHazards == {}
AllHazards == HazardKinds
=============================================================================
