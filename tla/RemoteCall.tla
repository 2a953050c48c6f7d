----------------------------- MODULE RemoteCall -----------------------------
(***************************************************************************)
(* What a caller of the LoadBalancer API client may rely on, without       *)
(* attempts, connections and deadlines: calls are made one after another,  *)
(* each returns once, and one that reports success has been carried out.   *)
(* Nothing else is promised: a call that reports an error may have been    *)
(* carried out, or may still be.                                           *)
(***************************************************************************)
EXTENDS Naturals, Sequences

VARIABLES
    busy,       \* a call is under way
    results,    \* results[i]: TRUE when call i reported success
    applied     \* calls the server has carried out

vars == <<busy, results, applied>>

Current == Len(results) + 1

Made == IF busy THEN 1..Current ELSE 1..Len(results)

Init == busy = FALSE /\ results = <<>> /\ applied = {}

Invoke == ~busy /\ busy' = TRUE /\ UNCHANGED <<results, applied>>

Apply == /\ \E i \in Made : applied' = applied \cup {i}
         /\ UNCHANGED <<busy, results>>

Return == /\ busy /\ busy' = FALSE
          /\ \E ok \in BOOLEAN : /\ ok => Current \in applied
                                 /\ results' = Append(results, ok)
          /\ UNCHANGED applied

Next == Invoke \/ Apply \/ Return

Spec == Init /\ [][Next]_vars
=============================================================================
