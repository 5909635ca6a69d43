------------------------------- MODULE MCSearch -------------------------------
(***************************************************************************)
(* Small instances of GraphSearch.  For path: two ways of two and of three *)
(* calls from 0 to 6, more symbols at one call than a small budget still   *)
(* admits, a cycle, and a heuristic binding.  For impact: a container 1    *)
(* with members 2 and 3, a diamond, a cycle and two relationships between  *)
(* the same symbols.                                                       *)
(***************************************************************************)
EXTENDS GraphSearch

MCNode == 0..6

Row(s, t, k) == [source |-> s, target |-> t, kind |-> k]

PathRows ==
    {Row(0, 2, "calls"), Row(0, 3, "calls"), Row(0, 4, "calls"), Row(0, 5, "calls"),
     Row(2, 1, "calls"), Row(3, 1, "calls"), Row(1, 6, "calls"), Row(5, 6, "calls"),
     Row(1, 0, "calls"), Row(4, 6, "heuristic")}

ImpactRows ==
    {Row(1, 2, "contains"), Row(1, 3, "contains"), Row(2, 3, "contains"),
     Row(4, 1, "calls"), Row(5, 4, "calls"), Row(5, 4, "references"), Row(6, 5, "references"),
     Row(6, 2, "calls"), Row(1, 6, "calls"), Row(0, 1, "heuristic")}

MCRepositories == SUBSET PathRows \cup SUBSET ImpactRows

MCRequests ==
    {[search |-> "path", from |-> 0, to |-> 6, limit |-> l, budget |-> b] :
        l \in {2, 3, 50}, b \in {2, 7, 8}}
    \cup {[search |-> "impact", from |-> 1, depth |-> d, limit |-> l, budget |-> b] :
        d \in {1, 2, 3}, l \in {2, 50}, b \in {2, 5, 50}}

=============================================================================
