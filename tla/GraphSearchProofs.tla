-------------------------- MODULE GraphSearchProofs --------------------------
(***************************************************************************)
(* Theorems about GraphSearch, for any graph and any bounds: what the two  *)
(* searches may conclude from having come to an end.                       *)
(***************************************************************************)
EXTENDS GraphSearch, FiniteSetTheorems, SequenceFacts

-----------------------------------------------------------------------------
(* The queue and the order of rows.                                        *)

\* Appending to a queue adds one element to its range.
LEMMA AppendRange ==
    ASSUME NEW S, NEW q \in Seq(S), NEW n
    PROVE  /\ Append(q, n) \in Seq(S \cup {n})
           /\ Range(Append(q, n)) = Range(q) \cup {n}
<1>1. /\ Len(Append(q, n)) = Len(q) + 1 /\ DOMAIN Append(q, n) = 1..(Len(q) + 1)
      /\ \A i \in 1..Len(q) : Append(q, n)[i] = q[i]
      /\ Append(q, n)[Len(q) + 1] = n
    OBVIOUS
<1>2. Append(q, n) \in Seq(S \cup {n})
    OBVIOUS
<1>3. DOMAIN q = 1..Len(q) /\ Len(q) \in Nat
    OBVIOUS
<1>4. Range(q) \cup {n} \subseteq Range(Append(q, n))
    <2>1. Len(q) + 1 \in DOMAIN Append(q, n) /\ 1..Len(q) \subseteq DOMAIN Append(q, n)
        BY <1>1, <1>3
    <2> QED
        BY <1>1, <1>3, <2>1 DEF Range
<1>5. Range(Append(q, n)) \subseteq Range(q) \cup {n}
    <2>1. \A i \in 1..(Len(q) + 1) : i \in 1..Len(q) \/ i = Len(q) + 1
        BY <1>3
    <2> QED
        BY <1>1, <1>3, <2>1 DEF Range
<1> QED
    BY <1>2, <1>4, <1>5

\* A queue cut in two has the elements of both parts.
LEMMA SplitRange ==
    ASSUME NEW S, NEW q \in Seq(S), NEW k \in 0..Len(q)
    PROVE  /\ SubSeq(q, k + 1, Len(q)) \in Seq(S)
           /\ Range(SubSeq(q, 1, k)) \subseteq S
           /\ Range(q) = Range(SubSeq(q, 1, k)) \cup Range(SubSeq(q, k + 1, Len(q)))
<1> DEFINE first == SubSeq(q, 1, k)
           rest  == SubSeq(q, k + 1, Len(q))
<1>1. Len(q) \in Nat /\ DOMAIN q = 1..Len(q) /\ \A i \in 1..Len(q) : q[i] \in S
    OBVIOUS
<1>2. DOMAIN first = 1..k /\ \A i \in 1..k : first[i] = q[i]
    BY <1>1
<1>3. DOMAIN rest = 1..(Len(q) - k) /\ \A i \in 1..(Len(q) - k) : rest[i] = q[k + i]
    BY <1>1
<1>4. rest \in Seq(S)
    BY <1>1
<1>5. Range(first) \subseteq S
    BY <1>1, <1>2 DEF Range
<1>6. Range(first) \cup Range(rest) \subseteq Range(q)
    <2>1. \A i \in 1..(Len(q) - k) : k + i \in 1..Len(q)
        BY <1>1
    <2>2. \A i \in 1..k : i \in 1..Len(q)
        BY <1>1
    <2> QED
        BY <1>1, <1>2, <1>3, <2>1, <2>2 DEF Range
<1>7. ASSUME NEW i \in 1..Len(q) PROVE q[i] \in Range(first) \cup Range(rest)
    <2>1. CASE i \in 1..k
        BY <2>1, <1>2 DEF Range
    <2>2. CASE i \notin 1..k
        <3>1. i - k \in 1..(Len(q) - k) /\ k + (i - k) = i
            BY <2>2, <1>1
        <3> QED
            BY <3>1, <1>3 DEF Range
    <2> QED
        BY <2>1, <2>2
<1>8. Range(q) \subseteq Range(first) \cup Range(rest)
    BY <1>1, <1>7 DEF Range
<1> QED
    BY <1>4, <1>5, <1>6, <1>8

\* The head and the tail of a queue make up the queue.
LEMMA HeadRange ==
    ASSUME NEW S, NEW q \in Seq(S), q # <<>>
    PROVE  /\ Head(q) \in S /\ Tail(q) \in Seq(S)
           /\ Range(q) = {Head(q)} \cup Range(Tail(q))
<1>1. Len(q) \in Nat /\ Len(q) # 0 /\ DOMAIN q = 1..Len(q) /\ Head(q) = q[1]
    OBVIOUS
<1>2. Head(q) \in S /\ Tail(q) \in Seq(S)
    OBVIOUS
<1>3. DOMAIN Tail(q) = 1..(Len(q) - 1) /\ \A i \in 1..(Len(q) - 1) : Tail(q)[i] = q[i + 1]
    BY <1>1
<1>4. {Head(q)} \cup Range(Tail(q)) \subseteq Range(q)
    <2>1. 1 \in 1..Len(q) /\ \A i \in 1..(Len(q) - 1) : i + 1 \in 1..Len(q)
        BY <1>1
    <2> QED
        BY <1>1, <1>3, <2>1 DEF Range
<1>5. ASSUME NEW i \in 1..Len(q) PROVE q[i] \in {Head(q)} \cup Range(Tail(q))
    <2>1. CASE i = 1
        BY <2>1, <1>1
    <2>2. CASE i # 1
        <3>1. i - 1 \in 1..(Len(q) - 1) /\ (i - 1) + 1 = i
            BY <2>2, <1>1
        <3> QED
            BY <3>1, <1>3 DEF Range
    <2> QED
        BY <2>1, <2>2
<1> QED
    BY <1>1, <1>2, <1>4, <1>5 DEF Range

\* Some row comes first among any rows.
LEMMA FirstRowIn ==
    ASSUME NEW E \in SUBSET Edge, E # {}
    PROVE  FirstRow(E) \in E
<1>1. ASSUME NEW e \in E
      PROVE  e.source \in Nat /\ e.target \in Nat /\ KindRank[e.kind] \in Nat
    <2>1. e.source \in Node /\ e.target \in Node /\ e.kind \in Kind
        BY DEF Edge
    <2>2. KindRank[e.kind] \in Nat
        BY <2>1 DEF Kind, KindRank
    <2> QED
        BY <2>1, <2>2, SearchAssumption
<1> DEFINE sources == {e.source : e \in E}
<1>2. PICK s \in sources : \A t \in sources : s <= t
    <2>1. sources # {} /\ sources \subseteq Nat
        BY <1>1
    <2> QED
        BY <2>1, LeastNatural
<1> DEFINE targets == {e.target : e \in {f \in E : f.source = s}}
<1>3. PICK t \in targets : \A u \in targets : t <= u
    <2>1. targets # {} /\ targets \subseteq Nat
        BY <1>1, <1>2
    <2> QED
        BY <2>1, LeastNatural
<1> DEFINE ranks == {KindRank[e.kind] : e \in {f \in E : f.source = s /\ f.target = t}}
<1>4. PICK k \in ranks : \A l \in ranks : k <= l
    <2>1. ranks # {} /\ ranks \subseteq Nat
        BY <1>1, <1>3
    <2> QED
        BY <2>1, LeastNatural
<1>5. PICK e \in E : e.source = s /\ e.target = t /\ KindRank[e.kind] = k
    BY <1>4
<1>6. ASSUME NEW f \in E PROVE e = f \/ Before(e, f)
    <2>1. CASE f.source # s
        <3>1. s <= f.source /\ s \in Nat /\ f.source \in Nat
            BY <1>1, <1>2
        <3>2. s < f.source
            BY <2>1, <3>1
        <3> QED
            BY <1>5, <3>2 DEF Before
    <2>2. CASE f.source = s /\ f.target # t
        <3>1. t <= f.target /\ t \in Nat /\ f.target \in Nat
            BY <1>1, <1>3, <2>2
        <3>2. t < f.target
            BY <2>2, <3>1
        <3> QED
            BY <1>5, <2>2, <3>2 DEF Before
    <2>3. CASE f.source = s /\ f.target = t
        <3>1. k <= KindRank[f.kind]
            BY <1>4, <2>3
        <3>2. CASE k = KindRank[f.kind]
            <4>1. e.kind \in Kind /\ f.kind \in Kind
                BY <1>5 DEF Edge
            <4>2. e.kind = f.kind
                BY <1>5, <3>2, <4>1 DEF Kind, KindRank
            <4> QED
                BY <1>5, <2>3, <4>2 DEF Edge
        <3>3. k \in Nat /\ KindRank[f.kind] \in Nat
            BY <1>1, <1>5
        <3>4. k # KindRank[f.kind] => KindRank[e.kind] < KindRank[f.kind]
            BY <1>5, <3>1, <3>3
        <3>5. e.source = f.source /\ e.target = f.target
            BY <1>5, <2>3
        <3> QED
            BY <3>2, <3>4, <3>5 DEF Before
    <2> QED
        BY <2>1, <2>2, <2>3
<1> QED
    BY <1>6 DEF FirstRow

-----------------------------------------------------------------------------
(* What is left to be seen.                                                *)

\* The relationships of n lead to visited symbols, or are among the rows read.
Seen(n) ==
    \A e \in OutgoingCalls({n}) : e.target \in visited \/ e \in rows

SeenBack(n) ==
    \A e \in ImpactEdges(n) : Affected(e) \in visited \/ (n = current /\ e \in rows)

\* path: as long as it looks, the target is not visited, and a symbol whose
\* calls have not all been seen waits in the queue.
PathInv ==
    request.search = "path" /\ (status = "running" \/ (status = "no_static_path" /\ ~Full)) =>
        /\ request.to \notin visited
        /\ \A n \in visited : n \in Range(queue) \/ Seen(n)
        /\ status = "no_static_path" => rows = {} /\ queue = <<>>

\* impact: the same of an answer that no bound has cut.
ImpactInv ==
    request.search = "impact" /\ cutoffs = {} =>
        /\ status \in {"running", "ok"}
        /\ \A n \in visited : n \in Range(queue) \/ SeenBack(n)
        /\ status = "ok" => rows = {} /\ queue = <<>>

LEMMA InitTypes == Init => TypeOK
<1> SUFFICES ASSUME Init PROVE TypeOK
    OBVIOUS
<1>1. request.from \in Node
    BY SearchAssumption DEF Init, Request
<1>2. visited = {request.from} /\ reached[request.from] = [via |-> request.from, steps |-> 0]
    BY DEF Init, visited
<1>3. reached \in [visited -> [via: visited, steps: Nat]]
    BY <1>2 DEF Init, visited
<1>4. queue \in Seq(visited)
    BY <1>2 DEF Init
<1>5. Repositories \subseteq SUBSET Edge
    BY SearchAssumption
<1> QED
    BY <1>1, <1>2, <1>3, <1>4 DEF Init, TypeOK, Statuses

\* Visiting a symbol keeps the types of what has been reached.
LEMMA ReachTypes ==
    ASSUME TypeOK, NEW n \in Node, NEW m \in visited, Reach(n, m)
    PROVE  /\ visited' = visited \cup {n}
           /\ reached' \in [visited' -> [via: visited', steps: Nat]]
           /\ queue' \in Seq(visited') /\ Range(queue') = Range(queue) \cup {n}
<1>1. visited' = visited \cup {n}
    BY DEF Reach, visited
<1>2. reached[m].steps \in Nat
    BY DEF TypeOK
<1>3. ASSUME NEW k \in visited'
      PROVE  reached'[k] \in [via: visited', steps: Nat]
    <2>1. CASE k = n
        BY <1>1, <1>2, <2>1 DEF Reach
    <2>2. CASE k # n
        <3>1. k \in visited /\ reached'[k] = reached[k]
            BY <1>1, <2>2 DEF Reach
        <3>2. reached[k] \in [via: visited, steps: Nat]
            BY <3>1 DEF TypeOK
        <3> QED
            BY <1>1, <3>1, <3>2
    <2> QED
        BY <2>1, <2>2
<1>4. reached' \in [visited' -> [via: visited', steps: Nat]]
    <2>1. reached' = [k \in visited' |-> reached'[k]]
        BY <1>1 DEF Reach
    <2> QED
        BY <1>3, <2>1
<1>5. queue' \in Seq(visited \cup {n}) /\ Range(queue') = Range(queue) \cup {n}
    BY AppendRange DEF Reach, TypeOK
<1> QED
    BY <1>1, <1>4, <1>5

\* The part of the queue that a batch takes is a part of the queue.
LEMMA BatchSize ==
    ASSUME TypeOK, ~Full
    PROVE  Least(Len(queue), request.budget - Cardinality(visited)) \in 0..Len(queue)
<1>1. IsFiniteSet(visited)
    BY SearchAssumption, FS_Subset DEF TypeOK
<1>2. Cardinality(visited) \in Nat
    BY <1>1, FS_CardinalityType
<1>3. request.budget \in Nat
    BY SearchAssumption DEF TypeOK, Request
<1>4. Len(queue) \in Nat
    BY DEF TypeOK
<1> QED
    BY <1>2, <1>3, <1>4 DEF Full, Least

\* Rows are relationships between symbols.
LEMMA RowsAreEdges ==
    ASSUME TypeOK
    PROVE  /\ graph \subseteq Edge /\ rows \subseteq Edge
           /\ \A e \in graph : e.source \in Node /\ e.target \in Node /\ Affected(e) \in Node
           /\ rows # {} => FirstRow(rows) \in rows /\ FirstRow(rows) \in graph
<1>1. graph \subseteq Edge /\ rows \subseteq graph
    BY SearchAssumption DEF TypeOK
<1>2. \A e \in graph : e.source \in Node /\ e.target \in Node
    BY <1>1 DEF Edge
<1>3. rows # {} => FirstRow(rows) \in rows
    BY <1>1, FirstRowIn
<1> QED
    BY <1>1, <1>2, <1>3 DEF Affected

\* A row followed by path starts at a visited symbol.  The invariant of path
\* that says so.
RowsInv == request.search = "path" => \A e \in rows : e.source \in visited

\* `No path' is only said of a search for one.
SaidOfPath == status = "no_static_path" => request.search = "path"

Inv == TypeOK /\ RowsInv /\ SaidOfPath /\ PathInv /\ ImpactInv

LEMMA BatchKeeps ==
    ASSUME Inv, NextBatch
    PROVE  Inv'
<1> DEFINE size == Least(Len(queue), request.budget - Cardinality(visited))
           taken == Range(SubSeq(queue, 1, size))
<1>1. size \in 0..Len(queue)
    BY BatchSize DEF Inv, NextBatch
<1>2. /\ queue' \in Seq(visited) /\ taken \subseteq visited
      /\ Range(queue) = taken \cup Range(queue')
    BY <1>1, SplitRange DEF Inv, TypeOK, NextBatch, AfterBatch
<1>3. visited' = visited /\ rows' = OutgoingCalls(taken) /\ rows = {}
    BY DEF NextBatch, visited
<1>4. rows' \subseteq graph /\ \A e \in rows' : e.source \in visited
    BY <1>2, <1>3 DEF OutgoingCalls
<1>5. TypeOK'
    <2>1. split' \in BOOLEAN
        BY DEF NextBatch
    <2> QED
        BY <1>2, <1>3, <1>4, <2>1 DEF Inv, TypeOK, NextBatch
<1>6. RowsInv'
    BY <1>3, <1>4 DEF RowsInv, NextBatch
<1>7. PathInv'
    <2>1. /\ request.to \notin visited
          /\ \A n \in visited : n \in Range(queue) \/ Seen(n)
        BY DEF Inv, PathInv, NextBatch, Running
    <2>2. ASSUME NEW n \in visited PROVE n \in Range(queue') \/ Seen(n)'
        <3>1. CASE n \in taken
            BY <1>3, <3>1 DEF Seen, OutgoingCalls, NextBatch
        <3>2. CASE n \notin taken /\ n \notin Range(queue')
            BY <1>2, <1>3, <2>1, <3>2 DEF Seen, OutgoingCalls, NextBatch
        <3> QED
            BY <3>1, <3>2
    <2> QED
        BY <1>3, <2>1, <2>2 DEF PathInv, NextBatch, Running
<1>8. ImpactInv'
    BY DEF ImpactInv, NextBatch, Running
<1> QED
    BY <1>5, <1>6, <1>7, <1>8 DEF Inv, SaidOfPath, NextBatch

LEMMA FollowCallKeeps ==
    ASSUME Inv, FollowCall
    PROVE  Inv'
<1> DEFINE e == FirstRow(rows)
<1>1. /\ e \in rows /\ e.target \in Node /\ e.source \in visited
      /\ rows' = rows \ {e} /\ rows' \subseteq graph
    BY RowsAreEdges DEF Inv, RowsInv, SaidOfPath, FollowCall, Running, TypeOK
<1>2. PathInv /\ request.search = "path" /\ status = "running"
    BY DEF Inv, FollowCall, Running
<1>3. CASE e.target \in visited
    <2>1. UNCHANGED <<queue, reached, status>> /\ visited' = visited
        BY <1>3 DEF FollowCall, visited
    <2>2. TypeOK'
        BY <1>1, <2>1 DEF Inv, TypeOK, FollowCall
    <2>3. PathInv'
        BY <1>1, <1>2, <1>3, <2>1 DEF PathInv, Seen, OutgoingCalls, FollowCall
    <2> QED
        BY <1>1, <1>2, <2>1, <2>2, <2>3 DEF Inv, RowsInv, SaidOfPath, ImpactInv, FollowCall
<1>4. CASE e.target \notin visited
    <2>1. Reach(e.target, e.source)
        BY <1>4 DEF FollowCall
    <2>2. /\ visited' = visited \cup {e.target}
          /\ reached' \in [visited' -> [via: visited', steps: Nat]]
          /\ queue' \in Seq(visited') /\ Range(queue') = Range(queue) \cup {e.target}
        BY <1>1, <2>1, ReachTypes DEF Inv
    <2>3. status' \in Statuses /\ (e.target = request.to => status' \in {"ok", "path_too_long"})
        BY <1>4 DEF FollowCall, Verdict, Statuses
    <2>4. TypeOK'
        BY <1>1, <2>2, <2>3 DEF Inv, TypeOK, FollowCall
    <2>5. PathInv'
        <3>1. ASSUME NEW n \in visited' PROVE n \in Range(queue') \/ Seen(n)'
            <4>1. CASE n = e.target
                BY <2>2, <4>1
            <4>2. CASE n \in visited /\ n \notin Range(queue)
                BY <1>1, <1>2, <2>2, <4>2 DEF PathInv, Seen, OutgoingCalls, FollowCall
            <4> QED
                BY <2>2, <4>1, <4>2
        <3>2. status' # "no_static_path"
            BY <1>4 DEF FollowCall, Verdict
        <3> QED
            BY <1>2, <2>2, <2>3, <3>1, <3>2 DEF PathInv, FollowCall
    <2> QED
        BY <1>1, <1>2, <2>2, <2>4, <2>5 DEF Inv, RowsInv, SaidOfPath, ImpactInv, FollowCall
<1> QED
    BY <1>3, <1>4

LEMMA NoPathKeeps ==
    ASSUME Inv, NoPath
    PROVE  Inv'
<1>1. visited' = visited /\ rows' = {} /\ Full' = Full
    BY DEF NoPath, visited, Full
<1>2. TypeOK'
    BY <1>1 DEF Inv, TypeOK, NoPath, Statuses
<1>3. PathInv'
    <2> SUFFICES ASSUME ~Full PROVE PathInv'
        BY <1>1 DEF PathInv, NoPath
    <2>1. rows = {} /\ queue = <<>>
        BY DEF NoPath
    <2> QED
        BY <1>1, <2>1 DEF Inv, PathInv, NoPath, Running, Seen, OutgoingCalls
<1> QED
    BY <1>1, <1>2, <1>3 DEF Inv, RowsInv, SaidOfPath, ImpactInv, NoPath, Running

LEMMA NextSymbolKeeps ==
    ASSUME Inv, NextSymbol
    PROVE  Inv'
<1>1. /\ visited' = visited /\ queue' \in Seq(visited) /\ current' \in visited
      /\ Range(queue) = {current'} \cup Range(queue')
    BY HeadRange DEF Inv, TypeOK, NextSymbol, visited
<1>2. rows' = ImpactEdges(current') /\ rows' \subseteq graph
    BY DEF NextSymbol, ImpactEdges
<1>3. TypeOK'
    BY <1>1, <1>2 DEF Inv, TypeOK, NextSymbol
<1>4. ImpactInv'
    <2> SUFFICES ASSUME cutoffs = {} PROVE ImpactInv'
        BY DEF ImpactInv, NextSymbol
    <2>1. \A n \in visited : n \in Range(queue) \/ SeenBack(n)
        BY DEF Inv, ImpactInv, NextSymbol, Running
    <2>2. ASSUME NEW n \in visited PROVE n \in Range(queue') \/ SeenBack(n)'
        <3>1. CASE n = current'
            BY <1>2, <3>1 DEF SeenBack, ImpactEdges, NextSymbol
        <3>2. CASE n # current' /\ n \notin Range(queue')
            BY <1>1, <2>1, <3>2 DEF SeenBack, ImpactEdges, NextSymbol, visited
        <3> QED
            BY <3>1, <3>2
    <2> QED
        BY <1>1, <2>2 DEF ImpactInv, NextSymbol, Running
<1> QED
    BY <1>3, <1>4 DEF Inv, RowsInv, SaidOfPath, PathInv, NextSymbol, Running

LEMMA FollowRowKeeps ==
    ASSUME Inv, FollowRow
    PROVE  Inv'
<1> DEFINE e == FirstRow(rows)
           n == Affected(e)
<1>1. e \in rows /\ n \in Node /\ rows' = rows \ {e} /\ rows' \subseteq graph
    BY RowsAreEdges DEF Inv, FollowRow, Running, TypeOK
<1>2. request.search = "impact" /\ status = "running" /\ request' = request /\ examined' \in Nat
    BY DEF Inv, TypeOK, FollowRow, Running
<1>3. CASE cutoffs' # {} /\ UNCHANGED <<queue, reached>>
    <2>1. visited' = visited
        BY <1>3 DEF visited
    <2>2. cutoffs' \subseteq {"depth", "nodes", "edges"} /\ status' \in {"running", "ok"}
        BY DEF Inv, TypeOK, FollowRow, Running
    <2>3. TypeOK'
        BY <1>1, <1>2, <1>3, <2>1, <2>2 DEF Inv, TypeOK, FollowRow, Statuses
    <2> QED
        BY <1>2, <1>3, <2>2, <2>3 DEF Inv, RowsInv, SaidOfPath, PathInv, ImpactInv
<1>4. CASE n \in visited /\ UNCHANGED <<queue, reached, cutoffs, status>>
    <2>1. visited' = visited
        BY <1>4 DEF visited
    <2>2. TypeOK'
        BY <1>1, <1>2, <1>4, <2>1 DEF Inv, TypeOK, FollowRow
    <2>3. ImpactInv'
        BY <1>1, <1>2, <1>4, <2>1 DEF Inv, ImpactInv, SeenBack, ImpactEdges, FollowRow
    <2> QED
        BY <1>2, <1>4, <2>2, <2>3 DEF Inv, RowsInv, SaidOfPath, PathInv
<1>5. CASE Reach(n, current) /\ UNCHANGED <<cutoffs, status>>
    <2>1. /\ visited' = visited \cup {n}
          /\ reached' \in [visited' -> [via: visited', steps: Nat]]
          /\ queue' \in Seq(visited') /\ Range(queue') = Range(queue) \cup {n}
        BY <1>1, <1>5, ReachTypes DEF Inv, TypeOK
    <2>2. TypeOK'
        BY <1>1, <1>2, <1>5, <2>1 DEF Inv, TypeOK, FollowRow
    <2>3. ImpactInv'
        <3> SUFFICES ASSUME cutoffs = {} PROVE ImpactInv'
            BY <1>5 DEF ImpactInv
        <3>1. ASSUME NEW m \in visited' PROVE m \in Range(queue') \/ SeenBack(m)'
            <4>1. CASE m = n
                BY <2>1, <4>1
            <4>2. CASE m \in visited /\ m \notin Range(queue)
                BY <1>1, <1>2, <2>1, <4>2 DEF Inv, ImpactInv, SeenBack, ImpactEdges, FollowRow
            <4> QED
                BY <2>1, <4>1, <4>2
        <3> QED
            BY <1>2, <1>5, <3>1 DEF ImpactInv
    <2> QED
        BY <1>2, <1>5, <2>2, <2>3 DEF Inv, RowsInv, SaidOfPath, PathInv
<1> QED
    BY <1>3, <1>4, <1>5 DEF FollowRow

LEMMA OutOfRowsKeeps ==
    ASSUME Inv, OutOfRows
    PROVE  Inv'
<1>1. visited' = visited /\ cutoffs' # {} /\ cutoffs' \subseteq {"depth", "nodes", "edges"}
    BY DEF Inv, TypeOK, OutOfRows, visited
<1>2. TypeOK'
    BY <1>1 DEF Inv, TypeOK, OutOfRows, Statuses
<1> QED
    BY <1>1, <1>2 DEF Inv, RowsInv, SaidOfPath, PathInv, ImpactInv, OutOfRows, Running

LEMMA ExhaustedKeeps ==
    ASSUME Inv, Exhausted
    PROVE  Inv'
<1>1. visited' = visited
    BY DEF Exhausted, visited
<1>2. TypeOK'
    BY <1>1 DEF Inv, TypeOK, Exhausted, Statuses
<1>3. ImpactInv'
    BY <1>1 DEF Inv, ImpactInv, Exhausted, Running, SeenBack, ImpactEdges
<1> QED
    BY <1>2, <1>3 DEF Inv, RowsInv, SaidOfPath, PathInv, Exhausted, Running

LEMMA InitInv == Init => Inv
<1> SUFFICES ASSUME Init PROVE Inv
    OBVIOUS
<1>1. visited = {request.from} /\ Range(queue) = {request.from}
    BY DEF Init, visited, Range
<1>2. RowsInv /\ ImpactInv
    BY <1>1 DEF Init, RowsInv, ImpactInv
<1>3. PathInv
    BY <1>1 DEF Init, PathInv
<1> QED
    BY <1>2, <1>3, InitTypes DEF Inv, SaidOfPath, Init

LEMMA StepKeeps == Inv /\ [Next]_vars => Inv'
<1> SUFFICES ASSUME Inv, [Next]_vars PROVE Inv'
    OBVIOUS
<1>1. CASE UNCHANGED vars
    BY <1>1 DEF vars, Inv, TypeOK, RowsInv, SaidOfPath, PathInv, ImpactInv, Seen, SeenBack, visited,
                OutgoingCalls, ImpactEdges, Full
<1>2. CASE Next
    BY <1>2, BatchKeeps, FollowCallKeeps, NoPathKeeps, NextSymbolKeeps, FollowRowKeeps,
       OutOfRowsKeeps, ExhaustedKeeps DEF Next
<1> QED
    BY <1>1, <1>2

LEMMA SpecInv == Spec => []Inv
BY InitInv, StepKeeps, PTL DEF Spec

-----------------------------------------------------------------------------
(* The symbols so many steps away.                                         *)

\* What lies one step beyond S, and S.
Grown(S) == S \cup UNION {Neighbours(n) : n \in S}

\* The equation of Within, on the first numbers of steps.
Grows(f, k) == f = [i \in 0..k |-> IF i = 0 THEN {request.from} ELSE Grown(f[i - 1])]

LEMMA GrowsAt ==
    ASSUME NEW k \in Nat, NEW f, Grows(f, k)
    PROVE  /\ f[0] = {request.from}
           /\ \A i \in 1..k : f[i] = Grown(f[i - 1])
<1> DEFINE h == [i \in 0..k |-> IF i = 0 THEN {request.from} ELSE Grown(f[i - 1])]
<1>1. f = h
    BY DEF Grows
<1>2. h[0] = {request.from} /\ \A i \in 1..k : h[i] = Grown(f[i - 1])
    OBVIOUS
<1> HIDE DEF h
<1> QED
    BY <1>1, <1>2

LEMMA GrowsExists ==
    ASSUME NEW k \in Nat
    PROVE  \E f : Grows(f, k)
<1> DEFINE T == {j \in Nat : \E f : Grows(f, j)}
<1>1. 0 \in T
    <2>1. Grows([i \in 0..0 |-> {request.from}], 0)
        BY DEF Grows
    <2> QED
        BY <2>1
<1>2. ASSUME NEW j \in Nat, j \in T PROVE j + 1 \in T
    <2>1. PICK f : Grows(f, j)
        BY <1>2
    <2>2. f[0] = {request.from} /\ \A i \in 1..j : f[i] = Grown(f[i - 1])
        BY <2>1, GrowsAt
    <2>3. PICK g : g = [i \in 0..(j + 1) |-> IF i = j + 1 THEN Grown(f[j]) ELSE f[i]]
        OBVIOUS
    <2>4. /\ DOMAIN g = 0..(j + 1) /\ g = [i \in 0..(j + 1) |-> g[i]]
          /\ g[j + 1] = Grown(f[j]) /\ \A i \in 0..j : g[i] = f[i]
        BY <2>3
    <2>5. \A i \in 0..(j + 1) : g[i] = IF i = 0 THEN {request.from} ELSE Grown(g[i - 1])
        <3> SUFFICES ASSUME NEW i \in 0..(j + 1)
                     PROVE  g[i] = IF i = 0 THEN {request.from} ELSE Grown(g[i - 1])
            OBVIOUS
        <3>1. CASE i = 0
            BY <2>2, <2>4, <3>1
        <3>2. CASE i = j + 1
            <4>1. g[i - 1] = f[j]
                BY <2>4, <3>2
            <4> QED
                BY <2>4, <3>2, <4>1
        <3>3. CASE i \in 1..j
            <4>1. i - 1 \in 0..j /\ i \in 0..j /\ i # 0
                BY <3>3
            <4> QED
                BY <2>2, <2>4, <3>3, <4>1
        <3> QED
            BY <3>1, <3>2, <3>3
    <2>6. Grows(g, j + 1)
        BY <2>4, <2>5 DEF Grows
    <2> QED
        BY <2>6
<1> HIDE DEF T
<1>3. k \in T
    BY <1>1, <1>2, NaturalsFromZero
<1> QED
    BY <1>3 DEF T

LEMMA GrowsAgree ==
    ASSUME NEW k \in Nat, NEW l \in Nat, NEW f, Grows(f, k), NEW g, Grows(g, l),
           NEW i \in Nat, i <= k, i <= l
    PROVE  f[i] = g[i]
<1> DEFINE T == {j \in Nat : j <= k /\ j <= l => f[j] = g[j]}
<1>1. 0 \in T
    BY GrowsAt
<1>2. ASSUME NEW j \in Nat, j \in T PROVE j + 1 \in T
    <2> SUFFICES ASSUME j + 1 <= k, j + 1 <= l PROVE f[j + 1] = g[j + 1]
        OBVIOUS
    <2>1. f[j] = g[j]
        BY <1>2
    <2>2. j + 1 \in 1..k /\ j + 1 \in 1..l /\ (j + 1) - 1 = j
        OBVIOUS
    <2>3. f[j + 1] = Grown(f[(j + 1) - 1]) /\ g[j + 1] = Grown(g[(j + 1) - 1])
        BY <2>2, GrowsAt
    <2> QED
        BY <2>1, <2>2, <2>3
<1> HIDE DEF T
<1>3. i \in T
    BY <1>1, <1>2, NaturalsFromZero
<1> QED
    BY <1>3 DEF T

\* Within solves its equation.
WithinEquation(f) ==
    f = [k \in Nat |-> IF k = 0 THEN {request.from} ELSE Grown(f[k - 1])]

LEMMA WithinSolves == WithinEquation(Within)
<1> DEFINE f[k \in Nat] == CHOOSE g : Grows(g, k)
           w == [k \in Nat |-> f[k][k]]
<1>1. \A k \in Nat : Grows(f[k], k)
    BY GrowsExists
<1>2. w[0] = {request.from}
    BY <1>1, GrowsAt
<1>3. ASSUME NEW k \in Nat \ {0} PROVE w[k] = Grown(w[k - 1])
    <2>1. k - 1 \in Nat /\ k \in 1..k
        OBVIOUS
    <2>2. f[k][k] = Grown(f[k][k - 1])
        BY <1>1, <2>1, GrowsAt
    <2>3. f[k][k - 1] = f[k - 1][k - 1]
        BY <1>1, <2>1, GrowsAgree
    <2> QED
        BY <2>1, <2>2, <2>3
<1> HIDE DEF f
<1>4. WithinEquation(w)
    <2>1. \A k \in Nat : w[k] = IF k = 0 THEN {request.from} ELSE Grown(w[k - 1])
        BY <1>2, <1>3
    <2>2. w = [k \in Nat |-> w[k]]
        OBVIOUS
    <2> HIDE DEF w
    <2> QED
        BY <2>1, <2>2 DEF WithinEquation
<1>5. Within = CHOOSE g : WithinEquation(g)
    BY DEF Within, WithinEquation, Grown
<1> HIDE DEF w
<1> QED
    BY <1>4, <1>5

StepByStep ==
    /\ Within[0] = {request.from}
    /\ \A k \in Nat : Within[k + 1] = Within[k] \cup UNION {Neighbours(n) : n \in Within[k]}

LEMMA WithinIs == StepByStep
<1> DEFINE h == [k \in Nat |-> IF k = 0 THEN {request.from} ELSE Grown(Within[k - 1])]
<1>1. Within = h
    BY WithinSolves DEF WithinEquation
<1>2. h[0] = {request.from} /\ \A k \in Nat : h[k + 1] = Grown(Within[k])
    <2>1. \A k \in Nat : k + 1 \in Nat /\ k + 1 # 0 /\ (k + 1) - 1 = k
        OBVIOUS
    <2> QED
        BY <2>1
<1> HIDE DEF h
<1> QED
    BY <1>1, <1>2 DEF Grown, StepByStep

LEMMA WithinGrows ==
    ASSUME NEW i \in Nat, NEW j \in Nat, i <= j
    PROVE  Within[i] \subseteq Within[j]
<1> DEFINE T == {k \in Nat : i <= k => Within[i] \subseteq Within[k]}
<1>1. 0 \in T
    <2>1. i <= 0 => i = 0
        OBVIOUS
    <2> QED
        BY <2>1
<1>2. ASSUME NEW k \in Nat, k \in T PROVE k + 1 \in T
    <2> SUFFICES ASSUME i <= k + 1 PROVE Within[i] \subseteq Within[k + 1]
        OBVIOUS
    <2>1. CASE i = k + 1
        BY <2>1
    <2>2. CASE i <= k
        BY <1>2, <2>2, WithinIs DEF StepByStep
    <2> QED
        BY <2>1, <2>2
<1> HIDE DEF T
<1>3. j \in T
    BY <1>1, <1>2, NaturalsFromZero
<1> QED
    BY <1>3 DEF T

\* The rows stand still, and with them what is so many steps away.
LEMMA WithinStays ==
    ASSUME request' = request, graph' = graph
    PROVE  /\ \A n : Neighbours(n)' = Neighbours(n)
           /\ \A k \in Nat : Within'[k] = Within[k]
<1>1. \A n : Neighbours(n)' = Neighbours(n)
    BY DEF Neighbours, OutgoingCalls, ImpactEdges
<1>2. /\ Within'[0] = {request'.from}
      /\ \A k \in Nat : Within'[k + 1] = Within'[k] \cup UNION {Neighbours(n)' : n \in Within'[k]}
    <2>1. StepByStep'
        BY WithinIs, PTL
    <2> QED
        BY <2>1 DEF StepByStep
<1> DEFINE T == {k \in Nat : Within'[k] = Within[k]}
<1>3. 0 \in T
    BY <1>2, WithinIs DEF StepByStep
<1>4. ASSUME NEW k \in Nat, k \in T PROVE k + 1 \in T
    <2>1. Within'[k + 1] = Within'[k] \cup UNION {Neighbours(n)' : n \in Within'[k]}
        BY <1>2
    <2>2. Within[k + 1] = Within[k] \cup UNION {Neighbours(n) : n \in Within[k]}
        BY WithinIs DEF StepByStep
    <2>3. Within'[k] = Within[k]
        BY <1>4
    <2>4. UNION {Neighbours(n)' : n \in Within'[k]} = UNION {Neighbours(n) : n \in Within[k]}
        BY <1>1, <2>3
    <2>5. Within'[k + 1] = Within[k + 1]
        BY <2>1, <2>2, <2>3, <2>4
    <2> QED
        BY <2>5
<1> HIDE DEF T
<1>5. \A k \in Nat : k \in T
    BY <1>3, <1>4, NaturalsFromZero
<1> QED
    BY <1>1, <1>5 DEF T

-----------------------------------------------------------------------------
(* The searches go level by level.                                         *)

\* path, as long as every batch took the whole queue: the rows followed start
\* one level before the queue, and all levels before that have been seen.
PathLevels ==
    request.search = "path" /\ status = "running" /\ ~split =>
        \E d \in Nat :
            /\ \A n \in Range(queue) : reached[n].steps = d
            /\ \A e \in rows : e.kind = "calls" /\ reached[e.source].steps + 1 = d
            /\ \A n \in visited \ Range(queue) : reached[n].steps < d /\ Seen(n)

\* impact: the queue is in the order of the levels, of which there are two,
\* and all symbols that left it have been seen up to the depth asked for.
ImpactLevels ==
    request.search = "impact" /\ status = "running" =>
        /\ rows \subseteq ImpactEdges(current)
        /\ \A i \in DOMAIN queue :
              reached[queue[i]].steps \in {reached[current].steps, reached[current].steps + 1}
        /\ \A i, j \in DOMAIN queue : i <= j => reached[queue[i]].steps <= reached[queue[j]].steps
        /\ \A n \in visited : n \in Range(queue) \/ reached[n].steps = request.depth \/ SeenBack(n)

\* What a bound that was met says of the graph.
Cuts ==
    /\ request.search = "path" => cutoffs = {}
    /\ request.search = "impact" => ~split /\ \A n \in visited : reached[n].steps <= request.depth
    /\ "depth" \in cutoffs => ~(Within[request.depth + 1] \subseteq Within[request.depth])
    /\ "nodes" \in cutoffs => /\ status = "ok"
                             /\ Cardinality(visited) = request.limit + 1
                             /\ ~(Within[request.depth] \subseteq visited)

LevelInv == ShortestUnlessSplit /\ PathLevels /\ ImpactLevels /\ Cuts

\* Steps are numbers, and the symbol before a visited one is visited.
LEMMA StepsType ==
    ASSUME TypeOK, NEW n \in visited
    PROVE  reached[n].steps \in Nat /\ reached[n].via \in visited
BY DEF TypeOK

\* If all symbols of the levels before k have been seen, level k is visited.
LEMMA LevelVisited ==
    ASSUME TypeOK, \A n \in visited : NoNearer(n), NEW k \in Nat,
           \A n \in visited : reached[n].steps < k => Neighbours(n) \subseteq visited
    PROVE  Within[k] \subseteq visited
<1> DEFINE T == {j \in Nat : j <= k => Within[j] \subseteq visited}
<1>1. 0 \in T
    BY WithinIs DEF StepByStep, TypeOK
<1>2. ASSUME NEW j \in Nat, j \in T PROVE j + 1 \in T
    <2> SUFFICES ASSUME j + 1 <= k PROVE Within[j + 1] \subseteq visited
        OBVIOUS
    <2>1. Within[j] \subseteq visited /\ j < k
        BY <1>2
    <2>2. ASSUME NEW n \in Within[j] PROVE Neighbours(n) \subseteq visited
        <3>1. n \in visited /\ reached[n].steps \in Nat
            BY <2>1, StepsType
        <3>2. PICK s \in Nat : s = reached[n].steps
            BY <3>1
        <3>3. s <= j
            <4> SUFFICES ASSUME s > j PROVE FALSE
                BY <3>2
            <4>1. s - 1 \in Nat /\ j <= s - 1 /\ s > 0
                OBVIOUS
            <4>2. n \notin Within[s - 1]
                BY <3>1, <3>2, <4>1 DEF NoNearer
            <4>3. Within[j] \subseteq Within[s - 1]
                BY <4>1, WithinGrows
            <4> QED
                BY <4>2, <4>3
        <3>4. s < k
            BY <2>1, <3>3
        <3> QED
            BY <3>1, <3>2, <3>4
    <2>3. Within[j + 1] = Within[j] \cup UNION {Neighbours(n) : n \in Within[j]}
        BY WithinIs DEF StepByStep
    <2> QED
        BY <2>1, <2>2, <2>3
<1> HIDE DEF T
<1>3. k \in T
    BY <1>1, <1>2, NaturalsFromZero
<1> QED
    BY <1>3 DEF T

\* A symbol stays as near as it is.
LEMMA NoNearerStays ==
    ASSUME TypeOK, request' = request, graph' = graph, NEW n \in visited, NoNearer(n),
           reached'[n] = reached[n], reached'[reached[n].via] = reached[reached[n].via]
    PROVE  NoNearer(n)'
<1>1. PICK s \in Nat : s = reached[n].steps /\ s = reached'[n].steps
    BY StepsType
<1>2. Within'[s] = Within[s] /\ (s > 0 => Within'[s - 1] = Within[s - 1])
    <2>1. s > 0 => s - 1 \in Nat
        OBVIOUS
    <2> QED
        BY <2>1, WithinStays
<1>3. PICK v : v = reached[n].via /\ v = reached'[n].via
    OBVIOUS
<1>4. /\ n \in Within[s]
      /\ s > 0 => /\ n \notin Within[s - 1]
                  /\ n \in Neighbours(v)
                  /\ reached[v].steps = s - 1
    BY <1>1, <1>3 DEF NoNearer
<1>5. n \in Neighbours(v)' <=> n \in Neighbours(v)
    BY WithinStays
<1>6. reached'[v].steps = reached[v].steps
    BY <1>3
<1>7. /\ n \in Within'[s]
      /\ s > 0 => /\ n \notin Within'[s - 1]
                  /\ n \in Neighbours(v)'
                  /\ reached'[v].steps = s - 1
    BY <1>2, <1>4, <1>5, <1>6
<1> QED
    BY <1>1, <1>3, <1>7 DEF NoNearer

\* A symbol reached from a level that is known lies on the next.
LEMMA ReachNearest ==
    ASSUME TypeOK, \A k \in visited : NoNearer(k), request' = request, graph' = graph,
           NEW n \in Node \ visited, NEW m \in visited, Reach(n, m), n \in Neighbours(m),
           NEW d \in Nat, d = reached[m].steps, Within[d] \subseteq visited
    PROVE  /\ \A k \in visited' : NoNearer(k)'
           /\ visited' = visited \cup {n} /\ reached'[n].steps = d + 1
           /\ \A k \in visited : reached'[k] = reached[k]
           /\ n \in Within[d + 1] /\ n \notin Within[d]
<1>1. visited' = visited \cup {n}
    BY DEF Reach, visited
<1>2. /\ reached'[n].via = m /\ reached'[n].steps = d + 1
      /\ \A k \in visited : reached'[k] = reached[k]
    BY DEF Reach
<1>3. n \in Within[d + 1] /\ n \notin Within[d]
    <2>1. m \in Within[d]
        BY DEF NoNearer
    <2> QED
        BY <2>1, WithinIs DEF StepByStep
<1>4. NoNearer(n)'
    <2>1. d + 1 \in Nat /\ d + 1 > 0 /\ (d + 1) - 1 = d
        OBVIOUS
    <2>2. n \in Within'[d + 1] /\ n \notin Within'[d]
        BY <1>3, <2>1, WithinStays
    <2>3. n \in Neighbours(m)'
        BY WithinStays
    <2>4. reached'[m].steps = d
        BY <1>2
    <2> QED
        BY <1>2, <2>1, <2>2, <2>3, <2>4 DEF NoNearer
<1>5. ASSUME NEW k \in visited PROVE NoNearer(k)'
    <2>1. reached[k].via \in visited
        BY StepsType
    <2> QED
        BY <1>2, <2>1, NoNearerStays
<1> QED
    BY <1>1, <1>2, <1>3, <1>4, <1>5

\* Where nothing is reached, all stay as near as they are.
LEMMA NearestStays ==
    ASSUME TypeOK, ShortestUnlessSplit, UNCHANGED <<request, graph, reached>>, ~split' => ~split
    PROVE  ShortestUnlessSplit'
<1> SUFFICES ASSUME ~split', NEW n \in visited' PROVE NoNearer(n)'
    BY DEF ShortestUnlessSplit
<1>1. n \in visited /\ NoNearer(n)
    BY DEF visited, ShortestUnlessSplit
<1> QED
    BY <1>1, NoNearerStays

LEMMA InitLevels ==
    ASSUME Init
    PROVE  LevelInv
<1>1. /\ visited = {request.from} /\ reached[request.from].steps = 0
      /\ queue = <<request.from>> /\ current = request.from /\ rows = {} /\ cutoffs = {} /\ ~split
    BY DEF Init, visited
<1>2. DOMAIN queue = 1..1 /\ queue[1] = request.from /\ Range(queue) = {request.from}
    BY <1>1 DEF Range
<1>3. ShortestUnlessSplit
    BY <1>1, WithinIs DEF ShortestUnlessSplit, NoNearer, StepByStep
<1>4. PathLevels
    BY <1>1, <1>2 DEF PathLevels
<1>5. ImpactLevels
    BY <1>1, <1>2 DEF ImpactLevels
<1>6. Cuts
    <2>1. request.search = "impact" => request.depth \in Nat
        BY SearchAssumption DEF Init, Request
    <2> QED
        BY <1>1, <2>1 DEF Cuts
<1> QED
    BY <1>3, <1>4, <1>5, <1>6 DEF LevelInv

\* A batch that takes the whole queue takes a whole level.
LEMMA BatchLevels ==
    ASSUME Inv, LevelInv, NextBatch
    PROVE  LevelInv'
<1> DEFINE size == Least(Len(queue), request.budget - Cardinality(visited))
<1>1. /\ request.search = "path" /\ status = "running" /\ rows = {}
      /\ rows' = OutgoingCalls(Range(SubSeq(queue, 1, size))) /\ queue' = SubSeq(queue, size + 1, Len(queue))
      /\ split' = (split \/ size < Len(queue))
      /\ UNCHANGED <<request, graph, current, reached, examined, cutoffs, status>>
    BY DEF NextBatch, Running, AfterBatch
<1>2. size \in 0..Len(queue) /\ Len(queue) \in Nat
    BY BatchSize DEF Inv, NextBatch, TypeOK
<1> HIDE DEF size
<1>3. visited' = visited
    BY <1>1 DEF visited
<1>4. ShortestUnlessSplit'
    BY <1>1, NearestStays DEF Inv, LevelInv
<1>5. PathLevels'
    <2> SUFFICES ASSUME ~split'
                 PROVE  \E d \in Nat :
                           /\ \A n \in Range(queue') : reached[n].steps = d
                           /\ \A e \in rows' : e.kind = "calls" /\ reached[e.source].steps + 1 = d
                           /\ \A n \in visited \ Range(queue') : reached[n].steps < d /\ Seen(n)'
        BY <1>1, <1>3 DEF PathLevels
    <2>1. size = Len(queue) /\ ~split
        <3>1. ~(size < Len(queue)) /\ ~split
            BY <1>1, Zenon
        <3> QED
            BY <1>2, <3>1
    <2>2. rows' = OutgoingCalls(Range(queue)) /\ queue' = <<>>
        <3>1. SubSeq(queue, 1, Len(queue)) = queue
            BY SubSeqFull DEF Inv, TypeOK
        <3>2. SubSeq(queue, Len(queue) + 1, Len(queue)) = <<>>
            BY <1>2, SubSeqEmpty
        <3> QED
            BY <1>1, <2>1, <3>1, <3>2
    <2>3. PICK d \in Nat : /\ \A n \in Range(queue) : reached[n].steps = d
                          /\ \A n \in visited \ Range(queue) : reached[n].steps < d /\ Seen(n)
        BY <1>1, <2>1 DEF LevelInv, PathLevels
    <2>4. Range(queue') = {}
        BY <2>2 DEF Range
    <2>5. \A e \in rows' : e.kind = "calls" /\ reached[e.source].steps + 1 = d + 1
        BY <2>2, <2>3 DEF OutgoingCalls
    <2>6. ASSUME NEW n \in visited PROVE reached[n].steps < d + 1 /\ Seen(n)'
        <3>1. CASE n \in Range(queue)
            <4>1. Seen(n)'
                BY <1>1, <1>3, <2>2, <3>1 DEF Seen, OutgoingCalls
            <4> QED
                BY <2>3, <3>1, <4>1
        <3>2. CASE n \notin Range(queue)
            <4>1. reached[n].steps < d /\ Seen(n)
                BY <2>3, <3>2
            <4>2. Seen(n)'
                BY <1>1, <1>3, <4>1 DEF Seen, OutgoingCalls
            <4>3. reached[n].steps \in Nat
                BY StepsType DEF Inv
            <4> QED
                BY <4>1, <4>2, <4>3
        <3> QED
            BY <3>1, <3>2
    <2>7. d + 1 \in Nat
        OBVIOUS
    <2> QED
        BY <2>4, <2>5, <2>6, <2>7
<1>6. ImpactLevels'
    BY <1>1 DEF ImpactLevels
<1>7. Cuts'
    BY <1>1 DEF LevelInv, Cuts
<1> QED
    BY <1>4, <1>5, <1>6, <1>7 DEF LevelInv

\* The level before the rows of a batch has been visited.
LEMMA BatchStarts ==
    ASSUME Inv, LevelInv, request.search = "path", status = "running", ~split,
           NEW d \in Nat,
           \A n \in Range(queue) : reached[n].steps = d + 1,
           \A e \in rows : reached[e.source].steps = d,
           \A n \in visited \ Range(queue) : reached[n].steps < d + 1 /\ Seen(n)
    PROVE  Within[d] \subseteq visited
<1>1. TypeOK /\ \A n \in visited : NoNearer(n)
    BY DEF Inv, LevelInv, ShortestUnlessSplit
<1>2. ASSUME NEW n \in visited, reached[n].steps < d PROVE Neighbours(n) \subseteq visited
    <2>1. n \notin Range(queue)
        BY <1>2
    <2>2. Seen(n)
        BY <2>1
    <2>3. \A e \in OutgoingCalls({n}) : e.source = n /\ e \notin rows
        BY <1>2 DEF OutgoingCalls
    <2> QED
        BY <2>2, <2>3 DEF Seen, Neighbours
<1> QED
    BY <1>1, <1>2, LevelVisited

LEMMA FollowCallLevels ==
    ASSUME Inv, LevelInv, FollowCall
    PROVE  LevelInv'
<1>1. PICK e : e = FirstRow(rows)
    OBVIOUS
<1>2. /\ request.search = "path" /\ status = "running" /\ rows' = rows \ {e}
      /\ UNCHANGED <<request, graph, current, examined, cutoffs, split>>
    BY <1>1 DEF FollowCall, Running
<1>3. e \in rows /\ e \in graph /\ e.target \in Node /\ e.source \in visited /\ TypeOK
    BY <1>1, RowsAreEdges DEF Inv, RowsInv, FollowCall, Running
<1>4. ImpactLevels'
    BY <1>2 DEF ImpactLevels
<1>5. Cuts'
    <2>1. cutoffs' = {}
        BY <1>2 DEF LevelInv, Cuts
    <2> QED
        BY <1>2, <2>1 DEF Cuts
<1>6. CASE e.target \in visited
    <2>1. UNCHANGED <<queue, reached, status>> /\ visited' = visited
        BY <1>1, <1>6 DEF FollowCall, visited
    <2>2. ShortestUnlessSplit'
        BY <1>2, <2>1, NearestStays DEF Inv, LevelInv
    <2>3. PathLevels'
        <3> SUFFICES ASSUME ~split
                     PROVE  \E d \in Nat :
                               /\ \A n \in Range(queue) : reached[n].steps = d
                               /\ \A f \in rows' : f.kind = "calls" /\ reached[f.source].steps + 1 = d
                               /\ \A n \in visited \ Range(queue) : reached[n].steps < d /\ Seen(n)'
            BY <1>2, <2>1 DEF PathLevels
        <3>1. PICK d \in Nat :
                  /\ \A n \in Range(queue) : reached[n].steps = d
                  /\ \A f \in rows : f.kind = "calls" /\ reached[f.source].steps + 1 = d
                  /\ \A n \in visited \ Range(queue) : reached[n].steps < d /\ Seen(n)
            BY <1>2 DEF LevelInv, PathLevels
        <3>2. \A n : Seen(n) => Seen(n)'
            BY <1>2, <1>6, <2>1 DEF Seen, OutgoingCalls
        <3> QED
            BY <1>2, <3>1, <3>2
    <2> QED
        BY <1>4, <1>5, <2>2, <2>3 DEF LevelInv
<1>7. CASE e.target \notin visited
    <2>1. PICK n \in Node \ visited, m \in visited : n = e.target /\ m = e.source
        BY <1>3, <1>7
    <2>2. Reach(n, m)
        BY <1>1, <1>7, <2>1 DEF FollowCall
    <2>3. visited' = visited \cup {n} /\ Range(queue') = Range(queue) \cup {n}
        BY <2>1, <2>2, <1>3, ReachTypes
    <2>4. CASE split
        BY <1>2, <1>4, <1>5, <2>4 DEF LevelInv, ShortestUnlessSplit, PathLevels
    <2>5. CASE ~split
        <3>1. PICK c \in Nat :
                  /\ \A k \in Range(queue) : reached[k].steps = c
                  /\ \A f \in rows : f.kind = "calls" /\ reached[f.source].steps + 1 = c
                  /\ \A k \in visited \ Range(queue) : reached[k].steps < c /\ Seen(k)
            BY <1>2, <2>5 DEF LevelInv, PathLevels
        <3>2. PICK d \in Nat : d = reached[m].steps /\ d + 1 = c /\ c = d + 1
            BY <1>3, <2>1, <3>1, StepsType
        <3>3. \A f \in rows : reached[f.source].steps = d
            <4> SUFFICES ASSUME NEW f \in rows PROVE reached[f.source].steps = d
                OBVIOUS
            <4>1. f.source \in visited
                BY <1>2 DEF Inv, RowsInv
            <4>2. PICK s \in Nat : s = reached[f.source].steps
                BY <1>3, <4>1, StepsType
            <4>3. s + 1 = c
                BY <3>1, <4>2
            <4> QED
                BY <3>2, <4>2, <4>3
        <3>4. Within[d] \subseteq visited
            BY <1>2, <2>5, <3>1, <3>2, <3>3, BatchStarts
        <3>5. n \in Neighbours(m)
            BY <1>2, <1>3, <2>1, <3>1 DEF Neighbours, OutgoingCalls
        <3>6. /\ \A k \in visited' : NoNearer(k)'
              /\ reached'[n].steps = d + 1
              /\ \A k \in visited : reached'[k] = reached[k]
            <4>1. \A k \in visited : NoNearer(k)
                BY <2>5 DEF LevelInv, ShortestUnlessSplit
            <4> QED
                BY <1>2, <1>3, <2>2, <3>2, <3>4, <3>5, <4>1, ReachNearest
        <3>7. ShortestUnlessSplit'
            BY <3>6 DEF ShortestUnlessSplit
        <3>8. PathLevels'
            <4>1. \A k \in Range(queue') : reached'[k].steps = c
                <5>1. Range(queue) \subseteq visited
                    BY <1>3 DEF TypeOK, Range
                <5> QED
                    BY <2>3, <3>1, <3>2, <3>6, <5>1
            <4>2. \A f \in rows' : f.kind = "calls" /\ reached'[f.source].steps + 1 = c
                <5>1. \A f \in rows : f.source \in visited
                    BY <1>2 DEF Inv, RowsInv
                <5> QED
                    BY <1>2, <3>1, <3>6, <5>1
            <4>3. ASSUME NEW k \in visited' \ Range(queue') PROVE reached'[k].steps < c /\ Seen(k)'
                <5>1. k \in visited \ Range(queue)
                    BY <2>3, <4>3
                <5>2. Seen(k)'
                    BY <1>2, <2>1, <2>3, <3>1, <5>1 DEF Seen, OutgoingCalls
                <5> QED
                    BY <3>1, <3>6, <5>1, <5>2
            <4> QED
                BY <4>1, <4>2, <4>3 DEF PathLevels
        <3> QED
            BY <1>4, <1>5, <3>7, <3>8 DEF LevelInv
    <2> QED
        BY <2>4, <2>5
<1> QED
    BY <1>6, <1>7

LEMMA NoPathLevels ==
    ASSUME Inv, LevelInv, NoPath
    PROVE  LevelInv'
<1>1. /\ request.search = "path" /\ status' = "no_static_path"
      /\ UNCHANGED <<request, graph, queue, current, reached, examined, cutoffs, split>>
    BY DEF NoPath, Running
<1>2. ShortestUnlessSplit'
    BY <1>1, NearestStays DEF Inv, LevelInv
<1>3. cutoffs' = {}
    BY <1>1 DEF LevelInv, Cuts
<1> QED
    BY <1>1, <1>2, <1>3 DEF LevelInv, PathLevels, ImpactLevels, Cuts

\* impact: all levels up to that of the current symbol have been visited.
LEMMA CurrentLevel ==
    ASSUME Inv, LevelInv, request.search = "impact", status = "running",
           NEW d \in Nat, d = reached[current].steps
    PROVE  Within[d] \subseteq visited
<1>1. TypeOK /\ \A n \in visited : NoNearer(n)
    BY DEF Inv, LevelInv, ShortestUnlessSplit, Cuts
<1>2. /\ \A i \in DOMAIN queue : reached[queue[i]].steps \in {d, d + 1}
      /\ \A n \in visited : n \in Range(queue) \/ reached[n].steps = request.depth \/ SeenBack(n)
    BY DEF LevelInv, ImpactLevels
<1>3. d <= request.depth /\ request.depth \in Nat
    <2>1. current \in visited
        BY <1>1 DEF TypeOK
    <2> QED
        BY <2>1, <1>1, SearchAssumption DEF LevelInv, Cuts, TypeOK, Request
<1>4. ASSUME NEW n \in visited, reached[n].steps < d PROVE Neighbours(n) \subseteq visited
    <2>1. PICK s \in Nat : s = reached[n].steps /\ s < d
        BY <1>1, <1>4, StepsType
    <2>2. n \notin Range(queue)
        BY <1>2, <2>1 DEF Range
    <2>3. reached[n].steps # request.depth
        BY <1>3, <2>1
    <2>4. SeenBack(n) /\ n # current
        BY <1>2, <2>1, <2>2, <2>3
    <2> QED
        BY <2>4 DEF SeenBack, Neighbours
<1> QED
    BY <1>1, <1>4, LevelVisited

\* The bounds met go on saying the same of the graph.
LEMMA CutsHold ==
    ASSUME TypeOK, request.search = "impact", UNCHANGED <<request, graph, split>>, ~split,
           \A n \in visited' : reached'[n].steps <= request.depth,
           "depth" \in cutoffs' => ~(Within[request.depth + 1] \subseteq Within[request.depth]),
           "nodes" \in cutoffs' => /\ status' = "ok"
                                  /\ Cardinality(visited') = request.limit + 1
                                  /\ ~(Within[request.depth] \subseteq visited')
    PROVE  Cuts'
<1>1. PICK d : d = request.depth /\ d = request'.depth
    OBVIOUS
<1>2. d \in Nat
    BY <1>1, SearchAssumption DEF TypeOK, Request
<1>3. Within'[d] = Within[d] /\ Within'[d + 1] = Within[d + 1]
    BY <1>2, WithinStays
<1>4. PICK w : w = Within'[d] /\ w = Within[d]
    BY <1>3
<1>5. PICK x : x = Within'[d + 1] /\ x = Within[d + 1]
    BY <1>3
<1>6. "depth" \in cutoffs' => ~(x \subseteq w)
    BY <1>1, <1>4, <1>5
<1>7. "nodes" \in cutoffs' => /\ status' = "ok"
                             /\ Cardinality(visited') = request'.limit + 1
                             /\ ~(w \subseteq visited')
    BY <1>1, <1>4
<1> QED
    BY <1>1, <1>4, <1>5, <1>6, <1>7 DEF Cuts

LEMMA NextSymbolLevels ==
    ASSUME Inv, LevelInv, NextSymbol
    PROVE  LevelInv'
<1>1. /\ request.search = "impact" /\ status = "running" /\ rows = {} /\ queue # <<>>
      /\ current' = Head(queue) /\ queue' = Tail(queue) /\ rows' = ImpactEdges(Head(queue))
      /\ UNCHANGED <<request, graph, reached, examined, cutoffs, status, split>>
    BY DEF NextSymbol, Running
<1>2. visited' = visited /\ TypeOK
    BY <1>1 DEF visited, Inv
<1>3. ShortestUnlessSplit' /\ PathLevels' /\ Cuts'
    <2>1. ShortestUnlessSplit'
        BY <1>1, NearestStays DEF Inv, LevelInv
    <2>2. PathLevels'
        BY <1>1 DEF PathLevels
    <2>3. Cuts'
        BY <1>1, <1>2, CutsHold DEF LevelInv, Cuts
    <2> QED
        BY <2>1, <2>2, <2>3
<1>4. ImpactLevels'
    <2>1. PICK l \in Nat : l = Len(queue) /\ DOMAIN queue = 1..l /\ l >= 1
        BY <1>1, <1>2 DEF TypeOK
    <2>2. /\ current' = queue[1] /\ DOMAIN queue' = 1..(l - 1)
          /\ \A i \in 1..(l - 1) : queue'[i] = queue[i + 1]
        BY <1>1, <1>2, <2>1 DEF TypeOK
    <2>3. Range(queue) = {current'} \cup Range(queue')
        BY <1>1, <1>2, HeadRange DEF TypeOK
    <2>4. /\ \A i \in 1..l : reached[queue[i]].steps \in {reached[current].steps, reached[current].steps + 1}
          /\ \A i, j \in 1..l : i <= j => reached[queue[i]].steps <= reached[queue[j]].steps
          /\ \A n \in visited : n \in Range(queue) \/ reached[n].steps = request.depth \/ SeenBack(n)
        BY <1>1, <2>1 DEF LevelInv, ImpactLevels
    <2>5. PICK d \in Nat : d = reached[current].steps
        <3>1. current \in visited
            BY <1>2 DEF TypeOK
        <3> QED
            BY <1>2, <3>1, StepsType
    <2>6. PICK c \in Nat : c = reached[queue[1]].steps /\ c \in {d, d + 1}
        <3>1. 1 \in 1..l
            BY <2>1
        <3>2. reached[queue[1]].steps \in {d, d + 1}
            BY <2>4, <2>5, <3>1
        <3>3. d + 1 \in Nat
            OBVIOUS
        <3> QED
            BY <3>2, <3>3
    <2>7. ASSUME NEW i \in 1..(l - 1) PROVE reached[queue'[i]].steps \in {c, c + 1}
        <3>1. i + 1 \in 1..l /\ 1 \in 1..l /\ 1 <= i + 1
            BY <2>1
        <3>2. PICK s : s = reached[queue[i + 1]].steps
            OBVIOUS
        <3>3. s \in {d, d + 1} /\ c <= s
            BY <2>4, <2>5, <2>6, <3>1, <3>2
        <3>4. s \in {c, c + 1}
            BY <2>6, <3>3
        <3> QED
            BY <2>2, <3>2, <3>4
    <2>8. ASSUME NEW i \in 1..(l - 1), NEW j \in 1..(l - 1), i <= j
          PROVE  reached[queue'[i]].steps <= reached[queue'[j]].steps
        <3>1. i + 1 \in 1..l /\ j + 1 \in 1..l /\ i + 1 <= j + 1
            BY <2>1, <2>8
        <3> QED
            BY <2>2, <2>4, <3>1
    <2>9. ASSUME NEW n \in visited
          PROVE  n \in Range(queue') \/ reached[n].steps = request.depth \/ SeenBack(n)'
        <3>1. CASE n = current'
            BY <1>1, <3>1 DEF SeenBack, ImpactEdges
        <3>2. CASE n # current' /\ SeenBack(n)
            BY <1>1, <1>2, <3>2 DEF SeenBack, ImpactEdges
        <3> QED
            BY <2>3, <2>4, <3>1, <3>2
    <2>10. rows' \subseteq ImpactEdges(current)'
        BY <1>1 DEF ImpactEdges
    <2> QED
        BY <1>1, <1>2, <2>2, <2>6, <2>7, <2>8, <2>9, <2>10 DEF ImpactLevels
<1> QED
    BY <1>3, <1>4 DEF LevelInv

\* A row that leads nowhere new.
LEMMA RowSeen ==
    ASSUME Inv, LevelInv, FollowRow, UNCHANGED <<queue, reached>>,
           \/ Affected(FirstRow(rows)) \in visited
           \/ reached[current].steps = request.depth
           \/ status' = "ok"
    PROVE  ShortestUnlessSplit' /\ PathLevels' /\ ImpactLevels'
<1>1. /\ request.search = "impact" /\ status = "running" /\ rows' = rows \ {FirstRow(rows)}
      /\ UNCHANGED <<request, graph, current, split>>
    BY DEF FollowRow, Running
<1>2. visited' = visited
    BY DEF visited
<1>3. ShortestUnlessSplit'
    BY <1>1, NearestStays DEF Inv, LevelInv
<1>4. PathLevels'
    BY <1>1 DEF PathLevels
<1>5. ImpactLevels'
    <2> SUFFICES ASSUME status' = "running" PROVE ImpactLevels'
        BY DEF ImpactLevels
    <2>1. /\ rows \subseteq ImpactEdges(current)
          /\ \A n \in visited : n \in Range(queue) \/ reached[n].steps = request.depth \/ SeenBack(n)
        BY <1>1 DEF LevelInv, ImpactLevels
    <2>2. rows' \subseteq ImpactEdges(current)'
        BY <1>1, <2>1 DEF ImpactEdges
    <2>3. ASSUME NEW n \in visited
          PROVE  n \in Range(queue) \/ reached[n].steps = request.depth \/ SeenBack(n)'
        <3> SUFFICES ASSUME SeenBack(n), reached[n].steps # request.depth PROVE SeenBack(n)'
            BY <2>1
        <3>1. \A e \in ImpactEdges(n) : Affected(e) \in visited \/ (n = current /\ e \in rows)
            BY DEF SeenBack
        <3>2. n = current => Affected(FirstRow(rows)) \in visited
            OBVIOUS
        <3>3. \A e \in ImpactEdges(n) : Affected(e) \in visited \/ (n = current /\ e \in rows')
            BY <1>1, <3>1, <3>2
        <3> QED
            BY <1>1, <1>2, <3>3 DEF SeenBack, ImpactEdges
    <2> QED
        BY <1>1, <1>2, <2>2, <2>3 DEF LevelInv, ImpactLevels
<1> QED
    BY <1>3, <1>4, <1>5

\* impact: while the search runs, its bounds are numbers and the symbols are
\* not yet too many.
LEMMA WhileRunning ==
    ASSUME Inv, LevelInv, request.search = "impact", status = "running"
    PROVE  /\ TypeOK /\ request.depth \in Nat /\ request.limit \in Nat /\ ~split
           /\ \A n \in visited : NoNearer(n) /\ reached[n].steps <= request.depth
           /\ "depth" \in cutoffs => ~(Within[request.depth + 1] \subseteq Within[request.depth])
           /\ "nodes" \notin cutoffs
<1>1. TypeOK
    BY DEF Inv
<1>2. request.depth \in Nat /\ request.limit \in Nat
    BY <1>1, SearchAssumption DEF TypeOK, Request
<1>3. ~split /\ \A n \in visited : NoNearer(n) /\ reached[n].steps <= request.depth
    BY DEF LevelInv, Cuts, ShortestUnlessSplit
<1> QED
    BY <1>1, <1>2, <1>3 DEF LevelInv, Cuts

\* A row that leads beyond the depth asked for leads out of what lies within.
LEMMA DeepRow ==
    ASSUME Inv, LevelInv, request.search = "impact", status = "running",
           NEW n \in Neighbours(current), n \notin visited, reached[current].steps = request.depth
    PROVE  ~(Within[request.depth + 1] \subseteq Within[request.depth])
<1>1. PICK d \in Nat : d = request.depth /\ d = reached[current].steps
    BY WhileRunning
<1>2. Within[d] \subseteq visited
    BY <1>1, CurrentLevel
<1>3. current \in Within[d]
    BY <1>1, WhileRunning DEF TypeOK, NoNearer
<1>4. n \in Within[d + 1]
    BY <1>3, WithinIs DEF StepByStep
<1> QED
    BY <1>1, <1>2, <1>4

\* A row that leads to one symbol too many leads to one within the depth.
LEMMA RowWithin ==
    ASSUME Inv, LevelInv, request.search = "impact", status = "running",
           NEW n \in Neighbours(current), n \notin visited, reached[current].steps # request.depth
    PROVE  ~(Within[request.depth] \subseteq visited)
<1>1. current \in visited
    BY WhileRunning DEF TypeOK
<1>2. PICK d \in Nat : d = reached[current].steps
    BY <1>1, WhileRunning, StepsType
<1>3. PICK m \in Nat : m = request.depth
    BY WhileRunning
<1>4. d <= m /\ d # m
    BY <1>1, <1>2, <1>3, WhileRunning
<1>5. current \in Within[d]
    BY <1>1, <1>2, WhileRunning DEF NoNearer
<1>6. n \in Within[d + 1]
    BY <1>5, WithinIs DEF StepByStep
<1>7. Within[d + 1] \subseteq Within[m]
    <2>1. d + 1 \in Nat /\ d + 1 <= m
        BY <1>4
    <2> QED
        BY <2>1, WithinGrows
<1> QED
    BY <1>3, <1>6, <1>7

\* A symbol that is reached waits at the end of the queue, one level on.
LEMMA ReachLevels ==
    ASSUME Inv, LevelInv, FollowRow, Reach(Affected(FirstRow(rows)), current),
           Affected(FirstRow(rows)) \notin visited, reached[current].steps # request.depth,
           UNCHANGED <<cutoffs, status>>
    PROVE  LevelInv'
<1>1. PICK n : n = Affected(FirstRow(rows))
    OBVIOUS
<1>2. /\ request.search = "impact" /\ status = "running" /\ rows' = rows \ {FirstRow(rows)}
      /\ UNCHANGED <<request, graph, current, split>> /\ Reach(n, current) /\ n \notin visited
    BY <1>1 DEF FollowRow, Running
<1>3. TypeOK /\ current \in visited
    BY <1>2, WhileRunning DEF TypeOK
<1>4. n \in Neighbours(current) /\ n \in Node
    <2>1. FirstRow(rows) \in rows /\ FirstRow(rows) \in ImpactEdges(current) /\ n \in Node
        BY <1>1, <1>2, <1>3, RowsAreEdges DEF FollowRow, LevelInv, ImpactLevels
    <2> QED
        BY <1>1, <1>2, <2>1 DEF Neighbours
<1>5. PICK d \in Nat : d = reached[current].steps
    BY <1>3, StepsType
<1>6. Within[d] \subseteq visited
    BY <1>2, <1>5, CurrentLevel
<1>7. \A k \in visited : NoNearer(k)
    BY <1>2, WhileRunning
<1>8. /\ \A k \in visited' : NoNearer(k)'
      /\ visited' = visited \cup {n} /\ reached'[n].steps = d + 1
      /\ \A k \in visited : reached'[k] = reached[k]
    BY <1>2, <1>3, <1>4, <1>5, <1>6, <1>7, ReachNearest
<1>9. ShortestUnlessSplit' /\ PathLevels'
    BY <1>2, <1>8 DEF ShortestUnlessSplit, PathLevels
<1>10. Cuts'
    <2>1. PICK m \in Nat : m = request.depth
        BY <1>2, WhileRunning
    <2>2. d <= m /\ d # m
        BY <1>2, <1>3, <1>5, <2>1, WhileRunning
    <2>3. d + 1 <= m
        BY <2>2
    <2>4. \A k \in visited' : reached'[k].steps <= request.depth
        BY <1>2, <1>8, <2>1, <2>3, WhileRunning
    <2> QED
        BY <1>2, <2>4, WhileRunning, CutsHold
<1>11. ImpactLevels'
    <2>1. PICK l \in Nat : l = Len(queue) /\ DOMAIN queue = 1..l
        BY <1>3 DEF TypeOK
    <2>2. /\ DOMAIN queue' = 1..(l + 1) /\ queue'[l + 1] = n
          /\ \A i \in 1..l : queue'[i] = queue[i]
        BY <1>2, <1>3, <2>1 DEF Reach, TypeOK
    <2>3. Range(queue') = Range(queue) \cup {n}
        BY <1>2, <1>3, <1>4, ReachTypes
    <2>4. /\ rows \subseteq ImpactEdges(current)
          /\ \A i \in 1..l : reached[queue[i]].steps \in {d, d + 1}
          /\ \A i, j \in 1..l : i <= j => reached[queue[i]].steps <= reached[queue[j]].steps
          /\ \A k \in visited : k \in Range(queue) \/ reached[k].steps = request.depth \/ SeenBack(k)
        BY <1>2, <1>5, <2>1 DEF LevelInv, ImpactLevels
    <2>5. \A i \in 1..l : queue[i] \in visited /\ reached'[queue'[i]] = reached[queue[i]]
        <3>1. \A i \in 1..l : queue[i] \in visited
            BY <1>3, <2>1 DEF TypeOK
        <3> QED
            BY <1>8, <2>2, <3>1
    <2>6. reached'[queue'[l + 1]].steps = d + 1 /\ \A i \in 1..(l + 1) : i \in 1..l \/ i = l + 1
        BY <1>8, <2>1, <2>2
    <2>7. \A i \in 1..(l + 1) : reached'[queue'[i]].steps \in {d, d + 1}
        BY <2>4, <2>5, <2>6
    <2>8. ASSUME NEW i \in 1..(l + 1), NEW j \in 1..(l + 1), i <= j
          PROVE  reached'[queue'[i]].steps <= reached'[queue'[j]].steps
        <3>1. CASE j \in 1..l
            <4>1. i \in 1..l
                BY <2>8, <3>1
            <4> QED
                BY <2>4, <2>5, <2>8, <3>1, <4>1
        <3>2. CASE j = l + 1
            <4>1. d <= d + 1 /\ d + 1 <= d + 1
                OBVIOUS
            <4> QED
                BY <2>6, <2>7, <3>2, <4>1
        <3> QED
            BY <2>6, <3>1, <3>2
    <2>9. ASSUME NEW k \in visited'
          PROVE  k \in Range(queue') \/ reached'[k].steps = request.depth \/ SeenBack(k)'
        <3>1. CASE k = n
            BY <2>3, <3>1
        <3>2. CASE k \in visited /\ SeenBack(k)
            <4>1. \A e \in ImpactEdges(k) : Affected(e) \in visited' \/ (k = current /\ e \in rows')
                BY <1>1, <1>2, <1>8, <3>2 DEF SeenBack
            <4> QED
                BY <1>2, <4>1 DEF SeenBack, ImpactEdges
        <3>3. CASE k \in visited /\ ~SeenBack(k)
            BY <1>8, <2>3, <2>4, <3>3
        <3> QED
            BY <1>8, <3>1, <3>2, <3>3
    <2>10. rows' \subseteq ImpactEdges(current)'
        BY <1>2, <2>4 DEF ImpactEdges
    <2>11. reached'[current'].steps = d
        BY <1>2, <1>3, <1>5, <1>8
    <2> QED
        BY <1>2, <2>2, <2>7, <2>8, <2>9, <2>10, <2>11 DEF ImpactLevels
<1> QED
    BY <1>9, <1>10, <1>11 DEF LevelInv

LEMMA FollowRowLevels ==
    ASSUME Inv, LevelInv, FollowRow
    PROVE  LevelInv'
<1>1. PICK n : n = Affected(FirstRow(rows))
    OBVIOUS
<1>2. /\ request.search = "impact" /\ status = "running" /\ rows' = rows \ {FirstRow(rows)}
      /\ UNCHANGED <<request, graph, current, split>>
    BY DEF FollowRow, Running
<1>3. TypeOK /\ current \in visited
    BY <1>2, WhileRunning DEF TypeOK
<1>4. n \in Neighbours(current)
    <2>1. FirstRow(rows) \in rows /\ FirstRow(rows) \in ImpactEdges(current)
        BY <1>2, <1>3, RowsAreEdges DEF FollowRow, LevelInv, ImpactLevels
    <2> QED
        BY <1>1, <1>2, <2>1 DEF Neighbours
<1>5. CASE TooDeep(n) /\ cutoffs' = cutoffs \cup {"depth"} /\ UNCHANGED <<queue, reached, status>>
    <2>1. n \notin visited /\ reached[current].steps = request.depth /\ visited' = visited
        BY <1>5 DEF TooDeep, visited
    <2>2. ShortestUnlessSplit' /\ PathLevels' /\ ImpactLevels'
        BY <1>5, <2>1, RowSeen
    <2>3. ~(Within[request.depth + 1] \subseteq Within[request.depth])
        BY <1>2, <1>4, <2>1, DeepRow
    <2>4. Cuts'
        BY <1>2, <1>5, <2>1, <2>3, WhileRunning, CutsHold
    <2> QED
        BY <2>2, <2>4 DEF LevelInv
<1>6. CASE n \in visited /\ UNCHANGED <<queue, reached, cutoffs, status>>
    <2>1. ShortestUnlessSplit' /\ PathLevels' /\ ImpactLevels'
        BY <1>1, <1>6, RowSeen
    <2>2. visited' = visited
        BY <1>6 DEF visited
    <2>3. Cuts'
        BY <1>2, <1>6, <2>2, WhileRunning, CutsHold
    <2> QED
        BY <2>1, <2>3 DEF LevelInv
<1>7. CASE /\ ~TooDeep(n) /\ n \notin visited /\ NoSlotLeft
           /\ cutoffs' = cutoffs \cup {"nodes"} /\ status' = "ok" /\ UNCHANGED <<queue, reached>>
    <2>1. visited' = visited /\ reached[current].steps # request.depth
        BY <1>7 DEF TooDeep, visited
    <2>2. ShortestUnlessSplit' /\ PathLevels' /\ ImpactLevels'
        BY <1>7, RowSeen
    <2>3. ~(Within[request.depth] \subseteq visited)
        BY <1>2, <1>4, <1>7, <2>1, RowWithin
    <2>4. Cardinality(visited) = request.limit + 1
        <3>1. IsFiniteSet(visited) /\ request.from \in visited
            BY <1>3, SearchAssumption, FS_Subset DEF TypeOK
        <3>2. Cardinality(visited \ {request.from}) = Cardinality(visited) - 1 /\ Cardinality(visited) \in Nat
            BY <3>1, FS_RemoveElement, FS_CardinalityType
        <3>3. PICK l \in Nat : l = request.limit
            BY <1>2, WhileRunning
        <3>4. Cardinality(visited \ {request.from}) = l
            BY <1>7, <3>3 DEF NoSlotLeft
        <3>5. PICK c \in Nat : c = Cardinality(visited)
            BY <3>2
        <3>6. c - 1 = l
            BY <3>2, <3>4, <3>5
        <3> QED
            BY <3>3, <3>5, <3>6
    <2>5. Cuts'
        BY <1>2, <1>7, <2>1, <2>3, <2>4, WhileRunning, CutsHold
    <2> QED
        BY <2>2, <2>5 DEF LevelInv
<1>8. CASE ~TooDeep(n) /\ n \notin visited /\ Reach(n, current) /\ UNCHANGED <<cutoffs, status>>
    <2>1. reached[current].steps # request.depth
        BY <1>8 DEF TooDeep
    <2> QED
        BY <1>1, <1>8, <2>1, ReachLevels
<1> QED
    BY <1>1, <1>5, <1>6, <1>7, <1>8 DEF FollowRow

\* impact: the end of a search disturbs no level.
LEMMA EndLevels ==
    ASSUME Inv, LevelInv, OutOfRows \/ Exhausted
    PROVE  LevelInv'
<1>1. /\ request.search = "impact" /\ status = "running" /\ status' = "ok"
      /\ cutoffs' \subseteq cutoffs \cup {"edges"}
      /\ UNCHANGED <<request, graph, reached, split>>
    BY DEF OutOfRows, Exhausted, Running
<1>2. visited' = visited
    BY <1>1 DEF visited
<1>3. ShortestUnlessSplit'
    BY <1>1, NearestStays DEF Inv, LevelInv
<1>4. "depth" \notin {"edges"} /\ "nodes" \notin {"edges"}
    OBVIOUS
<1>5. ("depth" \in cutoffs' => "depth" \in cutoffs) /\ "nodes" \notin cutoffs'
    BY <1>1, <1>4, WhileRunning
<1>6. Cuts'
    BY <1>1, <1>2, <1>5, WhileRunning, CutsHold
<1> QED
    BY <1>1, <1>3, <1>6 DEF LevelInv, PathLevels, ImpactLevels

LEMMA StandsLevels ==
    ASSUME Inv, LevelInv, UNCHANGED vars
    PROVE  LevelInv'
<1>1. UNCHANGED <<request, graph, queue, current, rows, reached, examined, cutoffs, status, split>>
      /\ visited' = visited
    BY DEF vars, visited
<1>2. ShortestUnlessSplit'
    BY <1>1, NearestStays DEF Inv, LevelInv
<1>3. PathLevels' /\ ImpactLevels'
    BY <1>1 DEF LevelInv, PathLevels, ImpactLevels, Seen, SeenBack, OutgoingCalls, ImpactEdges
<1>4. Cuts'
    <2>1. CASE request.search = "path"
        BY <1>1, <2>1 DEF LevelInv, Cuts
    <2>2. CASE request.search = "impact"
        BY <1>1, <2>2, CutsHold DEF Inv, LevelInv, Cuts
    <2> QED
        BY <2>1, <2>2, SearchAssumption DEF Inv, TypeOK, Request
<1> QED
    BY <1>2, <1>3, <1>4 DEF LevelInv

LEMMA SpecLevels == Spec => [](Inv /\ LevelInv)
<1>1. Init => Inv /\ LevelInv
    BY InitInv, InitLevels
<1>2. Inv /\ LevelInv /\ [Next]_vars => (Inv /\ LevelInv)'
    <2> SUFFICES ASSUME Inv, LevelInv, [Next]_vars PROVE Inv' /\ LevelInv'
        OBVIOUS
    <2>1. Inv'
        BY StepKeeps
    <2>2. LevelInv'
        BY BatchLevels, FollowCallLevels, NoPathLevels, NextSymbolLevels, FollowRowLevels,
           EndLevels, StandsLevels DEF Next
    <2> QED
        BY <2>1, <2>2
<1> QED
    BY <1>1, <1>2, PTL DEF Spec

-----------------------------------------------------------------------------
(* The theorems.                                                           *)

\* Every variable keeps its type (path_with_files, impact).
THEOREM SearchTypes == Spec => []TypeOK
<1>1. Inv => TypeOK
    BY DEF Inv
<1> QED
    BY <1>1, SpecInv, PTL

\* A search for a path that ends with room to spare has seen every symbol
\* there is to see: what it has visited is closed under calls and lacks the
\* target (path_with_files).
THEOREM NoPathIsNone == Spec => []NoPathMeansNone
<1>1. Inv => NoPathMeansNone
    <2> SUFFICES ASSUME Inv, status = "no_static_path", ~Full
                 PROVE  ~Reachable(request.to)
        BY DEF NoPathMeansNone
    <2>1. visited \in SUBSET Node /\ request.from \in visited
        BY DEF Inv, TypeOK
    <2>2. CASE request.search = "path"
        <3>1. /\ request.to \notin visited /\ rows = {} /\ queue = <<>>
              /\ \A n \in visited : n \in Range(queue) \/ Seen(n)
            BY <2>2 DEF Inv, PathInv
        <3>2. Range(queue) = {}
            BY <3>1 DEF Range
        <3>3. \A n \in visited : Neighbours(n) \subseteq visited
            BY <2>2, <3>1, <3>2 DEF Neighbours, Seen
        <3> QED
            BY <2>1, <3>1, <3>3 DEF Reachable, Closed
    <2>3. CASE request.search # "path"
        BY <2>3 DEF Inv, SaidOfPath
    <2> QED
        BY <2>2, <2>3
<1> QED
    BY <1>1, SpecInv, PTL

\* An impact that no bound has cut shows every symbol affected: what it has
\* visited is closed under dependencies (CodeFacts::impact).
THEOREM ExhaustedShowsAll == Spec => []ExhaustedMeansAll
<1>1. Inv => ExhaustedMeansAll
    <2> SUFFICES ASSUME Inv, request.search = "impact", status = "ok", cutoffs = {},
                        NEW n \in Node, Reachable(n)
                 PROVE  n \in visited
        BY DEF ExhaustedMeansAll
    <2>1. visited \in SUBSET Node /\ request.from \in visited
        BY DEF Inv, TypeOK
    <2>2. /\ rows = {} /\ queue = <<>>
          /\ \A m \in visited : m \in Range(queue) \/ SeenBack(m)
        BY DEF Inv, ImpactInv
    <2>3. Range(queue) = {}
        BY <2>2 DEF Range
    <2>4. \A m \in visited : Neighbours(m) \subseteq visited
        BY <2>2, <2>3 DEF Neighbours, SeenBack
    <2> QED
        BY <2>1, <2>4 DEF Reachable, Closed
<1> QED
    BY <1>1, SpecInv, PTL

\* Every symbol an impact reports, and every one of a path search whose batches
\* always took the whole queue, is as near as it is said to be: as many steps
\* away by the stored relationships, by way of the symbol that is reported, and
\* no fewer (service.rs, path_with_files; impact.rs).
THEOREM NearestFirst == Spec => []ShortestUnlessSplit
<1>1. Inv /\ LevelInv => ShortestUnlessSplit
    BY DEF LevelInv
<1> QED
    BY <1>1, SpecLevels, PTL

\* A cutoff that impact reports has left something out: a symbol one step beyond
\* the depth asked for, or one within it when the answer has no room left
\* (impact.rs).
THEOREM CutoffsLeaveOut == Spec => []CutoffsAreReal
<1>1. Inv /\ LevelInv => CutoffsAreReal
    BY DEF LevelInv, Cuts, CutoffsAreReal
<1> QED
    BY <1>1, SpecLevels, PTL

=============================================================================
