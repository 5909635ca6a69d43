----------------------------- MODULE GraphSearch -----------------------------
(***************************************************************************)
(* The two bounded breadth-first searches over the stored relationships:   *)
(* `path' follows calls from one symbol to another, a batch of the queue   *)
(* per statement and a bounded number of symbols in all; `impact' follows  *)
(* dependencies backwards, symbol by symbol, with bounds on depth, on      *)
(* symbols and on rows.  Each runs in one read scope, so the rows stand    *)
(* still.                                                                  *)
(***************************************************************************)
EXTENDS Naturals, Sequences, FiniteSets, Functions

CONSTANTS
    Node,          \* symbols and file anchors, as naturals in the order of their ids
    Container,     \* classes, modules, ...: symbols whose members are affected too
    Repositories,  \* the rows that may be stored
    Requests       \* the searches that may be asked for

Kind == {"calls", "contains", "heuristic", "references"}

Edge == [source: Node, target: Node, kind: Kind]

Request ==
    [search: {"path"}, from: Node, to: Node, limit: Nat \ {0}, budget: Nat]
    \cup [search: {"impact"}, from: Node, depth: Nat \ {0}, limit: Nat \ {0}, budget: Nat]

ASSUME SearchAssumption ==
    /\ Node \subseteq Nat /\ IsFiniteSet(Node)
    /\ Container \subseteq Node
    /\ Repositories \subseteq SUBSET Edge
    /\ Requests \subseteq Request

VARIABLES
    request,   \* what is searched
    graph,     \* the rows of the read scope
    queue,     \* symbols whose relationships are still to be read
    current,   \* the symbol whose rows impact has read
    rows,      \* rows read and not yet followed
    reached,   \* visited symbols: the symbol before each, and the steps to it
    examined,  \* rows impact has followed
    cutoffs,   \* bounds impact has met
    status,    \* how the search stands
    split      \* auxiliary: a batch has left a part of the queue behind

vars == <<request, graph, queue, current, rows, reached, examined, cutoffs, status, split>>

visited == DOMAIN reached

-----------------------------------------------------------------------------
(* The store.                                                              *)

KindRank == [calls |-> 0, contains |-> 1, heuristic |-> 2, references |-> 3]

\* ORDER BY source, target, type.
Before(e, f) ==
    \/ e.source < f.source
    \/ e.source = f.source /\ e.target < f.target
    \/ e.source = f.source /\ e.target = f.target /\ KindRank[e.kind] < KindRank[f.kind]

FirstRow(E) == CHOOSE e \in E : \A f \in E : e = f \/ Before(e, f)

\* get_confirmed_outgoing_edges: what a heuristic has bound is left out.
OutgoingCalls(S) == {e \in graph : e.kind = "calls" /\ e.source \in S}

\* get_confirmed_impact_edges: dependencies come in, members of a container
\* go out.
ImpactEdges(n) ==
    {e \in graph : \/ e.target = n /\ e.kind \in {"calls", "references"}
                   \/ e.source = n /\ e.kind = "contains" /\ n \in Container}

\* The other end of a row, for impact.
Affected(e) == IF e.kind = "contains" THEN e.target ELSE e.source

-----------------------------------------------------------------------------
Init ==
    /\ request \in Requests
    /\ graph \in Repositories
    /\ queue = <<request.from>>
    /\ current = request.from
    /\ rows = {}
    /\ reached = [n \in {request.from} |-> [via |-> n, steps |-> 0]]
    /\ examined = 0
    /\ cutoffs = {}
    /\ status = IF request.search = "path" /\ request.from = request.to THEN "ok" ELSE "running"
    /\ split = FALSE

Running(search) == status = "running" /\ request.search = search

\* Mutant: the newest symbol is followed first.
ReachFirst(n, m) ==
    /\ reached' = [k \in visited \cup {n} |->
                      IF k = n THEN [via |-> m, steps |-> reached[m].steps + 1] ELSE reached[k]]
    /\ queue' = <<n>> \o queue

\* Symbol n is visited, by way of m.
Reach(n, m) ==
    /\ reached' = [k \in visited \cup {n} |->
                      IF k = n THEN [via |-> m, steps |-> reached[m].steps + 1] ELSE reached[k]]
    /\ queue' = Append(queue, n)

Full == Cardinality(visited) >= request.budget

Least(a, b) == IF a < b THEN a ELSE b

\* Mutant: the whole queue is taken and a part of it looked up.
BatchDropsRest(size) == <<>>

\* What stays in the queue.
AfterBatch(size) == SubSeq(queue, size + 1, Len(queue))

\* path: one statement for as much of the queue as symbols may still be
\* visited.
NextBatch ==
    /\ Running("path") /\ rows = {} /\ queue # <<>> /\ ~Full
    /\ LET size == Least(Len(queue), request.budget - Cardinality(visited))
       IN  /\ rows' = OutgoingCalls(Range(SubSeq(queue, 1, size)))
           /\ queue' = AfterBatch(size)
           /\ split' = (split \/ size < Len(queue))
    /\ UNCHANGED <<request, graph, current, reached, examined, cutoffs, status>>

\* A path of so many steps is one symbol longer.
Verdict(steps) == IF steps + 1 > request.limit THEN "path_too_long" ELSE "ok"

\* path: the next row.
FollowCall ==
    /\ Running("path") /\ rows # {} /\ ~Full
    /\ LET e == FirstRow(rows)
       IN  /\ rows' = rows \ {e}
           /\ \/ e.target \in visited /\ UNCHANGED <<queue, reached, status>>
              \/ /\ e.target \notin visited
                 /\ Reach(e.target, e.source)
                 /\ status' = IF e.target = request.to
                              THEN Verdict(reached[e.source].steps + 1) ELSE "running"
    /\ UNCHANGED <<request, graph, current, examined, cutoffs, split>>

\* path: the queue is empty, or no more symbols may be visited.
NoPath ==
    /\ Running("path")
    /\ Full \/ (rows = {} /\ queue = <<>>)
    /\ status' = "no_static_path"
    /\ rows' = {}
    /\ UNCHANGED <<request, graph, queue, current, reached, examined, cutoffs, split>>

\* impact: the rows of the next symbol.
NextSymbol ==
    /\ Running("impact") /\ rows = {} /\ queue # <<>>
    /\ current' = Head(queue)
    /\ queue' = Tail(queue)
    /\ rows' = ImpactEdges(Head(queue))
    /\ UNCHANGED <<request, graph, reached, examined, cutoffs, status, split>>

\* Mutant: rows that lead nowhere new count as depth.
DeepAnyway(n) == reached[current].steps = request.depth

\* All slots are taken, so that one more symbol is one too many.
NoSlotLeft == Cardinality(visited \ {request.from}) = request.limit

\* A symbol not visited yet lies beyond the depth asked for.
TooDeep(n) == reached[current].steps = request.depth /\ n \notin visited

\* impact: the next row, as long as rows may be examined.
FollowRow ==
    /\ Running("impact") /\ rows # {} /\ examined < request.budget
    /\ examined' = examined + 1
    /\ LET e == FirstRow(rows)
           n == Affected(e)
       IN  /\ rows' = rows \ {e}
           /\ \/ /\ TooDeep(n)
                 /\ cutoffs' = cutoffs \cup {"depth"}
                 /\ UNCHANGED <<queue, reached, status>>
              \/ /\ ~TooDeep(n) /\ n \in visited
                 /\ UNCHANGED <<queue, reached, cutoffs, status>>
              \/ /\ ~TooDeep(n) /\ n \notin visited /\ NoSlotLeft
                 /\ cutoffs' = cutoffs \cup {"nodes"}
                 /\ status' = "ok"
                 /\ UNCHANGED <<queue, reached>>
              \/ /\ ~TooDeep(n) /\ n \notin visited /\ ~NoSlotLeft
                 /\ Reach(n, current)
                 /\ UNCHANGED <<cutoffs, status>>
    /\ UNCHANGED <<request, graph, current, split>>

\* Mutant: no row more than may be examined is asked for.
OutOfRowsUnseen ==
    /\ Running("impact") /\ rows # {} /\ examined = request.budget
    /\ status' = "ok"
    /\ UNCHANGED <<request, graph, queue, current, rows, reached, examined, cutoffs, split>>

\* impact: more rows than may be examined.
OutOfRows ==
    /\ Running("impact") /\ rows # {} /\ examined = request.budget
    /\ cutoffs' = cutoffs \cup {"edges"}
    /\ status' = "ok"
    /\ UNCHANGED <<request, graph, queue, current, rows, reached, examined, split>>

Exhausted ==
    /\ Running("impact") /\ rows = {} /\ queue = <<>>
    /\ status' = "ok"
    /\ UNCHANGED <<request, graph, queue, current, rows, reached, examined, cutoffs, split>>

Next ==
    \/ NextBatch \/ FollowCall \/ NoPath
    \/ NextSymbol \/ FollowRow \/ OutOfRows \/ Exhausted

Spec == Init /\ [][Next]_vars

-----------------------------------------------------------------------------
(* The symbols a search is about, without a search.                        *)

Neighbours(n) ==
    IF request.search = "path" THEN {e.target : e \in OutgoingCalls({n})}
                               ELSE {Affected(e) : e \in ImpactEdges(n)}

\* Symbols at most k steps away.
Within[k \in Nat] ==
    IF k = 0 THEN {request.from}
    ELSE LET nearer == Within[k - 1] IN nearer \cup UNION {Neighbours(n) : n \in nearer}

Closed(S) == request.from \in S /\ \A n \in S : Neighbours(n) \subseteq S

Reachable(n) == \A S \in SUBSET Node : Closed(S) => n \in S

Statuses == {"running", "ok", "path_too_long", "no_static_path"}

\* Every variable has its type; what waits in the queue has been visited, and
\* every visited symbol but the first has been reached from another.
TypeOK ==
    /\ request \in Requests /\ graph \in Repositories
    /\ queue \in Seq(visited) /\ current \in visited /\ request.from \in visited
    /\ rows \subseteq graph
    /\ reached \in [visited -> [via: visited, steps: Nat]] /\ visited \subseteq Node
    /\ examined \in Nat /\ cutoffs \subseteq {"depth", "nodes", "edges"}
    /\ status \in Statuses /\ split \in BOOLEAN

\* `No path' is said of a search that has seen everything or as much as it
\* may: one that still had room has missed nothing (service.rs, path_with_files).
NoPathMeansNone ==
    status = "no_static_path" /\ ~Full => ~Reachable(request.to)

NoNearer(n) ==
    LET steps == reached[n].steps
    IN  /\ n \in Within[steps]
        /\ steps > 0 => /\ n \notin Within[steps - 1]
                        /\ n \in Neighbours(reached[n].via)
                        /\ reached[reached[n].via].steps = steps - 1

\* Every symbol is reached by a chain of stored relationships, and none is
\* shorter: all of impact's distances and witnesses, and the paths of a search
\* that always had room for the whole queue.
ShortestUnlessSplit == ~split => \A n \in visited : NoNearer(n)

\* A path is a shortest one, and too long only if all are (README, `path').
\* A batch that leaves a part of the queue behind refutes it.
ShortestPath ==
    /\ status = "ok" => (request.search = "path" => NoNearer(request.to))
    /\ status = "path_too_long" => NoNearer(request.to)

\* An impact that calls itself exhausted shows every symbol affected, however
\* the bounds on depth, symbols and rows coincide with what there is.
ExhaustedMeansAll ==
    request.search = "impact" /\ status = "ok" /\ cutoffs = {} =>
        \A n \in Node : Reachable(n) => n \in visited

\* Bounds that have only been filled are not reported: with a bound on depth
\* there is a symbol just beyond it, with one on symbols the answer is full
\* and lacks one (impact.rs, "filling the last output slot alone").
CutoffsAreReal ==
    status = "ok" =>
        /\ "depth" \in cutoffs => ~(Within[request.depth + 1] \subseteq Within[request.depth])
        /\ "nodes" \in cutoffs =>
              /\ Cardinality(visited) = request.limit + 1
              /\ ~(Within[request.depth] \subseteq visited)

=============================================================================
