---------------------------- MODULE RefreshProofs ----------------------------
(***************************************************************************)
(* What holds of the refresh for any files and texts: for any number of    *)
(* processes, that a stored hash vouches for exactly the rows its text     *)
(* makes; for one, that it cannot be told from a from-scratch index, and   *)
(* what its answers rest on.                                               *)
(***************************************************************************)
EXTENDS Refresh, SequenceFacts

-----------------------------------------------------------------------------
(* What the pure operators of FactStore return, for any texts and any set of *)
(* nodes.                                                                    *)

\* The definition that get_all_nodes lists first among several is one of them.
LEMMA FirstOfIn ==
    ASSUME NEW S \in SUBSET Node, S # {}
    PROVE  FirstOf(S) \in S
<1>1. \A n \in S : n.file \in Nat /\ n.line \in Nat
    BY FileAssumption DEF Node
<1> DEFINE files == {n.file : n \in S}
<1>2. PICK f \in files : \A g \in files : f <= g
    <2>1. files # {} /\ files \subseteq Nat
        BY <1>1
    <2> QED
        BY <2>1, LeastNatural
<1> DEFINE lines == {n.line : n \in {m \in S : m.file = f}}
<1>3. PICK l \in lines : \A k \in lines : l <= k
    <2>1. lines # {} /\ lines \subseteq Nat
        BY <1>1, <1>2
    <2> QED
        BY <2>1, LeastNatural
<1>4. PICK n \in S : n.file = f /\ n.line = l
    BY <1>3
<1>5. ASSUME NEW m \in S PROVE ~Before(m, n)
    <2>1. n.file <= m.file
        BY <1>2, <1>4
    <2>2. m.file = n.file => n.line <= m.line
        BY <1>3, <1>4
    <2> QED
        BY <1>1, <2>1, <2>2 DEF Before
<1> QED
    BY <1>5 DEF FirstOf

\* A call is bound to definitions of its name among those it is resolved
\* against.
LEMMA CallTargetsIn ==
    ASSUME NEW f, NEW call, NEW N \in SUBSET Node
    PROVE  CallBinding(f, call, N).targets \subseteq Named(call.name, N)
<1> DEFINE all   == Candidates(call, N)
           local == InFiles(all, {f})
<1>1. /\ all \subseteq Named(call.name, N) /\ local \subseteq all /\ Bounded(all) \subseteq all
      /\ all \subseteq Node
    BY DEF Candidates, Named, InFiles, Bounded
<1>2. all # {} => FirstOf(all) \in all
    BY FirstOfIn, <1>1
<1>3. CASE call.form = "member"
    BY <1>1, <1>3 DEF CallBinding
<1>4. CASE call.form # "member" /\ Single(local)
    BY <1>1, <1>4 DEF CallBinding
<1>5. CASE call.form # "member" /\ ~Single(local) /\ (all = {} \/ Single(all))
    BY <1>1, <1>5 DEF CallBinding
<1>6. CASE call.form # "member" /\ ~Single(local) /\ ~(all = {} \/ Single(all))
    BY <1>1, <1>2, <1>6 DEF CallBinding
<1> QED
    BY <1>3, <1>4, <1>5, <1>6

\* What the extractor chooses is of the name, if there is any.
LEMMA ExtractedTargetIn ==
    ASSUME NEW f, NEW name, NEW N \in SUBSET Node, Named(name, N) # {}
    PROVE  ExtractedTarget(f, name, N) \in Named(name, N)
<1> DEFINE local == InFiles(Named(name, N), {f})
<1>1. local \subseteq Named(name, N) /\ Named(name, N) \subseteq Node
    BY DEF InFiles, Named
<1>2. local # {} => FirstOf(local) \in local
    BY <1>1, FirstOfIn
<1>3. FirstOf(Named(name, N)) \in Named(name, N)
    BY <1>1, FirstOfIn
<1> QED
    BY <1>1, <1>2, <1>3 DEF ExtractedTarget

\* An edge row is well typed when its call site and its target are.
LEMMA EdgeToType ==
    ASSUME NEW f \in File, NEW call, NEW N, NEW t \in Node \cup {None},
           call.line \in Nat, call.name \in Name, call.form \in Form
    PROVE  EdgeTo(f, call, N, t) \in CallEdge
<1>1. CallBinding(f, call, N).resolution \in Resolution
    BY DEF CallBinding, Resolution
<1> QED
    BY <1>1 DEF EdgeTo, CallEdge

\* The rows of a call site are well typed when the site is.
LEMMA CallEdgesType ==
    ASSUME NEW f \in File, NEW call, NEW N \in SUBSET Node,
           call.line \in Nat, call.name \in Name, call.form \in Form
    PROVE  CallEdges(f, call, N) \subseteq CallEdge /\ InitialCallEdges(f, call, N) \subseteq CallEdge
<1> DEFINE targets == CallBinding(f, call, N).targets
<1>1. targets \subseteq Named(call.name, N) /\ Named(call.name, N) \subseteq Node
    BY CallTargetsIn DEF Named
<1>2. CallEdges(f, call, N) \subseteq CallEdge
    BY <1>1, EdgeToType DEF CallEdges
<1>3. targets # {} => EdgeTo(f, call, N, ExtractedTarget(f, call.name, N)) \in CallEdge
    BY <1>1, ExtractedTargetIn, EdgeToType
<1> QED
    BY <1>2, <1>3 DEF InitialCallEdges

\* A call site has at least one row, and each of its rows keeps the site.
LEMMA CallEdgesSite ==
    ASSUME NEW f, NEW call, NEW N, NEW E \in {CallEdges(f, call, N), InitialCallEdges(f, call, N)}
    PROVE  /\ E # {}
           /\ \A e \in E :
                 /\ e.file = f /\ e.line = call.line
                 /\ e.name = call.name /\ e.form = call.form
<1> DEFINE OfSite(e) == /\ e.file = f /\ e.line = call.line
                        /\ e.name = call.name /\ e.form = call.form
<1>1. \A t : OfSite(EdgeTo(f, call, N, t))
    BY DEF EdgeTo
<1> HIDE DEF OfSite
<1>2. CallEdges(f, call, N) # {} /\ \A e \in CallEdges(f, call, N) : OfSite(e)
    BY <1>1 DEF CallEdges
<1>3. InitialCallEdges(f, call, N) # {} /\ \A e \in InitialCallEdges(f, call, N) : OfSite(e)
    BY <1>1, <1>2 DEF InitialCallEdges
<1> QED
    BY <1>2, <1>3 DEF OfSite

\* The rows of a site depend on the nodes of the name it spells, and on no
\* other: what lets a refresh leave the other rows alone.
LEMMA CallEdgesLocal ==
    ASSUME NEW f, NEW call, NEW other, NEW N, NEW M,
           call.line = other.line, call.name = other.name, call.form = other.form,
           Named(call.name, N) = Named(call.name, M)
    PROVE  CallEdges(f, call, N) = CallEdges(f, other, M)
<1>1. Candidates(call, N) = Candidates(other, M)
    BY DEF Candidates, Binds
<1>2. CallBinding(f, call, N) = CallBinding(f, other, M)
    BY <1>1 DEF CallBinding
<1>3. \A t : EdgeTo(f, call, N, t) = EdgeTo(f, other, M, t)
    BY <1>1, <1>2 DEF EdgeTo
<1> QED
    BY <1>2, <1>3 DEF CallEdges

-----------------------------------------------------------------------------
(* The two functions that bind a call.                                     *)

\* A call can bind to every definition of the name it spells, or to none.
NamesUnmixed ==
    \A c \in Content : \A call \in Calls[c] :
        \A d, e \in Content : \A x \in Defs[d], y \in Defs[e] :
            x.name = call.name /\ y.name = call.name =>
                (Binds(call, x.kind) <=> Binds(call, y.kind))

\* Nodes that some texts define.
FromTexts(N) ==
    \A n \in N : \E d \in Content : \E x \in Defs[d] : n.name = x.name /\ n.kind = x.kind

\* Where names are not mixed, pass 2 and a later rebinding write the same rows
\* for a call site: the extractor's choice is the one certain candidate.
LEMMA InitialIsRebound ==
    ASSUME NamesUnmixed, NEW f, NEW c \in Content, NEW call \in Calls[c],
           NEW N \in SUBSET Node, FromTexts(N)
    PROVE  InitialCallEdges(f, call, N) = CallEdges(f, call, N)
<1> DEFINE all   == Candidates(call, N)
           named == Named(call.name, N)
           local == InFiles(all, {f})
           bound == CallBinding(f, call, N)
<1> SUFFICES ASSUME bound.targets # {}, bound.resolution = "direct"
             PROVE  bound.targets = {ExtractedTarget(f, call.name, N)}
    BY DEF InitialCallEdges, CallEdges
<1>1. all # {}
    BY DEF CallBinding, Bounded, InFiles, Single
<1>2. named = all
    <2>1. PICK m \in all : TRUE
        BY <1>1
    <2>2. m \in named /\ Binds(call, m.kind)
        BY <2>1 DEF Candidates
    <2>3. ASSUME NEW n \in named PROVE Binds(call, n.kind)
        <3>1. n \in N /\ n.name = call.name /\ m \in N /\ m.name = call.name
            BY <2>2, <2>3 DEF Named
        <3>2. PICK d \in Content : \E x \in Defs[d] : n.name = x.name /\ n.kind = x.kind
            BY <3>1 DEF FromTexts
        <3>3. PICK e \in Content : \E y \in Defs[e] : m.name = y.name /\ m.kind = y.kind
            BY <3>1 DEF FromTexts
        <3>4. PICK x \in Defs[d] : n.name = x.name /\ n.kind = x.kind
            BY <3>2
        <3>5. PICK y \in Defs[e] : m.name = y.name /\ m.kind = y.kind
            BY <3>3
        <3>6. Binds(call, x.kind) <=> Binds(call, y.kind)
            BY <3>1, <3>4, <3>5, Zenon DEF NamesUnmixed
        <3> QED
            BY <2>2, <3>4, <3>5, <3>6
    <2> QED
        BY <2>3 DEF Candidates
<1>3. /\ call.form # "member"
      /\ \/ Single(local) /\ bound.targets = local
         \/ ~Single(local) /\ Single(all) /\ bound.targets = all
    BY <1>1 DEF CallBinding
<1>4. \A S \in SUBSET Node : Single(S) => S = {FirstOf(S)}
    BY FirstOfIn DEF Single
<1>5. local \in SUBSET Node /\ all \in SUBSET Node /\ local \subseteq all
    BY DEF InFiles, Candidates, Named
<1>6. ExtractedTarget(f, call.name, N) = FirstOf(IF local # {} THEN local ELSE all)
    BY <1>2 DEF ExtractedTarget
<1>7. CASE Single(local) /\ bound.targets = local
    BY <1>4, <1>5, <1>6, <1>7 DEF Single
<1>8. CASE ~Single(local) /\ Single(all) /\ bound.targets = all
    <2>1. local = {}
        BY <1>5, <1>8 DEF Single
    <2> QED
        BY <1>4, <1>5, <1>6, <1>8, <2>1
<1> QED
    BY <1>3, <1>7, <1>8

\* The same for all calls of a text.
LEMMA FileCallsAreRebound ==
    ASSUME NamesUnmixed, NEW f, NEW c \in Content, NEW N \in SUBSET Node, FromTexts(N)
    PROVE  FileCallEdges(f, c, N) = UNION {CallEdges(f, call, N) : call \in Calls[c]}
BY InitialIsRebound DEF FileCallEdges

\* An import is bound to nodes among those it is resolved against.
LEMMA ImportTargetsIn ==
    ASSUME NEW i, NEW paths, NEW N \in SUBSET Node
    PROVE  ImportTargets(i, paths, N) \subseteq N
<1> DEFINE path  == ResolvedPath(i, paths)
           local == InFiles(N, {path})
           named == Named(i.name, local)
           all   == Named(i.name, N)
<1>1. local \subseteq N /\ named \subseteq all /\ all \subseteq N /\ N \subseteq Node
    BY DEF InFiles, Named
<1>2. named # {} => FirstOf(named) \in N
    BY <1>1, FirstOfIn
<1>3. all # {} => FirstOf(all) \in N
    BY <1>1, FirstOfIn
<1>4. CASE path = None \/ i.name = Wildcard
    BY <1>1, <1>4 DEF ImportTargets
<1>5. CASE path # None /\ i.name # Wildcard /\ named # {}
    BY <1>2, <1>5 DEF ImportTargets
<1>6. CASE path # None /\ i.name # Wildcard /\ named = {}
    BY <1>3, <1>6 DEF ImportTargets
<1> QED
    BY <1>4, <1>5, <1>6

-----------------------------------------------------------------------------
(* The sets a refresh derives from its walk.                               *)

\* A parsed file holds the text it was parsed from, was walked, and is not
\* removed.
LEMMA ParsedIsText ==
    ASSUME TypeOK, NEW p \in Process, NEW f \in Parsed(p)
    PROVE  f \in File /\ outcome[p][f] \in Content /\ f \in Walked(p) /\ f \notin RemovedPaths(p)
BY ProcessAssumption DEF Parsed, Walked, RemovedPaths

\* A removed path is a file of the repository.
LEMMA RemovedIsFile ==
    ASSUME NEW p \in Process
    PROVE  RemovedPaths(p) \subseteq File /\ Touched(p) \subseteq File
BY DEF RemovedPaths, StoredFiles, Touched, Parsed

\* A text's definitions become node rows.
LEMMA NodesOfType ==
    ASSUME NEW f \in File, NEW c \in Content
    PROVE  NodesOf(f, c) \subseteq Node
BY ContentAssumption DEF NodesOf, Node, Def

\* Pass 1 makes node rows.
LEMMA ParsedNodesType ==
    ASSUME TypeOK, NEW p \in Process
    PROVE  ParsedNodes(p) \subseteq Node
BY ParsedIsText, NodesOfType DEF ParsedNodes

\* Pass 2 binds against node rows.
LEMMA NodeIndexType ==
    ASSUME TypeOK, NEW p \in Process
    PROVE  NodeIndex(p) \subseteq Node
BY ParsedNodesType DEF NodeIndex, NotInFiles, TypeOK

\* The transaction writes node rows.
LEMMA NewNodesType ==
    ASSUME TypeOK, NEW p \in Process
    PROVE  NewNodes(p) \subseteq Node
BY ParsedNodesType DEF NewNodes, NotInFiles, TypeOK, Database

\* The call rows of a text are well typed.
LEMMA FileCallEdgesType ==
    ASSUME NEW f \in File, NEW c \in Content, NEW N \in SUBSET Node
    PROVE  FileCallEdges(f, c, N) \subseteq CallEdge
<1>1. ASSUME NEW call \in Calls[c]
      PROVE  InitialCallEdges(f, call, N) \subseteq CallEdge
    <2>1. call.line \in Nat /\ call.name \in Name /\ call.form \in Form
        BY ContentAssumption DEF Call
    <2> QED
        BY <2>1, CallEdgesType
<1> QED
    BY <1>1 DEF FileCallEdges

\* Replacing the calls of the touched files keeps the rows' type.
LEMMA ReplacedCallsType ==
    ASSUME TypeOK, NEW p \in Process
    PROVE  ReplacedCalls(p) \subseteq CallEdge
<1>1. NotInFiles(db.calls, Touched(p)) \subseteq CallEdge
    BY DEF NotInFiles, TypeOK, Database
<1>2. \A f \in Parsed(p) : FileCallEdges(f, outcome[p][f], NodeIndex(p)) \subseteq CallEdge
    BY ParsedIsText, NodeIndexType, FileCallEdgesType
<1> QED
    BY <1>1, <1>2 DEF ReplacedCalls

\* Rebinding changed names keeps the call rows' type.
LEMMA NewCallsType ==
    ASSUME TypeOK, NEW p \in Process
    PROVE  NewCalls(p) \subseteq CallEdge
<1>1. ASSUME NEW e \in ReplacedCalls(p)
      PROVE  CallEdges(e.file, e, NewNodes(p)) \subseteq CallEdge
    <2>1. e.file \in File /\ e.line \in Nat /\ e.name \in Name /\ e.form \in Form
        BY <1>1, ReplacedCallsType DEF CallEdge
    <2> QED
        BY <2>1, CallEdgesType, NewNodesType
<1>2. Rebound(p, ReplacedCalls(p), NewNodes(p)) \subseteq CallEdge
    BY <1>1, ReplacedCallsType DEF Rebound
<1> QED
    BY <1>2, ReplacedCallsType DEF NewCalls

\* The transaction writes import rows.
LEMMA NewRawType ==
    ASSUME TypeOK, NEW p \in Process
    PROVE  NewRaw(p) \subseteq RawImport
<1>1. NotInFiles(db.raw, Touched(p)) \subseteq RawImport
    BY DEF NotInFiles, TypeOK, Database
<1>2. \A f \in Parsed(p) : RawImportsOf(f, outcome[p][f]) \subseteq RawImport
    BY ParsedIsText, ContentAssumption DEF RawImportsOf, RawImport
<1> QED
    BY <1>1, <1>2 DEF NewRaw

\* Resolving imports makes import edges and gaps.
LEMMA NewImportsType ==
    ASSUME TypeOK, NEW p \in Process
    PROVE  NewImports(p) \subseteq ImportEdge /\ NewUnresolved(p) \subseteq ImportGap
<1>1. \A r \in NewRaw(p) : r.file \in File /\ r.import.line \in Nat
    BY NewRawType DEF RawImport, Import
<1>2. \A r \in NewRaw(p) : ImportTargets(r.import, Walked(p), NewNodes(p)) \subseteq Node
    BY NewNodesType, ImportTargetsIn
<1>3. NewImports(p) \subseteq ImportEdge
    BY <1>1, <1>2 DEF NewImports, ResolvedImports, ImportEdge
<1>4. NewUnresolved(p) \subseteq ImportGap
    BY <1>1 DEF NewUnresolved, UnresolvedImports, ImportGap
<1> QED
    BY <1>3, <1>4

\* A hash is only stored for a parsed text.
LEMMA NewHashesType ==
    ASSUME TypeOK, NEW p \in Process
    PROVE  NewHashes(p) \in Hashes
BY ParsedIsText DEF NewHashes, Hashes, TypeOK, Database

\* A commit leaves a database.
LEMMA CommittedType ==
    ASSUME TypeOK, NEW p \in Process
    PROVE  Committed(p) \in Database
<1>1. db.generation + 1 \in Nat /\ (db.reindex /\ incremental[p]) \in BOOLEAN
    BY DEF TypeOK, Database
<1> QED
    BY <1>1, NewNodesType, NewCallsType, NewRawType, NewImportsType, NewHashesType
       DEF Committed, NextGeneration, TypeOK, Database

-----------------------------------------------------------------------------
(* Types.                                                                  *)

\* A stored file's hash stands for a text.
LEMMA StoredIsText ==
    ASSUME NEW h \in Hashes, NEW f \in StoredFiles(h)
    PROVE  f \in File /\ h[f] \in Content
BY DEF StoredFiles, Hashes

\* The rows made for a set of hashes are rows.
LEMMA RowsForType ==
    ASSUME NEW h \in Hashes
    PROVE  NodesFor(h) \subseteq Node /\ RawImportsFor(h) \subseteq RawImport
<1>1. NodesFor(h) \subseteq Node
    BY StoredIsText, NodesOfType DEF NodesFor
<1>2. \A f \in StoredFiles(h) : RawImportsOf(f, h[f]) \subseteq RawImport
    BY StoredIsText, ContentAssumption DEF RawImportsOf, RawImport
<1> QED
    BY <1>1, <1>2 DEF RawImportsFor

\* What an earlier version built is a database.
LEMMA BuiltDbType ==
    ASSUME NEW h \in Hashes, NEW v \in Version
    PROVE  BuiltDb(h, v) \in Database
<1>1. CallEdgesFor(h, NodesFor(h)) \subseteq CallEdge
    BY StoredIsText, RowsForType, FileCallEdgesType DEF CallEdgesFor
<1>2. \A r \in RawImportsFor(h) :
        /\ r.file \in File /\ r.import.line \in Nat
        /\ ImportTargets(r.import, StoredFiles(h), NodesFor(h)) \subseteq Node
    BY RowsForType, ImportTargetsIn DEF RawImport, Import
<1>3. ResolvedImports(RawImportsFor(h), StoredFiles(h), NodesFor(h)) \subseteq ImportEdge
    BY <1>2 DEF ResolvedImports, ImportEdge
<1>4. UnresolvedImports(RawImportsFor(h), StoredFiles(h)) \subseteq ImportGap
    BY <1>2 DEF UnresolvedImports, ImportGap
<1> QED
    BY <1>1, <1>3, <1>4, RowsForType DEF BuiltDb, Database

\* The initial states have their types.
LEMMA InitType == Init => TypeOK
<1> SUFFICES ASSUME Init PROVE TypeOK
    OBVIOUS
<1>1. NoHashes \in Hashes
    BY DEF NoHashes, Hashes
<1>2. db \in Database
    <2>1. EmptyDb \in Database
        BY <1>1 DEF EmptyDb, Database
    <2>2. db = EmptyDb \/ \E h \in Hashes, v \in Version : db = BuiltDb(h, v)
        BY DEF Init
    <2> QED
        BY <2>1, <2>2, BuiltDbType
<1>3. extractedBy \in [File -> Version \cup {None}]
    BY DEF Init, NoHashes, Hashes
<1>4. importPaths \in SUBSET File
    BY DEF Init, StoredFiles
<1>5. outcome \in [Process -> [File -> Outcome]] /\ stored \in [Process -> Hashes]
    BY <1>1 DEF Init, Unvisited, Outcome
<1>6. seen \in [Process -> [File -> SUBSET DiskText]]
    BY DEF Init, Unseen
<1> QED
    BY <1>2, <1>3, <1>4, <1>5, <1>6, ProcessAssumption DEF Init, TypeOK, Phase

\* Dropping a request's locals keeps their types.
LEMMA ForgetType ==
    ASSUME TypeOK, NEW p \in Process, Forget(p)
    PROVE  /\ incremental' \in [Process -> BOOLEAN]
           /\ outcome' \in [Process -> [File -> Outcome]]
           /\ stored' \in [Process -> Hashes]
           /\ removedNodes' \in [Process -> SUBSET Node]
           /\ existing' \in [Process -> SUBSET Node]
           /\ label' \in [Process -> Nat]
           /\ seen' \in [Process -> [File -> SUBSET DiskText]]
<1>1. NoHashes \in Hashes /\ Unvisited \in [File -> Outcome] /\ Unseen \in [File -> SUBSET DiskText]
    BY DEF NoHashes, Hashes, Unvisited, Outcome, Unseen
<1> QED
    BY <1>1 DEF Forget, TypeOK

\* Every step keeps the types.
LEMMA StepType == TypeOK /\ [Next]_vars => TypeOK'
<1> SUFFICES ASSUME TypeOK, [Next]_vars PROVE TypeOK'
    OBVIOUS
<1>1. ASSUME NEW f \in File, Edit(f) PROVE TypeOK'
    <2>1. disk' \in [File -> DiskText] /\ edits' \in 0..MaxEdits
        BY <1>1, ProcessAssumption DEF Edit, TypeOK
    <2>2. seen' \in [Process -> [File -> SUBSET DiskText]]
        BY <1>1 DEF Edit, TypeOK
    <2> QED
        BY <1>1, <2>1, <2>2 DEF Edit, TypeOK, locals, aux
<1>2. ASSUME NEW p \in Process, Crash(p) PROVE TypeOK'
    BY <1>2, ForgetType DEF Crash, TypeOK, Phase, aux
<1>3. ASSUME NEW p \in Process, Fail(p) PROVE TypeOK'
    BY <1>3, ForgetType DEF Fail, TypeOK, Phase, aux
<1>4. ASSUME NEW p \in Process, Answer(p) PROVE TypeOK'
    BY <1>4, ForgetType DEF Answer, TypeOK, Phase, aux
<1>5. ASSUME NEW p \in Process, Open(p) PROVE TypeOK'
    BY <1>5, ProcessAssumption DEF Open, TypeOK, Phase, Database, locals, aux
<1>6. ASSUME NEW p \in Process, BeginRefresh(p) PROVE TypeOK'
    BY <1>6 DEF BeginRefresh, TypeOK, Phase, Database, aux
<1>7. ASSUME NEW p \in Process, NEW f \in File, Visit(p, f) PROVE TypeOK'
    BY <1>7 DEF Visit, TypeOK, Outcome, aux
<1>8. ASSUME NEW p \in Process, ReadHashes(p) PROVE TypeOK'
    BY <1>8 DEF ReadHashes, TypeOK, Phase, Database, aux
<1>9. ASSUME NEW p \in Process, NEW f \in File, ReadFile(p, f) PROVE TypeOK'
    <2>1. Examined(p, f) \in Outcome
        BY DEF Examined, TypeOK, Outcome, DiskText
    <2> QED
        BY <1>9, <2>1 DEF ReadFile, TypeOK, aux
<1>10. ASSUME NEW p \in Process, ReadRemovedNodes(p) PROVE TypeOK'
    BY <1>10 DEF ReadRemovedNodes, TypeOK, Phase, Database, InFiles, aux
<1>11. ASSUME NEW p \in Process, ReadExistingNodes(p) PROVE TypeOK'
    BY <1>11 DEF ReadExistingNodes, TypeOK, Phase, Database, aux
<1>12. ASSUME NEW p \in Process, Commit(p) PROVE TypeOK'
    <2>1. db' \in Database
        BY <1>12, CommittedType DEF Commit
    <2>2. extractedBy' \in [File -> Version \cup {None}]
        BY <1>12, ProcessAssumption DEF Commit, TypeOK
    <2>3. importPaths' \in SUBSET File
        BY <1>12 DEF Commit, Walked
    <2> QED
        BY <1>12, <2>1, <2>2, <2>3 DEF Commit, TypeOK, Phase, locals
<1>13. ASSUME NEW p \in Process, CommitEmptyFullPass(p) PROVE TypeOK'
    BY <1>13 DEF CommitEmptyFullPass, TypeOK, Phase, Database, locals, aux
<1>14. ASSUME NEW p \in Process, ReadGeneration(p) PROVE TypeOK'
    BY <1>14 DEF ReadGeneration, TypeOK, Phase, Database, locals, aux
<1>15. CASE UNCHANGED vars
    BY <1>15 DEF vars, locals, aux, TypeOK
<1> QED
    BY <1>1, <1>2, <1>3, <1>4, <1>5, <1>6, <1>7, <1>8, <1>9, <1>10, <1>11, <1>12,
       <1>13, <1>14, <1>15 DEF Next, RefreshStep

\* Type correctness, for any number of processes over any files and texts.
THEOREM TypeCorrect == Spec => []TypeOK
BY InitType, StepType, PTL DEF Spec

-----------------------------------------------------------------------------
(* A stored hash vouches for exactly the rows of its text.                 *)

\* Call sites as they stand in a text.
SitesOf(f, c) ==
    {[file |-> f, line |-> call.line, name |-> call.name, form |-> call.form] :
        call \in Calls[c]}

\* The call rows of one text are at the sites it writes.
LEMMA SitesOfFile ==
    ASSUME NEW f, NEW c, NEW N
    PROVE  CallSites(FileCallEdges(f, c, N)) = SitesOf(f, c)
<1>1. ASSUME NEW s \in CallSites(FileCallEdges(f, c, N))
      PROVE  s \in SitesOf(f, c)
    <2>1. PICK call \in Calls[c] : \E e \in InitialCallEdges(f, call, N) :
            s = [file |-> e.file, line |-> e.line, name |-> e.name, form |-> e.form]
        BY <1>1 DEF CallSites, FileCallEdges
    <2> QED
        BY <2>1, CallEdgesSite DEF SitesOf
<1>2. ASSUME NEW call \in Calls[c]
      PROVE  [file |-> f, line |-> call.line, name |-> call.name, form |-> call.form]
                \in CallSites(FileCallEdges(f, c, N))
    <2>1. PICK e \in InitialCallEdges(f, call, N) :
            /\ e.file = f /\ e.line = call.line
            /\ e.name = call.name /\ e.form = call.form
        BY CallEdgesSite
    <2>2. e \in FileCallEdges(f, c, N)
        BY <2>1 DEF FileCallEdges
    <2> QED
        BY <2>1, <2>2 DEF CallSites
<1> QED
    BY <1>1, <1>2 DEF SitesOf

\* Binding the occurrences of changed names again moves their targets, not
\* their sites.
LEMMA ReboundSites ==
    ASSUME NEW p, NEW calls, NEW N
    PROVE  CallSites(Rebound(p, calls, N)) = CallSites(calls)
<1> DEFINE site(e) == [file |-> e.file, line |-> e.line, name |-> e.name, form |-> e.form]
<1>1. ASSUME NEW s \in CallSites(Rebound(p, calls, N))
      PROVE  s \in CallSites(calls)
    <2>1. PICK e \in Rebound(p, calls, N) : s = site(e)
        BY <1>1 DEF CallSites
    <2>2. CASE e \in calls
        BY <2>1, <2>2 DEF CallSites
    <2>3. CASE \E d \in calls : e \in CallEdges(d.file, d, N)
        <3>1. PICK d \in calls : e \in CallEdges(d.file, d, N)
            BY <2>3
        <3>2. site(e) = site(d)
            BY <3>1, CallEdgesSite
        <3> QED
            BY <2>1, <3>1, <3>2 DEF CallSites
    <2> QED
        BY <2>1, <2>2, <2>3 DEF Rebound
<1>2. ASSUME NEW d \in calls
      PROVE  site(d) \in CallSites(Rebound(p, calls, N))
    <2>1. CASE d.name \notin ChangedNames(p)
        BY <2>1 DEF CallSites, Rebound
    <2>2. CASE d.name \in ChangedNames(p)
        <3>1. PICK e \in CallEdges(d.file, d, N) : site(e) = site(d)
            BY CallEdgesSite
        <3>2. e \in Rebound(p, calls, N)
            BY <2>2, <3>1 DEF Rebound
        <3> QED
            BY <3>1, <3>2 DEF CallSites
    <2> QED
        BY <2>1, <2>2
<1> QED
    BY <1>1, <1>2 DEF CallSites

\* After a commit a file has a hash when it was parsed, or had one and was
\* left alone; its text is the parsed one or the one it had.
LEMMA StoredAfter ==
    ASSUME TypeOK, NEW p \in Process
    PROVE  /\ StoredFiles(NewHashes(p)) = Parsed(p) \cup (StoredFiles(db.hashes) \ Touched(p))
           /\ \A f \in Parsed(p) : NewHashes(p)[f] = outcome[p][f]
           /\ \A f \in File \ Touched(p) : NewHashes(p)[f] = db.hashes[f]
<1>1. \A f \in Parsed(p) : NewHashes(p)[f] = outcome[p][f] /\ NewHashes(p)[f] # None
    BY ParsedIsText, ContentAssumption DEF NewHashes
<1>2. \A f \in File \ Touched(p) : NewHashes(p)[f] = db.hashes[f]
    BY DEF NewHashes, Touched
<1>3. \A f \in RemovedPaths(p) : NewHashes(p)[f] = None
    BY ParsedIsText, RemovedIsFile DEF NewHashes
<1>4. Parsed(p) \subseteq File
    BY DEF Parsed
<1> QED
    BY <1>1, <1>2, <1>3, <1>4 DEF StoredFiles, Touched

\* The node rows after the commit are those of its hashes.
LEMMA NodesAfter ==
    ASSUME TypeOK, FactsMatchHashes, NEW p \in Process
    PROVE  NewNodes(p) = NodesFor(NewHashes(p))
<1>1. NotInFiles(NodesFor(db.hashes), Touched(p))
        = UNION {NodesOf(f, db.hashes[f]) : f \in StoredFiles(db.hashes) \ Touched(p)}
    BY DEF NotInFiles, NodesFor, NodesOf
<1>2. NodesFor(NewHashes(p))
        = ParsedNodes(p)
            \cup UNION {NodesOf(f, db.hashes[f]) : f \in StoredFiles(db.hashes) \ Touched(p)}
    BY StoredAfter DEF NodesFor, ParsedNodes, StoredFiles
<1> QED
    BY <1>1, <1>2 DEF NewNodes, FactsMatchHashes

\* The import rows after the commit are those of its hashes.
LEMMA RawAfter ==
    ASSUME TypeOK, FactsMatchHashes, NEW p \in Process
    PROVE  NewRaw(p) = RawImportsFor(NewHashes(p))
<1>1. NotInFiles(RawImportsFor(db.hashes), Touched(p))
        = UNION {RawImportsOf(f, db.hashes[f]) : f \in StoredFiles(db.hashes) \ Touched(p)}
    BY DEF NotInFiles, RawImportsFor, RawImportsOf
<1>2. RawImportsFor(NewHashes(p))
        = (UNION {RawImportsOf(f, outcome[p][f]) : f \in Parsed(p)})
            \cup UNION {RawImportsOf(f, db.hashes[f]) :
                            f \in StoredFiles(db.hashes) \ Touched(p)}
    BY StoredAfter DEF RawImportsFor, StoredFiles
<1> QED
    BY <1>1, <1>2 DEF NewRaw, FactsMatchHashes

\* The call sites after the commit are those of its hashes.
LEMMA SitesAfter ==
    ASSUME TypeOK, FactsMatchHashes, NEW p \in Process
    PROVE  CallSites(NewCalls(p)) = CallSitesFor(NewHashes(p))
<1> DEFINE kept   == UNION {SitesOf(f, db.hashes[f]) :
                               f \in StoredFiles(db.hashes) \ Touched(p)}
           parsed == UNION {SitesOf(f, outcome[p][f]) : f \in Parsed(p)}
<1>1. CallSites(NotInFiles(db.calls, Touched(p))) = kept
    <2>1. CallSites(NotInFiles(db.calls, Touched(p))) = NotInFiles(CallSites(db.calls), Touched(p))
        BY DEF CallSites, NotInFiles
    <2>2. CallSites(db.calls) = UNION {SitesOf(f, db.hashes[f]) : f \in StoredFiles(db.hashes)}
        BY Zenon DEF FactsMatchHashes, CallSitesFor, SitesOf
    <2>3. \A f : \A s \in SitesOf(f, db.hashes[f]) : s.file = f
        BY DEF SitesOf
    <2> QED
        BY <2>1, <2>2, <2>3 DEF NotInFiles
<1>2. CallSites(UNION {FileCallEdges(f, outcome[p][f], NodeIndex(p)) : f \in Parsed(p)}) = parsed
    <2>1. \A f \in Parsed(p) :
            CallSites(FileCallEdges(f, outcome[p][f], NodeIndex(p))) = SitesOf(f, outcome[p][f])
        BY SitesOfFile
    <2> QED
        BY <2>1 DEF CallSites
<1>3. CallSites(ReplacedCalls(p)) = kept \cup parsed
    BY <1>1, <1>2 DEF ReplacedCalls, CallSites
<1>4. CallSites(NewCalls(p)) = CallSites(ReplacedCalls(p))
    BY ReboundSites DEF NewCalls
<1>5. CallSitesFor(NewHashes(p)) = kept \cup parsed
    <2>1. CallSitesFor(NewHashes(p))
            = UNION {SitesOf(f, NewHashes(p)[f]) : f \in StoredFiles(NewHashes(p))}
        BY Zenon DEF CallSitesFor, SitesOf
    <2> QED
        BY <2>1, StoredAfter DEF StoredFiles
<1> QED
    BY <1>3, <1>4, <1>5

\* Initially the rows match the hashes.
LEMMA InitFacts == Init => FactsMatchHashes
<1> SUFFICES ASSUME Init PROVE FactsMatchHashes
    OBVIOUS
<1>1. CASE db = EmptyDb
    BY <1>1 DEF EmptyDb, FactsMatchHashes, NodesFor, RawImportsFor, CallSites, CallSitesFor,
                StoredFiles, NoHashes
<1>2. ASSUME NEW h \in Hashes, NEW v \in Version, db = BuiltDb(h, v)
      PROVE  FactsMatchHashes
    <2>1. \A f \in StoredFiles(h) :
            CallSites(FileCallEdges(f, h[f], NodesFor(h))) = SitesOf(f, h[f])
        BY SitesOfFile
    <2>2. CallSites(CallEdgesFor(h, NodesFor(h))) = UNION {SitesOf(f, h[f]) : f \in StoredFiles(h)}
        BY <2>1 DEF CallEdgesFor, CallSites
    <2>3. CallSitesFor(h) = UNION {SitesOf(f, h[f]) : f \in StoredFiles(h)}
        BY Zenon DEF CallSitesFor, SitesOf
    <2> QED
        BY <1>2, <2>2, <2>3 DEF BuiltDb, FactsMatchHashes
<1> QED
    BY <1>1, <1>2 DEF Init

\* Every step keeps the rows in step with the hashes.
LEMMA StepFacts == TypeOK /\ FactsMatchHashes /\ [Next]_vars => FactsMatchHashes'
<1> SUFFICES ASSUME TypeOK, FactsMatchHashes, [Next]_vars PROVE FactsMatchHashes'
    OBVIOUS
<1>1. ASSUME NEW p \in Process, Commit(p) PROVE FactsMatchHashes'
    <2>1. /\ db'.nodes = NewNodes(p) /\ db'.raw = NewRaw(p)
          /\ db'.calls = NewCalls(p) /\ db'.hashes = NewHashes(p)
        BY <1>1 DEF Commit, Committed, TypeOK, Database
    <2> QED
        BY <2>1, NodesAfter, RawAfter, SitesAfter DEF FactsMatchHashes
<1>2. CASE UNCHANGED <<db.nodes, db.raw, db.calls, db.hashes>>
    BY <1>2 DEF FactsMatchHashes
<1>3. ASSUME NEW p \in Process, Open(p) \/ CommitEmptyFullPass(p)
      PROVE  UNCHANGED <<db.nodes, db.raw, db.calls, db.hashes>>
    BY <1>3 DEF Open, CommitEmptyFullPass, TypeOK, Database
<1>4. ASSUME UNCHANGED db PROVE UNCHANGED <<db.nodes, db.raw, db.calls, db.hashes>>
    BY <1>4
<1> QED
    BY <1>1, <1>2, <1>3, <1>4
       DEF Next, RefreshStep, Edit, Crash, Fail, Answer, BeginRefresh, Visit, ReadHashes,
           ReadFile, ReadRemovedNodes, ReadExistingNodes, ReadGeneration, vars

\* However the commits of several processes interleave with edits, crashes and
\* failures, the rows of a file are those of the text its hash stands for.
THEOREM HashesVouchForFacts == Spec => []FactsMatchHashes
BY InitType, StepType, InitFacts, StepFacts, PTL DEF Spec

-----------------------------------------------------------------------------
(* Imports, generations and extraction versions, for any number of         *)
(* processes.                                                              *)

\* Initially the imports are resolved over the stored rows.
LEMMA InitImports == Init => ImportsCurrent
<1> SUFFICES ASSUME Init PROVE ImportsCurrent
    OBVIOUS
<1>1. CASE db = EmptyDb /\ importPaths = {}
    BY <1>1 DEF EmptyDb, ImportsCurrent, ResolvedImports, UnresolvedImports
<1>2. ASSUME NEW h \in Hashes, NEW v \in Version, db = BuiltDb(h, v), importPaths = StoredFiles(h)
      PROVE  ImportsCurrent
    BY <1>2 DEF BuiltDb, ImportsCurrent
<1> QED
    BY <1>1, <1>2 DEF Init

\* Every step keeps the imports resolved over the stored rows.
LEMMA StepImports == TypeOK /\ ImportsCurrent /\ [Next]_vars => ImportsCurrent'
<1> SUFFICES ASSUME TypeOK, ImportsCurrent, [Next]_vars PROVE ImportsCurrent'
    OBVIOUS
<1>1. ASSUME NEW p \in Process, Commit(p) PROVE ImportsCurrent'
    <2>1. /\ db'.nodes = NewNodes(p) /\ db'.raw = NewRaw(p) /\ importPaths' = Walked(p)
          /\ db'.imports = NewImports(p) /\ db'.unresolved = NewUnresolved(p)
        BY <1>1 DEF Commit, Committed, TypeOK, Database
    <2> QED
        BY <2>1 DEF ImportsCurrent, NewImports, NewUnresolved
<1>2. CASE UNCHANGED <<db.nodes, db.raw, db.imports, db.unresolved, importPaths>>
    BY <1>2 DEF ImportsCurrent
<1>3. ASSUME NEW p \in Process, Open(p) \/ CommitEmptyFullPass(p)
      PROVE  UNCHANGED <<db.nodes, db.raw, db.imports, db.unresolved, importPaths>>
    BY <1>3 DEF Open, CommitEmptyFullPass, TypeOK, Database, aux
<1>4. ASSUME UNCHANGED <<db, aux>>
      PROVE  UNCHANGED <<db.nodes, db.raw, db.imports, db.unresolved, importPaths>>
    BY <1>4 DEF aux
<1> QED
    BY <1>1, <1>2, <1>3, <1>4
       DEF Next, RefreshStep, Edit, Crash, Fail, Answer, BeginRefresh, Visit, ReadHashes,
           ReadFile, ReadRemovedNodes, ReadExistingNodes, ReadGeneration, vars

\* The resolved imports and the unresolved report are always those of the
\* stored import rows over the stored nodes, whoever committed them.
THEOREM ImportsStayCurrent == Spec => []ImportsCurrent
BY InitType, StepType, InitImports, StepImports, PTL DEF Spec

\* Every step that changes the facts raises the generation.
LEMMA StepGeneration ==
    TypeOK /\ [Next]_vars =>
        [/\ db'.generation >= db.generation
         /\ Facts(db') # Facts(db) => db'.generation > db.generation]_vars
<1> SUFFICES ASSUME TypeOK, Next
             PROVE  /\ db'.generation >= db.generation
                    /\ Facts(db') # Facts(db) => db'.generation > db.generation
    OBVIOUS
<1>1. db.generation \in Nat
    BY DEF TypeOK, Database
<1>2. ASSUME NEW p \in Process, Commit(p)
      PROVE  db'.generation = db.generation + 1
    BY <1>2 DEF Commit, Committed, NextGeneration, TypeOK, Database
<1>3. CASE db'.generation = db.generation /\ Facts(db') = Facts(db)
    BY <1>1, <1>3
<1>4. ASSUME NEW p \in Process, Open(p) \/ CommitEmptyFullPass(p)
      PROVE  db'.generation = db.generation /\ Facts(db') = Facts(db)
    BY <1>4 DEF Open, CommitEmptyFullPass, TypeOK, Database, Facts
<1>5. ASSUME UNCHANGED db
      PROVE  db'.generation = db.generation /\ Facts(db') = Facts(db)
    BY <1>5 DEF Facts
<1> QED
    BY <1>1, <1>2, <1>3, <1>4, <1>5
       DEF Next, RefreshStep, Edit, Crash, Fail, Answer, BeginRefresh, Visit, ReadHashes,
           ReadFile, ReadRemovedNodes, ReadExistingNodes, ReadGeneration

\* The generation never goes back and names one set of facts, which is what a
\* cursor relies on when it carries the generation of its page.
THEOREM GenerationsNameFacts == Spec => GenerationNamesFacts
BY InitType, StepType, StepGeneration, PTL DEF Spec, GenerationNamesFacts

\* What keeps the rebuild marker honest: a running process belongs to the
\* stored version, and a full pass has read the hash of every file that still
\* carries facts of another version.
ExtractionInv ==
    /\ CurrentExtraction
    /\ \A p \in Process : pc[p] # "closed" => db.version = VersionOf[p]
    /\ \A f \in File : db.hashes[f] = None => extractedBy[f] = None
    /\ \A p \in Process, f \in File :
          /\ pc[p] \in {"read", "existing", "commit"}
          /\ ~incremental[p]
          /\ extractedBy[f] \notin {None, db.version}
          => stored[p][f] # None

OneVersion == \A p, q \in Process : VersionOf[p] = VersionOf[q]

\* The extraction invariant holds initially.
LEMMA InitExtraction == Init => ExtractionInv
<1> SUFFICES ASSUME Init PROVE ExtractionInv
    OBVIOUS
<1>1. CASE db = EmptyDb /\ extractedBy = NoHashes
    BY <1>1 DEF Init, EmptyDb, NoHashes, ExtractionInv, CurrentExtraction
<1>2. ASSUME NEW h \in Hashes, NEW v \in Version, db = BuiltDb(h, v),
             extractedBy = [f \in File |-> IF h[f] = None THEN None ELSE v]
      PROVE  ExtractionInv
    BY <1>2 DEF Init, BuiltDb, ExtractionInv, CurrentExtraction
<1> QED
    BY <1>1, <1>2 DEF Init

\* A full pass leaves alone only files it has read no hash for.
LEMMA FullPassTouches ==
    ASSUME TypeOK, NEW p \in Process, ~incremental[p]
    PROVE  StoredFiles(stored[p]) \subseteq Touched(p)
BY ParsedIsText DEF Touched, RemovedPaths

\* Every step keeps the extraction invariant.
LEMMA StepExtraction ==
    ASSUME OneVersion
    PROVE  TypeOK /\ ExtractionInv /\ [Next]_vars => ExtractionInv'
<1> SUFFICES ASSUME TypeOK, ExtractionInv, [Next]_vars PROVE ExtractionInv'
    OBVIOUS
<1>1. ASSUME NEW p \in Process, Commit(p) PROVE ExtractionInv'
    <2>1. /\ db'.version = db.version /\ db'.hashes = NewHashes(p)
          /\ db'.reindex = (db.reindex /\ incremental[p])
          /\ db.version = VersionOf[p]
        BY <1>1 DEF Commit, Committed, TypeOK, Database, ExtractionInv
    <2>2. \A f \in File : extractedBy'[f] \in {None, db.version} \/
                          (f \notin Touched(p) /\ extractedBy'[f] = extractedBy[f])
        BY <1>1, <2>1 DEF Commit, Touched
    <2>3. CurrentExtraction'
        <3>1. CASE incremental[p]
            BY <2>1, <2>2, <3>1 DEF ExtractionInv, CurrentExtraction
        <3>2. CASE ~incremental[p]
            <4>1. \A f \in File \ Touched(p) : stored[p][f] = None
                BY <3>2, FullPassTouches DEF StoredFiles
            <4> QED
                BY <1>1, <2>1, <2>2, <3>2, <4>1 DEF Commit, ExtractionInv, CurrentExtraction
        <3> QED
            BY <3>1, <3>2 DEF TypeOK
    <2>4. \A f \in File : db'.hashes[f] = None => extractedBy'[f] = None
        BY <1>1, <2>1, ParsedIsText, ContentAssumption DEF Commit, NewHashes, ExtractionInv
    <2>5. \A q \in Process : pc'[q] # "closed" => db'.version = VersionOf[q]
        BY <1>1, <2>1 DEF Commit, TypeOK, ExtractionInv
    <2>6. \A q \in Process, f \in File :
            /\ pc'[q] \in {"read", "existing", "commit"}
            /\ ~incremental'[q]
            /\ extractedBy'[f] \notin {None, db'.version}
            => stored'[q][f] # None
        BY <1>1, <2>1, <2>2 DEF Commit, TypeOK, ExtractionInv, locals
    <2> QED
        BY <2>3, <2>4, <2>5, <2>6 DEF ExtractionInv
<1>2. ASSUME NEW p \in Process, Open(p) PROVE ExtractionInv'
    <2>1. /\ db'.version = VersionOf[p] /\ db'.hashes = db.hashes
          /\ db'.reindex = (db.reindex \/ db.version # VersionOf[p])
        BY <1>2 DEF Open, TypeOK, Database
    <2>2. \A q \in Process : pc[q] # "closed" => db.version = VersionOf[p]
        BY DEF ExtractionInv, OneVersion
    <2>3. \A q \in Process : q # p => pc'[q] = pc[q]
        BY <1>2 DEF Open, TypeOK
    <2>4. pc'[p] = "idle"
        BY <1>2 DEF Open, TypeOK
    <2> QED
        BY <1>2, <2>1, <2>2, <2>3, <2>4, ProcessAssumption
           DEF Open, ExtractionInv, CurrentExtraction, OneVersion, locals, aux
<1>3. ASSUME NEW p \in Process, CommitEmptyFullPass(p) PROVE ExtractionInv'
    <2>1. /\ db'.version = db.version /\ db'.hashes = db.hashes
          /\ db'.reindex = (db.reindex /\ incremental[p])
        BY <1>3 DEF CommitEmptyFullPass, TypeOK, Database
    <2>2. CASE incremental[p]
        BY <1>3, <2>1, <2>2
           DEF CommitEmptyFullPass, TypeOK, ExtractionInv, CurrentExtraction, locals, aux
    <2>3. CASE ~incremental[p]
        <3>1. \A f \in File : stored[p][f] = None
            BY <1>3, <2>3, FullPassTouches DEF CommitEmptyFullPass, StoredFiles
        <3> QED
            BY <1>3, <2>1, <2>3, <3>1
               DEF CommitEmptyFullPass, TypeOK, ExtractionInv, CurrentExtraction, locals, aux
    <2> QED
        BY <2>2, <2>3 DEF TypeOK
<1>4. ASSUME NEW p \in Process, ReadHashes(p) PROVE ExtractionInv'
    BY <1>4 DEF ReadHashes, TypeOK, ExtractionInv, CurrentExtraction, aux
<1>5. ASSUME NEW p \in Process, Forget(p), UNCHANGED <<db, aux>>, pc[p] # "closed",
             pc' = [pc EXCEPT ![p] = "closed"] \/ pc' = [pc EXCEPT ![p] = "idle"]
      PROVE  ExtractionInv'
    BY <1>5 DEF Forget, TypeOK, ExtractionInv, CurrentExtraction, aux
<1>6. ASSUME NEW p \in Process,
             BeginRefresh(p) \/ ReadRemovedNodes(p) \/ ReadExistingNodes(p) \/ ReadGeneration(p)
      PROVE  ExtractionInv'
    <2>1. /\ UNCHANGED <<db, extractedBy, stored>>
          /\ pc[p] # "closed" /\ pc'[p] # "closed"
          /\ \A q \in Process \ {p} : pc'[q] = pc[q] /\ incremental'[q] = incremental[q]
        BY <1>6 DEF BeginRefresh, ReadRemovedNodes, ReadExistingNodes, ReadGeneration, TypeOK,
                    locals, aux
    <2>2. \/ pc'[p] \notin {"read", "existing", "commit"}
          \/ pc[p] \in {"read", "existing", "commit"} /\ incremental'[p] = incremental[p]
        BY <1>6 DEF BeginRefresh, ReadRemovedNodes, ReadExistingNodes, ReadGeneration, TypeOK,
                    locals
    <2> QED
        BY <2>1, <2>2 DEF ExtractionInv, CurrentExtraction
<1>7. ASSUME UNCHANGED <<db, pc, incremental, stored, aux>> PROVE ExtractionInv'
    BY <1>7 DEF ExtractionInv, CurrentExtraction, aux
<1> QED
    BY <1>1, <1>2, <1>3, <1>4, <1>5, <1>6, <1>7
       DEF Next, RefreshStep, Edit, Crash, Fail, Answer, Visit, ReadFile, vars, locals

\* When every process runs one extraction version, a clear rebuild marker
\* means that no fact of an earlier version is left, for any number of
\* processes.  (Across two versions it fails: README, section 6.)
THEOREM OneVersionExtraction ==
    ASSUME OneVersion
    PROVE  Spec => []CurrentExtraction
<1>1. ExtractionInv => CurrentExtraction
    BY DEF ExtractionInv
<1>2. TypeOK /\ ExtractionInv /\ [Next]_vars => ExtractionInv'
    BY StepExtraction
<1> QED
    BY <1>1, <1>2, InitType, StepType, InitExtraction, PTL DEF Spec

-----------------------------------------------------------------------------
(* Call rows, when one process writes the database.                        *)

\* Everything the sole process read outside its transaction is still what the
\* database holds; with two processes none of this is kept.
SoleInv(p) ==
    /\ CallsCurrent
    /\ pc[p] \in {"read", "existing", "commit"} => stored[p] = db.hashes
    /\ pc[p] \in {"existing", "commit"} => removedNodes[p] = InFiles(db.nodes, RemovedPaths(p))
    /\ pc[p] = "existing" => incremental[p]
    /\ pc[p] = "commit" => existing[p] = IF incremental[p] THEN db.nodes ELSE {}
    /\ pc[p] \in {"closed", "idle", "visit", "read", "existing"} => existing[p] = {}

\* The rows of a stored file stand in a stored file.
LEMMA RowsInStoredFiles ==
    ASSUME FactsMatchHashes, CallsCurrent
    PROVE  /\ \A n \in db.nodes : n.file \in StoredFiles(db.hashes)
           /\ \A e \in db.calls : e.file \in StoredFiles(db.hashes)
<1>1. \A n \in db.nodes : n.file \in StoredFiles(db.hashes)
    BY DEF FactsMatchHashes, NodesFor, NodesOf
<1>2. ASSUME NEW e \in db.calls PROVE e.file \in StoredFiles(db.hashes)
    <2>1. PICK f \in StoredFiles(db.hashes) : e \in FileCallEdges(f, db.hashes[f], db.nodes)
        BY <1>2 DEF CallsCurrent, CallEdgesFor
    <2>2. PICK call \in Calls[db.hashes[f]] : e \in InitialCallEdges(f, call, db.nodes)
        BY <2>1 DEF FileCallEdges
    <2> QED
        BY <2>1, <2>2, CallEdgesSite
<1> QED
    BY <1>1, <1>2

\* A full pass binds every call it keeps.
LEMMA FullPassCalls ==
    ASSUME TypeOK, FactsMatchHashes, NEW p \in Process, SoleInv(p), pc[p] = "commit",
           ~incremental[p]
    PROVE  NewCalls(p) = CallEdgesFor(NewHashes(p), NewNodes(p))
<1>1. StoredFiles(db.hashes) \subseteq Touched(p)
    BY FullPassTouches DEF SoleInv
<1>2. NotInFiles(db.calls, Touched(p)) = {} /\ NotInFiles(db.nodes, Touched(p)) = {}
    BY <1>1, RowsInStoredFiles DEF SoleInv, NotInFiles
<1>3. NodeIndex(p) = ParsedNodes(p) /\ NewNodes(p) = ParsedNodes(p)
    BY <1>2 DEF SoleInv, NodeIndex, NewNodes, NotInFiles
<1>4. StoredFiles(NewHashes(p)) = Parsed(p)
    BY <1>1, StoredAfter
<1>5. NewCalls(p) = UNION {FileCallEdges(f, outcome[p][f], NewNodes(p)) : f \in Parsed(p)}
    BY <1>2, <1>3 DEF NewCalls, ReplacedCalls
<1> QED
    BY <1>4, <1>5, StoredAfter DEF CallEdgesFor

\* A name that no touched file defined or defines has the same definitions
\* after the commit as before.
LEMMA UnchangedName ==
    ASSUME TypeOK, NEW p \in Process, SoleInv(p), pc[p] = "commit", incremental[p],
           NEW name, name \notin ChangedNames(p)
    PROVE  Named(name, NewNodes(p)) = Named(name, db.nodes)
<1>1. existing[p] = db.nodes /\ removedNodes[p] = InFiles(db.nodes, RemovedPaths(p))
    BY DEF SoleInv
<1>2. \A n \in ParsedNodes(p) : n.name # name
    BY DEF ChangedNames
<1>3. \A n \in db.nodes : n.file \in Touched(p) => n.name # name
    BY <1>1 DEF ChangedNames, Touched, InFiles
<1> QED
    BY <1>2, <1>3 DEF Named, NewNodes, NotInFiles

\* The nodes a stored file's calls were bound to before the transaction
\* rebinds: the old ones where the file was left alone.
BoundAgainst(p, f) == IF f \in Parsed(p) THEN NodeIndex(p) ELSE db.nodes

\* Before rebinding, each stored file's calls are bound against BoundAgainst.
LEMMA ReplacedCallsAre ==
    ASSUME TypeOK, NEW p \in Process, CallsCurrent
    PROVE  ReplacedCalls(p) =
             UNION {FileCallEdges(f, NewHashes(p)[f], BoundAgainst(p, f)) :
                       f \in StoredFiles(NewHashes(p))}
<1> DEFINE rows(f) == FileCallEdges(f, db.hashes[f], db.nodes)
<1>1. \A f : \A e \in rows(f) : e.file = f
    BY CallEdgesSite DEF FileCallEdges
<1>2. db.calls = UNION {rows(f) : f \in StoredFiles(db.hashes)}
    BY DEF CallsCurrent, CallEdgesFor
<1>3. NotInFiles(db.calls, Touched(p)) = UNION {rows(f) : f \in StoredFiles(db.hashes) \ Touched(p)}
    <2> HIDE DEF rows
    <2> QED
        BY <1>1, <1>2 DEF NotInFiles
<1>4. \A f \in StoredFiles(db.hashes) \ Touched(p) :
        rows(f) = FileCallEdges(f, NewHashes(p)[f], BoundAgainst(p, f))
    BY StoredAfter DEF BoundAgainst, Touched, StoredFiles
<1>5. \A f \in Parsed(p) :
        FileCallEdges(f, outcome[p][f], NodeIndex(p))
            = FileCallEdges(f, NewHashes(p)[f], BoundAgainst(p, f))
    BY StoredAfter DEF BoundAgainst
<1> HIDE DEF rows
<1> QED
    BY <1>3, <1>4, <1>5, StoredAfter DEF ReplacedCalls

\* Every node a refresh binds to is one that some text defines.
LEMMA BoundNodesFromTexts ==
    ASSUME TypeOK, FactsMatchHashes, NEW p \in Process
    PROVE  FromTexts(db.nodes) /\ FromTexts(NewNodes(p))
<1>1. \A f \in File, c \in Content : FromTexts(NodesOf(f, c))
    BY DEF FromTexts, NodesOf
<1>2. FromTexts(db.nodes)
    <2>1. db.hashes \in Hashes /\ db.nodes = UNION {NodesOf(f, db.hashes[f]) : f \in StoredFiles(db.hashes)}
        BY DEF FactsMatchHashes, NodesFor, TypeOK, Database
    <2> QED
        BY <1>1, <2>1, StoredIsText DEF FromTexts
<1>3. FromTexts(ParsedNodes(p))
    BY <1>1, ParsedIsText DEF FromTexts, ParsedNodes
<1> QED
    BY <1>2, <1>3 DEF FromTexts, NewNodes, NotInFiles

\* An incremental pass rebinds enough: the rows it leaves alone are already
\* what a pass over everything would write.
LEMMA IncrementalCalls ==
    ASSUME NamesUnmixed, TypeOK, FactsMatchHashes, NEW p \in Process, SoleInv(p), pc[p] = "commit",
           incremental[p]
    PROVE  NewCalls(p) = CallEdgesFor(NewHashes(p), NewNodes(p))
<1> DEFINE N == NewNodes(p)
           H == NewHashes(p)
           B(f) == BoundAgainst(p, f)
           changed == ChangedNames(p)
<1>1. \A f : B(f) \in {N, db.nodes}
    BY DEF SoleInv, BoundAgainst, NodeIndex, NewNodes
<1>2. \A f, name : name \notin changed => Named(name, B(f)) = Named(name, N)
    BY <1>1, UnchangedName
<1>3. ReplacedCalls(p) = UNION {FileCallEdges(f, H[f], B(f)) : f \in StoredFiles(H)}
    BY ReplacedCallsAre DEF SoleInv
<1>4. NewCalls(p) = Rebound(p, ReplacedCalls(p), N)
    BY DEF NewCalls
<1>10. \A f \in StoredFiles(H) : H[f] \in Content
    BY NewHashesType, StoredIsText
<1>11. ASSUME NEW f \in StoredFiles(H), NEW M \in {B(f), N}
       PROVE  FileCallEdges(f, H[f], M) = UNION {CallEdges(f, call, M) : call \in Calls[H[f]]}
    <2>1. M \in SUBSET Node /\ FromTexts(M)
        BY <1>1, <1>11, BoundNodesFromTexts, NewNodesType DEF TypeOK, Database
    <2> QED
        BY <1>10, <2>1, FileCallsAreRebound
<1> HIDE DEF N, H, B, changed
<1>5. ASSUME NEW f \in StoredFiles(H), NEW call \in Calls[H[f]], call.name \notin changed
      PROVE  CallEdges(f, call, B(f)) = CallEdges(f, call, N)
    BY <1>2, <1>5, CallEdgesLocal
<1>6. ASSUME NEW f \in StoredFiles(H), NEW call \in Calls[H[f]],
             NEW d \in CallEdges(f, call, B(f))
      PROVE  CallEdges(d.file, d, N) = CallEdges(f, call, N) /\ d.name = call.name
    BY <1>6, CallEdgesSite, CallEdgesLocal
<1>7. ASSUME NEW e \in NewCalls(p)
      PROVE  e \in CallEdgesFor(H, N)
    <2>1. PICK d \in ReplacedCalls(p) :
            IF d.name \in changed THEN e \in CallEdges(d.file, d, N) ELSE e = d
        BY <1>4, <1>7 DEF Rebound, changed
    <2>2. PICK f \in StoredFiles(H) : \E call \in Calls[H[f]] : d \in CallEdges(f, call, B(f))
        BY <1>3, <1>11, <2>1
    <2>3. PICK call \in Calls[H[f]] : d \in CallEdges(f, call, B(f))
        BY <2>2
    <2>4. e \in CallEdges(f, call, N)
        BY <1>5, <1>6, <2>1, <2>3
    <2> QED
        BY <1>11, <2>4 DEF CallEdgesFor
<1>8. ASSUME NEW f \in StoredFiles(H), NEW call \in Calls[H[f]], NEW e \in CallEdges(f, call, N)
      PROVE  e \in NewCalls(p)
    <2>1. CallEdges(f, call, B(f)) \subseteq ReplacedCalls(p)
        BY <1>3, <1>11
    <2>2. CASE call.name \notin changed
        BY <1>4, <1>5, <1>8, <2>1, <2>2, CallEdgesSite DEF Rebound, changed
    <2>3. CASE call.name \in changed
        <3>1. PICK d \in CallEdges(f, call, B(f)) : TRUE
            BY CallEdgesSite
        <3>2. d \in ReplacedCalls(p) /\ d.name \in changed /\ e \in CallEdges(d.file, d, N)
            BY <1>6, <1>8, <2>1, <2>3, <3>1
        <3> QED
            BY <1>4, <3>2 DEF Rebound, changed
    <2> QED
        BY <2>2, <2>3
<1>9. CallEdgesFor(H, N) \subseteq NewCalls(p)
    BY <1>8, <1>11 DEF CallEdgesFor
<1> QED
    BY <1>7, <1>9 DEF H, N

\* The sole-process invariant holds initially.
LEMMA InitSole ==
    ASSUME NEW p \in Process
    PROVE  Init => SoleInv(p)
<1> SUFFICES ASSUME Init PROVE SoleInv(p)
    OBVIOUS
<1>1. ASSUME db = EmptyDb PROVE CallsCurrent
    BY <1>1 DEF EmptyDb, CallsCurrent, CallEdgesFor, StoredFiles, NoHashes
<1>2. ASSUME \E h \in Hashes, v \in Version : db = BuiltDb(h, v) PROVE CallsCurrent
    BY <1>2 DEF BuiltDb, CallsCurrent
<1>3. pc[p] = "closed" /\ existing[p] = {}
    BY DEF Init
<1>4. CallsCurrent
    BY <1>1, <1>2 DEF Init
<1> QED
    BY <1>3, <1>4 DEF SoleInv

\* Every step of a sole process keeps its invariant.
LEMMA StepSole ==
    ASSUME NamesUnmixed, NEW p, Process = {p}
    PROVE  TypeOK /\ FactsMatchHashes /\ SoleInv(p) /\ [Next]_vars => SoleInv(p)'
<1> SUFFICES ASSUME TypeOK, FactsMatchHashes, SoleInv(p), [Next]_vars PROVE SoleInv(p)'
    OBVIOUS
<1> p \in Process
    OBVIOUS
<1>1. CASE Commit(p)
    <2>1. /\ db'.calls = NewCalls(p) /\ db'.hashes = NewHashes(p) /\ db'.nodes = NewNodes(p)
        BY <1>1 DEF Commit, Committed, TypeOK, Database
    <2>2. CallsCurrent'
        BY <1>1, <2>1, FullPassCalls, IncrementalCalls DEF Commit, CallsCurrent, TypeOK
    <2>3. pc'[p] = "refreshed"
        BY <1>1 DEF Commit, TypeOK
    <2> QED
        BY <2>2, <2>3 DEF SoleInv
<1>2. CASE Open(p) \/ CommitEmptyFullPass(p)
    <2>1. UNCHANGED <<db.nodes, db.calls, db.hashes, existing>> /\ pc'[p] \in {"idle", "refreshed"}
        BY <1>2 DEF Open, CommitEmptyFullPass, TypeOK, Database, locals
    <2>2. pc'[p] = "idle" => existing[p] = {}
        BY <1>2 DEF Open, CommitEmptyFullPass, TypeOK, SoleInv
    <2> QED
        BY <2>1, <2>2 DEF SoleInv, CallsCurrent
<1>3. CASE Fail(p) \/ Crash(p) \/ Answer(p)
    <2>1. UNCHANGED db /\ pc'[p] \in {"idle", "closed"} /\ existing'[p] = {}
        BY <1>3 DEF Fail, Crash, Answer, Forget, TypeOK
    <2> QED
        BY <2>1 DEF SoleInv, CallsCurrent
<1>4. CASE BeginRefresh(p) \/ ReadHashes(p) \/ ReadGeneration(p)
    BY <1>4 DEF BeginRefresh, ReadHashes, ReadGeneration, SoleInv, CallsCurrent, TypeOK, locals
<1>5. ASSUME NEW f \in File, Visit(p, f) \/ ReadFile(p, f) PROVE SoleInv(p)'
    BY <1>5 DEF Visit, ReadFile, SoleInv, CallsCurrent, TypeOK
<1>6. CASE ReadRemovedNodes(p)
    <2>1. /\ removedNodes'[p] = InFiles(db.nodes, RemovedPaths(p))
          /\ pc[p] = "read"
          /\ pc'[p] \in {"refreshed", "existing", "commit"}
          /\ pc'[p] = "existing" => incremental[p]
          /\ pc'[p] = "commit" => ~incremental[p]
          /\ UNCHANGED <<db, incremental, outcome, stored, existing>>
        BY <1>6 DEF ReadRemovedNodes, TypeOK
    <2>2. RemovedPaths(p)' = RemovedPaths(p)
        BY <2>1 DEF RemovedPaths, Walked, Parsed
    <2> QED
        BY <2>1, <2>2 DEF SoleInv, CallsCurrent
<1>7. CASE ReadExistingNodes(p)
    <2>1. /\ existing'[p] = db.nodes /\ pc[p] = "existing" /\ pc'[p] = "commit"
          /\ UNCHANGED <<db, incremental, outcome, stored, removedNodes>>
        BY <1>7 DEF ReadExistingNodes, TypeOK
    <2>2. RemovedPaths(p)' = RemovedPaths(p)
        BY <2>1 DEF RemovedPaths, Walked, Parsed
    <2> QED
        BY <2>1, <2>2 DEF SoleInv, CallsCurrent
<1>8. CASE UNCHANGED <<db, pc, locals>>
    <2>1. RemovedPaths(p)' = RemovedPaths(p)
        BY <1>8 DEF locals, RemovedPaths, Walked, Parsed
    <2> QED
        BY <1>8, <2>1 DEF locals, SoleInv, CallsCurrent
<1> QED
    BY <1>1, <1>2, <1>3, <1>4, <1>5, <1>6, <1>7, <1>8 DEF Next, RefreshStep, Edit, vars

\* With one process on the database, incremental refreshes keep the whole call
\* graph equal to that of a from-scratch pass over the stored texts, whatever
\* edits, gaps, failures and crashes happen, if no call spells a name of which
\* it can bind to some definitions and not to others.
THEOREM SoleProcessCalls ==
    ASSUME NamesUnmixed, NEW p, Process = {p}
    PROVE  Spec => []CallsCurrent
<1>1. Init => SoleInv(p)
    BY InitSole
<1>2. TypeOK /\ FactsMatchHashes /\ SoleInv(p) /\ [Next]_vars => SoleInv(p)'
    BY StepSole
<1>3. SoleInv(p) => CallsCurrent
    BY DEF SoleInv
<1> QED
    BY <1>1, <1>2, <1>3, InitType, StepType, InitFacts, StepFacts, PTL DEF Spec

\* The rows are those of a from-scratch index of the stored tree.
LEMMA FactsAreCold ==
    ASSUME FactsMatchHashes, CallsCurrent, ImportsCurrent
    PROVE  StoredFacts = ColdFacts([texts |-> db.hashes, paths |-> importPaths])
BY DEF FactsMatchHashes, CallsCurrent, ImportsCurrent, StoredFacts, ColdFacts

\* A step publishes the next generation or shows its readers nothing.
LEMMA StepPublishes ==
    ASSUME TypeOK, [Next]_vars
    PROVE  \/ db'.generation = db.generation + 1
           \/ UNCHANGED <<[texts |-> db.hashes, paths |-> importPaths], StoredFacts,
                          db.generation>>
<1>1. ASSUME NEW p \in Process, Commit(p)
      PROVE  db'.generation = db.generation + 1
    BY <1>1 DEF Commit, Committed, NextGeneration, TypeOK, Database
<1>2. ASSUME NEW p \in Process, Open(p) \/ CommitEmptyFullPass(p)
      PROVE  UNCHANGED <<[texts |-> db.hashes, paths |-> importPaths], StoredFacts,
                         db.generation>>
    BY <1>2 DEF Open, CommitEmptyFullPass, TypeOK, Database, StoredFacts, aux
<1>3. ASSUME UNCHANGED <<db, aux>>
      PROVE  UNCHANGED <<[texts |-> db.hashes, paths |-> importPaths], StoredFacts,
                         db.generation>>
    BY <1>3 DEF StoredFacts, aux
<1> QED
    BY <1>1, <1>2, <1>3
       DEF Next, RefreshStep, Edit, Crash, Fail, Answer, BeginRefresh, Visit, ReadHashes,
           ReadFile, ReadRemovedNodes, ReadExistingNodes, ReadGeneration, vars

\* With one process on the database, refreshing implements the abstract store:
\* each commit publishes the from-scratch index of the stored tree, and no
\* other step changes what a reader sees, if names are not mixed.
THEOREM SoleProcessPublishesColdIndexes ==
    ASSUME NamesUnmixed, NEW p, Process = {p}
    PROVE  Spec => RefreshesPublishColdIndexes
<1> DEFINE Inv == FactsMatchHashes /\ SoleInv(p) /\ ImportsCurrent
           Stored == [texts |-> db.hashes, paths |-> importPaths]
           Cold == Stored \in Tree /\ StoredFacts = ColdFacts(Stored)
<1>1. Init => Inv
    BY InitFacts, InitSole, InitImports
<1>2. TypeOK /\ Inv /\ [Next]_vars => Inv'
    BY StepFacts, StepSole, StepImports
<1>3. TypeOK /\ Inv => Cold
    BY FactsAreCold DEF SoleInv, Tree, TypeOK, Database
<1>4. TypeOK /\ Cold => Store!Init
    BY DEF Store!Init, TypeOK, Database
<1>5. TypeOK /\ [Next]_vars /\ Cold' =>
          [Store!Publish]_<<Stored, StoredFacts, db.generation>>
    BY StepPublishes DEF Store!Publish
<1> QED
    BY <1>1, <1>2, <1>3, <1>4, <1>5, InitType, StepType, PTL
       DEF Spec, RefreshesPublishColdIndexes, Store!Spec

-----------------------------------------------------------------------------
(* What an answer rests on, when one process writes the database.          *)

\* Every text a refresh has gone by was on disk since its request came in.
Witnessed(p) ==
    pc[p] \in Refreshing => \A f \in File :
        /\ disk[f] \in seen[p][f]
        /\ outcome[p][f] = "absent" => Absent \in seen[p][f]
        /\ outcome[p][f] \in Content => outcome[p][f] \in seen[p][f]
        /\ outcome[p][f] = "unchanged" => incremental[p] /\ stored[p][f] \in seen[p][f]

\* Which files the walk and pass 1 are done with.
Passed(p) ==
    /\ pc[p] \in {"closed", "idle"} => outcome[p] = Unvisited
    /\ pc[p] = "visit" => \A f \in File : outcome[p][f] \in {"unvisited", "absent", "found"}
    /\ pc[p] \in {"read", "existing", "commit", "refreshed", "answering"} =>
          \A f \in File : outcome[p][f] # "unvisited"
    /\ pc[p] \in {"existing", "commit", "refreshed", "answering"} =>
          \A f \in File : outcome[p][f] # "found"

\* The hash a finished refresh leaves for a file it went by in this way.
Left(p, f) ==
    IF outcome[p][f] \in Content THEN outcome[p][f]
    ELSE IF outcome[p][f] = "unchanged" THEN stored[p][f]
    ELSE IF outcome[p][f] = "gap" /\ incremental[p] THEN stored[p][f]
    ELSE None

AnswerInv(p) ==
    /\ Witnessed(p)
    /\ Passed(p)
    /\ pc[p] \in {"read", "existing", "commit"} => stored[p] = db.hashes
    /\ pc[p] \in {"refreshed", "answering"} => \A f \in File : db.hashes[f] = Left(p, f)

\* The answer invariant holds initially.
LEMMA InitAnswer ==
    ASSUME NEW p \in Process
    PROVE  Init => AnswerInv(p)
BY DEF Init, AnswerInv, Witnessed, Passed, Refreshing, Unvisited

\* What is stored for a file that is neither parsed nor removed is what its
\* outcome leaves; the marks of a walk are no texts.
LEMMA LeftByOutcome ==
    ASSUME TypeOK, NEW p \in Process, AnswerInv(p), pc[p] \in {"read", "existing", "commit"},
           NEW f \in File, outcome[p][f] # "found"
    PROVE  Left(p, f) = IF f \in Parsed(p) THEN outcome[p][f]
                        ELSE IF f \in RemovedPaths(p) THEN None
                        ELSE stored[p][f]
<1>1. stored[p] \in Hashes /\ outcome[p][f] \in Outcome /\ outcome[p][f] # "unvisited"
    BY DEF TypeOK, AnswerInv, Passed
<1>2. CASE outcome[p][f] \in Content
    BY <1>2 DEF Left, Parsed
<1>3. CASE outcome[p][f] = "unchanged"
    <2>1. incremental[p] /\ f \notin Parsed(p) /\ f \in Walked(p)
        BY <1>3, ProcessAssumption DEF AnswerInv, Witnessed, Parsed, Walked, Refreshing, Phase
    <2> QED
        BY <1>3, <2>1, ProcessAssumption DEF Left, RemovedPaths
<1>4. CASE outcome[p][f] = "gap"
    <2>1. f \notin Parsed(p) /\ f \in Walked(p)
        BY <1>4, ProcessAssumption DEF Parsed, Walked
    <2>2. incremental[p] \in BOOLEAN
        BY DEF TypeOK
    <2> QED
        BY <1>4, <2>1, <2>2, ProcessAssumption DEF Left, RemovedPaths, StoredFiles
<1>5. CASE outcome[p][f] = "absent"
    <2>1. f \notin Parsed(p) /\ f \notin Walked(p)
        BY <1>5, ProcessAssumption DEF Parsed, Walked
    <2> QED
        BY <1>5, <2>1, ProcessAssumption DEF Left, RemovedPaths, StoredFiles
<1> QED
    BY <1>1, <1>2, <1>3, <1>4, <1>5 DEF Outcome

\* A source edit is recorded for every request under way.
LEMMA EditAnswer ==
    ASSUME TypeOK, NEW p \in Process, AnswerInv(p), NEW g \in File, Edit(g)
    PROVE  AnswerInv(p)'
<1>1. UNCHANGED <<db, pc, incremental, outcome, stored>>
    BY DEF Edit, locals
<1>2. PICK text \in DiskText :
         /\ disk' = [disk EXCEPT ![g] = text]
         /\ seen' = [q \in Process |-> IF pc[q] \in Refreshing
                                       THEN [seen[q] EXCEPT ![g] = @ \cup {text}]
                                       ELSE seen[q]]
    BY DEF Edit
<1>3. pc[p] \in Refreshing => \A f \in File : /\ seen[p][f] \subseteq seen'[p][f]
                                              /\ disk'[f] = disk[f] \/ disk'[f] \in seen'[p][f]
    BY <1>2 DEF TypeOK
<1>4. Witnessed(p)'
    BY <1>1, <1>3 DEF AnswerInv, Witnessed
<1>5. \A f \in File : Left(p, f)' = Left(p, f)
    BY <1>1 DEF Left
<1> QED
    BY <1>1, <1>4, <1>5 DEF AnswerInv, Passed

\* Every step of a sole process keeps its answer invariant.
LEMMA StepAnswer ==
    ASSUME NEW p, Process = {p}
    PROVE  TypeOK /\ AnswerInv(p) /\ [Next]_vars => AnswerInv(p)'
<1> SUFFICES ASSUME TypeOK, AnswerInv(p), [Next]_vars PROVE AnswerInv(p)'
    OBVIOUS
<1> p \in Process
    OBVIOUS
<1>1. ASSUME NEW g \in File, Edit(g) PROVE AnswerInv(p)'
    BY <1>1, EditAnswer
<1>2. CASE Open(p) \/ Fail(p) \/ Crash(p) \/ Answer(p)
    <2>1. pc'[p] \in {"idle", "closed"} /\ outcome'[p] = Unvisited
        BY <1>2 DEF Open, Fail, Crash, Answer, Forget, TypeOK, AnswerInv, Passed, locals
    <2> QED
        BY <2>1 DEF AnswerInv, Witnessed, Passed, Refreshing
<1>3. CASE BeginRefresh(p)
    <2>1. pc[p] = "idle" /\ pc'[p] = "visit" /\ UNCHANGED <<disk, outcome>>
          /\ \A f \in File : seen'[p][f] = {disk[f]}
        BY <1>3 DEF BeginRefresh, TypeOK
    <2>2. \A f \in File : outcome[p][f] = "unvisited"
        BY <2>1 DEF AnswerInv, Passed, Unvisited
    <2> QED
        BY <2>1, <2>2, ProcessAssumption DEF AnswerInv, Witnessed, Passed
<1>4. ASSUME NEW g \in File, Visit(p, g) PROVE AnswerInv(p)'
    <2>1. pc[p] = "visit" /\ UNCHANGED <<disk, seen, pc>>
          /\ outcome'[p] = [outcome[p] EXCEPT ![g] = IF disk[g] = Absent THEN "absent" ELSE "found"]
        BY <1>4 DEF Visit, TypeOK
    <2>2. \A f \in File : \/ outcome'[p][f] = outcome[p][f]
                          \/ outcome'[p][f] = "absent" /\ disk[f] = Absent
                          \/ outcome'[p][f] = "found"
        BY <2>1 DEF TypeOK
    <2> QED
        BY <2>1, <2>2, ProcessAssumption DEF AnswerInv, Witnessed, Passed, Refreshing, Phase
<1>5. CASE ReadHashes(p)
    <2>1. pc[p] = "visit" /\ pc'[p] = "read" /\ stored'[p] = db.hashes
          /\ UNCHANGED <<disk, db, seen, outcome, incremental>>
          /\ \A f \in File : outcome[p][f] # "unvisited"
        BY <1>5 DEF ReadHashes, TypeOK
    <2> QED
        BY <2>1, ProcessAssumption DEF AnswerInv, Witnessed, Passed, Refreshing, Phase
<1>6. ASSUME NEW g \in File, ReadFile(p, g) PROVE AnswerInv(p)'
    <2>1. pc[p] = "read" /\ UNCHANGED <<disk, db, seen, pc, incremental, stored>>
          /\ outcome'[p] = [outcome[p] EXCEPT ![g] = Examined(p, g)]
        BY <1>6 DEF ReadFile, TypeOK
    <2>2. \/ Examined(p, g) = "gap"
          \/ Examined(p, g) = "unchanged" /\ incremental[p] /\ stored[p][g] = disk[g]
          \/ Examined(p, g) = disk[g] /\ disk[g] \in Content
        BY DEF Examined, TypeOK, DiskText
    <2>3. Witnessed(p)'
        BY <2>1, <2>2, ProcessAssumption DEF AnswerInv, Witnessed, TypeOK
    <2>4. Passed(p)'
        BY <2>1, <2>2, ProcessAssumption DEF AnswerInv, Passed, TypeOK
    <2> QED
        BY <2>1, <2>3, <2>4 DEF AnswerInv
<1>7. CASE ReadRemovedNodes(p)
    <2>1. /\ pc[p] = "read" /\ UNCHANGED <<disk, db, seen, outcome, incremental, stored>>
          /\ \A f \in File : outcome[p][f] # "found"
          /\ pc'[p] \in {"refreshed", "existing", "commit"}
          /\ pc'[p] = "refreshed" => Touched(p) = {}
        BY <1>7 DEF ReadRemovedNodes, TypeOK
    <2>2. ASSUME Touched(p) = {}, NEW f \in File PROVE db.hashes[f] = Left(p, f)'
        BY <2>1, <2>2, LeftByOutcome DEF AnswerInv, Touched, Left
    <2> QED
        BY <2>1, <2>2 DEF AnswerInv, Witnessed, Passed, Refreshing, Phase
<1>8. CASE ReadExistingNodes(p)
    BY <1>8 DEF ReadExistingNodes, AnswerInv, Witnessed, Passed, Refreshing, Phase, TypeOK
<1>9. CASE Commit(p) \/ CommitEmptyFullPass(p)
    <2>1. /\ pc[p] = "commit" /\ pc'[p] = "refreshed"
          /\ UNCHANGED <<disk, seen, outcome, incremental, stored>>
        BY <1>9 DEF Commit, CommitEmptyFullPass, TypeOK, locals
    <2>2. ASSUME NEW f \in File
          PROVE  db'.hashes[f] = IF f \in Parsed(p) THEN outcome[p][f]
                                 ELSE IF f \in RemovedPaths(p) THEN None
                                 ELSE db.hashes[f]
        <3>1. CASE Commit(p)
            BY <3>1 DEF Commit, Committed, NewHashes, TypeOK, Database
        <3>2. CASE CommitEmptyFullPass(p)
            BY <3>2 DEF CommitEmptyFullPass, Touched, TypeOK, Database
        <3> QED
            BY <1>9, <3>1, <3>2
    <2>3. ASSUME NEW f \in File PROVE db'.hashes[f] = Left(p, f)'
        BY <2>1, <2>2, LeftByOutcome DEF AnswerInv, Passed, Left
    <2> QED
        BY <2>1, <2>3 DEF AnswerInv, Witnessed, Passed, Refreshing, Phase
<1>10. CASE ReadGeneration(p)
    <2>1. /\ pc[p] = "refreshed" /\ pc'[p] = "answering"
          /\ UNCHANGED <<disk, db, seen, outcome, incremental, stored>>
        BY <1>10 DEF ReadGeneration, TypeOK, locals
    <2> QED
        BY <2>1 DEF AnswerInv, Witnessed, Passed, Left, Refreshing, Phase
<1>11. CASE UNCHANGED vars
    BY <1>11 DEF vars, locals, AnswerInv, Witnessed, Passed, Left
<1> QED
    BY <1>1, <1>2, <1>3, <1>4, <1>5, <1>6, <1>7, <1>8, <1>9, <1>10, <1>11 DEF Next, RefreshStep

\* The answer invariant of a sole process, for any files, texts, edits, gaps,
\* failures and crashes.
LEMMA SoleAnswer ==
    ASSUME NEW p, Process = {p}
    PROVE  Spec => [](TypeOK /\ AnswerInv(p))
<1>1. Init => AnswerInv(p)
    BY InitAnswer
<1>2. TypeOK /\ AnswerInv(p) /\ [Next]_vars => AnswerInv(p)'
    BY StepAnswer
<1> QED
    BY <1>1, <1>2, InitType, StepType, PTL DEF Spec

\* With one process on the database, an answer that reports no gap rests for
\* every file on a text the file had since the request, even though files are
\* listed, hashed and parsed one after the other while they change.
THEOREM SoleProcessAnswersFresh ==
    ASSUME NEW p, Process = {p}
    PROVE  Spec => []AnswerIsFresh
<1>1. ASSUME TypeOK, AnswerInv(p) PROVE AnswerIsFresh
    <2> SUFFICES ASSUME pc[p] = "answering", ~Partial(p), NEW f \in File
                 PROVE  \/ db.hashes[f] \in seen[p][f]
                        \/ db.hashes[f] = None /\ Absent \in seen[p][f]
        BY DEF AnswerIsFresh
    <2>1. outcome[p][f] \in Content \cup {"absent", "unchanged"}
        BY <1>1 DEF AnswerInv, Passed, Partial, TypeOK, Outcome
    <2>2. db.hashes[f] = Left(p, f)
        BY <1>1 DEF AnswerInv
    <2> QED
        BY <1>1, <2>1, <2>2, ProcessAssumption DEF AnswerInv, Witnessed, Left, Refreshing, Phase
<1> QED
    BY <1>1, SoleAnswer, PTL

\* With one process on the database, a file that yields no facts keeps its last
\* ones in an incremental pass and loses them in a full one, whatever else the
\* pass parsed, removed or found nothing in.
THEOREM SoleProcessKeepsGapContract ==
    ASSUME NEW p, Process = {p}
    PROVE  Spec => []GapContract
<1>1. ASSUME TypeOK, AnswerInv(p) PROVE GapContract
    <2> SUFFICES ASSUME pc[p] = "answering", NEW f \in File, outcome[p][f] = "gap"
                 PROVE  db.hashes[f] = IF incremental[p] THEN stored[p][f] ELSE None
        BY DEF GapContract
    <2>1. db.hashes[f] = Left(p, f) /\ incremental[p] \in BOOLEAN
        BY <1>1 DEF AnswerInv, TypeOK
    <2> QED
        BY <2>1, ProcessAssumption DEF Left
<1> QED
    BY <1>1, SoleAnswer, PTL

\* A sole process parses again what its marker asks for or what has changed.
NewsOnly(p) ==
    /\ pc[p] \in {"visit", "read", "existing", "commit"} => incremental[p] = ~db.reindex
    /\ pc[p] \in {"read", "existing", "commit"} /\ incremental[p] =>
          \A f \in File : outcome[p][f] \in Content => outcome[p][f] # stored[p][f]

\* Every step of a sole process keeps that.
LEMMA StepNews ==
    ASSUME NEW p, Process = {p}
    PROVE  TypeOK /\ AnswerInv(p) /\ NewsOnly(p) /\ [Next]_vars => NewsOnly(p)'
<1> SUFFICES ASSUME TypeOK, AnswerInv(p), NewsOnly(p), [Next]_vars PROVE NewsOnly(p)'
    OBVIOUS
<1> p \in Process
    OBVIOUS
<1>1. ASSUME NEW g \in File, Edit(g) PROVE NewsOnly(p)'
    BY <1>1 DEF Edit, locals, NewsOnly
<1>2. CASE \/ Open(p) \/ Fail(p) \/ Crash(p) \/ Answer(p)
           \/ Commit(p) \/ CommitEmptyFullPass(p) \/ ReadGeneration(p)
    <2>1. pc'[p] \in {"idle", "closed", "refreshed", "answering"}
        BY <1>2 DEF Open, Fail, Crash, Answer, Commit, CommitEmptyFullPass, ReadGeneration, TypeOK
    <2> QED
        BY <2>1 DEF NewsOnly
<1>3. CASE BeginRefresh(p)
    BY <1>3 DEF BeginRefresh, NewsOnly, TypeOK, Database
<1>4. ASSUME NEW g \in File, Visit(p, g) PROVE NewsOnly(p)'
    BY <1>4 DEF Visit, NewsOnly
<1>5. CASE ReadHashes(p)
    <2>1. pc[p] = "visit" /\ UNCHANGED <<db, outcome, incremental>>
        BY <1>5 DEF ReadHashes
    <2>2. \A f \in File : outcome[p][f] \notin Content
        BY <2>1, ProcessAssumption DEF AnswerInv, Passed
    <2> QED
        BY <2>1, <2>2 DEF NewsOnly
<1>6. ASSUME NEW g \in File, ReadFile(p, g) PROVE NewsOnly(p)'
    <2>1. pc[p] = "read" /\ UNCHANGED <<db, pc, incremental, stored>>
          /\ outcome'[p] = [outcome[p] EXCEPT ![g] = Examined(p, g)]
        BY <1>6 DEF ReadFile, TypeOK
    <2>2. incremental[p] /\ Examined(p, g) \in Content => Examined(p, g) # stored[p][g]
        BY ProcessAssumption DEF Examined
    <2> QED
        BY <2>1, <2>2 DEF NewsOnly, TypeOK
<1>7. CASE ReadRemovedNodes(p) \/ ReadExistingNodes(p)
    <2>1. pc[p] \in {"read", "existing"} /\ UNCHANGED <<db, outcome, incremental, stored>>
        BY <1>7 DEF ReadRemovedNodes, ReadExistingNodes
    <2> QED
        BY <2>1 DEF NewsOnly
<1>8. CASE UNCHANGED vars
    BY <1>8 DEF vars, locals, NewsOnly
<1> QED
    BY <1>1, <1>2, <1>3, <1>4, <1>5, <1>6, <1>7, <1>8 DEF Next, RefreshStep

\* With one process on the database, no refresh moves the generation, and with
\* it the cursors agents hold, unless a marker asked for a full pass or some
\* stored hash changes.
THEOREM SoleProcessKeepsQuiet ==
    ASSUME NEW p, Process = {p}
    PROVE  Spec => QuietRefreshKeepsGeneration
<1>1. Init => NewsOnly(p)
    BY DEF Init, NewsOnly
<1>2. TypeOK /\ AnswerInv(p) /\ NewsOnly(p) /\ [Next]_vars => NewsOnly(p)'
    BY StepNews
<1>3. ASSUME TypeOK, AnswerInv(p), NewsOnly(p), [Next]_vars
      PROVE  [db'.generation # db.generation => db.reindex \/ db'.hashes # db.hashes]_vars
    <2>1. ASSUME Commit(p), ~db.reindex PROVE db'.hashes # db.hashes
        <3>1. pc[p] = "commit" /\ Touched(p) # {} /\ db'.hashes = NewHashes(p)
            BY <1>3, <2>1 DEF Commit, Committed, TypeOK, Database
        <3>2. incremental[p] /\ stored[p] = db.hashes
            <4>1. incremental[p] = ~db.reindex
                BY <1>3, <3>1 DEF NewsOnly
            <4>2. stored[p] = db.hashes
                BY <1>3, <3>1 DEF AnswerInv
            <4> QED
                BY <2>1, <4>1, <4>2, Zenon
        <3>3. PICK f : f \in Parsed(p) \/ f \in RemovedPaths(p)
            BY <3>1 DEF Touched
        <3>4. CASE f \in Parsed(p)
            <4>1. f \in File /\ outcome[p][f] \in Content
                BY <3>4 DEF Parsed
            <4>2. \A g \in File : outcome[p][g] \in Content => outcome[p][g] # stored[p][g]
                BY <1>3, <3>1, <3>2, Zenon DEF NewsOnly
            <4>3. NewHashes(p)[f] = outcome[p][f]
                BY <3>4, <4>1 DEF NewHashes
            <4> QED
                BY <3>1, <3>2, <4>1, <4>2, <4>3
        <3>5. CASE f \in RemovedPaths(p) /\ f \notin Parsed(p)
            <4>1. f \in File /\ NewHashes(p)[f] = None /\ stored[p][f] # None
                BY <3>5 DEF RemovedPaths, StoredFiles, NewHashes
            <4> QED
                BY <3>1, <3>2, <4>1
        <3> QED
            BY <3>3, <3>4, <3>5
    <2>2. CASE Commit(p)
        BY <2>1, <2>2
    <2>3. CASE ~Commit(p)
        <3>1. db'.generation = db.generation
            BY <1>3, <2>3 DEF Next, RefreshStep, Edit, Open, Fail, Crash, Answer, BeginRefresh,
               Visit, ReadHashes, ReadFile, ReadRemovedNodes, ReadExistingNodes,
               CommitEmptyFullPass, ReadGeneration, vars, TypeOK, Database
        <3> QED
            BY <3>1
    <2> QED
        BY <2>2, <2>3
<1>4. Spec => [](TypeOK /\ AnswerInv(p))
    BY SoleAnswer
<1> QED
    BY <1>1, <1>2, <1>3, <1>4, PTL DEF Spec, QuietRefreshKeepsGeneration

=============================================================================
