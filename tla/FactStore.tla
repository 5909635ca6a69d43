------------------------------ MODULE FactStore ------------------------------
(***************************************************************************)
(* The persisted facts of one repository, as values: what the extractor    *)
(* makes of one file, how a call or an import is bound to definitions, and *)
(* the rows a refresh transaction writes.  Nothing here has state; Refresh *)
(* says when the rows are read and written.                                *)
(*                                                                         *)
(* A file's text is abstracted to a Content: the definitions it makes, the *)
(* calls it writes and the imports it writes.  Every definition is         *)
(* exported, and of a kind that calls or that constructors can bind to, or *)
(* of neither.                                                             *)
(***************************************************************************)
EXTENDS Integers, FiniteSets, Sequences

CONSTANTS
    File,        \* repository-relative paths, as naturals in path order
    Content,     \* the texts a file may hold (a SHA-256 stands for its text)
    Name,        \* identifiers
    Defs,        \* Defs[c]: the definitions text c makes
    Calls,       \* Calls[c]: the call sites text c writes
    Imports,     \* Imports[c]: the import sites text c writes
    MaxTargets,  \* MAX_AMBIGUOUS_CALL_TARGETS, 32 in the code
    None,        \* no row, or the target `unresolved:<name>'
    Wildcard     \* an import that lists no names

\* Functions and methods; classes and structs; any other definition.
Kind      == {"callable", "type", "other"}
Form      == {"direct", "member", "constructor"}
Def       == [name: Name, line: Nat, kind: Kind]
Call      == [line: Nat, name: Name, form: Form]
Import    == [line: Nat, paths: Seq(File), name: Name \cup {Wildcard}]
Node      == [file: File, name: Name, line: Nat, kind: Kind]
Resolution == {"direct", "ambiguous_name", "polymorphic", "unresolved_receiver"}
CallEdge  == [file: File, line: Nat, name: Name, form: Form,
              target: Node \cup {None}, resolution: Resolution,
              truncated: BOOLEAN]
RawImport == [file: File, import: Import]
ImportEdge == [file: File, line: Nat, target: Node]
ImportGap  == [file: File, line: Nat]
Hashes    == [File -> Content \cup {None}]

ASSUME FileAssumption == File \subseteq Nat

ASSUME ContentAssumption ==
    /\ Defs \in [Content -> SUBSET Def]
    /\ Calls \in [Content -> SUBSET Call]
    /\ Imports \in [Content -> SUBSET Import]
    /\ None \notin Content
    /\ None \notin Node
    /\ Wildcard \notin Name

ASSUME MaxTargetsAssumption == MaxTargets \in Nat \ {0}

\* Two definitions of one name on one line, which only their kinds tell apart,
\* and two calls of one name on one line, which share the key of an edge row,
\* are left out.
ASSUME OneDefPerLine ==
    \A c \in Content : \A x, y \in Defs[c] : x.line = y.line /\ x.name = y.name => x = y

ASSUME OneCallPerSpelling ==
    \A c \in Content : \A x, y \in Calls[c] :
        x.line = y.line /\ x.name = y.name => x = y

-----------------------------------------------------------------------------
(* What one file contributes.                                              *)

NodesOf(f, c) ==
    {[file |-> f, name |-> d.name, line |-> d.line, kind |-> d.kind] : d \in Defs[c]}

RawImportsOf(f, c) == {[file |-> f, import |-> i] : i \in Imports[c]}

InFiles(rows, F) == {r \in rows : r.file \in F}

NotInFiles(rows, F) == {r \in rows : r.file \notin F}

StoredFiles(h) == {f \in File : h[f] # None}

\* The node rows of every stored file, from the text each hash stands for.
NodesFor(h) == UNION {NodesOf(f, h[f]) : f \in StoredFiles(h)}

RawImportsFor(h) == UNION {RawImportsOf(f, h[f]) : f \in StoredFiles(h)}

-----------------------------------------------------------------------------
(* Binding a call to the definitions of its name.                          *)

\* get_all_nodes and callable_candidates both order by path, then line.
Before(m, n) == m.file < n.file \/ (m.file = n.file /\ m.line < n.line)

FirstOf(S) == CHOOSE n \in S : \A m \in S : ~Before(m, n)

Single(S) == \E n \in S : S = {n}

Named(name, N) == {n \in N : n.name = name}

\* What a call, by its form, can bind to.
Binds(call, kind) == kind = IF call.form = "constructor" THEN "type" ELSE "callable"

Candidates(call, N) == {n \in Named(call.name, N) : Binds(call, n.kind)}

Bounded(S) == {n \in S : Cardinality({m \in S : Before(m, n)}) < MaxTargets}

CallBinding(f, call, N) ==
    LET all   == Candidates(call, N)
        local == InFiles(all, {f})
    IN  IF call.form = "member"
        THEN [targets    |-> Bounded(all),
              resolution |-> IF all = {} \/ Single(all)
                             THEN "unresolved_receiver" ELSE "polymorphic"]
        ELSE IF Single(local)
        THEN [targets |-> local, resolution |-> "direct"]
        ELSE IF all = {} \/ Single(all)
        THEN [targets |-> all, resolution |-> "direct"]
        ELSE [targets |-> {FirstOf(all)}, resolution |-> "ambiguous_name"]

EdgeTo(f, call, N, target) ==
    LET all        == Candidates(call, N)
        resolution == CallBinding(f, call, N).resolution
    IN  [file |-> f, line |-> call.line, name |-> call.name, form |-> call.form,
         target |-> target, resolution |-> resolution,
         truncated |-> target # None /\ resolution # "direct" /\ Bounded(all) # all]

\* The edge rows of one call site bound again against the nodes N: one per
\* target, or one unresolved row that keeps the spelling for a later rebinding.
CallEdges(f, call, N) ==
    LET targets == CallBinding(f, call, N).targets
    IN  IF targets = {} THEN {EdgeTo(f, call, N, None)}
        ELSE {EdgeTo(f, call, N, t) : t \in targets}

\* The extractor's own choice: a definition of that name in the file, or else
\* anywhere, of whatever kind.
ExtractedTarget(f, name, N) ==
    LET local == InFiles(Named(name, N), {f})
    IN  FirstOf(IF local # {} THEN local ELSE Named(name, N))

\* The edge rows pass 2 makes of a call site it has just extracted: where the
\* binding is certain, the target remains the extractor's.
InitialCallEdges(f, call, N) ==
    LET bound == CallBinding(f, call, N)
    IN  IF bound.targets # {} /\ bound.resolution = "direct"
        THEN {EdgeTo(f, call, N, ExtractedTarget(f, call.name, N))}
        ELSE CallEdges(f, call, N)

FileCallEdges(f, c, N) == UNION {InitialCallEdges(f, call, N) : call \in Calls[c]}

\* The call rows of every stored file, all bound against N.
CallEdgesFor(h, N) == UNION {FileCallEdges(f, h[f], N) : f \in StoredFiles(h)}

-----------------------------------------------------------------------------
(* Binding an import: the first candidate path that exists, then the name  *)
(* in that file, then the name anywhere.                                   *)

ResolvedPath(i, paths) ==
    LET hits == {k \in DOMAIN i.paths : i.paths[k] \in paths}
    IN  IF hits = {} THEN None
        ELSE i.paths[CHOOSE k \in hits : \A j \in hits : k <= j]

ImportTargets(i, paths, N) ==
    LET path  == ResolvedPath(i, paths)
        local == InFiles(N, {path})
        named == Named(i.name, local)
        all   == Named(i.name, N)
    IN  IF path = None THEN {}
        ELSE IF i.name = Wildcard THEN local
        ELSE IF named # {} THEN {FirstOf(named)}
        ELSE IF all # {} THEN {FirstOf(all)}
        ELSE {}

ResolvedImports(raw, paths, N) ==
    UNION {{[file |-> r.file, line |-> r.import.line, target |-> t] :
            t \in ImportTargets(r.import, paths, N)} : r \in raw}

UnresolvedImports(raw, paths) ==
    {[file |-> r.file, line |-> r.import.line] :
        r \in {q \in raw : ResolvedPath(q.import, paths) = None}}

=============================================================================
