------------------------------- MODULE Refresh -------------------------------
(***************************************************************************)
(* The incremental refresh every query starts with: walk the repository,   *)
(* compare each file with its stored hash, parse what changed, and replace *)
(* the facts in one SQLite transaction.  Several processes (one MCP server *)
(* per agent, or CLI calls) run it over one database file while editors    *)
(* change the sources.                                                     *)
(*                                                                         *)
(* One action is one access to shared state: a directory entry, a file, a  *)
(* read of the database outside a transaction, the commit.                 *)
(***************************************************************************)
EXTENDS FactStore

CONSTANTS
    Process,     \* processes that share the database
    Version,     \* FACT_EXTRACTION_VERSION values
    VersionOf,   \* VersionOf[p]: the one compiled into process p's binary
    Absent,      \* no such file
    Gap,         \* a file that yields no facts: unreadable, too large, no parse
    MaxEdits     \* bound on source edits

ASSUME ProcessAssumption ==
    /\ VersionOf \in [Process -> Version]
    /\ None \notin Version
    /\ Absent \notin Content /\ Gap \notin Content /\ Absent # Gap
    /\ Content \cap {"unvisited", "absent", "found", "unchanged", "gap"} = {}
    /\ MaxEdits \in Nat

VARIABLES
    disk,         \* File -> the text on disk
    db,           \* the committed database
    pc,           \* Process -> where its refresh is
    incremental,  \* Process -> FALSE when the whole tree is parsed again
    outcome,      \* Process -> File -> what the walk and pass 1 made of it
    stored,       \* Process -> the hashes read before pass 1
    removedNodes, \* Process -> nodes of removed files, read before pass 2
    existing,     \* Process -> all nodes, read before pass 2
    label,        \* Process -> freshness.generation of the answer
    edits,        \* bound counter
    seen,         \* auxiliary: Process -> File -> texts held since its request
    extractedBy,  \* auxiliary: File -> the version that parsed its facts
    importPaths   \* auxiliary: the paths the stored imports were resolved on

locals == <<incremental, outcome, stored, removedNodes, existing>>
aux    == <<extractedBy, importPaths>>
vars   == <<disk, db, pc, locals, label, edits, seen, aux>>

DiskText == Content \cup {Absent, Gap}

Outcome == Content \cup {"unvisited", "absent", "found", "unchanged", "gap"}

Phase == {"closed", "idle", "visit", "read", "existing", "commit", "refreshed",
          "answering"}

Database == [nodes: SUBSET Node, calls: SUBSET CallEdge,
             raw: SUBSET RawImport, imports: SUBSET ImportEdge,
             unresolved: SUBSET ImportGap, hashes: Hashes,
             generation: Nat, reindex: BOOLEAN, version: Version \cup {None}]

Unvisited == [f \in File |-> "unvisited"]

NoHashes == [f \in File |-> None]

Unseen == [f \in File |-> {}]

Refreshing == Phase \ {"closed", "idle"}

-----------------------------------------------------------------------------
(* Derived from a process's local state.                                   *)

Walked(p) == {f \in File : outcome[p][f] \notin {"unvisited", "absent"}}

Parsed(p) == {f \in File : outcome[p][f] \in Content}

Partial(p) == \E f \in File : outcome[p][f] = "gap"

\* Mutants of RemovedPaths: a gap counts as a deletion; a full pass keeps what
\* it could not parse.
RemovedPathsWithGaps(p) ==
    {f \in StoredFiles(stored[p]) : f \notin Walked(p) \/ outcome[p][f] = "gap"}

RemovedPathsNoPrune(p) == {f \in StoredFiles(stored[p]) : f \notin Walked(p)}

RemovedPaths(p) ==
    {f \in StoredFiles(stored[p]) :
        f \notin Walked(p) \/ (~incremental[p] /\ f \notin Parsed(p))}

Touched(p) == Parsed(p) \cup RemovedPaths(p)

ParsedNodes(p) == UNION {NodesOf(f, outcome[p][f]) : f \in Parsed(p)}

\* What pass 2 binds the calls of parsed files against.
NodeIndex(p) == ParsedNodes(p) \cup NotInFiles(existing[p], Touched(p))

\* Mutant: the names a changed file no longer defines are forgotten.
ChangedNamesNewOnly(p) == {n.name : n \in removedNodes[p] \cup ParsedNodes(p)}

ChangedNames(p) ==
    {n.name : n \in removedNodes[p] \cup InFiles(existing[p], Parsed(p)) \cup ParsedNodes(p)}

-----------------------------------------------------------------------------
(* The transaction: the rows after each of its statements.                 *)

\* Mutant: the rows of a removed file stay.
NewNodesKeepRemoved(p) == NotInFiles(db.nodes, Parsed(p)) \cup ParsedNodes(p)

NewNodes(p) == NotInFiles(db.nodes, Touched(p)) \cup ParsedNodes(p)

ReplacedCalls(p) ==
    NotInFiles(db.calls, Touched(p))
        \cup UNION {FileCallEdges(f, outcome[p][f], NodeIndex(p)) : f \in Parsed(p)}

\* rebind_static_targets: every occurrence that spells a changed name is
\* resolved again, whichever file it is in.
Rebound(p, calls, N) ==
    {e \in calls : e.name \notin ChangedNames(p)}
        \cup UNION {CallEdges(e.file, e, N) :
                       e \in {d \in calls : d.name \in ChangedNames(p)}}

NewCalls(p) ==
    IF incremental[p] THEN Rebound(p, ReplacedCalls(p), NewNodes(p))
                      ELSE ReplacedCalls(p)

NewRaw(p) ==
    NotInFiles(db.raw, Touched(p))
        \cup UNION {RawImportsOf(f, outcome[p][f]) : f \in Parsed(p)}

\* Mutants of NewImports: against the rows the process read before the
\* transaction; only the imports of the parsed files are resolved again.
NewImportsFromIndex(p) == ResolvedImports(NewRaw(p), Walked(p), NodeIndex(p))

NewImportsOfParsed(p) ==
    NotInFiles(db.imports, Touched(p))
        \cup ResolvedImports(InFiles(NewRaw(p), Parsed(p)), Walked(p), NewNodes(p))

\* Everything derived from imports is recomputed from what the transaction
\* has written so far and the paths of this process's walk.
NewImports(p) == ResolvedImports(NewRaw(p), Walked(p), NewNodes(p))

NewUnresolved(p) == UnresolvedImports(NewRaw(p), Walked(p))

\* Mutant: a hash for every walked file, parsed or not.
NewHashesOfWalk(p) ==
    [f \in File |-> IF f \in Walked(p) THEN outcome[p][f]
                    ELSE IF f \in RemovedPaths(p) THEN None
                    ELSE db.hashes[f]]

NewHashes(p) ==
    [f \in File |-> IF f \in Parsed(p) THEN outcome[p][f]
                    ELSE IF f \in RemovedPaths(p) THEN None
                    ELSE db.hashes[f]]

\* Mutant: a refresh that only removes files keeps the generation.
NextGenerationParsedOnly(p) == IF Parsed(p) = {} THEN db.generation ELSE db.generation + 1

NextGeneration(p) == db.generation + 1

Committed(p) ==
    [db EXCEPT !.nodes      = NewNodes(p),
               !.calls      = NewCalls(p),
               !.raw        = NewRaw(p),
               !.imports    = NewImports(p),
               !.unresolved = NewUnresolved(p),
               !.hashes     = NewHashes(p),
               !.reindex    = @ /\ incremental[p],
               !.generation = NextGeneration(p)]

-----------------------------------------------------------------------------
(* Initial states: an absent database, or one an earlier version left with *)
(* facts for some earlier texts.                                           *)

EmptyDb == [nodes |-> {}, calls |-> {}, raw |-> {}, imports |-> {},
            unresolved |-> {}, hashes |-> NoHashes, generation |-> 0,
            reindex |-> FALSE, version |-> None]

BuiltDb(h, v) ==
    [nodes |-> NodesFor(h), calls |-> CallEdgesFor(h, NodesFor(h)),
     raw |-> RawImportsFor(h),
     imports |-> ResolvedImports(RawImportsFor(h), StoredFiles(h), NodesFor(h)),
     unresolved |-> UnresolvedImports(RawImportsFor(h), StoredFiles(h)),
     hashes |-> h, generation |-> 1, reindex |-> FALSE, version |-> v]

Init ==
    /\ disk \in [File -> DiskText]
    /\ \/ /\ db = EmptyDb
          /\ extractedBy = NoHashes
          /\ importPaths = {}
       \/ \E h \in Hashes, v \in Version :
             /\ db = BuiltDb(h, v)
             /\ extractedBy = [f \in File |-> IF h[f] = None THEN None ELSE v]
             /\ importPaths = StoredFiles(h)
    /\ pc = [p \in Process |-> "closed"]
    /\ incremental = [p \in Process |-> TRUE]
    /\ outcome = [p \in Process |-> Unvisited]
    /\ stored = [p \in Process |-> NoHashes]
    /\ removedNodes = [p \in Process |-> {}]
    /\ existing = [p \in Process |-> {}]
    /\ label = [p \in Process |-> 0]
    /\ edits = 0
    /\ seen = [p \in Process |-> Unseen]

-----------------------------------------------------------------------------
(* The environment.                                                        *)

Edit(f) ==
    /\ edits < MaxEdits
    /\ \E text \in DiskText \ {disk[f]} :
          /\ disk' = [disk EXCEPT ![f] = text]
          /\ seen' = [p \in Process |->
                        IF pc[p] \in Refreshing
                        THEN [seen[p] EXCEPT ![f] = @ \cup {text}]
                        ELSE seen[p]]
    /\ edits' = edits + 1
    /\ UNCHANGED <<db, pc, locals, label, aux>>

\* The locals of a request that is over.
Forget(p) ==
    /\ incremental' = [incremental EXCEPT ![p] = TRUE]
    /\ outcome' = [outcome EXCEPT ![p] = Unvisited]
    /\ stored' = [stored EXCEPT ![p] = NoHashes]
    /\ removedNodes' = [removedNodes EXCEPT ![p] = {}]
    /\ existing' = [existing EXCEPT ![p] = {}]
    /\ label' = [label EXCEPT ![p] = 0]
    /\ seen' = [seen EXCEPT ![p] = Unseen]

\* The process dies; an open transaction is rolled back by SQLite.
Crash(p) ==
    /\ pc[p] # "closed"
    /\ pc' = [pc EXCEPT ![p] = "closed"]
    /\ Forget(p)
    /\ UNCHANGED <<disk, db, edits, aux>>

-----------------------------------------------------------------------------
(* The program.                                                            *)

\* initialize_database, in its migration transaction: another extraction
\* version asks for one full pass.
Open(p) ==
    /\ pc[p] = "closed"
    /\ pc' = [pc EXCEPT ![p] = "idle"]
    /\ db' = [db EXCEPT !.version = VersionOf[p],
                        !.reindex = @ \/ db.version # VersionOf[p]]
    /\ UNCHANGED <<disk, locals, label, edits, seen, aux>>

BeginRefresh(p) ==
    /\ pc[p] = "idle"
    /\ pc' = [pc EXCEPT ![p] = "visit"]
    /\ incremental' = [incremental EXCEPT ![p] = ~db.reindex]
    /\ seen' = [seen EXCEPT ![p] = [f \in File |-> {disk[f]}]]
    /\ UNCHANGED <<disk, db, outcome, stored, removedNodes, existing, label, edits, aux>>

\* collect_files meets one path, or finds it gone.
Visit(p, f) ==
    /\ pc[p] = "visit"
    /\ outcome[p][f] = "unvisited"
    /\ outcome' = [outcome EXCEPT ![p][f] = IF disk[f] = Absent THEN "absent" ELSE "found"]
    /\ UNCHANGED <<disk, db, pc, incremental, stored, removedNodes, existing, label,
                   edits, seen, aux>>

ReadHashes(p) ==
    /\ pc[p] = "visit"
    /\ \A f \in File : outcome[p][f] # "unvisited"
    /\ pc' = [pc EXCEPT ![p] = "read"]
    /\ stored' = [stored EXCEPT ![p] = db.hashes]
    /\ UNCHANGED <<disk, db, incremental, outcome, removedNodes, existing, label,
                   edits, seen, aux>>

\* Mutants: any stored hash passes for unchanged; no hash does.
ExaminedByPresence(p, f) ==
    IF disk[f] \in {Absent, Gap} THEN "gap"
    ELSE IF incremental[p] /\ stored[p][f] # None THEN "unchanged"
    ELSE disk[f]

ExaminedAlways(p, f) == IF disk[f] \in {Absent, Gap} THEN "gap" ELSE disk[f]

Examined(p, f) ==
    IF disk[f] \in {Absent, Gap} THEN "gap"
    ELSE IF incremental[p] /\ stored[p][f] = disk[f] THEN "unchanged"
    ELSE disk[f]

\* Pass 1 on one file: read it, hash it, and parse it unless the hash matches.
ReadFile(p, f) ==
    /\ pc[p] = "read"
    /\ outcome[p][f] = "found"
    /\ outcome' = [outcome EXCEPT ![p][f] = Examined(p, f)]
    /\ UNCHANGED <<disk, db, pc, incremental, stored, removedNodes, existing, label,
                   edits, seen, aux>>

ReadRemovedNodes(p) ==
    /\ pc[p] = "read"
    /\ \A f \in File : outcome[p][f] # "found"
    /\ removedNodes' = [removedNodes EXCEPT ![p] = InFiles(db.nodes, RemovedPaths(p))]
    /\ pc' = [pc EXCEPT ![p] = IF incremental[p] /\ Touched(p) = {} THEN "refreshed"
                               ELSE IF incremental[p] THEN "existing"
                               ELSE "commit"]
    /\ UNCHANGED <<disk, db, incremental, outcome, stored, existing, label, edits, seen, aux>>

ReadExistingNodes(p) ==
    /\ pc[p] = "existing"
    /\ existing' = [existing EXCEPT ![p] = db.nodes]
    /\ pc' = [pc EXCEPT ![p] = "commit"]
    /\ UNCHANGED <<disk, db, incremental, outcome, stored, removedNodes, label, edits,
                   seen, aux>>

\* Pass 2 and the transaction that installs its result.
Commit(p) ==
    /\ pc[p] = "commit"
    /\ Touched(p) # {}
    /\ db' = Committed(p)
    /\ extractedBy' = [f \in File |-> IF f \in Parsed(p) THEN VersionOf[p]
                                      ELSE IF f \in RemovedPaths(p) THEN None
                                      ELSE extractedBy[f]]
    /\ importPaths' = Walked(p)
    /\ pc' = [pc EXCEPT ![p] = "refreshed"]
    /\ UNCHANGED <<disk, locals, label, edits, seen>>

\* A required full pass over a tree with no facts, old or new, only clears
\* the marker.
CommitEmptyFullPass(p) ==
    /\ pc[p] = "commit"
    /\ Touched(p) = {}
    /\ db' = [db EXCEPT !.reindex = @ /\ incremental[p]]
    /\ pc' = [pc EXCEPT ![p] = "refreshed"]
    /\ UNCHANGED <<disk, locals, label, edits, seen, aux>>

\* A walk, extraction or SQLite error before the commit; the request fails.
Fail(p) ==
    /\ pc[p] \in {"visit", "read", "existing", "commit"}
    /\ pc' = [pc EXCEPT ![p] = "idle"]
    /\ Forget(p)
    /\ UNCHANGED <<disk, db, edits, aux>>

\* refresh() reads the generation it labels the answer with.
ReadGeneration(p) ==
    /\ pc[p] = "refreshed"
    /\ pc' = [pc EXCEPT ![p] = "answering"]
    /\ label' = [label EXCEPT ![p] = db.generation]
    /\ UNCHANGED <<disk, db, locals, edits, seen, aux>>

\* The answer is written.
Answer(p) ==
    /\ pc[p] = "answering"
    /\ pc' = [pc EXCEPT ![p] = "idle"]
    /\ Forget(p)
    /\ UNCHANGED <<disk, db, edits, aux>>

RefreshStep(p) ==
    \/ Open(p) \/ BeginRefresh(p)
    \/ \E f \in File : Visit(p, f)
    \/ ReadHashes(p)
    \/ \E f \in File : ReadFile(p, f)
    \/ ReadRemovedNodes(p) \/ ReadExistingNodes(p)
    \/ Commit(p) \/ CommitEmptyFullPass(p)
    \/ ReadGeneration(p)

Next ==
    \/ \E f \in File : Edit(f)
    \/ \E p \in Process : RefreshStep(p) \/ Fail(p) \/ Crash(p) \/ Answer(p)

Spec == Init /\ [][Next]_vars

-----------------------------------------------------------------------------
(* Properties.                                                             *)

\* Every variable has its type: in particular a stored hash is always the
\* hash of a text, never the mark of a file the walk could not read.
TypeOK ==
    /\ disk \in [File -> DiskText]
    /\ db \in Database
    /\ pc \in [Process -> Phase]
    /\ incremental \in [Process -> BOOLEAN]
    /\ outcome \in [Process -> [File -> Outcome]]
    /\ stored \in [Process -> Hashes]
    /\ removedNodes \in [Process -> SUBSET Node]
    /\ existing \in [Process -> SUBSET Node]
    /\ label \in [Process -> Nat]
    /\ edits \in 0..MaxEdits
    /\ seen \in [Process -> [File -> SUBSET DiskText]]
    /\ extractedBy \in [File -> Version \cup {None}]
    /\ importPaths \in SUBSET File

CallSites(calls) ==
    {[file |-> e.file, line |-> e.line, name |-> e.name, form |-> e.form] : e \in calls}

CallSitesFor(h) ==
    UNION {{[file |-> f, line |-> c.line, name |-> c.name, form |-> c.form] :
                c \in Calls[h[f]]} : f \in StoredFiles(h)}

\* A stored hash vouches for exactly the facts its text makes, however the
\* commits of several processes interleave: a hash whose rows are missing or
\* older would never be parsed again (pipeline.rs, the unchanged test).
FactsMatchHashes ==
    /\ db.nodes = NodesFor(db.hashes)
    /\ db.raw = RawImportsFor(db.hashes)
    /\ CallSites(db.calls) = CallSitesFor(db.hashes)

\* Every call row, also in files the refresh did not parse, is bound as a
\* from-scratch pass over the stored texts would bind it.
CallsCurrent == db.calls = CallEdgesFor(db.hashes, db.nodes)

\* The import rows and the unresolved report always belong to the node and
\* import rows they are stored with, and to the last committed walk.
ImportsCurrent ==
    /\ db.imports = ResolvedImports(db.raw, importPaths, db.nodes)
    /\ db.unresolved = UnresolvedImports(db.raw, importPaths)

\* An answer reported `fresh' rests, for each file, on a text the file held
\* at some moment since the request came in.
AnswerIsFresh ==
    \A p \in Process : pc[p] = "answering" /\ ~Partial(p) =>
        \A f \in File :
            \/ db.hashes[f] \in seen[p][f]
            \/ db.hashes[f] = None /\ Absent \in seen[p][f]

\* A source gap keeps the file's last facts in an incremental pass and drops
\* them in a full pass, whose marker says that every kept fact is verified.
GapContract ==
    \A p \in Process : pc[p] = "answering" =>
        \A f \in File : outcome[p][f] = "gap" =>
            db.hashes[f] = IF incremental[p] THEN stored[p][f] ELSE None

\* Once the rebuild marker is clear, no fact of another extraction version is
\* left, gaps and concurrent passes included.
CurrentExtraction ==
    db.version # None /\ ~db.reindex =>
        \A f \in File : extractedBy[f] \in {None, db.version}

\* Nothing is being refreshed and every readable file's hash is stored: from
\* here no refresh parses anything, so wrong rows would stay.
Settled ==
    /\ \A p \in Process : pc[p] \in {"closed", "idle"}
    /\ db.hashes = [f \in File |-> IF disk[f] \in Content THEN disk[f] ELSE None]

\* With every hash stored and nothing running, the call rows are right too
\* (service.rs, "rather than serving a silently stale snapshot").
SettledCallsCurrent == Settled /\ ~db.reindex => CallsCurrent

\* What the early return of a refresh relies on: with nothing parsed and
\* nothing removed there is nothing to rewrite.  A file that appears and
\* yields no facts refutes it (README, section 6).
NothingToMutate ==
    \A p \in Process : pc[p] = "refreshed" /\ incremental[p] /\ Touched(p) = {} =>
        /\ db.imports = ResolvedImports(db.raw, Walked(p), db.nodes)
        /\ db.unresolved = UnresolvedImports(db.raw, Walked(p))

Facts(d) == <<d.nodes, d.calls, d.raw, d.imports, d.unresolved, d.hashes>>

\* One generation never names two sets of facts, which is what lets a cursor
\* stand for a snapshot by its generation.
GenerationNamesFacts ==
    [][/\ db'.generation >= db.generation
       /\ Facts(db') # Facts(db) => db'.generation > db.generation]_vars

Tree == [texts: Hashes, paths: SUBSET File]

\* The facts a from-scratch pass over the texts tree.texts derives when its
\* walk meets the paths tree.paths.
ColdFacts(tree) ==
    LET nodes == NodesFor(tree.texts)
        raw   == RawImportsFor(tree.texts)
    IN  [nodes |-> nodes, calls |-> CallEdgesFor(tree.texts, nodes), raw |-> raw,
         imports |-> ResolvedImports(raw, tree.paths, nodes),
         unresolved |-> UnresolvedImports(raw, tree.paths)]

StoredFacts ==
    [nodes |-> db.nodes, calls |-> db.calls, raw |-> db.raw, imports |-> db.imports,
     unresolved |-> db.unresolved]

Store == INSTANCE Snapshots
         WITH Cold <- ColdFacts, facts <- StoredFacts, generation <- db.generation,
              tree <- [texts |-> db.hashes, paths |-> importPaths]

\* Incremental refreshes are indistinguishable from from-scratch ones: every
\* commit publishes the cold index of the stored texts under the next
\* generation, and nothing else changes what readers see (README, "Source
\* hashes drive incremental refresh").
RefreshesPublishColdIndexes == Store!Spec

\* A refresh that finds nothing new keeps the generation, so that it does not
\* make the cursors of earlier pages stale.
QuietRefreshKeepsGeneration ==
    [][db'.generation # db.generation => db.reindex \/ db'.hashes # db.hashes]_vars

=============================================================================
