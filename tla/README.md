# TLA+ models of codefacts

codefacts answers an agent's questions about a repository from a SQLite database of
facts (definitions, calls, imports, ...). Every question first brings the database up to
date with the sources, and every answer says which *generation* of the facts it shows.
One process serves each agent; all processes working on a repository share one database
file. There is no lock between them besides SQLite's, and there is no server-side
session: all continuity lies in the cursor an answer hands out.

This directory models the two protocols everything else rests on: how refreshes keep the
database equal to what a from-scratch index would hold, and how pages of one answer stay
pages of one snapshot; then the bounded searches of the graph, and the parts that have a
protocol of their own: the session with a language server, the release of the npm packages,
their way to a running process, and their installer. All are model-checked on small
instances, and every invariant and action property the runs check is also proved in TLAPS,
for every instance; liveness is model-checked only.

## 1. Inventory

Paths are below `src/`.

| Part | Code | State it keeps | Operations | Modelled in |
|---|---|---|---|---|
| Indexing pipeline | `src/indexer/pipeline.rs` | none between refreshes; while it runs: the walk, hashes, parsed files and node rows it has read | walk, hash check, pass 1 (extract), early return, pass 2 (bind), transaction | `FactStore`, `Refresh` |
| Graph store | `src/graph/store.rs` | the tables; a read scope with its row cache | row replacement, deletion, transaction, generation, rebuild marker, searches, read scopes | `Refresh` (writes), `Paging` (reads of a response), `GraphSearch` (its rows) |
| Schema | `src/db/schema.rs` | the tables' shape, the extraction version | open, migrate, ask for a full pass | `Refresh` (version and marker) |
| Import resolution | `src/resolution/imports.rs` | none | specifier to path, name to node | `FactStore` |
| Extractor, parser | `src/indexer/extractor.rs`, `parser.rs`, `markdown.rs`, `endpoints.rs`, `src/types.rs` | none | text to rows | parameters `Defs`, `Calls`, `Imports` of `FactStore` |
| Query service | `src/service.rs` | the open store; the language-server configuration | refresh, search, outline, map, path, excerpts, cursors | `Refresh` (refresh), `Paging` (search, map, excerpts, cursors), `GraphSearch` (path) |
| Expand | `src/service/expand.rs` | none | five paged sections, a 16 KiB budget, the language-server section | `Paging` |
| Explore, impact, retrieval | `src/service/explore.rs`, `impact.rs`, `rust_impl.rs`, `src/graph/retrieval.rs` | none | bounded traversals of one snapshot | `GraphSearch` (impact) |
| MCP server, registry, CLI | `src/mcp.rs`, `src/cli.rs`, `src/main.rs` | negotiated version, open projects | requests on stdio, one at a time | not modelled (`Paging` takes one call at a time, as it does) |
| Language-server client | `src/lsp.rs` | a session: client, reader and writer threads, two bounded queues, a child process, deadlines | start, open documents, wait until ready, request, finish | `LspSession`; its result in `Paging` |
| npm launcher | `npm/bin`, `npm/lib/launcher.js` | none; it reads what npm has installed | find the native package, check its metadata, verify its digest, run it | `Distribution` |
| npm installer | `npm/lib/installer.js` | agents' configuration files | plan, confirm, verify, apply | `Installer`, `CodexToml` |
| npm release | `npm/scripts/*.mjs`, the jobs of `.github/workflows/release.yml` | the registry | check versions, stage, publish platforms, verify, publish main | `Release`, `Distribution` |
| Presentation, converters, errors | `src/presentation*`, `src/db/converters.rs`, `src/error.rs` | none | formatting, row conversion | no control of their own; a row's rendered size is `Paging`'s `Size` |
| Evaluation harness | `benchmarks/agent-eval` | campaign directories | drivers, suite controllers | not modelled |

How they interact: a tool call reaches the service, which runs the pipeline
(`refresh`), reads the generation, opens a read scope (one SQLite read transaction),
reads rows for the answer in it, possibly asks a language server in between, trims the
page, and returns it with a cursor. The shared state between processes is the
database and the source tree; between a process and its agent it is the cursor.

What is hard, and therefore what the properties are about:

- **Derived rows.** A call in file *x* is bound to a definition in file *y*. When *y*
  changes and *x* does not, only *y* is parsed, and the transaction has to rebind exactly
  the calls of *x* that could come out differently. Everything then depends on the set of
  *changed names*.
- **Two readings of one tree.** The walk, the stored hashes, each file's bytes, the node
  rows and the transaction are different moments; sources and database move in between.
- **Gaps.** A file that cannot be read, is too large or does not parse keeps its last
  facts in an incremental refresh, but must lose them in a full pass, whose point is that
  every kept fact is of the current extractor.
- **Crashes, failures and two versions of the binary**, which all meet in one marker.
- **Snapshots by number.** A cursor stands for a snapshot by its generation, which is read
  neither in the transaction that commits nor in the one that reads.
- **A page cut twice**: by the limit when rows are fetched, and by the byte budget after.
- **Threads around a process that may do anything**: three of ours, two bounded queues, two
  pipes, two deadlines, and a server that talks before and between what it is asked.
- **Publishing what cannot be taken back**: a registry that accepts a version once, shows it
  later, and may take it without saying so.
- **Two packages that must fit**, resolved, downloaded and replaced one by one, with a
  launcher that may start at any moment between.
- **Bounds that are met exactly**: a search that filled its bound and one that was cut off by
  it look alike from inside.
- **Files of others**: read, computed, confirmed by a human, and only then written.

`PROJECT.json` lists each hazard with the line where it bites and the property that
would catch it.

What makes the parts correct:

- pipeline and store: a stored hash vouches for the rows of its text; derived rows are
  those of a cold index; no fact of an older extractor survives the marker; an answer
  called fresh is not older than its request;
- generation: never two sets of facts under one number, and no new number for the same
  facts;
- paging: the pages under one chain of cursors come from one snapshot and add up to its
  answer, a source excerpt is the definition it claims to be, and following cursors comes to
  an end;
- language-server client: it returns by its deadline whatever the server does, leaves
  nothing running without saying so, and a server that keeps the protocol is understood;
- release: the main package is accepted only when everything it depends on is visible, all
  of one build, and an interrupted release can be resumed;
- distribution: what can be installed is complete and of one version throughout, and the
  process a user gets is the binary released with its launcher;
- searches: `no path`, `exhausted` and each cutoff mean what they say of the graph;
- installer: nothing is written before the package is verified, success means configured,
  and settings of others stay.

## 2. The modules

| Module | What it is |
|---|---|
| `FactStore` | Pure definitions: rows, what one text contributes, how a call and an import are bound |
| `Snapshots` | Abstract specification of the store: at each moment the cold index of some tree, and a new generation with each publication |
| `Refresh` | The refresh protocol of several processes over one database; implements `Snapshots` when one process uses it |
| `MCRefresh` | Instance: two files, three texts |
| `RefreshProofs` | Lemmas about bindings; the theorems about `Refresh` |
| `Paging` | One agent, its server, its cursors, other processes' commits, language-server results |
| `MCPaging` | Instance: answers of up to four rows |
| `PagingProofs` | Theorems about snapshots, excerpts and what pages add up to |
| `GraphSearch`, `MCSearch` | `path` and `impact` over any graph; instances of up to ten relationships |
| `GraphSearchProofs` | Theorems about what a search has seen, how far it is and what it has left out |
| `LspSession` | One session with a language server: three threads, queues, pipes, deadlines, the server's process |
| `LspSessionProofs` | Theorems about the queues of a session, why it fails and what it leaves behind |
| `Release`, `MCRelease` | Jobs that publish a version to the npm registry; two platforms, two builds |
| `Distribution`, `MCDistribution` | `Release` with the gate before it and, behind it, npm on one machine and the launcher |
| `DistributionProofs` | Theorems about `Release`; `Distribution` implements it; theorems about processes and launches |
| `Installer` | One user's runs of `codefacts install` among other programs |
| `InstallerProofs` | Theorems about `Installer` |
| `CodexToml` | The installer's edit of a TOML text |
| `CodexTomlProofs` | Theorems about files without arrays of tables |
| `SequenceFacts` | Induction over numbers and sequences, the least and greatest of a set, and what flattening returns: the lemmas the other proofs share |

### FactStore

`Content` is the set of texts a file can hold; `Defs`, `Calls` and `Imports` say what the
extractor makes of each. A SHA-256 is modelled by the text it is of. Files are naturals, so
that `Before` is the order by path and line in which `callable_candidates` sorts.
`CallBinding` is `call_candidates`: the one definition in the same file, else the only
one, else the first of several, and for member calls all of them up to
`MAX_AMBIGUOUS_CALL_TARGETS`. A call without a target keeps a row with target `None`
(the code's `unresolved:name` node), which is how a later rebinding finds it again.
`ResolvedImports` is `resolve_imports`: the first candidate path among the *walked* paths,
then the name in that file, then the name anywhere.

A definition is of a kind that calls bind to (functions, methods), that constructors bind to
(classes, structs), or of another. Two functions bind a call. `InitialCallEdges` is pass 2 for
a file just parsed: where the binding is certain, the row keeps the target the *extractor*
chose (`ExtractedTarget`), which looks at names and not at kinds. `CallEdges` is the
rebinding of a row that is already stored. `MCRefresh`'s texts have a function, a class, and a
name called as a function that only a class has; a name that both have is
`MCMixedKinds.cfg` (section 6).

Abstracted: every definition is exported and has one name (the code also has qualified
names); a definition is identified by file, line and name, a call site likewise
(`OneDefPerLine`, `OneCallPerSpelling`); endpoint and Markdown nodes are definitions like
others. Candidate paths of an import are an input of the model.

### Refresh

| Variable | Code |
|---|---|
| `disk` | the working tree |
| `db` | nodes, call edges, raw and resolved import edges, unresolved references, file hashes, generation, `full_reindex_required`, extraction version |
| `pc`, `incremental`, `outcome`, `stored`, `removedNodes`, `existing` | the locals of `index_directory`, at the points where it touches shared state |
| `label` | the generation `refresh` puts on the answer |
| `seen`, `extractedBy`, `importPaths` | auxiliary, read by no guard |

One action is one access to shared state: `Open` (`initialize_database`),
`BeginRefresh` (the marker is read), `Visit` (one directory entry), `ReadHashes`,
`ReadFile` (one file of pass 1), `ReadRemovedNodes` (with the early return),
`ReadExistingNodes`, `Commit` (pass 2 and the transaction), `CommitEmptyFullPass`,
`ReadGeneration`, `Answer`; `Fail` and `Crash` can happen at every one of them, `Edit`
between any two. The rows a commit writes are one operator each (`NewNodes`, `NewCalls`,
`NewImports`, ...), in the order of the transaction's statements. Pass 1 runs in parallel in
the code; here each file is read at a moment of its own, in any order.

The transaction is one step because SQLite runs one writer at a time and rolls back an
unfinished one. What it does *not* protect is what the code reads before it, which is why
those reads are actions of their own.

### Snapshots

The promise: `facts = Cold(tree)` at every moment, and a publication takes the next
generation. `Refresh` maps `tree` to the stored texts and the last committed walk, `facts`
to the rows, `generation` to the row in the database; `RefreshesPublishColdIndexes` is
`Snapshots`' specification under that mapping.

### Paging

A whole refresh is one step (`RefreshDb`), as `Refresh` justifies: new facts come with a new
generation, and a quiet refresh changes neither. Then `ReadLabel`, `OpenScope` and `Respond`
are the three moments at which a response reads the database: its generation after the
commit, the first statement of the read transaction, and the rest of it. `Respond` is the
rest of the handler: `page_offset_with_snapshot` (`Admitted`), the rows, the trimming
(`Fitting`), the cursor (`Extended`). Three shapes of answer are modelled: `search` (exact
names, then full text without the exact ones, two offsets derived from one), `callees` (a
static section of expand; callers, references and tests are paged by the same code) and
`semantic` (the language server's locations, fingerprinted into the cursor). `Restart`
kills the server in the middle of a call; `Misuse` sends a cursor with another scope or an
extra offset.

An `expand` resolves its symbol again on every page, in the read scope and before it looks at
the cursor. `facts.definitions` is what the agent's symbol resolves to in the facts, a set of
ids, each of which holds the definition's line: with none or several (`not_found`, `ambiguous`)
the answer says so (`Admitted`, `Resolved`); and as the cursor's scope hashes the id
(`Cursor`), a cursor of the agent's own is an error once its definition has moved to another
line (`Accepts`), and only with the id unchanged is it stale. How a symbol is resolved is not
modelled, only these outcomes.

Two things a response reads otherwise. `map` opens no read scope, so `LaterReads` are of the
database as it is then. And an `expand` of all sections shows the definition's source, from
the file as it is at that moment: `Excerpt` is `definition_source`, which compares it with the
hash of the snapshot and cuts the snapshot's lines out of it. A source is represented by the
facts it has, so that its lines can be compared with those of the text they are cut from.

The agent is external: it follows the cursor it holds, starts again when told
`stale_cursor`, and gives up when a row alone exceeds the budget (`failed`) or its symbol is
not one definition (`unresolved`). When its own cursor is refused as another request's
(`lost`), nothing the code says makes it start again; the model lets it ask any question
next, the same one included, and section 4 says what `Answered` assumes of it.

### GraphSearch

One search, of one of two kinds, over a graph that stands still because both hold a read
scope. `path` (`path_with_files`) takes as much of the queue as symbols may still be visited
(`NextBatch`), reads its confirmed calls in one statement and follows them in the order of
the statement (`FollowCall`); it ends at the target, with an empty queue, or full (`NoPath`).
`impact` takes one symbol after the other (`NextSymbol`), follows its rows (`FollowRow`) and
notes each of three bounds when it meets it. `reached` is `previous`, respectively the distance
and witness of each affected symbol. `split` is auxiliary: whether a batch has left a part of
the queue behind. The limits 5,000, 5,000 and 10 of the code are in the request, so that small
ones can be checked. The order of the rows is that of the statements; equal rows at several
lines are one, and the resolution of the names asked for and file anchors' facts are left out.

### LspSession

`stage` is where `query_references` is: `start`, the exchange (`initialize`,
`initialized`, `drain`, `open`, `ready`, `references`), the cleanup (`kill`, `reap`,
`join`), `done`. Each message goes through `send` (`Offer`, `Acknowledged`) to the
writer thread, the pipe, the server, the other pipe, the reader thread and its queue
(`outbox`, `stdin`, `stdout`, `inbox`), and every one of these has a bound. `Handle` is what
the client does with any message it takes: answers to requests of the server
(`server_request`, one more `send` in the middle of whatever it is waiting for), readiness,
everything else ignored. The three providers differ in `IsReady`: rust-analyzer must have
been busy, then quiescent and healthy; clangd must have sent diagnostics of each document;
others are not waited for.

The server is external. `ServerReads` and `ServerWrites` are one that keeps the protocol,
`Owes` what that means; `ServerSpeaks` is what it may say unasked; `Faults` turns it into
one that exits, writes garbage, errors or wrong answers, or leaves a descendant with its
pipes.

A deadline is an event (`Expire`, `CleanupExpires`) that can strike between any two steps.
Each step of the querying thread looks at the clock first, so one that began in time is
ordered before the deadline. Modelled is the Unix build, where the process is killed with
its group. Not modelled: the probe for the executable and its cache, which documents are
opened, and positions.

### Release

A job is one run of `publishReleasePackages`: `Begin` (with the comparison of the names
found with `assets.json`), then per package `Look` (`npm view`), `Publish` and `Verify`;
`After` is the order of the three loops. `Publish` can be refused, as the registry takes a
version once; `PublishUnanswered` is the archive accepted whose answer is lost; `Fail` any
failing command, late answer or cancelled job; `GiveUp` the deadline of 15 minutes.
`registry` is what has been accepted and `visible` what `npm view` shows; in between lies
`Appear`. An archive stands for its SHA-512 integrity, and all are of one version, which
`publishReleasePackages` compares. A job that failed can begin again with the archives of
any build. A version that got packages of two builds can no longer be completed by anybody:
then every job fails, which is safe, and what `OneBuild` and `SuccessIsRelease` allow.

### Distribution

`Distribution` extends `Release` with what lies before and behind it. A build is a checkout
with its manifests (`Source`): `Synchronized` is `check-release-version.mjs` line for line,
`MayStage` what the staging scripts insist on, `StagedArchive` what they put into a package.
A job goes on only with a build that passes (`BeginSynchronized`), any other ends it
(`Refuse`); the rest of a release is `Release`'s own actions. A binary is represented by the
platform, version and build it is of, and its SHA-256 by the binary.

The machine is external: `Update` resolves the latest main package and the native package it
pins as npm shows them at that moment; an optional dependency that cannot be had is left out
without a word, which is what npm does. `Replace` removes and writes the three files that
matter one by one in any order, and `Abort` kills npm between any two.

A launch is `Start` (the main package's version and the command are loaded), `ReadMetadata`,
`VerifyDigest` and `Spawn`, each of which looks at the disk anew, then `Exit`. It only reads, so
one launch at a time stands for all. Whatever fails ends it (`failed`), as the code throws.
`disturbed`, `whole` and `late` are auxiliary and name the circumstances the properties
except.

### Installer and CodexToml

`stage` is where `runInteractiveInstall` is. `Plan` reads one agent's file and computes the
new one; `Verified` is `ensureBinary`; `RunCommand`, `SkipCurrent`, `WriteTemporary` and
`Rename` are `applyInstall` and `writeTextAtomically`. A file is its other settings and our
entry. `Edit` is any other program that changes a file, between any two steps. `theirs` is
what the files would be without this run, and with `config` gives `Written`. `Updated` is what
the library makes of a plan: our entry set, the other settings as they were. Which of two
OpenCode files is taken and the detection of agents are not modelled, and the edit of JSON
is a library's.

The edit of TOML is the code's own and is `CodexToml`: `ReplaceEntry` is
`replaceCodexEntry` over the kinds of a file's lines, and `Others` is what a TOML reader
makes of the same lines. Tables stand in any order: a subtable of ours before our table,
behind another table or without ours is legal and in the runs and theorems; the code leaves
such a subtable and its keys (section 6), and `EntryIsNew` speaks of our table and what
stands right behind it (`InEntry`). Blank lines are left out, and so are values of several
lines, whose lines could look like tables. Comments are no settings: a user's comment between
our entry and the next table is deleted with the entry, and no property objects. An entry that
is written otherwise, as a dotted key or an inline table of `mcp_servers`, is to the code, and
so to the model, not ours. In `Installer` an up-to-date entry is skipped; for
Codex this never happens (section 6), and the same text with one more comment is
written instead.

## 3. The runs

| Run | Instance | What it shows |
|---|---|---|
| `refresh_single` | 2 files, 3 texts, 1 process, 2 edits; absent database or one of any earlier tree and version; unreadable files, failures, crashes | What one process promises, including the refinement of `Snapshots` (which has what `refresh_shared` checks in it) |
| `refresh_shared` | 2 processes of one version, 1 edit | What two overlapping refreshes cannot break: hashes vouch for rows, imports belong to their rows, one generation for one set of facts |
| `paging` | a server and another process, 2 sources' worth of rows and 4 of facts (the definition in one place, in another, and twice), 2 language-server results, limits 0, 2 and 9 of at most 3, budget 3, 2 changes, 1 fault | Pages under one chain are one snapshot unless another process commits between label and read transaction; pages of one snapshot, and a map, add up to it; an excerpt is its definition; only an oversized row is refused; the agent gets its answer, or learns that its symbol is not one definition |
| `search` | all subsets of 10 relationships between 7 symbols, for either search, and 27 bounds | Each answer about the graph is true: no path, a shortest chain unless a batch was split, exhausted, cut off |
| `distribution` | 4 builds (two good ones with different binaries, one with old pins, one with an old Cargo.toml), 2 platforms, 1 job at a time, the release before, 1 lost or cut-off installation | What can be installed fits together; a process is its launcher's binary; an undisturbed launch succeeds |
| `lsp_faulty` | all providers, one document, pipes and queues of 1, all faults, 2 unasked messages, deadlines | A session ends, reports what it leaves, and its threads end |
| `lsp_serving` | two documents, the reader's queue of 2, no faults, 3 unasked messages, no deadlines | A server that keeps the protocol never makes a session fail; queues never wait for each other, no readiness is missed |
| `release` | 2 jobs, 2 platforms, 2 builds that differ in the platform binaries and share the launcher, any set of archives staged | A released version is complete, of one build, in order; an interrupted release comes to an end |
| `installer` | two agents configured by file and one by command, 2 edits of others, 2 runs | Verification first, commands before files, success means configured, settings stay that nobody edits meanwhile |
| `toml_install` | files of up to 5 lines, without arrays of tables, with subtables of ours anywhere, two installs | Other settings stay, our table and what stands right behind it are new, the second install adds a comment only |
| `stale_writer`, `toml_arrays` | as small as the behaviour allows | Disagreements of section 6 |

Bounds and why they are enough. Two files are what a derived row needs: one that calls or
imports and one that defines. The three texts of `MCRefresh` make every case of binding
happen: no definition, one, several, one in the same file, a definition that only moves to
another line, a name that appears and disappears, a plain and a member call, a truncated
list (`MaxTargets = 1`), a named import and a wildcard one, a first candidate path that
comes and goes. Edits are bounded by `MaxEdits`: two let a file change during a refresh and
again before the next. Crashes and failures are not bounded. Generations are bounded
only through the edits, since a quiet refresh keeps them. In `Paging`, three rows and a
limit of two give several pages; `"d"` weighs exactly the budget and `"x"` more, so that
both sides of the byte limit are met; 0 and 9 are both sides of `bounded_limit`.
`MaxEdits` bounds changes and `MaxFaults` restarts and misuses. The processes of
the shared runs are symmetric (permuted by `Processes`), except in `MCOldBinary.cfg`, where
one has an earlier version, and in `refresh_single`, which has only one.

`SharedSpec` starts the two-process runs from a tree without gaps and a database that is
absent or in step with it; gaps and older databases are `refresh_single`'s, and the theorems
cover both for any number of processes.

A session's smallest bounds are its hardest: with pipes and queues of one message every
wait for room happens, and the 4 and 16 of the code only add states in which nothing
waits. Two documents are what clangd's condition needs, two unasked messages a request of
the server and a notification; the third lets a server be busy, quiet and busy again. Two
jobs of two builds overlap in every way a release can mix; the launcher is the same in
both, because only then can the main package look published by one of them. `MaxFaults`
bounds failures without a cause in the registry; refusals, wrong integrities and missed
deadlines are not bounded. `MaxEdits` and `MaxRuns` bound the installer's world: one edit
suffices to come between any two steps, a second makes two files, or one file twice, change.

The graphs of `search` have what a bounded traversal can stumble over: two ways to a symbol,
of the same and of different length, a cycle, a symbol with more calls than a small bound
admits (so that a batch is split), two relationships between the same symbols, a container
whose member is also called, and a heuristic binding that must not count. Every subset of
them is a graph, and the bounds include those that are met exactly and those that are never
met. In `distribution` `Release` needs only one job,
as `release` and the theorems about it cover several; two platforms show a launcher that runs
on one it was not installed for, `Elsewhere` one that no binary is published for. One loss
(`MaxLosses`) is enough for an installation without its native package and for one cut off
half-way; failures within a job (`MaxFaults`) are `release`'s.

Deadlock is not checked where the modelled system stops: a search, a session, a release, and
the bounded runs of an installer.

Every property of a passing run has a mutant: the definition next to it in the module
(marked "Mutant"), put in place of the one it varies, makes that run fail.

## 4. Fairness

`Refresh` states none: it has no liveness property, as a process may crash or be closed for
good at every point. `Paging` assumes that an agent with an open question goes on
(`WF` of `Ask`), that an agent whose own cursor is refused as another request's does not keep
it for ever (`WF` of `NewQuestion` from `lost`; the error does not tell it to start again,
so this is an assumption about agents and not about the code), and that a handler that has
begun runs to its end (`WF` of `ReadLabel \/ OpenScope \/ Respond`); the handler is sequential and its waits are
all bounded (SQLite's busy timeout, the language server's deadline). Nothing is assumed of
edits, other processes, restarts or misuse, other than that a run has finitely many edits
and faults: with sources that change for ever between any two pages, every cursor is
rightly refused.

`LspSession`: our threads are scheduled, a deadline that can strike does so some time, and
a killed process ends some time. Nothing is assumed of the server (`Spec`) except in
`ServingSpec`, where it reads and writes independently (two conjuncts, since a server that
stops reading while it writes is a server that may block). `Release`: a job that can take a
step takes it, a failed one is run again some time, which is what the operators'
instructions say of an interrupted run, and the registry shows what it has accepted some
time. `Installer`, `CodexToml`,
`GraphSearch` and `Distribution` state none: a user may never answer, and npm may never come
to an end.

## 5. What is proved

`RefreshProofs` proves, for any set of files, texts, processes and versions that satisfies
the assumptions stated with the constants:

| Theorem | Property | Processes |
|---|---|---|
| `TypeCorrect` | `TypeOK` | any |
| `HashesVouchForFacts` | `FactsMatchHashes` | any |
| `ImportsStayCurrent` | `ImportsCurrent` | any |
| `GenerationsNameFacts` | `GenerationNamesFacts` | any |
| `OneVersionExtraction` | `CurrentExtraction` | any, all of one version |
| `SoleProcessCalls` | `CallsCurrent` | one, with `NamesUnmixed` |
| `SoleProcessPublishesColdIndexes` | `RefreshesPublishColdIndexes` | one, with `NamesUnmixed` |
| `SoleProcessAnswersFresh` | `AnswerIsFresh` | one |
| `SoleProcessKeepsGapContract` | `GapContract` | one |
| `SoleProcessKeepsQuiet` | `QuietRefreshKeepsGeneration` | one |

`NamesUnmixed` says that no name is defined with two kinds, in whatever texts. Without it the
two functions that bind a call disagree, and `CallsCurrent` is false (section 6).

The argument, in the order of the module:

1. *Types.* One lemma per row set of the transaction. That a bound call has a target that is
   a node needs that a nonempty set of nodes has a first one (`FirstOfIn`), by well-ordering
   of naturals (`LeastNatural`).
2. *Hashes vouch for rows.* Inductive on its own, with the types: a commit replaces the
   rows and the hash of the same files, so for each file both are old or both are new,
   whatever the process had read before. For call rows only the call *sites* are claimed
   (`ReboundSites`: rebinding moves targets, never sites).
3. *Imports* and the *generation*: each commit recomputes imports from its own rows.
4. *Extraction.* `CurrentExtraction` is not inductive: a full pass in progress will clear
   the marker on the strength of what it has parsed. `ExtractionInv` adds that a running
   process belongs to the stored version, that a file without a hash has no version
   either, and that a full pass past `ReadHashes` has read the hash of every file that
   still carries facts of another version, and so will parse the file or remove its rows
   (`FullPassTouches`).
5. *Calls, one process.* `CallsCurrent` needs two more facts, `SoleInv`: what the process
   read before its transaction (hashes, removed rows, existing rows) still is what the
   database holds when the transaction runs, and the calls are current now. Then a call
   that spells no changed name has the same candidates before and after (`UnchangedName`),
   so that its row is right where it is, and every other is rebound. This is exactly what
   a second process breaks (`stale_writer`).
   With `NamesUnmixed` the row pass 2 writes is the one a rebinding would write
   (`InitialIsRebound`), whatever the extractor chose.
6. *Refinement.* 2, 3 and 5 make the rows a function of the texts and walked paths
   (`FactsAreCold`), and each step that changes the mapped state is a `Publish`
   (`StepPublishes`).

7. *Answers, one process.* `AnswerInv` follows each file through the refresh: every mark
   its visit leaves (`Witnessed`) is one the disk has justified since the request came in, no
   file is left out (`Passed`), and when the refresh has ended the stored hash is exactly
   what the mark calls for (`Left`). Freshness and the gap contract are two readings of the
   last. `NewsOnly` adds that what an incremental pass parsed differs from what is stored, so
   that a commit that moves the generation has changed a hash.

Assumptions: those named in `FactStore` and `Refresh`. `MaxEdits` bounds edits in TLC only;
the theorems hold for every value. Bounds on files and texts play no role in the proofs, as
no induction over them is needed.

Where induction over data is needed (pages, levels of a graph, lines of a file), a theorem of
the library that takes a predicate as a parameter cannot be used. `SequenceFacts` states the
same with sets: a set that holds 0 and each member's successor holds every natural
(`NaturalsFromZero`), and one that holds the empty sequence and each member's extensions holds
every sequence (`SequencesFromEmpty`). A recursive function is then reasoned about through the
finite tables that satisfy its equation up to some number: each exists, any two agree, and so
the equation has a solution, which `CHOOSE` picks (`FlattenIs`, `WithinIs`).

The other proof modules:

| Theorem | Property | For any |
|---|---|---|
| `LspSessionProofs!CleanSessions` | `CleanUnlessReported` | server, faults, bounds, with or without deadlines |
| `LspSessionProofs!SessionTypes` | `TypeOK` | the same |
| `LspSessionProofs!FailsForTime` | `FailsOnlyInTime` | the same, without faults |
| `DistributionProofs!OneBuildReleased` | `OneBuild` | platforms, builds, jobs, failures |
| `DistributionProofs!PlatformsReleasedFirst` | `PlatformsFirst` | the same |
| `DistributionProofs!SuccessfulRelease` | `SuccessIsRelease` | the same |
| `DistributionProofs!ReleaseTypes` | `TypeOK` | the same |
| `InstallerProofs!VerifiedFirst` | `NothingUnverified` | agents, settings, edits, runs |
| `InstallerProofs!CommandsBeforeFiles` | `CommandsFirst` | the same |
| `InstallerProofs!SuccessConfigures` | `SuccessIsConfigured` | the same |
| `InstallerProofs!OthersSurvive` | `OthersUnlessEdited` | the same |
| `PagingProofs!OneSnapshotPerChain` | `OneSnapshotUnlessOvertaken` | facts, answers, limits, budgets, processes, restarts, misuses |
| `PagingProofs!ExcerptsAreDefinitions` | `ExcerptIsDefinition` | the same |
| `PagingProofs!AnswersAreComplete` | `NothingMissingOrTwice` | the same, and any sizes of rows |
| `PagingProofs!RefusalsAreOversized` | `RefusedOnlyIfOversized` | the same |
| `GraphSearchProofs!SearchTypes` | | graphs, requests, bounds |
| `GraphSearchProofs!NoPathIsNone` | `NoPathMeansNone` | the same |
| `GraphSearchProofs!ExhaustedShowsAll` | `ExhaustedMeansAll` | the same |
| `GraphSearchProofs!NearestFirst` | `ShortestUnlessSplit` | the same |
| `GraphSearchProofs!CutoffsLeaveOut` | `CutoffsAreReal` | the same |
| `CodexTomlProofs!KeepsOthers` | `OthersKept` | files without arrays of tables, numbers of installs |
| `CodexTomlProofs!LeavesOneEntry` | `EntryIsNew` | the same |
| `CodexTomlProofs!InstallSettles` | `Settles` | the same |
| `DistributionProofs!DistributionReleases` | (a behaviour of `Release`) | builds, manifests, platforms, jobs, losses |
| `DistributionProofs!Synchronizes` | `ReleasedIsSynchronized` | the same |
| `DistributionProofs!Runs` | `RunsItsRelease` | the same |
| `DistributionProofs!Launches` | `LaunchesIfInstalled` | the same |

- *Sessions.* `CleanInv` adds to the property that nothing runs before the session starts,
  and that one which waits for its threads without an error has reaped the process. The
  lemmas separate the querying thread, the only one that changes `stage`, from all others,
  which can only end.
- *Messages of a session.* Seven queues, pipes and threads hold messages at once; `Carried(M)`
  says that each message in any of them is in `M`, and `CarriedOn` that it stays so if what the
  session offers and what the server says is in `M`. It is used twice. With `Sane` (a document
  opened is one there is) it gives the types: what clangd says of documents is about those, and
  `Opening` counts them. With `Polite` (no garbage, no error) it gives `FailsForTime`:
  `Serving` says that during the exchange the process and both threads go on, so that of the
  reasons in `Broken` only the deadline is left, and that a quiescent server is a healthy one.
- *Releases.* What a job knows has to be tied to the registry: `JobInv` says that while a
  job is in a stage, the packages it has dealt with in that stage, and all of earlier
  ones, hold its own archives; that a job past verification has found every platform
  package visible; and that what is accepted never changes, so that all this survives the
  steps of other jobs. `OneBuild` follows for the build of whichever job published the
  main package.
- *Installer.* `Order` says what a run has done in each stage (nothing early; commands
  before files), `Progress` that each agent still pending has a plan computed from its
  file as it is, or the file was edited meanwhile, and each other its entry. One lemma
  covers all three ways to carry out a plan (`AppliedKeeps`). `OthersSurvive` needs
  `Order` only for what a plan in hand was computed from.
- *Pages.* A page carries the generation of its cursor's chain, and a generation has one set
  of facts: `Collecting` says that the pages nobody overtook are of the facts of the database
  whenever the cursor still has its generation, and of the read transaction's when a call is
  under way in one; for the language server's section, that they are of the result whose
  fingerprint the cursor carries. `Reads` orders the label, the snapshot and the database,
  `Asked` and `Held` say what a call and an agent have in hand. Excerpts are right because
  hash and lines come from one snapshot.
- *What pages add up to.* `Gathered` says that the cursor's offset is the number of rows
  collected. The rest is about one page: it is the slice of its answer from its offset on
  (`IsPage`, `Continues`), also where the answer consists of two parts whose offsets are
  computed from one (`IsRead`), and also after trimming, which keeps a prefix of the slice
  and leaves the cursor right behind it; slices that follow each other make up a prefix
  (`PrefixGrows`); and if not even one row fits, that row is larger than the budget
  (`FittingIs`).
- *Searches.* A visited symbol waits in the queue, or its relationships have all been
  followed, or they are in the rows at hand (`PathInv`, `ImpactInv`). When neither queue nor
  rows are left, the visited symbols are closed under the relationships and so contain all
  that is reachable; reachability is stated with closed sets for that reason.
- *Levels.* That no shorter chain exists cannot be seen from the queue alone: `LevelInv` adds
  that the search goes level by level. For `path` (`PathLevels`), while no batch was split, the
  whole queue is one level, the rows at hand start on the one before, and everything
  nearer has been followed. For `impact` (`ImpactLevels`) the queue is in the order of the levels
  and spans two. Then all symbols up to the level at hand are visited (`LevelVisited`), and
  one reached from it that was not visited lies exactly one step further
  (`ReachNearest`). `Cuts` keeps what each bound that was met says: the row that met it led
  to a symbol outside (`DeepRow`, `RowWithin`). Only a split batch breaks `PathLevels`.
- *Distribution.* Each of its steps is one of `Release` or leaves `Release` alone
  (`StepRefines`): a refused build looks to `Release` like a job that finds an archive
  missing. So the invariant of `Release` holds, and `GateInv` adds that only builds that
  passed the check get anything accepted. `DiskInv` says what npm's files can be (a package of
  one of the two releases, torn, or absent) and that a whole installation that has come to
  its end is of one release; `LaunchInv` that what a launch has read fits the package it
  was loaded from.

- *The TOML edit.* Everything rests on how a file is cut up: `Around(s, p, d, q)` says that `s`
  is `p`, our entry with the lines `d` under it, and `q`, which is empty or begins with a
  table other than ours, with no table of ours in `p` and `q` (subtables of ours may stand
  in both). The entry ends where the code's pattern finds the
  next table, and without arrays of tables that is where TOML has the next section, so an
  install replaces `d` and nothing else (`InstallStep`). `Others` of a file is that of its parts
  (`OthersAround`), since a section never reaches over a table. With an array of tables the
  first of these is false, which is `toml_arrays`; the three theorems assume
  `"array" \notin Kinds`.

Every invariant and action property of a passing run is a theorem. Only model-checked are the
liveness properties `Answered` (of `Paging` and of `LspSession`), `Ends`, `ThreadsEnd` and
`Resumes`, which are out of the prover's reach. What a theorem assumes beyond the assumptions
named with the constants is in the tables: one version for `OneVersionExtraction`, one process
and `NamesUnmixed` for the theorems so marked, no faults for `FailsForTime`, no arrays of tables
for `CodexToml`. Section 6 shows what happens without the first, the second and the last; a
server that exits or answers with an error fails a session at any time.

## 6. Disagreements between the code and its documentation

The first two are runs that end in a counterexample; `PROJECT.json` quotes the text they
refute. The others were found with the same modules; no run is kept for them, and the cfg
named shows them again, as it is where it says so and otherwise with the property added to
it.

- **`stale_writer`** (`SettledCallsCurrent`). Both processes read hashes and rows around
  an edit; each commits what it parsed. Names changed by the first commit are unknown to
  the second, whose freshly written calls were bound against rows it read before. With all
  hashes now equal to the sources, no later refresh parses or rebinds anything: the calls
  stay wrong until a file that spells or defines the name changes.
- **`toml_arrays`** (`OthersKept`). The pattern that finds tables knows `[name]` and not
  `[[name]]`. An array of tables that follows our entry in Codex's configuration is taken
  for a part of the entry, and an install that replaces the entry deletes it.
- `CurrentExtraction` (`MCOldBinary.cfg` as it is). A binary of an earlier version, still
  running, makes the full pass the newer one asked for, with its own extractor, and clears
  the marker. `src/src/db/schema.rs:10` says that existing indexes make "one safe full source
  pass instead of silently serving pre-change facts".
- `OneSnapshot` (`MCMixedSnapshots.cfg` as it is). Between the generation that labels a page
  and the transaction that reads it, another process may commit; the page then shows the
  newer facts and its cursor joins them to a chain of the older ones. `src/README.md:156`
  says that a cursor "prevents mixed-snapshot pagination".
- `ShortestPath` (`MCShortestPath.cfg` as it is). Near its bound on visited symbols, `path`
  takes only a part of the queue in a batch. What is left of a level is then looked up
  together with symbols of the next, and as rows are ordered by source id and not by
  distance, the target can be reached first by the longer of two chains; with a small `limit`
  the answer can even be `path_too_long` although a shorter chain would have fitted.
  `src/src/service.rs:961` says "This preserves shortest-path semantics", `src/README.md:88`
  "A shortest bounded static calls path".
- `CallsCurrent` in `MCMixedKinds.cfg` (as it is). Where a function and a class share a name,
  a certain call in a file just parsed keeps the extractor's choice, which may be the class; the
  same call rebound later gets the function. Which of the two the index holds then depends on
  the order in which files changed.
- A `map` that another process overtakes (`NothingMissingOrTwice` without its exception, in
  `MCPaging.cfg`) shows counts of two snapshots.
- `AnswerIsFresh` in `MCRefreshShared.cfg`. A slow process commits an older text over the
  newer one a faster process has just committed and found current.
- `NothingToMutate` in `MCRefreshSingle.cfg`. A file that appears but yields no facts is a
  walked path, and imports resolve to walked paths; the early return leaves the import
  report as it was.
- `OnlyTheEntry` in `MCInstaller.cfg`. The new text is computed before the question and
  written after the answer; what another program wrote meanwhile is replaced.
- `RunsItsRelease` without `late`, in `MCDistribution.cfg`. The binary is verified and then
  started by its path; an update of npm's between the two starts an unverified one.
- `chain.status # "lost"` in `MCPaging.cfg`. After an edit that moves a definition to another
  line, the agent's next `expand` with the cursor it was given fails with "cursor does not
  belong to this request" (`src/src/service.rs:1972`), as the scope is compared before the
  generation and hashes the id of the definition found now. `chain.status # "unresolved" \/
  chain.pages = <<>>` in the same cfg: after one that adds a namesake (or removes the
  definition) it is told `ambiguous` (or `not_found`).
  `src/docs/CURSOR-CONTINUATION-2026-09-26.md:22` says "A changed index generation or
  semantic-reference result produces `stale_cursor`", `src/README.md:157` of cursors in general
  "if source changes between pages, the server returns `stale_cursor`".
- Detached subtables (`EntryIsNew` with `IsOurs` for `InEntry`, in `MCTomlInstall.cfg`). An
  install removes the subtables of ours that stand right behind our table. One that stands
  before it, behind another table or alone, such as an old `[mcp_servers.codefacts.env]`, stays
  with its keys and so applies to the new command too; `src/README.md:314` says that the installer
  "only creates or replaces the named `codefacts` MCP entry".
- Repeated installs (`Settles` without its exception). The entry begins with a comment
  above its table, and the next install replaces from the table on: comments add up, and
  the file is never "already current".

## 7. What is not modelled, and why

- *explore and retrieval*: ranking and cutting of text from one snapshot. They promise an
  order of preference, and no definition of it exists to check them against other than
  themselves.
- *Symbol resolution* (names to the one symbol meant, of which `Paging` has the three
  outcomes), *relationship explanations*, *reports
  of unresolved references*, *statistics*: queries of one snapshot without a bound or an
  order that anything rests on.
- *Schema migrations* other than the extraction version: each adds a column or a trigger,
  in the transaction of `initialize_database`.
- *MCP server, registry and CLI*: requests are read, dispatched and answered one at a time.
- *The language server's probe* and its cache, the choice of documents and positions.
- *Agent detection*, the choice between two OpenCode files and the edit of JSON, which is a
  library's.
- *The evaluation harness*, which is not part of what users run.

What would be worth proving next: what liveness leaves to safety, such as that every trip of an
agent through `Paging` with a cursor brings it forward, or that the bounded queues of a session
never leave everybody waiting; and a bound on `RunsItsRelease`'s exception.

Left out for good: SQLite itself (its transactions are taken as atomic and its read
transactions as snapshots), tree-sitter and the extraction queries, formatting, and the
generated results of the benchmarks.
