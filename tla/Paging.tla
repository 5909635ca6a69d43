-------------------------------- MODULE Paging --------------------------------
(***************************************************************************)
(* One agent collects a long answer page by page through its own server    *)
(* process, following the cursors it is given, while sources and language- *)
(* server results change and other agents' processes refresh the same      *)
(* database.  A refresh is one step here: either nothing is new, or the    *)
(* facts are replaced under the next generation (what Refresh shows of the *)
(* whole protocol).                                                        *)
(*                                                                         *)
(* Three kinds of answer page differently: "search" (exact names, then     *)
(* full text), "callees" (a static section of expand, also the model of    *)
(* callers, references and tests) and "semantic" (expand's language-server *)
(* section, which no generation covers).  An expand resolves its symbol    *)
(* again on every page; one of all sections also shows the source of the   *)
(* definition.  A "map" is one page, of counts it reads in separate        *)
(* statements outside any transaction.                                     *)
(***************************************************************************)
EXTENDS Integers, Sequences, FiniteSets, SequencesExt

CONSTANTS
    Process,    \* server processes over one database
    Server,     \* the agent's own
    Facts,      \* what the sources can say: exact, text, callees, and the ids
                \* (with file and line) that the agent's symbol resolves to
    Semantic,   \* what the language server can say
    Size,       \* Size[r]: rendered bytes of row r
    Scope,      \* the answers an agent may ask for
    Limit,      \* the limits it may pass
    MaxLimit,   \* MAX_LIMIT, 50
    Budget,     \* COMPACT_EXPAND_BYTES less the fixed part of a page
    None,       \* no request, no cursor, no excerpt
    MaxEdits,   \* bound on changes of sources and language-server results
    MaxFaults   \* bound on crashes and on misused cursors

ASSUME PagingAssumption ==
    /\ Server \in Process
    /\ Scope \subseteq {"search", "callees", "semantic", "map"} /\ None \notin Scope
    /\ Limit \subseteq Nat /\ MaxLimit \in Nat \ {0}
    /\ Budget \in Nat /\ MaxEdits \in Nat /\ MaxFaults \in Nat
    /\ \A f \in Facts : {f.exact, f.text, f.callees} \subseteq Seq(DOMAIN Size)
    /\ Semantic \subseteq Seq(DOMAIN Size)
    /\ \A r \in DOMAIN Size : Size[r] \in Nat

VARIABLES
    disk,      \* the facts of the current sources
    semantic,  \* the current language-server result
    db,        \* the committed facts and their generation
    pc,        \* Process -> where its call is
    request,   \* the agent's call in progress
    label,     \* the generation refresh() returned to the Server
    snap,      \* the database of the Server's read transaction
    found,     \* rows the Server has read in it so far
    chain,     \* what the agent holds: scope, status, next cursor, pages
    edits,     \* bound counter
    faults     \* bound counter

vars == <<disk, semantic, db, pc, request, label, snap, found, chain, edits, faults>>

Phase == {"idle", "refreshed", "labelled", "reading"}

NoRequest == [scope |-> None]

-----------------------------------------------------------------------------
(* Rows and pages.                                                         *)

Least(a, b) == IF a < b THEN a ELSE b

Slice(rows, offset, count) == SubSeq(rows, offset + 1, Least(offset + count, Len(rows)))

\* clamp(1, MAX_LIMIT).
BoundedLimit(l) == IF l = 0 THEN 1 ELSE Least(l, MaxLimit)

\* The full-text rows less the exact ones.
TextRows(text, exact) ==
    FlattenSeq([i \in DOMAIN text |-> IF Contains(exact, text[i]) THEN <<>> ELSE <<text[i]>>])

\* The whole answer, as one snapshot holds it.
Whole(scope, facts, locations) ==
    CASE scope = "search"   -> facts.exact \o TextRows(facts.text, facts.exact)
      [] scope = "callees"  -> facts.callees
      [] scope = "semantic" -> locations
      [] scope = "map"      -> facts.exact \o facts.text

\* Mutant: the offset into the text rows forgets the exact ones before them.
TextOffsetUnshifted(offset, exact) == offset

TextOffset(offset, exact) == IF offset > Len(exact) THEN offset - Len(exact) ELSE 0

\* A search page: exact rows first, text rows to fill up, one row more than
\* the limit to tell whether there is another page.
SearchPage(exact, text, offset, limit) ==
    LET first == Slice(exact, offset, limit + 1)
        rest  == Slice(TextRows(text, exact), TextOffset(offset, exact),
                       limit + 1 - Len(first))
        rows  == first \o rest
    IN  [rows |-> Slice(rows, 0, limit), more |-> Len(rows) > limit]

Bytes(rows) ==
    LET upTo[n \in 0..Len(rows)] == IF n = 0 THEN 0 ELSE upTo[n - 1] + Size[rows[n]]
    IN  upTo[Len(rows)]

\* Mutant: a page of exactly the budget does not fit.
FittingBelow(rows) ==
    Max({0} \cup {k \in 1..Len(rows) : Bytes(Slice(rows, 0, k)) < Budget})

\* How many rows the 16 KiB of a compact page hold: the last is dropped until
\* the rendered text fits.
Fitting(rows) == Max({k \in 0..Len(rows) : Bytes(Slice(rows, 0, k)) <= Budget})

\* An expand page holds the first k of its fetched rows.
SectionPage(rows, offset, k) ==
    [rows |-> Slice(rows, offset, k), more |-> offset + k < Len(rows)]

\* The whole of a map: its first statement's counts, then the later ones'.
MapPage(first, later) == [rows |-> first \o later, more |-> FALSE]

\* definition_source: the lines of the definition, cut out of the text the
\* file has now if that is the one that was hashed.
Excerpt(text, hashed, lines) ==
    IF text = hashed THEN [text |-> text, lines |-> lines] ELSE None

-----------------------------------------------------------------------------
(* Cursors.                                                                *)

\* resolve_symbol: what an expand is about; a search or a map resolves nothing.
Subject(scope, facts) == IF scope \in {"search", "map"} THEN {} ELSE facts.definitions

Resolved(scope, subject) == scope \in {"search", "map"} \/ Cardinality(subject) = 1

\* The page_scope in a cursor hashes the kind of answer and the subject's id.
Cursor(generation, offset, scope, subject, snapshot) ==
    [generation |-> generation, offset |-> offset, scope |-> scope, subject |-> subject,
     snapshot |-> snapshot]

NoCursor == [scope |-> None]

\* The fingerprint of a language-server result stands for the result.
Fingerprint(scope, locations) == IF scope = "semantic" THEN <<locations>> ELSE <<>>

\* Mutants: the generation is not compared; generations are compared the wrong
\* way.
AcceptsAnyGeneration(c, r, subject, generation, fingerprint) ==
    IF r.offset # 0 \/ c.scope # r.scope \/ c.subject # subject THEN "error"
    ELSE IF c.snapshot # fingerprint THEN "stale" ELSE "current"

AcceptsOnlyOlder(c, r, subject, generation, fingerprint) ==
    IF r.offset # 0 \/ c.scope # r.scope \/ c.subject # subject THEN "error"
    ELSE IF c.generation >= generation \/ c.snapshot # fingerprint THEN "stale"
    ELSE "current"

\* page_offset_with_snapshot: the scope is compared before the generation.
Accepts(c, r, subject, generation, fingerprint) ==
    IF r.offset # 0 \/ c.scope # r.scope \/ c.subject # subject THEN "error"
    ELSE IF c.generation # generation \/ c.snapshot # fingerprint THEN "stale"
    ELSE "current"

\* An expand whose symbol is `not_found' or `ambiguous' looks at no cursor.
Admitted(r, subject, generation, fingerprint) ==
    IF ~Resolved(r.scope, subject) THEN "unresolved"
    ELSE IF r.cursor = NoCursor THEN "current"
    ELSE Accepts(r.cursor, r, subject, generation, fingerprint)

StartOf(r) == IF r.cursor = NoCursor THEN r.offset ELSE r.cursor.offset

-----------------------------------------------------------------------------
Start(scope) == [scope |-> scope, status |-> "start", cursor |-> NoCursor, pages |-> <<>>]

Init ==
    /\ disk \in Facts
    /\ semantic \in Semantic
    /\ db = [generation |-> 1, facts |-> disk]
    /\ pc = [p \in Process |-> "idle"]
    /\ request = NoRequest
    /\ label = 0
    /\ snap = db
    /\ found = <<>>
    /\ \E s \in Scope : chain = Start(s)
    /\ edits = 0
    /\ faults = 0

\* Sources or language-server results change.
Edit ==
    /\ edits < MaxEdits
    /\ edits' = edits + 1
    /\ \/ disk' \in Facts \ {disk} /\ UNCHANGED semantic
       \/ semantic' \in Semantic \ {semantic} /\ UNCHANGED disk
    /\ UNCHANGED <<db, pc, request, label, snap, found, chain, faults>>

\* index_directory: a commit moves the generation, a quiet refresh does not.
RefreshDb ==
    db' = IF disk = db.facts THEN db
          ELSE [generation |-> db.generation + 1, facts |-> disk]

\* The agent asks for the next page with the cursor it holds, or for the
\* first; an expand may ask for all its sections at once.
Ask(limit, all) ==
    /\ pc[Server] = "idle"
    /\ chain.status \in {"start", "more"}
    /\ all => chain.scope \notin {"search", "map"} /\ chain.cursor = NoCursor
    /\ request' = [scope |-> chain.scope, cursor |-> chain.cursor, offset |-> 0,
                   limit |-> limit, all |-> all]
    /\ pc' = [pc EXCEPT ![Server] = "refreshed"]
    /\ RefreshDb
    /\ UNCHANGED <<disk, semantic, label, snap, found, chain, edits, faults>>

\* The agent mixes its cursor up with another request, or adds an offset to a
\* search.
Misuse(limit) ==
    /\ pc[Server] = "idle"
    /\ chain.status = "more"
    /\ faults < MaxFaults
    /\ faults' = faults + 1
    /\ \E s \in Scope \ {"map"}, offset \in {0, 1} :
          /\ s # chain.scope \/ offset # 0
          /\ offset # 0 => s = "search"
          /\ request' = [scope |-> s, cursor |-> chain.cursor, offset |-> offset,
                         limit |-> limit, all |-> FALSE]
    /\ pc' = [pc EXCEPT ![Server] = "refreshed"]
    /\ RefreshDb
    /\ UNCHANGED <<disk, semantic, label, snap, found, chain, edits>>

\* Another agent's process answers some call of its own.
PeerRefresh(p) ==
    /\ p # Server
    /\ RefreshDb
    /\ db' # db
    /\ UNCHANGED <<disk, semantic, pc, request, label, snap, found, chain, edits, faults>>

\* refresh() returns the generation, read after its commit.
ReadLabel ==
    /\ pc[Server] = "refreshed"
    /\ pc' = [pc EXCEPT ![Server] = "labelled"]
    /\ label' = db.generation
    /\ UNCHANGED <<disk, semantic, db, request, snap, found, chain, edits, faults>>

\* The first read in the scope fixes the snapshot of the whole response; a
\* map has no scope.
OpenScope ==
    /\ pc[Server] = "labelled"
    /\ pc' = [pc EXCEPT ![Server] = "reading"]
    /\ snap' = db
    /\ found' = db.facts.exact
    /\ UNCHANGED <<disk, semantic, db, request, label, chain, edits, faults>>

\* Mutant: later reads of the response are outside the transaction.
LaterReadsOfDb == db.facts

LaterReads == IF request.scope = "map" THEN db.facts ELSE snap.facts

\* Auxiliary: whether another process has committed between the label of a
\* page and what it shows.
Overtaken == label # IF request.scope = "map" THEN db.generation ELSE snap.generation

\* What the agent holds after page `page' at `offset' of an answer that read
\* in one piece is `whole', with the excerpt `source' if there is one.
Extended(page, offset, whole, source) ==
    [chain EXCEPT
        !.pages  = Append(@, [rows |-> page.rows, whole |-> whole,
                              source |-> source, overtaken |-> Overtaken]),
        !.status = IF page.more THEN "more" ELSE "done",
        !.cursor = IF page.more
                   THEN Cursor(label, offset + Len(page.rows), request.scope,
                               Subject(request.scope, snap.facts),
                               Fingerprint(request.scope, semantic))
                   ELSE NoCursor]

\* What page_offset makes of the call, after resolve_symbol in its read scope.
Verdict == Admitted(request, Subject(request.scope, snap.facts), label,
                    Fingerprint(request.scope, semantic))

\* Auxiliary: whether the call is the next of the agent's own chain.
Rightful == request.scope = chain.scope /\ request.offset = 0

\* The rest of the response: resolve_symbol, page_offset, the rows, the next
\* cursor.
Respond ==
    LET limit    == BoundedLimit(request.limit)
        offset   == StartOf(request)
        verdict  == Verdict
        whole    == Whole(request.scope, snap.facts, semantic)
        rows     == Whole(request.scope, LaterReads, semantic)
        fetched  == Slice(rows, offset, limit)
        fitting  == Fitting(fetched)
    IN  /\ pc[Server] = "reading"
        /\ pc' = [pc EXCEPT ![Server] = "idle"]
        /\ request' = NoRequest
        /\ label' = 0
        /\ found' = <<>>
        /\ snap' = db
        /\ \/ verdict \in {"error", "unresolved"} /\ ~Rightful /\ UNCHANGED chain
           \/ verdict = "error" /\ Rightful /\ chain' = [chain EXCEPT !.status = "lost"]
           \/ verdict = "unresolved" /\ Rightful
              /\ chain' = [chain EXCEPT !.status = "unresolved"]
           \/ verdict = "stale" /\ chain' = Start(chain.scope)
           \/ /\ verdict = "current"
              /\ request.scope = "search"
              /\ LET page == SearchPage(found, LaterReads.text, offset, limit)
                 IN  chain' = Extended(page, offset, whole, None)
           \/ /\ verdict = "current"
              /\ request.scope = "map"
              /\ chain' = Extended(MapPage(found, LaterReads.text), offset, whole, None)
           \/ /\ verdict = "current"
              /\ request.scope \notin {"search", "map"} /\ ~request.all
              /\ fetched = <<>> \/ fitting > 0
              /\ chain' = Extended(SectionPage(rows, offset, fitting), offset, whole, None)
           \/ /\ verdict = "current"
              /\ request.scope \notin {"search", "map"} /\ ~request.all
              /\ fetched # <<>> /\ fitting = 0
              /\ chain' = [chain EXCEPT !.status = "failed"]
           \/ /\ verdict = "current"
              /\ request.all
              /\ \E k \in 0..fitting :
                    chain' = Extended(SectionPage(rows, offset, k), offset, whole,
                                      Excerpt(disk, LaterReads, found))
        /\ UNCHANGED <<disk, semantic, db, edits, faults>>

\* The server dies before it answers and is started again; the agent still
\* has its cursor.
Restart ==
    /\ pc[Server] # "idle"
    /\ faults < MaxFaults
    /\ faults' = faults + 1
    /\ pc' = [pc EXCEPT ![Server] = "idle"]
    /\ request' = NoRequest
    /\ label' = 0
    /\ found' = <<>>
    /\ snap' = db
    /\ UNCHANGED <<disk, semantic, db, chain, edits>>

\* With the answer complete, or refused for its size, or no definition to
\* answer about, the agent asks another question; told that its own cursor does
\* not belong to its request, it may also ask the same again.
NewQuestion(s) ==
    /\ pc[Server] = "idle"
    /\ chain.status \in {"done", "failed", "unresolved", "lost"}
    /\ chain' = Start(s)
    /\ UNCHANGED <<disk, semantic, db, pc, request, label, snap, found, edits, faults>>

Next ==
    \/ Edit
    \/ \E l \in Limit, all \in BOOLEAN : Ask(l, all)
    \/ \E l \in Limit : Misuse(l)
    \/ \E p \in Process : PeerRefresh(p)
    \/ ReadLabel \/ OpenScope \/ Respond \/ Restart
    \/ \E s \in Scope : NewQuestion(s)

\* The server runs its handler to the end, and the agent goes on asking; it
\* does not keep a cursor that is refused as another request's.
Fairness ==
    /\ WF_vars(\E l \in Limit, all \in BOOLEAN : Ask(l, all))
    /\ WF_vars(chain.status = "lost" /\ NewQuestion(chain.scope))
    /\ WF_vars(ReadLabel \/ OpenScope \/ Respond)

Spec == Init /\ [][Next]_vars /\ Fairness

-----------------------------------------------------------------------------
(* Properties.                                                             *)

Pages == Range(chain.pages)

\* All pages collected under one chain of cursors come from one snapshot
\* (README, "prevents mixed-snapshot pagination").
OneSnapshot == \A a, b \in Pages : a.whole = b.whole

\* No other than a commit of another process, between the label of a page and
\* the opening of its read transaction, mixes snapshots: cursors of earlier
\* generations, of other results and requests, and those that outlive their
\* server are all refused or right (page_offset_with_snapshot).
OneSnapshotUnlessOvertaken ==
    \A a, b \in Pages : a.overtaken \/ b.overtaken \/ a.whole = b.whole

Collected == FlattenSeq([i \in DOMAIN chain.pages |-> chain.pages[i].rows])

\* Pages of one snapshot add up to a prefix of the answer, and to all of it
\* when no cursor is left: no row is missing, repeated or moved, whatever
\* limits, restarts and refusals lie between (CURSOR-CONTINUATION, acceptance 2).
\* Only a map another process has overtaken can be torn (map).
NothingMissingOrTwice ==
    OneSnapshot => \A a \in Pages :
        \/ chain.scope = "map" /\ a.overtaken
        \/ /\ IsPrefix(Collected, a.whole)
           /\ chain.status = "done" => Collected = a.whole

\* The lines of an excerpt are those of the definition in the very text they
\* are cut out of, whenever the file has changed since it was indexed and
\* whoever has indexed it again (definition_source, read_scope).
ExcerptIsDefinition ==
    \A a \in Pages : a.source # None => a.source.lines = a.source.text.exact

\* A page is refused only for a row that no compact page can hold.
RefusedOnlyIfOversized ==
    chain.status = "failed" =>
        \E facts \in Facts, locations \in Semantic :
           \E r \in Range(Whole(chain.scope, facts, locations)) : Size[r] > Budget

\* With finitely many edits the agent gets the whole answer, or the refusal, or
\* learns that its symbol is not defined once; stale cursors, cursors that a
\* moved definition has made another's, restarts and small budgets never make
\* it go round in circles.
Answered ==
    chain.status = "start" ~> chain.status \in {"done", "failed", "unresolved"}

=============================================================================
