----------------------------- MODULE PagingProofs -----------------------------
(***************************************************************************)
(* Theorems about Paging, for any facts, limits, budgets, processes and    *)
(* faults.                                                                 *)
(***************************************************************************)
EXTENDS Paging, SequenceFacts, TLAPS

\* A generation is at most the current one, and the current one has one set of
\* facts.
Dated(d) ==
    /\ d.generation \in Nat /\ d.generation <= db.generation
    /\ d.generation = db.generation => d.facts = db.facts

\* What the proofs need of the types, of the moments a call reads at, and of
\* what an agent asks for.
Reads ==
    /\ db.generation \in Nat /\ label \in Nat
    /\ Dated(snap)
    /\ label <= db.generation
    /\ pc[Server] = "reading" => label <= snap.generation
    /\ pc[Server] = "reading" /\ request.scope # "map" => found = snap.facts.exact

Asked ==
    /\ pc \in [Process -> Phase]
    /\ pc[Server] # "idle" =>
          /\ chain.status \in {"start", "more"}
          /\ request.cursor = chain.cursor
          /\ request.cursor = NoCursor => request.scope = chain.scope
          /\ request.all => request.scope \notin {"search", "map"}

Held ==
    /\ chain = [scope |-> chain.scope, status |-> chain.status,
                cursor |-> chain.cursor, pages |-> chain.pages]
    /\ chain.scope \in Scope
    /\ chain.pages \in Seq(Pages)
    /\ chain.status = "start" => chain.pages = <<>> /\ chain.cursor = NoCursor
    /\ chain.cursor = NoCursor => chain.status # "more"
    /\ chain.cursor # NoCursor =>
          /\ chain.scope # "map"
          /\ chain.cursor.scope = chain.scope
          /\ chain.cursor.generation \in Nat
          /\ chain.cursor.generation <= db.generation

\* The pages no commit has overtaken are of these facts.
PagesOf(facts) ==
    \A a \in Pages : ~a.overtaken => a.whole = Whole(chain.scope, facts, semantic)

Collecting ==
    /\ chain.scope # "semantic" /\ chain.cursor # NoCursor =>
          /\ chain.cursor.generation = db.generation => PagesOf(db.facts)
          /\ pc[Server] = "reading" /\ chain.cursor.generation = snap.generation =>
                PagesOf(snap.facts)
    /\ chain.scope = "semantic" /\ chain.cursor # NoCursor =>
          \A a \in Pages : <<a.whole>> = chain.cursor.snapshot

\* The inductive invariant.
Inv == Reads /\ Asked /\ Held /\ Collecting /\ OneSnapshotUnlessOvertaken /\ ExcerptIsDefinition

LEMMA InitInv == Init => Inv
BY PagingAssumption
   DEF Init, Inv, Reads, Dated, Asked, Held, Collecting, OneSnapshotUnlessOvertaken,
       ExcerptIsDefinition, Start, NoRequest, Pages, Range, Phase

-----------------------------------------------------------------------------
(* Steps that leave the chain alone.                                       *)

LEMMA WholeOfFacts ==
    ASSUME NEW scope \in Scope, scope # "semantic", NEW facts, NEW s, NEW t
    PROVE  Whole(scope, facts, s) = Whole(scope, facts, t)
BY PagingAssumption DEF Whole

LEMMA AppendRange ==
    ASSUME NEW S, NEW s \in Seq(S), NEW e
    PROVE  /\ Append(s, e) \in Seq(S \cup {e})
           /\ Range(Append(s, e)) = Range(s) \cup {e}
<1>1. /\ DOMAIN s = 1..Len(s) /\ Len(s) \in Nat
      /\ DOMAIN Append(s, e) = 1..Len(s) + 1
      /\ \A i \in 1..Len(s) : Append(s, e)[i] = s[i]
      /\ Append(s, e)[Len(s) + 1] = e
  OBVIOUS
<1>2. \A i \in 1..Len(s) + 1 : i = Len(s) + 1 \/ i \in 1..Len(s)
  BY <1>1
<1>3. Range(Append(s, e)) = Range(s) \cup {e}
  BY <1>1, <1>2 DEF Range
<1>4. s \in Seq(S \cup {e})
  OBVIOUS
<1> QED BY <1>3, <1>4

\* A refresh keeps what is dated, and moves past every cursor if it moves.
LEMMA RefreshMoves ==
    ASSUME Reads, RefreshDb
    PROVE  \/ db' = db
           \/ /\ db'.generation \in Nat /\ db'.generation > db.generation
              /\ db'.generation # db.generation
BY DEF Reads, RefreshDb

LEMMA EditInv == Inv /\ Edit => Inv'
<1> SUFFICES ASSUME Inv, Edit PROVE Inv'
  OBVIOUS
<1>1. UNCHANGED <<db, pc, request, label, snap, found, chain>>
  BY DEF Edit
<1>2. Reads' /\ Asked' /\ Held'
  BY <1>1 DEF Inv, Reads, Dated, Asked, Held, Pages
<1>3. ASSUME NEW facts, chain.scope # "semantic", PagesOf(facts)
      PROVE  PagesOf(facts)'
  <2>1. \A a \in Pages : Whole(chain.scope, facts, semantic) = Whole(chain.scope, facts, semantic')
    BY <1>3, WholeOfFacts DEF Inv, Held
  <2> QED BY <1>1, <1>3, <2>1 DEF PagesOf, Pages
<1>4. Collecting'
  BY <1>1, <1>3 DEF Inv, Collecting, Pages
<1> QED BY <1>1, <1>2, <1>4 DEF Inv, OneSnapshotUnlessOvertaken, ExcerptIsDefinition, Pages

\* Steps of the database and of a call that neither read nor write the chain.
LEMMA RefreshInv ==
    ASSUME Inv, RefreshDb, UNCHANGED <<semantic, label, snap, found, chain>>,
           \/ UNCHANGED <<pc, request>>
           \/ pc' = [pc EXCEPT ![Server] = "refreshed"] /\ Asked'
    PROVE  Inv'
<1>1. pc'[Server] = "reading" => pc[Server] = "reading" /\ UNCHANGED <<pc, request>>
  BY PagingAssumption DEF Inv, Asked
<1>2. db.generation <= db'.generation /\ db'.generation \in Nat
      /\ (db'.generation = db.generation => db' = db)
  BY RefreshMoves DEF Inv, Reads
<1>3. Reads'
  BY <1>1, <1>2 DEF Inv, Reads, Dated
<1>4. Asked'
  BY DEF Inv, Asked
<1>5. Held'
  BY <1>2 DEF Inv, Held, Pages, Reads
<1>6. Collecting'
  <2>1. \A facts : PagesOf(facts)' <=> PagesOf(facts)
    BY DEF PagesOf, Pages
  <2>2. CASE db' = db
    BY <1>1, <2>1, <2>2 DEF Inv, Collecting, Pages
  <2>3. CASE db' # db
    <3>1. chain.cursor # NoCursor => chain.cursor.generation # db'.generation
      BY <1>2, <2>3 DEF Inv, Held, Reads
    <3> QED BY <1>1, <2>1, <3>1 DEF Inv, Collecting, Pages
  <2> QED BY <2>2, <2>3
<1> QED BY <1>3, <1>4, <1>5, <1>6 DEF Inv, OneSnapshotUnlessOvertaken, ExcerptIsDefinition, Pages

LEMMA AskInv == ASSUME Inv, NEW l, NEW all \in BOOLEAN, Ask(l, all) PROVE Inv'
<1>1. Asked'
  BY PagingAssumption DEF Inv, Asked, Ask, Phase
<1> QED BY <1>1, RefreshInv DEF Ask

LEMMA PeerInv == ASSUME Inv, NEW p, PeerRefresh(p) PROVE Inv'
BY RefreshInv DEF PeerRefresh

LEMMA MisuseInv == ASSUME Inv, NEW l, Misuse(l) PROVE Inv'
<1>1. PICK s \in Scope \ {"map"}, offset \in {0, 1} :
         /\ s # chain.scope \/ offset # 0
         /\ request' = [scope |-> s, cursor |-> chain.cursor, offset |-> offset,
                        limit |-> l, all |-> FALSE]
  BY DEF Misuse
<1>2. Asked'
  BY <1>1, PagingAssumption DEF Inv, Asked, Held, Misuse, Phase
<1> QED BY <1>2, RefreshInv DEF Misuse

LEMMA ReadLabelInv == Inv /\ ReadLabel => Inv'
<1> SUFFICES ASSUME Inv, ReadLabel PROVE Inv'
  OBVIOUS
<1>1. pc'[Server] = "labelled" /\ pc' \in [Process -> Phase] /\ pc[Server] # "idle"
  BY PagingAssumption DEF Inv, Asked, ReadLabel, Phase
<1>2. Reads'
  BY <1>1 DEF Inv, Reads, Dated, ReadLabel
<1>3. Asked' /\ Held'
  BY <1>1 DEF Inv, Asked, Held, Pages, ReadLabel
<1>4. Collecting'
  BY <1>1 DEF Inv, Collecting, Pages, PagesOf, ReadLabel
<1> QED
  BY <1>2, <1>3, <1>4 DEF Inv, OneSnapshotUnlessOvertaken, ExcerptIsDefinition, Pages, ReadLabel

LEMMA OpenScopeInv == Inv /\ OpenScope => Inv'
<1> SUFFICES ASSUME Inv, OpenScope PROVE Inv'
  OBVIOUS
<1>1. pc' \in [Process -> Phase] /\ pc[Server] # "idle"
  BY PagingAssumption DEF Inv, Asked, OpenScope, Phase
<1>2. Reads'
  BY DEF Inv, Reads, Dated, OpenScope
<1>3. Asked' /\ Held'
  BY <1>1 DEF Inv, Asked, Held, Pages, OpenScope
<1>4. Collecting'
  BY DEF Inv, Collecting, Pages, PagesOf, OpenScope
<1> QED
  BY <1>2, <1>3, <1>4 DEF Inv, OneSnapshotUnlessOvertaken, ExcerptIsDefinition, Pages, OpenScope

LEMMA RestartInv == Inv /\ Restart => Inv'
<1> SUFFICES ASSUME Inv, Restart PROVE Inv'
  OBVIOUS
<1>1. pc' \in [Process -> Phase] /\ pc'[Server] = "idle"
  BY PagingAssumption DEF Inv, Asked, Restart, Phase
<1>2. Reads'
  BY <1>1 DEF Inv, Reads, Dated, Restart
<1>3. Asked' /\ Held'
  BY <1>1 DEF Inv, Asked, Held, Pages, Restart
<1>4. Collecting'
  BY <1>1 DEF Inv, Collecting, Pages, PagesOf, Restart
<1> QED
  BY <1>2, <1>3, <1>4 DEF Inv, OneSnapshotUnlessOvertaken, ExcerptIsDefinition, Pages, Restart

LEMMA NewQuestionInv == ASSUME Inv, NEW s \in Scope, NewQuestion(s) PROVE Inv'
<1>1. chain' = Start(s) /\ UNCHANGED <<db, pc, request, label, snap, found>>
      /\ pc[Server] = "idle"
  BY DEF NewQuestion
<1>2. Pages' = {} /\ chain'.pages = <<>> /\ chain'.cursor = NoCursor
  BY <1>1 DEF Start, Pages, Range
<1>3. Reads' /\ Asked'
  BY <1>1 DEF Inv, Reads, Dated, Asked
<1>4. Held'
  BY <1>1, <1>2 DEF Held, Start
<1> QED
  BY <1>2, <1>3, <1>4 DEF Inv, Collecting, OneSnapshotUnlessOvertaken, ExcerptIsDefinition

-----------------------------------------------------------------------------
(* The response.                                                           *)

\* A page is added to the chain; the whole answer as it was when the page was
\* read, and its excerpt, are given.  A map has no next page.
Adds(whole, source) ==
    \E page, offset : /\ page.more => request.scope # "map"
                      /\ chain' = Extended(page, offset, whole, source)

\* How a chain ends without its last page.
Ends == {"failed", "lost", "unresolved"}

\* Each accepted response adds a page of the whole answer as its call's
\* snapshot has it, with no excerpt or that of an expand of all sections.
LEMMA RespondAdds ==
    ASSUME Inv, Respond
    PROVE  \/ UNCHANGED chain
           \/ chain' = Start(chain.scope)
           \/ \E end \in Ends : chain' = [chain EXCEPT !.status = end]
           \/ /\ Verdict = "current"
              /\ \E source : /\ Adds(Whole(request.scope, snap.facts, semantic), source)
                             /\ \/ source = None
                                \/ request.all /\ source = Excerpt(disk, LaterReads, found)
<1> DEFINE limit   == BoundedLimit(request.limit)
           at      == StartOf(request)
           whole   == Whole(request.scope, snap.facts, semantic)
           rows    == Whole(request.scope, LaterReads, semantic)
           fitting == Fitting(Slice(rows, at, limit))
           excerpt == Excerpt(disk, LaterReads, found)
           current == Verdict = "current"
<1>1. \/ UNCHANGED chain
      \/ chain' = Start(chain.scope)
      \/ chain' = [chain EXCEPT !.status = "failed"]
      \/ chain' = [chain EXCEPT !.status = "lost"]
      \/ chain' = [chain EXCEPT !.status = "unresolved"]
      \/ current /\ request.scope = "search"
         /\ \E page : chain' = Extended(page, at, whole, None)
      \/ current /\ request.scope = "map"
         /\ chain' = Extended(MapPage(found, LaterReads.text), at, whole, None)
      \/ current /\ request.scope # "map"
         /\ \E page : chain' = Extended(page, at, whole, None)
      \/ current /\ request.all
         /\ \E page : chain' = Extended(page, at, whole, excerpt)
  BY Zenon DEF Respond
<1>2. current /\ request.all => request.scope # "map"
  BY DEF Inv, Asked, Respond
<1>3. MapPage(found, LaterReads.text).more = FALSE
  BY DEF MapPage
<1> QED BY <1>1, <1>2, <1>3, Zenon DEF Adds, Ends

\* An accepted request is of the chain's scope, and continues a chain of the
\* label's generation and of the current language-server result, or starts one.
LEMMA CurrentRequest ==
    ASSUME Inv, pc[Server] = "reading",
           Verdict = "current"
    PROVE  /\ request.scope = chain.scope
           /\ \/ chain.cursor = NoCursor /\ chain.pages = <<>>
              \/ /\ chain.cursor # NoCursor
                 /\ chain.cursor.generation = label
                 /\ chain.cursor.snapshot = Fingerprint(chain.scope, semantic)
<1>1. pc[Server] # "idle"
  OBVIOUS
<1>2. CASE chain.cursor = NoCursor
  BY <1>1, <1>2 DEF Inv, Asked, Held
<1>3. CASE chain.cursor # NoCursor
  <2>1. Accepts(chain.cursor, request, Subject(request.scope, snap.facts), label,
                Fingerprint(request.scope, semantic)) = "current"
    BY <1>1, <1>3 DEF Verdict, Admitted, Inv, Asked
  <2>2. chain.cursor.scope = request.scope /\ chain.cursor.generation = label
        /\ chain.cursor.snapshot = Fingerprint(request.scope, semantic)
    BY <2>1 DEF Accepts
  <2> QED BY <1>3, <2>2 DEF Inv, Held
<1> QED BY <1>2, <1>3

\* An excerpt that is shown is cut out of the facts its lines were read with.
LEMMA ExcerptOfSnapshot ==
    ASSUME Inv, pc[Server] = "reading", request.all, Excerpt(disk, LaterReads, found) # None
    PROVE  /\ Excerpt(disk, LaterReads, found).text = snap.facts
           /\ Excerpt(disk, LaterReads, found).lines = snap.facts.exact
<1>1. request.scope # "map" /\ found = snap.facts.exact
  BY DEF Inv, Asked, Reads
<1> QED BY <1>1 DEF Excerpt, LaterReads

\* A response that adds a page preserves everything.
LEMMA AddsInv ==
    ASSUME Inv, Respond,
           Verdict = "current",
           NEW source, Adds(Whole(request.scope, snap.facts, semantic), source),
           \/ source = None
           \/ request.all /\ source = Excerpt(disk, LaterReads, found)
    PROVE  Held' /\ Collecting' /\ OneSnapshotUnlessOvertaken' /\ ExcerptIsDefinition'
<1>1. PICK page, offset :
         /\ page.more => request.scope # "map"
         /\ chain' = Extended(page, offset, Whole(request.scope, snap.facts, semantic), source)
  BY DEF Adds
<1> DEFINE whole == Whole(chain.scope, snap.facts, semantic)
           new   == [rows |-> page.rows, whole |-> whole, source |-> source,
                     overtaken |-> Overtaken]
<1>2. pc[Server] = "reading" /\ pc'[Server] = "idle"
      /\ UNCHANGED <<semantic, db, disk>>
  BY PagingAssumption DEF Respond, Inv, Asked
<1>3. /\ request.scope = chain.scope
      /\ \/ chain.cursor = NoCursor /\ chain.pages = <<>>
         \/ /\ chain.cursor # NoCursor
            /\ chain.cursor.generation = label
            /\ chain.cursor.snapshot = Fingerprint(chain.scope, semantic)
  BY <1>2, CurrentRequest
<1>4. /\ chain'.scope = chain.scope
      /\ chain'.pages = Append(chain.pages, new)
      /\ chain'.status \in {"more", "done"}
      /\ chain' = [scope |-> chain'.scope, status |-> chain'.status,
                   cursor |-> chain'.cursor, pages |-> chain'.pages]
      /\ \/ chain'.status = "done" /\ chain'.cursor = NoCursor
         \/ /\ chain'.status = "more" /\ chain.scope # "map"
            /\ chain'.cursor = Cursor(label, offset + Len(page.rows), chain.scope,
                                      Subject(chain.scope, snap.facts),
                                      Fingerprint(chain.scope, semantic))
  BY <1>1, <1>3 DEF Extended, Inv, Held
<1>5. chain'.pages \in Seq(Pages') /\ Pages' = Pages \cup {new}
  <2>1. chain.pages \in Seq(Pages)
    BY DEF Inv, Held
  <2>2. /\ Append(chain.pages, new) \in Seq(Pages \cup {new})
        /\ Range(Append(chain.pages, new)) = Range(chain.pages) \cup {new}
    <3> HIDE DEF new
    <3> QED BY <2>1, AppendRange
  <2> QED BY <1>4, <2>2 DEF Pages
<1>6. /\ label \in Nat /\ label <= snap.generation /\ snap.generation <= db.generation
      /\ snap.generation \in Nat /\ db.generation \in Nat
      /\ (snap.generation = db.generation => snap.facts = db.facts)
  BY <1>2 DEF Inv, Reads, Dated
<1> HIDE DEF new, whole
<1>7. Held'
  BY <1>2, <1>4, <1>5, <1>6, PagingAssumption DEF Inv, Held, Cursor, NoCursor
<1>8. ExcerptIsDefinition'
  <2>1. source # None => source.lines = source.text.exact
    BY <1>2, ExcerptOfSnapshot
  <2> QED BY <1>5, <2>1 DEF Inv, ExcerptIsDefinition, new
<1>9. /\ new.whole = whole /\ new.overtaken = Overtaken
      /\ (chain.scope # "map" => (Overtaken <=> label # snap.generation))
  BY <1>3 DEF Overtaken, new
<1>10. CASE chain.scope = "semantic"
  <2>1. whole = semantic
    BY <1>10 DEF whole, Whole
  <2>2. \A a \in Pages' : a.whole = semantic
    <3>1. \A a \in Pages : <<a.whole>> = <<semantic>>
      BY <1>3, <1>10 DEF Inv, Collecting, Fingerprint, Pages, Range
    <3> QED BY <1>5, <1>9, <2>1, <3>1
  <2>3. chain'.cursor # NoCursor => chain'.cursor.snapshot = <<semantic>>
    BY <1>4, <1>10 DEF Cursor, Fingerprint
  <2> QED BY <1>2, <1>4, <1>7, <1>8, <1>10, <2>2, <2>3
          DEF Collecting, OneSnapshotUnlessOvertaken
<1>11. CASE chain.scope # "semantic"
  <2>1. ASSUME ~Overtaken
        PROVE  \A a \in Pages' : ~a.overtaken => a.whole = whole
    <3>1. CASE chain.pages = <<>>
      <4>1. Pages = {}
        BY <3>1 DEF Pages, Range
      <4> QED BY <1>5, <1>9, <4>1
    <3>2. CASE chain.cursor # NoCursor /\ chain.cursor.generation = label
      <4>1. chain.scope # "map" /\ label = snap.generation
        BY <1>9, <2>1, <3>2 DEF Inv, Held
      <4>2. PagesOf(snap.facts)
        BY <1>2, <1>11, <3>2, <4>1 DEF Inv, Collecting
      <4> QED BY <1>5, <1>9, <4>2 DEF PagesOf, whole
    <3> QED BY <1>3, <3>1, <3>2
  <2>2. OneSnapshotUnlessOvertaken'
    <3>1. CASE Overtaken
      BY <1>5, <1>9, <3>1 DEF Inv, OneSnapshotUnlessOvertaken
    <3>2. CASE ~Overtaken
      BY <2>1, <3>2 DEF OneSnapshotUnlessOvertaken
    <3> QED BY <3>1, <3>2
  <2>3. chain'.cursor # NoCursor /\ chain'.cursor.generation = db.generation
           => PagesOf(db.facts)'
    <3> SUFFICES ASSUME chain'.cursor # NoCursor, chain'.cursor.generation = db.generation
                 PROVE  PagesOf(db.facts)'
      OBVIOUS
    <3>1. chain.scope # "map" /\ label = db.generation
      BY <1>4 DEF Cursor
    <3>2. ~Overtaken /\ snap.facts = db.facts
      BY <1>6, <1>9, <3>1
    <3> QED BY <1>2, <1>4, <2>1, <3>2 DEF PagesOf, whole
  <2> QED BY <1>2, <1>4, <1>7, <1>8, <1>11, <2>2, <2>3 DEF Collecting
<1> QED BY <1>10, <1>11

LEMMA RespondInv == Inv /\ Respond => Inv'
<1> SUFFICES ASSUME Inv, Respond PROVE Inv'
  OBVIOUS
<1>1. /\ pc'[Server] = "idle" /\ pc' \in [Process -> Phase] /\ pc[Server] = "reading"
      /\ label' = 0 /\ snap' = db /\ UNCHANGED <<db, disk, semantic>>
  BY PagingAssumption DEF Inv, Asked, Respond, Phase
<1>2. Reads' /\ Asked'
  BY <1>1 DEF Inv, Reads, Dated, Asked
<1> DEFINE Rest == Held /\ Collecting /\ OneSnapshotUnlessOvertaken /\ ExcerptIsDefinition
<1>3. ASSUME UNCHANGED chain PROVE Rest'
  <2>1. Pages' = Pages /\ \A facts : PagesOf(facts)' <=> PagesOf(facts)
    BY <1>1, <1>3 DEF Pages, PagesOf
  <2>2. Held' /\ OneSnapshotUnlessOvertaken' /\ ExcerptIsDefinition'
    BY <1>1, <1>3, <2>1 DEF Inv, Held, OneSnapshotUnlessOvertaken, ExcerptIsDefinition
  <2>3. Collecting'
    BY <1>1, <1>3, <2>1 DEF Inv, Collecting
  <2> QED BY <2>2, <2>3
<1>4. ASSUME chain' = Start(chain.scope) PROVE Rest'
  <2>1. Pages' = {} /\ chain'.pages = <<>> /\ chain'.cursor = NoCursor
    BY <1>4 DEF Start, Pages, Range
  <2>2. Held'
    BY <1>4, <2>1 DEF Inv, Held, Start
  <2> QED BY <2>1, <2>2 DEF Collecting, OneSnapshotUnlessOvertaken, ExcerptIsDefinition
<1>5. ASSUME NEW end \in Ends, chain' = [chain EXCEPT !.status = end] PROVE Rest'
  <2>0. end \notin {"start", "more"}
    BY DEF Ends
  <2>1. chain' = [scope |-> chain.scope, status |-> end,
                  cursor |-> chain.cursor, pages |-> chain.pages]
    BY <1>5 DEF Inv, Held
  <2>2. Pages' = Pages /\ \A facts : PagesOf(facts)' <=> PagesOf(facts)
    BY <1>1, <2>1 DEF Pages, PagesOf
  <2>3. Held' /\ OneSnapshotUnlessOvertaken' /\ ExcerptIsDefinition'
    BY <1>1, <2>0, <2>1, <2>2 DEF Inv, Held, OneSnapshotUnlessOvertaken, ExcerptIsDefinition
  <2>4. Collecting'
    BY <1>1, <2>1, <2>2 DEF Inv, Collecting
  <2> QED BY <2>3, <2>4
<1>6. ASSUME /\ Verdict = "current"
             /\ \E source : /\ Adds(Whole(request.scope, snap.facts, semantic), source)
                            /\ \/ source = None
                               \/ request.all /\ source = Excerpt(disk, LaterReads, found)
      PROVE  Rest'
  BY <1>6, AddsInv
<1>7. Rest'
  BY <1>3, <1>4, <1>5, <1>6, RespondAdds
<1> QED BY <1>2, <1>7 DEF Inv

LEMMA StutterInv == Inv /\ UNCHANGED vars => Inv'
BY DEF Inv, Reads, Dated, Asked, Held, Collecting, PagesOf, OneSnapshotUnlessOvertaken,
       ExcerptIsDefinition, Pages, vars

THEOREM PagingInv == Spec => []Inv
<1>1. Inv /\ [Next]_vars => Inv'
  BY EditInv, AskInv, MisuseInv, PeerInv, ReadLabelInv, OpenScopeInv, RespondInv, RestartInv,
     NewQuestionInv, StutterInv DEF Next
<1> QED BY InitInv, <1>1, PTL DEF Spec

\* However sources, language-server results, other processes, crashes and
\* misused cursors come between the pages, only a page that a commit overtook
\* between its label and its read can differ from the others in what it is a
\* page of (page_offset_with_snapshot, CursorClaims).
THEOREM OneSnapshotPerChain == Spec => []OneSnapshotUnlessOvertaken
<1>1. Inv => OneSnapshotUnlessOvertaken
  BY DEF Inv
<1> QED BY <1>1, PagingInv, PTL

\* An excerpt shows the lines of the definition in the text it is cut out of:
\* hash and lines come from one transaction, the text from the disk of any
\* later moment (definition_source, read_scope).
THEOREM ExcerptsAreDefinitions == Spec => []ExcerptIsDefinition
<1>1. Inv => ExcerptIsDefinition
  BY DEF Inv
<1> QED BY <1>1, PagingInv, PTL

-----------------------------------------------------------------------------
(* Rows of slices and pages.                                               *)

Row == DOMAIN Size

\* p is Slice(rows, o, c) and has m rows; rows has n.
IsSlice(p, m, rows, n, o, c) ==
    /\ p = Slice(rows, o, c) /\ m = Len(p)
    /\ m = IF o + c <= n THEN c ELSE IF o <= n THEN n - o ELSE 0
    /\ \A i \in 1..m : p[i] = rows[o + i]

LEMMA SliceIs ==
    ASSUME NEW S, NEW rows \in Seq(S), NEW n \in Nat, n = Len(rows), NEW o \in Nat, NEW c \in Nat
    PROVE  \E p \in Seq(S), m \in Nat : IsSlice(p, m, rows, n, o, c)
<1>1. PICK last \in Nat : last = Least(o + c, n)
  <2>1. Least(o + c, n) \in Nat
    BY DEF Least
  <2> QED BY <2>1
<1>2. last <= n /\ last <= o + c /\ (last = n \/ last = o + c)
  BY <1>1 DEF Least
<1>3. \A i \in (o + 1)..last : rows[i] \in S
  BY <1>2
<1>4. PICK m \in Nat : m = IF o + 1 <= last THEN last - (o + 1) + 1 ELSE 0
  <2>1. (IF o + 1 <= last THEN last - (o + 1) + 1 ELSE 0) \in Nat
    OBVIOUS
  <2> QED BY <2>1
<1>5. PICK p : p = SubSeq(rows, o + 1, last)
  OBVIOUS
<1>6. /\ p \in Seq(S) /\ Len(p) = m
      /\ \A i \in 1..last - (o + 1) + 1 : p[i] = rows[o + 1 + i - 1]
  BY <1>3, <1>4, <1>5, SubSeqProperties
<1>7. p = Slice(rows, o, c)
  BY <1>1, <1>5 DEF Slice
<1>8. m = IF o + c <= n THEN c ELSE IF o <= n THEN n - o ELSE 0
  BY <1>2, <1>4
<1>9. \A i \in 1..m : p[i] = rows[o + i]
  BY <1>4, <1>6
<1> QED BY <1>6, <1>7, <1>8, <1>9 DEF IsSlice

LEMMA TextRowsType ==
    ASSUME NEW S, NEW text \in Seq(S), NEW exact
    PROVE  TextRows(text, exact) \in Seq(S)
<1> DEFINE parts == [i \in DOMAIN text |-> IF Contains(exact, text[i]) THEN <<>> ELSE <<text[i]>>]
<1>1. \A i \in 1..Len(text) : <<text[i]>> \in Seq(S) /\ <<>> \in Seq(S)
  OBVIOUS
<1>2. parts \in [1..Len(text) -> Seq(S)] /\ Len(text) \in Nat
  BY <1>1
<1>3. parts \in Seq(Seq(S))
  BY <1>2, SeqDef
<1> QED BY <1>3, FlattenType DEF TextRows

\* A page of m rows from row o on continues an answer of n rows, and promises
\* another page when there are more.
Continues(page, m, o, whole, n) ==
    /\ m = Len(page.rows)
    /\ o + m <= n
    /\ \A i \in 1..m : page.rows[i] = whole[o + i]
    /\ page.more <=> o + m < n

LEMMA SectionContinues ==
    ASSUME NEW S, NEW rows \in Seq(S), NEW n \in Nat, n = Len(rows), NEW o \in Nat,
           NEW limit \in Nat, NEW k \in 0..Len(Slice(rows, o, limit))
    PROVE  /\ SectionPage(rows, o, k).rows \in Seq(S)
           /\ o <= n => Continues(SectionPage(rows, o, k), k, o, rows, n)
<1>1. PICK p \in Seq(S), m \in Nat : IsSlice(p, m, rows, n, o, limit)
  BY SliceIs
<1>2. k \in 0..m
  BY <1>1 DEF IsSlice
<1>3. k \in Nat /\ (o <= n => o + k <= n)
  BY <1>1, <1>2 DEF IsSlice
<1>4. PICK q \in Seq(S), l \in Nat : IsSlice(q, l, rows, n, o, k)
  BY <1>3, SliceIs
<1>5. SectionPage(rows, o, k) = [rows |-> q, more |-> o + k < n]
  BY <1>4 DEF SectionPage, IsSlice
<1>6. o <= n => l = k
  BY <1>3, <1>4 DEF IsSlice
<1>7. /\ SectionPage(rows, o, k).rows = q /\ SectionPage(rows, o, k).more = (o + k < n)
      /\ l = Len(q) /\ \A i \in 1..l : q[i] = rows[o + i]
  BY <1>4, <1>5 DEF IsSlice
<1> QED BY <1>3, <1>6, <1>7 DEF Continues

\* What a search reads: c rows from row o on, exact rows before the rest.
IsRead(rows, m, exact, rest, o, c, whole, n) ==
    /\ rows = Slice(exact, o, c)
              \o Slice(rest, TextOffset(o, exact), c - Len(Slice(exact, o, c)))
    /\ m = Len(rows)
    /\ o <= n => /\ m = IF o + c <= n THEN c ELSE n - o
                 /\ \A i \in 1..m : rows[i] = whole[o + i]

LEMMA SearchReads ==
    ASSUME NEW S, NEW exact \in Seq(S), NEW rest \in Seq(S), NEW o \in Nat, NEW c \in Nat,
           NEW whole, whole = exact \o rest, NEW n \in Nat, n = Len(whole)
    PROVE  \E rows \in Seq(S), m \in Nat : IsRead(rows, m, exact, rest, o, c, whole, n)
<1>1. PICK e \in Nat, r \in Nat : e = Len(exact) /\ r = Len(rest)
  OBVIOUS
<1>2. PICK first \in Seq(S), l \in Nat : IsSlice(first, l, exact, e, o, c)
  BY <1>1, SliceIs
<1>3. l <= c /\ l = Len(Slice(exact, o, c))
  BY <1>1, <1>2 DEF IsSlice
<1>4. PICK d \in Nat : d = c - l
  <2>1. c - l \in Nat
    BY <1>3
  <2> QED BY <2>1
<1>5. PICK at \in Nat : at = TextOffset(o, exact) /\ at = IF o > e THEN o - e ELSE 0
  <2>1. TextOffset(o, exact) = IF o > e THEN o - e ELSE 0
    BY <1>1 DEF TextOffset
  <2>2. (IF o > e THEN o - e ELSE 0) \in Nat
    OBVIOUS
  <2> QED BY <2>1, <2>2
<1>6. PICK second \in Seq(S), k \in Nat : IsSlice(second, k, rest, r, at, d)
  BY <1>1, SliceIs
<1>7. PICK rows : rows = first \o second
  OBVIOUS
<1>8. PICK m \in Nat : m = l + k
  OBVIOUS
<1>9. /\ rows \in Seq(S) /\ Len(rows) = m
      /\ \A i \in 1..m : rows[i] = IF i <= l THEN first[i] ELSE second[i - l]
  <2>1. l = Len(first) /\ k = Len(second)
    BY <1>2, <1>6 DEF IsSlice
  <2>2. /\ first \o second \in Seq(S)
        /\ Len(first \o second) = Len(first) + Len(second)
        /\ \A i \in 1..Len(first) + Len(second) :
              (first \o second)[i] = IF i <= Len(first) THEN first[i]
                                                      ELSE second[i - Len(first)]
    BY ConcatProperties
  <2> QED BY <1>7, <1>8, <2>1, <2>2
<1>10. n = e + r
  BY <1>1, ConcatProperties
<1>11. \A i \in 1..n : whole[i] = IF i <= e THEN exact[i] ELSE rest[i - e]
  BY <1>1, <1>10, ConcatProperties
<1>12. /\ l = IF o + c <= e THEN c ELSE IF o <= e THEN e - o ELSE 0
       /\ k = IF at + d <= r THEN d ELSE IF at <= r THEN r - at ELSE 0
  BY <1>2, <1>6 DEF IsSlice
<1>13. /\ \A i \in 1..l : first[i] = exact[o + i]
       /\ \A i \in 1..k : second[i] = rest[at + i]
  BY <1>2, <1>6 DEF IsSlice
<1>14. at = IF o > e THEN o - e ELSE 0
  BY <1>5
<1>15. o <= n => m = IF o + c <= n THEN c ELSE n - o
  BY <1>4, <1>8, <1>10, <1>12, <1>14
<1>16. ASSUME o <= n, NEW i \in 1..m PROVE rows[i] = whole[o + i]
  <2>1. o + i \in 1..n
    BY <1>15, <1>16
  <2>2. CASE i <= l
    <3>1. o + i <= e /\ i \in 1..l
      BY <1>12, <2>2
    <3>2. rows[i] = first[i]
      BY <1>9, <2>2
    <3>3. first[i] = exact[o + i]
      BY <1>13, <3>1
    <3>4. whole[o + i] = exact[o + i]
      BY <1>11, <2>1, <3>1
    <3> QED BY <3>2, <3>3, <3>4
  <2>3. CASE ~(i <= l)
    <3>1. i - l \in 1..k
      BY <1>8, <2>3
    <3>2. o + i > e /\ at + (i - l) = (o + i) - e
      BY <1>4, <1>8, <1>12, <1>14, <1>16, <2>3
    <3>3. rows[i] = second[i - l]
      BY <1>9, <2>3
    <3>4. second[i - l] = rest[at + (i - l)]
      BY <1>13, <3>1
    <3>5. whole[o + i] = rest[(o + i) - e]
      <4>1. ~(o + i <= e)
        BY <3>2
      <4> QED BY <1>11, <2>1, <4>1
    <3> QED BY <3>2, <3>3, <3>4, <3>5
  <2> QED BY <2>2, <2>3
<1>17. rows = Slice(exact, o, c) \o Slice(rest, TextOffset(o, exact), c - Len(Slice(exact, o, c)))
  BY <1>2, <1>3, <1>4, <1>5, <1>6, <1>7 DEF IsSlice
<1> QED BY <1>9, <1>15, <1>16, <1>17 DEF IsRead

LEMMA SearchContinues ==
    ASSUME NEW S, NEW exact \in Seq(S), NEW text \in Seq(S), NEW o \in Nat,
           NEW limit \in Nat \ {0}, NEW whole, whole = exact \o TextRows(text, exact),
           NEW n \in Nat, n = Len(whole)
    PROVE  /\ SearchPage(exact, text, o, limit).rows \in Seq(S)
           /\ o <= n => \E m \in Nat :
                 Continues(SearchPage(exact, text, o, limit), m, o, whole, n)
<1>1. PICK rest \in Seq(S) : rest = TextRows(text, exact)
  BY TextRowsType
<1>2. PICK c \in Nat : c = limit + 1
  OBVIOUS
<1>3. PICK rows \in Seq(S), m \in Nat : IsRead(rows, m, exact, rest, o, c, whole, n)
  <2>1. whole = exact \o rest
    BY <1>1
  <2> QED BY <2>1, SearchReads
<1>4. PICK page \in Seq(S), k \in Nat : IsSlice(page, k, rows, m, 0, limit)
  BY <1>3, SliceIs DEF IsRead
<1>5. SearchPage(exact, text, o, limit) = [rows |-> page, more |-> m > limit]
  <2>1. page = Slice(rows, 0, limit)
    BY <1>4 DEF IsSlice
  <2>2. m = Len(rows)
    BY <1>3 DEF IsRead
  <2>3. rows = Slice(exact, o, limit + 1)
                 \o Slice(rest, TextOffset(o, exact), limit + 1 - Len(Slice(exact, o, limit + 1)))
    BY <1>2, <1>3 DEF IsRead
  <2> QED BY <1>1, <2>1, <2>2, <2>3 DEF SearchPage
<1>6. k = (IF limit <= m THEN limit ELSE m) /\ \A i \in 1..k : page[i] = rows[i]
  BY <1>4 DEF IsSlice
<1>7. ASSUME o <= n
      PROVE  /\ o + k <= n
             /\ \A i \in 1..k : page[i] = whole[o + i]
             /\ m > limit <=> o + k < n
  <2>1. /\ m = IF o + c <= n THEN c ELSE n - o
        /\ \A i \in 1..m : rows[i] = whole[o + i]
    BY <1>3, <1>7 DEF IsRead
  <2>2. k <= m /\ o + k <= n /\ (m > limit <=> o + k < n)
    BY <1>2, <1>6, <1>7, <2>1
  <2> QED BY <1>6, <2>1, <2>2
<1>8. k = Len(page)
  BY <1>4 DEF IsSlice
<1>9. /\ SearchPage(exact, text, o, limit).rows = page
      /\ SearchPage(exact, text, o, limit).more = (m > limit)
  BY <1>5
<1>10. o <= n => Continues(SearchPage(exact, text, o, limit), k, o, whole, n)
  BY <1>7, <1>8, <1>9 DEF Continues
<1> QED BY <1>9, <1>10

\* The bytes of no row, and of one.
LEMMA BytesOfOne ==
    ASSUME NEW rows, NEW n \in {0, 1}, n = Len(rows), n = 1 => rows[1] \in Row
    PROVE  Bytes(rows) = IF n = 0 THEN 0 ELSE Size[rows[1]]
<1> DEFINE Sums(f)  == f = [k \in 0..n |-> IF k = 0 THEN 0 ELSE f[k - 1] + Size[rows[k]]]
           sums     == CHOOSE f : Sums(f)
           witness  == [k \in 0..n |-> IF k = 0 THEN 0 ELSE Size[rows[k]]]
<1>1. Sums(witness)
  <2>1. n = 1 => Size[rows[1]] \in Nat
    BY PagingAssumption DEF Row
  <2>2. \A k \in 0..n : witness[k] = IF k = 0 THEN 0 ELSE witness[k - 1] + Size[rows[k]]
    BY <2>1
  <2> QED BY <2>2
<1>2. Sums(sums)
  BY <1>1
<1>3. Bytes(rows) = sums[n]
  BY DEF Bytes
<1> HIDE DEF sums
<1>4. sums[0] = 0
  BY <1>2
<1>5. n = 1 => sums[1] = 0 + Size[rows[1]]
  BY <1>2, <1>4
<1> QED BY <1>3, <1>4, <1>5, PagingAssumption DEF Row

-----------------------------------------------------------------------------
(* What the pages of a chain add up to.                                    *)

\* What is read and asked for is well typed, and the cursor points behind the
\* rows that have been collected.
Gathered ==
    /\ {disk, db.facts, snap.facts} \subseteq Facts /\ semantic \in Semantic
    /\ pc[Server] = "reading" => found = snap.facts.exact
    /\ pc[Server] # "idle" => /\ request.limit \in Nat
                              /\ request.cursor = NoCursor => request.offset = 0
    /\ \A a \in Pages : a.rows \in Seq(Row) /\ a.whole \in Seq(Row)
    /\ chain.cursor # NoCursor => chain.cursor.offset = Len(Collected)

\* The inductive invariant, beside Inv.
Complete == Gathered /\ NothingMissingOrTwice /\ RefusedOnlyIfOversized

LEMMA WholeType ==
    ASSUME NEW scope \in Scope, NEW facts \in Facts, NEW locations \in Semantic
    PROVE  Whole(scope, facts, locations) \in Seq(Row)
<1>1. /\ facts.exact \in Seq(Row) /\ facts.text \in Seq(Row) /\ facts.callees \in Seq(Row)
      /\ locations \in Seq(Row)
      /\ scope \in {"search", "callees", "semantic", "map"}
  BY PagingAssumption DEF Row
<1>2. TextRows(facts.text, facts.exact) \in Seq(Row)
  BY <1>1, TextRowsType
<1>3. /\ facts.exact \o facts.text \in Seq(Row)
      /\ facts.exact \o TextRows(facts.text, facts.exact) \in Seq(Row)
  BY <1>1, <1>2, ConcatProperties
<1> QED BY <1>1, <1>3 DEF Whole

LEMMA CollectedType ==
    ASSUME Inv, Gathered
    PROVE  Collected \in Seq(Row)
<1>1. PICK n \in Nat : n = Len(chain.pages) /\ DOMAIN chain.pages = 1..n
  BY DEF Inv, Held
<1>2. \A i \in 1..n : chain.pages[i].rows \in Seq(Row)
  BY <1>1 DEF Gathered, Pages, Range
<1>3. [i \in DOMAIN chain.pages |-> chain.pages[i].rows] \in Seq(Seq(Row))
  BY <1>1, <1>2, SeqDef
<1> QED BY <1>3, FlattenType DEF Collected

\* The rows of pages, as Collected has them.
RowsOf(pages) == FlattenSeq([i \in DOMAIN pages |-> pages[i].rows])

LEMMA CollectedAppend ==
    ASSUME NEW S, NEW P, NEW pages \in Seq(P), \A a \in P : a.rows \in Seq(S),
           NEW e, e.rows \in Seq(S), NEW more, more = Append(pages, e)
    PROVE  RowsOf(more) = RowsOf(pages) \o e.rows
<1>1. PICK n \in Nat : n = Len(pages) /\ DOMAIN pages = 1..n
  OBVIOUS
<1>2. /\ DOMAIN more = 1..n + 1 /\ more[n + 1] = e
      /\ \A i \in 1..n : more[i] = pages[i]
  BY <1>1
<1>3. PICK s : s = [i \in DOMAIN pages |-> pages[i].rows]
  OBVIOUS
<1>4. PICK t : t = [i \in DOMAIN more |-> more[i].rows]
  OBVIOUS
<1>5. \A i \in 1..n : pages[i] \in P
  BY <1>1
<1>6. s \in [1..n -> Seq(S)]
  BY <1>1, <1>3, <1>5
<1>7. s \in Seq(Seq(S)) /\ Len(s) = n
  BY <1>6, SeqDef
<1>8. Append(s, e.rows) = [i \in 1..n + 1 |-> IF i = n + 1 THEN e.rows ELSE s[i]]
  BY <1>7
<1>9. t = Append(s, e.rows)
  BY <1>1, <1>2, <1>3, <1>4, <1>8
<1> QED BY <1>3, <1>4, <1>7, <1>9, FlattenAppend DEF RowsOf

\* Prefixes, row by row.
LEMMA PrefixIs ==
    ASSUME NEW S, NEW s \in Seq(S), NEW w \in Seq(S), NEW o \in Nat, o = Len(s),
           NEW n \in Nat, n = Len(w)
    PROVE  IsPrefix(s, w) <=> o <= n /\ \A i \in 1..o : s[i] = w[i]
<1>1. SubSeq(s, 1, o) = s
  BY SubSeqFull
<1> SUFFICES ASSUME o <= n
             PROVE  SubSeq(s, 1, o) = SubSeq(w, 1, o) <=> \A i \in 1..o : s[i] = w[i]
  BY DEF IsPrefix
<1>2. \A i \in 1..o : w[i] \in S
  OBVIOUS
<1>3. PICK v \in Seq(S) : v = SubSeq(w, 1, o) /\ Len(v) = o /\ \A i \in 1..o : v[i] = w[i]
  <2> PICK v : v = SubSeq(w, 1, o)
    OBVIOUS
  <2>1. /\ SubSeq(w, 1, o) \in Seq(S)
        /\ Len(SubSeq(w, 1, o)) = IF 1 <= o THEN o - 1 + 1 ELSE 0
        /\ \A i \in 1..o - 1 + 1 : SubSeq(w, 1, o)[i] = w[1 + i - 1]
    BY <1>2, SubSeqProperties
  <2>2. v \in Seq(S) /\ Len(v) = o /\ \A i \in 1..o : v[i] = w[i]
    BY <2>1
  <2> QED BY <2>2
<1>4. s = v <=> \A i \in 1..o : s[i] = v[i]
  BY <1>3, SeqEqual
<1> QED BY <1>1, <1>3, <1>4

LEMMA EmptyIsPrefix ==
    ASSUME NEW S, NEW w \in Seq(S)
    PROVE  IsPrefix(<<>>, w)
<1>1. Len(<<>>) = 0 /\ Len(w) \in Nat
  OBVIOUS
<1>2. SubSeq(<<>>, 1, 0) = <<>> /\ SubSeq(w, 1, 0) = <<>>
  OBVIOUS
<1> QED BY <1>1, <1>2 DEF IsPrefix

\* The o rows s fetched so far are a prefix of the answer w of n rows; a page of m
\* rows continues them; with it they are a longer prefix, or with the last all of w.
SoFar(s, w, o, n, S) ==
    /\ s \in Seq(S) /\ w \in Seq(S) /\ IsPrefix(s, w)
    /\ o \in Nat /\ o = Len(s) /\ n \in Nat /\ n = Len(w)
NextPage(page, m, o, w, n, S) ==
    page.rows \in Seq(S) /\ m \in Nat /\ Continues(page, m, o, w, n)
Grown(s, page, w) ==
    IsPrefix(s \o page.rows, w) /\ (~page.more => s \o page.rows = w)

LEMMA PrefixGrows ==
    ASSUME NEW S, NEW s, NEW w, NEW o, NEW n, NEW page, NEW m,
           SoFar(s, w, o, n, S), NextPage(page, m, o, w, n, S)
    PROVE  Grown(s, page, w)
<1> s \in Seq(S) /\ w \in Seq(S) /\ IsPrefix(s, w)
    /\ o \in Nat /\ o = Len(s) /\ n \in Nat /\ n = Len(w) /\ m \in Nat
  BY DEF SoFar, NextPage
<1>1. PICK p \in Seq(S) : p = page.rows
  BY DEF NextPage
<1>2. /\ m = Len(p) /\ o + m <= n /\ \A i \in 1..m : p[i] = w[o + i]
      /\ page.more <=> o + m < n
  BY <1>1 DEF NextPage, Continues
<1>3. \A i \in 1..o : s[i] = w[i]
  BY PrefixIs
<1>4. PICK l \in Nat : l = o + m
  OBVIOUS
<1>5. PICK t \in Seq(S) : t = s \o p
  BY ConcatProperties
<1>6. Len(t) = l /\ \A i \in 1..l : t[i] = IF i <= o THEN s[i] ELSE p[i - o]
  BY <1>2, <1>4, <1>5, ConcatProperties
<1>7. ASSUME NEW i \in 1..l PROVE t[i] = w[i]
  <2>1. CASE i <= o
    BY <1>3, <1>6, <2>1
  <2>2. CASE ~(i <= o)
    <3>1. i - o \in 1..m /\ o + (i - o) = i
      BY <1>4, <2>2
    <3>2. p[i - o] = w[o + (i - o)]
      BY <1>2, <3>1
    <3> QED BY <1>6, <2>2, <3>1, <3>2
  <2> QED BY <2>1, <2>2
<1>8. IsPrefix(t, w)
  <2>1. l <= n /\ l = Len(t)
    BY <1>2, <1>4, <1>6
  <2> QED BY <1>7, <2>1, PrefixIs
<1>9. ASSUME ~page.more PROVE t = w
  <2>1. l = n
    BY <1>2, <1>4, <1>9
  <2> QED BY <1>6, <1>7, <2>1, SeqEqual
<1> QED BY <1>1, <1>5, <1>8, <1>9 DEF Grown

-----------------------------------------------------------------------------
(* The steps, for the second invariant.                                    *)

LEMMA InitComplete == Init => Complete
<1> SUFFICES ASSUME Init PROVE Complete
  OBVIOUS
<1>1. /\ disk \in Facts /\ db.facts = disk /\ snap = db /\ semantic \in Semantic
      /\ pc[Server] = "idle"
  BY PagingAssumption DEF Init
<1>2. chain.pages = <<>> /\ chain.cursor = NoCursor /\ chain.status = "start" /\ Pages = {}
  BY DEF Init, Start, Pages, Range
<1> QED BY <1>1, <1>2 DEF Complete, Gathered, NothingMissingOrTwice, RefusedOnlyIfOversized

\* A step that leaves the chain alone has only the calls and the facts to keep.
LEMMA ChainKept ==
    ASSUME Complete, UNCHANGED chain,
           {disk, db.facts, snap.facts}' \subseteq Facts, semantic' \in Semantic,
           (pc[Server] = "reading" => found = snap.facts.exact)',
           (pc[Server] # "idle" => /\ request.limit \in Nat
                                   /\ request.cursor = NoCursor => request.offset = 0)'
    PROVE  Complete'
<1>1. Pages' = Pages /\ Collected' = Collected /\ (OneSnapshot' <=> OneSnapshot)
  BY DEF Pages, Collected, OneSnapshot
<1> QED BY <1>1 DEF Complete, Gathered, NothingMissingOrTwice, RefusedOnlyIfOversized

LEMMA RefreshDbFacts ==
    ASSUME Gathered, RefreshDb
    PROVE  db'.facts \in Facts
BY DEF Gathered, RefreshDb

\* The steps of the database and of the call before its response.
LEMMA QuietComplete ==
    ASSUME Inv, Complete,
           \/ Edit
           \/ \E l \in Limit, all \in BOOLEAN : Ask(l, all)
           \/ \E l \in Limit : Misuse(l)
           \/ \E p \in Process : PeerRefresh(p)
           \/ ReadLabel \/ OpenScope \/ Restart \/ UNCHANGED vars
    PROVE  Complete'
<1>1. Gathered
  BY DEF Complete
<1>2. pc \in [Process -> Phase] /\ Server \in Process
  BY PagingAssumption DEF Inv, Asked
<1>3. CASE Edit
  BY <1>1, <1>3, ChainKept DEF Edit, Gathered
<1>4. ASSUME NEW l \in Limit, NEW all \in BOOLEAN, Ask(l, all) PROVE Complete'
  <2>1. l \in Nat /\ db'.facts \in Facts /\ pc'[Server] = "refreshed"
    BY <1>1, <1>2, <1>4, RefreshDbFacts, PagingAssumption DEF Ask
  <2> QED BY <1>1, <1>4, <2>1, ChainKept DEF Ask, Gathered
<1>5. ASSUME NEW l \in Limit, Misuse(l) PROVE Complete'
  <2>1. l \in Nat /\ db'.facts \in Facts /\ pc'[Server] = "refreshed"
    BY <1>1, <1>2, <1>5, RefreshDbFacts, PagingAssumption DEF Misuse
  <2>2. chain.cursor # NoCursor
    BY <1>5 DEF Misuse, Inv, Held
  <2>3. request'.limit \in Nat /\ request'.cursor # NoCursor
    BY <1>5, <2>1, <2>2 DEF Misuse
  <2> QED BY <1>1, <1>5, <2>1, <2>3, ChainKept DEF Misuse, Gathered
<1>6. ASSUME NEW p \in Process, PeerRefresh(p) PROVE Complete'
  <2>1. db'.facts \in Facts
    BY <1>1, <1>6, RefreshDbFacts DEF PeerRefresh
  <2> QED BY <1>1, <1>6, <2>1, ChainKept DEF PeerRefresh, Gathered
<1>7. CASE ReadLabel
  BY <1>1, <1>2, <1>7, ChainKept DEF ReadLabel, Gathered
<1>8. CASE OpenScope
  BY <1>1, <1>2, <1>8, ChainKept DEF OpenScope, Gathered
<1>9. CASE Restart
  BY <1>1, <1>2, <1>9, ChainKept DEF Restart, Gathered
<1>10. CASE UNCHANGED vars
  BY <1>1, <1>10, ChainKept DEF vars, Gathered
<1> QED BY <1>3, <1>4, <1>5, <1>6, <1>7, <1>8, <1>9, <1>10

\* A new chain has no page.
LEMMA StartComplete ==
    ASSUME Complete, NEW s, chain' = Start(s),
           {disk, db.facts, snap.facts}' \subseteq Facts, semantic' \in Semantic,
           pc'[Server] = "idle"
    PROVE  Complete'
<1>1. /\ chain'.pages = <<>> /\ chain'.cursor = NoCursor /\ chain'.status = "start"
      /\ Pages' = {}
  BY DEF Start, Pages, Range
<1> QED BY <1>1 DEF Complete, Gathered, NothingMissingOrTwice, RefusedOnlyIfOversized

\* Where an accepted request starts to read: behind what has been collected.
LEMMA StartsBehind ==
    ASSUME Inv, Gathered, pc[Server] = "reading",
           Verdict = "current"
    PROVE  StartOf(request) = Len(Collected) /\ StartOf(request) \in Nat
<1>1. request.cursor = chain.cursor /\ pc[Server] # "idle"
  BY DEF Inv, Asked
<1>2. Collected \in Seq(Row)
  BY CollectedType
<1>3. CASE chain.cursor = NoCursor
  <2>1. chain.pages = <<>>
    BY <1>3, CurrentRequest
  <2>2. [i \in DOMAIN chain.pages |-> chain.pages[i].rows] = <<>>
    BY <2>1
  <2>3. Collected = <<>>
    BY <2>2, FlattenEmpty DEF Collected
  <2> QED BY <1>1, <1>3, <2>3 DEF StartOf, Gathered
<1>4. CASE chain.cursor # NoCursor
  BY <1>1, <1>2, <1>4 DEF StartOf, Gathered
<1> QED BY <1>3, <1>4

\* How many rows fit is a number of them, and at least one fits unless the
\* first alone is too large.
LEMMA FittingIs ==
    ASSUME NEW rows \in Seq(Row)
    PROVE  /\ Fitting(rows) \in 0..Len(rows)
           /\ rows # <<>> /\ Fitting(rows) = 0 => Size[rows[1]] > Budget
<1>1. PICK n \in Nat : n = Len(rows)
  OBVIOUS
<1> DEFINE fit == {k \in 0..n : Bytes(Slice(rows, 0, k)) <= Budget}
<1>2. 0 \in fit
  <2>1. PICK p \in Seq(Row), m \in Nat : IsSlice(p, m, rows, n, 0, 0)
    BY <1>1, SliceIs
  <2>2. p = Slice(rows, 0, 0) /\ m = 0 /\ m = Len(p)
    BY <2>1 DEF IsSlice
  <2>3. Bytes(p) = 0
    BY <2>2, BytesOfOne
  <2> QED BY <2>2, <2>3, PagingAssumption
<1>3. Max(fit) \in fit /\ \A k \in fit : k <= Max(fit)
  <2>1. fit \in SUBSET (0..n) /\ fit # {}
    BY <1>2
  <2> HIDE DEF fit
  <2> QED BY <2>1, MaxOf
<1>4. Fitting(rows) = Max(fit)
  BY <1>1 DEF Fitting
<1>5. ASSUME rows # <<>>, Fitting(rows) = 0 PROVE Size[rows[1]] > Budget
  <2>1. n >= 1 /\ rows[1] \in Row
    BY <1>1, <1>5
  <2>2. 1 \notin fit
    <3> HIDE DEF fit
    <3> QED BY <1>3, <1>4, <1>5
  <2>3. PICK p \in Seq(Row), m \in Nat : IsSlice(p, m, rows, n, 0, 1)
    BY <1>1, SliceIs
  <2>4. p = Slice(rows, 0, 1) /\ m = 1 /\ m = Len(p) /\ p[1] = rows[1]
    BY <2>1, <2>3 DEF IsSlice
  <2>5. Bytes(p) = Size[rows[1]]
    BY <2>1, <2>4, BytesOfOne
  <2> QED BY <2>1, <2>2, <2>4, <2>5, PagingAssumption DEF Row
<1> QED BY <1>1, <1>3, <1>4, <1>5

\* A page that is added: where it begins in the answer, and what it shows.
IsPage(page, source) ==
    LET at    == StartOf(request)
        whole == Whole(request.scope, snap.facts, semantic)
    IN  /\ chain' = Extended(page, at, whole, source)
        /\ page.rows \in Seq(Row)
        /\ \/ request.scope = "map" /\ Overtaken
           \/ at <= Len(whole) => \E m \in Nat : Continues(page, m, at, whole, Len(whole))

LEMMA BoundedLimitIs ==
    ASSUME NEW l \in Nat
    PROVE  BoundedLimit(l) \in Nat \ {0}
BY PagingAssumption DEF BoundedLimit, Least

\* Each kind of answer pages on from where the request starts; only a map may
\* be torn, and a refusal names a row that is too large.
LEMMA RespondPages ==
    ASSUME Inv, Complete, Respond
    PROVE  \/ UNCHANGED chain
           \/ chain' = Start(chain.scope)
           \/ /\ chain' = [chain EXCEPT !.status = "failed"]
              /\ \E r \in Range(Whole(chain.scope, snap.facts, semantic)) : Size[r] > Budget
           \/ \E end \in {"lost", "unresolved"} : chain' = [chain EXCEPT !.status = end]
           \/ /\ Verdict = "current"
              /\ \E page, source : IsPage(page, source)
<1> DEFINE limit   == BoundedLimit(request.limit)
           at      == StartOf(request)
           whole   == Whole(request.scope, snap.facts, semantic)
           rows    == Whole(request.scope, LaterReads, semantic)
           fetched == Slice(rows, at, limit)
           fitting == Fitting(fetched)
           verdict == Verdict
<1>1. pc[Server] = "reading" /\ pc[Server] # "idle" /\ Gathered
  BY DEF Respond, Complete
<1>2. limit \in Nat \ {0} /\ found = snap.facts.exact
  BY <1>1, BoundedLimitIs DEF Gathered
<1>3. \/ UNCHANGED chain
      \/ chain' = [chain EXCEPT !.status = "lost"]
      \/ chain' = [chain EXCEPT !.status = "unresolved"]
      \/ verdict = "stale" /\ chain' = Start(chain.scope)
      \/ verdict = "current"
  BY DEF Respond
<1> SUFFICES ASSUME verdict = "current"
             PROVE  \/ /\ chain' = [chain EXCEPT !.status = "failed"]
                       /\ \E r \in Range(Whole(chain.scope, snap.facts, semantic)) :
                             Size[r] > Budget
                    \/ \E page, source : IsPage(page, source)
  BY <1>3
<1>4. \/ /\ request.scope = "search"
         /\ chain' = Extended(SearchPage(found, LaterReads.text, at, limit), at, whole, None)
      \/ /\ request.scope = "map"
         /\ chain' = Extended(MapPage(found, LaterReads.text), at, whole, None)
      \/ /\ request.scope \notin {"search", "map"}
         /\ chain' = Extended(SectionPage(rows, at, fitting), at, whole, None)
      \/ /\ request.scope \notin {"search", "map"}
         /\ fetched # <<>> /\ fitting = 0
         /\ chain' = [chain EXCEPT !.status = "failed"]
      \/ /\ request.all
         /\ \E k \in 0..fitting : \E source : chain' = Extended(SectionPage(rows, at, k), at, whole, source)
  BY DEF Respond
<1>5. request.scope = chain.scope /\ request.scope \in Scope
  BY <1>1, CurrentRequest DEF Inv, Held
<1>6. at = Len(Collected) /\ at \in Nat
  BY <1>1, StartsBehind
<1>7. request.all => request.scope \notin {"search", "map"}
  BY <1>1 DEF Inv, Asked
<1>8. snap.facts \in Facts /\ db.facts \in Facts /\ semantic \in Semantic
  BY <1>1 DEF Gathered
<1>9. whole \in Seq(Row) /\ Len(whole) \in Nat
  BY <1>5, <1>8, WholeType
<1>10. request.scope # "map" => LaterReads = snap.facts /\ rows = whole
  BY DEF LaterReads
<1>11. /\ snap.facts.exact \in Seq(Row) /\ snap.facts.text \in Seq(Row)
       /\ db.facts.text \in Seq(Row)
  BY <1>8, PagingAssumption DEF Row
<1>12. CASE request.scope = "search"
             /\ chain' = Extended(SearchPage(found, LaterReads.text, at, limit), at, whole, None)
  <2>1. whole = found \o TextRows(LaterReads.text, found)
    BY <1>2, <1>10, <1>12 DEF Whole
  <2>2. found \in Seq(Row) /\ LaterReads.text \in Seq(Row)
    BY <1>2, <1>10, <1>11, <1>12
  <2>3. /\ SearchPage(found, LaterReads.text, at, limit).rows \in Seq(Row)
        /\ at <= Len(whole) => \E m \in Nat :
              Continues(SearchPage(found, LaterReads.text, at, limit), m, at, whole, Len(whole))
    <3> HIDE DEF at, limit, whole
    <3> QED BY <1>2, <1>6, <1>9, <2>1, <2>2, SearchContinues
  <2>4. IsPage(SearchPage(found, LaterReads.text, at, limit), None)
    BY <1>12, <2>3 DEF IsPage
  <2> QED BY <2>4
<1>13. CASE request.scope = "map"
             /\ chain' = Extended(MapPage(found, LaterReads.text), at, whole, None)
  <2> DEFINE page == MapPage(found, LaterReads.text)
  <2>1. page = [rows |-> snap.facts.exact \o db.facts.text, more |-> FALSE]
    BY <1>2, <1>13 DEF MapPage, LaterReads
  <2>2. page.rows \in Seq(Row)
    BY <1>11, <2>1, ConcatProperties
  <2> HIDE DEF page
  <2>3. ASSUME ~Overtaken
        PROVE  at = 0 /\ page.rows = whole
    <3>1. label = db.generation
      BY <1>13, <2>3 DEF Overtaken
    <3>2. snap.generation = db.generation /\ snap.facts = db.facts
      BY <1>1, <3>1 DEF Inv, Reads, Dated
    <3>3. chain.cursor = NoCursor
      BY <1>5, <1>13 DEF Inv, Held
    <3>4. at = 0
      BY <1>1, <3>3 DEF Inv, Asked, StartOf, Gathered
    <3>5. whole = snap.facts.exact \o snap.facts.text
      BY <1>13 DEF Whole
    <3> QED BY <2>1, <3>2, <3>4, <3>5
  <2>4. ASSUME ~Overtaken
        PROVE  Continues(page, Len(whole), at, whole, Len(whole))
    <3>1. page.rows = whole /\ page.more = FALSE /\ at = 0
      <4> HIDE DEF whole, at
      <4> QED BY <2>1, <2>3, <2>4
    <3>2. PICK n \in Nat : n = Len(whole)
      BY <1>9
    <3>3. Continues(page, n, 0, whole, n)
      <4> HIDE DEF page, whole
      <4> QED BY <3>1, <3>2 DEF Continues
    <3> QED BY <3>1, <3>2, <3>3
  <2>5. IsPage(page, None)
    <3> HIDE DEF page
    <3> QED BY <1>9, <1>13, <2>2, <2>4 DEF IsPage, page
  <2> QED BY <2>5
<1>14. ASSUME request.scope \notin {"search", "map"}
       PROVE  /\ \A k \in 0..fitting :
                    /\ SectionPage(rows, at, k).rows \in Seq(Row)
                    /\ at <= Len(whole) =>
                          Continues(SectionPage(rows, at, k), k, at, whole, Len(whole))
              /\ fetched # <<>> /\ fitting = 0 =>
                    \E r \in Range(Whole(chain.scope, snap.facts, semantic)) : Size[r] > Budget
              /\ fitting \in Nat
  <2>1. rows = whole /\ rows \in Seq(Row)
    BY <1>9, <1>10, <1>14
  <2>2. PICK n \in Nat : n = Len(rows)
    BY <2>1
  <2>3. PICK p \in Seq(Row), l \in Nat : IsSlice(p, l, rows, n, at, limit)
    <3> HIDE DEF rows, at, limit
    <3> QED BY <1>2, <1>6, <2>1, <2>2, SliceIs
  <2>4. /\ fetched = p /\ l = Len(p)
        /\ \A i \in 1..l : p[i] = rows[at + i]
        /\ l = IF at + limit <= n THEN limit ELSE IF at <= n THEN n - at ELSE 0
    BY <2>3 DEF IsSlice
  <2>5. fitting \in 0..l /\ (p # <<>> /\ fitting = 0 => Size[p[1]] > Budget)
    <3> HIDE DEF fetched
    <3> QED BY <2>4, FittingIs
  <2>6. ASSUME NEW k \in 0..fitting
        PROVE  /\ SectionPage(rows, at, k).rows \in Seq(Row)
               /\ at <= n => Continues(SectionPage(rows, at, k), k, at, rows, n)
    <3>1. k \in 0..Len(fetched)
      BY <2>4, <2>5
    <3> HIDE DEF rows, at, limit, fitting
    <3> QED BY <1>2, <1>6, <2>1, <2>2, <3>1, SectionContinues
  <2>7. ASSUME fetched # <<>>, fitting = 0
        PROVE  \E r \in Range(Whole(chain.scope, snap.facts, semantic)) : Size[r] > Budget
    <3>1. l # 0 /\ Size[p[1]] > Budget
      BY <2>4, <2>5, <2>7, EmptySeq
    <3>2. p[1] = rows[at + 1] /\ at + 1 \in 1..n
      <4> HIDE DEF rows, at, limit
      <4> QED BY <1>2, <1>6, <2>4, <3>1
    <3>3. p[1] \in Range(rows)
      BY <2>1, <2>2, <3>2 DEF Range
    <3> QED BY <1>5, <2>1, <3>1, <3>3
  <2> QED BY <2>1, <2>2, <2>5, <2>6, <2>7
<1>15. CASE request.scope \notin {"search", "map"} /\ \E k \in 0..fitting : \E source :
               chain' = Extended(SectionPage(rows, at, k), at, whole, source)
  <2>1. PICK k \in 0..fitting : \E source :
              chain' = Extended(SectionPage(rows, at, k), at, whole, source)
    BY <1>15
  <2>2. PICK source : chain' = Extended(SectionPage(rows, at, k), at, whole, source)
    BY <2>1
  <2>3. k \in Nat
    BY <1>14, <1>15
  <2>4. IsPage(SectionPage(rows, at, k), source)
    BY <1>14, <1>15, <2>2, <2>3 DEF IsPage
  <2> QED BY <2>4
<1>16. CASE /\ request.scope \notin {"search", "map"}
            /\ chain' = Extended(SectionPage(rows, at, fitting), at, whole, None)
  <2>1. fitting \in 0..fitting
    BY <1>14, <1>16
  <2> QED BY <1>15, <1>16, <2>1
<1>17. CASE /\ request.scope \notin {"search", "map"}
            /\ fetched # <<>> /\ fitting = 0
            /\ chain' = [chain EXCEPT !.status = "failed"]
  BY <1>14, <1>17
<1> HIDE DEF limit, at, whole, rows, fetched, fitting, verdict
<1> QED BY <1>4, <1>7, <1>12, <1>13, <1>15, <1>16, <1>17

\* A page that is added keeps the sum of the pages a prefix of the answer, and
\* is the last exactly when the sum is all of it.
LEMMA PageComplete ==
    ASSUME Inv, Complete, Respond,
           Verdict = "current",
           NEW page, NEW source, IsPage(page, source),
           {disk, db.facts, snap.facts}' \subseteq Facts, semantic' \in Semantic,
           pc'[Server] = "idle"
    PROVE  Complete'
<1> DEFINE at    == StartOf(request)
           whole == Whole(request.scope, snap.facts, semantic)
           new   == [rows |-> page.rows, whole |-> whole, source |-> source,
                     overtaken |-> Overtaken]
<1>1. pc[Server] = "reading" /\ Gathered
  BY DEF Respond, Complete
<1>2. /\ request.scope = chain.scope
      /\ \/ chain.cursor = NoCursor /\ chain.pages = <<>>
         \/ chain.cursor # NoCursor
  BY <1>1, CurrentRequest
<1>3. at = Len(Collected) /\ at \in Nat
  BY <1>1, StartsBehind
<1>4. Collected \in Seq(Row)
  BY <1>1, CollectedType
<1>5. whole \in Seq(Row) /\ Len(whole) \in Nat
  <2>1. whole \in Seq(Row)
    BY <1>1, <1>2, WholeType DEF Inv, Held, Gathered
  <2> QED BY <2>1
<1>6. /\ page.rows \in Seq(Row)
      /\ \/ chain.scope = "map" /\ Overtaken
         \/ at <= Len(whole) => \E m \in Nat : Continues(page, m, at, whole, Len(whole))
  BY <1>2 DEF IsPage
<1>7. /\ chain'.pages = Append(chain.pages, new) /\ chain'.scope = chain.scope
      /\ chain'.status = IF page.more THEN "more" ELSE "done"
      /\ chain'.cursor = IF page.more
                         THEN Cursor(label, at + Len(page.rows), request.scope,
                                     Subject(request.scope, snap.facts),
                                     Fingerprint(request.scope, semantic))
                         ELSE NoCursor
  BY DEF IsPage, Extended, Inv, Held
<1> HIDE DEF at, whole
<1>8. Pages' = Pages \cup {new} /\ chain.pages \in Seq(Pages)
  <2>1. chain.pages \in Seq(Pages)
    BY DEF Inv, Held
  <2>2. Range(Append(chain.pages, new)) = Range(chain.pages) \cup {new}
    <3> HIDE DEF new
    <3> QED BY <2>1, AppendRange
  <2> QED BY <1>7, <2>1, <2>2 DEF Pages
<1>9. Collected' = Collected \o page.rows
  <2>1. \A a \in Pages : a.rows \in Seq(Row)
    BY <1>1 DEF Gathered
  <2>2. new.rows = page.rows
    OBVIOUS
  <2> HIDE DEF new
  <2>3. PICK more : more = Append(chain.pages, new)
    OBVIOUS
  <2>4. RowsOf(more) = RowsOf(chain.pages) \o new.rows
    <3>1. new.rows \in Seq(Row)
      BY <1>6, <2>2
    <3>2. PICK pages : pages = chain.pages
      OBVIOUS
    <3>3. PICK P : P = Pages
      OBVIOUS
    <3>4. pages \in Seq(P) /\ \A a \in P : a.rows \in Seq(Row)
      BY <1>8, <2>1, <3>2, <3>3
    <3>5. more = Append(pages, new)
      BY <2>3, <3>2
    <3>6. RowsOf(more) = RowsOf(pages) \o new.rows
      BY <3>1, <3>4, <3>5, CollectedAppend
    <3> QED BY <3>2, <3>6
  <2> QED BY <1>7, <2>2, <2>3, <2>4 DEF Collected, RowsOf
<1>10. Len(Collected') = at + Len(page.rows)
  BY <1>3, <1>4, <1>6, <1>9, ConcatProperties
<1>11. Gathered'
  <2>1. new.rows \in Seq(Row) /\ new.whole \in Seq(Row)
    BY <1>5, <1>6
  <2>2. \A a \in Pages' : a.rows \in Seq(Row) /\ a.whole \in Seq(Row)
    <3> HIDE DEF new
    <3> QED BY <1>1, <1>8, <2>1 DEF Gathered
  <2>3. chain'.cursor # NoCursor => chain'.cursor.offset = Len(Collected')
    BY <1>7, <1>10 DEF Cursor
  <2> QED BY <2>2, <2>3 DEF Gathered
<1>12. new.whole = whole /\ new.overtaken = Overtaken
  OBVIOUS
<1> HIDE DEF new
<1>13. NothingMissingOrTwice'
  <2> SUFFICES ASSUME OneSnapshot', NEW a \in Pages'
               PROVE  \/ chain'.scope = "map" /\ a.overtaken
                      \/ /\ IsPrefix(Collected', a.whole)
                         /\ chain'.status = "done" => Collected' = a.whole
    BY DEF NothingMissingOrTwice
  <2>1. a.whole = whole /\ \A b \in Pages : b.whole = whole
    BY <1>8, <1>12 DEF OneSnapshot
  <2>2. CASE chain.scope = "map" /\ Overtaken
    <3>1. chain.pages = <<>>
      BY <1>2, <2>2 DEF Inv, Held
    <3>2. Pages = {}
      BY <3>1 DEF Pages, Range
    <3> QED BY <1>7, <1>8, <1>12, <2>2, <3>2
  <2>3. CASE ~(chain.scope = "map" /\ Overtaken)
    <3>1. IsPrefix(Collected, whole)
      <4>1. CASE chain.pages = <<>>
        <5>1. [i \in DOMAIN chain.pages |-> chain.pages[i].rows] = <<>>
          BY <4>1
        <5>2. Collected = <<>>
          BY <5>1, FlattenEmpty DEF Collected
        <5> QED BY <1>5, <5>2, EmptyIsPrefix
      <4>2. CASE chain.pages # <<>>
        <5>1. chain.scope # "map" /\ chain.status # "done"
          BY <1>1, <1>2, <4>2 DEF Inv, Held, Asked
        <5>2. PICK b \in Pages : TRUE
          <6>1. Len(chain.pages) >= 1 /\ DOMAIN chain.pages = 1..Len(chain.pages)
            BY <1>8, <4>2
          <6>2. chain.pages[1] \in Pages
            BY <6>1 DEF Pages, Range
          <6> QED BY <6>2
        <5>3. OneSnapshot
          BY <2>1 DEF OneSnapshot
        <5>4. IsPrefix(Collected, b.whole)
          BY <5>1, <5>2, <5>3 DEF Complete, NothingMissingOrTwice
        <5> QED BY <2>1, <5>2, <5>4
      <4> QED BY <4>1, <4>2
    <3>2. PICK n \in Nat : n = Len(whole)
      BY <1>5
    <3>3. at <= n
      BY <1>3, <1>4, <1>5, <3>1, <3>2, PrefixIs
    <3>4. PICK m \in Nat : Continues(page, m, at, whole, n)
      BY <1>6, <2>3, <3>2, <3>3
    <3>5. IsPrefix(Collected \o page.rows, whole) /\ (~page.more => Collected \o page.rows = whole)
      <4>1. PICK c : c = Collected
        OBVIOUS
      <4>2. PICK w : w = whole
        OBVIOUS
      <4>3. PICK o : o = at
        OBVIOUS
      <4>4. c \in Seq(Row) /\ w \in Seq(Row)
        BY <1>4, <1>5, <4>1, <4>2
      <4>5. o \in Nat /\ o = Len(c)
        BY <1>3, <4>1, <4>3
      <4>6. SoFar(c, w, o, n, Row)
        BY <3>1, <3>2, <4>1, <4>2, <4>4, <4>5 DEF SoFar
      <4>7. NextPage(page, m, o, w, n, Row)
        BY <1>6, <3>4, <4>2, <4>3 DEF NextPage
      <4>8. Grown(c, page, w)
        BY <4>6, <4>7, PrefixGrows
      <4> QED BY <4>1, <4>2, <4>8 DEF Grown
    <3> QED BY <1>7, <1>9, <2>1, <3>5
  <2> QED BY <2>2, <2>3
<1>14. RefusedOnlyIfOversized'
  BY <1>7 DEF RefusedOnlyIfOversized
<1> QED BY <1>11, <1>13, <1>14 DEF Complete

LEMMA RespondComplete ==
    ASSUME Inv, Complete, Respond
    PROVE  Complete'
<1>1. /\ pc'[Server] = "idle" /\ snap' = db /\ UNCHANGED <<disk, semantic, db>>
      /\ pc[Server] = "reading"
  BY PagingAssumption DEF Respond, Inv, Asked
<1>2. Gathered
  BY DEF Complete
<1>3. {disk, db.facts, snap.facts}' \subseteq Facts /\ semantic' \in Semantic
  BY <1>1, <1>2 DEF Gathered
<1>4. CASE UNCHANGED chain
  BY <1>1, <1>3, <1>4, ChainKept
<1>5. CASE chain' = Start(chain.scope)
  BY <1>1, <1>3, <1>5, StartComplete
<1>6. CASE /\ chain' = [chain EXCEPT !.status = "failed"]
           /\ \E r \in Range(Whole(chain.scope, snap.facts, semantic)) : Size[r] > Budget
  <2>1. /\ chain'.pages = chain.pages /\ chain'.cursor = chain.cursor
        /\ chain'.scope = chain.scope /\ chain'.status = "failed"
    BY <1>6 DEF Inv, Held
  <2>2. Pages' = Pages /\ Collected' = Collected /\ (OneSnapshot' <=> OneSnapshot)
    BY <2>1 DEF Pages, Collected, OneSnapshot
  <2>3. Gathered'
    BY <1>1, <1>2, <1>3, <2>1, <2>2 DEF Gathered
  <2>4. RefusedOnlyIfOversized'
    BY <1>2, <1>6, <2>1 DEF RefusedOnlyIfOversized, Gathered
  <2>5. NothingMissingOrTwice'
    BY <2>1, <2>2 DEF Complete, NothingMissingOrTwice
  <2> QED BY <2>3, <2>4, <2>5 DEF Complete
<1>7. ASSUME NEW end \in {"lost", "unresolved"}, chain' = [chain EXCEPT !.status = end]
      PROVE  Complete'
  <2>1. /\ chain'.pages = chain.pages /\ chain'.cursor = chain.cursor
        /\ chain'.scope = chain.scope /\ chain'.status \notin {"failed", "done"}
    BY <1>7 DEF Inv, Held
  <2>2. Pages' = Pages /\ Collected' = Collected /\ (OneSnapshot' <=> OneSnapshot)
    BY <2>1 DEF Pages, Collected, OneSnapshot
  <2>3. Gathered'
    BY <1>1, <1>2, <1>3, <2>1, <2>2 DEF Gathered
  <2> QED BY <2>1, <2>2, <2>3 DEF Complete, NothingMissingOrTwice, RefusedOnlyIfOversized
<1>8. ASSUME /\ Verdict = "current"
             /\ \E page, source : IsPage(page, source)
      PROVE  Complete'
  BY <1>1, <1>3, <1>8, PageComplete
<1> QED BY <1>4, <1>5, <1>6, <1>7, <1>8, RespondPages

LEMMA NewQuestionComplete ==
    ASSUME Inv, Complete, NEW s \in Scope, NewQuestion(s)
    PROVE  Complete'
<1>1. /\ chain' = Start(s) /\ UNCHANGED <<disk, db, snap, semantic, pc>>
      /\ pc[Server] = "idle"
  BY DEF NewQuestion
<1> QED BY <1>1, StartComplete DEF Complete, Gathered

THEOREM PagingComplete == Spec => []Complete
<1>1. Inv /\ Complete /\ [Next]_vars => Complete'
  BY QuietComplete, RespondComplete, NewQuestionComplete DEF Next
<1> QED BY InitComplete, PagingInv, <1>1, PTL DEF Spec

\* Pages of one snapshot add up to a prefix of the answer and, with no cursor
\* left, to all of it, for any answers, limits and sizes of rows, whatever
\* comes between the pages (search_with_page_scope_detail_options,
\* expand_page_with_format, page_offset_with_snapshot).
THEOREM AnswersAreComplete == Spec => []NothingMissingOrTwice
<1>1. Complete => NothingMissingOrTwice
  BY DEF Complete
<1> QED BY <1>1, PagingComplete, PTL

\* An expand is refused for its size only where one of its rows is larger than
\* a compact page (expand_page_with_format).
THEOREM RefusalsAreOversized == Spec => []RefusedOnlyIfOversized
<1>1. Complete => RefusedOnlyIfOversized
  BY DEF Complete
<1> QED BY <1>1, PagingComplete, PTL

===============================================================================
