-------------------------- MODULE LspSessionProofs --------------------------
(***************************************************************************)
(* Theorems about LspSession, for any bounds, servers and faults.          *)
(***************************************************************************)
EXTENDS LspSession, SequenceTheorems, TLAPS

\* What is left of a session at each end of it: nothing before it has begun,
\* no process when its threads are waited for without an error so far.
CleanInv ==
    /\ CleanUnlessReported
    /\ stage = "start" => ThreadsDone /\ child = "none"
    /\ stage = "join" /\ result # "failed" => child = "dead"

\* Nothing has been started initially.
LEMMA InitClean == Init => CleanInv
BY DEF Init, CleanInv, CleanUnlessReported, ThreadsDone, Done

\* The two threads and the server leave the querying thread alone, and a
\* thread or a process that has ended stays so.
LEMMA OthersStep ==
    ASSUME \/ Writer \/ Reader \/ ServerReads \/ ServerWrites \/ ServerSpeaks
           \/ ProcessEnds \/ Expire \/ CleanupExpires
    PROVE  /\ UNCHANGED <<stage, result, report>>
           /\ ThreadsDone => ThreadsDone'
           /\ child \in {"none", "dead"} => UNCHANGED child
<1>1. CASE Writer
    BY <1>1 DEF Writer, WriterTakes, WriterWrites, WriterEnds, ThreadsDone, Done, reading,
                server
<1>2. CASE Reader
    BY <1>2 DEF Reader, ReaderReads, ReaderSends, ThreadsDone, Done, writing, server
<1>3. CASE ServerReads \/ ServerWrites \/ ServerSpeaks
    BY <1>3 DEF ServerReads, ServerWrites, ServerSpeaks, ThreadsDone, reading, writing
<1>4. CASE ProcessEnds \/ Expire \/ CleanupExpires
    BY <1>4 DEF ProcessEnds, Expire, CleanupExpires, ThreadsDone, reading, writing, server
<1> QED
    BY <1>1, <1>2, <1>3, <1>4

\* The querying thread ends only through CannotStart and Join, and comes to
\* Join only through Reap.
LEMMA QueryStep ==
    ASSUME CleanInv, Query
    PROVE  CleanInv'
<1>1. CASE Start
    BY <1>1 DEF Start, CleanInv, CleanUnlessReported
<1>2. CASE CannotStart
    BY <1>2 DEF CannotStart, CleanInv, CleanUnlessReported, ThreadsDone, writing, reading, server
<1>3. ASSUME stage \in Talking, stage' \in Talking \cup {"kill"} PROVE CleanInv'
    BY <1>3 DEF Talking, CleanInv, CleanUnlessReported
<1>4. CASE Offer \/ Acknowledged \/ AwaitAnswer \/ Drain \/ Reset \/ AwaitReadiness
              \/ Ready \/ GiveUp
    <2>1. stage \in Talking
        BY <1>4 DEF Offer, Acknowledged, AwaitAnswer, Drain, Reset, AwaitReadiness, Ready,
                    GiveUp, Talking
    <2>2. stage' \in Talking \cup {"kill"}
        BY <1>4, <2>1 DEF Offer, Acknowledged, AwaitAnswer, Drain, Reset, AwaitReadiness, Ready,
                          GiveUp, Talking, Enter, Handle, Conclude
    <2> QED
        BY <1>3, <2>1, <2>2
<1>5. CASE Kill
    BY <1>5 DEF Kill, CleanInv, CleanUnlessReported
<1>6. CASE Reap
    BY <1>6 DEF Reap, CleanInv, CleanUnlessReported, server
<1>7. CASE Join
    BY <1>7 DEF Join, Verdict, CleanInv, CleanUnlessReported, ThreadsDone, reading, writing, server
<1> QED
    BY <1>1, <1>2, <1>4, <1>5, <1>6, <1>7 DEF Query

\* Every step keeps the invariant.
LEMMA StepClean == CleanInv /\ [Next]_vars => CleanInv'
<1> SUFFICES ASSUME CleanInv, [Next]_vars PROVE CleanInv'
    OBVIOUS
<1>1. CASE Query
    BY <1>1, QueryStep
<1>2. CASE \/ Writer \/ Reader \/ ServerReads \/ ServerWrites \/ ServerSpeaks
           \/ ProcessEnds \/ Expire \/ CleanupExpires
    BY <1>2, OthersStep DEF CleanInv, CleanUnlessReported
<1>3. CASE UNCHANGED vars
    BY <1>3 DEF vars, writing, reading, server, CleanInv, CleanUnlessReported, ThreadsDone
<1> QED
    BY <1>1, <1>2, <1>3 DEF Next

\* A query that does not report failure has left no thread and no process
\* behind, whatever the server did and whenever the deadlines struck.
THEOREM CleanSessions == Spec => []CleanUnlessReported
<1>1. CleanInv => CleanUnlessReported
    BY DEF CleanInv
<1> QED
    BY <1>1, InitClean, StepClean, PTL DEF Spec

-----------------------------------------------------------------------------
(* What is under way between the session and the server.                   *)

\* Every message in a queue, a pipe, a thread or yet to be written is in M.
Carried(M) ==
    /\ outbox \in Seq(M) /\ writer.message \in Seq(M) /\ stdin \in Seq(M)
    /\ owed \in Seq(M) /\ stdout \in Seq(M) /\ reader.message \in Seq(M) /\ inbox \in Seq(M)

\* What the server says, to a message in M or unasked, is in M.
Spoken(M) == Unasked \subseteq M /\ \A m \in M : Owes(m) \in Seq(M)

\* Only a request, a document and a reply are offered to the writer.
Offered ==
    Msg(IF replying THEN "reply" ELSE stage, IF stage = "open" THEN opened + 1 ELSE IdOf(stage))

\* What is taken from a queue and what is added to it.
LEMMA QueueOf ==
    ASSUME NEW M, NEW q \in Seq(M)
    PROVE  /\ q # <<>> => Head(q) \in M /\ Tail(q) \in Seq(M) /\ Len(Tail(q)) = Len(q) - 1
           /\ \A m \in M : Append(q, m) \in Seq(M) /\ Len(Append(q, m)) = Len(q) + 1
           /\ \A r \in Seq(M) : q \o r \in Seq(M) /\ Len(q \o r) = Len(q) + Len(r)
           /\ Len(q) \in Nat /\ (Len(q) = 0 <=> q = <<>>)
<1>1. q # <<>> => Head(q) \in M /\ Tail(q) \in Seq(M) /\ Len(Tail(q)) = Len(q) - 1
    BY HeadTailProperties
<1>2. \A m \in M : Append(q, m) \in Seq(M) /\ Len(Append(q, m)) = Len(q) + 1
    BY AppendProperties
<1>3. \A r \in Seq(M) : q \o r \in Seq(M) /\ Len(q \o r) = Len(q) + Len(r)
    BY ConcatProperties
<1>4. Len(q) \in Nat /\ (Len(q) = 0 <=> q = <<>>)
    BY LenProperties, EmptySeq
<1> QED
    BY <1>1, <1>2, <1>3, <1>4

LEMMA OneMessage ==
    ASSUME NEW M, NEW m \in M
    PROVE  <<m>> \in Seq(M) /\ Len(<<m>>) = 1 /\ Head(<<m>>) = m /\ <<m>> # <<>>
OBVIOUS

\* Whatever is added to the queues and pipes, they carry nothing but messages
\* that the session offers and the server speaks.
LEMMA CarriedOn ==
    ASSUME NEW M, Carried(M), Spoken(M), Offer => Offered \in M, [Next]_vars
    PROVE  Carried(M)'
<1> USE DEF Carried
<1>1. CASE Offer
    <2>1. outbox' = <<Offered>>
        BY <1>1 DEF Offer, Offered
    <2>2. outbox' \in Seq(M)
        BY <1>1, <2>1, OneMessage
    <2> QED
        BY <1>1, <2>2 DEF Offer, reading, server
<1>2. CASE AwaitAnswer \/ Drain \/ AwaitReadiness
    <2>1. inbox # <<>> /\ inbox' = Tail(inbox) /\ UNCHANGED <<stdout, reader>>
        BY <1>2 DEF AwaitAnswer, Drain, MayDrain, AwaitReadiness
    <2>2. inbox' \in Seq(M)
        BY <2>1, QueueOf
    <2>3. UNCHANGED <<outbox, writer, stdin, owed>>
        BY <1>2 DEF AwaitAnswer, Drain, AwaitReadiness, Conclude, Handle, writing, server
    <2> QED
        BY <2>1, <2>2, <2>3
<1>3. CASE Start
    BY <1>3, EmptySeq DEF Start, Idle
<1>4. CASE CannotStart \/ Acknowledged \/ Reset \/ Ready \/ GiveUp \/ Kill \/ Join
    BY <1>4 DEF CannotStart, Acknowledged, Reset, Ready, GiveUp, Kill, Join, Conclude, writing,
                reading, server
<1>5. CASE Reap
    BY <1>5, EmptySeq DEF Reap, DropQueues, writing, server
<1>6. CASE Writer
    <2>1. CASE WriterTakes
        BY <2>1, EmptySeq DEF WriterTakes, reading, server
    <2>2. CASE WriterWrites
        <3>1. stdin \o writer.message \in Seq(M) /\ <<>> \in Seq(M)
            BY QueueOf, EmptySeq
        <3>2. stdin' = stdin \o writer.message \/ stdin' = stdin
            BY <2>2 DEF WriterWrites
        <3>3. writer'.message = <<>>
            BY <2>2 DEF WriterWrites, Idle, Done
        <3>4. UNCHANGED <<outbox, owed, stdout, reader, inbox>> /\ stdin' \in Seq(M) /\ writer'.message \in Seq(M)
            BY <2>2, <3>1, <3>2, <3>3 DEF WriterWrites, reading, server
        <3> QED
            BY <3>4
    <2>3. CASE WriterEnds
        BY <2>3, EmptySeq DEF WriterEnds, Done, reading, server
    <2> QED
        BY <1>6, <2>1, <2>2, <2>3 DEF Writer
<1>7. CASE Reader
    <2>1. CASE ReaderReads
        <3>1. stdout # <<>> => <<Head(stdout)>> \in Seq(M) /\ Tail(stdout) \in Seq(M)
            BY QueueOf, OneMessage
        <3>2. <<>> \in Seq(M)
            BY EmptySeq
        <3>3. \/ stdout # <<>> /\ reader'.message = <<Head(stdout)>> /\ stdout' = Tail(stdout)
              \/ reader'.message = <<>> /\ stdout' = stdout
            BY <2>1 DEF ReaderReads, Done
        <3>4. stdout' \in Seq(M) /\ reader'.message \in Seq(M)
            BY <3>1, <3>2, <3>3
        <3>5. UNCHANGED <<outbox, writer, stdin, owed, inbox>> /\ stdout' \in Seq(M) /\ reader'.message \in Seq(M)
            BY <2>1, <3>4 DEF ReaderReads, writing, server
        <3> QED
            BY <3>5
    <2>2. CASE ReaderSends
        <3>1. inbox \o reader.message \in Seq(M) /\ <<>> \in Seq(M)
            BY QueueOf, EmptySeq
        <3>2. inbox' = inbox \o reader.message \/ inbox' = inbox
            BY <2>2 DEF ReaderSends
        <3>3. reader'.message = <<>>
            BY <2>2 DEF ReaderSends, Idle, Done
        <3>4. UNCHANGED <<outbox, writer, stdin, owed, stdout>> /\ inbox' \in Seq(M) /\ reader'.message \in Seq(M)
            BY <2>2, <3>1, <3>2, <3>3 DEF ReaderSends, writing, server
        <3> QED
            BY <3>4
    <2> QED
        BY <1>7, <2>1, <2>2 DEF Reader
<1>8. CASE ServerReads
    <2>1. stdin # <<>> /\ Head(stdin) \in M /\ Tail(stdin) \in Seq(M)
        BY <1>8, QueueOf DEF ServerReads
    <2>2. owed \o Owes(Head(stdin)) \in Seq(M)
        BY <2>1, QueueOf DEF Spoken
    <2> QED
        BY <1>8, <2>1, <2>2 DEF ServerReads, reading
<1>9. CASE ServerWrites
    <2>1. owed # <<>> /\ Head(owed) \in M /\ Tail(owed) \in Seq(M)
        BY <1>9, QueueOf DEF ServerWrites
    <2>2. Append(stdout, Head(owed)) \in Seq(M)
        BY <2>1, QueueOf
    <2> QED
        BY <1>9, <2>1, <2>2 DEF ServerWrites, writing
<1>10. CASE ServerSpeaks
    <2>1. PICK m \in Unasked : stdout' = Append(stdout, m)
        BY <1>10 DEF ServerSpeaks
    <2>2. stdout' \in Seq(M)
        BY <2>1, QueueOf DEF Spoken
    <2> QED
        BY <1>10, <2>2 DEF ServerSpeaks, writing
<1>11. CASE ProcessEnds \/ Expire \/ CleanupExpires
    BY <1>11 DEF ProcessEnds, Expire, CleanupExpires, writing, reading, server
<1>12. CASE UNCHANGED vars
    BY <1>12 DEF vars, writing, reading, server
<1> QED
    BY <1>1, <1>2, <1>3, <1>4, <1>5, <1>6, <1>7, <1>8, <1>9, <1>10, <1>11, <1>12 DEF Next, Query

\* Documents and diagnostics are of one of the documents opened.
Sane == {m \in Message : m.kind \in {"open", "diagnostics"} => m.id \in 1..Docs}

LEMMA SaneSpoken == Spoken(Sane)
<1>1. ASSUME NEW m \in Unasked PROVE m \in Sane
    <2>1. \/ m \in {Msg("request", 1), Msg("request", 2), Msg("busy", 0), Msg("quiet", 0)}
          \/ \E k \in {"garbage", "unhealthy"} : m = Msg(k, 0)
          \/ \E k \in {"error", "unsupported"} : m = Msg(k, 1)
          \/ m \in {Msg("error", 2), Msg("answer", 2)}
        BY DEF Unasked
    <2> QED
        BY <2>1 DEF Msg, Sane, Message
<1>2. ASSUME NEW m \in Sane PROVE Owes(m) \in Seq(Sane)
    <2>1. m.id \in Nat
        BY DEF Sane, Message
    <2>2. Msg("answer", m.id) \in Sane /\ Msg("busy", 0) \in Sane /\ Msg("quiet", 0) \in Sane
        BY <2>1 DEF Msg, Sane, Message
    <2>3. m.kind = "open" => Msg("diagnostics", m.id) \in Sane
        BY <2>1 DEF Msg, Sane, Message
    <2>4. CASE m.kind \in {"initialize", "references"}
        BY <2>2, <2>4 DEF Owes
    <2>5. CASE m.kind = "open"
        BY <2>2, <2>3, <2>5 DEF Owes
    <2>6. CASE m.kind \notin {"initialize", "references", "open"}
        BY <2>6 DEF Owes
    <2> QED
        BY <2>4, <2>5, <2>6
<1> QED
    BY <1>1, <1>2 DEF Spoken

-----------------------------------------------------------------------------
(* Types and bounds.                                                       *)

\* Queues, pipes and threads: a thread has at most one message, and rests
\* without one.
Bounded ==
    /\ Len(outbox) <= 1 /\ Len(stdin) <= Pipe /\ Len(stdout) <= Pipe /\ Len(inbox) <= Inbox
    /\ writer \in Thread /\ (writer.at \in {"writing", "holding"} <=> writer.message # <<>>)
    /\ reader \in Thread /\ (reader.at \in {"writing", "holding"} <=> reader.message # <<>>)
    /\ Len(writer.message) <= 1 /\ Len(reader.message) <= 1

\* What is opened before the documents are, and while they are; a message
\* that is no reply belongs to a stage that has one to send.
Opening ==
    /\ stage \in {"start", "initialize", "initialized", "drain"} => opened = 0
    /\ stage = "open" => opened < Docs
    /\ sending # "no" /\ ~replying => stage \in {"initialize", "initialized", "open", "references"}

\* The session and the server.
Session ==
    /\ provider \in Provider
    /\ stage \in Talking \cup {"start", "kill", "reap", "join", "done"}
    /\ sending \in {"no", "offer", "ack"} /\ replying \in BOOLEAN /\ asked \in BOOLEAN
    /\ opened \in 0..Docs /\ drained \in 0..MaxDrain
    /\ ready \in [busy: BOOLEAN, quiet: BOOLEAN, healthy: BOOLEAN, diagnosed: SUBSET (1..Docs)]
    /\ ack \in {"none", "written", "failed"}
    /\ connected \in BOOLEAN
    /\ child \in {"none", "alive", "killed", "dead"} /\ orphan \in BOOLEAN
    /\ noise \in 0..MaxNoise
    /\ expired \in BOOLEAN /\ overdue \in BOOLEAN
    /\ result \in {"none", "success", "not_applicable", "failed"}
    /\ report \in {"none", "success", "not_applicable", "failed", "unavailable"}

TypeInv == Carried(Sane) /\ Bounded /\ Opening /\ Session

LEMMA TypesHold == TypeInv => TypeOK
<1> SUFFICES ASSUME TypeInv PROVE TypeOK
    OBVIOUS
<1>1. Sane \subseteq Message /\ \A q \in Seq(Sane) : q \in Seq(Message)
    BY DEF Sane
<1>2. outbox \in Seq(Message) /\ stdin \in Seq(Message) /\ owed \in Seq(Message)
      /\ stdout \in Seq(Message) /\ inbox \in Seq(Message)
    BY <1>1 DEF TypeInv, Carried
<1> QED
    BY <1>2 DEF TypeInv, TypeOK, Bounded, Session

LEMMA InitTypes == Init => TypeInv
<1> SUFFICES ASSUME Init PROVE TypeInv
    OBVIOUS
<1>1. outbox = <<>> /\ stdin = <<>> /\ owed = <<>> /\ stdout = <<>> /\ inbox = <<>>
      /\ writer = [at |-> "done", message |-> <<>>] /\ reader = [at |-> "done", message |-> <<>>]
    BY DEF Init, Done
<1>2. Carried(Sane)
    BY <1>1, EmptySeq DEF Carried
<1>3. Bounded
    BY <1>1, EmptySeq, SessionAssumption DEF Bounded, Thread
<1>4. Opening
    BY DEF Init, Opening
<1>5. Session
    <2>1. opened \in 0..Docs /\ drained \in 0..MaxDrain /\ noise \in 0..MaxNoise
        BY SessionAssumption DEF Init
    <2>2. ready \in [busy: BOOLEAN, quiet: BOOLEAN, healthy: BOOLEAN, diagnosed: SUBSET (1..Docs)]
        BY DEF Init, NotReady
    <2> QED
        BY <2>1, <2>2 DEF Init, Session
<1> QED
    BY <1>2, <1>3, <1>4, <1>5 DEF TypeInv

\* What the session offers is sane: a document it opens is one there is.
LEMMA OfferedSane ==
    ASSUME Opening, Session, Offer
    PROVE  Offered \in Sane
<1>1. replying \in BOOLEAN /\ opened \in Nat /\ sending = "offer"
    BY DEF Session, Offer
<1>2. ~replying => stage \in {"initialize", "initialized", "open", "references"}
    BY <1>1 DEF Opening
<1>3. CASE stage = "open"
    <2>1. opened + 1 \in 1..Docs
        BY <1>1, <1>3, SessionAssumption DEF Opening
    <2> QED
        BY <1>1, <1>3, <2>1 DEF Offered, Msg, Sane, Message
<1>4. CASE stage # "open"
    BY <1>1, <1>2, <1>4 DEF Offered, Msg, Sane, Message, IdOf
<1> QED
    BY <1>3, <1>4

\* A message noted keeps what is known of the readiness well-typed.
LEMMA NotedTypes ==
    ASSUME Session, NEW m \in Sane
    PROVE  Noted(m) \in [busy: BOOLEAN, quiet: BOOLEAN, healthy: BOOLEAN, diagnosed: SUBSET (1..Docs)]
<1>1. ready \in [busy: BOOLEAN, quiet: BOOLEAN, healthy: BOOLEAN, diagnosed: SUBSET (1..Docs)]
    BY DEF Session
<1>2. CASE m.kind \in {"busy", "quiet", "unhealthy"}
    BY <1>1, <1>2 DEF Noted
<1>3. CASE m.kind = "diagnostics"
    <2>1. m.id \in 1..Docs
        BY <1>3 DEF Sane
    <2> QED
        BY <1>1, <1>3, <2>1 DEF Noted
<1>4. CASE m.kind \notin {"busy", "quiet", "unhealthy", "diagnostics"}
    BY <1>1, <1>4 DEF Noted
<1> QED
    BY <1>2, <1>3, <1>4

\* The querying thread keeps the types of the session: so do the end of the
\* exchange, ...
LEMMA ConcludeKeeps ==
    ASSUME Session, NEW v \in {"success", "not_applicable", "failed"}, Conclude(v)
    PROVE  Session' /\ Opening'
<1>1. opened' \in 0..Docs /\ drained' \in 0..MaxDrain
    BY SessionAssumption DEF Conclude
<1>2. ready' \in [busy: BOOLEAN, quiet: BOOLEAN, healthy: BOOLEAN, diagnosed: SUBSET (1..Docs)]
    BY DEF Conclude, NotReady
<1>3. UNCHANGED <<provider, connected, child, orphan, noise, expired, overdue, report>>
    BY DEF Conclude, server, clock
<1>4. stage' = "kill" /\ result' = v /\ sending' = "no" /\ replying' = FALSE /\ asked' = FALSE
      /\ ack' = "none"
    BY DEF Conclude
<1>5. Session'
    BY <1>1, <1>2, <1>3, <1>4 DEF Session
<1> QED
    BY <1>4, <1>5 DEF Opening

\* ... a message that is noted ...
LEMMA HandleKeeps ==
    ASSUME Session, Opening, NEW m \in Sane, Handle(m), drained' \in 0..MaxDrain
    PROVE  Session' /\ Opening'
<1>1. ready' \in [busy: BOOLEAN, quiet: BOOLEAN, healthy: BOOLEAN, diagnosed: SUBSET (1..Docs)]
    BY NotedTypes DEF Handle
<1>2. sending' \in {"no", "offer"} /\ replying' \in BOOLEAN /\ (sending' # "no" => replying')
    BY DEF Handle
<1>3. UNCHANGED <<provider, stage, asked, opened, ack, connected, child, orphan, noise, expired,
                  overdue, result, report>>
    BY DEF Handle, writing, server, clock
<1>4. Session'
    BY <1>1, <1>2, <1>3 DEF Session
<1>5. Opening'
    BY <1>2, <1>3 DEF Opening
<1> QED
    BY <1>4, <1>5

\* A step of the exchange moves on in its own variables only.
LEMMA MoveKeeps ==
    ASSUME Session, stage' \in Talking \cup {"kill", "reap", "join", "done"},
           sending' \in {"no", "offer", "ack"}, replying' \in BOOLEAN, asked' \in BOOLEAN,
           opened' \in 0..Docs, ack' \in {"none", "written", "failed"},
           UNCHANGED <<provider, drained, ready, connected, child, orphan, noise, expired, overdue,
                       result, report>>
    PROVE  Session'
BY DEF Session

\* ... and what is left of the steps.
LEMMA SessionKeeps ==
    ASSUME TypeInv, [Next]_vars
    PROVE  Session' /\ Opening'
<1>0. Session /\ Opening /\ inbox \in Seq(Sane)
    BY DEF TypeInv, Carried
<1>1. inbox # <<>> => Head(inbox) \in Sane
    BY <1>0, QueueOf
<1>2. CASE Start
    BY <1>0, <1>2 DEF Start, Session, Opening, Talking, clock
<1>3. CASE CannotStart
    BY <1>0, <1>3 DEF CannotStart, Session, Opening, Talking, talk, writing, server, clock
<1>4. CASE Offer
    BY <1>0, <1>4 DEF Offer, Session, Opening, server, clock
<1>5. CASE Acknowledged
    <2>0. /\ stage \in Talking /\ sending = "ack" /\ ack' = "none"
          /\ UNCHANGED <<provider, drained, ready, connected, child, orphan, noise, expired,
                         overdue, result, report>>
        BY <1>5 DEF Acknowledged, server, clock
    <2>1. CASE /\ sending' = "no" /\ replying' = FALSE /\ asked' = (asked \/ ~replying)
               /\ UNCHANGED <<stage, opened>>
        <3>1. asked' \in BOOLEAN /\ replying' \in BOOLEAN
            BY <1>0, <2>1, Zenon DEF Session
        <3>2. Session'
            BY <1>0, <2>0, <2>1, <3>1, MoveKeeps DEF Session
        <3>3. Opening'
            BY <1>0, <2>1 DEF Opening
        <3> QED
            BY <3>2, <3>3
    <2>2. CASE ~replying /\ stage = "initialized" /\ Enter("drain") /\ UNCHANGED opened
        <3>1. /\ stage' = "drain" /\ sending' = "no" /\ replying' = FALSE /\ asked' = FALSE
              /\ opened' = opened
            BY <2>2 DEF Enter
        <3>2. Session'
            BY <1>0, <2>0, <3>1, MoveKeeps DEF Session, Talking
        <3>3. Opening'
            BY <1>0, <2>2, <3>1 DEF Opening
        <3> QED
            BY <3>2, <3>3
    <2>3. CASE /\ ~replying /\ stage = "open" /\ opened' = opened + 1
               /\ Enter(IF opened + 1 < Docs THEN "open"
                        ELSE IF provider = "other" THEN "references" ELSE "ready")
        <3>1. opened \in Nat /\ Docs \in Nat /\ opened < Docs
            BY <1>0, <2>3, SessionAssumption DEF Session, Opening
        <3>2. opened' \in 0..Docs
            BY <2>3, <3>1
        <3>3. stage' \in {"open", "references", "ready"} /\ (stage' = "open" => opened' < Docs)
            BY <2>3 DEF Enter
        <3>4. replying' = FALSE /\ asked' = FALSE /\ sending' \in {"offer", "no"}
              /\ (sending' # "no" => stage' \in {"open", "references"})
            BY <2>3, <3>3 DEF Enter
        <3>5. Session'
            BY <1>0, <2>0, <3>2, <3>3, <3>4, MoveKeeps DEF Talking
        <3>6. Opening'
            BY <3>3, <3>4 DEF Opening
        <3> QED
            BY <3>5, <3>6
    <2> QED
        BY <1>5, <2>1, <2>2, <2>3 DEF Acknowledged
<1>6. CASE AwaitAnswer
    <2>1. CASE \E v \in {"success", "not_applicable", "failed"} : Conclude(v)
        BY <1>0, <2>1, ConcludeKeeps
    <2>2. CASE Handle(Head(inbox)) /\ UNCHANGED drained
        <3>1. Head(inbox) \in Sane /\ drained' \in 0..MaxDrain
            BY <1>0, <1>1, <1>6, <2>2 DEF AwaitAnswer, Session
        <3> QED
            BY <1>0, <2>2, <3>1, HandleKeeps
    <2>3. CASE /\ stage = "initialize" /\ Enter("initialized")
               /\ UNCHANGED <<provider, opened, drained, ready, writing, connected, server, clock,
                              result, report>>
        <3>1. /\ stage' = "initialized" /\ sending' = "offer" /\ replying' = FALSE
              /\ asked' = FALSE
            BY <2>3 DEF Enter
        <3>2. UNCHANGED <<provider, opened, ack, drained, ready, connected, child, orphan, noise,
                          expired, overdue, result, report>>
            BY <2>3 DEF writing, server, clock
        <3>3. Session'
            BY <1>0, <3>1, <3>2, MoveKeeps DEF Session, Talking
        <3>4. Opening'
            BY <1>0, <2>3, <3>1, <3>2 DEF Opening
        <3> QED
            BY <3>3, <3>4
    <2> QED
        BY <1>6, <2>1, <2>2, <2>3 DEF AwaitAnswer
<1>7. CASE Drain
    <2>1. CASE Conclude("failed")
        BY <1>0, <2>1, ConcludeKeeps
    <2>2. CASE Handle(Head(inbox)) /\ drained' = drained + 1
        <3>1. Head(inbox) \in Sane /\ drained < MaxDrain
            BY <1>1, <1>7 DEF Drain, MayDrain
        <3>2. drained' \in 0..MaxDrain
            BY <1>0, <2>2, <3>1, SessionAssumption DEF Session
        <3> QED
            BY <1>0, <2>2, <3>1, <3>2, HandleKeeps
    <2> QED
        BY <1>7, <2>1, <2>2 DEF Drain
<1>8. CASE Reset
    <2>1. opened = 0 /\ Docs > 0
        BY <1>0, <1>8, SessionAssumption DEF Reset, Opening
    <2>2. ready' \in [busy: BOOLEAN, quiet: BOOLEAN, healthy: BOOLEAN, diagnosed: SUBSET (1..Docs)]
        BY <1>8 DEF Reset, NotReady
    <2>3. stage' = "open" /\ sending' = "offer" /\ replying' = FALSE /\ asked' = FALSE
        BY <1>8 DEF Reset, Enter
    <2>4. UNCHANGED <<provider, opened, drained, ack, connected, child, orphan, noise, expired,
                      overdue, result, report>>
        BY <1>8 DEF Reset, writing, server, clock
    <2>5. Opening'
        BY <1>0, <2>1, <2>3, <2>4, SessionAssumption DEF Opening, Session
    <2>6. Session'
        <3>1. stage' \in Talking \cup {"start", "kill", "reap", "join", "done"}
            BY <2>3 DEF Talking
        <3>2. sending' \in {"no", "offer", "ack"} /\ replying' \in BOOLEAN /\ asked' \in BOOLEAN
            BY <2>3
        <3> QED
            BY <1>0, <2>2, <2>4, <3>1, <3>2 DEF Session
    <2> QED
        BY <2>5, <2>6
<1>9. CASE AwaitReadiness
    <2>1. CASE Conclude("failed")
        BY <1>0, <2>1, ConcludeKeeps
    <2>2. CASE Handle(Head(inbox)) /\ UNCHANGED drained
        <3>1. Head(inbox) \in Sane /\ drained' \in 0..MaxDrain
            BY <1>0, <1>1, <1>9, <2>2 DEF AwaitReadiness, Session
        <3> QED
            BY <1>0, <2>2, <3>1, HandleKeeps
    <2> QED
        BY <1>9, <2>1, <2>2 DEF AwaitReadiness
<1>10. CASE Ready
    <2>1. CASE Conclude("failed")
        BY <1>0, <2>1, ConcludeKeeps
    <2>2. CASE /\ Enter("references")
               /\ UNCHANGED <<provider, opened, drained, ready, writing, connected, server, clock,
                              result, report>>
        <3>1. /\ stage' = "references" /\ sending' = "offer" /\ replying' = FALSE
              /\ asked' = FALSE
            BY <2>2 DEF Enter
        <3>2. UNCHANGED <<provider, opened, ack, drained, ready, connected, child, orphan, noise,
                          expired, overdue, result, report>>
            BY <2>2 DEF writing, server, clock
        <3>3. Session'
            BY <1>0, <3>1, <3>2, MoveKeeps DEF Session, Talking
        <3>4. Opening'
            BY <3>1 DEF Opening
        <3> QED
            BY <3>3, <3>4
    <2> QED
        BY <1>10, <2>1, <2>2 DEF Ready
<1>11. CASE GiveUp
    BY <1>0, <1>11, ConcludeKeeps DEF GiveUp
<1>12. CASE Kill \/ Reap \/ Join
    <2>1. /\ stage \in {"kill", "reap", "join"} /\ stage' \in {"reap", "join", "done"}
          /\ (child' = child \/ child' = "killed")
          /\ (result' = result \/ result' = "failed")
          /\ (report' = report \/ report' = result \/ report' = "failed")
          /\ UNCHANGED <<provider, sending, replying, asked, opened, drained, ready, ack, orphan,
                         noise, expired, overdue>>
        BY <1>12 DEF Kill, Reap, Join, DropQueues, Verdict, talk, writing, server, clock
    <2>4. connected' \in BOOLEAN
        BY <1>0, <1>12, Zenon DEF Kill, Reap, Join, DropQueues, Session
    <2>2. Session'
        BY <1>0, <2>1, <2>4 DEF Session, Talking
    <2>3. Opening'
        BY <1>0, <2>1 DEF Opening
    <2> QED
        BY <2>2, <2>3
<1>13. CASE Writer
    BY <1>0, <1>13 DEF Writer, WriterTakes, WriterWrites, WriterEnds, Acknowledge, Session, Opening,
                       talk, server, clock
<1>14. CASE Reader
    BY <1>0, <1>14 DEF Reader, ReaderReads, ReaderSends, Session, Opening, talk, writing, server,
                       clock
<1>15. CASE ServerReads \/ ServerWrites
    BY <1>0, <1>15 DEF ServerReads, ServerWrites, Session, Opening, talk, writing, clock
<1>16. CASE ServerSpeaks
    <2>1. noise' \in 0..MaxNoise
        BY <1>0, <1>16, SessionAssumption DEF ServerSpeaks, Session
    <2> QED
        BY <1>0, <1>16, <2>1 DEF ServerSpeaks, Session, Opening, talk, writing, clock
<1>17. CASE ProcessEnds \/ Expire \/ CleanupExpires
    <2>1. /\ (child' = child \/ child' = "dead")
          /\ UNCHANGED <<provider, stage, sending, replying, asked, opened, drained, ready, ack,
                         connected, noise, result, report>>
        BY <1>17 DEF ProcessEnds, Expire, CleanupExpires, talk, writing, server
    <2>4. orphan' \in BOOLEAN /\ expired' \in BOOLEAN /\ overdue' \in BOOLEAN
        BY <1>0, <1>17, Zenon DEF ProcessEnds, Expire, CleanupExpires, server, clock, Session
    <2>2. Session'
        BY <1>0, <2>1, <2>4 DEF Session
    <2>3. Opening'
        BY <1>0, <2>1 DEF Opening
    <2> QED
        BY <2>2, <2>3
<1>18. CASE UNCHANGED vars
    BY <1>0, <1>18 DEF vars, talk, writing, server, clock, Session, Opening
<1> QED
    BY <1>2, <1>3, <1>4, <1>5, <1>6, <1>7, <1>8, <1>9, <1>10, <1>11, <1>12, <1>13, <1>14, <1>15,
       <1>16, <1>17, <1>18 DEF Next, Query

\* A thread at work with a message is a thread.
LEMMA ThreadTypes ==
    ASSUME NEW m \in Seq(Message), Len(m) = 1, NEW a \in {"writing", "holding"}
    PROVE  LET busy == [at |-> a, message |-> m]
           IN  busy \in Thread /\ busy.at = a /\ busy.message = m /\ m # <<>>
BY EmptySeq DEF Thread

\* Queues, pipes and threads keep their bounds.
LEMMA BoundsKeep ==
    ASSUME TypeInv, [Next]_vars
    PROVE  Bounded'
<1>0. /\ Bounded /\ Carried(Sane)
      /\ outbox \in Seq(Sane) /\ stdin \in Seq(Sane) /\ owed \in Seq(Sane) /\ stdout \in Seq(Sane)
      /\ inbox \in Seq(Sane) /\ reader.message \in Seq(Sane) /\ writer.message \in Seq(Sane)
    BY DEF TypeInv, Carried
<1>1. \A q \in Seq(Sane) : q \in Seq(Message)
    BY DEF Sane
<1>2. /\ Idle \in Thread /\ Done \in Thread
      /\ Idle.at = "idle" /\ Idle.message = <<>> /\ Done.at = "done" /\ Done.message = <<>>
    BY EmptySeq DEF Thread, Idle, Done
<1>3. Len(<<>>) = 0
    BY EmptySeq
<1>4. Docs \in Nat /\ Pipe \in Nat /\ Inbox \in Nat
    BY SessionAssumption
<1>5. CASE Offer
    <2>1. Len(outbox') = 1
        BY <1>5 DEF Offer
    <2> QED
        BY <1>0, <1>5, <2>1 DEF Offer, Bounded, reading
<1>6. CASE AwaitAnswer \/ Drain \/ AwaitReadiness
    <2>1. inbox # <<>> /\ inbox' = Tail(inbox) /\ UNCHANGED <<stdout, reader>>
        BY <1>6 DEF AwaitAnswer, Drain, MayDrain, AwaitReadiness
    <2>2. Len(inbox') = Len(inbox) - 1 /\ Len(inbox) \in Nat
        BY <1>0, <2>1, QueueOf
    <2>3. Len(inbox') <= Inbox
        BY <1>0, <1>4, <2>2 DEF Bounded
    <2>4. UNCHANGED <<outbox, writer, stdin>>
        BY <1>6 DEF AwaitAnswer, Drain, AwaitReadiness, Conclude, Handle, writing
    <2> QED
        BY <1>0, <2>1, <2>3, <2>4 DEF Bounded
<1>7. CASE Start
    BY <1>0, <1>2, <1>3, <1>7 DEF Start, Bounded
<1>8. CASE CannotStart \/ Acknowledged \/ Reset \/ Ready \/ GiveUp \/ Kill \/ Join
    BY <1>0, <1>8 DEF CannotStart, Acknowledged, Reset, Ready, GiveUp, Kill, Join, Conclude, writing,
                reading, Bounded
<1>9. CASE Reap
    BY <1>0, <1>3, <1>4, <1>9 DEF Reap, DropQueues, writing, Bounded
<1>10. CASE WriterTakes
    <2>1. Len(outbox) = 1
        <3>1. Len(outbox) \in Nat /\ (Len(outbox) = 0 <=> outbox = <<>>)
            BY <1>0, QueueOf
        <3>2. Len(outbox) <= 1 /\ outbox # <<>>
            BY <1>0, <1>10 DEF WriterTakes, Bounded
        <3> QED
            BY <3>1, <3>2
    <2>2. writer' \in Thread /\ writer'.at = "writing" /\ writer'.message = outbox /\ outbox # <<>>
        BY <1>0, <1>1, <1>10, <2>1, ThreadTypes DEF WriterTakes
    <2>3. outbox' = <<>> /\ UNCHANGED <<stdin, stdout, inbox, reader>>
        BY <1>10 DEF WriterTakes, reading
    <2> QED
        <3>1. Len(outbox') = 0
            BY <1>3, <2>3
        <3>2. PICK w : w = writer'
            OBVIOUS
        <3>3. w \in Thread /\ w.at = "writing" /\ w.message # <<>> /\ Len(w.message) = 1
            BY <2>1, <2>2, <3>2
        <3> QED
            BY <1>0, <2>3, <3>1, <3>2, <3>3 DEF Bounded
<1>11. CASE WriterWrites
    <2>1. /\ writer' \in {Idle, Done} /\ UNCHANGED <<outbox, stdout, inbox, reader>>
          /\ \/ Len(stdin) < Pipe /\ stdin' = stdin \o writer.message
             \/ stdin' = stdin
        BY <1>11 DEF WriterWrites, reading
    <2>2. Len(stdin \o writer.message) = Len(stdin) + Len(writer.message)
          /\ Len(stdin) \in Nat /\ Len(writer.message) \in Nat
        BY <1>0, QueueOf
    <2>3. Len(stdin') <= Pipe
        BY <1>0, <1>4, <2>1, <2>2 DEF Bounded
    <2> QED
        BY <1>0, <1>2, <1>3, <2>1, <2>3 DEF Bounded
<1>12. CASE WriterEnds
    BY <1>0, <1>2, <1>3, <1>12 DEF WriterEnds, reading, Bounded
<1>13. CASE ReaderReads
    <2>1. UNCHANGED <<outbox, writer, stdin, inbox>>
        BY <1>13 DEF ReaderReads, writing
    <2>2. CASE /\ stdout # <<>> /\ reader' = [at |-> "holding", message |-> <<Head(stdout)>>]
               /\ stdout' = Tail(stdout)
        <3>1. Head(stdout) \in Sane /\ Len(Tail(stdout)) = Len(stdout) - 1 /\ Len(stdout) \in Nat
            BY <1>0, <2>2, QueueOf
        <3>2. <<Head(stdout)>> \in Seq(Message) /\ Len(<<Head(stdout)>>) = 1
            BY <1>1, <3>1, OneMessage
        <3>3. PICK m : m = <<Head(stdout)>>
            OBVIOUS
        <3>4. reader' \in Thread /\ reader'.at = "holding" /\ reader'.message = m /\ m # <<>> /\ Len(m) = 1
            BY <2>2, <3>2, <3>3, ThreadTypes
        <3>5. Len(stdout') <= Pipe
            BY <1>0, <1>4, <2>2, <3>1 DEF Bounded
        <3> QED
            BY <1>0, <2>1, <3>4, <3>5 DEF Bounded
    <2>3. CASE reader' = Done /\ UNCHANGED stdout
        BY <1>0, <1>2, <1>3, <2>1, <2>3 DEF Bounded
    <2> QED
        BY <1>13, <2>2, <2>3 DEF ReaderReads
<1>14. CASE ReaderSends
    <2>1. /\ reader' \in {Idle, Done} /\ UNCHANGED <<outbox, writer, stdin, stdout>>
          /\ \/ Len(inbox) < Inbox /\ inbox' = inbox \o reader.message
             \/ inbox' = inbox
        BY <1>14 DEF ReaderSends, writing
    <2>2. Len(inbox \o reader.message) = Len(inbox) + Len(reader.message)
          /\ Len(inbox) \in Nat /\ Len(reader.message) \in Nat
        BY <1>0, QueueOf
    <2>3. Len(inbox') <= Inbox
        BY <1>0, <1>4, <2>1, <2>2 DEF Bounded
    <2> QED
        BY <1>0, <1>2, <1>3, <2>1, <2>3 DEF Bounded
<1>15. CASE ServerReads
    <2>1. Len(Tail(stdin)) = Len(stdin) - 1 /\ Len(stdin) \in Nat
        BY <1>0, <1>15, QueueOf DEF ServerReads
    <2>2. Len(stdin') <= Pipe
        BY <1>0, <1>4, <1>15, <2>1 DEF ServerReads, Bounded
    <2> QED
        BY <1>0, <1>15, <2>2 DEF ServerReads, reading, Bounded
<1>16. CASE ServerWrites \/ ServerSpeaks
    <2>1. PICK m \in Sane : stdout' = Append(stdout, m)
        <3>1. owed # <<>> => Head(owed) \in Sane
            BY <1>0, QueueOf
        <3> QED
            BY <1>16, <3>1, SaneSpoken DEF ServerWrites, ServerSpeaks, Spoken
    <2>2. Len(stdout') = Len(stdout) + 1 /\ Len(stdout) \in Nat /\ Len(stdout) < Pipe
        BY <1>0, <1>16, <2>1, QueueOf DEF ServerWrites, ServerSpeaks
    <2>3. Len(stdout') <= Pipe
        BY <1>4, <2>2
    <2> QED
        BY <1>0, <1>16, <2>3 DEF ServerWrites, ServerSpeaks, writing, Bounded
<1>17. CASE ProcessEnds \/ Expire \/ CleanupExpires \/ UNCHANGED vars
    BY <1>0, <1>17 DEF ProcessEnds, Expire, CleanupExpires, vars, writing, reading, Bounded
<1> QED
    BY <1>5, <1>6, <1>7, <1>8, <1>9, <1>10, <1>11, <1>12, <1>13, <1>14, <1>15, <1>16, <1>17
       DEF Next, Query, Writer, Reader

LEMMA StepTypes == TypeInv /\ [Next]_vars => TypeInv'
<1> SUFFICES ASSUME TypeInv, [Next]_vars PROVE TypeInv'
    OBVIOUS
<1>1. Offer => Offered \in Sane
    BY OfferedSane DEF TypeInv
<1>2. Carried(Sane)'
    BY <1>1, SaneSpoken, CarriedOn DEF TypeInv
<1> QED
    BY <1>2, SessionKeeps, BoundsKeep DEF TypeInv

\* Every variable keeps its type and every queue its bound, whatever the server
\* says and however often: no step puts a second message in the writer's queue
\* of one or leaves a thread resting on a message it has not passed on.
THEOREM SessionTypes == Spec => []TypeOK
BY InitTypes, StepTypes, TypesHold, PTL DEF Spec

-----------------------------------------------------------------------------
(* A server that keeps the protocol.                                       *)

\* What such a server and the session say.
Polite == {m \in Message : m.kind \notin {"garbage", "error", "unsupported", "unhealthy"}}

LEMMA PoliteSpoken ==
    ASSUME Faults = {}
    PROVE  Spoken(Polite)
<1>1. ASSUME NEW m \in Unasked PROVE m \in Polite
    <2>1. m \in {Msg("request", 1), Msg("request", 2), Msg("busy", 0), Msg("quiet", 0)}
        BY DEF Unasked
    <2> QED
        BY <2>1 DEF Msg, Polite, Message
<1>2. ASSUME NEW m \in Polite PROVE Owes(m) \in Seq(Polite)
    <2>1. m.id \in Nat
        BY DEF Polite, Message
    <2>2. /\ Msg("answer", m.id) \in Polite /\ Msg("diagnostics", m.id) \in Polite
          /\ Msg("busy", 0) \in Polite /\ Msg("quiet", 0) \in Polite
        BY <2>1 DEF Msg, Polite, Message
    <2>3. CASE m.kind \in {"initialize", "references"}
        BY <2>2, <2>3 DEF Owes
    <2>4. CASE m.kind = "open"
        BY <2>2, <2>4 DEF Owes
    <2>5. CASE m.kind \notin {"initialize", "references", "open"}
        BY <2>5 DEF Owes
    <2> QED
        BY <2>3, <2>4, <2>5
<1> QED
    BY <1>1, <1>2 DEF Spoken

\* While the exchange goes on, the process and both threads do; what has failed
\* so far has failed for lack of time.
Serving ==
    /\ stage \in Talking =>
          child = "alive" /\ connected /\ writer.at # "done" /\ reader.at # "done" /\ ack # "failed"
    /\ stage = "start" => ack = "none" /\ sending = "no"
    /\ ready.quiet => ready.healthy
    /\ result = "failed" \/ report = "failed" => expired \/ overdue

ServeInv == TypeInv /\ Carried(Polite) /\ Serving

LEMMA InitServe == Init => ServeInv
<1> SUFFICES ASSUME Init PROVE ServeInv
    OBVIOUS
<1>1. Carried(Polite)
    BY EmptySeq DEF Init, Done, Carried
<1>2. Serving
    BY DEF Init, Serving, Talking, NotReady
<1> QED
    BY <1>1, <1>2, InitTypes DEF ServeInv

\* What is offered is polite.
LEMMA OfferedPolite ==
    ASSUME Opening, Session, Offer
    PROVE  Offered \in Polite
<1>1. Offered \in Message
    BY OfferedSane DEF Sane
<1>2. ~replying => stage \in {"initialize", "initialized", "open", "references"}
    BY DEF Opening, Offer
<1>3. Offered.kind = IF replying THEN "reply" ELSE stage
    BY DEF Offered, Msg
<1>4. Offered.kind \in {"reply", "initialize", "initialized", "open", "references"}
    BY <1>2, <1>3
<1> QED
    BY <1>1, <1>4 DEF Polite

\* An exchange that has not run out of time ends well.
LEMMA VerdictKeeps ==
    ASSUME Serving, stage \in Talking, NEW v, Conclude(v), v = "failed" => expired
    PROVE  Serving'
BY DEF Conclude, Serving, Talking, NotReady, clock

LEMMA HandleServes ==
    ASSUME Serving, TypeInv, stage \in Talking, NEW m \in Polite, Handle(m), UNCHANGED reader
    PROVE  Serving'
<1>1. ready'.quiet => ready'.healthy
    <2>1. ready' = Noted(m) /\ m.kind # "unhealthy"
        BY DEF Handle, Polite
    <2>2. ready \in [busy: BOOLEAN, quiet: BOOLEAN, healthy: BOOLEAN, diagnosed: SUBSET (1..Docs)]
          /\ (ready.quiet => ready.healthy)
        BY DEF TypeInv, Session, Serving
    <2>3. CASE m.kind = "busy"
        BY <2>1, <2>2, <2>3 DEF Noted
    <2>4. CASE m.kind = "quiet"
        BY <2>1, <2>2, <2>4 DEF Noted
    <2>5. CASE m.kind \notin {"busy", "quiet"}
        <3>1. ready'.quiet = ready.quiet /\ ready'.healthy = ready.healthy
            BY <2>1, <2>2, <2>5 DEF Noted
        <3> QED
            BY <2>2, <3>1
    <2> QED
        BY <2>3, <2>4, <2>5
<1>2. UNCHANGED <<stage, child, connected, writer, reader, ack, result, report, expired, overdue>>
    BY DEF Handle, writing, server, clock
<1> QED
    BY <1>1, <1>2 DEF Serving, Talking

\* The querying thread.
LEMMA QueryServes ==
    ASSUME ServeInv, Faults = {}, Query
    PROVE  Serving'
<1>0. Serving /\ TypeInv /\ inbox \in Seq(Polite)
    BY DEF ServeInv, Carried
<1>1. inbox # <<>> => Head(inbox) \in Polite /\ Head(inbox).kind \notin {"garbage", "error", "unsupported"}
    <2>1. inbox # <<>> => Head(inbox) \in Polite
        BY <1>0, QueueOf
    <2> QED
        BY <2>1 DEF Polite
<1>2. CASE Start
    BY <1>0, <1>2 DEF Start, Serving, Talking, Idle, clock
<1>3. CASE CannotStart
    BY <1>0, <1>3 DEF CannotStart, Serving, Talking, talk, writing, reading, server, clock
<1>4. CASE Offer
    BY <1>0, <1>4 DEF Offer, Serving, reading, server, clock
<1>5. CASE Acknowledged
    <2>1. stage \in Talking /\ stage' \in Talking /\ ack' = "none"
        BY <1>5 DEF Acknowledged, Enter, Talking
    <2>2. UNCHANGED <<ready, child, connected, writer, reader, result, report, expired, overdue>>
        BY <1>5 DEF Acknowledged, reading, server, clock
    <2> QED
        BY <1>0, <2>1, <2>2 DEF Serving, Talking
<1>6. CASE AwaitAnswer
    <2>1. stage \in Talking /\ inbox # <<>> /\ UNCHANGED reader
        BY <1>6 DEF AwaitAnswer, Talking
    <2>2. PICK m \in Polite : m = Head(inbox) /\ m.kind \notin {"garbage", "error", "unsupported"}
        BY <1>1, <2>1
    <2>3. \/ /\ Enter("initialized")
             /\ UNCHANGED <<ready, child, connected, writer, ack, result, report, expired, overdue>>
          \/ Conclude("success")
          \/ Handle(m)
        BY <1>6, <2>2 DEF AwaitAnswer, IsAnswer, writing, server, clock
    <2>4. CASE Enter("initialized")
               /\ UNCHANGED <<ready, child, connected, writer, ack, result, report, expired, overdue>>
        BY <1>0, <2>1, <2>4 DEF Serving, Enter, Talking
    <2>5. CASE Conclude("success")
        BY <1>0, <2>1, <2>5, VerdictKeeps
    <2>6. CASE Handle(m)
        BY <1>0, <2>1, <2>6, HandleServes
    <2> QED
        BY <2>3, <2>4, <2>5, <2>6
<1>7. CASE Drain \/ AwaitReadiness
    <2>1. stage \in Talking /\ inbox # <<>> /\ UNCHANGED reader
        BY <1>7 DEF Drain, MayDrain, AwaitReadiness, Talking
    <2>2. Handle(Head(inbox))
        BY <1>1, <1>7, <2>1 DEF Drain, AwaitReadiness
    <2> QED
        BY <1>0, <1>1, <2>1, <2>2, HandleServes
<1>8. CASE Reset
    <2>1. stage \in Talking /\ stage' = "open" /\ ready' = NotReady
        BY <1>8 DEF Reset, Enter, Talking
    <2>2. UNCHANGED <<child, connected, writer, reader, ack, result, report, expired, overdue>>
        BY <1>8 DEF Reset, writing, reading, server, clock
    <2> QED
        BY <1>0, <2>1, <2>2 DEF Serving, NotReady, Talking
<1>9. CASE Ready
    <2>1. stage \in Talking /\ ~Unwell
        BY <1>0, <1>9 DEF Ready, Unwell, Serving, Talking
    <2>2. Enter("references")
          /\ UNCHANGED <<ready, child, connected, writer, reader, ack, result, report, expired, overdue>>
        BY <1>9, <2>1 DEF Ready, writing, reading, server, clock
    <2> QED
        BY <1>0, <2>1, <2>2 DEF Serving, Enter, Talking
<1>10. CASE GiveUp
    <2>1. stage \in Talking /\ Conclude("failed") /\ expired
        BY <1>0, <1>10 DEF GiveUp, Broken, Serving
    <2> QED
        BY <1>0, <2>1, VerdictKeeps
<1>11. CASE Kill
    BY <1>0, <1>11 DEF Kill, Serving, Talking, talk, writing, reading, clock
<1>12. CASE Reap
    BY <1>0, <1>12 DEF Reap, Serving, Talking, talk, clock
<1>13. CASE Join
    BY <1>0, <1>13 DEF Join, Verdict, Serving, Talking, talk, clock
<1> QED
    BY <1>2, <1>3, <1>4, <1>5, <1>6, <1>7, <1>8, <1>9, <1>10, <1>11, <1>12, <1>13 DEF Query

\* The threads, the server and the clock.
LEMMA OthersServe ==
    ASSUME ServeInv, Faults = {},
           \/ Writer \/ Reader \/ ServerReads \/ ServerWrites \/ ServerSpeaks
           \/ ProcessEnds \/ Expire \/ CleanupExpires \/ UNCHANGED vars
    PROVE  Serving'
<1>0. Serving /\ TypeInv /\ reader.message \in Seq(Polite)
    BY DEF ServeInv, Carried
<1>1. stage \in Talking => PipesHeld /\ connected
    BY <1>0 DEF Serving, PipesHeld
<1>3. CASE Writer
    <2>1. UNCHANGED <<stage, ready, child, connected, reader, result, report, expired, overdue>>
        BY <1>3 DEF Writer, WriterTakes, WriterWrites, WriterEnds, talk, reading, server, clock
    <2>2. stage \in Talking => writer'.at # "done" /\ ack' # "failed"
        <3> SUFFICES ASSUME stage \in Talking PROVE writer'.at # "done" /\ ack' # "failed"
            OBVIOUS
        <3>1. PipesHeld /\ connected /\ ack # "failed"
            BY <1>0, <1>1 DEF Serving
        <3>2. CASE WriterTakes
            BY <3>1, <3>2 DEF WriterTakes
        <3>3. CASE WriterWrites
            <4>1. writer' = Idle /\ ack' \in {"written", ack}
                BY <3>1, <3>3 DEF WriterWrites, Acknowledge
            <4> QED
                BY <3>1, <4>1 DEF Idle
        <3> QED
            BY <1>3, <3>1, <3>2, <3>3 DEF Writer, WriterEnds
    <2>3. stage = "start" => ack' = "none" /\ sending' = "no"
        <3>1. UNCHANGED sending /\ (sending = "no" => UNCHANGED ack)
            BY <1>3 DEF Writer, WriterTakes, WriterWrites, WriterEnds, Acknowledge, talk
        <3> QED
            BY <1>0, <3>1 DEF Serving
    <2> QED
        BY <1>0, <2>1, <2>2, <2>3 DEF Serving
<1>4. CASE Reader
    <2>1. UNCHANGED <<stage, ready, child, connected, writer, ack, result, report, expired, overdue>>
        BY <1>4 DEF Reader, ReaderReads, ReaderSends, talk, writing, server, clock
    <2>2. reader.at = "holding" => Head(reader.message).kind # "garbage"
        <3>1. reader.at = "holding" => reader.message # <<>>
            BY <1>0 DEF TypeInv, Bounded
        <3>2. reader.message # <<>> => Head(reader.message) \in Polite
            BY <1>0, QueueOf
        <3> QED
            BY <3>1, <3>2 DEF Polite
    <2>3. stage \in Talking => reader'.at # "done"
        <3> SUFFICES ASSUME stage \in Talking PROVE reader'.at # "done"
            OBVIOUS
        <3>1. PipesHeld /\ connected
            BY <1>1
        <3>2. CASE ReaderReads
            <4>1. reader' = [at |-> "holding", message |-> <<Head(stdout)>>]
                BY <3>1, <3>2 DEF ReaderReads
            <4> QED
                BY <4>1
        <3>3. CASE ReaderSends
            <4>1. reader' = Idle
                BY <2>2, <3>1, <3>3 DEF ReaderSends
            <4> QED
                BY <4>1 DEF Idle
        <3> QED
            BY <1>4, <3>2, <3>3 DEF Reader
    <2>4. UNCHANGED sending
        BY <1>4 DEF Reader, ReaderReads, ReaderSends, talk
    <2> QED
        BY <1>0, <2>1, <2>3, <2>4 DEF Serving
<1>5. CASE ServerReads \/ ServerWrites \/ ServerSpeaks \/ UNCHANGED vars
    BY <1>0, <1>5 DEF ServerReads, ServerWrites, ServerSpeaks, vars, talk, writing, reading, server,
                      clock, Serving
<1>6. CASE ProcessEnds
    <2>1. stage \notin Talking
        BY <1>0, <1>6 DEF ProcessEnds, Serving
    <2> QED
        BY <1>0, <1>6, <2>1 DEF ProcessEnds, talk, writing, reading, clock, Serving
<1>7. CASE Expire \/ CleanupExpires
    BY <1>0, <1>7 DEF Expire, CleanupExpires, talk, writing, reading, server, Serving
<1> QED
    BY <1>3, <1>4, <1>5, <1>6, <1>7

LEMMA StepServes ==
    ASSUME Faults = {}
    PROVE  ServeInv /\ [Next]_vars => ServeInv'
<1> SUFFICES ASSUME ServeInv, [Next]_vars PROVE ServeInv'
    OBVIOUS
<1>1. TypeInv'
    BY StepTypes DEF ServeInv
<1>2. Carried(Polite)'
    <2>1. Offer => Offered \in Polite
        BY OfferedPolite DEF ServeInv, TypeInv
    <2> QED
        BY <2>1, PoliteSpoken, CarriedOn DEF ServeInv
<1>3. Serving'
    BY QueryServes, OthersServe DEF Next
<1> QED
    BY <1>1, <1>2, <1>3 DEF ServeInv

\* With a server that keeps the protocol a session fails for lack of time and
\* for nothing else: however its requests, notifications and answers interleave
\* with ours, no thread ends early and no answer is taken for an error
\* (lsp.rs, request and finish).
THEOREM FailsForTime ==
    ASSUME Faults = {}
    PROVE  Spec => []FailsOnlyInTime
<1>1. ServeInv => FailsOnlyInTime
    BY DEF ServeInv, Serving, FailsOnlyInTime
<1> QED
    BY <1>1, InitServe, StepServes, PTL DEF Spec

=============================================================================
