------------------------------ MODULE LspSession ------------------------------
(***************************************************************************)
(* One query_references: the querying thread starts a language server,     *)
(* speaks with it through a writer and a reader thread, waits until the    *)
(* server is ready, asks for references, then kills the process and waits  *)
(* for the threads.  Every queue and pipe in between is bounded, and the   *)
(* server may do anything.                                                 *)
(*                                                                         *)
(* The two deadlines are events that can strike at any moment.  Each step  *)
(* of the querying thread looks at the clock first, so a step that begins  *)
(* before the deadline is ordered before it.                               *)
(***************************************************************************)
EXTENDS Integers, Sequences

CONSTANTS
    Provider,   \* the servers a session may be with
    Docs,       \* how many documents are opened
    Pipe,       \* messages an operating-system pipe holds
    Inbox,      \* the reader's queue, 4 in the code
    MaxDrain,   \* messages dropped before priming, 16 in the code
    Faults,     \* what a faulty server or system may do
    Deadline,   \* whether the two deadlines ever strike
    MaxNoise    \* bound on what a server says unasked

ASSUME SessionAssumption ==
    /\ Provider \subseteq {"rust-analyzer", "clangd", "other"}
    /\ Docs \in Nat \ {0} /\ Pipe \in Nat \ {0} /\ Inbox \in Nat \ {0}
    /\ MaxDrain \in Nat /\ MaxNoise \in Nat /\ Deadline \in BOOLEAN
    /\ Faults \subseteq {"absent", "exit", "garbage", "error", "unsupported",
                         "unhealthy", "orphan"}

VARIABLES
    provider,   \* this session's
    stage,      \* where query_references is
    sending,    \* where its send() is
    replying,   \* whether that message answers a request of the server
    asked,      \* whether the request of this stage has been written
    opened,     \* documents opened so far
    drained,    \* messages taken by prepare_readiness
    ready,      \* what the server said of its readiness
    outbox,     \* the writer's queue
    ack,        \* the writer's word on the message being sent
    writer,     \* the writer thread and its message
    stdin,      \* the pipe to the server
    stdout,     \* the pipe from the server
    reader,     \* the reader thread and its message
    inbox,      \* the reader's queue
    connected,  \* whether the session holds its ends of both queues
    child,      \* the server process
    orphan,     \* whether a descendant of it holds the pipes
    owed,       \* what the server has yet to write
    noise,      \* bound counter
    expired,    \* the session's deadline
    overdue,    \* the cleanup deadline
    result,     \* what the exchange came to
    report      \* what query_references returns

talk    == <<sending, replying, asked, opened, drained, ready>>
writing == <<outbox, ack, writer, stdin>>
reading == <<stdout, reader, inbox>>
server  == <<child, orphan, owed, noise>>
clock   == <<expired, overdue>>
vars    == <<provider, stage, talk, writing, reading, connected, server, clock, result, report>>

Message == [kind: {"initialize", "initialized", "open", "references", "reply",
                   "answer", "error", "unsupported", "request", "busy", "quiet",
                   "unhealthy", "diagnostics", "garbage"},
            id: Nat]

Msg(kind, id) == [kind |-> kind, id |-> id]

Talking == {"initialize", "initialized", "drain", "open", "ready", "references"}

NotReady == [busy |-> FALSE, quiet |-> FALSE, healthy |-> FALSE, diagnosed |-> {}]

Idle == [at |-> "idle", message |-> <<>>]

Done == [at |-> "done", message |-> <<>>]

\* The ids of the two requests.
IdOf(s) == IF s = "initialize" THEN 1 ELSE 2

Init ==
    /\ provider \in Provider
    /\ stage = "start"
    /\ sending = "no" /\ replying = FALSE /\ asked = FALSE
    /\ opened = 0 /\ drained = 0 /\ ready = NotReady
    /\ outbox = <<>> /\ ack = "none" /\ writer = Done /\ stdin = <<>>
    /\ stdout = <<>> /\ reader = Done /\ inbox = <<>>
    /\ connected = FALSE
    /\ child = "none" /\ orphan = FALSE /\ owed = <<>> /\ noise = 0
    /\ expired = FALSE /\ overdue = FALSE
    /\ result = "none" /\ report = "none"

-----------------------------------------------------------------------------
(* The querying thread.                                                    *)

\* LspClient::start: the process and the two threads.
Start ==
    /\ stage = "start" /\ ~expired
    /\ stage' = "initialize"
    /\ sending' = "offer"
    /\ child' = "alive"
    /\ reader' = Idle /\ writer' = Idle /\ connected' = TRUE
    /\ UNCHANGED <<provider, replying, asked, opened, drained, ready, outbox, ack,
                   stdin, stdout, inbox, orphan, owed, noise, clock, result, report>>

\* No such command, or no time left to start it.
CannotStart ==
    /\ stage = "start"
    /\ expired \/ "absent" \in Faults
    /\ stage' = "done"
    /\ report' = IF expired THEN "failed" ELSE "unavailable"
    /\ UNCHANGED <<provider, talk, writing, reading, connected, server, clock, result>>

\* The exchange is over, its locals are gone, and finish() begins.
Conclude(verdict) ==
    /\ stage' = "kill"
    /\ result' = verdict
    /\ sending' = "no" /\ replying' = FALSE /\ asked' = FALSE
    /\ opened' = 0 /\ drained' = 0 /\ ready' = NotReady
    /\ ack' = "none"
    /\ UNCHANGED <<provider, outbox, writer, stdin, connected, server, clock, report>>

\* The stage's message, or the next document, is to be sent.
Enter(s) ==
    /\ stage' = s
    /\ sending' = IF s \in {"initialized", "open", "references"} THEN "offer" ELSE "no"
    /\ replying' = FALSE
    /\ asked' = FALSE

\* send(): try_send until the writer's queue of one has room.
Offer ==
    /\ stage \in Talking /\ sending = "offer" /\ ~expired
    /\ writer.at # "done" /\ outbox = <<>>
    /\ outbox' = <<Msg(IF replying THEN "reply" ELSE stage,
                       IF stage = "open" THEN opened + 1 ELSE IdOf(stage))>>
    /\ sending' = "ack"
    /\ UNCHANGED <<provider, stage, replying, asked, opened, drained, ready, ack, writer,
                   stdin, reading, connected, server, clock, result, report>>

\* The writer's acknowledgement: a reply returns to its loop, a request waits
\* for its answer, a notification is followed by what comes next.
Acknowledged ==
    /\ stage \in Talking /\ sending = "ack" /\ ~expired
    /\ ack = "written"
    /\ ack' = "none"
    /\ \/ /\ replying \/ stage \in {"initialize", "references"}
          /\ sending' = "no" /\ replying' = FALSE
          /\ asked' = (asked \/ ~replying)
          /\ UNCHANGED <<stage, opened>>
       \/ /\ ~replying /\ stage = "initialized"
          /\ Enter("drain") /\ UNCHANGED opened
       \/ /\ ~replying /\ stage = "open"
          /\ opened' = opened + 1
          /\ Enter(IF opened + 1 < Docs THEN "open"
                   ELSE IF provider = "other" THEN "references" ELSE "ready")
    /\ UNCHANGED <<provider, drained, ready, outbox, writer, stdin, reading, connected,
                   server, clock, result, report>>

\* Mutant: whether the server is busy, not whether it has been.
NotedBusyNow(m) ==
    CASE m.kind = "busy"      -> [ready EXCEPT !.busy = TRUE, !.quiet = FALSE]
      [] m.kind = "quiet"     -> [ready EXCEPT !.busy = FALSE, !.quiet = TRUE, !.healthy = TRUE]
      [] m.kind = "diagnostics" /\ stage = "ready"
                              -> [ready EXCEPT !.diagnosed = @ \cup {m.id}]
      [] OTHER                -> ready

\* What the server says unasked, by server_request.
Noted(m) ==
    CASE m.kind = "busy"      -> [ready EXCEPT !.busy = TRUE, !.quiet = FALSE]
      [] m.kind = "quiet"     -> [ready EXCEPT !.quiet = TRUE, !.healthy = TRUE]
      [] m.kind = "unhealthy" -> [ready EXCEPT !.quiet = TRUE, !.healthy = FALSE]
      [] m.kind = "diagnostics" /\ stage = "ready"
                              -> [ready EXCEPT !.diagnosed = @ \cup {m.id}]
      [] OTHER                -> ready

\* A message that does not end the wait: a request is replied to, a
\* notification is noted, an answer nobody waits for is dropped.
Handle(m) ==
    /\ ready' = Noted(m)
    /\ sending' = IF m.kind = "request" THEN "offer" ELSE "no"
    /\ replying' = (m.kind = "request")
    /\ UNCHANGED <<provider, stage, asked, opened, writing, connected, server, clock, result,
                   report>>

\* Mutant: the id is compared before the method is looked at.
IsAnswerById(m) ==
    m.kind \in {"answer", "error", "unsupported", "request"} /\ m.id = IdOf(stage)

\* A request of the server may carry the id of ours; its method tells.
IsAnswer(m) == m.kind \in {"answer", "error", "unsupported"} /\ m.id = IdOf(stage)

\* request(): the answer to this request, or something else in between.
AwaitAnswer ==
    /\ stage \in {"initialize", "references"} /\ asked /\ sending = "no" /\ ~expired
    /\ inbox # <<>>
    /\ inbox' = Tail(inbox)
    /\ UNCHANGED <<stdout, reader>>
    /\ LET m == Head(inbox)
       IN  \/ m.kind = "garbage" /\ Conclude("failed")
           \/ /\ IsAnswer(m) /\ stage = "initialize" /\ m.kind = "answer"
              /\ Enter("initialized")
              /\ UNCHANGED <<provider, opened, drained, ready, writing, connected, server, clock,
                             result, report>>
           \/ /\ IsAnswer(m) /\ stage = "references" /\ m.kind = "answer"
              /\ Conclude("success")
           \/ IsAnswer(m) /\ m.kind = "unsupported" /\ Conclude("not_applicable")
           \/ IsAnswer(m) /\ m.kind \notin {"answer", "unsupported"} /\ Conclude("failed")
           \/ m.kind # "garbage" /\ ~IsAnswer(m) /\ Handle(m) /\ UNCHANGED drained

\* Mutant: as long as anything is queued.
MayDrainAny == inbox # <<>>

MayDrain == drained < MaxDrain /\ inbox # <<>>

\* prepare_readiness takes what is queued, up to a bound ...
Drain ==
    /\ stage = "drain" /\ sending = "no" /\ ~expired
    /\ MayDrain
    /\ inbox' = Tail(inbox)
    /\ UNCHANGED <<stdout, reader>>
    /\ \/ Head(inbox).kind # "garbage" /\ Handle(Head(inbox)) /\ drained' = drained + 1
       \/ Head(inbox).kind = "garbage" /\ Conclude("failed")

\* ... and forgets what it has heard so far.
Reset ==
    /\ stage = "drain" /\ sending = "no" /\ ~expired
    /\ drained = MaxDrain \/ (inbox = <<>> /\ reader.at # "done")
    /\ ready' = NotReady
    /\ Enter("open")
    /\ UNCHANGED <<provider, opened, drained, writing, reading, connected, server, clock,
                   result, report>>

IsReady ==
    \/ provider = "clangd" /\ ready.diagnosed = 1..Docs
    \/ provider = "rust-analyzer" /\ ready.busy /\ ready.quiet /\ ready.healthy

Unwell == provider = "rust-analyzer" /\ ready.busy /\ ready.quiet /\ ~ready.healthy

\* wait_for_readiness.
AwaitReadiness ==
    /\ stage = "ready" /\ sending = "no" /\ ~expired
    /\ ~IsReady /\ ~Unwell /\ inbox # <<>>
    /\ inbox' = Tail(inbox)
    /\ UNCHANGED <<stdout, reader>>
    /\ \/ Head(inbox).kind # "garbage" /\ Handle(Head(inbox)) /\ UNCHANGED drained
       \/ Head(inbox).kind = "garbage" /\ Conclude("failed")

Ready ==
    /\ stage = "ready" /\ sending = "no"
    /\ \/ /\ IsReady
          /\ Enter("references")
          /\ UNCHANGED <<provider, opened, drained, ready, writing, connected, server, clock,
                         result, report>>
       \/ Unwell /\ Conclude("failed")
    /\ UNCHANGED reading

\* Mutant: the deadline only ends waits for the server's word.
BrokenStream ==
    \/ sending = "offer" /\ writer.at = "done"
    \/ sending = "ack" /\ ack = "failed"
    \/ sending = "no" /\ (expired \/ (inbox = <<>> /\ reader.at = "done"))

\* Why the exchange cannot go on: no time, or a thread that has ended.
Broken ==
    \/ expired
    \/ sending = "offer" /\ writer.at = "done"
    \/ sending = "ack" /\ ack = "failed"
    \/ /\ sending = "no" /\ inbox = <<>> /\ reader.at = "done"
       /\ stage = "drain" => drained < MaxDrain
       /\ stage = "ready" => ~IsReady /\ ~Unwell

GiveUp ==
    /\ stage \in Talking /\ Broken
    /\ Conclude("failed")
    /\ UNCHANGED reading

\* terminate_process_tree sends SIGKILL to the process group ...
Kill ==
    /\ stage = "kill"
    /\ stage' = "reap"
    /\ child' = IF child = "alive" THEN "killed" ELSE child
    /\ UNCHANGED <<provider, talk, writing, reading, connected, orphan, owed, noise, clock,
                   result, report>>

\* Mutant: the threads are waited for with both queues still held.
HoldQueues == UNCHANGED <<connected, inbox>>

\* What lies in the reader's queue is lost with its receiver.
DropQueues == connected' = FALSE /\ inbox' = <<>>

\* ... and waits for the process; then both queues are disconnected, or the
\* threads could be blocked on them.
Reap ==
    /\ stage = "reap"
    /\ child = "dead" \/ overdue
    /\ stage' = "join"
    /\ result' = IF child = "dead" THEN result ELSE "failed"
    /\ DropQueues
    /\ UNCHANGED <<provider, talk, writing, stdout, reader, server, clock, report>>

ThreadsDone == reader.at = "done" /\ writer.at = "done"

\* Mutant: threads that go on are not reported.
VerdictOfExchange == result

Verdict == IF ThreadsDone THEN result ELSE "failed"

Join ==
    /\ stage = "join"
    /\ ThreadsDone \/ overdue
    /\ stage' = "done"
    /\ report' = Verdict
    /\ UNCHANGED <<provider, talk, writing, reading, connected, server, clock, result>>

Query ==
    \/ Start \/ CannotStart
    \/ Offer \/ Acknowledged \/ AwaitAnswer \/ Drain \/ Reset \/ AwaitReadiness \/ Ready
    \/ GiveUp \/ Kill \/ Reap \/ Join

-----------------------------------------------------------------------------
(* The two threads.                                                        *)

PipesHeld == child \in {"alive", "killed"} \/ orphan

WriterTakes ==
    /\ writer.at = "idle" /\ outbox # <<>>
    /\ writer' = [at |-> "writing", message |-> outbox]
    /\ outbox' = <<>>
    /\ UNCHANGED <<provider, stage, talk, ack, stdin, reading, connected, server, clock,
                   result, report>>

\* The acknowledgement of a message nobody waits for any more is dropped.
Acknowledge(word) == ack' = IF sending = "ack" THEN word ELSE ack

WriterWrites ==
    /\ writer.at = "writing"
    /\ \/ /\ PipesHeld /\ Len(stdin) < Pipe
          /\ stdin' = stdin \o writer.message
          /\ writer' = Idle
          /\ Acknowledge("written")
       \/ /\ ~PipesHeld
          /\ writer' = Done
          /\ Acknowledge("failed")
          /\ UNCHANGED stdin
    /\ UNCHANGED <<provider, stage, talk, outbox, reading, connected, server, clock,
                   result, report>>

WriterEnds ==
    /\ writer.at = "idle" /\ outbox = <<>> /\ ~connected
    /\ writer' = Done
    /\ UNCHANGED <<provider, stage, talk, outbox, ack, stdin, reading, connected, server,
                   clock, result, report>>

ReaderReads ==
    /\ reader.at = "idle"
    /\ \/ /\ stdout # <<>>
          /\ reader' = [at |-> "holding", message |-> <<Head(stdout)>>]
          /\ stdout' = Tail(stdout)
       \/ /\ stdout = <<>> /\ ~PipesHeld
          /\ reader' = Done
          /\ UNCHANGED stdout
    /\ UNCHANGED <<provider, stage, talk, writing, inbox, connected, server, clock,
                   result, report>>

\* A message that is none is the last the reader passes on.
ReaderSends ==
    /\ reader.at = "holding"
    /\ \/ /\ connected /\ Len(inbox) < Inbox
          /\ inbox' = inbox \o reader.message
          /\ reader' = IF Head(reader.message).kind = "garbage" THEN Done ELSE Idle
       \/ /\ ~connected
          /\ reader' = Done
          /\ UNCHANGED inbox
    /\ UNCHANGED <<provider, stage, talk, writing, stdout, connected, server, clock,
                   result, report>>

Writer == WriterTakes \/ WriterWrites \/ WriterEnds

Reader == ReaderReads \/ ReaderSends

-----------------------------------------------------------------------------
(* The server, the system and the clock.                                   *)

\* What a server that keeps the protocol has to say to a message.
Owes(m) ==
    CASE m.kind \in {"initialize", "references"} -> <<Msg("answer", m.id)>>
      [] m.kind = "open" /\ provider = "clangd"  -> <<Msg("diagnostics", m.id)>>
      [] m.kind = "open" /\ provider = "rust-analyzer" /\ m.id = 1
                                                 -> <<Msg("busy", 0), Msg("quiet", 0)>>
      [] OTHER                                   -> <<>>

ServerReads ==
    /\ child = "alive" /\ stdin # <<>>
    /\ stdin' = Tail(stdin)
    /\ owed' = owed \o Owes(Head(stdin))
    /\ UNCHANGED <<provider, stage, talk, outbox, ack, writer, reading, connected, child,
                   orphan, noise, clock, result, report>>

ServerWrites ==
    /\ child = "alive" /\ owed # <<>> /\ Len(stdout) < Pipe
    /\ stdout' = Append(stdout, Head(owed))
    /\ owed' = Tail(owed)
    /\ UNCHANGED <<provider, stage, talk, writing, reader, inbox, connected, child, orphan,
                   noise, clock, result, report>>

\* Requests and notifications at any time; from a faulty server also broken
\* messages, errors and answers nobody asked for.
Unasked ==
    {Msg("request", 1), Msg("request", 2), Msg("busy", 0), Msg("quiet", 0)}
        \cup {Msg(k, 0) : k \in Faults \cap {"garbage", "unhealthy"}}
        \cup {Msg(k, 1) : k \in Faults \cap {"error", "unsupported"}}
        \cup {m \in {Msg("error", 2), Msg("answer", 2)} : "error" \in Faults}

ServerSpeaks ==
    /\ child = "alive" /\ noise < MaxNoise /\ Len(stdout) < Pipe
    /\ \E m \in Unasked : stdout' = Append(stdout, m)
    /\ noise' = noise + 1
    /\ UNCHANGED <<provider, stage, talk, writing, reader, inbox, connected, child, orphan,
                   owed, clock, result, report>>

\* The process ends, by itself or killed; a descendant that has left its
\* process group may still hold the pipes.
ProcessEnds ==
    /\ child = "killed" \/ (child = "alive" /\ "exit" \in Faults)
    /\ child' = "dead"
    /\ \/ UNCHANGED orphan
       \/ "orphan" \in Faults /\ orphan' = TRUE
    /\ UNCHANGED <<provider, stage, talk, writing, reading, connected, owed, noise, clock,
                   result, report>>

Expire ==
    /\ Deadline /\ ~expired
    /\ stage \in Talking \cup {"start"}
    /\ expired' = TRUE
    /\ UNCHANGED <<provider, stage, talk, writing, reading, connected, server, overdue,
                   result, report>>

CleanupExpires ==
    /\ Deadline /\ ~overdue
    /\ stage \in {"kill", "reap", "join"}
    /\ overdue' = TRUE
    /\ UNCHANGED <<provider, stage, talk, writing, reading, connected, server, expired,
                   result, report>>

Next ==
    \/ Query \/ Writer \/ Reader
    \/ ServerReads \/ ServerWrites \/ ServerSpeaks \/ ProcessEnds
    \/ Expire \/ CleanupExpires

\* Threads are scheduled, time passes, and SIGKILL takes effect some time;
\* nothing is assumed of the server.
Fairness ==
    /\ WF_vars(Query) /\ WF_vars(Writer) /\ WF_vars(Reader)
    /\ WF_vars(Expire) /\ WF_vars(CleanupExpires)
    /\ WF_vars(child = "killed" /\ ProcessEnds)

Spec == Init /\ [][Next]_vars /\ Fairness

\* A server that reads and writes independently and answers what it is asked.
ServingSpec == Spec /\ WF_vars(ServerReads) /\ WF_vars(ServerWrites)

-----------------------------------------------------------------------------
(* Properties.                                                             *)

Thread == [at: {"idle", "writing", "holding", "done"}, message: Seq(Message)]

\* Every variable has its type, every queue its bound, and a thread only
\* rests without a message.
TypeOK ==
    /\ provider \in Provider
    /\ stage \in Talking \cup {"start", "kill", "reap", "join", "done"}
    /\ sending \in {"no", "offer", "ack"} /\ replying \in BOOLEAN /\ asked \in BOOLEAN
    /\ opened \in 0..Docs /\ drained \in 0..MaxDrain
    /\ ready \in [busy: BOOLEAN, quiet: BOOLEAN, healthy: BOOLEAN, diagnosed: SUBSET (1..Docs)]
    /\ outbox \in Seq(Message) /\ Len(outbox) <= 1
    /\ ack \in {"none", "written", "failed"}
    /\ writer \in Thread /\ reader \in Thread
    /\ \A t \in {writer, reader} : t.at \in {"writing", "holding"} <=> t.message # <<>>
    /\ stdin \in Seq(Message) /\ Len(stdin) <= Pipe
    /\ stdout \in Seq(Message) /\ Len(stdout) <= Pipe
    /\ inbox \in Seq(Message) /\ Len(inbox) <= Inbox
    /\ connected \in BOOLEAN
    /\ child \in {"none", "alive", "killed", "dead"} /\ orphan \in BOOLEAN
    /\ owed \in Seq(Message) /\ noise \in 0..MaxNoise
    /\ expired \in BOOLEAN /\ overdue \in BOOLEAN
    /\ result \in {"none", "success", "not_applicable", "failed"}
    /\ report \in {"none", "success", "not_applicable", "failed", "unavailable"}

\* A session never outlives its two deadlines, whatever the server does with
\* the pipes: a hung server costs an answer its semantic section and no more.
Ends == <>(stage = "done")

\* No query reports anything but failure while a process or thread it has
\* started is left (finish() before the result).
CleanUnlessReported ==
    stage = "done" /\ report # "failed" =>
        ThreadsDone /\ child \in {"none", "dead"}

\* Threads a query had to leave behind end by themselves, unless a descendant
\* of the server holds their pipes.
ThreadsEnd == (stage = "done") ~> (ThreadsDone \/ orphan)

\* With a server that keeps the protocol, time is the only thing a session
\* can fail for: requests of the server that carry our ids, notifications in
\* between and early exits of no thread make it fail.
FailsOnlyInTime == report = "failed" => expired \/ overdue

\* Without deadlines, a server that reads and writes independently is always
\* asked and understood: the bounded queues never wait for each other, and
\* readiness it announces is never missed.
Answered == <>(report = "success")

=============================================================================
