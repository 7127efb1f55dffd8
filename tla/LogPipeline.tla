----------------------------- MODULE LogPipeline -----------------------------
(***************************************************************************)
(* Log entries on their way to a message queue: writeDBLog of              *)
(* logger/logger.go hands an entry to the writer installed with            *)
(* SetDBLogWriter, WriteLog of logger/mq_writer.go puts it into a bounded  *)
(* buffer without blocking, the goroutine run collects batches and sends   *)
(* them through a producer of logger/mq_producers.go.                      *)
(*                                                                         *)
(* An entry is the number of its arrival in the buffer.  A goroutine that  *)
(* logs reads dbLogWriter twice, each time under the lock.                 *)
(***************************************************************************)
EXTENDS Integers, Sequences, FiniteSets
Entries == INSTANCE SequencesExt

CONSTANTS
    LogCallers,     \* goroutines that log
    BufferSize, BatchSize,
    StreamMaxLen,   \* MaxLen of the Redis stream
    MaxLogs         \* bound: entries put into the buffer

ASSUME LogAssumption ==
    BufferSize \in Nat \ {0} /\ BatchSize \in Nat \ {0} /\ StreamMaxLen \in Nat \ {0} /\ MaxLogs \in Nat

ProducerKinds == {"stream", "list", "queue", "stub"}

VARIABLES
    producer,   \* the kind of producer the writer was built with
    installed,  \* dbLogWriter # nil
    logStep,    \* step of each caller
    accepted,   \* entries put into the buffer so far
    buffer, logBatch,
    sending,    \* the rest of the batch sendBatch is in
    timer,      \* the flush timer: "set" or "fired"
    sender,     \* step of run
    closing,    \* cancel has been called; Close has returned
    closedAt,   \* history: entries accepted when Close was called
    stored,     \* what the producer's server holds, oldest arrival first
    failed      \* entries whose Publish failed

logVars == <<producer, installed, logStep, accepted, buffer, logBatch, sending, timer, sender, closing, closedAt, stored, failed>>

LogInit ==
    /\ producer \in ProducerKinds
    /\ installed = TRUE
    /\ logStep = [c \in LogCallers |-> "idle"]
    /\ accepted = 0
    /\ buffer = <<>> /\ logBatch = <<>> /\ sending = <<>>
    /\ timer = "set" /\ sender = "select" /\ closing = "no" /\ closedAt = 0
    /\ stored = <<>> /\ failed = {}

----------------------------------------------------------------------------
(* logger.go *)

SetDBLogWriter(on) ==
    /\ installed # on
    /\ installed' = on
    /\ UNCHANGED <<producer, logStep, accepted, buffer, logBatch, sending, timer, sender, closing, closedAt, stored, failed>>

\* shouldWriteToDB: the entry goes no further without a writer.
ShouldWriteToDB(c) ==
    /\ logStep[c] = "idle" /\ accepted + Cardinality({d \in LogCallers : logStep[d] = "write"}) < MaxLogs
    /\ installed
    /\ logStep' = [logStep EXCEPT ![c] = "write"]
    /\ UNCHANGED <<producer, installed, accepted, buffer, logBatch, sending, timer, sender, closing, closedAt, stored, failed>>

\* writeDBLog reads dbLogWriter again: a writer removed since is a nil pointer.
WriteNil(c) ==
    /\ logStep[c] = "write" /\ ~installed
    /\ logStep' = [logStep EXCEPT ![c] = "panicked"]
    /\ UNCHANGED <<producer, installed, accepted, buffer, logBatch, sending, timer, sender, closing, closedAt, stored, failed>>

\* WriteLog: the select puts the entry into the buffer or drops it.
WriteLog(c) ==
    /\ logStep[c] = "write" /\ installed
    /\ logStep' = [logStep EXCEPT ![c] = "idle"]
    /\ IF Len(buffer) < BufferSize
       THEN buffer' = Append(buffer, accepted + 1) /\ accepted' = accepted + 1
       ELSE UNCHANGED <<buffer, accepted>>
    /\ UNCHANGED <<producer, installed, logBatch, sending, timer, sender, closing, closedAt, stored, failed>>

----------------------------------------------------------------------------
(* mq_writer.go: run *)

TimerFires ==
    /\ timer = "set" /\ sender # "done"
    /\ timer' = "fired"
    /\ UNCHANGED <<producer, installed, logStep, accepted, buffer, logBatch, sending, sender, closing, closedAt, stored, failed>>

\* case <-ctx.Done(): only the batch is flushed, not the buffer.
RunDone ==
    /\ sender = "select" /\ closing # "no"
    /\ sending' = logBatch /\ logBatch' = <<>>
    /\ sender' = "last"
    /\ UNCHANGED <<producer, installed, logStep, accepted, buffer, timer, closing, closedAt, stored, failed>>

RunReceive ==
    /\ sender = "select" /\ buffer # <<>>
    /\ buffer' = Tail(buffer)
    /\ LET batch == Append(logBatch, Head(buffer)) IN
       IF Len(batch) >= BatchSize
       THEN sending' = batch /\ logBatch' = <<>> /\ timer' = "set" /\ sender' = "send"
       ELSE logBatch' = batch /\ UNCHANGED <<sending, timer, sender>>
    /\ UNCHANGED <<producer, installed, logStep, accepted, closing, closedAt, stored, failed>>

MutRunFlush ==
    /\ sender = "select" /\ timer = "fired"
    /\ logBatch = <<>>
    /\ timer' = "set"
    /\ UNCHANGED <<producer, installed, logStep, accepted, buffer, logBatch, sending, sender, closing, closedAt, stored, failed>>

RunFlush ==
    /\ sender = "select" /\ timer = "fired"
    /\ timer' = "set"
    /\ sending' = logBatch /\ logBatch' = <<>>
    /\ sender' = IF logBatch = <<>> THEN "select" ELSE "send"
    /\ UNCHANGED <<producer, installed, logStep, accepted, buffer, closing, closedAt, stored, failed>>

\* Publish of each producer.  XADD trims the stream approximately: it keeps at
\* least StreamMaxLen entries.  LPUSH puts the entry at the head of the list;
\* stored is kept in order of arrival, so both append.  The RabbitMQ, RocketMQ
\* and NATS producers are placeholders that answer nil and send nothing.
Publish(log, m) ==
    CASE producer = "stream" -> {SubSeq(Append(log, m), i, Len(log) + 1) :
                                    i \in {1} \union {j \in 1..Len(log) : Len(log) + 2 - j >= StreamMaxLen}}
      [] producer = "stub"   -> {log}
      [] OTHER               -> {Append(log, m)}

\* sendBatch drops the error of a failed Publish.
SendOne ==
    /\ sender \in {"send", "last"} /\ sending # <<>>
    /\ sending' = Tail(sending)
    /\ \/ stored' \in Publish(stored, Head(sending)) /\ UNCHANGED failed
       \/ failed' = failed \union {Head(sending)} /\ UNCHANGED stored
    /\ UNCHANGED <<producer, installed, logStep, accepted, buffer, logBatch, timer, sender, closing, closedAt>>

SendBatchEnds ==
    /\ sender \in {"send", "last"} /\ sending = <<>>
    /\ sender' = IF sender = "send" THEN "select" ELSE "done"
    /\ UNCHANGED <<producer, installed, logStep, accepted, buffer, logBatch, sending, timer, closing, closedAt, stored, failed>>

LogClose ==
    /\ closing = "no"
    /\ closing' = "wait" /\ closedAt' = accepted
    /\ UNCHANGED <<producer, installed, logStep, accepted, buffer, logBatch, sending, timer, sender, stored, failed>>

LogCloseReturns ==
    /\ closing = "wait" /\ sender = "done"
    /\ closing' = "closed"
    /\ UNCHANGED <<producer, installed, logStep, accepted, buffer, logBatch, sending, timer, sender, closedAt, stored, failed>>

LogSender == RunDone \/ RunReceive \/ RunFlush \/ SendOne \/ SendBatchEnds

LogNext ==
    \/ \E on \in BOOLEAN : SetDBLogWriter(on)
    \/ \E c \in LogCallers : ShouldWriteToDB(c) \/ WriteNil(c) \/ WriteLog(c)
    \/ TimerFires \/ LogSender \/ LogClose \/ LogCloseReturns

LogSpec == LogInit /\ [][LogNext]_logVars

\* Unless Close is called, an entry in the buffer leaves for the server: the
\* timer sends a batch that never fills.
LogsLeave == \A m \in 1..MaxLogs : (accepted >= m) ~> (closing # "no" \/ ~Entries!Contains(buffer \o logBatch \o sending, m))

\* mq_writer.go:145 says of the end of run that it flushes the remaining logs
\* on close: when Close has returned, no entry accepted before it was called is
\* still in the writer.
CloseFlushes == closing = "closed" => \A m \in 1..closedAt : ~Entries!Contains(buffer \o logBatch \o sending, m)
=============================================================================
