---------------------------- MODULE LogTransport ----------------------------
(***************************************************************************)
(* pulsarLogsTransport: log lines are buffered and shipped in batches.     *)
(*                                                                         *)
(* The code runs on one thread: between two awaits nothing else happens,   *)
(* so a loop body from one send to the next is one action.  A line is the  *)
(* number of its log() call.  The byte budget of a batch is a free choice  *)
(* of its length.  The server stores what reaches it; a send that is       *)
(* reported as failed may have been stored all the same.                   *)
(*                                                                         *)
(* Definitions named Tail..., Eager... or Patient... are broken on         *)
(* purpose and take no part in Spec.                                       *)
(***************************************************************************)
EXTENDS Naturals, Sequences, FiniteSets

CONSTANTS MaxBuffer,    \* MAX_BUFFER_ROWS
          MaxBatch,     \* BATCH_ROWS
          MaxLines,     \* bound: log() calls
          MaxOutages    \* bound: failed sends

ASSUME TransportAssumption ==
    /\ MaxBuffer \in Nat \ {0} /\ MaxBatch \in 1 .. MaxBuffer
    /\ MaxLines \in Nat /\ MaxOutages \in Nat

VARIABLES logged,     \* number of log() calls
          queue,      \* this.queue
          batch,      \* the batch being sent
          sender,     \* who holds this.flushing: "nobody", "drain" or "flush"
          backoff,    \* Date.now() < this.nextAttemptAt
          shutdown,   \* "no", "closing", "flushing", "flushed", "late" (flush gave up), "exited"
          stored,     \* lines the ingest function has stored
          discarded,  \* lines dropped on overflow or on a 4xx
          outages     \* failed sends so far

vars == <<logged, queue, batch, sender, backoff, shutdown, stored, discarded, outages>>

Lines(s) == {s[i] : i \in DOMAIN s}

Init ==
    /\ logged = 0 /\ queue = <<>> /\ batch = <<>> /\ sender = "nobody"
    /\ backoff = FALSE /\ shutdown = "no"
    /\ stored = {} /\ discarded = {} /\ outages = 0

EagerOverflow(s) == IF Len(s) >= MaxBuffer THEN Len(s) - MaxBuffer + 1 ELSE 0

Overflow(s) == IF Len(s) > MaxBuffer THEN Len(s) - MaxBuffer ELSE 0

\* splice(0, overflow): the oldest lines go.
Trimmed(s) == SubSeq(s, Overflow(s) + 1, Len(s))
Excess(s) == Lines(SubSeq(s, 1, Overflow(s)))

\* takeBatch, from a queue that is not empty: at least one line.
Takes(who, s) ==
    \E k \in 1 .. MaxBatch :
        /\ k <= Len(s)
        /\ sender' = who
        /\ batch' = SubSeq(s, 1, k)
        /\ queue' = SubSeq(s, k + 1, Len(s))

Rests(s) == sender' = "nobody" /\ batch' = <<>> /\ queue' = s

\* enqueue; a full batch starts a drain at once.
Log ==
    LET line == logged + 1
        q == Append(queue, line)
    IN  /\ shutdown # "exited"
        /\ logged < MaxLines
        /\ logged' = line
        /\ discarded' = discarded \cup Excess(q)
        /\ \/ /\ sender = "nobody" /\ Len(Trimmed(q)) >= MaxBatch /\ ~backoff
              /\ Takes("drain", Trimmed(q))
           \/ /\ sender # "nobody" \/ Len(Trimmed(q)) < MaxBatch \/ backoff
              /\ queue' = Trimmed(q)
              /\ UNCHANGED <<sender, batch>>
        /\ UNCHANGED <<backoff, shutdown, stored, outages>>

PatientTick ==
    /\ shutdown \in {"no", "closing"}
    /\ sender = "nobody" /\ ~backoff /\ Len(queue) >= MaxBatch
    /\ Takes("drain", queue)
    /\ UNCHANGED <<logged, backoff, shutdown, stored, discarded, outages>>

\* The timer calls drain, which returns at once when another drain is under way,
\* when it is backing off or when there is nothing to send.
Tick ==
    /\ shutdown \in {"no", "closing"}
    /\ sender = "nobody" /\ ~backoff /\ queue # <<>>
    /\ Takes("drain", queue)
    /\ UNCHANGED <<logged, backoff, shutdown, stored, discarded, outages>>

\* nextAttemptAt passes.
BackoffEnds ==
    /\ backoff
    /\ backoff' = FALSE
    /\ UNCHANGED <<logged, queue, batch, sender, shutdown, stored, discarded, outages>>

TailRequeued == queue \o batch

\* requeue puts the batch back in front and trims again.
Requeued == batch \o queue

Requeue ==
    /\ Rests(Trimmed(Requeued))
    /\ discarded' = discarded \cup Excess(Requeued)

\* A network error, a timeout, 429 or 5xx; the batch may have arrived.
Outage ==
    /\ outages < MaxOutages
    /\ outages' = outages + 1
    /\ \/ UNCHANGED stored
       \/ stored' = stored \cup Lines(batch)

\* 2xx, or another 4xx, which drops the batch.
Settled ==
    /\ UNCHANGED outages
    /\ \/ stored' = stored \cup Lines(batch) /\ UNCHANGED discarded
       \/ discarded' = discarded \cup Lines(batch) /\ UNCHANGED stored

\* drain after its await: onSuccess or the next batch, or requeue and stop.  A
\* dropped batch leaves the backoff alone, which is over whenever drain runs.
DrainGoesOn ==
    /\ shutdown # "exited"
    /\ sender = "drain"
    /\ \/ /\ Settled
          /\ \/ queue # <<>> /\ Takes("drain", queue)
             \/ queue = <<>> /\ Rests(queue)
          /\ backoff' \in {backoff, FALSE}
       \/ /\ Outage
          /\ Requeue
          /\ backoff' = TRUE
    /\ UNCHANGED <<logged, shutdown>>

-----------------------------------------------------------------------------
(* flush, on the way out. *)

\* The first signal; the listeners are being closed, and later signals do nothing.
Shutdown ==
    /\ shutdown = "no"
    /\ shutdown' = "closing"
    /\ UNCHANGED <<logged, queue, batch, sender, backoff, stored, discarded, outages>>

\* flushPulsarLogs: the timer is cleared and the backoff forgotten.
FlushBegins ==
    /\ shutdown = "closing"
    /\ shutdown' = "flushing"
    /\ backoff' = FALSE
    /\ UNCHANGED <<logged, queue, batch, sender, stored, discarded, outages>>

\* The head of flush's loop, with nobody sending: the next batch, or the end.
FlushLoops ==
    /\ shutdown = "flushing"
    /\ sender = "nobody"
    /\ \/ queue # <<>> /\ Takes("flush", queue) /\ UNCHANGED shutdown
       \/ queue = <<>> /\ shutdown' = "flushed" /\ UNCHANGED <<queue, batch, sender>>
    /\ UNCHANGED <<logged, backoff, stored, discarded, outages>>

\* While a drain is sending flush sleeps, and looks at the queue alone.
FlushFindsNothing ==
    /\ shutdown = "flushing"
    /\ sender = "drain"
    /\ queue = <<>>
    /\ shutdown' = "flushed"
    /\ UNCHANGED <<logged, queue, batch, sender, backoff, stored, discarded, outages>>

\* SHUTDOWN_FLUSH_MS are over at the head of the loop.
FlushRunsLate ==
    /\ shutdown = "flushing"
    /\ sender # "flush"
    /\ queue # <<>>
    /\ shutdown' = "late"
    /\ UNCHANGED <<logged, queue, batch, sender, backoff, stored, discarded, outages>>

\* flush after its await.  A failed batch ends the loop.
FlushGoesOn ==
    /\ shutdown = "flushing"
    /\ sender = "flush"
    /\ \/ /\ Settled
          /\ \/ queue # <<>> /\ Takes("flush", queue) /\ UNCHANGED shutdown
             \/ queue = <<>> /\ Rests(queue) /\ shutdown' = "flushed"
             \/ queue # <<>> /\ Rests(queue) /\ shutdown' = "late"
       \/ Outage /\ Requeue /\ shutdown' = "late"
    /\ UNCHANGED <<logged, backoff>>

\* process.exit: after flush, or by the force timer at any time.
Exit ==
    /\ shutdown \notin {"no", "exited"}
    /\ shutdown' = "exited"
    /\ UNCHANGED <<logged, queue, batch, sender, backoff, stored, discarded, outages>>

Next ==
    \/ Log \/ Tick \/ BackoffEnds \/ DrainGoesOn
    \/ Shutdown \/ FlushBegins \/ FlushLoops \/ FlushFindsNothing \/ FlushRunsLate \/ FlushGoesOn
    \/ Exit

\* The interval fires again and again, time passes, every send ends (AbortController),
\* and shutdown gets to its end (the force timer).
Fairness ==
    /\ WF_vars(Tick) /\ WF_vars(BackoffEnds) /\ WF_vars(DrainGoesOn)
    /\ WF_vars(FlushLoops) /\ WF_vars(FlushGoesOn) /\ WF_vars(Exit)

Spec == Init /\ [][Next]_vars /\ Fairness

-----------------------------------------------------------------------------
(* Properties. *)

Line == 1 .. logged

\* Types; and this.flushing is set exactly while a batch is on its way.
TypeOK ==
    /\ logged \in 0 .. MaxLines
    /\ queue \in Seq(Line) /\ batch \in Seq(Line)
    /\ sender \in {"nobody", "drain", "flush"}
    /\ sender = "nobody" <=> batch = <<>>
    /\ backoff \in BOOLEAN
    /\ shutdown \in {"no", "closing", "flushing", "flushed", "late", "exited"}
    /\ stored \subseteq Line /\ discarded \subseteq Line
    /\ outages \in 0 .. MaxOutages

\* One sender at a time and requeueing in front keep what is still to be sent in the
\* order it was logged: no line overtakes another, through any retries.
LinesKeepTheirOrder ==
    LET pending == batch \o queue
    IN  \A i, j \in DOMAIN pending : i < j => pending[i] < pending[j]

\* The transport is a lossy queue, at-least-once and oldest first: retries, drops and
\* the hand-over from a drain to flush never reorder, skip or forget a line, and none of
\* the MAX_BUFFER_ROWS lines logged last is dropped to make room.
Contract == INSTANCE LossyQueue WITH
    Capacity <- MaxBuffer, Batch <- MaxBatch,
    count <- logged, waiting <- batch \o queue, lost <- discarded

ImplementsLossyQueue == Contract!Spec

\* Once the endpoint is up again everything that was logged gets out, unless the
\* process exits first: no retry, backoff or full buffer wedges the transport.
EverythingIsShipped ==
    \A i \in 1 .. MaxLines :
        i \in Line ~> i \in stored \cup discarded \/ shutdown = "exited"
=============================================================================
