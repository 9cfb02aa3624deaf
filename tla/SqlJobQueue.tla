------------------------------ MODULE SqlJobQueue ------------------------------
(***************************************************************************)
(* The job queue over a SQL table (adapters/sql/queue.ts) and the cron     *)
(* ticks that drain it (runtime/node/cron.ts) into the consumers of        *)
(* core/extraction/handler.ts and core/thumbnail/handler.ts.               *)
(*                                                                         *)
(* Claiming deletes the rows; a retry waits in the process's memory until  *)
(* the tick flushes it.  Ticks may overlap, in one process (they share the *)
(* buffer) or in several.  `wait` is how long a row is still invisible, and *)
(* `before` sorts the rows by available_at, then rowid.                    *)
(***************************************************************************)
EXTENDS Integers, Sequences, FiniteSets

CONSTANTS
  Messages, Queues,
  QueueOf,            \* the queue each message is sent to
  Delay,              \* how long the retries of each queue's consumer stay invisible
  Processes, Ticks,
  Consumers,          \* the queues that a process can load a consumer for
  ProcessOf,          \* the process each tick runs in
  MaxAttempts, BatchSize

ASSUME SqlJobQueueAssumption ==
  /\ QueueOf \in [Messages -> Queues] /\ Delay \in [Queues -> Nat]
  /\ Consumers \in [Processes -> SUBSET Queues]
  /\ ProcessOf \in [Ticks -> Processes]
  /\ {MaxAttempts, BatchSize} \subseteq Nat \ {0}

VARIABLES
  table,              \* rows of queue_messages
  before,             \* their order: pairs of messages
  tick,               \* each tick: its step, its batch, the retries it is writing
  pending,            \* retries buffered in each process
  settled,            \* history: how each message ended
  delivered,          \* history: how often each was handed to a consumer
  failures            \* history: a process died or a statement failed

vars == <<table, before, tick, pending, settled, delivered, failures>>

Row(m, attempts, wait) == [msg |-> m, attempts |-> attempts, wait |-> wait]

Resting == [at |-> "idle", queue |-> "", batch |-> {}, writing |-> <<>>]
Receiving(q) == [at |-> "receive", queue |-> q, batch |-> {}, writing |-> <<>>]

Init ==
  /\ table = {} /\ before = {}
  /\ tick = [t \in Ticks |-> Resting]
  /\ pending = [p \in Processes |-> <<>>]
  /\ settled = [m \in Messages |-> "no"]
  /\ delivered = [m \in Messages |-> 0]
  /\ failures = FALSE

MessagesOf(rows) == {r.msg : r \in rows}
Elements(rows) == {rows[i] : i \in DOMAIN rows}

\* INSERT of rows, one after the other: each is behind all that are visible no later.
Insert(rows) ==
  LET all == {<<0, r>> : r \in table} \cup {<<i, rows[i]>> : i \in DOMAIN rows}
      Sorted(x, y) == x[2].wait < y[2].wait \/ (x[2].wait = y[2].wait /\ x[1] < y[1])
  IN  /\ table' = table \cup Elements(rows)
      /\ before' = {p \in Messages \X Messages :
                      p \in before \/ \E x, y \in all : Sorted(x, y) /\ p = <<x[2].msg, y[2].msg>>}

InTable(m) == m \in MessagesOf(table)
Claimed(t) == MessagesOf(tick[t].batch)
Writing(t) == MessagesOf(Elements(tick[t].writing))
Buffered(p) == MessagesOf(Elements(pending[p]))
Held(m) ==
  \/ \E t \in Ticks : m \in Claimed(t) \cup Writing(t)
  \/ \E p \in Processes : m \in Buffered(p)

-------------------------------------------------------------------------------
\* No producer asks for a delay.
Send(m) ==
  /\ settled[m] = "no" /\ ~InTable(m) /\ ~Held(m)
  /\ Insert(<<Row(m, 0, 0)>>)
  /\ UNCHANGED <<tick, pending, settled, delivered, failures>>

\* Time passes for rows, and for the retries whose available_at is fixed.
Sooner(r) == [r EXCEPT !.wait = IF @ = 0 THEN 0 ELSE @ - 1]
AllSooner(rows) == [i \in DOMAIN rows |-> Sooner(rows[i])]

PassTime ==
  /\ table' = {Sooner(r) : r \in table}
  /\ pending' = [p \in Processes |-> AllSooner(pending[p])]
  /\ tick' = [t \in Ticks |-> [tick[t] EXCEPT !.writing = AllSooner(@)]]
  /\ UNCHANGED <<before, settled, delivered, failures>>

-------------------------------------------------------------------------------
(* A tick: cleanup, then one drain of each queue that has a consumer.       *)

StartTick(t) ==
  /\ tick[t].at = "idle"
  /\ tick' = [tick EXCEPT ![t] = Receiving("extraction")]
  /\ UNCHANGED <<table, before, pending, settled, delivered, failures>>

\* The tick after draining q: on to the thumbnails, or over.
AfterDrain(q) == IF q = "extraction" THEN Receiving("thumbnail") ELSE Resting

Consumes(t) == tick[t].queue \in Consumers[ProcessOf[t]]

SkipQueue(t) ==
  /\ tick[t].at = "receive" /\ ~Consumes(t)
  /\ tick' = [tick EXCEPT ![t] = AfterDrain(@.queue)]
  /\ UNCHANGED <<table, before, pending, settled, delivered, failures>>

\* DELETE ... RETURNING of the first rows that are due: one statement.
DueRows(q) == {r \in table : QueueOf[r.msg] = q /\ r.wait = 0}
FirstDue(q) ==
  {r \in DueRows(q) : Cardinality({x \in DueRows(q) : <<x.msg, r.msg>> \in before}) < BatchSize}

MutantRemaining(taken) == table
Remaining(taken) == table \ taken

Receive(t) ==
  /\ tick[t].at = "receive" /\ Consumes(t)
  /\ LET q == tick[t].queue
         taken == FirstDue(q)
     IN  IF taken = {} THEN tick' = [tick EXCEPT ![t] = AfterDrain(q)] /\ UNCHANGED <<table, before, delivered>>
         ELSE /\ table' = Remaining(taken)
              /\ before' = {p \in before : {p[1], p[2]} \cap MessagesOf(taken) = {}}
              /\ delivered' = [m \in Messages |-> delivered[m] + Cardinality({r \in taken : r.msg = m})]
              /\ tick' = [tick EXCEPT ![t].at = "consume",
                            ![t].batch = {[r EXCEPT !.attempts = @ + 1] : r \in taken}]
  /\ UNCHANGED <<pending, settled, failures>>

\* The batch is consumed one message after the other, in no promised order.
Done(t, r) == tick' = [tick EXCEPT ![t].batch = @ \ {r}]

Acknowledge(t, r) ==
  /\ tick[t].at = "consume" /\ r \in tick[t].batch
  /\ settled' = [settled EXCEPT ![r.msg] = "acked"]
  /\ Done(t, r)
  /\ UNCHANGED <<table, before, pending, delivered, failures>>

OutOfAttempts(r) == r.attempts >= MaxAttempts

\* The consumer failed: the message is dead, or put into the process's buffer.
Retry(t, r) ==
  /\ tick[t].at = "consume" /\ r \in tick[t].batch
  /\ LET p == ProcessOf[t] IN
     IF OutOfAttempts(r)
     THEN settled' = [settled EXCEPT ![r.msg] = "dead"] /\ UNCHANGED pending
     ELSE /\ pending' = [pending EXCEPT ![p] = Append(@, Row(r.msg, r.attempts, Delay[tick[t].queue]))]
          /\ UNCHANGED settled
  /\ Done(t, r)
  /\ UNCHANGED <<table, before, delivered, failures>>

\* flush takes what the process has buffered, of whichever tick, and writes it.
TakeBuffer(t) ==
  /\ tick[t].at = "consume" /\ tick[t].batch = {}
  /\ LET p == ProcessOf[t] IN
     IF pending[p] = <<>> THEN tick' = [tick EXCEPT ![t] = AfterDrain(@.queue)] /\ UNCHANGED pending
     ELSE /\ tick' = [tick EXCEPT ![t].at = "flush", ![t].writing = pending[p]]
          /\ pending' = [pending EXCEPT ![p] = <<>>]
  /\ UNCHANGED <<table, before, settled, delivered, failures>>

MutantFlushed(t) == SubSeq(tick[t].writing, 1, 1)
Flushed(t) == tick[t].writing

Flush(t) ==
  /\ tick[t].at = "flush"
  /\ Insert(Flushed(t))
  /\ tick' = [tick EXCEPT ![t] = AfterDrain(@.queue)]
  /\ UNCHANGED <<pending, settled, delivered, failures>>

-------------------------------------------------------------------------------
Lost(S) == settled' = [m \in Messages |-> IF m \in S THEN "lost" ELSE settled[m]]

\* The batch of inserts fails: the tick ends with an error, the retries are gone.
FailFlush(t) ==
  /\ tick[t].at = "flush"
  /\ Lost(Writing(t)) /\ failures' = TRUE
  /\ tick' = [tick EXCEPT ![t] = Resting]
  /\ UNCHANGED <<table, before, pending, delivered>>

\* A process dies with the ticks it runs and what it has buffered.
Die(p) ==
  /\ LET mine == {t \in Ticks : ProcessOf[t] = p} IN
     /\ \E t \in mine : tick[t].at # "idle"
     /\ Lost(Buffered(p) \cup UNION {Claimed(t) \cup Writing(t) : t \in mine})
     /\ tick' = [t \in Ticks |-> IF t \in mine THEN Resting ELSE tick[t]]
  /\ pending' = [pending EXCEPT ![p] = <<>>]
  /\ failures' = TRUE
  /\ UNCHANGED <<table, before, delivered>>

Consume(t) == \E r \in tick[t].batch : Acknowledge(t, r) \/ Retry(t, r)
Step(t) == SkipQueue(t) \/ Receive(t) \/ Consume(t) \/ TakeBuffer(t) \/ Flush(t)

Next ==
  \/ \E m \in Messages : Send(m)
  \/ PassTime
  \/ \E t \in Ticks : StartTick(t) \/ Step(t) \/ FailFlush(t)
  \/ \E p \in Processes : Die(p)

\* The operator calls the cron again and again, and a tick that runs goes on.
Fairness == WF_vars(PassTime) /\ \A t \in Ticks : WF_vars(StartTick(t)) /\ WF_vars(Step(t))

Spec == Init /\ [][Next]_vars /\ Fairness

-------------------------------------------------------------------------------
(* The table, the batches and the buffers together are a job queue: a       *)
(* message in a batch, in a buffer or being written is held, and it is in    *)
(* one place only however ticks overlap and processes die.                  *)
place == [m \in Messages |->
  IF settled[m] # "no" THEN settled[m] ELSE IF Held(m) THEN "held"
  ELSE IF InTable(m) THEN "queued" ELSE "unsent"]

Outbox == INSTANCE JobQueue WITH place <- place, attempts <- delivered

ImplementsJobQueue == Outbox!Spec

(* Without a death or a failed statement every message of a queue that is   *)
(* consumed ends acknowledged or dead, whatever the consumers answer.       *)
EveryMessageSettles ==
  \A m \in Messages : (\E t \in Ticks : QueueOf[m] \in Consumers[ProcessOf[t]]) =>
    (InTable(m) ~> (settled[m] \in {"acked", "dead"} \/ failures))
===============================================================================
