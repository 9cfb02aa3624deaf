-------------------------- MODULE QueueAndClientProofs --------------------------
(***************************************************************************)
(* What the two ends of the service promise, each on its own: the SQL job  *)
(* queue behind it and the command line client in front of it.             *)
(*                                                                         *)
(* The SQL job queue implements the queue of core/queue/port.ts for any    *)
(* messages, queues, processes and ticks, any batch size and any attempts: *)
(* a message is in one place only, and each step moves it as promised.     *)
(*                                                                         *)
(* The client, for any number of processes over one directory, any parts,  *)
(* tokens, sessions and failures: what it completes is whole and stays     *)
(* with who opened it, a process on its own is not refused, and the        *)
(* refresh token on file is one the provider accepts.                      *)
(***************************************************************************)
EXTENDS SqlJobQueue, UploadClient, FiniteSetTheorems, TLAPS

-------------------------------------------------------------------------------
(* The invariant.                                                          *)

QueueRows == [msg : Messages, attempts : Nat, wait : Nat]
TickStates == [at : {"idle", "receive", "consume", "flush"}, queue : {"", "extraction", "thumbnail"},
               batch : SUBSET QueueRows, writing : Seq(QueueRows)]

TypeOK ==
  /\ table \subseteq QueueRows
  /\ tick \in [Ticks -> TickStates]
  /\ pending \in [Processes -> Seq(QueueRows)]
  /\ settled \in [Messages -> {"no", "acked", "dead", "lost"}]
  /\ delivered \in [Messages -> Nat]

\* A tick has a batch only while it consumes, and retries to write only while it flushes.
Phase(t) ==
  /\ tick[t].at # "consume" => tick[t].batch = {}
  /\ tick[t].at # "flush" => tick[t].writing = <<>>
  /\ tick[t].at = "consume" => tick[t].queue \in Queues

\* The rows of one place: one to a message, its attempts as often as it was delivered.
RowsOK(rows, max) ==
  /\ \A r, x \in rows : r.msg = x.msg => r = x
  /\ \A r \in rows : r.attempts = delivered[r.msg] /\ r.attempts <= max

\* A row that waits has an attempt left.
CopiesInv ==
  /\ RowsOK(table, MaxAttempts - 1)
  /\ \A t \in Ticks : RowsOK(tick[t].batch, MaxAttempts) /\ RowsOK(Elements(tick[t].writing), MaxAttempts - 1)
  /\ \A p \in Processes : RowsOK(Elements(pending[p]), MaxAttempts - 1)

Carried(t) == Claimed(t) \cup Writing(t)

\* A message is in one place at most, in none when it is settled or was never delivered.
PlacesInv ==
  /\ \A m \in Messages : InTable(m) => ~Held(m)
  /\ \A m \in Messages : InTable(m) \/ Held(m) => settled[m] = "no"
  /\ \A m \in Messages : settled[m] = "no" /\ ~InTable(m) /\ ~Held(m) => delivered[m] = 0
  /\ \A s, t \in Ticks, m \in Messages : m \in Carried(s) /\ m \in Carried(t) => s = t
  /\ \A p, q \in Processes, m \in Messages : m \in Buffered(p) /\ m \in Buffered(q) => p = q
  /\ \A t \in Ticks, p \in Processes, m \in Messages : ~(m \in Carried(t) /\ m \in Buffered(p))

QueueInv == TypeOK /\ (\A t \in Ticks : Phase(t)) /\ CopiesInv /\ PlacesInv

-------------------------------------------------------------------------------
(* Rows and buffers.                                                       *)

LEMMA ElementsEmpty == Elements(<<>>) = {} /\ MessagesOf({}) = {}
BY DEF Elements, MessagesOf

LEMMA ElementsOne == ASSUME NEW r PROVE Elements(<<r>>) = {r} /\ MessagesOf({r}) = {r.msg}
BY DEF Elements, MessagesOf

LEMMA ElementsAppend ==
  ASSUME NEW rows \in Seq(QueueRows), NEW r \in QueueRows
  PROVE  /\ Append(rows, r) \in Seq(QueueRows) /\ Elements(Append(rows, r)) = Elements(rows) \cup {r}
         /\ MessagesOf(Elements(Append(rows, r))) = MessagesOf(Elements(rows)) \cup {r.msg}
<1>1. Append(rows, r) \in Seq(QueueRows) OBVIOUS
<1>2. DOMAIN Append(rows, r) = 1 .. Len(rows) + 1 OBVIOUS
<1>3. \A i \in 1 .. Len(rows) : Append(rows, r)[i] = rows[i] OBVIOUS
<1>4. Append(rows, r)[Len(rows) + 1] = r OBVIOUS
<1>5. DOMAIN rows = 1 .. Len(rows) /\ Len(rows) \in Nat OBVIOUS
<1>6. Elements(Append(rows, r)) = Elements(rows) \cup {r} BY <1>2, <1>3, <1>4, <1>5 DEF Elements
<1>7. QED BY <1>1, <1>6 DEF MessagesOf

LEMMA ElementsType ==
  ASSUME NEW rows \in Seq(QueueRows)
  PROVE  Elements(rows) \subseteq QueueRows
BY DEF Elements

LEMMA SoonerType ==
  ASSUME NEW r \in QueueRows
  PROVE  Sooner(r) \in QueueRows /\ Sooner(r).msg = r.msg /\ Sooner(r).attempts = r.attempts
BY DEF Sooner, QueueRows

LEMMA SoonerRows ==
  ASSUME NEW rows \in SUBSET QueueRows, NEW max, RowsOK(rows, max)
  PROVE  LET new == {Sooner(r) : r \in rows} IN
         /\ new \subseteq QueueRows /\ RowsOK(new, max) /\ MessagesOf(new) = MessagesOf(rows)
<1> DEFINE new == {Sooner(r) : r \in rows}
<1>1. \A r \in rows : Sooner(r) \in QueueRows /\ Sooner(r).msg = r.msg /\ Sooner(r).attempts = r.attempts
  BY SoonerType
<1>2. new \subseteq QueueRows /\ MessagesOf(new) = MessagesOf(rows) BY <1>1 DEF MessagesOf
<1>3. ASSUME NEW r \in rows, NEW x \in rows, Sooner(r).msg = Sooner(x).msg PROVE Sooner(r) = Sooner(x)
  <2>1. r = x BY <1>1, <1>3 DEF RowsOK
  <2>2. QED BY <2>1
<1>4. RowsOK(new, max) BY <1>1, <1>3 DEF RowsOK
<1>5. QED BY <1>2, <1>4

LEMMA AllSoonerRows ==
  ASSUME NEW rows \in Seq(QueueRows), NEW max, RowsOK(Elements(rows), max)
  PROVE  /\ AllSooner(rows) \in Seq(QueueRows) /\ (rows = <<>> => AllSooner(rows) = <<>>)
         /\ RowsOK(Elements(AllSooner(rows)), max)
         /\ MessagesOf(Elements(AllSooner(rows))) = MessagesOf(Elements(rows))
<1>1. \A i \in DOMAIN rows : Sooner(rows[i]) \in QueueRows BY SoonerType
<1>2. DOMAIN rows = 1 .. Len(rows) /\ Len(rows) \in Nat OBVIOUS
<1>3. AllSooner(rows) \in Seq(QueueRows) BY <1>1, <1>2 DEF AllSooner
<1>4. Elements(AllSooner(rows)) = {Sooner(r) : r \in Elements(rows)} BY DEF AllSooner, Elements
<1>5. rows = <<>> => AllSooner(rows) = <<>> BY <1>2, <1>3 DEF AllSooner
<1>6. QED BY <1>3, <1>4, <1>5, SoonerRows, ElementsType

-------------------------------------------------------------------------------
(* Moves: what a step does to the places, and what the promised queue sees. *)

LEMMA Holders ==
  ASSUME NEW m
  PROVE  Held(m) <=> (\E t \in Ticks : m \in Carried(t)) \/ (\E p \in Processes : m \in Buffered(p))
BY DEF Held, Carried

\* Messages that stay held, wherever, are where they were.
LEMMA StayPut ==
  ASSUME UNCHANGED <<settled, delivered>>, MessagesOf(table)' = MessagesOf(table), \A m \in Messages : Held(m)' <=> Held(m)
  PROVE  UNCHANGED Outbox!vars
<1>1. \A m \in Messages : InTable(m)' <=> InTable(m) BY DEF InTable
<1>2. place' = place BY <1>1 DEF place
<1>3. QED BY <1>2 DEF Outbox!vars

LEMMA SendMove ==
  ASSUME PlacesInv, NEW m \in Messages, settled[m] = "no", ~InTable(m), ~Held(m), UNCHANGED <<settled, delivered>>,
         MessagesOf(table)' = MessagesOf(table) \cup {m},
         \A t \in Ticks : Carried(t)' = Carried(t), \A p \in Processes : Buffered(p)' = Buffered(p)
  PROVE  PlacesInv' /\ Outbox!Send(m)
<1>1. \A x \in Messages : Held(x)' <=> Held(x) BY Holders DEF Held, Carried
<1>2. \A x \in Messages : InTable(x)' <=> InTable(x) \/ x = m BY DEF InTable
<1>3. PlacesInv' BY <1>1, <1>2 DEF PlacesInv
<1>4. place' = [x \in Messages |-> IF x \in {m} THEN "queued" ELSE place[x]] BY <1>1, <1>2 DEF place
<1>5. place[m] = "unsent" BY DEF place
<1>6. QED BY <1>3, <1>4, <1>5 DEF Outbox!Send, Outbox!Move

\* Held messages that are settled leave every place.
LEMMA EndMove ==
  ASSUME PlacesInv, NEW S \in SUBSET Messages, NEW how \in {"acked", "dead", "lost"}, \A m \in S : Held(m),
         settled' = [m \in Messages |-> IF m \in S THEN how ELSE settled[m]], UNCHANGED delivered,
         MessagesOf(table)' = MessagesOf(table),
         \A t \in Ticks : Carried(t)' \subseteq Carried(t), \A p \in Processes : Buffered(p)' \subseteq Buffered(p),
         \A m \in Messages : Held(m)' <=> Held(m) /\ m \notin S
  PROVE  /\ PlacesInv'
         /\ place' = [m \in Messages |-> IF m \in S THEN how ELSE place[m]] /\ \A m \in S : place[m] = "held"
<1>1. \A x \in Messages : InTable(x)' <=> InTable(x) BY DEF InTable
<1>2. PlacesInv' BY <1>1 DEF PlacesInv
<1>3. \A m \in S : settled[m] = "no" BY DEF PlacesInv
<1>4. \A m \in S : place[m] = "held" BY <1>3 DEF place
<1>5. place' = [m \in Messages |-> IF m \in S THEN how ELSE place[m]] BY <1>1 DEF place
<1>6. QED BY <1>2, <1>4, <1>5

\* A retry goes from its batch to the buffer.
LEMMA BufferMove ==
  ASSUME PlacesInv, NEW t \in Ticks, NEW p \in Processes, NEW m \in Messages, m \in Carried(t),
         UNCHANGED <<settled, delivered>>, MessagesOf(table)' = MessagesOf(table),
         \A s \in Ticks : Carried(s)' = IF s = t THEN Carried(s) \ {m} ELSE Carried(s),
         \A q \in Processes : Buffered(q)' = IF q = p THEN Buffered(q) \cup {m} ELSE Buffered(q)
  PROVE  PlacesInv' /\ UNCHANGED Outbox!vars
<1>1. \A x \in Messages : Held(x)' <=> Held(x)
  <2>1. \A x \in Messages : Held(x)' <=> (\E s \in Ticks : x \in Carried(s)') \/ (\E q \in Processes : x \in Buffered(q)')
    BY DEF Held, Carried
  <2>2. QED BY <2>1, Holders
<1>2. \A x \in Messages : InTable(x)' <=> InTable(x) BY DEF InTable
<1>3. \A s \in Ticks : m \in Carried(s) => s = t BY DEF PlacesInv
<1>4. \A q \in Processes : m \notin Buffered(q) BY DEF PlacesInv
<1>5. \A s, u \in Ticks, x \in Messages : x \in Carried(s)' /\ x \in Carried(u)' => s = u BY DEF PlacesInv
<1>6. \A q, u \in Processes, x \in Messages : x \in Buffered(q)' /\ x \in Buffered(u)' => q = u BY <1>4 DEF PlacesInv
<1>7. \A s \in Ticks, q \in Processes, x \in Messages : ~(x \in Carried(s)' /\ x \in Buffered(q)') BY <1>3 DEF PlacesInv
<1>8. PlacesInv' BY <1>1, <1>2, <1>5, <1>6, <1>7 DEF PlacesInv
<1>9. QED BY <1>1, <1>8, StayPut

\* A tick that carries nothing takes a buffer.
LEMMA WriteMove ==
  ASSUME PlacesInv, NEW t \in Ticks, NEW p \in Processes, Carried(t) = {},
         UNCHANGED <<settled, delivered>>, MessagesOf(table)' = MessagesOf(table),
         \A s \in Ticks : Carried(s)' = IF s = t THEN Buffered(p) ELSE Carried(s),
         \A q \in Processes : Buffered(q)' = IF q = p THEN {} ELSE Buffered(q)
  PROVE  PlacesInv' /\ UNCHANGED Outbox!vars
<1>1. \A x \in Messages : Held(x)' <=> Held(x)
  <2>1. \A x \in Messages : Held(x)' <=> (\E s \in Ticks : x \in Carried(s)') \/ (\E q \in Processes : x \in Buffered(q)')
    BY DEF Held, Carried
  <2>2. QED BY <2>1, Holders
<1>2. \A x \in Messages : InTable(x)' <=> InTable(x) BY DEF InTable
<1>3. \A s, u \in Ticks, x \in Messages : x \in Carried(s)' /\ x \in Carried(u)' => s = u BY DEF PlacesInv
<1>4. \A q, u \in Processes, x \in Messages : x \in Buffered(q)' /\ x \in Buffered(u)' => q = u BY DEF PlacesInv
<1>5. \A s \in Ticks, q \in Processes, x \in Messages : ~(x \in Carried(s)' /\ x \in Buffered(q)') BY DEF PlacesInv
<1>6. PlacesInv' BY <1>1, <1>2, <1>3, <1>4, <1>5 DEF PlacesInv
<1>7. QED BY <1>1, <1>6, StayPut

\* Rows that are claimed become a batch.
LEMMA DeliverMove ==
  ASSUME TypeOK, PlacesInv, NEW t \in Ticks, Carried(t) = {}, NEW S \in SUBSET MessagesOf(table), S \subseteq Messages, S # {},
         UNCHANGED settled, MessagesOf(table)' = MessagesOf(table) \ S,
         delivered' = [m \in Messages |-> IF m \in S THEN delivered[m] + 1 ELSE delivered[m]],
         \A s \in Ticks : Carried(s)' = IF s = t THEN S ELSE Carried(s),
         \A q \in Processes : Buffered(q)' = Buffered(q)
  PROVE  PlacesInv' /\ Outbox!Deliver(S)
<1>1. \A x \in Messages : Held(x)' <=> Held(x) \/ x \in S
  <2>1. \A x \in Messages : Held(x)' <=> (\E s \in Ticks : x \in Carried(s)') \/ (\E q \in Processes : x \in Buffered(q)')
    BY DEF Held, Carried
  <2>2. QED BY <2>1, Holders
<1>2. \A x \in Messages : InTable(x)' <=> InTable(x) /\ x \notin S BY DEF InTable
<1>3. \A x \in S : InTable(x) /\ ~Held(x) /\ settled[x] = "no" BY DEF PlacesInv, InTable
<1>4. /\ \A x \in S, s \in Ticks : x \notin Carried(s)
      /\ \A x \in S, q \in Processes : x \notin Buffered(q)
  BY <1>3, Holders
<1>5. \A s, u \in Ticks, x \in Messages : x \in Carried(s)' /\ x \in Carried(u)' => s = u BY <1>4 DEF PlacesInv
<1>6. \A s \in Ticks, q \in Processes, x \in Messages : ~(x \in Carried(s)' /\ x \in Buffered(q)') BY <1>4 DEF PlacesInv
<1>7. PlacesInv' BY <1>1, <1>2, <1>3, <1>5, <1>6 DEF PlacesInv
<1>8. \A m \in S : place[m] = "queued" BY <1>3 DEF place
<1>9. place' = [m \in Messages |-> IF m \in S THEN "held" ELSE place[m]] BY <1>1, <1>2, <1>3 DEF place
<1>10. QED BY <1>7, <1>8, <1>9 DEF Outbox!Deliver, Outbox!Move

\* What a tick wrote back is queued again.
LEMMA ReturnMove ==
  ASSUME PlacesInv, NEW t \in Ticks, Carried(t) \subseteq Messages,
         UNCHANGED <<settled, delivered>>, MessagesOf(table)' = MessagesOf(table) \cup Carried(t),
         \A s \in Ticks : Carried(s)' = IF s = t THEN {} ELSE Carried(s),
         \A q \in Processes : Buffered(q)' = Buffered(q),
         \A m \in Carried(t) : delivered[m] < MaxAttempts
  PROVE  PlacesInv' /\ (Outbox!Return(Carried(t)) \/ UNCHANGED Outbox!vars)
<1> DEFINE S == Carried(t)
<1>1. \A x \in Messages : Held(x)' <=> Held(x) /\ x \notin S
  <2>1. \A x \in Messages : Held(x)' <=> (\E s \in Ticks : x \in Carried(s)') \/ (\E q \in Processes : x \in Buffered(q)')
    BY DEF Held, Carried
  <2>2. \A x \in S : \A s \in Ticks : x \in Carried(s) => s = t BY DEF PlacesInv
  <2>3. \A x \in S, q \in Processes : x \notin Buffered(q) BY DEF PlacesInv
  <2>4. QED BY <2>1, <2>2, <2>3, Holders
<1>2. \A x \in Messages : InTable(x)' <=> InTable(x) \/ x \in S BY DEF InTable
<1>3. \A x \in S : Held(x) /\ settled[x] = "no" BY Holders DEF PlacesInv
<1>4. \A s, u \in Ticks, x \in Messages : x \in Carried(s)' /\ x \in Carried(u)' => s = u BY DEF PlacesInv
<1>5. \A s \in Ticks, q \in Processes, x \in Messages : ~(x \in Carried(s)' /\ x \in Buffered(q)') BY DEF PlacesInv
<1>6. PlacesInv' BY <1>1, <1>2, <1>3, <1>4, <1>5 DEF PlacesInv
<1>7. \A m \in S : place[m] = "held" BY <1>3 DEF place
<1>8. place' = [m \in Messages |-> IF m \in S THEN "queued" ELSE place[m]] BY <1>1, <1>2, <1>3 DEF place, PlacesInv
<1>9. CASE S = {}
  <2>1. \A x \in Messages : Held(x)' <=> Held(x) BY <1>1, <1>9
  <2>2. QED BY <1>6, <1>9, <2>1, StayPut
<1>10. CASE S # {} BY <1>6, <1>7, <1>8, <1>10 DEF Outbox!Return, Outbox!Move
<1>11. QED BY <1>9, <1>10

-------------------------------------------------------------------------------
(* Steps: what each does to the rows.                                      *)

LEMMA Sizes == MaxAttempts \in Nat /\ MaxAttempts >= 1 /\ MaxAttempts - 1 \in Nat
BY SqlJobQueueAssumption

LEMMA SendStep ==
  ASSUME QueueInv, NEW m \in Messages, Send(m)
  PROVE  QueueInv' /\ Outbox!Send(m)
<1> DEFINE r == Row(m, 0, 0)
<1>1. settled[m] = "no" /\ ~InTable(m) /\ ~Held(m) BY DEF Send
<1>2. table' = table \cup {r} /\ UNCHANGED <<tick, pending, settled, delivered>>
  BY ElementsOne DEF Send, Insert
<1>3. r \in QueueRows /\ r.msg = m /\ r.attempts = 0 /\ delivered[m] = 0
  BY <1>1 DEF Row, QueueRows, QueueInv, PlacesInv
<1>4. MessagesOf(table)' = MessagesOf(table) \cup {m} BY <1>2, <1>3 DEF MessagesOf
<1>5. \A t \in Ticks : Carried(t)' = Carried(t) BY <1>2 DEF Carried, Claimed, Writing
<1>6. \A p \in Processes : Buffered(p)' = Buffered(p) BY <1>2 DEF Buffered
<1>7. PlacesInv' /\ Outbox!Send(m) BY <1>1, <1>2, <1>4, <1>5, <1>6, SendMove DEF QueueInv
<1>8. \A x \in table : x.msg # m BY <1>1 DEF InTable, MessagesOf
<1>9. RowsOK(table, MaxAttempts - 1)' BY <1>2, <1>3, <1>8, Sizes DEF QueueInv, CopiesInv, RowsOK
<1>10. CopiesInv' BY <1>2, <1>9 DEF QueueInv, CopiesInv, RowsOK
<1>11. TypeOK' /\ \A t \in Ticks : Phase(t)' BY <1>2, <1>3 DEF QueueInv, TypeOK, Phase
<1>12. QED BY <1>7, <1>10, <1>11 DEF QueueInv

LEMMA PassTimeStep ==
  ASSUME QueueInv, PassTime
  PROVE  QueueInv' /\ UNCHANGED Outbox!vars
<1>1. /\ table' = {Sooner(r) : r \in table} /\ pending' = [p \in Processes |-> AllSooner(pending[p])]
      /\ tick' = [t \in Ticks |-> [tick[t] EXCEPT !.writing = AllSooner(@)]]
      /\ UNCHANGED <<settled, delivered>>
  BY DEF PassTime
<1>2. /\ table' \subseteq QueueRows /\ RowsOK(table', MaxAttempts - 1) /\ MessagesOf(table)' = MessagesOf(table)
  BY <1>1, SoonerRows DEF QueueInv, TypeOK, CopiesInv
<1>3. ASSUME NEW p \in Processes
      PROVE  /\ pending'[p] \in Seq(QueueRows) /\ RowsOK(Elements(pending'[p]), MaxAttempts - 1)
             /\ Buffered(p)' = Buffered(p)
  BY <1>1, AllSoonerRows DEF QueueInv, TypeOK, CopiesInv, Buffered
<1>4. ASSUME NEW t \in Ticks
      PROVE  /\ tick'[t].at = tick[t].at /\ tick'[t].queue = tick[t].queue /\ tick'[t].batch = tick[t].batch
             /\ tick'[t].writing \in Seq(QueueRows) /\ (tick[t].writing = <<>> => tick'[t].writing = <<>>)
             /\ RowsOK(Elements(tick'[t].writing), MaxAttempts - 1)
             /\ Writing(t)' = Writing(t)
             /\ tick'[t] = [at |-> tick[t].at, queue |-> tick[t].queue, batch |-> tick[t].batch,
                            writing |-> tick'[t].writing]
  <2>1. tick[t] \in TickStates /\ RowsOK(Elements(tick[t].writing), MaxAttempts - 1)
    BY DEF QueueInv, TypeOK, CopiesInv
  <2>2. tick'[t] = [tick[t] EXCEPT !.writing = AllSooner(@)] BY <1>1
  <2>3. tick'[t].writing = AllSooner(tick[t].writing) BY <2>1, <2>2 DEF TickStates
  <2>4. QED BY <2>1, <2>2, <2>3, AllSoonerRows DEF Writing, TickStates
<1>5. \A t \in Ticks : Carried(t)' = Carried(t) BY <1>4 DEF Carried, Claimed
<1>6. \A m \in Messages : Held(m)' <=> Held(m) BY <1>3, <1>5 DEF Held, Carried
<1>7. \A m \in Messages : InTable(m)' <=> InTable(m) BY <1>2 DEF InTable
<1>8. PlacesInv' BY <1>1, <1>3, <1>5, <1>6, <1>7 DEF QueueInv, PlacesInv
<1>9. CopiesInv'
  <2>1. RowsOK(table, MaxAttempts - 1)' BY <1>1, <1>2 DEF RowsOK
  <2>2. ASSUME NEW t \in Ticks
        PROVE  RowsOK(tick[t].batch, MaxAttempts)' /\ RowsOK(Elements(tick[t].writing), MaxAttempts - 1)'
    <3>1. tick'[t].batch = tick[t].batch /\ RowsOK(Elements(tick'[t].writing), MaxAttempts - 1) BY <1>4
    <3>2. RowsOK(tick[t].batch, MaxAttempts) BY DEF QueueInv, CopiesInv
    <3>3. QED BY <3>1, <3>2, <1>1 DEF RowsOK
  <2>3. ASSUME NEW p \in Processes PROVE RowsOK(Elements(pending[p]), MaxAttempts - 1)'
    <3>1. RowsOK(Elements(pending'[p]), MaxAttempts - 1) BY <1>3
    <3>2. QED BY <3>1, <1>1 DEF RowsOK
  <2>4. QED BY <2>1, <2>2, <2>3 DEF CopiesInv
<1>10. TypeOK'
  <2>1. pending' \in [Processes -> Seq(QueueRows)] BY <1>1, <1>3
  <2>2. tick' \in [Ticks -> TickStates] BY <1>1, <1>4 DEF QueueInv, TypeOK, TickStates
  <2>3. QED BY <1>1, <1>2, <2>1, <2>2 DEF QueueInv, TypeOK
<1>11. \A t \in Ticks : Phase(t)' BY <1>4 DEF QueueInv, Phase
<1>12. UNCHANGED Outbox!vars BY <1>1, <1>2, <1>6, StayPut
<1>13. QED BY <1>8, <1>9, <1>10, <1>11, <1>12 DEF QueueInv

\* What is left to show of copies when nothing is delivered.
LEMMA CopiesAfter ==
  ASSUME UNCHANGED delivered, RowsOK(table', MaxAttempts - 1),
         \A t \in Ticks : RowsOK(tick'[t].batch, MaxAttempts) /\ RowsOK(Elements(tick'[t].writing), MaxAttempts - 1),
         \A p \in Processes : RowsOK(Elements(pending'[p]), MaxAttempts - 1)
  PROVE  CopiesInv'
BY DEF CopiesInv, RowsOK

\* One tick goes on.
LEMMA PutTick ==
  ASSUME TypeOK, NEW t \in Ticks, NEW h \in TickStates, tick' = [tick EXCEPT ![t] = h]
  PROVE  tick' \in [Ticks -> TickStates] /\ tick'[t] = h /\ \A s \in Ticks \ {t} : tick'[s] = tick[s]
BY DEF TypeOK

LEMMA AfterDrainType ==
  ASSUME NEW q
  PROVE  LET h == AfterDrain(q) IN
         /\ h \in TickStates /\ h.at \in {"idle", "receive"} /\ h.batch = {} /\ h.writing = <<>>
<1>1. <<>> \in Seq(QueueRows) OBVIOUS
<1>2. QED BY <1>1 DEF AfterDrain, Receiving, Resting, TickStates

LEMMA NoRows == ASSUME NEW max PROVE RowsOK({}, max)
BY DEF RowsOK

\* A tick that carries nothing goes on to the next queue, or rests.
LEMMA RestStep ==
  ASSUME QueueInv, NEW t \in Ticks, NEW h \in TickStates, tick' = [tick EXCEPT ![t] = h],
         h.at \in {"idle", "receive"}, h.batch = {}, h.writing = <<>>, Carried(t) = {},
         UNCHANGED <<table, pending, settled, delivered>>
  PROVE  QueueInv' /\ UNCHANGED Outbox!vars
<1>1. tick' \in [Ticks -> TickStates] /\ tick'[t] = h /\ \A s \in Ticks \ {t} : tick'[s] = tick[s]
  BY PutTick DEF QueueInv
<1>2. \A s \in Ticks : Carried(s)' = Carried(s)
  BY <1>1, ElementsEmpty DEF Carried, Claimed, Writing
<1>3. \A p \in Processes : Buffered(p)' = Buffered(p) BY DEF Buffered
<1>4. \A m \in Messages : Held(m)' <=> Held(m) BY <1>2, <1>3 DEF Held, Carried
<1>5. MessagesOf(table)' = MessagesOf(table) /\ \A m \in Messages : InTable(m)' <=> InTable(m) BY DEF MessagesOf, InTable
<1>6. PlacesInv' BY <1>2, <1>3, <1>4, <1>5 DEF QueueInv, PlacesInv
<1>7. CopiesInv' BY <1>1, CopiesAfter, NoRows, ElementsEmpty DEF QueueInv, CopiesInv
<1>8. TypeOK' /\ \A s \in Ticks : Phase(s)' BY <1>1 DEF QueueInv, TypeOK, Phase
<1>9. UNCHANGED Outbox!vars BY <1>4, <1>5, StayPut
<1>10. QED BY <1>6, <1>7, <1>8, <1>9 DEF QueueInv

LEMMA CarriesNothing ==
  ASSUME QueueInv, NEW t \in Ticks
  PROVE  /\ tick[t].at \in {"idle", "receive"} => Carried(t) = {} /\ tick[t].batch = {} /\ tick[t].writing = <<>>
         /\ tick[t].at = "consume" => Writing(t) = {} /\ tick[t].writing = <<>>
         /\ tick[t].at = "flush" => Claimed(t) = {} /\ tick[t].batch = {}
BY ElementsEmpty DEF QueueInv, Phase, Carried, Claimed, Writing

LEMMA IdleSteps ==
  ASSUME QueueInv, NEW t \in Ticks, StartTick(t) \/ SkipQueue(t)
  PROVE  QueueInv' /\ UNCHANGED Outbox!vars
<1>1. CASE StartTick(t)
  <2> DEFINE h == Receiving("extraction")
  <2>1. <<>> \in Seq(QueueRows) OBVIOUS
  <2>2. h \in TickStates /\ h.at = "receive" /\ h.batch = {} /\ h.writing = <<>> BY <2>1 DEF Receiving, TickStates
  <2>3. QED BY <1>1, <2>2, CarriesNothing, RestStep DEF StartTick
<1>2. CASE SkipQueue(t)
  <2>1. tick' = [tick EXCEPT ![t] = AfterDrain(tick[t].queue)] BY <1>2 DEF SkipQueue, QueueInv, TypeOK
  <2> DEFINE h == AfterDrain(tick[t].queue)
  <2>2. h \in TickStates /\ h.at \in {"idle", "receive"} /\ h.batch = {} /\ h.writing = <<>> BY AfterDrainType
  <2>3. Carried(t) = {} /\ UNCHANGED <<table, pending, settled, delivered>> BY <1>2, CarriesNothing DEF SkipQueue
  <2>4. tick' = [tick EXCEPT ![t] = h] BY <2>1
  <2> HIDE DEF h
  <2>5. QED BY <2>2, <2>3, <2>4, RestStep
<1>3. QED BY <1>1, <1>2

\* A claim takes a row of each message it takes, and gives each once.
LEMMA Taken ==
  ASSUME QueueInv, NEW taken \in SUBSET table
  PROVE  /\ MessagesOf(taken) \subseteq Messages /\ MessagesOf(taken) \subseteq MessagesOf(table)
         /\ MessagesOf(table \ taken) = MessagesOf(table) \ MessagesOf(taken)
         /\ \A m \in Messages : Cardinality({r \in taken : r.msg = m}) = IF m \in MessagesOf(taken) THEN 1 ELSE 0
<1>1. table \subseteq QueueRows /\ \A r, x \in table : r.msg = x.msg => r = x
  BY DEF QueueInv, TypeOK, CopiesInv, RowsOK
<1>2. ASSUME NEW m \in Messages
      PROVE  Cardinality({r \in taken : r.msg = m}) = IF m \in MessagesOf(taken) THEN 1 ELSE 0
  <2>1. CASE m \in MessagesOf(taken)
    <3>1. PICK r \in taken : r.msg = m BY <2>1 DEF MessagesOf
    <3>2. {x \in taken : x.msg = m} = {r} BY <1>1, <3>1
    <3>3. QED BY <2>1, <3>2, FS_Singleton
  <2>2. CASE m \notin MessagesOf(taken)
    <3>1. {x \in taken : x.msg = m} = {} BY <2>2 DEF MessagesOf
    <3>2. QED BY <2>2, <3>1, FS_EmptySet
  <2>3. QED BY <2>1, <2>2
<1>3. QED BY <1>1, <1>2 DEF MessagesOf, QueueRows

LEMMA ReceiveStep ==
  ASSUME QueueInv, NEW t \in Ticks, Receive(t)
  PROVE  QueueInv' /\ [Outbox!Next]_Outbox!vars
<1> DEFINE q == tick[t].queue
           taken == FirstDue(q)
           S == MessagesOf(taken)
           Next1(r) == [r EXCEPT !.attempts = @ + 1]
           batch == {Next1(r) : r \in taken}
<1>1. /\ tick[t].at = "receive" /\ Consumes(t) /\ UNCHANGED <<pending, settled>>
      /\ Carried(t) = {} /\ tick[t].batch = {} /\ tick[t].writing = <<>>
      /\ tick[t] \in TickStates
  BY CarriesNothing DEF Receive, QueueInv, TypeOK
<1>2. taken \subseteq table BY DEF FirstDue, DueRows
<1>3. CASE taken = {}
  <2>1. tick' = [tick EXCEPT ![t] = AfterDrain(q)] /\ UNCHANGED <<table, pending, settled, delivered>>
    BY <1>1, <1>3 DEF Receive
  <2>2. QueueInv' /\ UNCHANGED Outbox!vars BY <1>1, <2>1, AfterDrainType, RestStep
  <2>3. QED BY <2>2
<1>4. CASE taken # {}
  <2>1. /\ table' = table \ taken
        /\ delivered' = [m \in Messages |-> delivered[m] + Cardinality({r \in taken : r.msg = m})]
        /\ tick' = [tick EXCEPT ![t].at = "consume", ![t].batch = batch]
    BY <1>4 DEF Receive, Remaining
  <2>2. /\ S \subseteq Messages /\ S \subseteq MessagesOf(table) /\ MessagesOf(table)' = MessagesOf(table) \ S
        /\ delivered' = [m \in Messages |-> IF m \in S THEN delivered[m] + 1 ELSE delivered[m]]
    <3>1. \A m \in Messages : delivered[m] \in Nat BY DEF QueueInv, TypeOK
    <3> HIDE DEF taken
    <3>2. /\ S \subseteq Messages /\ S \subseteq MessagesOf(table)
          /\ MessagesOf(table \ taken) = MessagesOf(table) \ S
          /\ \A m \in Messages : Cardinality({r \in taken : r.msg = m}) = IF m \in S THEN 1 ELSE 0
      BY <1>2, Taken
    <3>3. MessagesOf(table)' = MessagesOf(table \ taken) BY <2>1 DEF MessagesOf
    <3>4. \A m \in Messages : delivered[m] + Cardinality({r \in taken : r.msg = m})
                               = IF m \in S THEN delivered[m] + 1 ELSE delivered[m]
      <4> HIDE DEF S
      <4>1. QED BY <3>1, <3>2
    <3>5. delivered' = [m \in Messages |-> IF m \in S THEN delivered[m] + 1 ELSE delivered[m]]
      <4> HIDE DEF S
      <4>1. QED BY <2>1, <3>4
    <3>6. QED BY <3>2, <3>3, <3>5
  <2>3. S # {} BY <1>4 DEF MessagesOf
  <2>4. \A r \in taken : /\ r \in QueueRows /\ Next1(r) \in QueueRows /\ Next1(r).msg = r.msg /\ r.msg \in S
                         /\ Next1(r).attempts = r.attempts + 1 /\ r.attempts = delivered[r.msg]
                         /\ r.attempts <= MaxAttempts - 1
    BY <1>2 DEF QueueInv, TypeOK, CopiesInv, RowsOK, QueueRows, MessagesOf
  <2>5. batch \subseteq QueueRows /\ MessagesOf(batch) = S
    <3>1. S = {r.msg : r \in taken} BY DEF MessagesOf
    <3>2. MessagesOf(batch) = {r.msg : r \in batch} BY DEF MessagesOf
    <3> HIDE DEF Next1, S, taken
    <3>3. batch \subseteq QueueRows BY <2>4
    <3>4. {r.msg : r \in batch} = {r.msg : r \in taken} BY <2>4
    <3>5. QED BY <3>1, <3>2, <3>3, <3>4
  <2> DEFINE h == [tick[t] EXCEPT !.at = "consume", !.batch = batch]
  <2>6. /\ h \in TickStates /\ h.at = "consume" /\ h.queue = q /\ h.batch = batch /\ h.writing = <<>>
    BY <1>1, <2>5 DEF TickStates
  <2>7. tick' \in [Ticks -> TickStates] /\ tick'[t] = h /\ \A s \in Ticks \ {t} : tick'[s] = tick[s]
    <3>1. tick' = [tick EXCEPT ![t] = h] BY <2>1 DEF QueueInv, TypeOK
    <3>2. QED BY <2>6, <3>1, PutTick DEF QueueInv
  <2> HIDE DEF h
  <2>8. \A s \in Ticks : Carried(s)' = IF s = t THEN S ELSE Carried(s)
    BY <2>5, <2>6, <2>7, ElementsEmpty DEF Carried, Claimed, Writing
  <2>9. \A p \in Processes : Buffered(p)' = Buffered(p) BY <1>1 DEF Buffered
  <2>10. PlacesInv' /\ Outbox!Deliver(S)
    BY <1>1, <2>2, <2>3, <2>8, <2>9, DeliverMove DEF QueueInv
  <2>11. \A m \in S : InTable(m) /\ ~Held(m) BY <2>2 DEF QueueInv, PlacesInv, InTable
  <2>12. \A m \in Messages : m \notin S => delivered'[m] = delivered[m] BY <2>2
  <2>13. RowsOK(table, MaxAttempts - 1)'
    <3>1. \A r \in table' : r \in table /\ r.msg \in Messages /\ r.msg \notin S
      BY <2>1, <2>2 DEF MessagesOf, QueueInv, TypeOK, QueueRows
    <3>2. QED BY <3>1, <2>12 DEF QueueInv, CopiesInv, RowsOK
  <2>14. ASSUME NEW s \in Ticks
         PROVE  RowsOK(tick[s].batch, MaxAttempts)' /\ RowsOK(Elements(tick[s].writing), MaxAttempts - 1)'
    <3>1. CASE s = t
      <4>1. ASSUME NEW r \in batch PROVE r.attempts = delivered'[r.msg] /\ r.attempts <= MaxAttempts
        <5>1. PICK r0 \in taken : r = Next1(r0) OBVIOUS
        <5> HIDE DEF taken, batch, Next1, S
        <5>2. /\ r.msg \in S /\ r.attempts = delivered[r.msg] + 1 /\ r.attempts <= MaxAttempts - 1 + 1
              /\ r0.attempts \in Nat
          BY <2>4, <5>1, Sizes DEF QueueRows
        <5>3. delivered'[r.msg] = delivered[r.msg] + 1 BY <2>2, <5>2
        <5>4. QED BY <5>2, <5>3, Sizes
      <4>2. ASSUME NEW r \in batch, NEW x \in batch, r.msg = x.msg PROVE r = x
        <5>1. PICK r0 \in taken : r = Next1(r0) OBVIOUS
        <5>2. PICK x0 \in taken : x = Next1(x0) OBVIOUS
        <5> HIDE DEF taken, batch, Next1, S
        <5>3. r0.msg = x0.msg BY <2>4, <4>2, <5>1, <5>2
        <5>4. r0 = x0 BY <1>2, <5>3 DEF QueueInv, CopiesInv, RowsOK
        <5>5. QED BY <5>1, <5>2, <5>4
      <4>3. tick'[s].batch = batch /\ tick'[s].writing = <<>> BY <2>6, <2>7, <3>1
      <4> HIDE DEF batch
      <4>4. QED BY <4>1, <4>2, <4>3, ElementsEmpty DEF RowsOK
    <3>2. CASE s # t
      <4>1. tick'[s] = tick[s] BY <2>7, <3>2
      <4>2. \A r \in tick[s].batch \cup Elements(tick[s].writing) : r.msg \in Messages /\ r.msg \notin S
        <5>1. \A r \in tick[s].batch \cup Elements(tick[s].writing) : r \in QueueRows /\ r.msg \in Carried(s)
          BY ElementsType DEF QueueInv, TypeOK, TickStates, Carried, Claimed, Writing, MessagesOf
        <5>2. QED BY <5>1, <2>11, Holders DEF QueueRows
      <4>3. QED BY <4>1, <4>2, <2>12 DEF QueueInv, CopiesInv, RowsOK
    <3>3. QED BY <3>1, <3>2
  <2>15. ASSUME NEW p \in Processes PROVE RowsOK(Elements(pending[p]), MaxAttempts - 1)'
    <3>1. \A r \in Elements(pending[p]) : r \in QueueRows /\ r.msg \in Buffered(p)
      BY ElementsType DEF QueueInv, TypeOK, Buffered, MessagesOf
    <3>2. \A r \in Elements(pending[p]) : r.msg \in Messages /\ r.msg \notin S BY <3>1, <2>11, Holders DEF QueueRows
    <3>3. QED BY <3>2, <2>12, <1>1 DEF QueueInv, CopiesInv, RowsOK
  <2>16. CopiesInv' BY <2>13, <2>14, <2>15 DEF CopiesInv
  <2>17. TypeOK'
    <3>1. delivered' \in [Messages -> Nat] BY <2>2 DEF QueueInv, TypeOK
    <3>2. QED BY <3>1, <1>1, <2>1, <2>7 DEF QueueInv, TypeOK
  <2>18. \A s \in Ticks : Phase(s)'
    <3>1. q \in Queues BY <1>1, SqlJobQueueAssumption DEF Consumes
    <3>2. QED BY <3>1, <2>6, <2>7 DEF QueueInv, Phase
  <2>19. Outbox!Next BY <2>10, <2>2 DEF Outbox!Next
  <2>20. QED BY <2>10, <2>16, <2>17, <2>18, <2>19 DEF QueueInv
<1>5. QED BY <1>3, <1>4

\* A message of a batch is done with.
LEMMA DoneWith ==
  ASSUME QueueInv, NEW t \in Ticks, NEW r \in tick[t].batch, tick[t].at = "consume", Done(t, r)
  PROVE  /\ r \in QueueRows /\ r.msg \in Carried(t) /\ r.attempts = delivered[r.msg] /\ r.attempts <= MaxAttempts
         /\ tick' \in [Ticks -> TickStates] /\ \A s \in Ticks : Phase(s)'
         /\ \A s \in Ticks : Carried(s)' = IF s = t THEN Carried(s) \ {r.msg} ELSE Carried(s)
         /\ \A s \in Ticks : RowsOK(tick'[s].batch, MaxAttempts) /\ RowsOK(Elements(tick'[s].writing), MaxAttempts - 1)
<1> DEFINE h == [tick[t] EXCEPT !.batch = @ \ {r}]
<1>1. /\ tick[t] \in TickStates /\ RowsOK(tick[t].batch, MaxAttempts) /\ Writing(t) = {} /\ tick[t].writing = <<>>
  BY CarriesNothing DEF QueueInv, TypeOK, CopiesInv
<1>2. /\ h \in TickStates /\ h.at = "consume" /\ h.queue = tick[t].queue /\ h.batch = tick[t].batch \ {r}
      /\ h.writing = <<>>
  BY <1>1 DEF TickStates
<1>3. tick' \in [Ticks -> TickStates] /\ tick'[t] = h /\ \A s \in Ticks \ {t} : tick'[s] = tick[s]
  <2>1. tick' = [tick EXCEPT ![t] = h] BY DEF Done, QueueInv, TypeOK
  <2> HIDE DEF h
  <2>2. QED BY <1>2, <2>1, PutTick DEF QueueInv
<1> HIDE DEF h
<1>4. /\ r \in QueueRows /\ r.attempts = delivered[r.msg] /\ r.attempts <= MaxAttempts
      /\ r.msg \in Carried(t)
  BY <1>1 DEF TickStates, RowsOK, Carried, Claimed, MessagesOf
<1>5. MessagesOf(tick[t].batch \ {r}) = MessagesOf(tick[t].batch) \ {r.msg} BY <1>1 DEF RowsOK, MessagesOf
<1>6. \A s \in Ticks : Carried(s)' = IF s = t THEN Carried(s) \ {r.msg} ELSE Carried(s)
  BY <1>1, <1>2, <1>3, <1>5, ElementsEmpty DEF Carried, Claimed, Writing
<1>7. \A s \in Ticks : RowsOK(tick'[s].batch, MaxAttempts) /\ RowsOK(Elements(tick'[s].writing), MaxAttempts - 1)
  <2>1. RowsOK(tick[t].batch \ {r}, MaxAttempts) BY <1>1 DEF RowsOK
  <2>2. QED BY <1>2, <1>3, <2>1, NoRows, ElementsEmpty DEF QueueInv, CopiesInv
<1>8. \A s \in Ticks : Phase(s)' BY <1>2, <1>3 DEF QueueInv, Phase
<1>9. QED BY <1>3, <1>4, <1>6, <1>7, <1>8

\* A message of a batch is settled, acknowledged or dead.
LEMMA SettleStep ==
  ASSUME QueueInv, NEW t \in Ticks, NEW r \in tick[t].batch, tick[t].at = "consume", Done(t, r),
         NEW how \in {"acked", "dead"}, settled' = [settled EXCEPT ![r.msg] = how],
         UNCHANGED <<table, pending, delivered>>
  PROVE  QueueInv' /\ Outbox!Move({r.msg}, "held", how)
<1> DEFINE m == r.msg
           S == {m}
<1>1. m \in Messages /\ m \in Carried(t) /\ Held(m) BY DoneWith, Holders DEF QueueRows
<1>2. settled' = [x \in Messages |-> IF x \in S THEN how ELSE settled[x]] BY DEF QueueInv, TypeOK
<1>3. \A s \in Ticks : Carried(s)' = IF s = t THEN Carried(s) \ {m} ELSE Carried(s) BY DoneWith
<1>4. \A p \in Processes : Buffered(p)' = Buffered(p) BY DEF Buffered
<1>5. /\ \A s \in Ticks : m \in Carried(s) => s = t
      /\ \A p \in Processes : m \notin Buffered(p)
  BY <1>1 DEF QueueInv, PlacesInv
<1>6. \A x \in Messages : Held(x)' <=> Held(x) /\ x \notin S
  <2>1. \A x \in Messages : Held(x)' <=> (\E s \in Ticks : x \in Carried(s)') \/ (\E q \in Processes : x \in Buffered(q)')
    BY DEF Held, Carried
  <2>2. QED BY <2>1, <1>3, <1>4, <1>5, Holders
<1>7. MessagesOf(table)' = MessagesOf(table) BY DEF MessagesOf
<1> HIDE DEF m, S
<1>8. /\ PlacesInv' /\ \A x \in S : place[x] = "held"
      /\ place' = [x \in Messages |-> IF x \in S THEN how ELSE place[x]]
  <2>1. /\ S \in SUBSET Messages /\ \A x \in S : Held(x)
        /\ \A s \in Ticks : Carried(s)' \subseteq Carried(s)
        /\ \A p \in Processes : Buffered(p)' \subseteq Buffered(p)
    BY <1>1, <1>3, <1>4 DEF S
  <2>2. PlacesInv BY DEF QueueInv
  <2>3. CASE how = "acked"
    <3>1. settled' = [x \in Messages |-> IF x \in S THEN "acked" ELSE settled[x]] BY <1>2, <2>3
    <3>2. UNCHANGED delivered OBVIOUS
    <3>3. PlacesInv' BY <3>1, <3>2, <1>6, <1>7, <2>1, <2>2, EndMove
    <3>4. \A x \in S : place[x] = "held" BY <3>1, <3>2, <1>6, <1>7, <2>1, <2>2, EndMove
    <3>5. place' = [x \in Messages |-> IF x \in S THEN "acked" ELSE place[x]]
      BY <3>1, <3>2, <1>6, <1>7, <2>1, <2>2, EndMove
    <3>6. QED BY <2>3, <3>3, <3>4, <3>5
  <2>4. CASE how = "dead"
    <3>1. settled' = [x \in Messages |-> IF x \in S THEN "dead" ELSE settled[x]] BY <1>2, <2>4
    <3>2. UNCHANGED delivered OBVIOUS
    <3>3. PlacesInv' BY <3>1, <3>2, <1>6, <1>7, <2>1, <2>2, EndMove
    <3>4. \A x \in S : place[x] = "held" BY <3>1, <3>2, <1>6, <1>7, <2>1, <2>2, EndMove
    <3>5. place' = [x \in Messages |-> IF x \in S THEN "dead" ELSE place[x]]
      BY <3>1, <3>2, <1>6, <1>7, <2>1, <2>2, EndMove
    <3>6. QED BY <2>4, <3>3, <3>4, <3>5
  <2>5. QED BY <2>3, <2>4
<1>9. Outbox!Move(S, "held", how) BY <1>8 DEF Outbox!Move, S
<1>10. CopiesInv' BY DoneWith, CopiesAfter DEF QueueInv, CopiesInv
<1>11. TypeOK' /\ \A s \in Ticks : Phase(s)'
  <2>1. settled' \in [Messages -> {"no", "acked", "dead", "lost"}] BY <1>2 DEF QueueInv, TypeOK
  <2>2. QED BY <2>1, DoneWith DEF QueueInv, TypeOK
<1>12. QED BY <1>8, <1>9, <1>10, <1>11 DEF QueueInv, m, S

LEMMA AcknowledgeStep ==
  ASSUME QueueInv, NEW t \in Ticks, NEW r \in tick[t].batch, Acknowledge(t, r)
  PROVE  QueueInv' /\ Outbox!Next
<1>1. r.msg \in Messages BY DoneWith DEF Acknowledge, QueueRows
<1>2. QueueInv' /\ Outbox!Move({r.msg}, "held", "acked") /\ UNCHANGED delivered BY SettleStep DEF Acknowledge
<1>3. QED BY <1>1, <1>2 DEF Outbox!Next, Outbox!Ack

LEMMA RetryStep ==
  ASSUME QueueInv, NEW t \in Ticks, NEW r \in tick[t].batch, Retry(t, r)
  PROVE  QueueInv' /\ [Outbox!Next]_Outbox!vars
<1> DEFINE m == r.msg
           p == ProcessOf[t]
<1>1. tick[t].at = "consume" /\ Done(t, r) /\ UNCHANGED <<table, delivered>> BY DEF Retry
<1>2. /\ r \in QueueRows /\ m \in Messages /\ m \in Carried(t)
      /\ r.attempts = delivered[m] /\ r.attempts <= MaxAttempts /\ p \in Processes
      /\ r.attempts \in Nat /\ delivered[m] \in Nat
  BY <1>1, DoneWith, SqlJobQueueAssumption DEF QueueRows, QueueInv, TypeOK
<1>3. CASE OutOfAttempts(r)
  <2>1. settled' = [settled EXCEPT ![r.msg] = "dead"] /\ UNCHANGED pending BY <1>3 DEF Retry
  <2>2. QueueInv' /\ Outbox!Move({r.msg}, "held", "dead") BY <1>1, <2>1, SettleStep
  <2>3. delivered[m] = MaxAttempts BY <1>2, <1>3, Sizes DEF OutOfAttempts
  <2>4. Outbox!Next BY <1>1, <1>2, <2>2, <2>3 DEF Outbox!Next, Outbox!DeadLetter
  <2>5. QED BY <2>2, <2>4
<1>4. CASE ~OutOfAttempts(r)
  <2> DEFINE x == Row(m, r.attempts, Delay[tick[t].queue])
  <2>1. pending' = [pending EXCEPT ![p] = Append(@, x)] /\ UNCHANGED settled BY <1>4 DEF Retry
  <2>2. r.attempts <= MaxAttempts - 1 BY <1>2, <1>4, Sizes DEF OutOfAttempts
  <2>3. x \in QueueRows /\ x.msg = m /\ x.attempts = r.attempts
    <3>1. tick[t].queue \in Queues BY <1>1 DEF QueueInv, Phase
    <3>2. QED BY <3>1, <1>2, SqlJobQueueAssumption DEF Row, QueueRows
  <2> HIDE DEF x
  <2>4. pending[p] \in Seq(QueueRows) BY <1>2 DEF QueueInv, TypeOK
  <2>5. /\ pending'[p] = Append(pending[p], x) /\ \A q \in Processes \ {p} : pending'[q] = pending[q]
        /\ pending' \in [Processes -> Seq(QueueRows)]
    BY <1>2, <2>1, <2>3, <2>4 DEF QueueInv, TypeOK
  <2>6. /\ Elements(pending'[p]) = Elements(pending[p]) \cup {x}
        /\ MessagesOf(Elements(pending'[p])) = MessagesOf(Elements(pending[p])) \cup {m}
    BY <2>3, <2>4, <2>5, ElementsAppend
  <2>7. \A q \in Processes : Buffered(q)' = IF q = p THEN Buffered(q) \cup {m} ELSE Buffered(q)
    BY <2>5, <2>6 DEF Buffered
  <2>8. \A s \in Ticks : Carried(s)' = IF s = t THEN Carried(s) \ {m} ELSE Carried(s) BY <1>1, DoneWith
  <2>9. MessagesOf(table)' = MessagesOf(table) BY <1>1 DEF MessagesOf
  <2>10. m \notin Buffered(p) BY <1>2 DEF QueueInv, PlacesInv
  <2>11. RowsOK(Elements(pending'[p]), MaxAttempts - 1)
    <3>1. RowsOK(Elements(pending[p]), MaxAttempts - 1) BY <1>2 DEF QueueInv, CopiesInv
    <3>2. \A y \in Elements(pending[p]) : y.msg # m BY <2>10 DEF Buffered, MessagesOf
    <3>3. QED BY <3>1, <3>2, <2>6, <2>3, <2>2, <1>2 DEF RowsOK
  <2> HIDE DEF m, p
  <2>12. PlacesInv' /\ UNCHANGED Outbox!vars BY <1>1, <1>2, <2>1, <2>7, <2>8, <2>9, BufferMove DEF QueueInv
  <2>13. CopiesInv' BY <1>1, <2>5, <2>11, DoneWith, CopiesAfter DEF QueueInv, CopiesInv
  <2>14. TypeOK' /\ \A s \in Ticks : Phase(s)' BY <1>1, <2>1, <2>5, DoneWith DEF QueueInv, TypeOK
  <2>15. QED BY <2>12, <2>13, <2>14 DEF QueueInv
<1>5. QED BY <1>3, <1>4

LEMMA TakeBufferStep ==
  ASSUME QueueInv, NEW t \in Ticks, TakeBuffer(t)
  PROVE  QueueInv' /\ UNCHANGED Outbox!vars
<1> DEFINE p == ProcessOf[t]
<1>1. /\ tick[t].at = "consume" /\ tick[t].batch = {} /\ tick[t].writing = <<>> /\ tick[t] \in TickStates
      /\ UNCHANGED <<table, settled, delivered>> /\ p \in Processes
  BY CarriesNothing, SqlJobQueueAssumption DEF TakeBuffer, QueueInv, TypeOK
<1>2. Carried(t) = {} BY <1>1, ElementsEmpty DEF Carried, Claimed, Writing
<1>3. CASE pending[p] = <<>>
  <2>1. tick' = [tick EXCEPT ![t] = AfterDrain(tick[t].queue)] /\ UNCHANGED pending
    BY <1>3 DEF TakeBuffer, QueueInv, TypeOK
  <2>2. QED BY <1>1, <1>2, <2>1, AfterDrainType, RestStep
<1>4. CASE pending[p] # <<>>
  <2> DEFINE h == [tick[t] EXCEPT !.at = "flush", !.writing = pending[p]]
  <2>1. tick' = [tick EXCEPT ![t] = h] /\ pending' = [pending EXCEPT ![p] = <<>>]
    BY <1>4 DEF TakeBuffer, QueueInv, TypeOK
  <2>2. pending[p] \in Seq(QueueRows) /\ RowsOK(Elements(pending[p]), MaxAttempts - 1)
    BY <1>1 DEF QueueInv, TypeOK, CopiesInv
  <2>3. h \in TickStates /\ h.at = "flush" /\ h.batch = {} /\ h.writing = pending[p]
    BY <1>1, <2>2 DEF TickStates
  <2> HIDE DEF h
  <2>4. tick' \in [Ticks -> TickStates] /\ tick'[t] = h /\ \A s \in Ticks \ {t} : tick'[s] = tick[s]
    BY <2>1, <2>3, PutTick DEF QueueInv
  <2>5. /\ pending' \in [Processes -> Seq(QueueRows)] /\ pending'[p] = <<>>
        /\ \A q \in Processes \ {p} : pending'[q] = pending[q]
    <3>1. <<>> \in Seq(QueueRows) OBVIOUS
    <3>2. QED BY <3>1, <1>1, <2>1 DEF QueueInv, TypeOK
  <2>6. \A s \in Ticks : Carried(s)' = IF s = t THEN Buffered(p) ELSE Carried(s)
    BY <2>3, <2>4, ElementsEmpty DEF Carried, Claimed, Writing, Buffered
  <2>7. \A q \in Processes : Buffered(q)' = IF q = p THEN {} ELSE Buffered(q)
    BY <2>5, ElementsEmpty DEF Buffered
  <2>8. MessagesOf(table)' = MessagesOf(table) BY <1>1 DEF MessagesOf
  <2> HIDE DEF p
  <2>9. PlacesInv' /\ UNCHANGED Outbox!vars BY <1>1, <1>2, <2>6, <2>7, <2>8, WriteMove DEF QueueInv
  <2>10. CopiesInv'
    BY <1>1, <2>2, <2>3, <2>4, <2>5, CopiesAfter, NoRows, ElementsEmpty DEF QueueInv, CopiesInv
  <2>11. TypeOK' /\ \A s \in Ticks : Phase(s)' BY <1>1, <2>3, <2>4, <2>5 DEF QueueInv, TypeOK, Phase
  <2>12. QED BY <2>9, <2>10, <2>11 DEF QueueInv
<1>5. QED BY <1>3, <1>4

LEMMA FlushStep ==
  ASSUME QueueInv, NEW t \in Ticks, Flush(t)
  PROVE  QueueInv' /\ [Outbox!Next]_Outbox!vars
<1> DEFINE rows == Elements(tick[t].writing)
           h == AfterDrain(tick[t].queue)
<1>1. /\ tick[t].at = "flush" /\ tick[t].batch = {} /\ tick[t] \in TickStates
      /\ UNCHANGED <<pending, settled, delivered>> /\ table' = table \cup rows
      /\ tick' = [tick EXCEPT ![t] = h]
  BY CarriesNothing DEF Flush, Insert, Flushed, QueueInv, TypeOK
<1>2. h \in TickStates /\ h.at \in {"idle", "receive"} /\ h.batch = {} /\ h.writing = <<>> BY AfterDrainType
<1>3. /\ rows \subseteq QueueRows /\ RowsOK(rows, MaxAttempts - 1) /\ Carried(t) = MessagesOf(rows)
  BY <1>1, ElementsType, ElementsEmpty DEF QueueInv, TypeOK, CopiesInv, TickStates, Carried, Claimed, Writing
<1> HIDE DEF h, rows
<1>4. tick' \in [Ticks -> TickStates] /\ tick'[t] = h /\ \A s \in Ticks \ {t} : tick'[s] = tick[s]
  BY <1>1, <1>2, PutTick DEF QueueInv
<1>5. \A s \in Ticks : Carried(s)' = IF s = t THEN {} ELSE Carried(s)
  BY <1>2, <1>4, ElementsEmpty DEF Carried, Claimed, Writing
<1>6. \A q \in Processes : Buffered(q)' = Buffered(q) BY <1>1 DEF Buffered
<1>7. MessagesOf(table)' = MessagesOf(table) \cup Carried(t) BY <1>1, <1>3 DEF MessagesOf
<1>8. Carried(t) \subseteq Messages BY <1>3 DEF MessagesOf, QueueRows
<1>9. \A m \in Carried(t) : delivered[m] < MaxAttempts
  BY <1>3, <1>8, Sizes DEF MessagesOf, RowsOK, QueueInv, TypeOK
<1>10. PlacesInv' /\ (Outbox!Return(Carried(t)) \/ UNCHANGED Outbox!vars)
  BY <1>1, <1>5, <1>6, <1>7, <1>8, <1>9, ReturnMove DEF QueueInv
<1>11. RowsOK(table', MaxAttempts - 1)
  <2>1. \A r \in table, x \in rows : r.msg # x.msg
    <3>1. \A r \in table : r.msg \in Messages /\ InTable(r.msg) BY DEF InTable, MessagesOf, QueueInv, TypeOK, QueueRows
    <3>2. \A x \in rows : Held(x.msg) BY <1>3, Holders DEF MessagesOf
    <3>3. QED BY <3>1, <3>2 DEF QueueInv, PlacesInv
  <2>2. RowsOK(table, MaxAttempts - 1) BY DEF QueueInv, CopiesInv
  <2>3. QED BY <1>1, <1>3, <2>1, <2>2 DEF RowsOK
<1>12. CopiesInv' BY <1>1, <1>2, <1>4, <1>11, CopiesAfter, NoRows, ElementsEmpty DEF QueueInv, CopiesInv
<1>13. TypeOK' /\ \A s \in Ticks : Phase(s)' BY <1>1, <1>2, <1>3, <1>4 DEF QueueInv, TypeOK, Phase
<1>14. [Outbox!Next]_Outbox!vars BY <1>8, <1>10 DEF Outbox!Next
<1>15. QED BY <1>10, <1>12, <1>13, <1>14 DEF QueueInv

\* What a step that failed loses: all that the ticks and buffers it ends held.
LEMMA LoseStep ==
  ASSUME QueueInv, NEW T \in SUBSET Ticks, NEW P \in SUBSET Processes, NEW S, S \subseteq Messages,
         S = {m \in Messages : (\E t \in T : m \in Carried(t)) \/ (\E p \in P : m \in Buffered(p))},
         Lost(S), tick' = [t \in Ticks |-> IF t \in T THEN Resting ELSE tick[t]],
         pending' = [p \in Processes |-> IF p \in P THEN <<>> ELSE pending[p]],
         UNCHANGED <<table, delivered>>
  PROVE  QueueInv' /\ [Outbox!Next]_Outbox!vars
<1>1. Resting \in TickStates /\ Resting.at = "idle" /\ Resting.batch = {} /\ Resting.writing = <<>>
  <2>1. <<>> \in Seq(QueueRows) OBVIOUS
  <2>2. QED BY <2>1 DEF Resting, TickStates
<1>2. \A t \in Ticks : tick'[t] = IF t \in T THEN Resting ELSE tick[t] OBVIOUS
<1>3. \A p \in Processes : pending'[p] = IF p \in P THEN <<>> ELSE pending[p] OBVIOUS
<1>4. \A t \in Ticks : Carried(t)' = IF t \in T THEN {} ELSE Carried(t)
  BY <1>1, <1>2, ElementsEmpty DEF Carried, Claimed, Writing
<1>5. \A p \in Processes : Buffered(p)' = IF p \in P THEN {} ELSE Buffered(p)
  BY <1>3, ElementsEmpty DEF Buffered
<1>6. \A m \in S : Held(m) BY Holders
<1>7. \A m \in Messages : Held(m)' <=> Held(m) /\ m \notin S
  <2>1. \A m \in Messages : Held(m)' <=> (\E t \in Ticks : m \in Carried(t)') \/ (\E p \in Processes : m \in Buffered(p)')
    BY DEF Held, Carried
  <2>2. ASSUME NEW m \in S, NEW t \in Ticks, m \in Carried(t) PROVE t \in T BY <2>2 DEF QueueInv, PlacesInv
  <2>3. ASSUME NEW m \in S, NEW p \in Processes, m \in Buffered(p) PROVE p \in P BY <2>3 DEF QueueInv, PlacesInv
  <2>4. QED BY <2>1, <2>2, <2>3, <1>4, <1>5, Holders
<1>8. MessagesOf(table)' = MessagesOf(table) BY DEF MessagesOf
<1>9. settled' = [m \in Messages |-> IF m \in S THEN "lost" ELSE settled[m]] BY DEF Lost
<1>10. /\ PlacesInv' /\ \A m \in S : place[m] = "held"
       /\ place' = [m \in Messages |-> IF m \in S THEN "lost" ELSE place[m]]
  <2>1. /\ \A t \in Ticks : Carried(t)' \subseteq Carried(t)
        /\ \A p \in Processes : Buffered(p)' \subseteq Buffered(p)
    BY <1>4, <1>5
  <2>2. S \in SUBSET Messages /\ PlacesInv BY DEF QueueInv
  <2>3. QED BY <1>6, <1>7, <1>8, <1>9, <2>1, <2>2, EndMove
<1>11. [Outbox!Next]_Outbox!vars
  <2>1. CASE S = {}
    <3>1. place' = place BY <1>10, <2>1 DEF place
    <3>2. QED BY <3>1 DEF Outbox!vars
  <2>2. CASE S # {} BY <1>10, <2>2 DEF Outbox!Next, Outbox!Lose, Outbox!Move
  <2>3. QED BY <2>1, <2>2
<1>12. CopiesInv'
  BY <1>1, <1>2, <1>3, CopiesAfter, NoRows, ElementsEmpty DEF QueueInv, CopiesInv
<1>13. TypeOK' /\ \A t \in Ticks : Phase(t)'
  <2>1. <<>> \in Seq(QueueRows) OBVIOUS
  <2>2. pending' \in [Processes -> Seq(QueueRows)] BY <2>1 DEF QueueInv, TypeOK
  <2>3. tick' \in [Ticks -> TickStates] BY <1>1 DEF QueueInv, TypeOK
  <2>4. settled' \in [Messages -> {"no", "acked", "dead", "lost"}] BY <1>9 DEF QueueInv, TypeOK
  <2>5. QED BY <1>1, <1>2, <2>2, <2>3, <2>4 DEF QueueInv, TypeOK, Phase
<1>14. QED BY <1>10, <1>11, <1>12, <1>13 DEF QueueInv

LEMMA RowMessages ==
  ASSUME QueueInv
  PROVE  /\ \A t \in Ticks : Claimed(t) \subseteq Messages /\ Writing(t) \subseteq Messages
         /\ \A p \in Processes : Buffered(p) \subseteq Messages
<1>1. ASSUME NEW rows \in SUBSET QueueRows PROVE MessagesOf(rows) \subseteq Messages BY DEF MessagesOf, QueueRows
<1>2. ASSUME NEW t \in Ticks PROVE Claimed(t) \subseteq Messages /\ Writing(t) \subseteq Messages
  <2>1. tick[t].batch \subseteq QueueRows /\ tick[t].writing \in Seq(QueueRows) BY DEF QueueInv, TypeOK, TickStates
  <2>2. Elements(tick[t].writing) \subseteq QueueRows BY <2>1, ElementsType
  <2>3. QED BY <1>1, <2>1, <2>2 DEF Claimed, Writing
<1>3. ASSUME NEW p \in Processes PROVE Buffered(p) \subseteq Messages
  <2>1. Elements(pending[p]) \subseteq QueueRows BY ElementsType DEF QueueInv, TypeOK
  <2>2. QED BY <1>1, <2>1 DEF Buffered
<1>4. QED BY <1>2, <1>3

LEMMA FailFlushStep ==
  ASSUME QueueInv, NEW t \in Ticks, FailFlush(t)
  PROVE  QueueInv' /\ [Outbox!Next]_Outbox!vars
<1>1. /\ Lost(Writing(t)) /\ UNCHANGED <<table, pending, delivered>> /\ Carried(t) = Writing(t)
      /\ tick' = [tick EXCEPT ![t] = Resting]
  BY CarriesNothing DEF FailFlush, Carried
<1>2. tick' = [s \in Ticks |-> IF s \in {t} THEN Resting ELSE tick[s]] BY <1>1 DEF QueueInv, TypeOK
<1>3. pending' = [p \in Processes |-> IF p \in {} THEN <<>> ELSE pending[p]] BY <1>1 DEF QueueInv, TypeOK
<1>4. Writing(t) \subseteq Messages
  BY RowMessages
<1> DEFINE T == {t}
           P == {}
<1>5. Writing(t) = {m \in Messages : (\E s \in T : m \in Carried(s)) \/ (\E p \in P : m \in Buffered(p))}
  BY <1>1, <1>4
<1>6. T \in SUBSET Ticks /\ P \in SUBSET Processes OBVIOUS
<1> HIDE DEF T, P
<1>7. /\ tick' = [s \in Ticks |-> IF s \in T THEN Resting ELSE tick[s]]
      /\ pending' = [p \in Processes |-> IF p \in P THEN <<>> ELSE pending[p]]
  BY <1>2, <1>3 DEF T, P
<1>8. QED BY <1>1, <1>4, <1>5, <1>6, <1>7, LoseStep

LEMMA DieStep ==
  ASSUME QueueInv, NEW p \in Processes, Die(p)
  PROVE  QueueInv' /\ [Outbox!Next]_Outbox!vars
<1> DEFINE mine == {t \in Ticks : ProcessOf[t] = p}
           P == {p}
           S == Buffered(p) \cup UNION {Claimed(t) \cup Writing(t) : t \in mine}
<1>1. /\ Lost(S) /\ tick' = [t \in Ticks |-> IF t \in mine THEN Resting ELSE tick[t]]
      /\ pending' = [pending EXCEPT ![p] = <<>>] /\ UNCHANGED <<table, delivered>>
  BY DEF Die
<1>2. pending' = [q \in Processes |-> IF q \in P THEN <<>> ELSE pending[q]] BY <1>1 DEF QueueInv, TypeOK
<1>3. mine \in SUBSET Ticks /\ P \in SUBSET Processes OBVIOUS
<1>4. /\ \A t \in Ticks : Claimed(t) \subseteq Messages /\ Writing(t) \subseteq Messages
      /\ \A q \in Processes : Buffered(q) \subseteq Messages
  BY RowMessages
<1>5. S \subseteq Messages
  <2>1. ASSUME NEW m \in S PROVE m \in Messages
    <3>1. m \in Buffered(p) \/ \E t \in mine : m \in Claimed(t) \cup Writing(t) OBVIOUS
    <3>2. QED BY <3>1, <1>4
  <2>2. QED BY <2>1
<1>6. S = {m \in Messages : (\E t \in mine : m \in Carried(t)) \/ (\E q \in P : m \in Buffered(q))}
  BY <1>5 DEF Carried
<1> HIDE DEF mine, P, S
<1>7. QED BY <1>1, <1>2, <1>3, <1>5, <1>6, LoseStep

-------------------------------------------------------------------------------
(* The theorems.                                                           *)

LEMMA QueueInit == Init => QueueInv /\ Outbox!Init
<1> SUFFICES ASSUME Init PROVE QueueInv /\ Outbox!Init OBVIOUS
<1> USE DEF Init
<1>1. <<>> \in Seq(QueueRows) OBVIOUS
<1>2. Resting \in TickStates /\ Resting.at = "idle" /\ Resting.batch = {} /\ Resting.writing = <<>>
  BY <1>1 DEF Resting, TickStates
<1>3. TypeOK /\ \A t \in Ticks : Phase(t) BY <1>1, <1>2 DEF TypeOK, Phase
<1>4. CopiesInv BY <1>2, NoRows, ElementsEmpty DEF CopiesInv
<1>5. (\A t \in Ticks : Carried(t) = {}) /\ \A p \in Processes : Buffered(p) = {}
  BY <1>2, ElementsEmpty DEF Carried, Claimed, Writing, Buffered
<1>6. \A m \in Messages : ~Held(m) /\ ~InTable(m) BY <1>5, Holders, ElementsEmpty DEF InTable
<1>7. PlacesInv BY <1>5, <1>6 DEF PlacesInv
<1>8. Outbox!Init BY <1>6 DEF Outbox!Init, place
<1>9. QED BY <1>3, <1>4, <1>7, <1>8 DEF QueueInv

LEMMA QueueNext ==
  ASSUME QueueInv, [Next]_vars
  PROVE  QueueInv' /\ [Outbox!Next]_Outbox!vars
<1>1. ASSUME NEW m \in Messages, Send(m) PROVE QueueInv' /\ [Outbox!Next]_Outbox!vars
  BY <1>1, SendStep DEF Outbox!Next
<1>2. CASE PassTime BY <1>2, PassTimeStep
<1>3. ASSUME NEW t \in Ticks, StartTick(t) \/ SkipQueue(t) PROVE QueueInv' /\ [Outbox!Next]_Outbox!vars
  BY <1>3, IdleSteps
<1>4. ASSUME NEW t \in Ticks, Receive(t) PROVE QueueInv' /\ [Outbox!Next]_Outbox!vars
  BY <1>4, ReceiveStep
<1>5. ASSUME NEW t \in Ticks, Consume(t) PROVE QueueInv' /\ [Outbox!Next]_Outbox!vars
  BY <1>5, AcknowledgeStep, RetryStep DEF Consume
<1>6. ASSUME NEW t \in Ticks, TakeBuffer(t) PROVE QueueInv' /\ [Outbox!Next]_Outbox!vars
  BY <1>6, TakeBufferStep
<1>7. ASSUME NEW t \in Ticks, Flush(t) \/ FailFlush(t) PROVE QueueInv' /\ [Outbox!Next]_Outbox!vars
  BY <1>7, FlushStep, FailFlushStep
<1>8. ASSUME NEW p \in Processes, Die(p) PROVE QueueInv' /\ [Outbox!Next]_Outbox!vars
  BY <1>8, DieStep
<1>9. CASE UNCHANGED vars
  <2>1. \A m \in Messages : InTable(m)' <=> InTable(m)
    BY <1>9 DEF vars, InTable, MessagesOf
  <2>2. \A t \in Ticks : Carried(t)' = Carried(t) BY <1>9 DEF vars, Carried, Claimed, Writing
  <2>3. \A p \in Processes : Buffered(p)' = Buffered(p) BY <1>9 DEF vars, Buffered
  <2>4. \A m \in Messages : Held(m)' <=> Held(m) BY <2>2, <2>3 DEF Held, Carried
  <2>5. PlacesInv' BY <1>9, <2>1, <2>2, <2>3, <2>4 DEF vars, QueueInv, PlacesInv
  <2>6. TypeOK' /\ CopiesInv' /\ \A t \in Ticks : Phase(t)'
    BY <1>9 DEF vars, QueueInv, TypeOK, CopiesInv, RowsOK, Phase
  <2>7. UNCHANGED Outbox!vars BY <1>9, <2>1, <2>4, StayPut DEF vars, MessagesOf
  <2>8. QED BY <2>5, <2>6, <2>7 DEF QueueInv
<1>10. QED BY <1>1, <1>2, <1>3, <1>4, <1>5, <1>6, <1>7, <1>8, <1>9 DEF Next, Step

(* However ticks overlap, statements fail and processes die, a message is    *)
(* in the table, in one batch or in one buffer, or settled, and never in two  *)
(* of them: a row is claimed once (queue.ts, receive), and a retry is written *)
(* back by one flush.                                                       *)
THEOREM OnePlaceForEach == Spec => []PlacesInv
<1>1. Init => QueueInv BY QueueInit
<1>2. QueueInv /\ [Next]_vars => QueueInv' BY QueueNext
<1>3. QueueInv => PlacesInv BY DEF QueueInv
<1>4. QED BY <1>1, <1>2, <1>3, PTL DEF Spec

(* A message is delivered MaxAttempts times at most, and each copy of it      *)
(* carries the number of its deliveries (queue.ts, the attempts column).     *)
THEOREM AttemptsAreCounted == Spec => []CopiesInv
<1>1. Init => QueueInv BY QueueInit
<1>2. QueueInv /\ [Next]_vars => QueueInv' BY QueueNext
<1>3. QueueInv => CopiesInv BY DEF QueueInv
<1>4. QED BY <1>1, <1>2, <1>3, PTL DEF Spec

(* The table, the batches and the buffers together are the job queue that    *)
(* core/queue/port.ts promises, whatever the constants: each step is a step  *)
(* of it or is not seen.                                                     *)
THEOREM ImplementsQueue == Spec => ImplementsJobQueue
<1>1. Init => QueueInv /\ Outbox!Init BY QueueInit
<1>2. QueueInv /\ [Next]_vars => QueueInv' /\ [Outbox!Next]_Outbox!vars BY QueueNext
<1>3. Spec => Outbox!Spec BY <1>1, <1>2, PTL DEF Spec, Outbox!Spec
<1>4. QED BY <1>3 DEF ImplementsJobQueue


-------------------------------------------------------------------------------
(* The command line client: its state.                                     *)

Credentials == [access : Tokens, refresh : Tokens]
Owners == Ids \cup {Project}
Encodings == {"gzip", None}
FileSizes == {"single", "multi", "huge"}
Pieces == {Empty} \cup {<<"raw", k>> : k \in 1..Parts} \cup {<<"gz", k>> : k \in 1..Parts}
Bodies == [1..Parts -> Pieces]
UploadStates == [owner : Owners, encoding : Encodings]
AssetStates == [owner : Owners \cup {None}, encoding : Encodings, body : Bodies]
Openings == [owner : Owners, size : FileSizes]
CommandStates ==
  [at : {"idle", "probe", "put"} \cup Asking, of : Invocations \cup {None}, id : Uploads \cup {None},
   header : Tokens \cup Ids \cup {None}, sub : {"token", "save", None}, creds : Credentials \cup {None},
   etags : SUBSET (1..Parts), tries : [1..Parts -> Nat], refused : BOOLEAN]

FilesOK ==
  /\ credentials \in Credentials \cup {None, Blank} /\ sessionFile \in Ids \cup {None}
  /\ age \in [Tokens -> {"unissued", "fresh", "closing", "expired"}] /\ refreshable \subseteq Tokens
  /\ calm \in BOOLEAN /\ spoiled \in BOOLEAN /\ faults \in Nat
ServerOK ==
  /\ live \subseteq Ids /\ minted \subseteq Ids
  /\ upload \in [Uploads -> UploadStates \cup {None}] /\ part \in [Uploads -> Bodies]
  /\ asset \in [Uploads -> AssetStates \cup {None}] /\ opened \in [Uploads -> Openings \cup {None}]
  /\ deployed \in [presigned : BOOLEAN, anonymous : BOOLEAN, refresh : Providers]

\* A command waits for an answer with its headers made, or with a refresh under way.
CommandOK(c) ==
  /\ c.at # "idle" => c.of \in Invocations
  /\ c.header # None => c.at \in Asking /\ c.sub = None
  /\ c.sub # None => c.at \in Asking /\ c.creds \in Credentials
  /\ c.at \in {"put", "complete"} => c.id \in Uploads
  /\ c.at \in {"probe", "init", "direct"} => c.etags = {}
  /\ c.refused => c.at = "idle"

CommandsOK == cmd \in [Clients -> CommandStates] /\ \A p \in Clients : CommandOK(cmd[p])
ClientTypeOK == FilesOK /\ ServerOK /\ CommandsOK

-------------------------------------------------------------------------------
(* Names and commands.                                                     *)

LEMMA Names ==
  /\ None \notin Ids /\ None \notin Uploads /\ None # Project /\ Project \notin Ids
  /\ None \notin Tokens /\ Ids \cap Tokens = {} /\ Tokens \subseteq Nat
  /\ None # "token" /\ None # "save" /\ None # "gzip" /\ None # Blank
  /\ None \notin Credentials /\ Blank \notin Credentials /\ None \notin Openings
<1>1. {None, Blank} \cap Credentials = {} BY UploadClientAssumption DEF Credentials, Tokens
<1>2. None \notin Openings BY UploadClientAssumption DEF Openings, Owners, FileSizes
<1>3. MaxTokens \in Nat BY UploadClientAssumption
<1>4. Tokens \subseteq Nat BY <1>3 DEF Tokens
<1> QED BY <1>1, <1>2, <1>4, UploadClientAssumption DEF Tokens

LEMMA Bounds ==
  /\ Parts \in Nat \ {0} /\ GzipParts \in Nat /\ MaxConcurrency \in Nat \ {0} /\ Retries \in Nat
  /\ \A p \in Clients : Commands[p] \subseteq Invocations
  /\ Deployments \subseteq [presigned : BOOLEAN, anonymous : BOOLEAN, refresh : Providers]
BY UploadClientAssumption

LEMMA IdleState == Idle \in CommandStates /\ CommandOK(Idle) /\ Idle.sub = None /\ Idle.header = None /\ Idle.at = "idle"
BY Names DEF Idle, CommandStates, CommandOK, Asking

\* The command of one client is replaced.
LEMMA BecomesStep ==
  ASSUME CommandsOK, NEW p \in Clients, NEW c \in CommandStates, CommandOK(c), Becomes(p, c)
  PROVE  CommandsOK' /\ cmd'[p] = c /\ \A q \in Clients : q # p => cmd'[q] = cmd[q]
<1>1. cmd' \in [Clients -> CommandStates] /\ cmd'[p] = c /\ \A q \in Clients : q # p => cmd'[q] = cmd[q] BY DEF Becomes, CommandsOK
<1>2. \A q \in Clients : CommandOK(cmd'[q])
  <2>1. ASSUME NEW q \in Clients PROVE CommandOK(cmd'[q])
    <3>1. CASE q = p BY <3>1, <1>1
    <3>2. CASE q # p BY <3>2, <1>1 DEF CommandsOK
    <3> QED BY <3>1, <3>2
  <2> QED BY <2>1
<1> QED BY <1>1, <1>2 DEF CommandsOK

LEMMA RefusedState ==
  ASSUME calm \in BOOLEAN, ServerOK, NEW c, c = [Idle EXCEPT !.refused = calm /\ deployed.anonymous]
  PROVE  /\ c \in CommandStates /\ CommandOK(c) /\ c.sub = None /\ c.header = None /\ c.at = "idle"
         /\ c.refused <=> calm /\ deployed.anonymous
<1>1. ASSUME NEW b \in BOOLEAN, c = [Idle EXCEPT !.refused = b]
      PROVE  c \in CommandStates /\ CommandOK(c) /\ c.sub = None /\ c.header = None /\ c.at = "idle" /\ (c.refused <=> b)
  <2>1. Idle.of = None /\ Idle.creds = None BY DEF Idle
  <2>2. c \in CommandStates /\ c.sub = None /\ c.header = None /\ c.at = "idle" /\ c.of = None /\ c.creds = None
    BY <1>1, <2>1, IdleState DEF CommandStates
  <2>3. CommandOK(c) BY <2>2 DEF CommandOK, Asking
  <2>4. CASE b = TRUE BY <2>2, <2>3, <2>4, <1>1, IdleState DEF CommandStates
  <2>5. CASE b = FALSE BY <2>2, <2>3, <2>5, <1>1, IdleState DEF CommandStates
  <2> QED BY <2>4, <2>5
<1>2. CASE calm /\ deployed.anonymous
  <2>1. c = [Idle EXCEPT !.refused = TRUE] BY <1>2
  <2> QED BY <2>1, <1>1, <1>2
<1>3. CASE ~(calm /\ deployed.anonymous)
  <2>1. c = [Idle EXCEPT !.refused = FALSE] BY <1>3
  <2> QED BY <2>1, <1>1, <1>3
<1> QED BY <1>2, <1>3

-------------------------------------------------------------------------------
(* Types, and what a request leaves alone.                                 *)

\* The command goes on to a state that is not refreshing a token.
Moved(p, c) == c \in CommandStates /\ CommandOK(c) /\ c.sub = None /\ Becomes(p, c)

\* A step of a command that has nothing to do with tokens.
Plain(p) ==
  /\ cmd[p].sub = None /\ \E c : Moved(p, c)
  /\ UNCHANGED <<credentials, tokens, deployed, spoiled>>

LEMMA EndMoves ==
  ASSUME ClientTypeOK, NEW p \in Clients, End(p) \/ Refuse(p)
  PROVE  \E c : Moved(p, c) /\ c.at = "idle" /\ c.header = None
<1>1. CASE End(p) BY <1>1, IdleState DEF End, Moved
<1>2. CASE Refuse(p)
  <2> DEFINE c == [Idle EXCEPT !.refused = calm /\ deployed.anonymous]
  <2>1. Becomes(p, c) BY <1>2 DEF Refuse
  <2> HIDE DEF c
  <2>2. c \in CommandStates /\ CommandOK(c) /\ c.sub = None /\ c.header = None /\ c.at = "idle"
    BY RefusedState DEF c, ClientTypeOK, FilesOK
  <2> QED BY <2>1, <2>2 DEF Moved
<1> QED BY <1>1, <1>2

LEMMA SendMoves ==
  ASSUME ClientTypeOK, NEW p \in Clients, Running(p), cmd[p].sub = None, NEW at \in {"put"} \cup Asking, GoTo(p, at),
         at \in {"put", "complete"} => cmd[p].id \in Uploads, at \in {"init", "direct"} => cmd[p].etags = {}
  PROVE  \E c : Moved(p, c) /\ c.at = at /\ c.header = None /\ c.id = cmd[p].id /\ c.etags = cmd[p].etags /\ c.of = cmd[p].of
<1> DEFINE c == [cmd[p] EXCEPT !.at = at, !.header = None]
<1>1. Becomes(p, c) BY DEF GoTo
<1>2. cmd[p] \in CommandStates /\ CommandOK(cmd[p]) /\ cmd[p].at # "idle" BY DEF ClientTypeOK, CommandsOK, Running
<1>3. at \in {"probe", "put"} \cup Asking /\ at # "probe" /\ c = [cmd[p] EXCEPT !.at = at, !.header = None] BY DEF Asking
<1> HIDE DEF c
<1>4. c \in CommandStates /\ c.sub = None /\ c.header = None /\ c.at = at /\ c.creds = cmd[p].creds
      /\ c.id = cmd[p].id /\ c.etags = cmd[p].etags /\ c.of = cmd[p].of /\ c.refused = cmd[p].refused BY <1>2, <1>3 DEF CommandStates
<1>5. CommandOK(c) BY <1>2, <1>3, <1>4 DEF CommandOK
<1> QED BY <1>1, <1>4, <1>5 DEF Moved

\* Whatever the command has become, it keeps its type.
LEMMA MovedType ==
  ASSUME ClientTypeOK, NEW p \in Clients, NEW c, Moved(p, c)
  PROVE  CommandsOK' /\ cmd'[p] = c /\ \A q \in Clients : q # p => cmd'[q] = cmd[q]
BY BecomesStep DEF ClientTypeOK, Moved

LEMMA SessionsStep ==
  ASSUME ClientTypeOK, NEW h \in Tokens \cup Ids, NEW i \in Sessions(h), Issue(h, i), Adopt(h, i)
  PROVE  /\ i \in Ids \cup {None} /\ (i = None <=> h \in Tokens)
         /\ live' \subseteq Ids /\ minted' \subseteq Ids /\ minted \subseteq minted' /\ live \subseteq live'
         /\ sessionFile' \in Ids \cup {None}
<1>1. i \in Ids \cup {None} /\ (i = None <=> h \in Tokens) BY Names DEF Sessions, IsToken, FreshIds, ClientTypeOK, ServerOK
<1>2. live' \subseteq Ids /\ minted' \subseteq Ids /\ minted \subseteq minted' /\ live \subseteq live' BY <1>1 DEF Issue, ClientTypeOK, ServerOK
<1> QED BY <1>1, <1>2 DEF Adopt, ClientTypeOK, FilesOK

LEMMA CreateType ==
  ASSUME ClientTypeOK, NEW p \in Clients, NEW u \in Uploads, CreateUploadSession(p, u)
  PROVE  ClientTypeOK' /\ Plain(p)
<1> DEFINE h == cmd[p].header
<1>1. cmd[p] \in CommandStates /\ CommandOK(cmd[p]) /\ At(p, "init") /\ h # None BY DEF ClientTypeOK, CommandsOK, CreateUploadSession, Ready
<1>2. h \in Tokens \cup Ids /\ cmd[p].sub = None /\ cmd[p].of \in Invocations /\ cmd[p].etags = {} /\ Running(p)
  BY <1>1 DEF CommandStates, CommandOK, At, Running
<1>3. UNCHANGED <<credentials, tokens, deployed, spoiled, calm, faults, part, asset>> BY DEF CreateUploadSession, server, files
<1>4. CASE Unauthorized(h) /\ Refuse(p) /\ UNCHANGED <<files, server, minted>>
  <2>1. \E c : Moved(p, c) BY <1>4, EndMoves
  <2>2. CommandsOK' BY <2>1, MovedType
  <2>3. FilesOK' /\ ServerOK' BY <1>3, <1>4 DEF ClientTypeOK, FilesOK, ServerOK, files, server, tokens
  <2> QED BY <1>2, <1>3, <2>1, <2>2, <2>3 DEF ClientTypeOK, Plain
<1>5. CASE ~Unauthorized(h)
  <2>1. PICK i \in Sessions(h) : /\ Issue(h, i) /\ Adopt(h, i)
             /\ IF Offers(i)
                THEN /\ upload' = [upload EXCEPT ![u] = [owner |-> Owner(i), encoding |-> IF cmd[p].of.gzip THEN "gzip" ELSE None]]
                     /\ opened' = [opened EXCEPT ![u] = [owner |-> Owner(i), size |-> cmd[p].of.size]]
                     /\ Take(p, Becomes(p, [cmd[p] EXCEPT !.at = "put", !.id = u, !.header = None]))
                ELSE /\ UNCHANGED <<upload, opened>>
                     /\ Take(p, IF Denied(i) THEN Refuse(p)
                                ELSE IF cmd[p].of.size = "huge" THEN End(p) ELSE GoTo(p, "direct"))
    BY <1>5 DEF CreateUploadSession
  <2>2. /\ i \in Ids \cup {None} /\ live' \subseteq Ids /\ minted' \subseteq Ids /\ sessionFile' \in Ids \cup {None} BY <2>1, <1>2, SessionsStep
  <2>3. Owner(i) \in Owners BY <2>2 DEF Owner, Owners
  <2>4. upload' \in [Uploads -> UploadStates \cup {None}] /\ opened' \in [Uploads -> Openings \cup {None}]
    BY <2>1, <2>3, <1>2 DEF ClientTypeOK, ServerOK, UploadStates, Openings, Encodings, FileSizes, Invocations
  <2>5. FilesOK' /\ ServerOK' BY <2>2, <2>4, <1>3 DEF ClientTypeOK, FilesOK, ServerOK, tokens
  <2>6. \E c : Moved(p, c)
    <3>1. CASE End(p) \/ Refuse(p) BY <3>1, EndMoves
    <3>2. CASE GoTo(p, "direct") BY <3>2, <1>2, SendMoves DEF Asking
    <3>3. CASE Becomes(p, [cmd[p] EXCEPT !.at = "put", !.id = u, !.header = None])
      <4> DEFINE c == [cmd[p] EXCEPT !.at = "put", !.id = u, !.header = None]
      <4>1. c \in CommandStates /\ c.sub = None /\ c.at = "put" /\ c.id = u /\ c.header = None /\ c.of \in Invocations /\ c.refused = cmd[p].refused
        BY <1>1, <1>2 DEF CommandStates
      <4> HIDE DEF c
      <4>2. CommandOK(c) BY <4>1, <1>1, <1>2 DEF CommandOK, At
      <4> QED BY <4>1, <4>2, <3>3 DEF Moved, c
    <3> QED BY <2>1, <3>1, <3>2, <3>3 DEF Take
  <2>7. CommandsOK' BY <2>6, MovedType
  <2> QED BY <1>2, <1>3, <2>5, <2>6, <2>7 DEF ClientTypeOK, Plain
<1> QED BY <1>4, <1>5 DEF CreateUploadSession

LEMMA ConfigureMoves ==
  ASSUME ClientTypeOK, NEW p \in Clients, Running(p), cmd[p].sub = None, NEW owner, NEW from, Configure(p, owner, from)
  PROVE  \E c : Moved(p, c) /\ c.header = None /\ (c.at # "idle" => owner = Project /\ c.at \in {"patch", "name"})
<1>1. CASE End(p)
  <2>1. PICK c : Moved(p, c) /\ c.at = "idle" /\ c.header = None BY <1>1, EndMoves
  <2> QED BY <2>1
<1>2. CASE owner = Project /\ GoTo(p, "patch") BY <1>2, SendMoves DEF Asking
<1>3. CASE owner = Project /\ GoTo(p, "name") BY <1>3, SendMoves DEF Asking
<1> QED BY <1>1, <1>2, <1>3 DEF Configure

LEMMA CommandState ==
  ASSUME ClientTypeOK, NEW p \in Clients
  PROVE  /\ cmd[p] \in CommandStates /\ CommandOK(cmd[p])
         /\ \A at : Ready(p, at) /\ at \in Asking =>
              /\ cmd[p].header \in Tokens \cup Ids /\ cmd[p].sub = None /\ cmd[p].at = at
              /\ cmd[p].of \in Invocations /\ Running(p) /\ (at \in {"init", "direct"} => cmd[p].etags = {})
              /\ at = "complete" => cmd[p].id \in Uploads
<1>1. cmd[p] \in CommandStates /\ CommandOK(cmd[p]) BY DEF ClientTypeOK, CommandsOK
<1> QED BY <1>1 DEF CommandStates, CommandOK, At, Ready, Running, Asking

LEMMA DoUploadType ==
  ASSUME ClientTypeOK, NEW p \in Clients, NEW o \in Commands[p], DoUpload(p, o)
  PROVE  ClientTypeOK' /\ Plain(p)
<1> DEFINE c == [Idle EXCEPT !.at = "probe", !.of = o]
<1>1. o \in Invocations BY Bounds
<1>2. c \in CommandStates /\ c.sub = None /\ c.at = "probe" /\ c.of = o /\ c.header = None /\ c.etags = {} /\ c.refused = FALSE
  BY <1>1, IdleState DEF CommandStates, Idle
<1>3. Becomes(p, c) BY DEF DoUpload
<1> HIDE DEF c
<1>4. CommandOK(c) BY <1>1, <1>2 DEF CommandOK
<1>5. Moved(p, c) BY <1>2, <1>3, <1>4 DEF Moved
<1>6. cmd[p].sub = None BY CommandState DEF DoUpload, Running, CommandOK, Asking
<1>7. FilesOK' /\ ServerOK' BY DEF DoUpload, ClientTypeOK, FilesOK, ServerOK, files, tokens, server
<1> QED BY <1>5, <1>6, <1>7, MovedType DEF ClientTypeOK, Plain, DoUpload, files, tokens, server

LEMMA ProbeType ==
  ASSUME ClientTypeOK, NEW p \in Clients, Probe(p)
  PROVE  ClientTypeOK' /\ Plain(p)
<1>1. At(p, "probe") BY DEF Probe
<1>2. cmd[p].sub = None /\ Running(p) /\ cmd[p].etags = {} BY <1>1, CommandState DEF At, Running, CommandOK, Asking
<1>3. \E c : Moved(p, c)
  <2>1. CASE End(p) BY <2>1, EndMoves
  <2>2. CASE GoTo(p, "direct") BY <2>2, <1>2, SendMoves DEF Asking
  <2>3. CASE GoTo(p, "init") BY <2>3, <1>2, SendMoves DEF Asking
  <2> QED BY <2>1, <2>2, <2>3 DEF Probe
<1>4. FilesOK' /\ ServerOK' BY DEF Probe, Fault, ClientTypeOK, FilesOK, ServerOK, files, tokens, server
<1> QED BY <1>2, <1>3, <1>4, MovedType DEF ClientTypeOK, Plain, Probe, files, tokens, server

LEMMA PieceType == ASSUME NEW k \in 1..Parts, NEW gz PROVE Cut(gz, k) \in Pieces
BY DEF Cut, Pieces

LEMMA PutObjectType ==
  ASSUME ClientTypeOK, NEW p \in Clients, PutObject(p)
  PROVE  ClientTypeOK' /\ Plain(p)
<1>1. At(p, "put") BY DEF PutObject
<1>2. cmd[p].sub = None /\ Running(p) /\ cmd[p].id \in Uploads BY <1>1, CommandState DEF At, Running, CommandOK, Asking
<1>3. \E c : Moved(p, c)
  <2>1. CASE End(p) BY <2>1, EndMoves
  <2>2. CASE GoTo(p, "complete") BY <2>2, <1>2, SendMoves DEF Asking
  <2> QED BY <2>1, <2>2 DEF PutObject
<1>4. \A k \in 1..Parts : Chunk(p, k) \in Pieces BY PieceType DEF Chunk
<1>5. part' \in [Uploads -> Bodies] BY <1>2, <1>4 DEF PutObject, ClientTypeOK, ServerOK, Bodies
<1>6. FilesOK' /\ ServerOK' BY <1>5 DEF PutObject, Fault, ClientTypeOK, FilesOK, ServerOK, files, tokens, server
<1> QED BY <1>2, <1>3, <1>6, MovedType DEF ClientTypeOK, Plain, PutObject, files, tokens, server

LEMMA PutPartType ==
  ASSUME ClientTypeOK, NEW p \in Clients, NEW k \in 1..Parts, PutPart(p, k)
  PROVE  ClientTypeOK' /\ Plain(p)
<1>1. At(p, "put") BY DEF PutPart
<1>2. cmd[p].sub = None /\ Running(p) /\ cmd[p].id \in Uploads /\ cmd[p] \in CommandStates /\ CommandOK(cmd[p])
  BY <1>1, CommandState DEF At, Running, CommandOK, Asking
<1>3. \E c : Moved(p, c)
  <2>1. CASE End(p) BY <2>1, EndMoves
  <2>2. ASSUME NEW c \in CommandStates, Becomes(p, c), c.at = "put", c.id = cmd[p].id, c.of = cmd[p].of, c.header = cmd[p].header,
               c.sub = None, c.refused = cmd[p].refused
        PROVE  Moved(p, c)
    BY <2>2, <1>1, <1>2 DEF Moved, CommandOK, At
  <2>3. CASE Becomes(p, [cmd[p] EXCEPT !.etags = @ \cup {k}, !.tries[k] = 0])
    <3> DEFINE t == [cmd[p].tries EXCEPT ![k] = 0]
               c == [cmd[p] EXCEPT !.etags = cmd[p].etags \cup {k}, !.tries = t]
    <3>1. cmd[p].tries \in [1..Parts -> Nat] /\ cmd[p].etags \cup {k} \subseteq 1..Parts BY <1>2 DEF CommandStates
    <3>2. t \in [1..Parts -> Nat] BY <3>1
    <3>3. Becomes(p, c) BY <2>3
    <3> HIDE DEF t
    <3>4. c \in CommandStates /\ c.at = "put" /\ c.id = cmd[p].id /\ c.of = cmd[p].of /\ c.header = cmd[p].header
          /\ c.sub = None /\ c.refused = cmd[p].refused BY <1>1, <1>2, <3>1, <3>2 DEF CommandStates, At
    <3> QED BY <3>3, <3>4, <2>2
  <2>4. CASE Becomes(p, [cmd[p] EXCEPT !.tries[k] = @ + 1])
    <3> DEFINE t == [cmd[p].tries EXCEPT ![k] = cmd[p].tries[k] + 1]
               c == [cmd[p] EXCEPT !.tries = t]
    <3>1. cmd[p].tries \in [1..Parts -> Nat] /\ cmd[p].etags \cup {k} \subseteq 1..Parts BY <1>2 DEF CommandStates
    <3>2. t \in [1..Parts -> Nat]
      <4> DEFINE n == cmd[p].tries[k]
      <4>1. n \in Nat BY <3>1
      <4> HIDE DEF n
      <4>2. n + 1 \in Nat BY <4>1
      <4> QED BY <3>1, <4>2 DEF n
    <3>3. Becomes(p, c) BY <2>4
    <3> HIDE DEF t
    <3>4. c \in CommandStates /\ c.at = "put" /\ c.id = cmd[p].id /\ c.of = cmd[p].of /\ c.header = cmd[p].header
          /\ c.sub = None /\ c.refused = cmd[p].refused BY <1>1, <1>2, <3>1, <3>2 DEF CommandStates, At
    <3> QED BY <3>3, <3>4, <2>2
  <2> QED BY <2>1, <2>3, <2>4 DEF PutPart
<1>4. Chunk(p, k) \in Pieces BY PieceType DEF Chunk
<1>5. part' = part \/ part' = [part EXCEPT ![cmd[p].id][k] = Chunk(p, k)] BY DEF PutPart
<1>6. part' \in [Uploads -> Bodies]
  <2>1. part \in [Uploads -> Bodies] /\ part[cmd[p].id] \in Bodies BY <1>2 DEF ClientTypeOK, ServerOK
  <2>2. [part[cmd[p].id] EXCEPT ![k] = Chunk(p, k)] \in Bodies BY <2>1, <1>4 DEF Bodies
  <2> QED BY <1>5, <2>1, <2>2
<1>7. FilesOK' /\ ServerOK' BY <1>6 DEF PutPart, Fault, ClientTypeOK, FilesOK, ServerOK, files, tokens, server
<1> QED BY <1>2, <1>3, <1>7, MovedType DEF ClientTypeOK, Plain, PutPart, files, tokens, server

LEMMA PartsDoneType ==
  ASSUME ClientTypeOK, NEW p \in Clients, PartsDone(p)
  PROVE  ClientTypeOK' /\ Plain(p)
<1>1. At(p, "put") BY DEF PartsDone
<1>2. cmd[p].sub = None /\ Running(p) /\ cmd[p].id \in Uploads BY <1>1, CommandState DEF At, Running, CommandOK, Asking
<1>3. \E c : Moved(p, c) BY <1>2, SendMoves DEF Asking, PartsDone
<1>4. FilesOK' /\ ServerOK' BY DEF PartsDone, ClientTypeOK, FilesOK, ServerOK, files, tokens, server
<1> QED BY <1>2, <1>3, <1>4, MovedType DEF ClientTypeOK, Plain, PartsDone, files, tokens, server

LEMMA CompletedType ==
  ASSUME ClientTypeOK, NEW p \in Clients, cmd[p].id \in Uploads, upload[cmd[p].id] \in UploadStates, NEW i \in Ids \cup {None}
  PROVE  Completed(p, i) \in AssetStates
<1> DEFINE u == cmd[p].id
           b == [k \in 1..Parts |-> IF cmd[p].of.size = "single" \/ k \in cmd[p].etags THEN part[u][k] ELSE Empty]
           o == IF upload[u].owner = Project THEN Project ELSE i
<1>1. part[u] \in Bodies /\ upload[u].encoding \in Encodings BY DEF ClientTypeOK, ServerOK, UploadStates
<1>2. b \in Bodies
  <2>1. \A k \in 1..Parts : part[u][k] \in Pieces /\ Empty \in Pieces BY <1>1 DEF Bodies, Pieces
  <2> QED BY <2>1 DEF Bodies
<1>3. o \in Owners \cup {None} BY DEF Owners
<1>4. Completed(p, i) = [owner |-> o, encoding |-> upload[u].encoding, body |-> b] BY DEF Completed
<1> HIDE DEF b, o
<1> QED BY <1>1, <1>2, <1>3, <1>4 DEF AssetStates

LEMMA CompleteType ==
  ASSUME ClientTypeOK, NEW p \in Clients, upload[cmd[p].id] \in UploadStates, CompleteUploadSession(p)
  PROVE  ClientTypeOK' /\ Plain(p)
<1> DEFINE h == cmd[p].header
           u == cmd[p].id
<1>1. Ready(p, "complete") BY DEF CompleteUploadSession
<1>2. h \in Tokens \cup Ids /\ cmd[p].sub = None /\ cmd[p].of \in Invocations /\ Running(p) /\ u \in Uploads
  BY <1>1, CommandState DEF Asking
<1>3. UNCHANGED <<credentials, tokens, deployed, spoiled, calm, opened>> BY DEF CompleteUploadSession, server, files
<1>4. CASE Unauthorized(h) /\ Refuse(p) /\ UNCHANGED <<files, server, minted, faults>>
  <2>1. \E c : Moved(p, c) BY <1>4, EndMoves
  <2>2. CommandsOK' BY <2>1, MovedType
  <2>3. FilesOK' /\ ServerOK' BY <1>3, <1>4 DEF ClientTypeOK, FilesOK, ServerOK, files, server, tokens
  <2> QED BY <1>2, <1>3, <2>1, <2>2, <2>3 DEF ClientTypeOK, Plain
<1>5. CASE ~Unauthorized(h)
  <2>1. PICK i \in Sessions(h) : /\ Issue(h, i) /\ Adopt(h, i)
             /\ IF ~MayComplete(u, i) THEN UNCHANGED <<upload, part, asset, faults>> /\ Take(p, Refuse(p))
                ELSE \/ /\ asset' = [asset EXCEPT ![u] = Completed(p, i)] /\ Forget(u) /\ UNCHANGED faults
                        /\ Take(p, Configure(p, Completed(p, i).owner, "upload"))
                     \/ /\ Fault /\ asset' \in {asset, [asset EXCEPT ![u] = Completed(p, i)]}
                        /\ End(p) /\ UNCHANGED <<upload, part>>
    BY <1>5 DEF CompleteUploadSession
  <2>2. /\ i \in Ids \cup {None} /\ live' \subseteq Ids /\ minted' \subseteq Ids /\ sessionFile' \in Ids \cup {None} BY <2>1, <1>2, SessionsStep
  <2>3. Completed(p, i) \in AssetStates BY <1>2, <2>2, CompletedType
  <2>4. asset' \in [Uploads -> AssetStates \cup {None}]
    <3>1. asset' = asset \/ asset' = [asset EXCEPT ![u] = Completed(p, i)] BY <2>1
    <3> QED BY <2>3, <3>1 DEF ClientTypeOK, ServerOK
  <2>5. upload' \in [Uploads -> UploadStates \cup {None}] /\ part' \in [Uploads -> Bodies]
    <3>1. NoParts \in Bodies BY DEF NoParts, Bodies, Pieces
    <3> QED BY <2>1, <3>1 DEF ClientTypeOK, ServerOK, Forget
  <2>6. faults' \in Nat BY <2>1 DEF Fault, ClientTypeOK, FilesOK
  <2>7. FilesOK' /\ ServerOK' BY <2>2, <2>4, <2>5, <2>6, <1>3 DEF ClientTypeOK, FilesOK, ServerOK, tokens
  <2>8. \E c : Moved(p, c)
    <3>1. CASE End(p) \/ Refuse(p) BY <3>1, EndMoves
    <3>2. CASE Configure(p, Completed(p, i).owner, "upload") BY <3>2, <1>2, ConfigureMoves
    <3> QED BY <2>1, <3>1, <3>2 DEF Take
  <2>9. CommandsOK' BY <2>8, MovedType
  <2> QED BY <1>2, <1>3, <2>7, <2>8, <2>9 DEF ClientTypeOK, Plain
<1> QED BY <1>4, <1>5 DEF CompleteUploadSession

\* An upload in one request: on with the site's options, or over.
LEMMA DirectMoves ==
  ASSUME ClientTypeOK, NEW p \in Clients, NEW u \in Uploads, Ready(p, "direct"), NEW c,
         c = [cmd[p] EXCEPT !.at = IF "patch" \in cmd[p].of.want THEN "patch" ELSE "name", !.id = u, !.header = None]
  PROVE  c \in CommandStates /\ CommandOK(c) /\ c.sub = None /\ c.header = None /\ c.at \in {"patch", "name"}
<1>1. cmd[p] \in CommandStates /\ CommandOK(cmd[p]) /\ cmd[p].sub = None /\ cmd[p].of \in Invocations /\ cmd[p].at # "idle" BY CommandState DEF Asking, Running
<1> DEFINE at == IF "patch" \in cmd[p].of.want THEN "patch" ELSE "name"
<1>2. at \in {"patch", "name"} OBVIOUS
<1> HIDE DEF at
<1>3. c \in CommandStates /\ c.sub = None /\ c.header = None /\ c.at \in {"patch", "name"} /\ c.of = cmd[p].of /\ c.refused = cmd[p].refused
  <2>1. c = [cmd[p] EXCEPT !.at = at, !.id = u, !.header = None] BY DEF at
  <2> QED BY <1>1, <1>2, <2>1 DEF CommandStates, Asking
<1>4. CommandOK(c) BY <1>1, <1>3 DEF CommandOK
<1> QED BY <1>3, <1>4

LEMMA DirectType ==
  ASSUME ClientTypeOK, NEW p \in Clients, NEW u \in Uploads, UploadDirect(p, u)
  PROVE  ClientTypeOK' /\ Plain(p)
<1> DEFINE h == cmd[p].header
           a(i) == [owner |-> Owner(i), encoding |-> IF cmd[p].of.gzip THEN "gzip" ELSE None,
                    body |-> [k \in 1..Parts |-> Cut(cmd[p].of.gzip, k)]]
           o(i) == [owner |-> Owner(i), size |-> cmd[p].of.size]
           c == [cmd[p] EXCEPT !.at = IF "patch" \in cmd[p].of.want THEN "patch" ELSE "name", !.id = u, !.header = None]
<1>1. Ready(p, "direct") BY DEF UploadDirect
<1>2. h \in Tokens \cup Ids /\ cmd[p].sub = None /\ cmd[p].of \in Invocations /\ Running(p) BY <1>1, CommandState DEF Asking
<1>3. UNCHANGED <<credentials, tokens, deployed, spoiled, calm, upload, part>> BY DEF UploadDirect, server, files
<1>4. CASE Unauthorized(h) /\ Refuse(p) /\ UNCHANGED <<files, server, minted, faults>>
  <2>1. \E x : Moved(p, x) BY <1>4, EndMoves
  <2>2. CommandsOK' BY <2>1, MovedType
  <2>3. FilesOK' /\ ServerOK' BY <1>3, <1>4 DEF ClientTypeOK, FilesOK, ServerOK, files, server, tokens
  <2> QED BY <1>2, <1>3, <2>1, <2>2, <2>3 DEF ClientTypeOK, Plain
<1>5. CASE ~Unauthorized(h)
  <2>1. PICK i \in Sessions(h) : /\ Issue(h, i) /\ Adopt(h, i)
             /\ IF Denied(i) THEN UNCHANGED <<asset, opened, faults>> /\ Take(p, Refuse(p))
                ELSE /\ asset' = [asset EXCEPT ![u] = a(i)] /\ opened' = [opened EXCEPT ![u] = o(i)]
                     /\ \/ Take(p, IF Owner(i) # Project \/ cmd[p].of.want = {} THEN End(p) ELSE Becomes(p, c)) /\ UNCHANGED faults
                        \/ Fault /\ End(p)
    BY <1>5 DEF UploadDirect
  <2>2. /\ i \in Ids \cup {None} /\ live' \subseteq Ids /\ minted' \subseteq Ids /\ sessionFile' \in Ids \cup {None} BY <2>1, <1>2, SessionsStep
  <2>3. Owner(i) \in Owners BY <2>2 DEF Owner, Owners
  <2>4. a(i) \in AssetStates /\ o(i) \in Openings
    <3>1. [k \in 1..Parts |-> Cut(cmd[p].of.gzip, k)] \in Bodies BY PieceType DEF Bodies
    <3> QED BY <3>1, <2>3, <1>2 DEF AssetStates, Openings, Encodings, FileSizes, Invocations
  <2> HIDE DEF a, o, c
  <2>5. asset' \in [Uploads -> AssetStates \cup {None}] /\ opened' \in [Uploads -> Openings \cup {None}]
    BY <2>1, <2>4 DEF ClientTypeOK, ServerOK
  <2>6. faults' \in Nat BY <2>1 DEF Fault, ClientTypeOK, FilesOK
  <2>7. FilesOK' /\ ServerOK' BY <2>2, <2>5, <2>6, <1>3 DEF ClientTypeOK, FilesOK, ServerOK, tokens
  <2>8. \E x : Moved(p, x)
    <3>1. CASE End(p) \/ Refuse(p) BY <3>1, EndMoves
    <3>2. CASE Becomes(p, c) BY <3>2, <1>1, DirectMoves DEF Moved, c
    <3> QED BY <2>1, <3>1, <3>2 DEF Take
  <2>9. CommandsOK' BY <2>8, MovedType
  <2> QED BY <1>2, <1>3, <2>7, <2>8, <2>9 DEF ClientTypeOK, Plain
<1> QED BY <1>4, <1>5 DEF UploadDirect

LEMMA SiteOptionType ==
  ASSUME ClientTypeOK, NEW p \in Clients, NEW step \in {"patch", "name"}, ApplySiteOption(p, step)
  PROVE  ClientTypeOK' /\ Plain(p)
<1> DEFINE h == cmd[p].header
<1>1. Ready(p, step) BY DEF ApplySiteOption
<1>2. h \in Tokens \cup Ids /\ cmd[p].sub = None /\ cmd[p].of \in Invocations /\ Running(p) BY <1>1, CommandState DEF Asking
<1>3. UNCHANGED <<credentials, tokens, deployed, spoiled, calm, upload, part, asset, opened>> BY DEF ApplySiteOption, files
<1>4. CASE Unauthorized(h) /\ Refuse(p) /\ UNCHANGED <<files, live, minted, faults>>
  <2>1. \E c : Moved(p, c) BY <1>4, EndMoves
  <2>2. CommandsOK' BY <2>1, MovedType
  <2>3. FilesOK' /\ ServerOK' BY <1>3, <1>4 DEF ClientTypeOK, FilesOK, ServerOK, files, server, tokens
  <2> QED BY <1>2, <1>3, <2>1, <2>2, <2>3 DEF ClientTypeOK, Plain
<1>5. CASE ~Unauthorized(h)
  <2>1. PICK i \in Sessions(h) : /\ Issue(h, i) /\ Adopt(h, i)
             /\ \/ i # None /\ Take(p, Refuse(p)) /\ UNCHANGED faults
                \/ i = None /\ Take(p, Configure(p, Project, step)) /\ UNCHANGED faults
                \/ Fault /\ End(p)
    BY <1>5 DEF ApplySiteOption
  <2>2. /\ i \in Ids \cup {None} /\ live' \subseteq Ids /\ minted' \subseteq Ids /\ sessionFile' \in Ids \cup {None} BY <2>1, <1>2, SessionsStep
  <2>3. faults' \in Nat BY <2>1 DEF Fault, ClientTypeOK, FilesOK
  <2>4. FilesOK' /\ ServerOK' BY <2>2, <2>3, <1>3 DEF ClientTypeOK, FilesOK, ServerOK, tokens
  <2>5. \E c : Moved(p, c)
    <3>1. CASE End(p) \/ Refuse(p) BY <3>1, EndMoves
    <3>2. CASE Configure(p, Project, step) BY <3>2, <1>2, ConfigureMoves
    <3> QED BY <2>1, <3>1, <3>2 DEF Take
  <2>6. CommandsOK' BY <2>5, MovedType
  <2> QED BY <1>2, <1>3, <2>4, <2>5, <2>6 DEF ClientTypeOK, Plain
<1> QED BY <1>4, <1>5 DEF ApplySiteOption

\* Who is on file.
LEMMA Loaded ==
  ASSUME ClientTypeOK
  PROVE  /\ LoadCredentials # None => /\ LoadCredentials = credentials /\ credentials \in Credentials
                                      /\ credentials.access \in Tokens /\ credentials.refresh \in Tokens
                                      /\ age[credentials.access] # "expired"
         /\ LoadCredentials = None /\ credentials \in Credentials => age[credentials.access] = "expired"
<1>1. credentials \in Credentials => credentials.access \in Tokens /\ credentials.refresh \in Tokens /\ credentials # None /\ credentials # Blank
  BY Names DEF Credentials
<1> QED BY <1>1 DEF LoadCredentials, Unreadable, ClientTypeOK, FilesOK

\* Headers are made: refused to read the file, a refresh, the token, or a session's id.
LEMMA HeadersType ==
  ASSUME ClientTypeOK, NEW p \in Clients, CommonHeaders(p)
  PROVE  /\ ClientTypeOK' /\ cmd[p].sub = None
         /\ UNCHANGED <<credentials, tokens, server, calm, spoiled, faults>>
         /\ \/ End(p) /\ UNCHANGED <<sessionFile, minted>>
            \/ /\ LoadCredentials # None /\ UNCHANGED <<sessionFile, minted>>
               /\ Becomes(p, [cmd[p] EXCEPT !.sub = "token", !.creds = credentials])
               /\ cmd'[p] = [cmd[p] EXCEPT !.sub = "token", !.creds = credentials]
            \/ /\ LoadCredentials # None /\ UNCHANGED <<sessionFile, minted>>
               /\ Moved(p, [cmd[p] EXCEPT !.header = credentials.access])
            \/ /\ LoadCredentials = None /\ ~Unreadable
               /\ \E i \in Ids : /\ Moved(p, [cmd[p] EXCEPT !.header = i]) /\ sessionFile \in {None, i}
                                 /\ sessionFile' = i /\ minted' = minted \cup {i}
<1>1. cmd[p] \in CommandStates /\ CommandOK(cmd[p]) /\ cmd[p].at \in Asking /\ cmd[p].header = None /\ cmd[p].sub = None BY CommandState DEF CommonHeaders
<1>2. UNCHANGED <<credentials, tokens, server, calm, spoiled, faults>> BY DEF CommonHeaders
<1>3. ASSUME CommandsOK', sessionFile' \in Ids \cup {None}, minted' \subseteq Ids PROVE ClientTypeOK'
  BY <1>2, <1>3 DEF ClientTypeOK, FilesOK, ServerOK, server, tokens
<1>4. ASSUME NEW h \in Tokens \cup Ids PROVE LET c == [cmd[p] EXCEPT !.header = h] IN c \in CommandStates /\ CommandOK(c) /\ c.sub = None
  <2> DEFINE c == [cmd[p] EXCEPT !.header = h]
  <2>1. c \in CommandStates /\ c.at = cmd[p].at /\ c.sub = None /\ c.id = cmd[p].id /\ c.of = cmd[p].of /\ c.etags = cmd[p].etags /\ c.refused = cmd[p].refused
    BY <1>1, <1>4 DEF CommandStates
  <2> HIDE DEF c
  <2>2. CommandOK(c) BY <2>1, <1>1 DEF CommandOK
  <2> QED BY <2>1, <2>2 DEF c
<1>5. CASE End(p) /\ UNCHANGED <<sessionFile, minted>>
  <2>1. CommandsOK' BY <1>5, EndMoves, MovedType
  <2> QED BY <1>1, <1>2, <1>3, <1>5, <2>1 DEF ClientTypeOK, FilesOK, ServerOK
<1>6. CASE LoadCredentials # None /\ Becomes(p, [cmd[p] EXCEPT !.sub = "token", !.creds = LoadCredentials]) /\ UNCHANGED <<sessionFile, minted>>
  <2> DEFINE c == [cmd[p] EXCEPT !.sub = "token", !.creds = credentials]
  <2>1. LoadCredentials = credentials /\ credentials \in Credentials BY <1>6, Loaded
  <2>2. c \in CommandStates /\ c.at = cmd[p].at /\ c.sub = "token" /\ c.creds = credentials /\ c.header = None /\ c.id = cmd[p].id /\ c.of = cmd[p].of
        /\ c.etags = cmd[p].etags /\ c.refused = cmd[p].refused
    BY <1>1, <2>1 DEF CommandStates
  <2>3. Becomes(p, c) BY <1>6, <2>1
  <2> HIDE DEF c
  <2>4. CommandOK(c) BY <2>1, <2>2, <1>1 DEF CommandOK
  <2>5. CommandsOK' /\ cmd'[p] = c BY <2>2, <2>3, <2>4, BecomesStep DEF ClientTypeOK
  <2>6. ClientTypeOK' BY <1>3, <1>6, <2>5 DEF ClientTypeOK, FilesOK, ServerOK
  <2> QED BY <1>1, <1>2, <1>6, <2>3, <2>5, <2>6 DEF c
<1>7. CASE LoadCredentials # None /\ Becomes(p, [cmd[p] EXCEPT !.header = LoadCredentials.access]) /\ UNCHANGED <<sessionFile, minted>>
  <2>1. LoadCredentials = credentials /\ credentials.access \in Tokens BY <1>7, Loaded
  <2>2. Moved(p, [cmd[p] EXCEPT !.header = credentials.access]) BY <1>4, <1>7, <2>1 DEF Moved
  <2>3. CommandsOK' BY <2>2, MovedType
  <2> QED BY <1>1, <1>2, <1>3, <1>7, <2>2, <2>3 DEF ClientTypeOK, FilesOK, ServerOK
<1>8. CASE LoadCredentials = None /\ ~Unreadable /\ \E i \in Ids : /\ Becomes(p, [cmd[p] EXCEPT !.header = i]) /\ sessionFile \in {None, i}
                                                       /\ sessionFile' = i /\ minted' = minted \cup {i}
  <2>1. PICK i \in Ids : Becomes(p, [cmd[p] EXCEPT !.header = i]) /\ sessionFile \in {None, i} /\ sessionFile' = i /\ minted' = minted \cup {i} BY <1>8
  <2>2. Moved(p, [cmd[p] EXCEPT !.header = i]) BY <1>4, <2>1 DEF Moved
  <2>3. CommandsOK' BY <2>2, MovedType
  <2>4. ClientTypeOK' BY <1>3, <2>1, <2>3 DEF ClientTypeOK, ServerOK
  <2> QED BY <1>1, <1>2, <1>8, <2>1, <2>2, <2>4
<1>9. \A i \in IF sessionFile # None THEN {sessionFile} ELSE FreshIds : i \in Ids /\ sessionFile \in {None, i} BY DEF FreshIds, ClientTypeOK, FilesOK
<1>10. \/ End(p) /\ UNCHANGED <<sessionFile, minted>>
       \/ LoadCredentials # None /\ Becomes(p, [cmd[p] EXCEPT !.sub = "token", !.creds = LoadCredentials]) /\ UNCHANGED <<sessionFile, minted>>
       \/ LoadCredentials # None /\ Becomes(p, [cmd[p] EXCEPT !.header = LoadCredentials.access]) /\ UNCHANGED <<sessionFile, minted>>
       \/ LoadCredentials = None /\ ~Unreadable /\ \E i \in Ids : /\ Becomes(p, [cmd[p] EXCEPT !.header = i]) /\ sessionFile \in {None, i}
                                                       /\ sessionFile' = i /\ minted' = minted \cup {i}
  BY <1>9 DEF CommonHeaders, Closing
<1> QED BY <1>5, <1>6, <1>7, <1>8, <1>10

LEMMA Refreshing ==
  ASSUME ClientTypeOK, NEW p \in Clients, cmd[p].sub # None
  PROVE  /\ cmd[p].creds \in Credentials /\ cmd[p].creds.access \in Tokens /\ cmd[p].creds.refresh \in Tokens
         /\ cmd[p].at \in Asking /\ cmd[p].header = None
<1>1. cmd[p].creds \in Credentials /\ cmd[p].at \in Asking /\ cmd[p].header = None BY CommandState DEF CommandOK
<1> QED BY <1>1 DEF Credentials

LEMMA ResumeMoves ==
  ASSUME ClientTypeOK, NEW p \in Clients, cmd[p].sub # None, Resume(p)
  PROVE  /\ Moved(p, cmd'[p]) /\ cmd'[p].header = cmd[p].creds.access /\ cmd'[p].creds = None
         /\ cmd'[p].at = cmd[p].at /\ cmd'[p].id = cmd[p].id /\ cmd'[p].etags = cmd[p].etags /\ cmd'[p].of = cmd[p].of
         /\ cmd'[p].refused = cmd[p].refused
<1> DEFINE d == cmd[p]
           c == [cmd[p] EXCEPT !.sub = None, !.creds = None, !.header = cmd[p].creds.access]
<1>1. d \in CommandStates /\ CommandOK(d) /\ d.at \in Asking BY CommandState, Refreshing
<1>2. /\ c \in CommandStates /\ c.sub = None /\ c.creds = None /\ c.header = cmd[p].creds.access
      /\ c.at = d.at /\ c.id = d.id /\ c.etags = d.etags /\ c.of = d.of /\ c.refused = d.refused
  BY <1>1, Refreshing DEF CommandStates
<1>3. Becomes(p, c) BY DEF Resume
<1> HIDE DEF c
<1>4. CommandOK(c) BY <1>1, <1>2 DEF CommandOK
<1>5. Moved(p, c) BY <1>2, <1>3, <1>4 DEF Moved
<1>6. cmd'[p] = c BY <1>5, MovedType
<1> QED BY <1>2, <1>5, <1>6

LEMMA NextTokenIs == ASSUME NEW n \in Tokens, NextToken(n) PROVE age[n] = "unissued"
BY SMTT(30) DEF NextToken, FreshTokens

\* The provider answers, refuses or is not reached.
LEMMA RefreshType ==
  ASSUME ClientTypeOK, NEW p \in Clients, RefreshAccessToken(p)
  PROVE  /\ ClientTypeOK' /\ cmd[p].sub = "token" /\ UNCHANGED <<files, server, minted, calm>>
         /\ \/ /\ cmd[p].creds.refresh \in refreshable
               /\ \E n \in Tokens : LET kept == IF deployed.refresh = "keeps" THEN cmd[p].creds.refresh ELSE n
                                        c == [cmd[p] EXCEPT !.sub = "save", !.creds = [access |-> n, refresh |-> kept]] IN
                    /\ age[n] = "unissued" /\ age' = [age EXCEPT ![n] = "fresh"]
                    /\ refreshable' = (refreshable \ {cmd[p].creds.refresh}) \cup {kept}
                    /\ cmd'[p] = c /\ c \in CommandStates /\ Becomes(p, c)
               /\ UNCHANGED <<spoiled, faults>>
            \/ /\ Resume(p) /\ UNCHANGED age
               /\ \/ UNCHANGED <<refreshable, spoiled>>
                  \/ spoiled' = TRUE /\ refreshable' \subseteq refreshable
                  \/ /\ deployed.refresh = "revokes" /\ cmd[p].creds.refresh \notin refreshable
                     /\ refreshable' \subseteq refreshable /\ UNCHANGED spoiled
<1> DEFINE old == cmd[p].creds.refresh
<1>1. cmd[p] \in CommandStates /\ CommandOK(cmd[p]) /\ cmd[p].sub = "token" /\ cmd[p].sub # None BY CommandState, Names DEF RefreshAccessToken
<1>2. old \in Tokens /\ cmd[p].at \in Asking /\ cmd[p].header = None BY <1>1, Refreshing
<1>3. UNCHANGED <<files, server, minted, calm>> BY DEF RefreshAccessToken
<1>4. ASSUME CommandsOK', age' \in [Tokens -> {"unissued", "fresh", "closing", "expired"}], refreshable' \subseteq Tokens,
             spoiled' \in BOOLEAN, faults' \in Nat
      PROVE  ClientTypeOK'
  BY <1>3, <1>4 DEF ClientTypeOK, FilesOK, ServerOK, files, server
<1>5. CASE /\ old \in refreshable
           /\ \E n \in Tokens : LET kept == IF deployed.refresh = "keeps" THEN old ELSE n IN
                /\ NextToken(n) /\ age' = [age EXCEPT ![n] = "fresh"]
                /\ refreshable' = (refreshable \ {old}) \cup {kept}
                /\ Answer(p, [access |-> n, refresh |-> kept])
           /\ UNCHANGED <<spoiled, faults>>
  <2> DEFINE kept(n) == IF deployed.refresh = "keeps" THEN old ELSE n
             c(n) == [cmd[p] EXCEPT !.sub = "save", !.creds = [access |-> n, refresh |-> kept(n)]]
  <2>1. PICK n \in Tokens : /\ NextToken(n) /\ age' = [age EXCEPT ![n] = "fresh"]
                            /\ refreshable' = (refreshable \ {old}) \cup {kept(n)}
                            /\ Becomes(p, c(n))
    BY <1>5 DEF Answer
  <2>2. age[n] = "unissued" BY <2>1, NextTokenIs
  <2>3. kept(n) \in Tokens BY <1>2
  <2>4. [access |-> n, refresh |-> kept(n)] \in Credentials BY <2>3 DEF Credentials
  <2>5. c(n) \in CommandStates /\ c(n).at = cmd[p].at /\ c(n).sub = "save" /\ c(n).creds \in Credentials /\ c(n).header = None
        /\ c(n).id = cmd[p].id /\ c(n).of = cmd[p].of /\ c(n).etags = cmd[p].etags /\ c(n).refused = cmd[p].refused
    BY <1>1, <1>2, <2>4 DEF CommandStates
  <2>6. refreshable' \subseteq Tokens BY <2>1, <2>3 DEF ClientTypeOK, FilesOK
  <2>7. age' \in [Tokens -> {"unissued", "fresh", "closing", "expired"}] BY <2>1 DEF ClientTypeOK, FilesOK
  <2> HIDE DEF c, kept
  <2>8. CommandOK(c(n)) BY <2>5, <1>1, <1>2 DEF CommandOK
  <2>9. CommandsOK' /\ cmd'[p] = c(n) BY <2>1, <2>5, <2>8, BecomesStep DEF ClientTypeOK
  <2>10. spoiled' \in BOOLEAN /\ faults' \in Nat BY <1>5 DEF ClientTypeOK, FilesOK
  <2>11. ClientTypeOK' BY <1>4, <2>6, <2>7, <2>9, <2>10
  <2>12. \E m \in Tokens : /\ age[m] = "unissued" /\ age' = [age EXCEPT ![m] = "fresh"]
                          /\ refreshable' = (refreshable \ {old}) \cup {kept(m)}
                          /\ cmd'[p] = c(m) /\ c(m) \in CommandStates /\ Becomes(p, c(m))
    BY <2>1, <2>2, <2>5, <2>9
  <2> QED BY <1>1, <1>3, <1>5, <2>11, <2>12 DEF c, kept
<1>6. CASE /\ old \notin refreshable /\ Resume(p) /\ UNCHANGED <<age, spoiled, faults>>
           /\ refreshable' \in IF deployed.refresh = "revokes" THEN SUBSET refreshable ELSE {refreshable}
  <2>1. CommandsOK' BY <1>1, <1>6, ResumeMoves, MovedType
  <2>2. refreshable' \subseteq refreshable /\ (deployed.refresh # "revokes" => refreshable' = refreshable)
    <3>1. CASE deployed.refresh = "revokes" BY <1>6, <3>1
    <3>2. CASE deployed.refresh # "revokes" BY <1>6, <3>2
    <3> QED BY <3>1, <3>2
  <2>3. ClientTypeOK' BY <1>4, <1>6, <2>1, <2>2 DEF ClientTypeOK, FilesOK
  <2> QED BY <1>1, <1>3, <1>6, <2>2, <2>3
<1>7. CASE Fault /\ Resume(p) /\ spoiled' = TRUE /\ refreshable' \in {refreshable, refreshable \ {old}} /\ UNCHANGED age
  <2>1. CommandsOK' BY <1>1, <1>7, ResumeMoves, MovedType
  <2>2. ClientTypeOK' BY <1>4, <1>7, <2>1 DEF ClientTypeOK, FilesOK, Fault
  <2>3. refreshable' \subseteq refreshable BY <1>7
  <2> QED BY <1>1, <1>3, <1>7, <2>2, <2>3
<1> QED BY <1>5, <1>6, <1>7 DEF RefreshAccessToken

LEMMA SaveType ==
  ASSUME ClientTypeOK, NEW p \in Clients, SaveCredentials(p)
  PROVE  /\ ClientTypeOK' /\ cmd[p].sub = "save" /\ Resume(p) /\ credentials' = cmd[p].creds
         /\ UNCHANGED <<sessionFile, tokens, server, minted, calm, spoiled, faults>>
<1>1. cmd[p].sub = "save" /\ cmd[p].sub # None BY Names DEF SaveCredentials
<1>2. Resume(p) /\ credentials' = cmd[p].creds /\ UNCHANGED <<sessionFile, tokens, server, minted, calm, spoiled, faults>> BY DEF SaveCredentials, Saved
<1>3. CommandsOK' BY <1>1, <1>2, ResumeMoves, MovedType
<1>4. credentials' \in Credentials BY <1>1, <1>2, Refreshing
<1>5. ClientTypeOK' BY <1>2, <1>3, <1>4 DEF ClientTypeOK, FilesOK, ServerOK, tokens, server
<1> QED BY <1>1, <1>2, <1>5

LEMMA InterruptType ==
  ASSUME ClientTypeOK, NEW p \in Clients, Interrupt(p)
  PROVE  ClientTypeOK'
<1>1. CommandsOK' BY EndMoves, MovedType DEF Interrupt
<1>2. faults' \in Nat /\ spoiled' \in BOOLEAN BY DEF Interrupt, Fault, ClientTypeOK, FilesOK
<1> QED BY <1>1, <1>2 DEF Interrupt, ClientTypeOK, FilesOK, ServerOK, files, tokens, server

LEMMA QuietType ==
  ASSUME ClientTypeOK PROVE Quiet \in BOOLEAN
BY DEF Quiet

LEMMA LoginType ==
  ASSUME ClientTypeOK, Login
  PROVE  /\ ClientTypeOK' /\ UNCHANGED <<sessionFile, server, minted, cmd, spoiled, faults>>
         /\ \E n \in Tokens : /\ age[n] = "unissued" /\ credentials' = [access |-> n, refresh |-> n] /\ credentials' \in Credentials
                              /\ age' = [age EXCEPT ![n] = "fresh"] /\ refreshable' = refreshable \cup {n}
<1>1. UNCHANGED <<sessionFile, server, minted, cmd, spoiled, faults>> BY DEF Login
<1>2. PICK n \in Tokens : /\ NextToken(n) /\ credentials' = [access |-> n, refresh |-> n]
                          /\ age' = [age EXCEPT ![n] = "fresh"] /\ refreshable' = refreshable \cup {n}
  BY DEF Login
<1>3. credentials' \in Credentials BY <1>2 DEF Credentials
<1>4. calm' \in BOOLEAN BY DEF Login, ClientTypeOK, FilesOK
<1>5. FilesOK' BY <1>1, <1>2, <1>3, <1>4 DEF ClientTypeOK, FilesOK
<1>6. ServerOK' /\ CommandsOK' BY <1>1 DEF ClientTypeOK, ServerOK, CommandsOK, server
<1> QED BY <1>1, <1>2, <1>3, <1>5, <1>6, NextTokenIs DEF ClientTypeOK

LEMMA LogoutType ==
  ASSUME ClientTypeOK, Logout
  PROVE  ClientTypeOK'
<1>1. calm' \in BOOLEAN /\ faults' \in Nat BY DEF Logout, Fault, ClientTypeOK, FilesOK
<1> QED BY <1>1 DEF Logout, ClientTypeOK, FilesOK, ServerOK, CommandsOK, tokens, server

LEMMA AgeType ==
  ASSUME ClientTypeOK, NEW n \in Tokens, Age(n)
  PROVE  ClientTypeOK'
<1>1. calm' \in BOOLEAN BY DEF Age, ClientTypeOK, FilesOK
<1>2. Older(age[n]) \in {"closing", "expired"} BY DEF Older
<1>3. age' \in [Tokens -> {"unissued", "fresh", "closing", "expired"}] BY <1>2 DEF Age, ClientTypeOK, FilesOK
<1> QED BY <1>1, <1>3 DEF Age, ClientTypeOK, FilesOK, ServerOK, CommandsOK, files, server

LEMMA ExpiryType ==
  ASSUME ClientTypeOK, NEW i \in Ids, SessionExpires(i)
  PROVE  ClientTypeOK'
<1>1. calm' \in BOOLEAN /\ faults' \in Nat /\ live' \subseteq Ids BY DEF SessionExpires, Fault, ClientTypeOK, FilesOK, ServerOK
<1> QED BY <1>1 DEF SessionExpires, ClientTypeOK, FilesOK, ServerOK, CommandsOK, files, tokens, server

LEMMA StutterType == ASSUME ClientTypeOK, UNCHANGED clientVars PROVE ClientTypeOK'
BY DEF clientVars, ClientTypeOK, FilesOK, ServerOK, CommandsOK, files, tokens, server

LEMMA InitType == ASSUME ClientInit PROVE ClientTypeOK
<1>1. FilesOK BY DEF ClientInit, FilesOK
<1>2. [k \in 1..Parts |-> Empty] \in Bodies BY DEF Bodies, Pieces
<1>3. ServerOK BY <1>2, Bounds DEF ClientInit, ServerOK
<1>4. CommandsOK BY IdleState DEF ClientInit, CommandsOK
<1> QED BY <1>1, <1>3, <1>4 DEF ClientTypeOK

-------------------------------------------------------------------------------
(* Refreshing the token.                                                   *)

OnFile == credentials \notin {None, Blank}
Issued == {n \in Tokens : age[n] # "unissued"}
Refreshes(p) == cmd[p].sub # None
Saving(p) == cmd[p].sub = "save"

IssuedInv ==
  /\ refreshable \subseteq Issued /\ (OnFile => credentials.refresh \in Issued)
  /\ \A p \in Clients : Refreshes(p) => cmd[p].creds.refresh \in Issued

\* What the promise is made for: no answer was lost, and with a provider that revokes,
\* commands have run alone.
Promised == ~spoiled /\ (deployed.refresh = "revokes" => calm)

\* A provider that never rotates keeps every refresh token it gave out.
KeepsInv == Promised /\ deployed.refresh = "keeps" =>
  /\ OnFile => credentials.refresh \in refreshable
  /\ \A p \in Clients : Refreshes(p) => cmd[p].creds.refresh \in refreshable

\* One that always does: the token of an answer that is not yet written is accepted, and
\* nobody else has it.
RotatesInv == Promised /\ deployed.refresh # "keeps" =>
  /\ OnFile => credentials.refresh \in refreshable \/ \E p \in Clients : Saving(p)
  /\ \A p \in Clients : Saving(p) =>
       /\ cmd[p].creds.refresh \in refreshable
       /\ OnFile => credentials.refresh # cmd[p].creds.refresh
       /\ \A q \in Clients : q # p /\ Refreshes(q) => cmd[q].creds.refresh # cmd[p].creds.refresh

\* The commands that run, as long as they run alone.
OneCommand == calm => \A p, q \in Clients : Running(p) /\ Running(q) => p = q

\* A command on its own presents the token that is on file.
PresentsInv == calm => \A p \in Clients : cmd[p].sub = "token" => OnFile /\ cmd[p].creds = credentials

RefreshInv == IssuedInv /\ KeepsInv /\ RotatesInv /\ PresentsInv

\* A step that writes no token anywhere and drops no answer.
LEMMA TokensStay ==
  ASSUME RefreshInv, UNCHANGED <<age, deployed>>, OnFile' => UNCHANGED credentials,
         refreshable' = refreshable \/ (~Promised' /\ refreshable' \subseteq refreshable), spoiled => spoiled', calm' => calm,
         calm' /\ OnFile => OnFile' \/ \A p \in Clients : ~Refreshes(p),
         \A p \in Clients : Refreshes(p)' => cmd'[p].sub = cmd[p].sub /\ cmd'[p].creds = cmd[p].creds,
         \A p \in Clients : Saving(p) => Saving(p)' \/ ~Promised'
  PROVE  RefreshInv'
<1>1. OnFile' => OnFile BY DEF OnFile
<1>0. Promised' => Promised BY DEF Promised
<1>2. IssuedInv' BY <1>1 DEF RefreshInv, IssuedInv, Issued, Refreshes, OnFile
<1>3. KeepsInv' BY <1>0, <1>1 DEF RefreshInv, KeepsInv, Refreshes, OnFile
<1>5. PresentsInv'
  <2>1. SUFFICES ASSUME calm', NEW p \in Clients, cmd'[p].sub = "token" PROVE OnFile' /\ cmd'[p].creds = credentials'
    BY DEF PresentsInv
  <2>2. Refreshes(p) /\ Refreshes(p)' /\ cmd[p].sub = "token" /\ cmd'[p].creds = cmd[p].creds BY <2>1, Names DEF Refreshes
  <2>3. OnFile /\ cmd[p].creds = credentials BY <2>1, <2>2 DEF RefreshInv, PresentsInv
  <2> QED BY <2>1, <2>2, <2>3
<1>4. RotatesInv'
  <2>1. SUFFICES ASSUME Promised', deployed.refresh # "keeps"
        PROVE  /\ OnFile' => credentials'.refresh \in refreshable' \/ \E p \in Clients : Saving(p)'
               /\ \A p \in Clients : Saving(p)' =>
                    /\ cmd'[p].creds.refresh \in refreshable'
                    /\ OnFile' => credentials'.refresh # cmd'[p].creds.refresh
                    /\ \A q \in Clients : q # p /\ Refreshes(q)' => cmd'[q].creds.refresh # cmd'[p].creds.refresh
    BY DEF RotatesInv
  <2>2. Promised /\ refreshable' = refreshable BY <1>0, <2>1
  <2>3. \A p \in Clients : Saving(p)' => Refreshes(p)' BY Names DEF Saving, Refreshes
  <2>4. \A p \in Clients : Saving(p)' => Saving(p) /\ cmd'[p].creds = cmd[p].creds BY <2>3 DEF Saving
  <2>5. \A p \in Clients : Refreshes(p)' => Refreshes(p) /\ cmd'[p].creds = cmd[p].creds BY DEF Refreshes
  <2>6. \A p \in Clients : Saving(p) => Saving(p)' BY <2>1
  <2> QED BY <1>1, <2>1, <2>2, <2>4, <2>5, <2>6 DEF RefreshInv, RotatesInv
<1> QED BY <1>2, <1>3, <1>4, <1>5 DEF RefreshInv

LEMMA PlainRefresh ==
  ASSUME ClientTypeOK, RefreshInv, NEW p \in Clients, Plain(p), calm' => calm
  PROVE  RefreshInv'
<1>1. PICK c : Moved(p, c) BY DEF Plain
<1>2. cmd'[p].sub = None /\ \A q \in Clients : q # p => cmd'[q] = cmd[q] BY <1>1, MovedType DEF Moved
<1>3. cmd[p].sub = None BY DEF Plain
<1>4. UNCHANGED <<credentials, age, refreshable, deployed, spoiled>> BY DEF Plain, tokens
<1>5. \A q \in Clients : Refreshes(q)' => cmd'[q].sub = cmd[q].sub /\ cmd'[q].creds = cmd[q].creds BY <1>2 DEF Refreshes
<1>6. \A q \in Clients : Saving(q) => Saving(q)' BY <1>2, <1>3, Names DEF Saving
<1>7. OnFile' <=> OnFile BY <1>4 DEF OnFile
<1> QED BY <1>4, <1>5, <1>6, <1>7, TokensStay

LEMMA HeadersRefresh ==
  ASSUME ClientTypeOK, RefreshInv, NEW p \in Clients, CommonHeaders(p)
  PROVE  RefreshInv'
<1>1. UNCHANGED <<credentials, age, refreshable, deployed, spoiled, calm>> /\ cmd[p].sub = None BY HeadersType DEF CommonHeaders, tokens, server
<1>2. CASE \E c : Moved(p, c) BY <1>1, <1>2, PlainRefresh DEF Plain, tokens
<1>0. Promised' <=> Promised BY <1>1 DEF Promised
<1>3. CASE LoadCredentials # None /\ Becomes(p, [cmd[p] EXCEPT !.sub = "token", !.creds = credentials])
           /\ cmd'[p] = [cmd[p] EXCEPT !.sub = "token", !.creds = credentials]
  <2>1. OnFile BY <1>3, Loaded, Names DEF OnFile
  <2>2. cmd'[p].sub = "token" /\ cmd'[p].creds = credentials BY <1>3, CommandState DEF CommandStates
  <2>3. \A q \in Clients : q # p => cmd'[q] = cmd[q] BY <1>3 DEF Becomes, ClientTypeOK, CommandsOK
  <2>4. OnFile' BY <2>1, <1>1 DEF OnFile
  <2>5. IssuedInv' BY <1>1, <2>1, <2>2, <2>3 DEF RefreshInv, IssuedInv, Issued, Refreshes, OnFile
  <2>6. KeepsInv' BY <1>0, <1>1, <2>1, <2>2, <2>3 DEF RefreshInv, KeepsInv, Refreshes, OnFile
  <2>8. PresentsInv' BY <1>1, <2>1, <2>2, <2>3, <2>4 DEF RefreshInv, PresentsInv
  <2>7. RotatesInv'
    <3>1. \A q \in Clients : Saving(q)' <=> Saving(q) BY <1>1, <2>2, <2>3, Names DEF Saving
    <3>2. \A q \in Clients : Saving(q) => q # p /\ cmd'[q] = cmd[q] BY <1>1, <2>3, Names DEF Saving
    <3> QED BY <1>0, <1>1, <2>1, <2>2, <2>3, <3>1, <3>2 DEF RefreshInv, RotatesInv, Refreshes, OnFile
  <2> QED BY <2>5, <2>6, <2>7, <2>8 DEF RefreshInv
<1>4. End(p) => \E c : Moved(p, c) BY EndMoves
<1> QED BY <1>2, <1>3, <1>4, HeadersType

\* In a command on its own the token on file is accepted, and is the one presented.
LEMMA LonePresents ==
  ASSUME ClientTypeOK, RefreshInv, OneCommand, Promised, deployed.refresh = "revokes", NEW p \in Clients, cmd[p].sub = "token"
  PROVE  cmd[p].creds.refresh \in refreshable
<1>1. calm BY DEF Promised
<1>2. OnFile /\ cmd[p].creds = credentials BY <1>1 DEF RefreshInv, PresentsInv
<1>3. \A q \in Clients : Refreshes(q) => Running(q) BY Refreshing DEF Refreshes, Running, Asking
<1>4. \A q \in Clients : Refreshes(q) => q = p BY <1>1, <1>3, Names DEF OneCommand, Refreshes
<1>5. \A q \in Clients : ~Saving(q) BY <1>4, Names DEF Saving, Refreshes
<1> QED BY <1>2, <1>5 DEF RefreshInv, RotatesInv

LEMMA RefreshRefresh ==
  ASSUME ClientTypeOK, RefreshInv, OneCommand, NEW p \in Clients, RefreshAccessToken(p)
  PROVE  RefreshInv'
<1> DEFINE old == cmd[p].creds.refresh
           kept(n) == IF deployed.refresh = "keeps" THEN old ELSE n
           c(n) == [cmd[p] EXCEPT !.sub = "save", !.creds = [access |-> n, refresh |-> kept(n)]]
<1>1. cmd[p].sub = "token" /\ UNCHANGED <<credentials, deployed, calm>> BY RefreshType DEF files, server
<1>2. CASE /\ Resume(p) /\ age' = age
           /\ \/ refreshable' = refreshable /\ spoiled' = spoiled
              \/ spoiled' = TRUE /\ refreshable' \subseteq refreshable
              \/ /\ deployed.refresh = "revokes" /\ old \notin refreshable
                 /\ refreshable' \subseteq refreshable /\ UNCHANGED spoiled
  <2>10. Moved(p, cmd'[p])
    <3>1. cmd[p].sub # None BY <1>1, Names
    <3> QED BY <1>2, <3>1, ResumeMoves
  <2>1. cmd'[p].sub = None BY <2>10 DEF Moved
  <2>2. \A q \in Clients : q # p => cmd'[q] = cmd[q] BY <2>10, MovedType
  <2>3. \A q \in Clients : Refreshes(q)' => cmd'[q].sub = cmd[q].sub /\ cmd'[q].creds = cmd[q].creds BY <2>1, <2>2 DEF Refreshes
  <2>4. \A q \in Clients : Saving(q) => Saving(q)' BY <1>1, <2>2, Names DEF Saving
  <2>5. OnFile' <=> OnFile BY <1>1 DEF OnFile
  <2>6. spoiled' = TRUE => ~Promised' BY DEF Promised
  <2>7. UNCHANGED spoiled => (Promised' <=> Promised) BY <1>1 DEF Promised
  <2>8. deployed.refresh = "revokes" /\ old \notin refreshable => ~Promised BY <1>1, LonePresents
  <2>9. /\ refreshable' = refreshable \/ (~Promised' /\ refreshable' \subseteq refreshable)
        /\ spoiled => spoiled'
    BY <1>2, <2>6, <2>7, <2>8
  <2>11. UNCHANGED <<age, deployed, credentials, calm>> BY <1>1, <1>2
  <2> HIDE DEF old, kept, c
  <2> QED BY <2>3, <2>4, <2>5, <2>9, <2>11, TokensStay
<1>3. CASE /\ old \in refreshable /\ UNCHANGED spoiled
           /\ \E n \in Tokens : /\ age[n] = "unissued" /\ age' = [age EXCEPT ![n] = "fresh"]
                                /\ refreshable' = (refreshable \ {old}) \cup {kept(n)}
                                /\ cmd'[p] = c(n) /\ Becomes(p, c(n))
  <2>1. PICK n \in Tokens : /\ age[n] = "unissued" /\ age' = [age EXCEPT ![n] = "fresh"]
                            /\ refreshable' = (refreshable \ {old}) \cup {kept(n)}
                            /\ cmd'[p] = c(n) /\ Becomes(p, c(n))
    BY <1>3
  <2>2. \A q \in Clients : q # p => cmd'[q] = cmd[q] BY <2>1 DEF Becomes, ClientTypeOK, CommandsOK
  <2>3. cmd'[p].sub = "save" /\ cmd'[p].creds.refresh = kept(n)
    <3>1. cmd[p] \in CommandStates BY CommandState
    <3> HIDE DEF kept
    <3> QED BY <3>1, <2>1 DEF CommandStates
  <2>4. Issued' = Issued \cup {n} /\ n \notin Issued BY <2>1 DEF Issued, ClientTypeOK, FilesOK
  <2>5. Refreshes(p) /\ Saving(p)' /\ ~Saving(p) /\ Refreshes(p)' BY <1>1, <2>3, Names DEF Refreshes, Saving
  <2>6. OnFile' <=> OnFile BY <1>1 DEF OnFile
  <2>7. \A q \in Clients : q # p => (Saving(q)' <=> Saving(q)) /\ (Refreshes(q)' <=> Refreshes(q)) /\ cmd'[q].creds = cmd[q].creds
    BY <2>2 DEF Saving, Refreshes
  <2>8. old \in Issued BY <1>3 DEF RefreshInv, IssuedInv
  <2>9. IssuedInv'
    <3>1. kept(n) \in Issued' BY <2>4, <2>8
    <3> HIDE DEF kept, old
    <3> QED BY <1>1, <2>1, <2>3, <2>4, <2>6, <2>7, <3>1 DEF RefreshInv, IssuedInv
  <2>13. Promised' <=> Promised BY <1>1, <1>3 DEF Promised
  <2>14. PresentsInv'
    <3>1. \A q \in Clients : cmd'[q].sub = "token" => q # p /\ cmd'[q] = cmd[q] BY <2>2, <2>3, Names
    <3> QED BY <1>1, <2>6, <3>1 DEF RefreshInv, PresentsInv
  <2>10. KeepsInv'
    <3>1. deployed.refresh = "keeps" => refreshable' = refreshable /\ kept(n) \in refreshable BY <1>3, <2>1
    <3> HIDE DEF kept, old
    <3> QED BY <1>1, <2>3, <2>6, <2>7, <2>13, <3>1 DEF RefreshInv, KeepsInv
  <2>11. RotatesInv'
    <3>1. SUFFICES ASSUME Promised, deployed.refresh # "keeps"
          PROVE  \A q \in Clients : Saving(q)' =>
                      /\ cmd'[q].creds.refresh \in refreshable'
                      /\ OnFile' => credentials'.refresh # cmd'[q].creds.refresh
                      /\ \A r \in Clients : r # q /\ Refreshes(r)' => cmd'[r].creds.refresh # cmd'[q].creds.refresh
      BY <1>1, <2>5, <2>13 DEF RotatesInv
    <3>2. kept(n) = n /\ refreshable' = (refreshable \ {old}) \cup {n} /\ cmd'[p].creds.refresh = n BY <2>1, <2>3, <3>1
    <3>3. ASSUME NEW q \in Clients, Saving(q)'
          PROVE  /\ cmd'[q].creds.refresh \in refreshable'
                 /\ OnFile' => credentials'.refresh # cmd'[q].creds.refresh
                 /\ \A r \in Clients : r # q /\ Refreshes(r)' => cmd'[r].creds.refresh # cmd'[q].creds.refresh
      <4> HIDE DEF old, kept
      <4>1. CASE q = p BY <4>1, <1>1, <2>4, <2>6, <2>7, <3>2 DEF RefreshInv, IssuedInv
      <4>2. CASE q # p
        <5>1. Saving(q) /\ cmd'[q].creds = cmd[q].creds /\ Refreshes(q) BY <2>7, <3>3, <4>2, Names DEF Saving, Refreshes
        <5>2. cmd[q].creds.refresh \in refreshable /\ cmd[q].creds.refresh # old BY <3>1, <5>1, <4>2, <2>5 DEF RefreshInv, RotatesInv, old
        <5>3. cmd[q].creds.refresh # n BY <5>1, <2>4 DEF RefreshInv, IssuedInv
        <5> QED BY <1>1, <2>6, <2>7, <3>1, <3>2, <5>1, <5>2, <5>3 DEF RefreshInv, RotatesInv
      <4> QED BY <4>1, <4>2
    <3> QED BY <3>3
  <2> QED BY <2>9, <2>10, <2>11, <2>14 DEF RefreshInv
<1> QED BY <1>2, <1>3, RefreshType DEF tokens

LEMMA SaveRefresh ==
  ASSUME ClientTypeOK, RefreshInv, OneCommand, NEW p \in Clients, SaveCredentials(p)
  PROVE  RefreshInv'
<1>1. cmd[p].sub = "save" /\ credentials' = cmd[p].creds /\ UNCHANGED <<age, refreshable, deployed, spoiled, calm>> BY SaveType DEF tokens, server
<1>2. cmd'[p].sub = None /\ \A q \in Clients : q # p => cmd'[q] = cmd[q]
  <2>1. Moved(p, cmd'[p]) BY SaveType, ResumeMoves, Names
  <2> QED BY <2>1, MovedType DEF Moved
<1>3. Saving(p) /\ Refreshes(p) /\ ~Saving(p)' /\ ~Refreshes(p)' BY <1>1, <1>2, Names DEF Saving, Refreshes
<1>4. \A q \in Clients : q # p => (Saving(q)' <=> Saving(q)) /\ (Refreshes(q)' <=> Refreshes(q)) /\ cmd'[q].creds = cmd[q].creds
  BY <1>2 DEF Saving, Refreshes
<1>5. Issued' = Issued BY <1>1 DEF Issued
<1>6. IssuedInv' BY <1>1, <1>3, <1>4, <1>5 DEF RefreshInv, IssuedInv
<1>9. Promised' <=> Promised BY <1>1 DEF Promised
<1>7. KeepsInv' BY <1>1, <1>3, <1>4, <1>9 DEF RefreshInv, KeepsInv
<1>10. PresentsInv'
  <2>1. SUFFICES ASSUME calm, NEW q \in Clients, cmd'[q].sub = "token" PROVE FALSE BY <1>1 DEF PresentsInv
  <2>2. q # p /\ Refreshes(q) BY <1>2, <1>4, <2>1, Names DEF Refreshes
  <2>3. Running(q) /\ Running(p) BY <1>3, <2>2, Refreshing DEF Refreshes, Running, Asking
  <2> QED BY <2>1, <2>2, <2>3 DEF OneCommand
<1>8. RotatesInv'
  <2>1. SUFFICES ASSUME Promised, deployed.refresh # "keeps"
        PROVE  /\ credentials'.refresh \in refreshable
               /\ \A q \in Clients : Saving(q)' =>
                    /\ cmd'[q].creds.refresh \in refreshable
                    /\ credentials'.refresh # cmd'[q].creds.refresh
                    /\ \A r \in Clients : r # q /\ Refreshes(r)' => cmd'[r].creds.refresh # cmd'[q].creds.refresh
    BY <1>1, <1>9 DEF RotatesInv
  <2>2. cmd[p].creds.refresh \in refreshable BY <1>3, <2>1 DEF RefreshInv, RotatesInv
  <2>3. ASSUME NEW q \in Clients, Saving(q)'
        PROVE  /\ cmd'[q].creds.refresh \in refreshable
               /\ credentials'.refresh # cmd'[q].creds.refresh
               /\ \A r \in Clients : r # q /\ Refreshes(r)' => cmd'[r].creds.refresh # cmd'[q].creds.refresh
    <3>1. q # p /\ Saving(q) /\ cmd'[q].creds = cmd[q].creds BY <1>3, <1>4, <2>3
    <3>2. \A r \in Clients : Refreshes(r)' => r # p /\ Refreshes(r) /\ cmd'[r].creds = cmd[r].creds BY <1>3, <1>4
    <3> QED BY <1>1, <1>3, <2>1, <3>1, <3>2 DEF RefreshInv, RotatesInv
  <2> QED BY <1>1, <2>2, <2>3
<1> QED BY <1>6, <1>7, <1>8, <1>10 DEF RefreshInv

LEMMA QuietTokens == ASSUME ClientTypeOK, Quiet PROVE \A p \in Clients : ~Refreshes(p)
BY Refreshing DEF Quiet, Refreshes, Running, Asking

LEMMA LoginRefresh ==
  ASSUME ClientTypeOK, RefreshInv, Login
  PROVE  RefreshInv'
<1>1. UNCHANGED <<cmd, spoiled, deployed>> BY LoginType DEF server
<1>2. PICK n \in Tokens : /\ age[n] = "unissued" /\ credentials' = [access |-> n, refresh |-> n]
                          /\ age' = [age EXCEPT ![n] = "fresh"] /\ refreshable' = refreshable \cup {n}
  BY LoginType
<1>3. Issued' = Issued \cup {n} /\ n \notin Issued BY <1>2 DEF Issued, ClientTypeOK, FilesOK
<1>4. credentials'.refresh = n BY <1>2
<1>5. IssuedInv' BY <1>1, <1>2, <1>3, <1>4 DEF RefreshInv, IssuedInv, Refreshes
<1>10. calm' => calm /\ Quiet BY DEF Login
<1>8. (calm' => calm /\ Quiet) /\ (Promised' => Promised) BY <1>1, <1>10 DEF Promised
<1>6. KeepsInv' BY <1>1, <1>2, <1>4, <1>8 DEF RefreshInv, KeepsInv, Refreshes
<1>9. PresentsInv' BY <1>1, <1>8, QuietTokens, Names DEF PresentsInv, Refreshes
<1>7. RotatesInv'
  <2>1. \A p \in Clients : Saving(p) => Refreshes(p) BY Names DEF Saving, Refreshes
  <2>2. \A p \in Clients : Saving(p) => cmd[p].creds.refresh # n BY <1>3, <2>1 DEF RefreshInv, IssuedInv
  <2> QED BY <1>1, <1>2, <1>4, <1>8, <2>2 DEF RefreshInv, RotatesInv, Refreshes, Saving
<1> QED BY <1>5, <1>6, <1>7, <1>9 DEF RefreshInv

LEMMA OutsideRefresh ==
  ASSUME ClientTypeOK, RefreshInv,
         \/ Logout \/ (\E n \in Tokens : Age(n)) \/ (\E i \in Ids : SessionExpires(i))
         \/ (\E p \in Clients : Interrupt(p)) \/ UNCHANGED clientVars
  PROVE  RefreshInv'
<1>1. CASE Logout
  <2>1. credentials' = Blank /\ UNCHANGED <<age, refreshable, deployed, cmd, spoiled>> /\ (calm' => calm /\ Quiet)
    BY <1>1 DEF Logout, tokens, server
  <2>2. ~OnFile' BY <2>1 DEF OnFile
  <2> QED BY <2>1, <2>2, QuietTokens, TokensStay DEF Refreshes, Saving
<1>2. CASE \E n \in Tokens : Age(n)
  <2>1. PICK n \in Tokens : Age(n) BY <1>2
  <2>2. Issued' = Issued BY <2>1 DEF Issued, Age, Older, ClientTypeOK, FilesOK
  <2>3. UNCHANGED <<credentials, refreshable, deployed, cmd, spoiled>> /\ (calm' => calm) BY <2>1 DEF Age, files, server
  <2>4. (Promised' => Promised) /\ (OnFile' <=> OnFile) BY <2>3 DEF Promised, OnFile
  <2> QED BY <2>2, <2>3, <2>4 DEF RefreshInv, IssuedInv, KeepsInv, RotatesInv, PresentsInv, Refreshes, Saving
<1>3. CASE \E i \in Ids : SessionExpires(i)
  <2>1. UNCHANGED <<credentials, age, refreshable, deployed, cmd, spoiled>> /\ (calm' => calm) BY <1>3 DEF SessionExpires, files, tokens
  <2> QED BY <2>1, TokensStay DEF OnFile, Refreshes, Saving
<1>4. CASE \E p \in Clients : Interrupt(p)
  <2>1. PICK p \in Clients : Interrupt(p) BY <1>4
  <2>2. cmd'[p].sub = None /\ \A q \in Clients : q # p => cmd'[q] = cmd[q] BY <2>1, EndMoves, MovedType DEF Interrupt, Moved
  <2>3. UNCHANGED <<credentials, age, refreshable, deployed, calm>> /\ spoiled' = (spoiled \/ cmd[p].sub = "save") BY <2>1 DEF Interrupt, files, tokens, server
  <2>4. \A q \in Clients : Refreshes(q)' => cmd'[q].sub = cmd[q].sub /\ cmd'[q].creds = cmd[q].creds BY <2>2 DEF Refreshes
  <2>5. \A q \in Clients : Saving(q) => Saving(q)' \/ ~Promised' BY <2>2, <2>3 DEF Saving, Promised
  <2>6. OnFile' <=> OnFile BY <2>3 DEF OnFile
  <2> QED BY <2>3, <2>4, <2>5, <2>6, TokensStay
<1>5. CASE UNCHANGED clientVars
  BY <1>5 DEF clientVars, RefreshInv, IssuedInv, KeepsInv, RotatesInv, PresentsInv, Promised, Issued, OnFile, Refreshes, Saving, files, tokens, server
<1> QED BY <1>1, <1>2, <1>3, <1>4, <1>5

LEMMA InitRefresh == ASSUME ClientInit PROVE RefreshInv
<1>1. ~OnFile /\ Issued = {} /\ refreshable = {} BY DEF ClientInit, OnFile, Issued
<1>2. \A p \in Clients : ~Refreshes(p) /\ ~Saving(p) BY IdleState, Names DEF ClientInit, Refreshes, Saving
<1>3. \A p \in Clients : cmd[p].sub # "token" BY IdleState, Names DEF ClientInit
<1> QED BY <1>1, <1>2, <1>3 DEF RefreshInv, IssuedInv, KeepsInv, RotatesInv, PresentsInv

LEMMA RefreshUsable == ASSUME ClientTypeOK, RefreshInv PROVE RefreshTokenIsUsable
BY DEF RefreshInv, KeepsInv, RotatesInv, Promised, RefreshTokenIsUsable, OnFile, Saving, ClientTypeOK, ServerOK

-------------------------------------------------------------------------------
(* What is stored and what becomes of it.                                  *)

Storing(p) == cmd[p].at \in {"put", "complete"}

\* What a command that stores knows of its upload.
StoringOK(p) ==
  LET u == cmd[p].id IN
  /\ u \in Uploads /\ upload[u] \in UploadStates /\ opened[u] # None
  /\ upload[u].owner = opened[u].owner /\ opened[u].size = cmd[p].of.size
  /\ \A k \in cmd[p].etags : part[u][k] = Chunk(p, k)
  /\ At(p, "complete") => \A k \in 1..Parts : /\ cmd[p].of.size = "single" \/ k \in cmd[p].etags
                                              /\ part[u][k] = Chunk(p, k)

StoringInv ==
  /\ \A p \in Clients : Storing(p) => StoringOK(p)
  /\ \A p, q \in Clients : Storing(p) /\ Storing(q) /\ cmd[p].id = cmd[q].id => p = q

\* An asset: of an upload that was opened, whole, and its opener's or nobody's.
WholeAsset(u) ==
  \/ Whole(asset[u].body, asset[u].encoding = "gzip")
  \/ opened[u].size = "huge" /\ asset[u].encoding = "gzip" /\ Whole(asset[u].body, FALSE)
AssetOK(u) == asset[u] # None =>
  opened[u] # None /\ WholeAsset(u) /\ asset[u].owner \in {opened[u].owner, None}

\* One command, as far as storing goes.
Same(c, d) == c.at = d.at /\ c.id = d.id /\ c.of = d.of /\ c.etags = d.etags

UploadsInv == StoringInv /\ \A u \in Uploads : AssetOK(u)

\* A step that stores nothing.
LEMMA UploadsStay ==
  ASSUME UploadsInv, UNCHANGED <<upload, part, asset, opened>>,
         \A p \in Clients : Storing(p)' => Same(cmd[p], cmd'[p])
  PROVE  UploadsInv'
<1>1. ASSUME NEW p \in Clients, Storing(p)' PROVE StoringOK(p)'
  <2>1. StoringOK(p) BY <1>1 DEF UploadsInv, StoringInv, Storing, Same
  <2> QED BY <1>1, <2>1 DEF StoringOK, Chunk, At, Same
<1>2. \A p, q \in Clients : Storing(p)' /\ Storing(q)' /\ cmd'[p].id = cmd'[q].id => p = q BY DEF UploadsInv, StoringInv, Storing, Same
<1>3. ASSUME NEW u \in Uploads PROVE AssetOK(u)' BY <1>3 DEF UploadsInv, AssetOK, WholeAsset
<1> QED BY <1>1, <1>2, <1>3 DEF UploadsInv, StoringInv

LEMMA MovedUploads ==
  ASSUME ClientTypeOK, UploadsInv, NEW p \in Clients, NEW c, Moved(p, c), UNCHANGED <<upload, part, asset, opened>>,
         c.at \notin {"put", "complete"} \/ Same(cmd[p], c)
  PROVE  UploadsInv'
<1>1. cmd'[p] = c /\ \A q \in Clients : q # p => cmd'[q] = cmd[q] BY MovedType
<1>2. \A q \in Clients : Storing(q)' => Same(cmd[q], cmd'[q]) BY <1>1 DEF Storing, Same
<1> QED BY <1>2, UploadsStay

\* The steps between the requests that store.
LEMMA PlainUploads ==
  ASSUME ClientTypeOK, UploadsInv, NEW p \in Clients,
         \/ \E o \in Commands[p] : DoUpload(p, o)
         \/ Probe(p) \/ CommonHeaders(p) \/ RefreshAccessToken(p) \/ SaveCredentials(p)
         \/ (\E step \in {"patch", "name"} : ApplySiteOption(p, step)) \/ Interrupt(p)
  PROVE  UploadsInv'
<1>1. ASSUME NEW o \in Commands[p], DoUpload(p, o) PROVE UploadsInv'
  <2>1. Plain(p) BY <1>1, DoUploadType
  <2>2. PICK c : Moved(p, c) BY <2>1 DEF Plain
  <2>3. c = [Idle EXCEPT !.at = "probe", !.of = o]
    <3>1. Becomes(p, [Idle EXCEPT !.at = "probe", !.of = o]) BY <1>1 DEF DoUpload
    <3>2. cmd'[p] = [Idle EXCEPT !.at = "probe", !.of = o] BY <3>1 DEF Becomes, ClientTypeOK, CommandsOK
    <3> QED BY <2>2, <3>2, MovedType
  <2>4. c.at = "probe" BY <2>3 DEF Idle
  <2> QED BY <1>1, <2>2, <2>4, MovedUploads DEF DoUpload, server
<1>2. CASE Probe(p)
  <2>1. At(p, "probe") BY <1>2 DEF Probe
  <2>2. cmd[p].sub = None /\ Running(p) /\ cmd[p].etags = {} BY <2>1, CommandState DEF At, Running, CommandOK, Asking
  <2>3. CASE End(p)
    <3>1. PICK c : Moved(p, c) /\ c.at = "idle" BY <2>3, EndMoves
    <3> QED BY <1>2, <3>1, MovedUploads DEF Probe, server
  <2>4. ASSUME NEW at \in {"direct", "init"}, GoTo(p, at) PROVE UploadsInv'
    <3>1. PICK c : Moved(p, c) /\ c.at = at BY <2>4, <2>2, SendMoves DEF Asking
    <3> QED BY <1>2, <3>1, MovedUploads DEF Probe, server
  <2> QED BY <1>2, <2>3, <2>4 DEF Probe
<1>3. CASE CommonHeaders(p)
  <2>1. UNCHANGED <<upload, part, asset, opened>> /\ cmd[p] \in CommandStates BY <1>3, HeadersType, CommandState DEF server
  <2>2. CASE End(p)
    <3>1. PICK c : Moved(p, c) /\ c.at = "idle" BY <2>2, EndMoves
    <3> QED BY <2>1, <3>1, MovedUploads
  <2>3. CASE Becomes(p, [cmd[p] EXCEPT !.sub = "token", !.creds = credentials]) /\ cmd'[p] = [cmd[p] EXCEPT !.sub = "token", !.creds = credentials]
    <3>1. Same(cmd[p], cmd'[p]) BY <2>1, <2>3 DEF CommandStates, Same
    <3>2. \A q \in Clients : q # p => cmd'[q] = cmd[q] BY <2>3 DEF Becomes, ClientTypeOK, CommandsOK
    <3> QED BY <2>1, <3>1, <3>2, UploadsStay DEF Same
  <2>4. ASSUME NEW h, Moved(p, [cmd[p] EXCEPT !.header = h]) PROVE UploadsInv'
    <3>1. Same(cmd[p], [cmd[p] EXCEPT !.header = h]) BY <2>1 DEF CommandStates, Same
    <3> QED BY <2>1, <2>4, <3>1, MovedUploads
  <2> QED BY <1>3, <2>2, <2>3, <2>4, HeadersType
<1>4. CASE RefreshAccessToken(p)
  <2>1. UNCHANGED <<upload, part, asset, opened>> /\ cmd[p] \in CommandStates /\ cmd[p].sub = "token" BY <1>4, RefreshType, CommandState DEF server
  <2>2. CASE Resume(p)
    <3>1. Moved(p, cmd'[p]) /\ Same(cmd[p], cmd'[p]) BY <2>1, <2>2, ResumeMoves, Names DEF Same
    <3> QED BY <2>1, <3>1, MovedUploads
  <2>3. ASSUME NEW x, Becomes(p, [cmd[p] EXCEPT !.sub = "save", !.creds = x]) PROVE UploadsInv'
    <3>1. cmd'[p] = [cmd[p] EXCEPT !.sub = "save", !.creds = x] /\ \A q \in Clients : q # p => cmd'[q] = cmd[q]
      BY <2>3 DEF Becomes, ClientTypeOK, CommandsOK
    <3>2. Same(cmd[p], cmd'[p]) BY <2>1, <3>1 DEF CommandStates, Same
    <3> QED BY <2>1, <3>1, <3>2, UploadsStay DEF Same
  <2> QED BY <1>4, <2>2, <2>3, RefreshType
<1>5. CASE SaveCredentials(p)
  <2>1. cmd[p].sub = "save" /\ Resume(p) /\ UNCHANGED <<upload, part, asset, opened>> BY <1>5, SaveType DEF server
  <2>2. Moved(p, cmd'[p]) /\ Same(cmd[p], cmd'[p]) BY <2>1, ResumeMoves, Names DEF Same
  <2> QED BY <2>1, <2>2, MovedUploads
<1>6. ASSUME NEW step \in {"patch", "name"}, ApplySiteOption(p, step) PROVE UploadsInv'
  <2>1. cmd[p].sub = None /\ Running(p) BY <1>6, CommandState DEF ApplySiteOption, Asking
  <2>2. UNCHANGED <<upload, part, asset, opened>> BY <1>6 DEF ApplySiteOption
  <2>3. \E c : Moved(p, c) /\ c.at \notin {"put", "complete"}
    <3>1. CASE End(p) \/ Refuse(p) BY <3>1, EndMoves
    <3>2. CASE Configure(p, Project, step) BY <3>2, <2>1, ConfigureMoves
    <3> QED BY <1>6, <3>1, <3>2 DEF ApplySiteOption, Take
  <2> QED BY <2>2, <2>3, MovedUploads
<1>7. CASE Interrupt(p)
  <2>1. PICK c : Moved(p, c) /\ c.at = "idle" BY <1>7, EndMoves DEF Interrupt
  <2> QED BY <1>7, <2>1, MovedUploads DEF Interrupt, server
<1> QED BY <1>1, <1>2, <1>3, <1>4, <1>5, <1>6, <1>7

LEMMA OutsideUploads ==
  ASSUME UploadsInv,
         \/ Login \/ Logout \/ (\E n \in Tokens : Age(n)) \/ (\E i \in Ids : SessionExpires(i)) \/ UNCHANGED clientVars
  PROVE  UploadsInv'
<1>1. UNCHANGED <<cmd, upload, part, asset, opened>> BY DEF Login, Logout, Age, SessionExpires, clientVars, server
<1> QED BY <1>1, UploadsStay DEF Same

\* A command is not concerned by what happens to another upload.
LEMMA OtherStores ==
  ASSUME NEW q \in Clients, StoringOK(q), cmd'[q] = cmd[q],
         LET u == cmd[q].id IN upload'[u] = upload[u] /\ part'[u] = part[u] /\ opened'[u] = opened[u]
  PROVE  StoringOK(q)'
BY DEF StoringOK, Chunk, At

\* One step of p, which has its upload to itself: what is left to show.
LEMMA StoringStep ==
  ASSUME ClientTypeOK, UploadsInv, NEW p \in Clients, NEW u \in Uploads, NEW c, Moved(p, c),
         \A q \in Clients : Storing(q) /\ q # p => cmd[q].id # u,
         \A v \in Uploads : v # u => upload'[v] = upload[v] /\ part'[v] = part[v] /\ opened'[v] = opened[v] /\ asset'[v] = asset[v],
         c.at \in {"put", "complete"} => c.id = u /\ StoringOK(p)',
         AssetOK(u)'
  PROVE  UploadsInv'
<1>1. cmd'[p] = c /\ \A q \in Clients : q # p => cmd'[q] = cmd[q] BY MovedType
<1>2. ASSUME NEW q \in Clients, q # p, Storing(q)' PROVE Storing(q) /\ cmd'[q].id # u /\ StoringOK(q)'
  <2>1. Storing(q) /\ cmd'[q] = cmd[q] /\ cmd[q].id # u BY <1>1, <1>2 DEF Storing
  <2>2. StoringOK(q) BY <2>1 DEF UploadsInv, StoringInv
  <2>3. cmd[q].id \in Uploads BY <2>2 DEF StoringOK
  <2> QED BY <2>1, <2>2, <2>3, OtherStores
<1>3. \A q \in Clients : Storing(q)' => StoringOK(q)' BY <1>1, <1>2 DEF Storing
<1>4. ASSUME NEW q \in Clients, NEW r \in Clients, Storing(q)', Storing(r)', cmd'[q].id = cmd'[r].id PROVE q = r
  <2>1. CASE q # p /\ r # p
    <3>1. Storing(q) /\ Storing(r) /\ cmd'[q] = cmd[q] /\ cmd'[r] = cmd[r] BY <1>1, <1>2, <1>4, <2>1
    <3> QED BY <3>1, <1>4 DEF UploadsInv, StoringInv
  <2>2. CASE q = p /\ r # p BY <2>2, <1>1, <1>2, <1>4 DEF Storing
  <2>3. CASE r = p /\ q # p BY <2>3, <1>1, <1>2, <1>4 DEF Storing
  <2> QED BY <2>1, <2>2, <2>3
<1>5. ASSUME NEW v \in Uploads PROVE AssetOK(v)'
  <2>1. CASE v = u BY <2>1
  <2>2. CASE v # u
    <3>1. AssetOK(v) /\ opened'[v] = opened[v] /\ asset'[v] = asset[v] BY <2>2 DEF UploadsInv
    <3> QED BY <3>1 DEF AssetOK, WholeAsset
  <2> QED BY <2>1, <2>2
<1> QED BY <1>3, <1>4, <1>5 DEF UploadsInv, StoringInv

\* Who stores into u is alone with it.
LEMMA Alone ==
  ASSUME UploadsInv, NEW p \in Clients, Storing(p)
  PROVE  StoringOK(p) /\ AssetOK(cmd[p].id) /\ \A q \in Clients : Storing(q) /\ q # p => cmd[q].id # cmd[p].id
<1>1. StoringOK(p) BY DEF UploadsInv, StoringInv
<1>2. cmd[p].id \in Uploads BY <1>1 DEF StoringOK
<1> QED BY <1>1, <1>2 DEF UploadsInv, StoringInv

\* An upload that is not open has nobody storing, and no asset.
LEMMA NobodyStores ==
  ASSUME UploadsInv, NEW u \in Uploads, opened[u] = None
  PROVE  asset[u] = None /\ \A q \in Clients : Storing(q) => cmd[q].id # u
BY DEF UploadsInv, StoringInv, StoringOK, AssetOK

LEMMA PartsDoneUploads ==
  ASSUME ClientTypeOK, UploadsInv, NEW p \in Clients, PartsDone(p)
  PROVE  UploadsInv'
<1>1. Storing(p) /\ Running(p) BY DEF PartsDone, At, Storing, Running
<1>2. PICK u \in Uploads : u = cmd[p].id BY <1>1, Alone DEF StoringOK
<1>3. StoringOK(p) /\ AssetOK(u) /\ \A q \in Clients : Storing(q) /\ q # p => cmd[q].id # u BY <1>1, <1>2, Alone
<1>4. cmd[p].sub = None BY CommandState DEF PartsDone, At, CommandOK, Asking
<1>5. PICK c : Moved(p, c) /\ c.at = "complete" /\ c.id = u /\ c.etags = cmd[p].etags /\ c.of = cmd[p].of
  BY <1>1, <1>2, <1>4, SendMoves DEF PartsDone, Asking
<1>6. cmd'[p] = c BY <1>5, MovedType
<1>7. UNCHANGED <<upload, part, asset, opened>> /\ cmd[p].etags = 1..Parts BY DEF PartsDone, AllPut, server
<1>8. StoringOK(p)' BY <1>3, <1>2, <1>5, <1>6, <1>7 DEF StoringOK, Chunk
<1>9. AssetOK(u)' BY <1>3, <1>5, <1>6, <1>7 DEF AssetOK, WholeAsset
<1> QED BY <1>3, <1>5, <1>7, <1>8, <1>9, StoringStep

LEMMA PutObjectUploads ==
  ASSUME ClientTypeOK, UploadsInv, NEW p \in Clients, PutObject(p)
  PROVE  UploadsInv'
<1>1. PICK u \in Uploads : u = cmd[p].id
  BY Alone DEF PutObject, At, Storing, StoringOK
<1>2. Storing(p) /\ Running(p) BY DEF PutObject, At, Storing, Running
<1>3. StoringOK(p) /\ AssetOK(u) /\ \A q \in Clients : Storing(q) /\ q # p => cmd[q].id # u BY <1>1, <1>2, Alone
<1>4. cmd[p].sub = None BY CommandState DEF PutObject, At, CommandOK, Asking
<1>5. UNCHANGED <<upload, asset, opened>> /\ cmd[p].of.size = "single" /\ part' = [part EXCEPT ![u] = [k \in 1..Parts |-> Chunk(p, k)]]
  BY <1>1 DEF PutObject
<1>6. AssetOK(u)' BY <1>3, <1>5 DEF AssetOK, WholeAsset
<1>7. part'[u] = [k \in 1..Parts |-> Chunk(p, k)] /\ \A v \in Uploads : v # u => part'[v] = part[v]
  BY <1>5 DEF ClientTypeOK, ServerOK
<1>8. CASE End(p)
  <2>1. PICK c : Moved(p, c) /\ c.at = "idle" BY <1>8, EndMoves
  <2> QED BY <1>3, <1>5, <1>6, <1>7, <2>1, StoringStep
<1>9. CASE GoTo(p, "complete")
  <2>1. PICK c : Moved(p, c) /\ c.at = "complete" /\ c.id = u /\ c.etags = cmd[p].etags /\ c.of = cmd[p].of
    BY <1>1, <1>2, <1>4, <1>9, SendMoves DEF Asking
  <2>2. cmd'[p] = c BY <2>1, MovedType
  <2>3. \A k \in 1..Parts : Chunk(p, k)' = Chunk(p, k) BY <1>1, <1>5, <2>1, <2>2 DEF Chunk
  <2>4. cmd[p].etags \subseteq 1..Parts BY CommandState DEF CommandStates
  <2>5. \A k \in 1..Parts : part'[u][k] = Chunk(p, k)' BY <1>7, <2>3
  <2>6. cmd'[p].of.size = "single" /\ cmd'[p].id = u /\ cmd'[p].etags \subseteq 1..Parts BY <1>5, <2>1, <2>2, <2>4
  <2>7. upload[u] \in UploadStates /\ opened[u] # None /\ upload[u].owner = opened[u].owner /\ opened[u].size = cmd'[p].of.size
    BY <1>1, <1>3, <2>1, <2>2 DEF StoringOK
  <2>8. StoringOK(p)' BY <1>5, <2>5, <2>6, <2>7 DEF StoringOK
  <2> QED BY <1>3, <1>5, <1>6, <1>7, <2>1, <2>8, StoringStep
<1> QED BY <1>8, <1>9 DEF PutObject

LEMMA PutPartUploads ==
  ASSUME ClientTypeOK, UploadsInv, NEW p \in Clients, NEW k \in 1..Parts, PutPart(p, k)
  PROVE  UploadsInv'
<1>1. PICK u \in Uploads : u = cmd[p].id
  BY Alone DEF PutPart, At, Storing, StoringOK
<1>2. Storing(p) /\ Running(p) /\ cmd[p].at = "put" BY DEF PutPart, At, Storing, Running
<1>3. StoringOK(p) /\ AssetOK(u) /\ \A q \in Clients : Storing(q) /\ q # p => cmd[q].id # u BY <1>1, <1>2, Alone
<1>4. cmd[p] \in CommandStates /\ cmd[p].sub = None BY CommandState DEF PutPart, At, CommandOK, Asking
<1>5. UNCHANGED <<upload, asset, opened>> BY DEF PutPart
<1>6. part' = part \/ part' = [part EXCEPT ![u][k] = Chunk(p, k)] BY <1>1 DEF PutPart
<1>7. AssetOK(u)' BY <1>3, <1>5 DEF AssetOK, WholeAsset
<1>8. /\ \A v \in Uploads : v # u => part'[v] = part[v]
      /\ \A j \in 1..Parts : j # k => part'[u][j] = part[u][j]
  <2>1. part \in [Uploads -> Bodies] /\ part[u] \in [1..Parts -> Pieces] BY DEF ClientTypeOK, ServerOK, Bodies
  <2>2. CASE part' = part BY <2>2
  <2>3. CASE part' = [part EXCEPT ![u][k] = Chunk(p, k)]
    <3>1. part' = [part EXCEPT ![u] = [part[u] EXCEPT ![k] = Chunk(p, k)]] BY <2>3
    <3>2. part'[u] = [part[u] EXCEPT ![k] = Chunk(p, k)] /\ \A v \in Uploads : v # u => part'[v] = part[v] BY <2>1, <3>1
    <3> QED BY <2>1, <3>2
  <2> QED BY <1>6, <2>2, <2>3
<1>9. PICK c : Moved(p, c)
  <2>1. Plain(p) BY PutPartType
  <2> QED BY <2>1 DEF Plain
<1>10. cmd'[p] = c BY <1>9, MovedType
<1>11. CASE End(p)
  <2>1. PICK d : Moved(p, d) /\ d.at = "idle" BY <1>11, EndMoves
  <2> QED BY <1>3, <1>5, <1>7, <1>8, <2>1, StoringStep
<1>12. ASSUME cmd'[p].at = "put", cmd'[p].id = u, cmd'[p].of = cmd[p].of,
              cmd'[p].etags = cmd[p].etags \/ cmd'[p].etags = cmd[p].etags \cup {k},
              k \in cmd'[p].etags => part'[u][k] = Chunk(p, k)
       PROVE  UploadsInv'
  <2>1. \A j \in 1..Parts : Chunk(p, j)' = Chunk(p, j) BY <1>1, <1>5, <1>12 DEF Chunk
  <2>2. cmd[p].etags \subseteq 1..Parts BY <1>4 DEF CommandStates
  <2>3. \A j \in cmd[p].etags : part[u][j] = Chunk(p, j) BY <1>1, <1>3 DEF StoringOK
  <2>4. \A j \in cmd'[p].etags : part'[u][j] = Chunk(p, j)' BY <1>8, <1>12, <2>1, <2>2, <2>3
  <2>5. StoringOK(p)' BY <1>1, <1>3, <1>5, <1>12, <2>4 DEF StoringOK, At
  <2> QED BY <1>3, <1>5, <1>7, <1>8, <1>9, <1>10, <1>12, <2>5, StoringStep
<1>13. CASE Becomes(p, [cmd[p] EXCEPT !.etags = @ \cup {k}, !.tries[k] = 0]) /\ part' = [part EXCEPT ![u][k] = Chunk(p, k)]
  <2>1. cmd'[p] = [cmd[p] EXCEPT !.etags = @ \cup {k}, !.tries[k] = 0] BY <1>13 DEF Becomes, ClientTypeOK, CommandsOK
  <2>2. cmd'[p].at = "put" /\ cmd'[p].id = u /\ cmd'[p].of = cmd[p].of /\ cmd'[p].etags = cmd[p].etags \cup {k}
    BY <1>1, <1>2, <1>4, <2>1 DEF CommandStates
  <2>3. part'[u][k] = Chunk(p, k) BY <1>13 DEF ClientTypeOK, ServerOK, Bodies
  <2> QED BY <2>2, <2>3, <1>12
<1>14. CASE Becomes(p, [cmd[p] EXCEPT !.tries[k] = @ + 1]) /\ k \notin cmd[p].etags
  <2>1. cmd'[p] = [cmd[p] EXCEPT !.tries[k] = @ + 1] BY <1>14 DEF Becomes, ClientTypeOK, CommandsOK
  <2>2. cmd'[p].at = "put" /\ cmd'[p].id = u /\ cmd'[p].of = cmd[p].of /\ cmd'[p].etags = cmd[p].etags
    BY <1>1, <1>2, <1>4, <2>1 DEF CommandStates
  <2> QED BY <1>14, <2>2, <1>12
<1> QED BY <1>1, <1>11, <1>13, <1>14 DEF PutPart

LEMMA CreateUploads ==
  ASSUME ClientTypeOK, UploadsInv, NEW p \in Clients, NEW u \in Uploads, CreateUploadSession(p, u)
  PROVE  UploadsInv'
<1> DEFINE h == cmd[p].header
<1>1. cmd[p] \in CommandStates /\ h \in Tokens \cup Ids /\ cmd[p].sub = None /\ cmd[p].etags = {} /\ Running(p) /\ cmd[p].of \in Invocations
  BY CommandState DEF CreateUploadSession, Asking
<1>2. opened[u] = None BY DEF CreateUploadSession
<1>3. asset[u] = None /\ \A q \in Clients : Storing(q) => cmd[q].id # u BY <1>2, NobodyStores
<1>4. CASE UNCHANGED <<upload, opened>> /\ (End(p) \/ Refuse(p) \/ GoTo(p, "direct"))
  <2>1. UNCHANGED <<part, asset>> BY DEF CreateUploadSession, server
  <2>2. \E c : Moved(p, c) /\ c.at \notin {"put", "complete"}
    <3>1. CASE End(p) \/ Refuse(p) BY <3>1, EndMoves
    <3>2. CASE GoTo(p, "direct") BY <3>2, <1>1, SendMoves DEF Asking
    <3> QED BY <1>4, <3>1, <3>2
  <2> QED BY <1>4, <2>1, <2>2, MovedUploads
<1>5. CASE Unauthorized(h) /\ Refuse(p) /\ UNCHANGED <<files, server, minted>> BY <1>4, <1>5 DEF server
<1>6. CASE ~Unauthorized(h)
  <2>1. PICK i \in Sessions(h) : /\ Issue(h, i) /\ Adopt(h, i)
             /\ IF Offers(i)
                THEN /\ upload' = [upload EXCEPT ![u] = [owner |-> Owner(i), encoding |-> IF cmd[p].of.gzip THEN "gzip" ELSE None]]
                     /\ opened' = [opened EXCEPT ![u] = [owner |-> Owner(i), size |-> cmd[p].of.size]]
                     /\ Take(p, Becomes(p, [cmd[p] EXCEPT !.at = "put", !.id = u, !.header = None]))
                ELSE /\ UNCHANGED <<upload, opened>>
                     /\ Take(p, IF Denied(i) THEN Refuse(p)
                                ELSE IF cmd[p].of.size = "huge" THEN End(p) ELSE GoTo(p, "direct"))
    BY <1>6 DEF CreateUploadSession
  <2>2. CASE ~Offers(i) BY <1>4, <2>1, <2>2 DEF Take
  <2>3. CASE Offers(i)
    <3>1. UNCHANGED <<part, asset>> BY <1>6 DEF CreateUploadSession
    <3> DEFINE s == [owner |-> Owner(i), encoding |-> IF cmd[p].of.gzip THEN "gzip" ELSE None]
               o == [owner |-> Owner(i), size |-> cmd[p].of.size]
    <3>2. i \in Ids \cup {None} BY <1>1, <2>1, SessionsStep
    <3>3. s \in UploadStates /\ o \in Openings /\ s.owner = o.owner /\ o.size = cmd[p].of.size
      BY <1>1, <3>2 DEF Owner, Owners, UploadStates, Openings, Encodings, FileSizes, Invocations
    <3>4. upload' = [upload EXCEPT ![u] = s] /\ opened' = [opened EXCEPT ![u] = o] BY <2>1, <2>3
    <3> HIDE DEF s, o
    <3>5. /\ upload'[u] = s /\ opened'[u] = o /\ opened'[u] # None
          /\ \A v \in Uploads : v # u => upload'[v] = upload[v] /\ opened'[v] = opened[v]
      BY <3>3, <3>4, Names DEF ClientTypeOK, ServerOK
    <3>6. AssetOK(u)' BY <1>3, <3>1 DEF AssetOK
    <3>7. CASE End(p)
      <4>1. PICK c : Moved(p, c) /\ c.at = "idle" BY <3>7, EndMoves
      <4> QED BY <1>3, <3>1, <3>5, <3>6, <4>1, StoringStep
    <3>8. CASE Becomes(p, [cmd[p] EXCEPT !.at = "put", !.id = u, !.header = None])
      <4>1. cmd'[p] = [cmd[p] EXCEPT !.at = "put", !.id = u, !.header = None] BY <3>8 DEF Becomes, ClientTypeOK, CommandsOK
      <4>2. cmd'[p].at = "put" /\ cmd'[p].id = u /\ cmd'[p].of = cmd[p].of /\ cmd'[p].etags = {} BY <4>1, <1>1 DEF CommandStates
      <4>3. StoringOK(p)' BY <3>3, <3>5, <4>2 DEF StoringOK, At
      <4>4. PICK c : Moved(p, c)
        <5>1. Plain(p) BY CreateType
        <5> QED BY <5>1 DEF Plain
      <4>5. cmd'[p] = c BY <4>4, MovedType
      <4> QED BY <1>3, <3>1, <3>5, <3>6, <4>2, <4>3, <4>4, <4>5, StoringStep
    <3> QED BY <2>1, <2>3, <3>7, <3>8 DEF Take
  <2> QED BY <2>2, <2>3
<1> QED BY <1>5, <1>6 DEF CreateUploadSession

\* A body of the chunks of an upload is whole, whatever it is labelled.
LEMMA ChunksAreWhole ==
  ASSUME NEW p \in Clients, NEW body, \A k \in 1..Parts : body[k] = Chunk(p, k), NEW e, e = upload[cmd[p].id].encoding
  PROVE  \/ Whole(body, e = "gzip")
         \/ cmd[p].of.size = "huge" /\ e = "gzip" /\ Whole(body, FALSE)
<1>1. CASE e = "gzip" /\ cmd[p].of.size # "huge" BY <1>1 DEF Whole, Chunk, Cut
<1>2. CASE e = "gzip" /\ cmd[p].of.size = "huge" BY <1>2 DEF Whole, Chunk, Cut
<1>3. CASE e # "gzip" BY <1>3 DEF Whole, Chunk, Cut
<1> QED BY <1>1, <1>2, <1>3

LEMMA CompleteUploads ==
  ASSUME ClientTypeOK, UploadsInv, NEW p \in Clients, CompleteUploadSession(p)
  PROVE  UploadsInv'
<1> DEFINE h == cmd[p].header
<1>1. Storing(p) /\ At(p, "complete") BY DEF CompleteUploadSession, Ready, At, Storing
<1>2. PICK u \in Uploads : u = cmd[p].id BY <1>1, Alone DEF StoringOK
<1>3. StoringOK(p) /\ AssetOK(u) /\ \A q \in Clients : Storing(q) /\ q # p => cmd[q].id # u BY <1>1, <1>2, Alone
<1>4. h \in Tokens \cup Ids /\ cmd[p].sub = None /\ Running(p) BY CommandState DEF CompleteUploadSession, Asking
<1>5. CASE UNCHANGED <<upload, part, asset>> /\ (End(p) \/ Refuse(p))
  <2>1. PICK c : Moved(p, c) /\ c.at = "idle" BY <1>5, EndMoves
  <2>2. UNCHANGED opened BY DEF CompleteUploadSession, server
  <2> QED BY <1>5, <2>1, <2>2, MovedUploads
<1>6. CASE Unauthorized(h) /\ Refuse(p) /\ UNCHANGED <<files, server, minted, faults>> BY <1>5, <1>6 DEF server
<1>7. CASE ~Unauthorized(h)
  <2>1. PICK i \in Sessions(h) : /\ Issue(h, i) /\ Adopt(h, i)
             /\ IF ~MayComplete(u, i) THEN UNCHANGED <<upload, part, asset, faults>> /\ Take(p, Refuse(p))
                ELSE \/ /\ asset' = [asset EXCEPT ![u] = Completed(p, i)] /\ Forget(u) /\ UNCHANGED faults
                        /\ Take(p, Configure(p, Completed(p, i).owner, "upload"))
                     \/ /\ Fault /\ asset' \in {asset, [asset EXCEPT ![u] = Completed(p, i)]}
                        /\ End(p) /\ UNCHANGED <<upload, part>>
    BY <1>2, <1>7 DEF CompleteUploadSession
  <2>2. UNCHANGED opened BY <1>7 DEF CompleteUploadSession
  <2>3. CASE ~MayComplete(u, i) BY <1>5, <2>1, <2>3 DEF Take
  <2>4. CASE MayComplete(u, i)
    <3>1. asset' = asset \/ asset' = [asset EXCEPT ![u] = Completed(p, i)] BY <2>1, <2>4
    <3>2. AssetOK(u)'
      <4>1. CASE asset' = asset BY <4>1, <1>3, <2>2 DEF AssetOK, WholeAsset
      <4>2. CASE asset' = [asset EXCEPT ![u] = Completed(p, i)]
        <5>1. asset'[u] = Completed(p, i) BY <4>2 DEF ClientTypeOK, ServerOK
        <5>2. \A k \in 1..Parts : Completed(p, i).body[k] = Chunk(p, k) BY <1>1, <1>2, <1>3 DEF Completed, StoringOK
        <5>3. Completed(p, i).encoding = upload[u].encoding BY <1>2 DEF Completed
        <5>4. Completed(p, i).owner \in {upload[u].owner, None} BY <1>2, <2>4 DEF Completed, MayComplete
        <5>5. opened[u] # None /\ upload[u].owner = opened[u].owner /\ opened[u].size = cmd[p].of.size BY <1>2, <1>3 DEF StoringOK
        <5>6. \/ Whole(Completed(p, i).body, Completed(p, i).encoding = "gzip")
              \/ cmd[p].of.size = "huge" /\ Completed(p, i).encoding = "gzip" /\ Whole(Completed(p, i).body, FALSE)
          BY <1>2, <5>2, <5>3, ChunksAreWhole
        <5> QED BY <2>2, <5>1, <5>4, <5>5, <5>6 DEF AssetOK, WholeAsset
      <4> QED BY <3>1, <4>1, <4>2
    <3>3. \A v \in Uploads : v # u => upload'[v] = upload[v] /\ part'[v] = part[v] /\ opened'[v] = opened[v] /\ asset'[v] = asset[v]
      BY <2>1, <2>2, <2>4, <3>1 DEF Forget, ClientTypeOK, ServerOK
    <3>4. \E c : Moved(p, c) /\ c.at \notin {"put", "complete"}
      <4>1. CASE End(p) \/ Refuse(p) BY <4>1, EndMoves
      <4>2. CASE Configure(p, Completed(p, i).owner, "upload") BY <4>2, <1>4, ConfigureMoves
      <4> QED BY <2>1, <2>4, <4>1, <4>2 DEF Take
    <3> QED BY <1>3, <3>2, <3>3, <3>4, StoringStep
  <2> QED BY <2>3, <2>4
<1> QED BY <1>6, <1>7 DEF CompleteUploadSession

LEMMA DirectUploads ==
  ASSUME ClientTypeOK, UploadsInv, NEW p \in Clients, NEW u \in Uploads, UploadDirect(p, u)
  PROVE  UploadsInv'
<1> DEFINE h == cmd[p].header
           a(i) == [owner |-> Owner(i), encoding |-> IF cmd[p].of.gzip THEN "gzip" ELSE None,
                    body |-> [k \in 1..Parts |-> Cut(cmd[p].of.gzip, k)]]
           o(i) == [owner |-> Owner(i), size |-> cmd[p].of.size]
           d == [cmd[p] EXCEPT !.at = IF "patch" \in cmd[p].of.want THEN "patch" ELSE "name", !.id = u, !.header = None]
<1>1. Ready(p, "direct") /\ opened[u] = None /\ UNCHANGED <<upload, part>> BY DEF UploadDirect, server
<1>2. h \in Tokens \cup Ids /\ cmd[p].sub = None /\ cmd[p].of \in Invocations /\ Running(p) BY <1>1, CommandState DEF Asking
<1>3. asset[u] = None /\ \A q \in Clients : Storing(q) => cmd[q].id # u BY <1>1, NobodyStores
<1>4. CASE UNCHANGED <<asset, opened>> /\ (End(p) \/ Refuse(p))
  <2>1. PICK c : Moved(p, c) /\ c.at = "idle" BY <1>4, EndMoves
  <2> QED BY <1>1, <1>4, <2>1, MovedUploads
<1>5. CASE Unauthorized(h) /\ Refuse(p) /\ UNCHANGED <<files, server, minted, faults>> BY <1>4, <1>5 DEF server
<1>6. CASE ~Unauthorized(h)
  <2>1. PICK i \in Sessions(h) : /\ Issue(h, i) /\ Adopt(h, i)
             /\ IF Denied(i) THEN UNCHANGED <<asset, opened, faults>> /\ Take(p, Refuse(p))
                ELSE /\ asset' = [asset EXCEPT ![u] = a(i)] /\ opened' = [opened EXCEPT ![u] = o(i)]
                     /\ \/ Take(p, IF Owner(i) # Project \/ cmd[p].of.want = {} THEN End(p) ELSE Becomes(p, d)) /\ UNCHANGED faults
                        \/ Fault /\ End(p)
    BY <1>6 DEF UploadDirect
  <2>2. CASE Denied(i) BY <1>4, <2>1, <2>2 DEF Take
  <2>3. CASE ~Denied(i)
    <3>1. i \in Ids \cup {None} BY <1>2, <2>1, SessionsStep
    <3>2. o(i) \in Openings BY <1>2, <3>1 DEF Owner, Owners, Openings, FileSizes, Invocations
    <3>3. /\ asset' = [asset EXCEPT ![u] = a(i)] /\ opened' = [opened EXCEPT ![u] = o(i)] BY <2>1, <2>3
    <3>4. a(i).owner = o(i).owner /\ Whole(a(i).body, a(i).encoding = "gzip")
      <4>1. CASE cmd[p].of.gzip BY <4>1 DEF Whole, Cut
      <4>2. CASE ~cmd[p].of.gzip BY <4>2, Names DEF Whole, Cut
      <4> QED BY <4>1, <4>2
    <3> HIDE DEF a, o, d
    <3>5. \E c : Moved(p, c) /\ c.at \notin {"put", "complete"}
      <4>1. CASE End(p) \/ Refuse(p) BY <4>1, EndMoves
      <4>2. CASE Becomes(p, d)
        <5>1. cmd'[p] = d BY <4>2 DEF Becomes, ClientTypeOK, CommandsOK
        <5>2. cmd[p] \in CommandStates BY CommandState
        <5>3. d.at \in {"patch", "name"} BY <5>2 DEF d, CommandStates
        <5>4. Plain(p) BY DirectType
        <5>5. PICK c : Moved(p, c) BY <5>4 DEF Plain
        <5>6. cmd'[p] = c BY <5>5, MovedType
        <5> QED BY <5>1, <5>3, <5>5, <5>6
      <4> QED BY <2>1, <2>3, <4>1, <4>2 DEF Take
    <3>6. /\ asset'[u] = a(i) /\ opened'[u] = o(i) /\ opened'[u] # None
          /\ \A v \in Uploads : v # u => asset'[v] = asset[v] /\ opened'[v] = opened[v]
      BY <3>2, <3>3, Names DEF ClientTypeOK, ServerOK
    <3>7. AssetOK(u)' BY <3>4, <3>6 DEF AssetOK, WholeAsset
    <3> QED BY <1>1, <1>3, <3>5, <3>6, <3>7, StoringStep
  <2> QED BY <2>2, <2>3
<1> QED BY <1>5, <1>6 DEF UploadDirect

LEMMA InitUploads == ASSUME ClientInit PROVE UploadsInv
BY IdleState DEF ClientInit, UploadsInv, StoringInv, Storing, AssetOK

LEMMA UploadsWhole == ASSUME UploadsInv PROVE FinishedUploadIsWhole /\ AssetsStayWithTheirOpener
BY DEF UploadsInv, AssetOK, WholeAsset, FinishedUploadIsWhole, AssetsStayWithTheirOpener

-------------------------------------------------------------------------------
(* A command on its own.                                                   *)

Logged == LoadCredentials # None

\* Who the server takes a command for does not change under it.
Recognised(p) ==
  /\ cmd[p].header \in Tokens => age[cmd[p].header] # "expired" /\ Logged
  /\ cmd[p].header \in Ids => ~Logged /\ ~Unreadable /\ sessionFile = cmd[p].header /\ cmd[p].header \in minted
  /\ Refreshes(p) => age[cmd[p].creds.access] # "expired" /\ Logged
  /\ cmd[p].at \in {"patch", "name"} => Logged
  /\ Storing(p) => LET j == upload[cmd[p].id].owner IN
       IF j = Project THEN Logged ELSE ~Logged /\ ~Unreadable /\ sessionFile = j /\ j \in live

LoneInv ==
  /\ \A p \in Clients : ~cmd[p].refused
  /\ calm => /\ \A p, q \in Clients : Running(p) /\ Running(q) => p = q
             /\ \A p \in Clients : Recognised(p)

LEMMA NothingToRecognise ==
  ASSUME ClientTypeOK', NEW p \in Clients, cmd'[p].header = None, cmd'[p].sub = None, cmd'[p].at \notin {"patch", "name", "put", "complete"}
  PROVE  Recognised(p)'
BY Names DEF Recognised, Refreshes, Storing

LEMMA IdleIsRecognised ==
  ASSUME ClientTypeOK', NEW p \in Clients, ~Running(p)'
  PROVE  Recognised(p)'
<1>1. cmd'[p].header = None /\ cmd'[p].sub = None BY DEF ClientTypeOK, CommandsOK, CommandOK, Running, Asking
<1> QED BY <1>1, NothingToRecognise DEF Running

\* A step of a command that was running.
LEMMA LoneStep ==
  ASSUME LoneInv, ClientTypeOK', NEW p \in Clients, Running(p), calm' = calm, ~cmd'[p].refused,
         \A q \in Clients : q # p => cmd'[q] = cmd[q],
         calm => ~Running(p)' \/ Recognised(p)'
  PROVE  LoneInv'
<1>1. \A q \in Clients : ~cmd'[q].refused BY DEF LoneInv
<1>2. ASSUME calm
      PROVE  /\ \A q, r \in Clients : Running(q)' /\ Running(r)' => q = r
             /\ \A q \in Clients : Recognised(q)'
  <2>1. \A q \in Clients : q # p => ~Running(q)' BY <1>2 DEF LoneInv, Running
  <2>2. \A q \in Clients : q # p => Recognised(q)' BY <2>1, IdleIsRecognised
  <2>3. Recognised(p)' BY <1>2, IdleIsRecognised
  <2> QED BY <2>1, <2>2, <2>3
<1> QED BY <1>1, <1>2 DEF LoneInv

\* A step that ends the command, not refused or not on its own.
LEMMA LoneEnd ==
  ASSUME ClientTypeOK, ClientTypeOK', LoneInv, NEW p \in Clients, Running(p), calm' = calm,
         End(p) \/ (Refuse(p) /\ ~(calm /\ deployed.anonymous))
  PROVE  LoneInv'
<1>1. \A q \in Clients : q # p => cmd'[q] = cmd[q] BY EndMoves, MovedType
<1>2. cmd'[p].at = "idle" /\ ~cmd'[p].refused
  <2>1. CASE End(p)
    <3>1. cmd'[p] = Idle BY <2>1 DEF End, Becomes, ClientTypeOK, CommandsOK
    <3> QED BY <3>1 DEF Idle
  <2>2. CASE Refuse(p) /\ ~(calm /\ deployed.anonymous)
    <3> DEFINE c == [Idle EXCEPT !.refused = calm /\ deployed.anonymous]
    <3>1. Becomes(p, c) BY <2>2 DEF Refuse
    <3> HIDE DEF c
    <3>2. cmd'[p] = c BY <3>1 DEF Becomes, ClientTypeOK, CommandsOK
    <3>3. c.at = "idle" /\ (c.refused <=> calm /\ deployed.anonymous) BY RefusedState DEF c, ClientTypeOK, FilesOK
    <3> QED BY <2>2, <3>2, <3>3
  <2> QED BY <2>1, <2>2
<1> QED BY <1>1, <1>2, LoneStep DEF Running

\* A step to a place where the command is yet to say who it is.
LEMMA LoneGo ==
  ASSUME ClientTypeOK, ClientTypeOK', LoneInv, NEW p \in Clients, Running(p), calm' = calm,
         NEW c, Moved(p, c), c.at \notin {"idle", "patch", "name", "put", "complete"}, c.header = None
  PROVE  LoneInv'
<1>1. cmd'[p] = c /\ \A q \in Clients : q # p => cmd'[q] = cmd[q] BY MovedType
<1>2. ~c.refused /\ c.sub = None BY DEF Moved, CommandOK
<1> QED BY <1>1, <1>2, LoneStep, NothingToRecognise

\* Nobody was running, nobody is.
LEMMA LoneQuiet ==
  ASSUME LoneInv, ClientTypeOK', UNCHANGED cmd, calm' => calm /\ Quiet
  PROVE  LoneInv'
<1>1. \A q \in Clients : ~cmd'[q].refused BY DEF LoneInv
<1>2. ASSUME calm' PROVE \A q \in Clients : ~Running(q)' BY <1>2 DEF Quiet, Running
<1> QED BY <1>1, <1>2, IdleIsRecognised DEF LoneInv

\* The file says the same when it is as it was and no token on it has run out.
LEMMA LoggedStays ==
  ASSUME ClientTypeOK, UNCHANGED <<credentials, age>>
  PROVE  (Logged' <=> Logged) /\ (Unreadable' <=> Unreadable)
BY DEF Logged, LoadCredentials, Unreadable

LEMMA LoggedStill ==
  ASSUME ClientTypeOK, credentials \in Credentials, age[credentials.access] # "expired"
  PROVE  Logged
BY Names DEF Logged, LoadCredentials, Unreadable

LEMMA DoUploadLone ==
  ASSUME ClientTypeOK, LoneInv, NEW p \in Clients, NEW o \in Commands[p], DoUpload(p, o)
  PROVE  LoneInv'
<1>1. ClientTypeOK' BY DoUploadType
<1>2. cmd'[p] = [Idle EXCEPT !.at = "probe", !.of = o] /\ \A q \in Clients : q # p => cmd'[q] = cmd[q]
  BY DEF DoUpload, Becomes, ClientTypeOK, CommandsOK
<1>3. cmd'[p].at = "probe" /\ cmd'[p].header = None /\ cmd'[p].sub = None /\ ~cmd'[p].refused BY <1>2 DEF Idle
<1>4. \A q \in Clients : ~cmd'[q].refused BY <1>2, <1>3 DEF LoneInv
<1>5. ASSUME calm' PROVE \A q \in Clients : q # p => ~Running(q)' BY <1>2, <1>5 DEF DoUpload, Quiet, Running
<1>6. Recognised(p)' BY <1>1, <1>3, NothingToRecognise
<1> QED BY <1>1, <1>4, <1>5, <1>6, IdleIsRecognised DEF LoneInv

LEMMA ProbeLone ==
  ASSUME ClientTypeOK, LoneInv, NEW p \in Clients, Probe(p)
  PROVE  LoneInv'
<1>1. ClientTypeOK' /\ calm' = calm BY ProbeType DEF Probe
<1>2. cmd[p].sub = None /\ Running(p) /\ cmd[p].etags = {} BY CommandState DEF Probe, At, Running, CommandOK, Asking
<1>3. CASE End(p) BY <1>1, <1>2, <1>3, LoneEnd
<1>4. ASSUME NEW at \in {"direct", "init"}, GoTo(p, at) PROVE LoneInv'
  <2>1. PICK c : Moved(p, c) /\ c.at = at /\ c.header = None BY <1>2, <1>4, SendMoves DEF Asking
  <2> QED BY <1>1, <1>2, <2>1, LoneGo
<1> QED BY <1>3, <1>4 DEF Probe

LEMMA HeadersLone ==
  ASSUME ClientTypeOK, LoneInv, NEW p \in Clients, CommonHeaders(p)
  PROVE  LoneInv'
<1>1. ClientTypeOK' /\ cmd[p].sub = None /\ UNCHANGED <<credentials, age, live, upload, calm, deployed>> BY HeadersType DEF tokens, server
<1>2. cmd[p] \in CommandStates /\ CommandOK(cmd[p]) /\ Running(p) BY CommandState DEF CommonHeaders, Asking, Running
<1>3. ~cmd[p].refused BY DEF LoneInv
<1>4. calm => Recognised(p) BY DEF LoneInv
<1>5. (Logged' <=> Logged) /\ (Unreadable' <=> Unreadable) BY <1>1, LoggedStays
<1>6. CASE End(p) BY <1>1, <1>2, <1>6, LoneEnd
<1>7. CASE LoadCredentials # None /\ Becomes(p, [cmd[p] EXCEPT !.sub = "token", !.creds = credentials]) /\ UNCHANGED <<sessionFile, minted>>
           /\ cmd'[p] = [cmd[p] EXCEPT !.sub = "token", !.creds = credentials]
  <2>1. \A q \in Clients : q # p => cmd'[q] = cmd[q] BY <1>7 DEF Becomes, ClientTypeOK, CommandsOK
  <2>2. cmd'[p].at = cmd[p].at /\ cmd'[p].id = cmd[p].id /\ cmd'[p].creds = credentials /\ cmd'[p].refused = cmd[p].refused
        /\ cmd'[p].header = cmd[p].header
    BY <1>2, <1>7 DEF CommandStates
  <2>3. cmd'[p].header = None BY <2>2 DEF CommonHeaders
  <2>4. Logged /\ age[credentials.access] # "expired" BY <1>7, Loaded DEF Logged
  <2>5. calm => Recognised(p)' BY <1>1, <1>4, <1>5, <1>7, <2>2, <2>3, <2>4, Names DEF Recognised, Refreshes, Storing
  <2> QED BY <1>1, <1>2, <1>3, <2>1, <2>2, <2>5, LoneStep
<1>8. ASSUME NEW h \in Tokens \cup Ids, Moved(p, [cmd[p] EXCEPT !.header = h])
      PROVE  /\ \A q \in Clients : q # p => cmd'[q] = cmd[q]
             /\ cmd'[p].at = cmd[p].at /\ cmd'[p].id = cmd[p].id /\ cmd'[p].sub = None /\ cmd'[p].refused = cmd[p].refused /\ cmd'[p].header = h
  <2> DEFINE c == [cmd[p] EXCEPT !.header = h]
  <2>1. c.at = cmd[p].at /\ c.id = cmd[p].id /\ c.sub = None /\ c.refused = cmd[p].refused /\ c.header = h BY <1>1, <1>2 DEF CommandStates
  <2> HIDE DEF c
  <2>2. Moved(p, c) BY <1>8 DEF c
  <2>3. cmd'[p] = c /\ \A q \in Clients : q # p => cmd'[q] = cmd[q] BY <2>2, MovedType
  <2> QED BY <2>1, <2>3
<1>9. CASE LoadCredentials # None /\ UNCHANGED <<sessionFile, minted>> /\ Moved(p, [cmd[p] EXCEPT !.header = credentials.access])
  <2>1. Logged /\ credentials.access \in Tokens /\ age[credentials.access] # "expired" BY <1>9, Loaded DEF Logged
  <2>2. /\ \A q \in Clients : q # p => cmd'[q] = cmd[q]
        /\ cmd'[p].at = cmd[p].at /\ cmd'[p].id = cmd[p].id /\ cmd'[p].sub = None /\ cmd'[p].refused = cmd[p].refused /\ cmd'[p].header = credentials.access
    BY <1>8, <1>9, <2>1
  <2>3. calm => Recognised(p)' BY <1>1, <1>4, <1>5, <1>9, <2>1, <2>2, Names DEF Recognised, Refreshes, Storing
  <2> QED BY <1>1, <1>2, <1>3, <2>2, <2>3, LoneStep
<1>10. CASE LoadCredentials = None /\ ~Unreadable
            /\ \E i \in Ids : /\ Moved(p, [cmd[p] EXCEPT !.header = i]) /\ sessionFile \in {None, i}
                              /\ sessionFile' = i /\ minted' = minted \cup {i}
  <2>1. PICK i \in Ids : /\ Moved(p, [cmd[p] EXCEPT !.header = i]) /\ sessionFile \in {None, i}
                         /\ sessionFile' = i /\ minted' = minted \cup {i} BY <1>10
  <2>2. /\ \A q \in Clients : q # p => cmd'[q] = cmd[q]
        /\ cmd'[p].at = cmd[p].at /\ cmd'[p].id = cmd[p].id /\ cmd'[p].sub = None /\ cmd'[p].refused = cmd[p].refused /\ cmd'[p].header = i
    BY <1>8, <2>1
  <2>3. ~Logged BY <1>10 DEF Logged
  <2>4. ASSUME calm PROVE Recognised(p)'
    <3>1. cmd'[p].header \in Ids /\ cmd'[p].header \notin Tokens BY <2>2, Names
    <3>2. Storing(p)' => LET j == upload'[cmd'[p].id].owner IN
            IF j = Project THEN Logged' ELSE ~Logged' /\ ~Unreadable' /\ sessionFile' = j /\ j \in live'
      <4>1. ASSUME Storing(p)' PROVE LET j == upload[cmd[p].id].owner IN j # Project /\ sessionFile = j /\ j \in live
        BY <1>4, <2>2, <2>3, <2>4, <4>1 DEF Recognised, Storing
      <4>2. Storing(p)' => upload[cmd[p].id].owner = i BY <4>1, <2>1, Names DEF ClientTypeOK, ServerOK
      <4> QED BY <4>1, <4>2, <1>1, <1>5, <1>10, <2>1, <2>2, <2>3
    <3> QED BY <1>1, <1>4, <1>5, <1>10, <2>1, <2>2, <2>3, <2>4, <3>1, <3>2 DEF Recognised, Refreshes
  <2> QED BY <1>1, <1>2, <1>3, <2>2, <2>4, LoneStep
<1> QED BY <1>6, <1>7, <1>9, <1>10, HeadersType

LEMMA RefreshLone ==
  ASSUME ClientTypeOK, LoneInv, NEW p \in Clients, RefreshAccessToken(p)
  PROVE  LoneInv'
<1>1. ClientTypeOK' /\ cmd[p].sub = "token" /\ UNCHANGED <<credentials, sessionFile, live, upload, deployed, minted, calm>> BY RefreshType DEF files, server
<1>2. cmd[p] \in CommandStates /\ Refreshes(p) /\ cmd[p].header = None /\ Running(p) /\ cmd[p].creds.access \in Tokens
  BY <1>1, CommandState, Refreshing, Names DEF Refreshes, Running, Asking
<1>3. ~cmd[p].refused BY DEF LoneInv
<1>4. calm => Recognised(p) /\ Logged /\ age[cmd[p].creds.access] # "expired" BY <1>2 DEF LoneInv, Recognised
<1>5. Unreadable' <=> Unreadable BY <1>1 DEF Unreadable
<1>6. CASE Resume(p) /\ UNCHANGED age
  <2>1. /\ Moved(p, cmd'[p]) /\ cmd'[p].header = cmd[p].creds.access /\ cmd'[p].at = cmd[p].at /\ cmd'[p].id = cmd[p].id
        /\ cmd'[p].refused = cmd[p].refused /\ cmd'[p].sub = None
    BY <1>1, <1>6, ResumeMoves, Names DEF Moved
  <2>2. \A q \in Clients : q # p => cmd'[q] = cmd[q] BY <2>1, MovedType
  <2>3. Logged' <=> Logged BY <1>1, <1>6, LoggedStays
  <2>4. cmd'[p].header \in Tokens /\ cmd'[p].header \notin Ids BY <1>2, <2>1, Names
  <2>5. calm => Recognised(p)' BY <1>1, <1>4, <1>5, <1>6, <2>1, <2>3, <2>4 DEF Recognised, Refreshes, Storing
  <2> QED BY <1>1, <1>2, <1>3, <2>1, <2>2, <2>5, LoneStep
<1>7. ASSUME NEW n \in Tokens, NEW x, age[n] = "unissued", age' = [age EXCEPT ![n] = "fresh"],
             LET c == [cmd[p] EXCEPT !.sub = "save", !.creds = [access |-> n, refresh |-> x]] IN
               cmd'[p] = c /\ Becomes(p, c)
      PROVE  LoneInv'
  <2>1. cmd'[p].at = cmd[p].at /\ cmd'[p].id = cmd[p].id /\ cmd'[p].creds.access = n /\ cmd'[p].refused = cmd[p].refused /\ cmd'[p].header = None
    BY <1>2, <1>7 DEF CommandStates
  <2>2. \A q \in Clients : q # p => cmd'[q] = cmd[q] BY <1>7 DEF Becomes, ClientTypeOK, CommandsOK
  <2>3. \A m \in Tokens : age[m] # "expired" => age'[m] # "expired" BY <1>7 DEF ClientTypeOK, FilesOK
  <2>4. age'[n] = "fresh" BY <1>7 DEF ClientTypeOK, FilesOK
  <2>5. Logged => Logged'
    <3>1. ASSUME Logged PROVE Logged'
      <4>1. credentials \in Credentials /\ credentials.access \in Tokens /\ age[credentials.access] # "expired" BY <3>1, Loaded DEF Logged
      <4>2. credentials' \in Credentials /\ age'[credentials'.access] # "expired" BY <1>1, <4>1, <2>3
      <4> QED BY <1>1, <4>2, Names DEF Logged, LoadCredentials, Unreadable
    <3> QED BY <3>1
  <2>6. calm => Recognised(p)' BY <1>1, <1>4, <1>5, <2>1, <2>4, <2>5, Names DEF Recognised, Refreshes, Storing
  <2> QED BY <1>1, <1>2, <1>3, <2>1, <2>2, <2>6, LoneStep
<1> QED BY <1>6, <1>7, RefreshType

LEMMA SaveLone ==
  ASSUME ClientTypeOK, LoneInv, NEW p \in Clients, SaveCredentials(p)
  PROVE  LoneInv'
<1>1. ClientTypeOK' /\ cmd[p].sub = "save" /\ Resume(p) /\ credentials' = cmd[p].creds
      /\ UNCHANGED <<sessionFile, age, live, upload, deployed, minted, calm>> BY SaveType DEF tokens, server
<1>2. Refreshes(p) /\ cmd[p].header = None /\ Running(p) /\ cmd[p].creds \in Credentials /\ cmd[p].creds.access \in Tokens
  BY <1>1, Refreshing, Names DEF Refreshes, Running, Asking
<1>3. ~cmd[p].refused BY DEF LoneInv
<1>4. calm => Recognised(p) /\ Logged /\ age[cmd[p].creds.access] # "expired" BY <1>2 DEF LoneInv, Recognised
<1>5. /\ Moved(p, cmd'[p]) /\ cmd'[p].header = cmd[p].creds.access /\ cmd'[p].at = cmd[p].at /\ cmd'[p].id = cmd[p].id
      /\ cmd'[p].refused = cmd[p].refused /\ cmd'[p].sub = None
  BY <1>1, <1>2, ResumeMoves DEF Moved, Refreshes
<1>6. \A q \in Clients : q # p => cmd'[q] = cmd[q] BY <1>5, MovedType
<1>7. calm => Logged'
  <2>1. ASSUME calm PROVE Logged'
    <3>1. credentials' \in Credentials /\ age'[credentials'.access] # "expired" BY <1>1, <1>2, <1>4, <2>1
    <3> QED BY <3>1, Names DEF Logged, LoadCredentials, Unreadable
  <2> QED BY <2>1
<1>8. cmd'[p].header \in Tokens /\ cmd'[p].header \notin Ids BY <1>2, <1>5, Names
<1>9. calm => Recognised(p)' BY <1>1, <1>4, <1>5, <1>7, <1>8, SMTT(30) DEF Recognised, Refreshes, Storing
<1> QED BY <1>1, <1>2, <1>3, <1>5, <1>6, <1>9, LoneStep

\* The requests that store parts.
LEMMA PutsLone ==
  ASSUME ClientTypeOK, UploadsInv, LoneInv, NEW p \in Clients, PutObject(p) \/ (\E k \in 1..Parts : PutPart(p, k)) \/ PartsDone(p)
  PROVE  LoneInv'
<1>1. ClientTypeOK' BY PutObjectType, PutPartType, PartsDoneType, SMTT(30)
<1>2. UNCHANGED <<credentials, sessionFile, age, live, upload, minted, calm, deployed>> /\ cmd[p].at = "put"
  BY DEF PutObject, PutPart, PartsDone, At, files, tokens, server
<1>3. cmd[p] \in CommandStates /\ Running(p) /\ cmd[p].sub = None /\ cmd[p].header = None BY <1>2, CommandState DEF Running, CommandOK, Asking
<1>4. (Logged' <=> Logged) /\ (Unreadable' <=> Unreadable) BY <1>2, LoggedStays
<1>5. ~cmd[p].refused /\ (calm => Recognised(p)) BY DEF LoneInv
<1>6. CASE End(p) BY <1>1, <1>2, <1>3, <1>6, LoneEnd
<1>7. ASSUME \A q \in Clients : q # p => cmd'[q] = cmd[q],
             cmd'[p].at \in {"put", "complete"}, cmd'[p].id = cmd[p].id, cmd'[p].header = None, cmd'[p].sub = None, ~cmd'[p].refused
      PROVE  LoneInv'
  <2>1. calm => Recognised(p)' BY <1>2, <1>4, <1>5, <1>7, Names DEF Recognised, Refreshes, Storing
  <2> QED BY <1>1, <1>2, <1>3, <1>7, <2>1, LoneStep
<1>8. CASE GoTo(p, "complete")
  <2>1. cmd'[p] = [cmd[p] EXCEPT !.at = "complete", !.header = None] /\ \A q \in Clients : q # p => cmd'[q] = cmd[q]
    BY <1>8 DEF GoTo, Becomes, ClientTypeOK, CommandsOK
  <2>2. cmd'[p].at = "complete" /\ cmd'[p].id = cmd[p].id /\ cmd'[p].header = None /\ cmd'[p].sub = None /\ cmd'[p].refused = cmd[p].refused
    BY <1>3, <2>1 DEF CommandStates
  <2> QED BY <1>5, <1>7, <2>1, <2>2
<1>9. ASSUME NEW k \in 1..Parts, Becomes(p, [cmd[p] EXCEPT !.etags = @ \cup {k}, !.tries[k] = 0]) \/ Becomes(p, [cmd[p] EXCEPT !.tries[k] = @ + 1])
      PROVE  LoneInv'
  <2>1. \A q \in Clients : q # p => cmd'[q] = cmd[q] BY <1>9 DEF Becomes, ClientTypeOK, CommandsOK
  <2>2. cmd'[p] = [cmd[p] EXCEPT !.etags = @ \cup {k}, !.tries[k] = 0] \/ cmd'[p] = [cmd[p] EXCEPT !.tries[k] = @ + 1]
    BY <1>9 DEF Becomes, ClientTypeOK, CommandsOK
  <2>3. cmd'[p].at = "put" /\ cmd'[p].id = cmd[p].id /\ cmd'[p].header = None /\ cmd'[p].sub = None /\ cmd'[p].refused = cmd[p].refused
    BY <1>2, <1>3, <2>2 DEF CommandStates
  <2> QED BY <1>5, <1>7, <2>1, <2>3
<1> QED BY <1>6, <1>8, <1>9 DEF PutObject, PutPart, PartsDone

\* What the server answers to a session that the client holds.
LEMMA SessionKept ==
  ASSUME ClientTypeOK, NEW h \in Ids, NEW i \in Sessions(h), Issue(h, i), Adopt(h, i),
         h \in minted, sessionFile = h, ~Logged, ~Unreadable
  PROVE  i \in Ids /\ sessionFile' = i /\ i \in live'
<1>1. i \in Ids BY SessionsStep, Names
<1>2. CASE i = h BY <1>1, <1>2, Names DEF Sessions, Issue, Adopt, IsToken, FreshIds
<1>3. CASE i # h BY <1>1, <1>3, Names DEF Issue, Adopt, Logged
<1> QED BY <1>1, <1>2, <1>3

\* The server takes a command on its own for a user or for its session.
LEMMA KnownCaller ==
  ASSUME ClientTypeOK, LoneInv, calm, NEW p \in Clients, cmd[p].header \in Tokens \cup Ids
  PROVE  /\ Recognised(p) /\ ~Unauthorized(cmd[p].header)
         /\ Logged <=> cmd[p].header \in Tokens
<1>1. Recognised(p) BY DEF LoneInv
<1> QED BY <1>1, Names DEF Recognised, Unauthorized, IsToken

\* On to the site's options.
LEMMA LoneSite ==
  ASSUME ClientTypeOK, ClientTypeOK', LoneInv, NEW p \in Clients, Running(p), UNCHANGED <<calm, credentials, age>>,
         NEW c, Moved(p, c), c.at \in {"patch", "name"}, c.header = None, calm => Logged
  PROVE  LoneInv'
<1>1. cmd'[p] = c /\ \A q \in Clients : q # p => cmd'[q] = cmd[q] BY MovedType
<1>2. ~c.refused /\ c.sub = None BY DEF Moved, CommandOK
<1>3. calm => Recognised(p)' BY <1>1, <1>2, LoggedStays, Names DEF Recognised, Refreshes, Storing
<1> QED BY <1>1, <1>2, <1>3, LoneStep

LEMMA CreateLone ==
  ASSUME ClientTypeOK, LoneInv, NEW p \in Clients, NEW u \in Uploads, CreateUploadSession(p, u)
  PROVE  LoneInv'
<1> DEFINE h == cmd[p].header
<1>1. ClientTypeOK' /\ UNCHANGED <<credentials, age, deployed, calm>> BY CreateType DEF CreateUploadSession, tokens, Plain
<1>2. cmd[p] \in CommandStates /\ h \in Tokens \cup Ids /\ cmd[p].sub = None /\ cmd[p].etags = {} /\ Running(p) BY CommandState DEF CreateUploadSession, Asking
<1>3. calm => Recognised(p) /\ ~Unauthorized(h) /\ (Logged <=> h \in Tokens) BY <1>2, KnownCaller
<1>4. CASE Unauthorized(h) /\ Refuse(p) BY <1>1, <1>2, <1>3, <1>4, LoneEnd
<1>5. CASE ~Unauthorized(h)
  <2>1. PICK i \in Sessions(h) : /\ Issue(h, i) /\ Adopt(h, i)
             /\ IF Offers(i)
                THEN /\ upload' = [upload EXCEPT ![u] = [owner |-> Owner(i), encoding |-> IF cmd[p].of.gzip THEN "gzip" ELSE None]]
                     /\ opened' = [opened EXCEPT ![u] = [owner |-> Owner(i), size |-> cmd[p].of.size]]
                     /\ Take(p, Becomes(p, [cmd[p] EXCEPT !.at = "put", !.id = u, !.header = None]))
                ELSE /\ UNCHANGED <<upload, opened>>
                     /\ Take(p, IF Denied(i) THEN Refuse(p)
                                ELSE IF cmd[p].of.size = "huge" THEN End(p) ELSE GoTo(p, "direct"))
    BY <1>5 DEF CreateUploadSession
  <2>2. CASE End(p) BY <1>1, <1>2, <2>2, LoneEnd
  <2>3. CASE Denied(i) /\ Refuse(p) BY <1>1, <1>2, <2>3, LoneEnd DEF Denied
  <2>4. CASE GoTo(p, "direct")
    <3>1. PICK c : Moved(p, c) /\ c.at = "direct" /\ c.header = None BY <1>2, <2>4, SendMoves DEF Asking
    <3> QED BY <1>1, <1>2, <3>1, LoneGo
  <2>5. CASE Offers(i) /\ Becomes(p, [cmd[p] EXCEPT !.at = "put", !.id = u, !.header = None])
    <3>1. cmd'[p] = [cmd[p] EXCEPT !.at = "put", !.id = u, !.header = None] /\ \A q \in Clients : q # p => cmd'[q] = cmd[q]
      BY <2>5 DEF Becomes, ClientTypeOK, CommandsOK
    <3>2. cmd'[p].at = "put" /\ cmd'[p].id = u /\ cmd'[p].header = None /\ cmd'[p].sub = None /\ cmd'[p].refused = cmd[p].refused
      BY <1>2, <3>1 DEF CommandStates
    <3>3. ~cmd[p].refused BY DEF LoneInv
    <3>4. upload'[u].owner = Owner(i)
      <4>1. \E e : upload' = [upload EXCEPT ![u] = [owner |-> Owner(i), encoding |-> e]] BY <2>1, <2>5
      <4> QED BY <4>1 DEF ClientTypeOK, ServerOK
    <3>5. (Logged' <=> Logged) /\ (Unreadable' <=> Unreadable) BY <1>1, LoggedStays
    <3>6. ASSUME calm PROVE IF Owner(i) = Project THEN Logged ELSE ~Logged /\ ~Unreadable /\ sessionFile' = Owner(i) /\ Owner(i) \in live'
      <4>1. CASE h \in Tokens
        <5>1. i = None BY <1>2, <2>1, <4>1, SessionsStep
        <5> QED BY <1>3, <3>6, <4>1, <5>1 DEF Owner
      <4>2. CASE h \in Ids
        <5>1. ~Logged /\ ~Unreadable /\ sessionFile = h /\ h \in minted BY <1>3, <3>6, <4>2 DEF Recognised
        <5>2. i \in Ids /\ sessionFile' = i /\ i \in live' BY <2>1, <4>2, <5>1, SessionKept
        <5>3. Owner(i) = i /\ i # Project BY <5>2, Names DEF Owner
        <5> QED BY <5>1, <5>2, <5>3
      <4> QED BY <1>2, <4>1, <4>2
    <3>7. calm => Recognised(p)' BY <3>2, <3>4, <3>5, <3>6, Names DEF Recognised, Refreshes, Storing
    <3> QED BY <1>1, <1>2, <3>1, <3>2, <3>3, <3>7, LoneStep
  <2> QED BY <2>1, <2>2, <2>3, <2>4, <2>5 DEF Take
<1> QED BY <1>4, <1>5 DEF CreateUploadSession

LEMMA CompleteLone ==
  ASSUME ClientTypeOK, UploadsInv, LoneInv, NEW p \in Clients, CompleteUploadSession(p)
  PROVE  LoneInv'
<1> DEFINE h == cmd[p].header
           u == cmd[p].id
           j == upload[cmd[p].id].owner
<1>1. Storing(p) BY DEF CompleteUploadSession, Ready, At, Storing
<1>2. upload[u] \in UploadStates /\ u \in Uploads BY <1>1, Alone DEF StoringOK
<1>3. ClientTypeOK' /\ UNCHANGED <<credentials, age, deployed, calm>> BY <1>2, CompleteType DEF CompleteUploadSession, tokens, Plain
<1>4. h \in Tokens \cup Ids /\ cmd[p].sub = None /\ Running(p) BY CommandState DEF CompleteUploadSession, Asking
<1>5. calm => Recognised(p) /\ ~Unauthorized(h) /\ (Logged <=> h \in Tokens) BY <1>4, KnownCaller
<1>6. CASE Unauthorized(h) /\ Refuse(p) BY <1>3, <1>4, <1>5, <1>6, LoneEnd
<1>7. CASE ~Unauthorized(h)
  <2>1. PICK i \in Sessions(h) : /\ Issue(h, i) /\ Adopt(h, i)
             /\ IF ~MayComplete(u, i) THEN UNCHANGED <<upload, part, asset, faults>> /\ Take(p, Refuse(p))
                ELSE \/ /\ asset' = [asset EXCEPT ![u] = Completed(p, i)] /\ Forget(u) /\ UNCHANGED faults
                        /\ Take(p, Configure(p, Completed(p, i).owner, "upload"))
                     \/ /\ Fault /\ asset' \in {asset, [asset EXCEPT ![u] = Completed(p, i)]}
                        /\ End(p) /\ UNCHANGED <<upload, part>>
    BY <1>7 DEF CompleteUploadSession
  <2>2. i \in Ids \cup {None} /\ (i = None <=> h \in Tokens) BY <1>4, <2>1, SessionsStep
  <2>3. ASSUME calm PROVE MayComplete(u, i) /\ (Completed(p, i).owner = Project => Logged)
    <3>1. CASE j = Project
      <4>1. Logged BY <1>1, <1>5, <2>3, <3>1 DEF Recognised
      <4>2. i = None BY <1>5, <2>2, <2>3, <4>1
      <4> QED BY <3>1, <4>1, <4>2 DEF MayComplete
    <3>2. CASE j # Project
      <4>1. ~Logged /\ sessionFile = j /\ j \in live BY <1>1, <1>5, <2>3, <3>2 DEF Recognised
      <4>2. h \in Ids /\ h = j BY <1>4, <1>5, <2>3, <4>1 DEF Recognised
      <4>3. i = j BY <2>1, <4>1, <4>2, Names DEF Sessions, IsToken
      <4>4. Completed(p, i).owner = i /\ i # Project BY <3>2, <4>3 DEF Completed
      <4> QED BY <3>2, <4>3, <4>4 DEF MayComplete
    <3> QED BY <3>1, <3>2
  <2>4. CASE End(p) BY <1>3, <1>4, <2>4, LoneEnd
  <2>5. CASE ~MayComplete(u, i) /\ Refuse(p) BY <1>3, <1>4, <2>3, <2>5, LoneEnd
  <2>6. CASE Configure(p, Completed(p, i).owner, "upload")
    <3>1. PICK c : Moved(p, c) /\ c.header = None /\ (c.at # "idle" => Completed(p, i).owner = Project /\ c.at \in {"patch", "name"})
      BY <1>4, <2>6, ConfigureMoves
    <3>2. CASE c.at # "idle" BY <1>3, <1>4, <2>3, <3>1, <3>2, LoneSite
    <3>3. CASE c.at = "idle"
      <4>1. cmd'[p] = c /\ \A q \in Clients : q # p => cmd'[q] = cmd[q] BY <3>1, MovedType
      <4>2. End(p) \/ GoTo(p, "patch") \/ GoTo(p, "name") BY <2>6 DEF Configure
      <4>3. cmd[p] \in CommandStates BY CommandState
      <4>4. GoTo(p, "patch") \/ GoTo(p, "name") => cmd'[p].at # "idle"
        BY <4>3 DEF GoTo, Becomes, ClientTypeOK, CommandsOK, CommandStates
      <4> QED BY <2>4, <3>3, <4>1, <4>2, <4>4
    <3> QED BY <3>2, <3>3
  <2> QED BY <2>1, <2>4, <2>5, <2>6 DEF Take
<1> QED BY <1>6, <1>7 DEF CompleteUploadSession

\* After the asset: the next option of a project's asset, or the end.
LEMMA ConfigureLone ==
  ASSUME ClientTypeOK, ClientTypeOK', LoneInv, NEW p \in Clients, Running(p), cmd[p].sub = None, UNCHANGED <<calm, credentials, age>>,
         NEW owner, NEW from, Configure(p, owner, from), calm /\ owner = Project => Logged
  PROVE  LoneInv'
<1>1. CASE End(p) BY <1>1, LoneEnd
<1>2. ASSUME NEW at \in {"patch", "name"}, owner = Project, GoTo(p, at) PROVE LoneInv'
  <2>1. PICK c : Moved(p, c) /\ c.at = at /\ c.header = None BY <1>2, SendMoves DEF Asking
  <2> QED BY <1>2, <2>1, LoneSite
<1> QED BY <1>1, <1>2 DEF Configure

LEMMA DirectLone ==
  ASSUME ClientTypeOK, LoneInv, NEW p \in Clients, NEW u \in Uploads, UploadDirect(p, u)
  PROVE  LoneInv'
<1> DEFINE h == cmd[p].header
           d == [cmd[p] EXCEPT !.at = IF "patch" \in cmd[p].of.want THEN "patch" ELSE "name", !.id = u, !.header = None]
<1>1. ClientTypeOK' /\ Plain(p) /\ UNCHANGED <<credentials, age, deployed, calm>> BY DirectType DEF UploadDirect, tokens, Plain
<1>2. cmd[p] \in CommandStates /\ h \in Tokens \cup Ids /\ cmd[p].sub = None /\ Running(p) BY CommandState DEF UploadDirect, Asking
<1>3. calm => Recognised(p) /\ ~Unauthorized(h) /\ (Logged <=> h \in Tokens) BY <1>2, KnownCaller
<1>4. CASE Unauthorized(h) /\ Refuse(p) BY <1>1, <1>2, <1>3, <1>4, LoneEnd
<1>5. CASE ~Unauthorized(h)
  <2>1. PICK i \in Sessions(h) : /\ Issue(h, i) /\ Adopt(h, i)
             /\ IF Denied(i) THEN Take(p, Refuse(p))
                ELSE \/ Take(p, IF Owner(i) # Project \/ cmd[p].of.want = {} THEN End(p) ELSE Becomes(p, d))
                     \/ End(p)
    BY <1>5 DEF UploadDirect
  <2>2. CASE End(p) BY <1>1, <1>2, <2>2, LoneEnd
  <2>3. CASE Denied(i) /\ Refuse(p) BY <1>1, <1>2, <2>3, LoneEnd DEF Denied
  <2>4. CASE Owner(i) = Project /\ Becomes(p, d)
    <3>1. i = None /\ h \in Tokens
      <4>1. i \in Ids \cup {None} /\ (i = None <=> h \in Tokens) BY <1>2, <2>1, SessionsStep
      <4> QED BY <2>4, <4>1, Names DEF Owner
    <3>2. cmd'[p] = d BY <2>4 DEF Becomes, ClientTypeOK, CommandsOK
    <3>3. d.at \in {"patch", "name"} /\ d.header = None BY <1>2 DEF CommandStates
    <3>4. PICK c : Moved(p, c) BY <1>1 DEF Plain
    <3>5. cmd'[p] = c BY <3>4, MovedType
    <3>6. calm => Logged BY <1>3, <3>1
    <3> HIDE DEF d
    <3>7. c.at \in {"patch", "name"} /\ c.header = None BY <3>2, <3>3, <3>5
    <3> QED BY <1>1, <1>2, <3>4, <3>6, <3>7, LoneSite
  <2> QED BY <2>1, <2>2, <2>3, <2>4 DEF Take
<1> QED BY <1>4, <1>5 DEF UploadDirect

LEMMA SiteOptionLone ==
  ASSUME ClientTypeOK, LoneInv, NEW p \in Clients, NEW step \in {"patch", "name"}, ApplySiteOption(p, step)
  PROVE  LoneInv'
<1> DEFINE h == cmd[p].header
<1>1. ClientTypeOK' /\ UNCHANGED <<credentials, age, deployed, calm>> BY SiteOptionType DEF ApplySiteOption, tokens, Plain
<1>2. cmd[p].at = step /\ h \in Tokens \cup Ids /\ cmd[p].sub = None /\ Running(p) BY CommandState DEF ApplySiteOption, Asking
<1>3. calm => Recognised(p) /\ ~Unauthorized(h) /\ (Logged <=> h \in Tokens) BY <1>2, KnownCaller
<1>4. calm => Logged /\ h \in Tokens BY <1>2, <1>3 DEF Recognised
<1>5. CASE Unauthorized(h) /\ Refuse(p) BY <1>1, <1>2, <1>3, <1>5, LoneEnd
<1>6. CASE ~Unauthorized(h)
  <2>1. PICK i \in Sessions(h) : /\ Issue(h, i) /\ Adopt(h, i)
             /\ \/ i # None /\ Take(p, Refuse(p))
                \/ i = None /\ Take(p, Configure(p, Project, step))
                \/ End(p)
    BY <1>6 DEF ApplySiteOption
  <2>2. CASE End(p) BY <1>1, <1>2, <2>2, LoneEnd
  <2>3. CASE i # None /\ Refuse(p)
    <3>1. ~calm BY <1>2, <1>4, <2>1, <2>3, SessionsStep
    <3> QED BY <1>1, <1>2, <2>3, <3>1, LoneEnd
  <2>4. CASE Configure(p, Project, step) BY <1>1, <1>2, <1>4, <2>4, ConfigureLone
  <2> QED BY <2>1, <2>2, <2>3, <2>4 DEF Take
<1> QED BY <1>5, <1>6 DEF ApplySiteOption

LEMMA OutsideLone ==
  ASSUME ClientTypeOK, LoneInv,
         \/ Login \/ Logout \/ (\E n \in Tokens : Age(n)) \/ (\E i \in Ids : SessionExpires(i))
         \/ (\E p \in Clients : Interrupt(p)) \/ UNCHANGED clientVars
  PROVE  LoneInv'
<1>1. CASE Login BY <1>1, LoginType, LoneQuiet DEF Login
<1>2. CASE Logout BY <1>2, LogoutType, LoneQuiet DEF Logout
<1>3. CASE \E i \in Ids : SessionExpires(i) BY <1>3, ExpiryType, LoneQuiet DEF SessionExpires
<1>4. CASE \E p \in Clients : Interrupt(p)
  <2>1. PICK p \in Clients : Interrupt(p) BY <1>4
  <2> QED BY <2>1, InterruptType, LoneEnd DEF Interrupt
<1>5. ASSUME UNCHANGED <<credentials, sessionFile, minted, live, upload, cmd>>, ClientTypeOK', calm' => calm,
             \A n \in Tokens : (age'[n] = "expired") <=> (age[n] = "expired")
      PROVE  LoneInv'
  <2>1. Unreadable' <=> Unreadable BY <1>5 DEF Unreadable
  <2>2. LoadCredentials' = LoadCredentials
    <3>1. credentials \notin {None, Blank} => credentials.access \in Tokens BY DEF ClientTypeOK, FilesOK, Credentials
    <3>2. CASE credentials \in {None, Blank} BY <1>5, <3>2 DEF LoadCredentials, Unreadable
    <3>3. CASE credentials \notin {None, Blank} /\ age[credentials.access] = "expired"
      <4>1. age'[credentials'.access] = "expired" BY <1>5, <3>1, <3>3
      <4> QED BY <1>5, <3>3, <4>1 DEF LoadCredentials, Unreadable
    <3>4. CASE credentials \notin {None, Blank} /\ age[credentials.access] # "expired"
      <4>1. age'[credentials'.access] # "expired" BY <1>5, <3>1, <3>4
      <4> QED BY <1>5, <3>4, <4>1 DEF LoadCredentials, Unreadable
    <3> QED BY <3>2, <3>3, <3>4
  <2>3. Logged' <=> Logged BY <2>2 DEF Logged
  <2>4. ASSUME NEW p \in Clients, Recognised(p) PROVE Recognised(p)'
    <3>1. Refreshes(p) => cmd[p].creds.access \in Tokens BY Refreshing DEF Refreshes
    <3> QED BY <1>5, <2>1, <2>3, <2>4, <3>1 DEF Recognised, Refreshes, Storing
  <2> QED BY <1>5, <2>4 DEF LoneInv, Running
<1>6. CASE \E n \in Tokens : Age(n)
  <2>1. PICK n \in Tokens : Age(n) BY <1>6
  <2>2. ClientTypeOK' /\ UNCHANGED <<credentials, sessionFile, minted, live, upload, cmd>> BY <2>1, AgeType DEF Age, files, server
  <2>3. CASE age[n] = "fresh"
    <3>1. age' = [age EXCEPT ![n] = "closing"] BY <2>1, <2>3 DEF Age, Older
    <3>2. \A m \in Tokens : (age'[m] = "expired") <=> (age[m] = "expired") BY <2>3, <3>1 DEF ClientTypeOK, FilesOK
    <3> QED BY <1>5, <2>1, <2>2, <3>2 DEF Age
  <2>4. CASE age[n] # "fresh"
    <3>1. calm' => calm /\ Quiet BY <2>1, <2>4 DEF Age
    <3> QED BY <2>2, <3>1, LoneQuiet
  <2> QED BY <2>3, <2>4
<1>7. CASE UNCHANGED clientVars BY <1>5, <1>7, StutterType DEF clientVars, files, tokens, server
<1> QED BY <1>1, <1>2, <1>3, <1>4, <1>6, <1>7

LEMMA InitLone == ASSUME ClientInit PROVE LoneInv
<1>1. \A p \in Clients : cmd[p] = Idle BY DEF ClientInit
<1>2. \A p \in Clients : cmd[p].at = "idle" /\ cmd[p].header = None /\ cmd[p].sub = None /\ ~cmd[p].refused BY <1>1 DEF Idle
<1> QED BY <1>2, Names DEF LoneInv, Running, Recognised, Refreshes, Storing

-------------------------------------------------------------------------------
(* The theorems.                                                           *)

ClientInv == ClientTypeOK /\ RefreshInv /\ UploadsInv /\ LoneInv

\* What was not alone stays so.
LEMMA CalmStays == [ClientNext]_clientVars => (calm' => calm)
<1>1. ASSUME NEW p \in Clients, Command(p) PROVE calm' => calm
  <2>1. \A o \in Commands[p] : DoUpload(p, o) => (calm' => calm) BY DEF DoUpload
  <2>2. Probe(p) \/ CommonHeaders(p) \/ RefreshAccessToken(p) \/ SaveCredentials(p) => (calm' => calm)
    BY DEF Probe, CommonHeaders, RefreshAccessToken, SaveCredentials
  <2>3. \A u \in Uploads : CreateUploadSession(p, u) \/ UploadDirect(p, u) => (calm' => calm) BY DEF CreateUploadSession, UploadDirect
  <2>4. \A k \in 1..Parts : PutPart(p, k) => (calm' => calm) BY DEF PutPart
  <2>5. PutObject(p) \/ PartsDone(p) \/ CompleteUploadSession(p) \/ Interrupt(p) => (calm' => calm)
    BY DEF PutObject, PartsDone, CompleteUploadSession, Interrupt
  <2>6. \A step \in {"patch", "name"} : ApplySiteOption(p, step) => (calm' => calm) BY DEF ApplySiteOption
  <2> QED BY <1>1, <2>1, <2>2, <2>3, <2>4, <2>5, <2>6 DEF Command
<1>2. Login \/ Logout => (calm' => calm) BY DEF Login, Logout
<1>3. \A n \in Tokens : Age(n) => (calm' => calm) BY DEF Age
<1>4. \A i \in Ids : SessionExpires(i) => (calm' => calm) BY DEF SessionExpires
<1>5. UNCHANGED clientVars => (calm' => calm) BY DEF clientVars
<1> QED BY <1>1, <1>2, <1>3, <1>4, <1>5 DEF ClientNext

LEMMA ClientStep == ClientInv /\ [ClientNext]_clientVars => ClientInv'
<1> SUFFICES ASSUME ClientInv, [ClientNext]_clientVars PROVE ClientInv' OBVIOUS
<1> USE DEF ClientInv
<1>0. calm' => calm BY CalmStays
<1>19. OneCommand BY DEF LoneInv, OneCommand
<1>1. ASSUME NEW p \in Clients, NEW o \in Commands[p], DoUpload(p, o) PROVE ClientInv'
  BY <1>0, <1>1, DoUploadType, PlainRefresh, PlainUploads, DoUploadLone
<1>2. ASSUME NEW p \in Clients, Probe(p) PROVE ClientInv' BY <1>0, <1>2, ProbeType, PlainRefresh, PlainUploads, ProbeLone
<1>3. ASSUME NEW p \in Clients, CommonHeaders(p) PROVE ClientInv' BY <1>3, HeadersType, HeadersRefresh, PlainUploads, HeadersLone
<1>4. ASSUME NEW p \in Clients, RefreshAccessToken(p) PROVE ClientInv' BY <1>4, <1>19, RefreshType, RefreshRefresh, PlainUploads, RefreshLone
<1>5. ASSUME NEW p \in Clients, SaveCredentials(p) PROVE ClientInv' BY <1>5, <1>19, SaveType, SaveRefresh, PlainUploads, SaveLone
<1>6. ASSUME NEW p \in Clients, NEW u \in Uploads, CreateUploadSession(p, u) PROVE ClientInv'
  BY <1>0, <1>6, CreateType, PlainRefresh, CreateUploads, CreateLone
<1>7. ASSUME NEW p \in Clients, NEW u \in Uploads, UploadDirect(p, u) PROVE ClientInv'
  BY <1>0, <1>7, DirectType, PlainRefresh, DirectUploads, DirectLone
<1>8. ASSUME NEW p \in Clients, PutObject(p) PROVE ClientInv' BY <1>0, <1>8, PutObjectType, PlainRefresh, PutObjectUploads, PutsLone
<1>9. ASSUME NEW p \in Clients, NEW k \in 1..Parts, PutPart(p, k) PROVE ClientInv' BY <1>0, <1>9, PutPartType, PlainRefresh, PutPartUploads, PutsLone
<1>10. ASSUME NEW p \in Clients, PartsDone(p) PROVE ClientInv' BY <1>0, <1>10, PartsDoneType, PlainRefresh, PartsDoneUploads, PutsLone
<1>11. ASSUME NEW p \in Clients, CompleteUploadSession(p) PROVE ClientInv'
  <2>1. Storing(p) BY <1>11 DEF CompleteUploadSession, Ready, At, Storing
  <2>2. upload[cmd[p].id] \in UploadStates BY <2>1, Alone DEF StoringOK
  <2> QED BY <1>0, <1>11, <2>2, CompleteType, PlainRefresh, CompleteUploads, CompleteLone
<1>12. ASSUME NEW p \in Clients, NEW step \in {"patch", "name"}, ApplySiteOption(p, step) PROVE ClientInv'
  BY <1>0, <1>12, SiteOptionType, PlainRefresh, PlainUploads, SiteOptionLone
<1>13. ASSUME NEW p \in Clients, Interrupt(p) PROVE ClientInv' BY <1>13, InterruptType, OutsideRefresh, PlainUploads, OutsideLone
<1>14. CASE Login BY <1>14, LoginType, LoginRefresh, OutsideUploads, OutsideLone
<1>15. CASE Logout BY <1>15, LogoutType, OutsideRefresh, OutsideUploads, OutsideLone
<1>16. CASE \E n \in Tokens : Age(n) BY <1>16, AgeType, OutsideRefresh, OutsideUploads, OutsideLone
<1>17. CASE \E i \in Ids : SessionExpires(i) BY <1>17, ExpiryType, OutsideRefresh, OutsideUploads, OutsideLone
<1>18. CASE UNCHANGED clientVars BY <1>18, StutterType, OutsideRefresh, OutsideUploads, OutsideLone
<1> HIDE DEF ClientInv
<1> QED BY <1>1, <1>2, <1>3, <1>4, <1>5, <1>6, <1>7, <1>8, <1>9, <1>10, <1>11, <1>12, <1>13, <1>14, <1>15, <1>16, <1>17, <1>18
        DEF ClientNext, Command

\* The state of every client, of the files they share and of the server's uploads,
\* the invariant of the theorems below (cli/upload.ts, helpers.ts, config.ts, auth.ts).
THEOREM ClientInvariant == ClientSpec => []ClientInv
<1>1. ClientInit => ClientInv BY InitType, InitRefresh, InitUploads, InitLone DEF ClientInv
<1> QED BY <1>1, ClientStep, PTL DEF ClientSpec

\* For any number of clients, parts, retries and failures, an asset that a client
\* completes holds the whole file under its label (cli/upload.ts:13-39, 75-127).
THEOREM FinishedUploads == ClientSpec => []FinishedUploadIsWhole
<1>1. ClientInv => FinishedUploadIsWhole BY UploadsWhole DEF ClientInv
<1> QED BY <1>1, ClientInvariant, PTL

\* Whatever clients and logins share the directory, an asset stays with the session or
\* project its upload was opened for, or is nobody's (complete-upload-session.ts).
THEOREM AssetsStay == ClientSpec => []AssetsStayWithTheirOpener
<1>1. ClientInv => AssetsStayWithTheirOpener BY UploadsWhole DEF ClientInv
<1> QED BY <1>1, ClientInvariant, PTL

\* A command on its own is refused by no request after its first (helpers.ts:120-160).
THEOREM LoneUploads == ClientSpec => []LoneUploadsAreAccepted
<1>1. ClientInv => LoneUploadsAreAccepted BY DEF ClientInv, LoneInv, LoneUploadsAreAccepted
<1> QED BY <1>1, ClientInvariant, PTL

\* The refresh token on file is accepted: with a provider that keeps or rotates these,
\* whatever number of clients refresh with one token, for the one that is answered writes
\* it; with one that revokes the login of a retired token, for commands that ran alone,
\* which present no token they have replaced (auth.ts:119-160).
THEOREM RefreshTokens == ClientSpec => []RefreshTokenIsUsable
<1>1. ClientInv => RefreshTokenIsUsable BY RefreshUsable DEF ClientInv
<1> QED BY <1>1, ClientInvariant, PTL
===============================================================================
