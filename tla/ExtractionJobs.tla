--------------------------- MODULE ExtractionJobs ---------------------------
(***************************************************************************)
(* The Worker's side of archive extraction: job rows, the asset or version *)
(* row each job is mirrored onto, the extraction queue and its consumer,   *)
(* the containers it launches, their status callbacks, the cron that heals *)
(* drift and re-enqueues jobs, and the users who retry, re-extract and     *)
(* delete.  Every handler reads a row, keeps it across awaits and writes   *)
(* the whole row back, so the reads and the writes are separate steps.     *)
(*                                                                         *)
(* Times are abstracted: "older" orders the jobs by updated_at, and "stale" *)
(* are those not updated for the stuck threshold.  fileCount and           *)
(* extractedSize are one counter.  The container is the process specified  *)
(* in ArchiveExtractor, reduced to the progress it reports.                *)
(***************************************************************************)
EXTENDS Integers, FiniteSets

CONSTANTS
  Jobs,
  Own,           \* assets' own jobs; the others are versions' jobs
  Asset,         \* of a version's job the asset's own, or itself if that is no archive
  MaxRetries,    \* MAX_RETRIES of the cron
  PerTick,       \* MAX_RETRIABLE_PER_TICK
  MaxAttempts,   \* deliveries of a message before it is dead-lettered
  Total,         \* what a complete extraction counts
  MaxMessages,   \* bound: messages of a job on the same delivery
  MaxHandlers,   \* bound: handlers of a job that hold a row, beside the cron
  MaxFaults,     \* bound: failed calls, lost or repeated messages, deaths
  MaxRequests    \* bound: requests of users

ASSUME JobsAssumption ==
  /\ Own \subseteq Jobs
  /\ Asset \in [Jobs -> Jobs]
  /\ \A j \in Jobs : Asset[j] = j \/ (j \notin Own /\ Asset[j] \in Own)
ASSUME LimitsAssumption ==
  /\ MaxRetries \in Nat
  /\ PerTick \in Nat \ {0}
  /\ MaxAttempts \in Nat \ {0}
  /\ Total \in Nat
  /\ MaxMessages \in Nat \ {0}
  /\ MaxHandlers \in Nat
  /\ MaxFaults \in Nat
  /\ MaxRequests \in Nat

VARIABLES
  \* the database
  row,         \* jobs: the row of each job, or NoRow
  mirror,      \* status of the asset (Own) or version row; "absent" when deleted
  older,       \* the jobs updated before each job
  stale,       \* jobs whose updated_at is older than the stuck threshold
  \* the queue and the containers
  queue,       \* queue[j][a]: messages of j whose next delivery is the a-th
  container,   \* the container of each job
  extracted,   \* what its stored checkpoint counts
  \* handlers at an await
  posts,       \* status callbacks in flight, by job and kind
  touching,    \* queue consumer: the row touchPendingJob has read
  requests,    \* the user request in progress for each job
  cron,        \* the scheduled handler
  \* history and bounds
  resends,     \* times the cron re-enqueued the job, up to MaxRetries
  parted,      \* jobs whose mirror missed a status, or had an older one put back
  faults, asked

db      == <<row, mirror, older, stale>>
running == <<queue, container, extracted>>
history == <<resends, parted, faults, asked>>
vars    == <<db, running, posts, touching, requests, cron, history>>

NoRow   == [status |-> "none"]
JobRows == [status : {"pending", "running", "completed", "failed"},
            retries : 0..(MaxRetries + 1), count : 0..Total, mark : 0..Total]
FreshRow == [status |-> "pending", retries |-> 0, count |-> 0, mark |-> 0]

\* "new": not uploaded yet.
MirrorStatuses == {"new", "absent", "pending", "extracting", "ready", "failed"}

\* Bound: a container has one progress and one terminal callback in flight.
Kinds == {"progress", "terminal"}
NoPost == [status |-> "none"]
Posts == [status : {"running", "completed", "failed"}, count : 0..Total, waited : BOOLEAN,
          read : BOOLEAN, row : JobRows \cup {NoRow}, mirror : MirrorStatuses,
          asset : MirrorStatuses]

\* heal: jobs whose asset reconcileStuckAssets has not read yet; fix: the one it
\* has.  todo: jobs listRetriable returned; now: the one a write is pending for.
Listed == [job : Jobs, row : JobRows]
Idle == [at |-> "idle", heal |-> {}, fix |-> {}, todo |-> {}, now |-> {}]

-----------------------------------------------------------------------------
(* Helpers *)

Fault == faults < MaxFaults /\ faults' = faults + 1

\* The handlers of a job that hold a row they have read.
Holding(j) ==
  {h \in Kinds \cup {"touch", "request"} :
     \/ h \in Kinds /\ posts[j][h] # NoPost /\ posts[j][h].read
     \/ h = "touch" /\ touching[j] # NoRow
     \/ h = "request" /\ requests[j] # NoPost}
MayHold(j) == Cardinality(Holding(j)) < MaxHandlers

\* INSERT OR REPLACE of a job row with a new updated_at.
SaveRow(j, r) ==
  /\ row' = [row EXCEPT ![j] = r]
  /\ older' = [i \in Jobs |-> IF i = j THEN Jobs \ {j} ELSE older[i] \ {j}]
  /\ stale' = stale \ {j}

\* The statement that writes a mirror: an asset's row is replaced, and so
\* re-created when it was deleted; a version's row is only updated.
SaveMirror(j, m) ==
  mirror' = IF j \in Own \/ mirror[j] # "absent" THEN [mirror EXCEPT ![j] = m] ELSE mirror

\* The rows of an asset or a version go with their prefixes, an asset's with all
\* its versions.
Remove(j) ==
  LET gone == {i \in Jobs : (i = j \/ Asset[i] = j) /\ mirror[i] # "new"} IN
  /\ mirror' = [i \in Jobs |-> IF i \in gone THEN "absent" ELSE mirror[i]]
  /\ extracted' = [i \in Jobs |-> IF i \in gone THEN 0 ELSE extracted[i]]

CanSend(j) == \A a \in 1..MaxAttempts : queue[j][a] < MaxMessages
Send(j) == queue' = [queue EXCEPT ![j][1] = @ + 1]

\* A delivery handed back: one attempt more, or the dead-letter queue.
Retried(j, a) ==
  [i \in 1..MaxAttempts |->
     CASE i = a     -> queue[j][i] - 1
       [] i = a + 1 -> queue[j][i] + 1
       [] OTHER     -> queue[j][i]]

\* A death after progress is not the same failure repeating.
EffectiveRetryCount(r) == IF r.count > r.mark THEN 0 ELSE r.retries

MutantRetriable(j) ==
  /\ row[j] # NoRow
  /\ row[j].retries < MaxRetries \/ row[j].count > row[j].mark
  /\ \/ row[j].status = "failed"
     \/ row[j].status \in {"pending", "running"} /\ j \in stale

\* The WHERE clause of listRetriable.
Retriable(j) ==
  /\ row[j] # NoRow
  /\ row[j].retries <= MaxRetries \/ row[j].count > row[j].mark
  /\ \/ row[j].status = "failed"
     \/ row[j].status \in {"pending", "running"} /\ j \in stale

\* ORDER BY updated_at ASC LIMIT: the rows the cron works on.
ListRetriable ==
  {[job |-> j, row |-> row[j]] :
     j \in {i \in Jobs : /\ Retriable(i)
                        /\ Cardinality({o \in older[i] : Retriable(o)}) < PerTick}}

\* listStuckAssets: completed, and the asset still says otherwise.
Stuck(j) == j \in Own /\ row[j] # NoRow /\ row[j].status = "completed" /\ mirror[j] \in {"pending", "extracting"}

-----------------------------------------------------------------------------
\* No handler, container or cron is at work.
AtRest ==
  /\ stale = {}
  /\ container = [j \in Jobs |-> "off"]
  /\ posts = [j \in Jobs |-> [k \in Kinds |-> NoPost]]
  /\ touching = [j \in Jobs |-> NoRow]
  /\ requests = [j \in Jobs |-> NoPost]
  /\ cron = Idle
  /\ parted = {}

Init ==
  /\ AtRest
  /\ row = [j \in Jobs |-> NoRow]
  /\ mirror = [j \in Jobs |-> "new"]
  /\ older = [j \in Jobs |-> {}]
  /\ queue = [j \in Jobs |-> [a \in 1..MaxAttempts |-> 0]]
  /\ extracted = [j \in Jobs |-> 0]
  /\ resends = [j \in Jobs |-> 0]
  /\ faults = 0
  /\ asked = 0

-----------------------------------------------------------------------------
(* Users *)

\* uploadAsset, completeUploadSession, uploadVersion: the rows are committed in
\* one batch, then the message is sent; a send that fails is only logged.
Upload(j) ==
  /\ mirror[j] = "new"
  /\ Asset[j] # j => mirror[Asset[j]] # "new"
  /\ mirror' = [mirror EXCEPT ![j] = "pending"]
  /\ SaveRow(j, FreshRow)
  /\ \/ Send(j) /\ UNCHANGED faults
     \/ Fault /\ UNCHANGED queue
  /\ UNCHANGED <<container, extracted, posts, touching, requests, cron, resends, parted, asked>>

\* POST /jobs/:id/retry reads the job ...
AskRetry(j) ==
  /\ requests[j] = NoPost
  /\ row[j] # NoRow /\ row[j].status # "completed"
  /\ asked < MaxRequests /\ asked' = asked + 1
  /\ MayHold(j)
  /\ requests' = [requests EXCEPT ![j] = [status |-> "retry", row |-> row[j]]]
  /\ UNCHANGED <<db, running, posts, touching, cron, resends, parted, faults>>

\* ... saves it as pending, and sends a message if the archive is still there.
Retry(j) ==
  /\ requests[j].status = "retry"
  /\ SaveRow(j, [requests[j].row EXCEPT !.status = "pending"])
  /\ \/ mirror[j] # "absent" /\ CanSend(j) /\ Send(j) /\ UNCHANGED faults
     \/ mirror[j] = "absent" /\ UNCHANGED <<queue, faults>>
     \/ Fault /\ UNCHANGED queue
  /\ requests' = [requests EXCEPT ![j] = NoPost]
  /\ UNCHANGED <<mirror, container, extracted, posts, touching, cron, resends, parted, asked>>

\* POST /assets/:id/extract, for an asset that is not ready and has no active job ...
AskExtract(j) ==
  /\ requests[j] = NoPost
  /\ j \in Own
  /\ mirror[j] \notin {"new", "absent", "ready"}
  /\ row[j] = NoRow \/ row[j].status \notin {"pending", "running"}
  /\ asked < MaxRequests /\ asked' = asked + 1
  /\ MayHold(j)
  /\ requests' = [requests EXCEPT ![j] = [status |-> "extract"]]
  /\ UNCHANGED <<db, running, posts, touching, cron, resends, parted, faults>>

\* ... replaces the job and its mirror in one batch, then sends.
Extract(j) ==
  /\ requests[j].status = "extract"
  /\ SaveRow(j, FreshRow)
  /\ SaveMirror(j, "pending")
  /\ parted' = parted \ {j}
  /\ \/ CanSend(j) /\ Send(j) /\ UNCHANGED faults
     \/ Fault /\ UNCHANGED queue
  /\ requests' = [requests EXCEPT ![j] = NoPost]
  /\ UNCHANGED <<container, extracted, posts, touching, cron, resends, asked>>

\* DELETE of the asset or version: the job rows stay.
Delete(j) ==
  /\ mirror[j] \notin {"new", "absent"}
  /\ asked < MaxRequests /\ asked' = asked + 1
  /\ Remove(j)
  /\ UNCHANGED <<row, older, stale, queue, container, posts, touching, requests, cron,
                 resends, parted, faults>>

-----------------------------------------------------------------------------
(* The queue consumer: handleQueue *)

\* Starting the container of a job that already runs does nothing.  A message
\* may be delivered again after it was acknowledged.
Launch(j, a) ==
  /\ queue[j][a] > 0
  /\ container' = [container EXCEPT ![j] = IF @ = "off" THEN "working" ELSE @]
  /\ \/ queue' = [queue EXCEPT ![j][a] = @ - 1] /\ UNCHANGED faults
     \/ Fault /\ UNCHANGED queue
  /\ UNCHANGED <<db, extracted, posts, touching, requests, cron, resends, parted, asked>>

\* No capacity, or no container configuration.  touchPendingJob reads the row;
\* without configuration, or when its read fails, it does not.
LaunchFails(j, a) ==
  /\ queue[j][a] > 0
  /\ touching[j] = NoRow
  /\ queue' = [queue EXCEPT ![j] = Retried(j, a)]
  /\ touching' \in {touching, [touching EXCEPT ![j] = row[j]]}
  /\ touching'[j] # NoRow => row[j].status = "pending" /\ MayHold(j)
  /\ UNCHANGED <<db, container, extracted, posts, requests, cron, history>>

\* The row goes back with a new updated_at; a failed save is only logged.
Touch(j) ==
  /\ touching[j] # NoRow
  /\ \/ SaveRow(j, touching[j]) /\ UNCHANGED faults
     \/ Fault /\ UNCHANGED <<row, older, stale>>
  /\ touching' = [touching EXCEPT ![j] = NoRow]
  /\ UNCHANGED <<mirror, running, posts, requests, cron, resends, parted, asked>>

-----------------------------------------------------------------------------
(* Containers: ArchiveExtractor, as the Worker sees it *)

Post(j, k, status, count) ==
  posts' = [posts EXCEPT ![j][k] =
              [status |-> status, count |-> count, waited |-> TRUE,
               read |-> FALSE, row |-> NoRow, mirror |-> "absent", asset |-> "absent"]]

\* Entries are extracted and checkpointed; progress is reported, best effort,
\* and the run waits for the answer until its HTTP client times out.
\* A run that starts over reports no counters.
Progress(j) ==
  /\ container[j] = "working"
  /\ extracted[j] < Total
  /\ extracted' = [extracted EXCEPT ![j] = @ + 1]
  /\ \/ UNCHANGED posts
     \/ posts[j]["progress"] = NoPost /\ Post(j, "progress", "running", extracted'[j])
  /\ UNCHANGED <<db, queue, container, touching, requests, cron, history>>

ReportStart(j) ==
  /\ container[j] = "working"
  /\ posts[j]["progress"] = NoPost
  /\ row[j] # NoRow /\ row[j].status # "running"
  /\ Post(j, "progress", "running", 0)
  /\ UNCHANGED <<db, running, touching, requests, cron, history>>

\* Nobody waits any longer for the answer to a callback; its handler goes on.
Unwaited(j, k) ==
  IF posts[j][k] = NoPost THEN NoPost ELSE [posts[j][k] EXCEPT !.waited = FALSE]

\* The run ends: everything is extracted, or it fails.
Finish(j) ==
  /\ container[j] = "working"
  /\ posts[j]["terminal"] = NoPost
  /\ posts[j]["progress"] = Unwaited(j, "progress")
  /\ \/ extracted[j] = Total /\ Post(j, "terminal", "completed", Total)
     \/ Post(j, "terminal", "failed", 0)
  /\ container' = [container EXCEPT ![j] = "awaiting"]
  /\ UNCHANGED <<db, queue, extracted, touching, requests, cron, history>>

\* The container exits once its terminal callback is answered or given up.
Awaited(j, k) == k = "terminal" /\ posts[j][k].waited

\* A container dies: rollout, lifetime, crash.
Die(j) ==
  /\ container[j] # "off"
  /\ Fault
  /\ container' = [container EXCEPT ![j] = "off"]
  /\ posts' = [posts EXCEPT ![j] = [k \in Kinds |-> Unwaited(j, k)]]
  /\ UNCHANGED <<db, queue, extracted, touching, requests, cron, resends, parted, asked>>

-----------------------------------------------------------------------------
(* POST /api/internal/jobs/:id/status *)

\* The callback is lost, or its sender times out: of a terminal one, the last of
\* its attempts.
LosePost(j, k) ==
  /\ posts[j][k] # NoPost
  /\ Fault
  /\ posts' \in {[posts EXCEPT ![j][k] = NoPost], [posts EXCEPT ![j][k] = Unwaited(j, k)]}
  /\ container' = [container EXCEPT ![j] = IF Awaited(j, k) THEN "off" ELSE @]
  /\ UNCHANGED <<db, queue, extracted, touching, requests, cron, resends, parted, asked>>

\* What a version's callback finds its asset's status to be.
AssetStatus(j) == IF Asset[j] = j THEN "absent" ELSE mirror[Asset[j]]

\* The job is read, then the asset and the version; a failed read of these is
\* tolerated.  Without a job the answer is 404 and the container gives up.
ReadPost(j, k) ==
  /\ posts[j][k] # NoPost /\ ~posts[j][k].read
  /\ MayHold(j)
  /\ \/ /\ row[j] # NoRow
        /\ \E m \in {mirror[j], "absent"}, s \in {AssetStatus(j), "absent"} :
             /\ posts' = [posts EXCEPT ![j][k] = [@ EXCEPT !.read = TRUE, !.row = row[j],
                                                            !.mirror = m, !.asset = s]]
             /\ IF m = mirror[j] /\ s = AssetStatus(j) THEN UNCHANGED faults ELSE Fault
        /\ UNCHANGED container
     \/ /\ row[j] = NoRow
        /\ posts' = [posts EXCEPT ![j][k] = NoPost]
        /\ container' = [container EXCEPT ![j] = IF Awaited(j, k) THEN "off" ELSE @]
        /\ UNCHANGED faults
  /\ UNCHANGED <<db, queue, extracted, touching, requests, cron, resends, parted, asked>>

\* The row the handler writes: counters that were not reported are kept.
Reported(p) ==
  [p.row EXCEPT !.status = p.status, !.count = IF p.count > 0 THEN p.count ELSE @]

MutantMirrored(p) == IF p.status = "running" THEN "extracting" ELSE p.mirror

Mirrored(p) ==
  CASE p.status = "running"   -> "extracting"
    [] p.status = "completed" -> "ready"
    [] p.status = "failed"    -> "failed"

\* The mirror goes out with the job, and a version's callback replaces the asset's
\* row too, by what it has read of it.
SaveMirrors(j, p) ==
  mirror' = [i \in Jobs |->
    CASE i = j /\ p.mirror # "absent" /\ (j \in Own \/ mirror[j] # "absent") -> Mirrored(p)
      [] i # j /\ i = Asset[j] /\ p.asset # "absent" -> p.asset
      [] OTHER -> mirror[i]]

\* The job's mirror is with it again; an asset's may have left its own job.
Parted(j, p) ==
  (IF p.mirror = "absent" THEN parted \cup {j} ELSE parted \ {j})
  \cup {i \in Jobs \ {j} : i = Asset[j] /\ p.asset \notin {"absent", mirror[i]}}

\* Job and mirrors in one batch; when it fails, the job alone.  The answer makes
\* a waiting container exit; "completed" deletes the checkpoint first.  The answer
\* may be lost and the callback repeated.
WritePost(j, k) ==
  LET p == posts[j][k] IN
  /\ p # NoPost /\ p.read
  /\ SaveRow(j, Reported(p))
  /\ \/ /\ SaveMirrors(j, p) /\ parted' = Parted(j, p)
        /\ \/ posts' = [posts EXCEPT ![j][k] = NoPost] /\ UNCHANGED faults
           \/ /\ Fault
              /\ posts' = [posts EXCEPT ![j][k] = [@ EXCEPT !.read = FALSE, !.row = NoRow,
                                                      !.mirror = "absent", !.asset = "absent"]]
     \/ /\ {p.mirror, p.asset} # {"absent"}
        /\ Fault
        /\ posts' = [posts EXCEPT ![j][k] = NoPost]
        /\ parted' = parted \cup {j}
        /\ UNCHANGED mirror
  /\ IF Awaited(j, k) /\ posts'[j][k] = NoPost
     THEN /\ container' = [container EXCEPT ![j] = "off"]
          /\ extracted' = [extracted EXCEPT ![j] = IF p.status = "completed" THEN 0 ELSE @]
     ELSE UNCHANGED <<container, extracted>>
  /\ UNCHANGED <<queue, touching, requests, cron, resends, asked>>

-----------------------------------------------------------------------------
(* The cron: handleScheduled *)

\* cleanupExpiredAssets, for an asset whose own job is not active: everything
\* goes, the job row too.  A version's job is not looked at, and its row stays.
CleanupExpired(j) ==
  /\ mirror[j] \notin {"new", "absent"}
  /\ Asset[j] = j
  /\ asked < MaxRequests /\ asked' = asked + 1
  /\ j \in Own => row[j] = NoRow \/ row[j].status \notin {"pending", "running"}
  /\ Remove(j)
  /\ IF j \in Own
     THEN /\ row' = [row EXCEPT ![j] = NoRow]
          /\ stale' = stale \ {j}
          /\ UNCHANGED older
     ELSE UNCHANGED <<row, older, stale>>
  /\ UNCHANGED <<queue, container, posts, touching, requests, cron, resends, parted, faults>>

CronStart ==
  /\ cron.at = "idle"
  /\ \E j \in Jobs : Stuck(j) \/ Retriable(j)
  /\ cron' = [Idle EXCEPT !.at = "healing", !.heal = {j \in Jobs : Stuck(j)}]
  /\ UNCHANGED <<db, running, posts, touching, requests, history>>

MutantReadStuck(j) ==
  /\ cron.at = "healing" /\ j \in cron.heal /\ cron.fix = {}
  /\ cron' = [cron EXCEPT !.heal = @ \ {j}, !.fix = IF mirror[j] = "pending" THEN {j} ELSE {}]
  /\ UNCHANGED <<db, running, posts, touching, requests, history>>

\* reconcileStuckAssets reads the asset, looks at its status again ...
ReadStuck(j) ==
  /\ cron.at = "healing" /\ j \in cron.heal /\ cron.fix = {}
  /\ cron' = [cron EXCEPT !.heal = @ \ {j},
                          !.fix = IF mirror[j] \in {"pending", "extracting"} THEN {j} ELSE {}]
  /\ UNCHANGED <<db, running, posts, touching, requests, history>>

\* ... and saves it as ready, going by the job that was listed.
Reconcile(j) ==
  /\ cron.at = "healing" /\ j \in cron.fix
  /\ SaveMirror(j, "ready")
  /\ parted' = parted \ {j}
  /\ cron' = [cron EXCEPT !.fix = {}]
  /\ UNCHANGED <<row, older, stale, running, posts, touching, requests, resends, faults, asked>>

CronList ==
  /\ cron.at = "healing" /\ cron.heal = {} /\ cron.fix = {}
  /\ cron' = IF ListRetriable = {} THEN Idle
             ELSE [Idle EXCEPT !.at = "retriggering", !.todo = ListRetriable]
  /\ UNCHANGED <<db, running, posts, touching, requests, history>>

\* A listed job is taken up; the order among them is left open.
Take(t) == cron.at = "retriggering" /\ t \in cron.todo
Hold(t, at) == [cron EXCEPT !.at = at, !.now = {t}]
Done(t) ==
  IF cron.todo = {t} THEN Idle
  ELSE [cron EXCEPT !.at = "retriggering", !.todo = @ \ {t}, !.now = {}]

GivesUp(r) == EffectiveRetryCount(r) >= MaxRetries

\* The budget is spent: the mirror is read ...
CronFail(t) ==
  /\ Take(t) /\ GivesUp(t.row)
  /\ cron' = Hold(t, IF mirror[t.job] = "absent" THEN "failingAlone" ELSE "failing")
  /\ UNCHANGED <<db, running, posts, touching, requests, history>>

\* ... and the listed job and the mirror, if there was one, go out in one batch.
CronGiveUp(t) ==
  /\ cron.at \in {"failing", "failingAlone"} /\ t \in cron.now
  /\ SaveRow(t.job, [t.row EXCEPT !.status = "failed", !.retries = MaxRetries + 1])
  /\ IF cron.at = "failing" THEN SaveMirror(t.job, "failed") ELSE UNCHANGED mirror
  /\ parted' = IF cron.at = "failing" THEN parted \ {t.job} ELSE parted
  /\ cron' = Done(t)
  /\ UNCHANGED <<running, posts, touching, requests, resends, faults, asked>>

\* No archive left: the job is passed over and nothing is written.
CronSkip(t) ==
  /\ Take(t) /\ ~GivesUp(t.row)
  /\ mirror[t.job] = "absent"
  /\ cron' = Done(t)
  /\ UNCHANGED <<db, running, posts, touching, requests, history>>

MutantCronSend(t) ==
  /\ Take(t) /\ ~GivesUp(t.row)
  /\ mirror[t.job] # "absent" /\ CanSend(t.job)
  /\ cron' = Hold(t, "saving")
  /\ \/ /\ Send(t.job)
        /\ resends' = [resends EXCEPT ![t.job] = IF @ < MaxRetries THEN @ + 1 ELSE @]
        /\ UNCHANGED faults
     \/ Fault /\ UNCHANGED <<queue, resends>>
  /\ UNCHANGED <<db, container, extracted, posts, touching, requests, parted, asked>>

\* The message first; a failed send leaves the row, and its budget, alone.
CronSend(t) ==
  /\ Take(t) /\ ~GivesUp(t.row)
  /\ mirror[t.job] # "absent" /\ CanSend(t.job)
  /\ \/ /\ Send(t.job)
        /\ resends' = [resends EXCEPT ![t.job] = IF @ < MaxRetries THEN @ + 1 ELSE @]
        /\ cron' = Hold(t, "saving")
        /\ UNCHANGED faults
     \/ Fault /\ cron' = Done(t) /\ UNCHANGED <<queue, resends>>
  /\ UNCHANGED <<db, container, extracted, posts, touching, requests, parted, asked>>

\* Then the listed row, with its budget and progress marks; a failed save is
\* only logged.
CronSave(t) ==
  /\ cron.at = "saving" /\ t \in cron.now
  /\ \/ /\ SaveRow(t.job, [t.row EXCEPT !.status = "pending", !.mark = t.row.count,
                                         !.retries = EffectiveRetryCount(t.row) + 1])
        /\ UNCHANGED faults
     \/ Fault /\ UNCHANGED <<row, older, stale>>
  /\ cron' = Done(t)
  /\ UNCHANGED <<mirror, running, posts, touching, requests, resends, parted, asked>>

\* A read or a batch that throws ends the tick.
CronDies ==
  /\ cron.at # "idle"
  /\ Fault
  /\ cron' = Idle
  /\ UNCHANGED <<db, running, posts, touching, requests, resends, parted, asked>>

\* Time passes: the least recently updated row crosses the stuck threshold.
Age(j) ==
  /\ j \notin stale
  /\ row[j] # NoRow
  /\ \A i \in older[j] : row[i] = NoRow \/ i \in stale
  /\ stale' = stale \cup {j}
  /\ UNCHANGED <<row, mirror, older, running, posts, touching, requests, cron, history>>

-----------------------------------------------------------------------------
Consume(j)  == \E a \in 1..MaxAttempts : Launch(j, a) \/ LaunchFails(j, a)
Serve(j, k) == ReadPost(j, k) \/ WritePost(j, k)
Work(j)     == Progress(j) \/ Finish(j)
Tick ==
  \/ CronStart \/ CronList
  \/ \E j \in Jobs : ReadStuck(j) \/ Reconcile(j)
  \/ \E t \in cron.todo : CronFail(t) \/ CronGiveUp(t) \/ CronSkip(t) \/ CronSend(t) \/ CronSave(t)

Ask(j) == AskRetry(j) \/ AskExtract(j) \/ Delete(j) \/ CleanupExpired(j)

Next ==
  \/ \E j \in Jobs :
       \/ Upload(j) \/ Ask(j) \/ Retry(j) \/ Extract(j)
       \/ Consume(j) \/ Touch(j)
       \/ Work(j) \/ ReportStart(j) \/ Die(j) \/ Age(j)
       \/ \E k \in Kinds : LosePost(j, k) \/ Serve(j, k)
  \/ Tick
  \/ CronDies

\* Requests are served, the queue delivers, containers run, time passes and the
\* cron is scheduled; users, faults and progress reports are not forced.
Fairness ==
  /\ \A j \in Jobs :
       /\ WF_vars(Retry(j)) /\ WF_vars(Extract(j))
       /\ WF_vars(Consume(j)) /\ WF_vars(Touch(j))
       /\ WF_vars(Work(j)) /\ WF_vars(Age(j))
       /\ \A k \in Kinds : WF_vars(Serve(j, k))
  /\ WF_vars(Tick)

Spec     == Init /\ [][Next]_vars
FairSpec == Spec /\ Fairness
-----------------------------------------------------------------------------
(* Properties *)

PostsOK(ps) ==
  /\ ps \in [Jobs -> [Kinds -> Posts \cup {NoPost}]]
  /\ \A j \in Jobs, k \in Kinds :
       ps[j][k] # NoPost => (ps[j][k].read <=> ps[j][k].row # NoRow)

CronOK(c) ==
  /\ c \in [at : {"idle", "healing", "retriggering", "failing", "failingAlone", "saving"},
            heal : SUBSET Jobs, fix : SUBSET Jobs,
            todo : SUBSET Listed, now : SUBSET Listed]
  /\ c.now \subseteq c.todo
  /\ \A t \in c.now :
       /\ c.at = "saving" => ~GivesUp(t.row)
       /\ c.at \in {"failing", "failingAlone"} => GivesUp(t.row)

\* Every variable keeps its shape: the rows, the queue and the snapshots the
\* handlers hold are those of the stores.
TypeOK ==
  /\ row \in [Jobs -> JobRows \cup {NoRow}]
  /\ mirror \in [Jobs -> MirrorStatuses]
  /\ older \in [Jobs -> SUBSET Jobs]
  /\ stale \subseteq Jobs
  /\ queue \in [Jobs -> [1..MaxAttempts -> Nat]]
  /\ container \in [Jobs -> {"off", "working", "awaiting"}]
  /\ extracted \in [Jobs -> 0..Total]
  /\ PostsOK(posts)
  /\ touching \in [Jobs -> JobRows \cup {NoRow}]
  /\ requests \in [Jobs -> [status : {"retry"}, row : JobRows] \cup [status : {"extract"}]
                           \cup {NoPost}]
  /\ CronOK(cron)
  /\ resends \in [Jobs -> 0..MaxRetries]
  /\ parted \subseteq Jobs
  /\ faults \in 0..MaxFaults
  /\ asked \in 0..MaxRequests

\* The messages behind a retry count were really sent: no snapshot written back
\* late, no failed send and no failed save makes the cron charge a retry, or
\* give a job up, without its MAX_RETRIES re-enqueues (cleanup/handler.ts:151-170).
Earned(n, r) ==
  r # NoRow => IF r.retries > MaxRetries THEN n = MaxRetries ELSE r.retries <= n

RetryCountEarned == \A j \in Jobs : Earned(resends[j], row[j])

\* Job and mirror move together (ADR-012, section 3): a completed job shows as
\* ready, whichever callbacks, cron steps and requests overlapped, unless, since the
\* two were last written together, a status was written without its mirror
\* (job/handler.ts:224, 230) or a version's callback put an older status back on its
\* asset (job/handler.ts:191, 227).
MirrorsAgree ==
  \A j \in Jobs :
    row[j] # NoRow /\ row[j].status = "completed" /\ j \notin parted
      => mirror[j] \in {"ready", "absent"}

\* What makes the two inductive: the snapshots that handlers hold across their
\* awaits are as earned as the rows, and none of those that go back with their
\* status is of a completed job.
SnapshotsEarned ==
  /\ \A j \in Jobs :
       /\ Earned(resends[j], touching[j])
       /\ requests[j].status = "retry" => Earned(resends[j], requests[j].row)
       /\ \A k \in Kinds : posts[j][k] # NoPost => Earned(resends[j], posts[j][k].row)
  /\ \A t \in cron.todo : Earned(resends[t.job], t.row)
  /\ cron.at = "saving" =>
       \A t \in cron.now : EffectiveRetryCount(t.row) + 1 <= resends[t.job]

SnapshotsUnfinished ==
  /\ \A j \in Jobs : touching[j] # NoRow => touching[j].status # "completed"

\* The properties and what handlers hold at their awaits: a row that was read and
\* is going to be written back (cleanup/handler.ts:98-160, extraction/handler.ts:86-96)
\* is as earned as the one in the table, so no order of writes breaks them.
JobsInv == TypeOK /\ RetryCountEarned /\ SnapshotsEarned /\ MirrorsAgree /\ SnapshotsUnfinished

Settled(j) ==
  \/ row[j] = NoRow
  \/ row[j].status = "completed"
  \/ row[j].retries > MaxRetries
  \/ mirror[j] = "absent"

\* The race whose endless repetition is excluded: a callback or a touch that
\* writes back a row another handler has changed since it was read.
UpdatesInTurn ==
  \A j \in Jobs :
    /\ \A k \in Kinds : WritePost(j, k) => posts[j][k].row = row[j]
    /\ Touch(j) => touching[j] = row[j]

\* The starvation that is excluded: rows the cron lists first, passes over for
\* want of an archive and never writes, as many as it takes in a tick
\* (cleanup/handler.ts:148-149).
Clogged == Cardinality({j \in Jobs : Retriable(j) /\ mirror[j] = "absent"}) >= PerTick

\* A job whose archive exists and whose budget is not spent does not stay
\* unfinished: whatever dies or gets lost, it completes, or its budget runs out
\* (cleanup/handler.ts:90-175).  Excepted are histories in which handlers overwrite
\* each other's rows for ever, or jobs without an archive fill every tick for ever.
EventuallySettled ==
  <>[][UpdatesInTurn]_vars /\ <>[]~Clogged => \A j \in Jobs : []<>Settled(j)

\* An asset that still says it is extracting after its job completed is healed
\* by the cron (cleanup/handler.ts:53-58, 66-88).
DriftIsHealed == \A j \in Own : Stuck(j) ~> ~Stuck(j)
=============================================================================
