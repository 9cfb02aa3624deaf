------------------------ MODULE ExtractionJobsProofs ------------------------
(***************************************************************************)
(* Safety of the job rows for every set of jobs, retry budget, delivery    *)
(* limit and number of overlapping handlers and faults: JobsInv is         *)
(* inductive.                                                              *)
(***************************************************************************)
EXTENDS ExtractionJobs, TLAPS

-----------------------------------------------------------------------------
(* Rows, callbacks and the cron's record *)

\* A row is never mistaken for its absence, nor a callback for none.
LEMMA Absences == NoRow \notin JobRows /\ NoPost \notin Posts
BY DEF NoRow, JobRows, NoPost, Posts

\* The retry count that CronSave and CronGiveUp start from (handler.ts:98-105).
LEMMA Effective ==
  ASSUME NEW r \in JobRows
  PROVE  EffectiveRetryCount(r) \in 0..(MaxRetries + 1)
BY LimitsAssumption DEF EffectiveRetryCount, JobRows

\* INSERT OR REPLACE keeps the shape of the database (stores.ts:196-209).
LEMMA SaveRowType ==
  ASSUME TypeOK, NEW j \in Jobs, NEW r \in JobRows, SaveRow(j, r)
  PROVE  /\ row' \in [Jobs -> JobRows \cup {NoRow}]
         /\ older' \in [Jobs -> SUBSET Jobs]
         /\ stale' \subseteq Jobs
BY DEF TypeOK, SaveRow

LEMMA SaveMirrorType ==
  ASSUME TypeOK, NEW j \in Jobs, NEW m \in MirrorStatuses, SaveMirror(j, m)
  PROVE  mirror' \in [Jobs -> MirrorStatuses]
BY DEF TypeOK, SaveMirror

LEMMA RemoveType ==
  ASSUME TypeOK, NEW j \in Jobs, Remove(j)
  PROVE  mirror' \in [Jobs -> MirrorStatuses] /\ extracted' \in [Jobs -> 0..Total]
<1>1. "absent" \in MirrorStatuses /\ 0 \in 0..Total
  BY LimitsAssumption DEF MirrorStatuses
<1>2. QED BY <1>1 DEF TypeOK, Remove

\* Counts of deliveries, with one more or one less in one place.
LEMMA CountsType ==
  ASSUME NEW q \in [1..MaxAttempts -> Nat], NEW a \in 1..MaxAttempts, NEW n \in Nat
  PROVE  [q EXCEPT ![a] = n] \in [1..MaxAttempts -> Nat]
OBVIOUS

LEMMA SendType ==
  ASSUME TypeOK, NEW j \in Jobs, Send(j)
  PROVE  queue' \in [Jobs -> [1..MaxAttempts -> Nat]]
<1>1. 1 \in 1..MaxAttempts
  BY LimitsAssumption
<1> DEFINE q == [queue[j] EXCEPT ![1] = queue[j][1] + 1]
<1>2. queue[j] \in [1..MaxAttempts -> Nat]
  BY DEF TypeOK
<1>3. queue[j][1] \in Nat
  BY <1>1, <1>2
<1> HIDE DEF q
<1>4. q \in [1..MaxAttempts -> Nat]
  BY <1>1, <1>2, <1>3, CountsType DEF q
<1>5. queue' = [queue EXCEPT ![j] = q]
  BY DEF Send, q
<1>6. QED BY <1>4, <1>5 DEF TypeOK

LEMMA FaultType ==
  ASSUME TypeOK, Fault
  PROVE  faults' \in 0..MaxFaults
BY LimitsAssumption DEF TypeOK, Fault

\* The cron's record from one job to the next (cleanup/handler.ts:118-179).
LEMMA CronNext ==
  ASSUME CronOK(cron), NEW t \in cron.todo
  PROVE  /\ CronOK(Done(t))
         /\ \A at \in {"saving", "failing", "failingAlone"} :
              (at = "saving" <=> ~GivesUp(t.row)) => CronOK(Hold(t, at))
         /\ CronOK(Idle)
<1>1. CronOK(Idle)
  BY DEF CronOK, Idle
<1>2. CronOK(Done(t))
  BY <1>1 DEF CronOK, Done
<1>3. ASSUME NEW at \in {"saving", "failing", "failingAlone"}, at = "saving" <=> ~GivesUp(t.row)
      PROVE  CronOK(Hold(t, at))
  BY <1>3 DEF CronOK, Hold
<1>4. QED BY <1>1, <1>2, <1>3

\* The callbacks in flight after a change of one.
LEMMA PostsChange ==
  ASSUME PostsOK(posts), NEW j \in Jobs, NEW k \in Kinds, NEW p \in Posts \cup {NoPost},
         p # NoPost => (p.read <=> p.row # NoRow)
  PROVE  PostsOK([posts EXCEPT ![j][k] = p])
BY DEF PostsOK

LEMMA PostFields ==
  ASSUME NEW p \in Posts
  PROVE  /\ [p EXCEPT !.waited = FALSE] \in Posts
         /\ [p EXCEPT !.waited = FALSE].read = p.read
         /\ [p EXCEPT !.waited = FALSE].row = p.row
BY DEF Posts

LEMMA UnwaitedOK ==
  ASSUME PostsOK(posts), NEW j \in Jobs, NEW k \in Kinds
  PROVE  /\ Unwaited(j, k) \in Posts \cup {NoPost}
         /\ Unwaited(j, k) # NoPost =>
              (Unwaited(j, k).read <=> Unwaited(j, k).row # NoRow)
<1>1. CASE posts[j][k] = NoPost
  BY <1>1 DEF Unwaited
<1>2. CASE posts[j][k] # NoPost
  <2>1. posts[j][k] \in Posts
    BY <1>2 DEF PostsOK
  <2>2. Unwaited(j, k) = [posts[j][k] EXCEPT !.waited = FALSE]
    BY <1>2 DEF Unwaited
  <2>3. QED BY <1>2, <2>1, <2>2, PostFields DEF PostsOK
<1>3. QED BY <1>1, <1>2

\* What the handlers hold, and the rows they write.
LEMMA RowWrites ==
  ASSUME NEW r \in JobRows
  PROVE  /\ [r EXCEPT !.status = "pending"] \in JobRows
         /\ [r EXCEPT !.status = "failed", !.retries = MaxRetries + 1] \in JobRows
         /\ ~GivesUp(r) => [r EXCEPT !.status = "pending", !.mark = r.count,
                                     !.retries = EffectiveRetryCount(r) + 1] \in JobRows
         /\ FreshRow \in JobRows
<1>1. [r EXCEPT !.status = "pending"] \in JobRows
  BY DEF JobRows
<1>2. [r EXCEPT !.status = "failed", !.retries = MaxRetries + 1] \in JobRows
  <2> DEFINE e == MaxRetries + 1
  <2>1. e \in 0..(MaxRetries + 1)
    BY LimitsAssumption
  <2> HIDE DEF e
  <2>2. [r EXCEPT !.status = "failed", !.retries = e] \in JobRows
    BY <2>1 DEF JobRows
  <2>3. QED BY <2>2 DEF e
<1>3. ASSUME ~GivesUp(r)
      PROVE  [r EXCEPT !.status = "pending", !.mark = r.count,
                       !.retries = EffectiveRetryCount(r) + 1] \in JobRows
  <2>1. EffectiveRetryCount(r) + 1 \in 0..(MaxRetries + 1)
    BY <1>3, Effective, LimitsAssumption DEF GivesUp
  <2> DEFINE e == EffectiveRetryCount(r) + 1
  <2> HIDE DEF e
  <2>2. e \in 0..(MaxRetries + 1)
    BY <2>1 DEF e
  <2>3. [r EXCEPT !.status = "pending", !.mark = r.count, !.retries = e] \in JobRows
    BY <2>2 DEF JobRows
  <2>4. QED BY <2>3 DEF e
<1>4. FreshRow \in JobRows
  BY LimitsAssumption DEF FreshRow, JobRows
<1>5. QED BY <1>1, <1>2, <1>3, <1>4

LEMMA ReportedType ==
  ASSUME NEW p \in Posts, p.row \in JobRows
  PROVE  Reported(p) \in JobRows /\ Reported(p).status = p.status
         /\ Reported(p).retries = p.row.retries
<1> DEFINE n == IF p.count > 0 THEN p.count ELSE p.row.count
<1>1. n \in 0..Total /\ p.status \in {"running", "completed", "failed"}
  BY LimitsAssumption DEF Posts, JobRows
<1>2. Reported(p) = [p.row EXCEPT !.status = p.status, !.count = n]
  BY DEF Reported, JobRows
<1> HIDE DEF n
<1>3. QED BY <1>1, <1>2 DEF JobRows

LEMMA MirroredType ==
  ASSUME NEW p \in Posts
  PROVE  Mirrored(p) \in MirrorStatuses
BY DEF Mirrored, Posts, MirrorStatuses

LEMMA ListedType ==
  ASSUME TypeOK
  PROVE  ListRetriable \subseteq Listed
<1>1. SUFFICES ASSUME NEW t \in ListRetriable
               PROVE  t \in Listed
  OBVIOUS
<1>2. PICK j \in Jobs : Retriable(j) /\ t = [job |-> j, row |-> row[j]]
  BY DEF ListRetriable
<1>3. row[j] \in JobRows
  BY <1>2 DEF TypeOK, Retriable
<1>4. QED BY <1>2, <1>3 DEF Listed

-----------------------------------------------------------------------------
(* Type correctness *)

LEMMA InitType == Init => TypeOK
<1> SUFFICES ASSUME Init PROVE TypeOK
  OBVIOUS
<1>1. PostsOK(posts) /\ CronOK(cron)
  BY DEF Init, AtRest, PostsOK, CronOK, Idle
<1>2. QED BY <1>1, LimitsAssumption DEF Init, AtRest, TypeOK, MirrorStatuses

LEMMA UserType ==
  ASSUME TypeOK, NEW j \in Jobs,
         Upload(j) \/ AskRetry(j) \/ Retry(j) \/ AskExtract(j) \/ Extract(j) \/ Delete(j)
         \/ CleanupExpired(j)
  PROVE  TypeOK'
<1> USE DEF db, running, history
<1>1. FreshRow \in JobRows
  BY LimitsAssumption DEF FreshRow, JobRows
<1>2. CASE Upload(j)
  <2>1. mirror' \in [Jobs -> MirrorStatuses]
    BY <1>2 DEF TypeOK, Upload, MirrorStatuses
  <2>2. queue' \in [Jobs -> [1..MaxAttempts -> Nat]] /\ faults' \in 0..MaxFaults
    BY <1>2, SendType, FaultType DEF TypeOK, Upload
  <2>3. SaveRow(j, FreshRow) /\ UNCHANGED <<container, extracted, posts, touching, requests, cron,
                                            resends, parted, asked>>
    BY <1>2 DEF Upload
  <2>4. QED BY <1>1, <2>1, <2>2, <2>3, SaveRowType DEF TypeOK
<1>3. CASE AskRetry(j)
  <2>1. row[j] \in JobRows
    BY <1>3 DEF AskRetry, TypeOK
  <2>2. requests' = [requests EXCEPT ![j] = [status |-> "retry", row |-> row[j]]]
        /\ asked < MaxRequests /\ asked' = asked + 1
        /\ UNCHANGED <<row, mirror, older, stale, queue, container, extracted, posts, touching,
                       cron, resends, parted, faults>>
    BY <1>3 DEF AskRetry
  <2>3. asked' \in 0..MaxRequests
    BY <2>2, LimitsAssumption DEF TypeOK
  <2>4. QED BY <2>1, <2>2, <2>3 DEF TypeOK
<1>4. CASE Retry(j)
  <2> DEFINE r == [requests[j].row EXCEPT !.status = "pending"]
  <2>1. requests[j].row \in JobRows
    <3>1. requests[j].status = "retry"
      BY <1>4 DEF Retry
    <3>2. \/ requests[j] \in [status : {"retry"}, row : JobRows]
          \/ requests[j] \in [status : {"extract"}]
          \/ requests[j] = NoPost
      BY DEF TypeOK
    <3>3. QED BY <3>1, <3>2 DEF NoPost
  <2>2. r \in JobRows
    BY <2>1, RowWrites
  <2>3. SaveRow(j, r) /\ requests' = [requests EXCEPT ![j] = NoPost]
        /\ UNCHANGED <<mirror, container, extracted, posts, touching, cron, resends, parted,
                       asked>>
    BY <1>4 DEF Retry
  <2>4. queue' \in [Jobs -> [1..MaxAttempts -> Nat]] /\ faults' \in 0..MaxFaults
    BY <1>4, SendType, FaultType DEF TypeOK, Retry
  <2> HIDE DEF r
  <2>5. QED BY <2>2, <2>3, <2>4, SaveRowType DEF TypeOK
<1>5. CASE AskExtract(j)
  <2>1. requests' = [requests EXCEPT ![j] = [status |-> "extract"]]
        /\ asked < MaxRequests /\ asked' = asked + 1
        /\ UNCHANGED <<row, mirror, older, stale, queue, container, extracted, posts, touching,
                       cron, resends, parted, faults>>
    BY <1>5 DEF AskExtract
  <2>2. asked' \in 0..MaxRequests
    BY <2>1, LimitsAssumption DEF TypeOK
  <2>3. requests'
          \in [Jobs -> [status : {"retry"}, row : JobRows] \cup [status : {"extract"}]
                       \cup {NoPost}]
    BY <2>1 DEF TypeOK
  <2>4. QED BY <2>1, <2>2, <2>3 DEF TypeOK, PostsOK, CronOK
<1>6. CASE Extract(j)
  <2>1. mirror' \in [Jobs -> MirrorStatuses]
    BY <1>6, SaveMirrorType DEF Extract, MirrorStatuses
  <2>2. queue' \in [Jobs -> [1..MaxAttempts -> Nat]] /\ faults' \in 0..MaxFaults
    BY <1>6, SendType, FaultType DEF TypeOK, Extract
  <2>3. SaveRow(j, FreshRow) /\ requests' = [requests EXCEPT ![j] = NoPost]
        /\ parted' \subseteq Jobs
        /\ UNCHANGED <<container, extracted, posts, touching, cron, resends, asked>>
    BY <1>6 DEF Extract, TypeOK
  <2>4. QED BY <1>1, <2>1, <2>2, <2>3, SaveRowType DEF TypeOK
<1>7. CASE Delete(j)
  <2>1. Remove(j) /\ asked < MaxRequests /\ asked' = asked + 1
        /\ UNCHANGED <<row, older, stale, queue, container, posts, touching, requests, cron,
                       resends, parted, faults>>
    BY <1>7 DEF Delete
  <2>2. mirror' \in [Jobs -> MirrorStatuses] /\ extracted' \in [Jobs -> 0..Total]
    BY <2>1, RemoveType
  <2>3. asked' \in 0..MaxRequests
    BY <2>1, LimitsAssumption DEF TypeOK
  <2>4. QED BY <2>1, <2>2, <2>3 DEF TypeOK, PostsOK, CronOK
<1>8. CASE CleanupExpired(j)
  <2>1. Remove(j) /\ asked < MaxRequests /\ asked' = asked + 1
        /\ UNCHANGED <<older, queue, container, posts, touching, requests, cron, resends,
                       parted, faults>>
    BY <1>8 DEF CleanupExpired
  <2>2. \/ row' = [row EXCEPT ![j] = NoRow] /\ stale' = stale \ {j}
        \/ UNCHANGED <<row, stale>>
    BY <1>8 DEF CleanupExpired
  <2>3. mirror' \in [Jobs -> MirrorStatuses] /\ extracted' \in [Jobs -> 0..Total]
    BY <2>1, RemoveType
  <2>4. row' \in [Jobs -> JobRows \cup {NoRow}] /\ stale' \subseteq Jobs
    BY <2>2 DEF TypeOK
  <2>5. asked' \in 0..MaxRequests
    BY <2>1, LimitsAssumption DEF TypeOK
  <2>6. QED BY <2>1, <2>3, <2>4, <2>5 DEF TypeOK
<1>9. QED BY <1>2, <1>3, <1>4, <1>5, <1>6, <1>7, <1>8

LEMMA ConsumerType ==
  ASSUME TypeOK, NEW j \in Jobs, Consume(j) \/ Touch(j)
  PROVE  TypeOK'
<1> USE DEF db, running, history
<1>1. ASSUME NEW a \in 1..MaxAttempts, Launch(j, a)
      PROVE  TypeOK'
  <2>1. queue[j] \in [1..MaxAttempts -> Nat] /\ queue[j][a] > 0
    BY <1>1 DEF Launch, TypeOK
  <2> DEFINE q == [queue[j] EXCEPT ![a] = queue[j][a] - 1]
  <2>2. queue[j][a] - 1 \in Nat
    <3>1. queue[j][a] \in Nat
      BY <2>1
    <3>2. QED BY <2>1, <3>1
  <2> HIDE DEF q
  <2>3. q \in [1..MaxAttempts -> Nat]
    BY <2>1, <2>2, CountsType DEF q
  <2>4. queue' \in {queue, [queue EXCEPT ![j] = q]} /\ faults' \in 0..MaxFaults
    BY <1>1, FaultType DEF Launch, q, TypeOK
  <2>5. container' \in [Jobs -> {"off", "working", "awaiting"}]
    BY <1>1 DEF Launch, TypeOK
  <2>6. UNCHANGED <<row, mirror, older, stale, extracted, posts, touching, requests, cron, resends,
                    parted, asked>>
    BY <1>1 DEF Launch
  <2>7. queue' \in [Jobs -> [1..MaxAttempts -> Nat]]
    BY <2>3, <2>4 DEF TypeOK
  <2>8. QED BY <2>4, <2>5, <2>6, <2>7 DEF TypeOK
<1>2. ASSUME NEW a \in 1..MaxAttempts, LaunchFails(j, a)
      PROVE  TypeOK'
  <2>1. queue[j] \in [1..MaxAttempts -> Nat] /\ queue[j][a] > 0
    BY <1>2 DEF LaunchFails, TypeOK
  <2>2. Retried(j, a) \in [1..MaxAttempts -> Nat]
    <3>1. \A i \in 1..MaxAttempts : queue[j][i] \in Nat
      BY <2>1
    <3>2. \A i \in 1..MaxAttempts : Retried(j, a)[i] \in Nat
      BY <2>1, <3>1 DEF Retried
    <3>3. QED BY <3>2 DEF Retried
  <2>3. queue' = [queue EXCEPT ![j] = Retried(j, a)]
        /\ touching' \in {touching, [touching EXCEPT ![j] = row[j]]}
        /\ UNCHANGED <<row, mirror, older, stale, container, extracted, posts, requests, cron,
                       resends, parted, faults, asked>>
    BY <1>2 DEF LaunchFails
  <2>4. queue' \in [Jobs -> [1..MaxAttempts -> Nat]]
    BY <2>2, <2>3 DEF TypeOK
  <2>5. touching' \in [Jobs -> JobRows \cup {NoRow}]
    BY <2>3 DEF TypeOK
  <2>6. QED BY <2>3, <2>4, <2>5 DEF TypeOK
<1>3. CASE Touch(j)
  <2>1. touching[j] \in JobRows
    BY <1>3 DEF Touch, TypeOK
  <2>2. SaveRow(j, touching[j]) \/ UNCHANGED <<row, older, stale>>
    BY <1>3 DEF Touch
  <2>3. faults' \in 0..MaxFaults /\ touching' = [touching EXCEPT ![j] = NoRow]
        /\ UNCHANGED <<mirror, queue, container, extracted, posts, requests, cron, resends,
                       parted, asked>>
    BY <1>3, FaultType DEF Touch, TypeOK
  <2>4. /\ row' \in [Jobs -> JobRows \cup {NoRow}]
        /\ older' \in [Jobs -> SUBSET Jobs]
        /\ stale' \subseteq Jobs
    BY <2>1, <2>2, SaveRowType DEF TypeOK
  <2>5. QED BY <2>3, <2>4 DEF TypeOK
<1>4. QED BY <1>1, <1>2, <1>3 DEF Consume

\* A callback put in flight, with nothing read yet.
LEMMA PostType ==
  ASSUME TypeOK, NEW j \in Jobs, NEW k \in Kinds,
         NEW st \in {"running", "completed", "failed"}, NEW n \in 0..Total, Post(j, k, st, n)
  PROVE  PostsOK(posts')
<1> DEFINE p == [status |-> st, count |-> n, waited |-> TRUE,
                 read |-> FALSE, row |-> NoRow, mirror |-> "absent", asset |-> "absent"]
<1>1. p \in Posts /\ (p # NoPost => (p.read <=> p.row # NoRow))
  BY DEF Posts, MirrorStatuses
<1>2. posts' = [posts EXCEPT ![j][k] = p]
  BY DEF Post
<1> HIDE DEF p
<1>3. QED BY <1>1, <1>2, PostsChange DEF TypeOK

LEMMA ContainerType ==
  ASSUME TypeOK, NEW j \in Jobs, Work(j) \/ ReportStart(j) \/ Die(j)
  PROVE  TypeOK'
<1> USE DEF db, running, history
<1>0. {"progress", "terminal"} = Kinds
  BY DEF Kinds
<1>1. CASE Progress(j)
  <2>1. extracted[j] + 1 \in 0..Total
        /\ extracted' = [extracted EXCEPT ![j] = extracted[j] + 1]
    BY <1>1, LimitsAssumption DEF Progress, TypeOK
  <2>2. extracted' \in [Jobs -> 0..Total] /\ extracted'[j] \in 0..Total
    BY <2>1 DEF TypeOK
  <2>3. posts' = posts \/ Post(j, "progress", "running", extracted'[j])
    BY <1>1 DEF Progress
  <2>4. PostsOK(posts')
    BY <1>0, <2>2, <2>3, PostType DEF TypeOK
  <2>5. QED BY <1>1, <2>2, <2>4 DEF TypeOK, Progress
<1>2. CASE ReportStart(j)
  <2>1. PostsOK(posts')
    BY <1>0, <1>2, PostType, LimitsAssumption DEF ReportStart
  <2>2. QED BY <1>2, <2>1 DEF TypeOK, ReportStart
<1>3. CASE Finish(j)
  <2>1. PostsOK(posts')
    BY <1>0, <1>3, PostType, LimitsAssumption DEF Finish
  <2>2. container' \in [Jobs -> {"off", "working", "awaiting"}]
    BY <1>3 DEF Finish, TypeOK
  <2>3. QED BY <1>3, <2>1, <2>2 DEF TypeOK, Finish
<1>4. CASE Die(j)
  <2>1. posts' = [posts EXCEPT ![j] = [k \in Kinds |-> Unwaited(j, k)]]
    BY <1>4 DEF Die
  <2>2. PostsOK(posts')
    BY <2>1, UnwaitedOK DEF TypeOK, PostsOK
  <2>3. container' \in [Jobs -> {"off", "working", "awaiting"}] /\ faults' \in 0..MaxFaults
    BY <1>4, FaultType DEF Die, TypeOK
  <2>4. QED BY <1>4, <2>2, <2>3 DEF TypeOK, Die
<1>5. QED BY <1>1, <1>2, <1>3, <1>4 DEF Work

\* What a callback holds after its answer was lost.
LEMMA RepeatedPostFields ==
  ASSUME NEW p \in Posts
  PROVE  LET q == [p EXCEPT !.read = FALSE, !.row = NoRow, !.mirror = "absent",
                            !.asset = "absent"]
         IN  q \in Posts /\ q.read = FALSE /\ q.row = NoRow
BY DEF Posts, MirrorStatuses

\* The batch writes statuses, and what a callback has read of an asset is one.
LEMMA SaveMirrorsType ==
  ASSUME TypeOK, NEW j \in Jobs, NEW p \in Posts, SaveMirrors(j, p)
  PROVE  mirror' \in [Jobs -> MirrorStatuses]
<1>1. Mirrored(p) \in MirrorStatuses /\ p.asset \in MirrorStatuses
  BY MirroredType DEF Posts
<1>2. QED BY <1>1 DEF TypeOK, SaveMirrors

LEMMA AssetStatusType ==
  ASSUME TypeOK, NEW j \in Jobs
  PROVE  AssetStatus(j) \in MirrorStatuses
BY JobsAssumption DEF AssetStatus, TypeOK, MirrorStatuses

LEMMA CallbackType ==
  ASSUME TypeOK, NEW j \in Jobs, NEW k \in Kinds, LosePost(j, k) \/ Serve(j, k)
  PROVE  TypeOK'
<1> USE DEF db, running, history
<1>0. PostsOK(posts) /\ "absent" \in MirrorStatuses
  BY DEF TypeOK, MirrorStatuses
<1>1. CASE LosePost(j, k)
  <2>1. posts' \in {[posts EXCEPT ![j][k] = NoPost], [posts EXCEPT ![j][k] = Unwaited(j, k)]}
    BY <1>1 DEF LosePost
  <2>2. PostsOK(posts')
    BY <1>0, <2>1, UnwaitedOK, PostsChange
  <2>3. container' \in [Jobs -> {"off", "working", "awaiting"}] /\ faults' \in 0..MaxFaults
    BY <1>1, FaultType DEF LosePost, TypeOK
  <2>4. QED BY <1>1, <2>2, <2>3 DEF TypeOK, LosePost
<1>2. CASE ReadPost(j, k)
  <2>1. posts[j][k] \in Posts
    BY <1>0, <1>2 DEF ReadPost, PostsOK
  <2>2. ASSUME row[j] # NoRow PROVE PostsOK(posts')
    <3>1. row[j] \in JobRows /\ mirror[j] \in MirrorStatuses
      BY <2>2 DEF TypeOK
    <3>2. PICK m \in {mirror[j], "absent"}, a \in {AssetStatus(j), "absent"} :
            posts' = [posts EXCEPT ![j][k] = [posts[j][k] EXCEPT !.read = TRUE, !.row = row[j],
                                                                !.mirror = m, !.asset = a]]
      BY <1>2, <2>2 DEF ReadPost
    <3>3. m \in MirrorStatuses /\ a \in MirrorStatuses
      BY <1>0, <3>1, AssetStatusType
    <3> DEFINE q == [posts[j][k] EXCEPT !.read = TRUE, !.row = row[j], !.mirror = m,
                                        !.asset = a]
    <3>4. q \in Posts /\ q.read = TRUE /\ q.row = row[j]
      BY <2>1, <3>1, <3>3 DEF Posts
    <3>5. posts' = [posts EXCEPT ![j][k] = q]
      BY <3>2
    <3> HIDE DEF q
    <3>6. PostsOK([posts EXCEPT ![j][k] = q])
      BY <1>0, <2>2, <3>4, PostsChange
    <3>7. QED BY <3>5, <3>6
  <2>3. ASSUME row[j] = NoRow PROVE PostsOK(posts')
    <3>1. posts' = [posts EXCEPT ![j][k] = NoPost]
      BY <1>2, <2>3 DEF ReadPost
    <3>2. PostsOK([posts EXCEPT ![j][k] = NoPost])
      BY <1>0, PostsChange
    <3>3. QED BY <3>1, <3>2
  <2>4. PostsOK(posts')
    BY <2>2, <2>3
  <2>5. container' \in [Jobs -> {"off", "working", "awaiting"}] /\ faults' \in 0..MaxFaults
    BY <1>2, FaultType DEF ReadPost, TypeOK
  <2>6. QED BY <1>2, <2>4, <2>5 DEF TypeOK, ReadPost
<1>3. CASE WritePost(j, k)
  <2> DEFINE p == posts[j][k]
             q == [p EXCEPT !.read = FALSE, !.row = NoRow, !.mirror = "absent",
                           !.asset = "absent"]
  <2>1. p \in Posts /\ p.row \in JobRows
    <3>1. p # NoPost /\ p.read
      BY <1>3 DEF WritePost
    <3>2. p \in Posts /\ p.row # NoRow
      BY <1>0, <3>1 DEF PostsOK
    <3>3. QED BY <3>2 DEF Posts
  <2>2. Reported(p) \in JobRows /\ Mirrored(p) \in MirrorStatuses
    BY <2>1, ReportedType, MirroredType
  <2>3. SaveRow(j, Reported(p))
    BY <1>3 DEF WritePost
  <2>4. /\ row' \in [Jobs -> JobRows \cup {NoRow}]
        /\ older' \in [Jobs -> SUBSET Jobs]
        /\ stale' \subseteq Jobs
    BY <2>2, <2>3, SaveRowType
  <2>5. mirror' = mirror \/ SaveMirrors(j, p)
    BY <1>3 DEF WritePost
  <2>6. mirror' \in [Jobs -> MirrorStatuses]
    BY <2>1, <2>5, SaveMirrorsType DEF TypeOK
  <2>7. posts' \in {[posts EXCEPT ![j][k] = NoPost], [posts EXCEPT ![j][k] = q]}
    BY <1>3 DEF WritePost
  <2>8. q \in Posts /\ q.read = FALSE /\ q.row = NoRow
    BY <2>1, RepeatedPostFields
  <2> HIDE DEF q
  <2>9. PostsOK(posts')
    BY <1>0, <2>7, <2>8, PostsChange
  <2>10. parted' \subseteq Jobs /\ faults' \in 0..MaxFaults
    BY <1>3, FaultType DEF WritePost, Parted, TypeOK
  <2>11. container' \in {container, [container EXCEPT ![j] = "off"]}
         /\ extracted' \in {extracted, [extracted EXCEPT ![j] = 0],
                            [extracted EXCEPT ![j] = extracted[j]]}
         /\ UNCHANGED <<queue, touching, requests, cron, resends, asked>>
    BY <1>3 DEF WritePost
  <2>12. container' \in [Jobs -> {"off", "working", "awaiting"}]
         /\ extracted' \in [Jobs -> 0..Total]
    <3>1. 0 \in 0..Total /\ extracted[j] \in 0..Total
      BY LimitsAssumption DEF TypeOK
    <3>2. extracted' \in [Jobs -> 0..Total]
      BY <2>11, <3>1 DEF TypeOK
    <3>3. container' \in [Jobs -> {"off", "working", "awaiting"}]
      BY <2>11 DEF TypeOK
    <3>4. QED BY <3>2, <3>3
  <2>13. QED BY <2>4, <2>6, <2>9, <2>10, <2>11, <2>12 DEF TypeOK
<1>4. QED BY <1>1, <1>2, <1>3 DEF Serve

LEMMA HealingType ==
  ASSUME TypeOK, CronStart \/ CronList \/ CronDies
                 \/ \E j \in Jobs : ReadStuck(j) \/ Reconcile(j) \/ Age(j)
  PROVE  TypeOK'
<1> USE DEF db, running, history
<1>0. CronOK(cron)
  BY DEF TypeOK
<1>1. CASE CronStart
  <2>1. CronOK(cron')
    BY <1>1 DEF CronStart, CronOK, Idle
  <2>2. QED BY <1>1, <2>1 DEF TypeOK, CronStart
<1>2. CASE CronList
  <2>1. CronOK(cron')
    BY <1>2, ListedType DEF CronList, CronOK, Idle
  <2>2. QED BY <1>2, <2>1 DEF TypeOK, CronList
<1>3. CASE CronDies
  <2>1. CronOK(cron') /\ faults' \in 0..MaxFaults
    BY <1>3, FaultType DEF CronDies, CronOK, Idle
  <2>2. QED BY <1>3, <2>1 DEF TypeOK, CronDies
<1>4. ASSUME NEW j \in Jobs, ReadStuck(j)
      PROVE  TypeOK'
  <2>1. CronOK(cron')
    BY <1>0, <1>4 DEF ReadStuck, CronOK
  <2>2. QED BY <1>4, <2>1 DEF TypeOK, ReadStuck
<1>5. ASSUME NEW j \in Jobs, Reconcile(j)
      PROVE  TypeOK'
  <2>1. CronOK(cron')
    BY <1>0, <1>5 DEF Reconcile, CronOK
  <2>2. mirror' \in [Jobs -> MirrorStatuses]
    BY <1>5, SaveMirrorType DEF Reconcile, MirrorStatuses
  <2>3. QED BY <1>5, <2>1, <2>2 DEF TypeOK, Reconcile
<1>6. ASSUME NEW j \in Jobs, Age(j)
      PROVE  TypeOK'
  BY <1>6 DEF Age, TypeOK
<1>7. QED BY <1>1, <1>2, <1>3, <1>4, <1>5, <1>6

LEMMA RetriggerType ==
  ASSUME TypeOK, NEW t \in cron.todo,
         CronFail(t) \/ CronGiveUp(t) \/ CronSkip(t) \/ CronSend(t) \/ CronSave(t)
  PROVE  TypeOK'
<1> USE DEF db, running, history
<1>0. CronOK(cron) /\ t.job \in Jobs /\ t.row \in JobRows
  BY DEF TypeOK, CronOK, Listed
<1>1. CASE CronFail(t)
  <2>1. CronOK(cron')
    BY <1>0, <1>1, CronNext DEF CronFail
  <2>2. QED BY <1>1, <2>1 DEF TypeOK, CronFail
<1>2. CASE CronGiveUp(t)
  <2> DEFINE r == [t.row EXCEPT !.status = "failed", !.retries = MaxRetries + 1]
  <2>1. r \in JobRows
    BY <1>0, RowWrites
  <2>2. SaveRow(t.job, r)
    BY <1>2 DEF CronGiveUp
  <2> HIDE DEF r
  <2>3. /\ row' \in [Jobs -> JobRows \cup {NoRow}]
        /\ older' \in [Jobs -> SUBSET Jobs]
        /\ stale' \subseteq Jobs
    BY <1>0, <2>1, <2>2, SaveRowType
  <2>4. CronOK(cron')
    BY <1>0, <1>2, CronNext DEF CronGiveUp
  <2>5. mirror' = mirror \/ SaveMirror(t.job, "failed")
    BY <1>2 DEF CronGiveUp
  <2>6. mirror' \in [Jobs -> MirrorStatuses]
    BY <1>0, <2>5, SaveMirrorType DEF TypeOK, MirrorStatuses
  <2>7. UNCHANGED <<queue, container, extracted, posts, touching, requests, resends, faults,
                    asked>>
        /\ parted' \subseteq Jobs
    BY <1>2 DEF CronGiveUp, TypeOK
  <2>8. QED BY <2>3, <2>4, <2>6, <2>7 DEF TypeOK
<1>3. CASE CronSkip(t)
  <2>1. CronOK(cron')
    BY <1>0, <1>3, CronNext DEF CronSkip
  <2>2. QED BY <1>3, <2>1 DEF TypeOK, CronSkip
<1>4. CASE CronSend(t)
  <2>1. CronOK(cron')
    BY <1>0, <1>4, CronNext DEF CronSend
  <2>2. resends' \in {resends, [resends EXCEPT ![t.job] = IF resends[t.job] < MaxRetries
                                                         THEN resends[t.job] + 1
                                                         ELSE resends[t.job]]}
    BY <1>4 DEF CronSend
  <2>3. resends' \in [Jobs -> 0..MaxRetries]
    <3>1. resends[t.job] \in 0..MaxRetries
      BY <1>0 DEF TypeOK
    <3>2. (IF resends[t.job] < MaxRetries THEN resends[t.job] + 1 ELSE resends[t.job])
             \in 0..MaxRetries
      BY <3>1, LimitsAssumption
    <3>3. QED BY <2>2, <3>2 DEF TypeOK
  <2>4. queue' \in [Jobs -> [1..MaxAttempts -> Nat]] /\ faults' \in 0..MaxFaults
    BY <1>0, <1>4, SendType, FaultType DEF CronSend, TypeOK
  <2>5. UNCHANGED <<row, mirror, older, stale, container, extracted, posts, touching, requests,
                    parted, asked>>
    BY <1>4 DEF CronSend
  <2>6. QED BY <2>1, <2>3, <2>4, <2>5 DEF TypeOK
<1>5. CASE CronSave(t)
  <2> DEFINE r == [t.row EXCEPT !.status = "pending", !.mark = t.row.count,
                               !.retries = EffectiveRetryCount(t.row) + 1]
  <2>1. ~GivesUp(t.row)
    BY <1>0, <1>5 DEF CronSave, CronOK
  <2>2. r \in JobRows
    BY <1>0, <2>1, RowWrites
  <2>3. SaveRow(t.job, r) \/ UNCHANGED <<row, older, stale>>
    BY <1>5 DEF CronSave
  <2> HIDE DEF r
  <2>4. /\ row' \in [Jobs -> JobRows \cup {NoRow}]
        /\ older' \in [Jobs -> SUBSET Jobs]
        /\ stale' \subseteq Jobs
    BY <1>0, <2>2, <2>3, SaveRowType DEF TypeOK
  <2>5. CronOK(cron')
    BY <1>0, <1>5, CronNext DEF CronSave
  <2>6. faults' \in 0..MaxFaults
        /\ UNCHANGED <<mirror, queue, container, extracted, posts, touching, requests, resends,
                       parted, asked>>
    BY <1>5, FaultType DEF CronSave, TypeOK
  <2>7. QED BY <2>4, <2>5, <2>6 DEF TypeOK
<1>6. QED BY <1>1, <1>2, <1>3, <1>4, <1>5

LEMMA TypeStep == TypeOK /\ [Next]_vars => TypeOK'
<1> SUFFICES ASSUME TypeOK, [Next]_vars PROVE TypeOK'
  OBVIOUS
<1>1. CASE UNCHANGED vars
  BY <1>1 DEF TypeOK, vars, db, running, history
<1>2. CASE Next
  <2>1. \/ \E j \in Jobs : Upload(j) \/ Ask(j) \/ Retry(j) \/ Extract(j)
        \/ \E j \in Jobs : Consume(j) \/ Touch(j)
        \/ \E j \in Jobs : Work(j) \/ ReportStart(j) \/ Die(j)
        \/ \E j \in Jobs, k \in Kinds : LosePost(j, k) \/ Serve(j, k)
        \/ \E j \in Jobs : Age(j)
        \/ Tick \/ CronDies
    BY <1>2 DEF Next
  <2>2. CASE Tick
    BY <2>2, HealingType, RetriggerType DEF Tick
  <2>3. QED BY <2>1, <2>2, UserType, ConsumerType, ContainerType, CallbackType, HealingType
            DEF Ask
<1>3. QED BY <1>1, <1>2

-----------------------------------------------------------------------------
(* Retry counts *)

\* A row earned once stays earned, since re-enqueues are only added.
LEMMA EarnedLater ==
  ASSUME NEW m \in 0..MaxRetries, NEW n \in 0..MaxRetries, m <= n,
         NEW r \in JobRows \cup {NoRow}, Earned(m, r)
  PROVE  Earned(n, r)
<1>1. CASE r = NoRow
  BY <1>1 DEF Earned
<1>2. CASE r \in JobRows
  <2>1. r.retries \in Nat
    BY <1>2 DEF JobRows
  <2>2. QED BY <1>2, <2>1, LimitsAssumption, Absences DEF Earned
<1>3. QED BY <1>1, <1>2

\* Only the retry count matters.
LEMMA EarnedSame ==
  ASSUME NEW n \in 0..MaxRetries, NEW r \in JobRows, NEW s \in JobRows,
         r.retries = s.retries, Earned(n, r)
  PROVE  Earned(n, s)
BY Absences DEF Earned

\* Writing back an earned row keeps the rows earned.
LEMMA SaveRowEarned ==
  ASSUME TypeOK, RetryCountEarned, UNCHANGED resends, NEW j \in Jobs, NEW r, SaveRow(j, r),
         Earned(resends[j], r)
  PROVE  RetryCountEarned'
BY DEF TypeOK, RetryCountEarned, SaveRow

\* Retry writes the row it read, as pending (job/handler.ts:102-104).
LEMMA RetriedRow ==
  ASSUME NEW n \in 0..MaxRetries, NEW r \in JobRows, Earned(n, r)
  PROVE  Earned(n, [r EXCEPT !.status = "pending"])
<1>1. [r EXCEPT !.status = "pending"].retries = r.retries
  BY DEF JobRows
<1>2. QED BY <1>1, RowWrites, EarnedSame

\* The rows handlers hold, by their kind.
RequestsEarned(rq, n) == \A j \in Jobs : rq[j].status = "retry" => Earned(n[j], rq[j].row)
PostsEarned(ps, n) ==
  \A j \in Jobs, k \in Kinds : ps[j][k] # NoPost => Earned(n[j], ps[j][k].row)
TouchingEarned(tc, n) == \A j \in Jobs : Earned(n[j], tc[j])
CronEarned(c, n) ==
  /\ \A t \in c.todo : Earned(n[t.job], t.row)
  /\ c.at = "saving" => \A t \in c.now : EffectiveRetryCount(t.row) + 1 <= n[t.job]

LEMMA PostsEarnedChange ==
  ASSUME TypeOK, PostsEarned(posts, resends), NEW j \in Jobs, NEW k \in Kinds, NEW p,
         p # NoPost => Earned(resends[j], p.row)
  PROVE  PostsEarned([posts EXCEPT ![j][k] = p], resends)
BY DEF TypeOK, PostsOK, PostsEarned

LEMMA Parts ==
  /\ SnapshotsEarned <=> /\ RequestsEarned(requests, resends)
                         /\ PostsEarned(posts, resends)
                         /\ TouchingEarned(touching, resends)
                         /\ CronEarned(cron, resends)
  /\ SnapshotsEarned' <=> /\ RequestsEarned(requests', resends')
                          /\ PostsEarned(posts', resends')
                          /\ TouchingEarned(touching', resends')
                          /\ CronEarned(cron', resends')
BY DEF SnapshotsEarned, RequestsEarned, PostsEarned, TouchingEarned, CronEarned

LEMMA UserEarned ==
  ASSUME TypeOK, RetryCountEarned, SnapshotsEarned, NEW j \in Jobs,
         Upload(j) \/ AskRetry(j) \/ Retry(j) \/ AskExtract(j) \/ Extract(j) \/ Delete(j)
         \/ CleanupExpired(j)
  PROVE  RetryCountEarned' /\ SnapshotsEarned'
<1> USE DEF db, running, history
<1>1. resends[j] \in 0..MaxRetries /\ Earned(resends[j], FreshRow)
  BY LimitsAssumption DEF TypeOK, Earned, FreshRow
<1>2. /\ UNCHANGED <<posts, touching, cron, resends>>
      /\ PostsEarned(posts', resends') /\ TouchingEarned(touching', resends')
      /\ CronEarned(cron', resends')
  <2>1. UNCHANGED <<posts, touching, cron, resends>>
    BY DEF Upload, AskRetry, Retry, AskExtract, Extract, Delete, CleanupExpired
  <2>2. QED BY <2>1, Parts
<1>3. CASE Upload(j) \/ Extract(j)
  <2>1. SaveRow(j, FreshRow)
    BY <1>3 DEF Upload, Extract
  <2>2. RetryCountEarned'
    BY <1>1, <1>2, <2>1, SaveRowEarned
  <2>3. requests' = requests \/ requests' = [requests EXCEPT ![j] = NoPost]
    BY <1>3 DEF Upload, Extract
  <2>4. RequestsEarned(requests', resends')
    <3>1. CASE requests' = requests
      BY <1>2, <3>1, Parts
    <3>2. CASE requests' = [requests EXCEPT ![j] = NoPost]
      BY <1>2, <3>2, Parts DEF RequestsEarned, TypeOK, NoPost
    <3>3. QED BY <2>3, <3>1, <3>2
  <2>5. QED BY <1>2, <2>2, <2>4, Parts
<1>4. CASE AskRetry(j)
  <2>1. requests' = [requests EXCEPT ![j] = [status |-> "retry", row |-> row[j]]]
        /\ UNCHANGED row
    BY <1>4 DEF AskRetry
  <2>2. RetryCountEarned'
    BY <1>2, <2>1 DEF RetryCountEarned
  <2>3. RequestsEarned(requests', resends')
    BY <1>2, <2>1, Parts DEF RequestsEarned, TypeOK, RetryCountEarned
  <2>4. QED BY <1>2, <2>2, <2>3, Parts
<1>5. CASE Retry(j)
  <2> DEFINE r == [requests[j].row EXCEPT !.status = "pending"]
  <2>1. requests[j].status = "retry" /\ SaveRow(j, r)
        /\ requests' = [requests EXCEPT ![j] = NoPost]
    BY <1>5 DEF Retry
  <2>2. requests[j].row \in JobRows
    <3>1. \/ requests[j] \in [status : {"retry"}, row : JobRows]
          \/ requests[j] \in [status : {"extract"}]
          \/ requests[j] = NoPost
      BY DEF TypeOK
    <3>2. QED BY <2>1, <3>1 DEF NoPost
  <2>3. Earned(resends[j], r)
    BY <1>1, <2>1, <2>2, RetriedRow, Parts DEF RequestsEarned
  <2> HIDE DEF r
  <2>4. RetryCountEarned'
    BY <1>2, <2>1, <2>3, SaveRowEarned
  <2>5. RequestsEarned(requests', resends')
    BY <1>2, <2>1, Parts DEF RequestsEarned, TypeOK, NoPost
  <2>6. QED BY <1>2, <2>4, <2>5, Parts
<1>6. CASE AskExtract(j)
  <2>1. requests' = [requests EXCEPT ![j] = [status |-> "extract"]] /\ UNCHANGED row
    BY <1>6 DEF AskExtract
  <2>2. RetryCountEarned'
    BY <1>2, <2>1 DEF RetryCountEarned
  <2>3. RequestsEarned(requests', resends')
    BY <1>2, <2>1, Parts DEF RequestsEarned, TypeOK
  <2>4. QED BY <1>2, <2>2, <2>3, Parts
<1>7. CASE Delete(j) \/ CleanupExpired(j)
  <2>1. row' \in {row, [row EXCEPT ![j] = NoRow]} /\ UNCHANGED requests
    BY <1>7 DEF Delete, CleanupExpired
  <2>2. RetryCountEarned'
    BY <1>2, <2>1 DEF RetryCountEarned, Earned, TypeOK
  <2>3. QED BY <1>2, <2>1, <2>2, Parts
<1>8. QED BY <1>3, <1>4, <1>5, <1>6, <1>7

LEMMA ConsumerEarned ==
  ASSUME TypeOK, RetryCountEarned, SnapshotsEarned, NEW j \in Jobs, Consume(j) \/ Touch(j)
  PROVE  RetryCountEarned' /\ SnapshotsEarned'
<1> USE DEF db, running, history
<1>1. UNCHANGED <<posts, requests, cron, resends>>
  BY DEF Consume, Launch, LaunchFails, Touch
<1>2. touching' \in {touching, [touching EXCEPT ![j] = row[j]], [touching EXCEPT ![j] = NoRow]}
  BY DEF Consume, Launch, LaunchFails, Touch
<1>3. TouchingEarned(touching', resends')
  BY <1>1, <1>2, Parts DEF TouchingEarned, TypeOK, RetryCountEarned, Earned
<1>4. row' = row \/ SaveRow(j, touching[j])
  BY DEF Consume, Launch, LaunchFails, Touch
<1>5. Earned(resends[j], touching[j])
  BY Parts DEF TouchingEarned
<1>6. RetryCountEarned'
  <2>1. CASE row' = row
    BY <1>1, <2>1 DEF RetryCountEarned
  <2>2. CASE SaveRow(j, touching[j])
    BY <1>1, <1>5, <2>2, SaveRowEarned
  <2>3. QED BY <1>4, <2>1, <2>2
<1>7. QED BY <1>1, <1>3, <1>6, Parts

LEMMA ContainerEarned ==
  ASSUME TypeOK, RetryCountEarned, SnapshotsEarned, NEW j \in Jobs,
         Work(j) \/ ReportStart(j) \/ Die(j)
  PROVE  RetryCountEarned' /\ SnapshotsEarned'
<1> USE DEF db, running, history
<1>1. UNCHANGED <<row, touching, requests, cron, resends>>
  BY DEF Work, Progress, Finish, ReportStart, Die
<1>2. PostsEarned(posts, resends)
  BY Parts
<1>3. ASSUME NEW k \in Kinds, NEW st, NEW n, Post(j, k, st, n)
      PROVE  PostsEarned(posts', resends')
  <2> DEFINE p == [status |-> st, count |-> n, waited |-> TRUE,
                   read |-> FALSE, row |-> NoRow, mirror |-> "absent", asset |-> "absent"]
  <2>1. posts' = [posts EXCEPT ![j][k] = p] /\ p.row = NoRow
    BY <1>3 DEF Post
  <2> HIDE DEF p
  <2>2. Earned(resends[j], p.row)
    BY <2>1 DEF Earned
  <2>3. QED BY <1>1, <1>2, <2>1, <2>2, PostsEarnedChange
<1>4. CASE Work(j) \/ ReportStart(j)
  <2>1. posts' = posts \/ \E k \in Kinds, st \in {"running", "completed", "failed"},
                              n \in {0, Total, extracted'[j]} : Post(j, k, st, n)
    BY <1>4 DEF Work, Progress, Finish, ReportStart, Kinds
  <2>2. PostsEarned(posts', resends')
    BY <1>1, <1>2, <1>3, <2>1
  <2>3. RetryCountEarned'
    BY <1>1 DEF RetryCountEarned
  <2>4. QED BY <1>1, <2>2, <2>3, Parts
<1>5. CASE Die(j)
  <2>1. posts' = [posts EXCEPT ![j] = [k \in Kinds |-> Unwaited(j, k)]]
    BY <1>5 DEF Die
  <2>2. ASSUME NEW k \in Kinds, Unwaited(j, k) # NoPost
        PROVE  Earned(resends[j], Unwaited(j, k).row)
    <3>1. posts[j][k] # NoPost /\ posts[j][k] \in Posts
      BY <2>2 DEF Unwaited, TypeOK, PostsOK
    <3>2. Unwaited(j, k).row = posts[j][k].row
      BY <3>1, PostFields DEF Unwaited
    <3>3. QED BY <1>2, <3>1, <3>2 DEF PostsEarned
  <2>3. PostsEarned(posts', resends')
    BY <1>1, <1>2, <2>1, <2>2 DEF PostsEarned, TypeOK, PostsOK
  <2>4. RetryCountEarned'
    BY <1>1 DEF RetryCountEarned
  <2>5. QED BY <1>1, <2>3, <2>4, Parts
<1>6. QED BY <1>4, <1>5

LEMMA CallbackEarned ==
  ASSUME TypeOK, RetryCountEarned, SnapshotsEarned, NEW j \in Jobs, NEW k \in Kinds,
         LosePost(j, k) \/ Serve(j, k)
  PROVE  RetryCountEarned' /\ SnapshotsEarned'
<1> USE DEF db, running, history
<1>1. UNCHANGED <<touching, requests, cron, resends>>
  BY DEF LosePost, Serve, ReadPost, WritePost
<1>2. PostsEarned(posts, resends) /\ PostsOK(posts)
  BY Parts DEF TypeOK
<1>3. resends[j] \in 0..MaxRetries
  BY DEF TypeOK
<1>4. CASE LosePost(j, k)
  <2>1. UNCHANGED row
        /\ posts' \in {[posts EXCEPT ![j][k] = NoPost], [posts EXCEPT ![j][k] = Unwaited(j, k)]}
    BY <1>4 DEF LosePost
  <2>2. ASSUME Unwaited(j, k) # NoPost
        PROVE  Earned(resends[j], Unwaited(j, k).row)
    <3>1. posts[j][k] # NoPost /\ posts[j][k] \in Posts
      BY <1>2, <2>2 DEF Unwaited, PostsOK
    <3>2. Unwaited(j, k).row = posts[j][k].row
      BY <3>1, PostFields DEF Unwaited
    <3>3. QED BY <1>2, <3>1, <3>2 DEF PostsEarned
  <2>3. PostsEarned(posts', resends')
    BY <1>1, <1>2, <2>1, <2>2, PostsEarnedChange
  <2>4. RetryCountEarned'
    BY <1>1, <2>1 DEF RetryCountEarned
  <2>5. QED BY <1>1, <2>3, <2>4, Parts
<1>5. CASE ReadPost(j, k)
  <2>1. UNCHANGED row /\ posts[j][k] # NoPost
    BY <1>5 DEF ReadPost
  <2>2. posts[j][k] \in Posts
    BY <1>2, <2>1 DEF PostsOK
  <2>3. PICK p : /\ posts' = [posts EXCEPT ![j][k] = p]
                 /\ p # NoPost => p.row = row[j]
    <3>1. CASE posts' = [posts EXCEPT ![j][k] = NoPost]
      BY <3>1
    <3>2. ASSUME NEW m, NEW a,
                 posts' = [posts EXCEPT ![j][k] = [posts[j][k] EXCEPT !.read = TRUE,
                                                     !.row = row[j], !.mirror = m, !.asset = a]]
          PROVE  \E p : posts' = [posts EXCEPT ![j][k] = p] /\ (p # NoPost => p.row = row[j])
      <4>1. [posts[j][k] EXCEPT !.read = TRUE, !.row = row[j], !.mirror = m, !.asset = a].row
              = row[j]
        BY <2>2 DEF Posts
      <4>2. QED BY <3>2, <4>1
    <3>3. QED BY <1>5, <3>1, <3>2 DEF ReadPost
  <2>4. PostsEarned(posts', resends')
    BY <1>1, <1>2, <2>3, PostsEarnedChange DEF RetryCountEarned
  <2>5. RetryCountEarned'
    BY <1>1, <2>1 DEF RetryCountEarned
  <2>6. QED BY <1>1, <2>4, <2>5, Parts
<1>6. CASE WritePost(j, k)
  <2> DEFINE q == [posts[j][k] EXCEPT !.read = FALSE, !.row = NoRow, !.mirror = "absent",
                                      !.asset = "absent"]
  <2>1. posts[j][k] # NoPost /\ posts[j][k].read /\ SaveRow(j, Reported(posts[j][k]))
    BY <1>6 DEF WritePost
  <2>2. posts[j][k] \in Posts /\ posts[j][k].row \in JobRows
    <3>1. posts[j][k] \in Posts /\ posts[j][k].row # NoRow
      BY <1>2, <2>1 DEF PostsOK
    <3>2. QED BY <3>1 DEF Posts
  <2>3. Earned(resends[j], posts[j][k].row)
    BY <1>2, <2>1 DEF PostsEarned
  <2>4. Earned(resends[j], Reported(posts[j][k]))
    BY <1>3, <2>2, <2>3, ReportedType, EarnedSame
  <2>5. RetryCountEarned'
    BY <1>1, <2>1, <2>4, SaveRowEarned
  <2>6. posts' \in {[posts EXCEPT ![j][k] = NoPost], [posts EXCEPT ![j][k] = q]}
    BY <1>6 DEF WritePost
  <2>7. q.row = NoRow
    BY <2>2, RepeatedPostFields
  <2> HIDE DEF q
  <2>8. Earned(resends[j], q.row)
    BY <2>7 DEF Earned
  <2>9. PostsEarned(posts', resends')
    BY <1>1, <1>2, <2>6, <2>8, PostsEarnedChange
  <2>10. QED BY <1>1, <2>5, <2>9, Parts
<1>7. QED BY <1>4, <1>5, <1>6 DEF Serve

\* What CronSave writes: one retry more than the budget already consumed
\* (cleanup/handler.ts:164-171).
LEMMA ChargedRow ==
  ASSUME NEW r \in JobRows, NEW n \in 0..MaxRetries, ~GivesUp(r),
         EffectiveRetryCount(r) + 1 <= n
  PROVE  Earned(n, [r EXCEPT !.status = "pending", !.mark = r.count,
                            !.retries = EffectiveRetryCount(r) + 1])
<1> DEFINE e == EffectiveRetryCount(r) + 1
<1>1. e \in Nat /\ e <= n /\ e <= MaxRetries
  BY Effective, LimitsAssumption DEF GivesUp
<1> HIDE DEF e
<1>2. [r EXCEPT !.status = "pending", !.mark = r.count, !.retries = e].retries = e
  BY DEF JobRows
<1>3. Earned(n, [r EXCEPT !.status = "pending", !.mark = r.count, !.retries = e])
  BY <1>1, <1>2, LimitsAssumption DEF Earned
<1>4. QED BY <1>3 DEF e

\* What CronGiveUp writes: a job with its whole budget spent.
LEMMA GivenUpRow ==
  ASSUME NEW r \in JobRows, NEW n \in 0..MaxRetries, GivesUp(r), Earned(n, r)
  PROVE  Earned(n, [r EXCEPT !.status = "failed", !.retries = MaxRetries + 1])
<1>1. n = MaxRetries
  <2>1. r.retries \in Nat /\ (r.retries >= MaxRetries \/ MaxRetries = 0)
    BY LimitsAssumption DEF GivesUp, EffectiveRetryCount, JobRows
  <2>2. QED BY <2>1, Absences, LimitsAssumption DEF Earned
<1>2. \A e : [r EXCEPT !.status = "failed", !.retries = e].retries = e
  BY DEF JobRows
<1>3. QED BY <1>1, <1>2, LimitsAssumption DEF Earned

LEMMA CronEarnedDone ==
  ASSUME NEW n, NEW t \in cron.todo, CronOK(cron), CronEarned(cron, n)
  PROVE  CronEarned(Done(t), n) /\ CronEarned(Idle, n)
BY DEF CronEarned, Done, Idle, CronOK

LEMMA HealingEarned ==
  ASSUME TypeOK, RetryCountEarned, SnapshotsEarned,
         CronStart \/ CronList \/ CronDies
         \/ \E j \in Jobs : ReadStuck(j) \/ Reconcile(j) \/ Age(j)
  PROVE  RetryCountEarned' /\ SnapshotsEarned'
<1> USE DEF db, running, history
<1>1. UNCHANGED <<row, posts, touching, requests, resends>>
  BY DEF CronStart, CronList, CronDies, ReadStuck, Reconcile, Age
<1>2. RetryCountEarned'
  BY <1>1 DEF RetryCountEarned
<1>3. CronOK(cron) /\ CronEarned(cron, resends)
  BY Parts DEF TypeOK
<1>4. CASE CronList
  <2>1. ASSUME NEW t \in ListRetriable
        PROVE  Earned(resends[t.job], t.row)
    <3>1. PICK j \in Jobs : t = [job |-> j, row |-> row[j]]
      BY DEF ListRetriable
    <3>2. t.job = j /\ t.row = row[j]
      BY <3>1
    <3>3. QED BY <3>2 DEF RetryCountEarned
  <2>2. CronEarned(cron', resends)
    BY <1>4, <2>1 DEF CronList, CronEarned, Idle
  <2>3. QED BY <1>1, <1>2, <2>2, Parts
<1>5. CASE CronStart \/ CronDies \/ \E j \in Jobs : ReadStuck(j) \/ Reconcile(j) \/ Age(j)
  <2>1. /\ cron'.todo \in {cron.todo, {}} /\ cron'.now \in {cron.now, {}}
        /\ cron'.at = "saving" => cron.at = "saving"
    <3>1. CASE CronStart \/ CronDies
      <4>1. cron' = Idle \/ \E H : cron' = [Idle EXCEPT !.at = "healing", !.heal = H]
        BY <3>1 DEF CronStart, CronDies
      <4>2. \A H : LET c == [Idle EXCEPT !.at = "healing", !.heal = H]
                  IN  c.todo = {} /\ c.now = {} /\ c.at = "healing"
        BY DEF Idle
      <4>3. Idle.todo = {} /\ Idle.now = {} /\ Idle.at = "idle"
        BY DEF Idle
      <4>4. cron'.todo = {} /\ cron'.now = {} /\ cron'.at \in {"idle", "healing"}
        BY <4>1, <4>2, <4>3
      <4>5. QED BY <4>4
    <3>2. ASSUME NEW j \in Jobs, ReadStuck(j) \/ Reconcile(j)
          PROVE  cron'.todo = cron.todo /\ cron'.now = cron.now /\ cron'.at = cron.at
      BY <1>3, <3>2 DEF ReadStuck, Reconcile, CronOK
    <3>3. ASSUME NEW j \in Jobs, Age(j)
          PROVE  UNCHANGED cron
      BY <3>3 DEF Age
    <3>4. QED BY <1>5, <3>1, <3>2, <3>3
  <2>2. CronEarned(cron', resends)
    BY <1>3, <2>1 DEF CronEarned
  <2>3. QED BY <1>1, <1>2, <2>2, Parts
<1>6. QED BY <1>4, <1>5

LEMMA RetriggerEarned ==
  ASSUME TypeOK, RetryCountEarned, SnapshotsEarned, NEW t \in cron.todo,
         CronFail(t) \/ CronGiveUp(t) \/ CronSkip(t) \/ CronSend(t) \/ CronSave(t)
  PROVE  RetryCountEarned' /\ SnapshotsEarned'
<1> USE DEF db, running, history
<1>1. CronOK(cron) /\ CronEarned(cron, resends) /\ t.job \in Jobs /\ t.row \in JobRows
  BY Parts DEF TypeOK, CronOK, Listed
<1>2. Earned(resends[t.job], t.row) /\ resends[t.job] \in 0..MaxRetries
  BY <1>1 DEF CronEarned, TypeOK
<1>3. UNCHANGED <<posts, touching, requests>>
  BY DEF CronFail, CronGiveUp, CronSkip, CronSend, CronSave
<1>4. CASE CronFail(t) \/ CronSkip(t)
  <2>1. UNCHANGED <<row, resends>>
    BY <1>4 DEF CronFail, CronSkip
  <2>2. RetryCountEarned'
    BY <2>1 DEF RetryCountEarned
  <2>3. CronEarned(cron', resends)
    BY <1>1, <1>4, CronEarnedDone DEF CronFail, CronSkip, CronEarned, Hold, CronOK
  <2>4. QED BY <1>3, <2>1, <2>2, <2>3, Parts
<1>5. CASE CronGiveUp(t)
  <2> DEFINE r == [t.row EXCEPT !.status = "failed", !.retries = MaxRetries + 1]
  <2>1. UNCHANGED resends /\ cron' = Done(t) /\ SaveRow(t.job, r) /\ t \in cron.now
        /\ cron.at \in {"failing", "failingAlone"}
    BY <1>5 DEF CronGiveUp
  <2>2. GivesUp(t.row)
    BY <1>1, <2>1 DEF CronOK
  <2>3. Earned(resends[t.job], r)
    BY <1>1, <1>2, <2>2, GivenUpRow
  <2> HIDE DEF r
  <2>4. RetryCountEarned'
    BY <1>1, <2>1, <2>3, SaveRowEarned
  <2>5. CronEarned(cron', resends)
    BY <1>1, <2>1, CronEarnedDone
  <2>6. QED BY <1>3, <2>1, <2>4, <2>5, Parts
<1>6. CASE CronSend(t)
  <2>1. UNCHANGED row /\ ~GivesUp(t.row)
    BY <1>6 DEF CronSend
  <2>2. \A j \in Jobs : /\ resends[j] \in 0..MaxRetries /\ resends'[j] \in 0..MaxRetries
                        /\ resends[j] <= resends'[j]
    <3> DEFINE n == IF resends[t.job] < MaxRetries THEN resends[t.job] + 1 ELSE resends[t.job]
    <3>1. n \in 0..MaxRetries /\ resends[t.job] <= n
      BY <1>2, LimitsAssumption
    <3>2. resends' \in {resends, [resends EXCEPT ![t.job] = n]}
      BY <1>6 DEF CronSend
    <3> HIDE DEF n
    <3>3. ASSUME NEW j \in Jobs
          PROVE  /\ resends[j] \in 0..MaxRetries /\ resends'[j] \in 0..MaxRetries
                 /\ resends[j] <= resends'[j]
      <4>1. resends[j] \in 0..MaxRetries /\ resends[j] <= resends[j]
        BY LimitsAssumption DEF TypeOK
      <4>2. resends'[j] = resends[j] \/ (j = t.job /\ resends'[j] = n)
        BY <1>1, <3>2 DEF TypeOK
      <4>3. QED BY <3>1, <4>1, <4>2
    <3>4. QED BY <3>3
  <2>3. RetryCountEarned'
    BY <2>1, <2>2, EarnedLater DEF RetryCountEarned, TypeOK
  <2>4. RequestsEarned(requests', resends')
    <3>1. ASSUME NEW j \in Jobs, requests[j].status = "retry"
          PROVE  requests[j].row \in JobRows
      <4>1. \/ requests[j] \in [status : {"retry"}, row : JobRows]
            \/ requests[j] \in [status : {"extract"}]
            \/ requests[j] = NoPost
        BY DEF TypeOK
      <4>2. QED BY <3>1, <4>1 DEF NoPost
    <3>2. QED BY <1>3, <2>2, <3>1, EarnedLater, Parts DEF RequestsEarned
  <2>5. PostsEarned(posts', resends')
    <3>1. ASSUME NEW j \in Jobs, NEW k \in Kinds, posts[j][k] # NoPost
          PROVE  posts[j][k].row \in JobRows \cup {NoRow}
      BY <3>1 DEF TypeOK, PostsOK, Posts
    <3>2. QED BY <1>3, <2>2, <3>1, EarnedLater, Parts DEF PostsEarned
  <2>6. TouchingEarned(touching', resends')
    BY <1>3, <2>2, EarnedLater, Parts DEF TouchingEarned, TypeOK
  <2>7. CronEarned(cron', resends')
    <3>1. \A u \in cron.todo : Earned(resends'[u.job], u.row)
      <4>1. ASSUME NEW u \in cron.todo
            PROVE  Earned(resends'[u.job], u.row)
        <5>1. u.job \in Jobs /\ u.row \in JobRows /\ Earned(resends[u.job], u.row)
          BY <1>1 DEF CronOK, Listed, CronEarned
        <5>2. QED BY <2>2, <5>1, EarnedLater
      <4>2. QED BY <4>1
    <3>2. CASE cron' = Done(t)
      BY <3>1, <3>2, <1>1 DEF CronEarned, Done, Idle, CronOK
    <3>3. CASE cron' = Hold(t, "saving")
                /\ resends' = [resends EXCEPT ![t.job] =
                                 IF resends[t.job] < MaxRetries THEN resends[t.job] + 1
                                 ELSE resends[t.job]]
      <4>1. EffectiveRetryCount(t.row) + 1 <= resends'[t.job]
        <5> DEFINE e == EffectiveRetryCount(t.row)
        <5>1. e \in Nat /\ e < MaxRetries
          BY <1>1, <2>1, Effective, LimitsAssumption DEF GivesUp
        <5>2. e <= resends[t.job]
          <6>1. t.row.retries \in Nat /\ e \in {0, t.row.retries} /\ resends[t.job] \in Nat
            BY <1>1, <1>2, LimitsAssumption DEF EffectiveRetryCount, JobRows
          <6>2. t.row.retries > MaxRetries \/ t.row.retries <= resends[t.job]
            BY <1>1, <1>2, Absences DEF Earned
          <6> HIDE DEF e
          <6>3. QED BY <5>1, <6>1, <6>2, LimitsAssumption
        <5>3. resends'[t.job] = IF resends[t.job] < MaxRetries THEN resends[t.job] + 1
                                ELSE resends[t.job]
          BY <1>1, <3>3 DEF TypeOK
        <5> HIDE DEF e
        <5>4. e + 1 <= resends'[t.job]
          BY <1>2, <5>1, <5>2, <5>3, LimitsAssumption
        <5>5. QED BY <5>4 DEF e
      <4>2. cron'.todo = cron.todo /\ cron'.now = {t}
        BY <1>1, <3>3 DEF Hold, CronOK
      <4>3. QED BY <3>1, <4>1, <4>2 DEF CronEarned
    <3>4. QED BY <1>6, <3>2, <3>3 DEF CronSend
  <2>8. QED BY <2>3, <2>4, <2>5, <2>6, <2>7, Parts
<1>7. CASE CronSave(t)
  <2> DEFINE r == [t.row EXCEPT !.status = "pending", !.mark = t.row.count,
                               !.retries = EffectiveRetryCount(t.row) + 1]
  <2>1. UNCHANGED resends /\ cron' = Done(t) /\ (SaveRow(t.job, r) \/ UNCHANGED row)
        /\ t \in cron.now /\ cron.at = "saving"
    BY <1>7 DEF CronSave
  <2>2. ~GivesUp(t.row) /\ EffectiveRetryCount(t.row) + 1 <= resends[t.job]
    BY <1>1, <2>1 DEF CronOK, CronEarned
  <2>3. Earned(resends[t.job], r)
    BY <1>1, <1>2, <2>2, ChargedRow
  <2> HIDE DEF r
  <2>4. RetryCountEarned'
    <3>1. CASE SaveRow(t.job, r)
      BY <1>1, <2>1, <2>3, <3>1, SaveRowEarned
    <3>2. CASE UNCHANGED row
      BY <2>1, <3>2 DEF RetryCountEarned
    <3>3. QED BY <2>1, <3>1, <3>2
  <2>5. CronEarned(cron', resends)
    BY <1>1, <2>1, CronEarnedDone
  <2>6. QED BY <1>3, <2>1, <2>4, <2>5, Parts
<1>8. QED BY <1>4, <1>5, <1>6, <1>7

LEMMA EarnedStep ==
  TypeOK /\ RetryCountEarned /\ SnapshotsEarned /\ [Next]_vars
    => RetryCountEarned' /\ SnapshotsEarned'
<1> SUFFICES ASSUME TypeOK, RetryCountEarned, SnapshotsEarned, [Next]_vars
             PROVE  RetryCountEarned' /\ SnapshotsEarned'
  OBVIOUS
<1>1. CASE UNCHANGED vars
  <2>1. UNCHANGED <<row, posts, touching, requests, cron, resends>>
    BY <1>1 DEF vars, db, running, history
  <2>2. QED BY <2>1, Parts DEF RetryCountEarned
<1>2. CASE Next
  <2>1. \/ \E j \in Jobs : Upload(j) \/ Ask(j) \/ Retry(j) \/ Extract(j)
        \/ \E j \in Jobs : Consume(j) \/ Touch(j)
        \/ \E j \in Jobs : Work(j) \/ ReportStart(j) \/ Die(j)
        \/ \E j \in Jobs, k \in Kinds : LosePost(j, k) \/ Serve(j, k)
        \/ \E j \in Jobs : Age(j)
        \/ Tick \/ CronDies
    BY <1>2 DEF Next
  <2>2. CASE Tick
    BY <2>2, HealingEarned, RetriggerEarned DEF Tick
  <2>3. QED BY <2>1, <2>2, UserEarned, ConsumerEarned, ContainerEarned, CallbackEarned,
               HealingEarned DEF Ask
<1>3. QED BY <1>1, <1>2

-----------------------------------------------------------------------------
(* Jobs and their mirrors *)

\* What MirrorsAgree says of one job.
Agrees(r, m, un) == r # NoRow /\ r.status = "completed" /\ ~un => m \in {"ready", "absent"}

LEMMA AgreesForAll ==
  /\ MirrorsAgree <=> \A j \in Jobs : Agrees(row[j], mirror[j], j \in parted)
  /\ MirrorsAgree' <=> \A j \in Jobs : Agrees(row'[j], mirror'[j], j \in parted')
BY DEF MirrorsAgree, Agrees

\* A row that is not of a completed job agrees with any mirror.
LEMMA UnfinishedRow ==
  ASSUME TypeOK, MirrorsAgree, NEW j \in Jobs, NEW r, r.status # "completed", SaveRow(j, r),
         \A i \in Jobs \ {j} :
           i \in parted' \/ (mirror'[i] = mirror[i] /\ (i \in parted => i \in parted'))
  PROVE  MirrorsAgree'
<1>1. \A i \in Jobs : row'[i] = IF i = j THEN r ELSE row[i]
  BY DEF SaveRow, TypeOK
<1>2. QED BY <1>1, AgreesForAll DEF Agrees

LEMMA MirrorOfOne ==
  ASSUME TypeOK, NEW j \in Jobs, NEW m, SaveMirror(j, m)
  PROVE  /\ \A i \in Jobs \ {j} : mirror'[i] = mirror[i]
         /\ mirror'[j] = m \/ (mirror'[j] = "absent" /\ mirror[j] = "absent")
BY DEF TypeOK, SaveMirror

\* Steps that leave the rows alone, or remove one, and make no mirror worse.
LEMMA SameRow ==
  ASSUME TypeOK, MirrorsAgree, NEW j \in Jobs,
         row' \in {row, [row EXCEPT ![j] = NoRow]},
         \A i \in Jobs : \/ mirror'[i] \in {"absent", "ready"}
                         \/ mirror'[i] = mirror[i] /\ (i \in parted => i \in parted')
  PROVE  MirrorsAgree'
<1>1. \A i \in Jobs : row'[i] \in {row[i], NoRow}
  BY DEF TypeOK
<1>2. QED BY <1>1, AgreesForAll DEF Agrees

LEMMA MirrorStep ==
  TypeOK /\ MirrorsAgree /\ SnapshotsUnfinished /\ [Next]_vars
    => MirrorsAgree' /\ SnapshotsUnfinished'
<1> SUFFICES ASSUME TypeOK, MirrorsAgree, SnapshotsUnfinished, [Next]_vars
             PROVE  MirrorsAgree' /\ SnapshotsUnfinished'
  OBVIOUS
<1> USE DEF db, running, history
<1>1. CASE UNCHANGED vars
  <2>1. UNCHANGED <<row, mirror, parted, touching>>
    BY <1>1 DEF vars
  <2>2. QED BY <2>1 DEF MirrorsAgree, SnapshotsUnfinished
<1>2. ASSUME NEW j \in Jobs, Upload(j) \/ Ask(j) \/ Retry(j) \/ Extract(j)
      PROVE  MirrorsAgree' /\ SnapshotsUnfinished'
  <2>1. UNCHANGED touching /\ \A i \in Jobs \ {j} : i \in parted => i \in parted'
    BY <1>2 DEF Upload, Ask, AskRetry, Retry, AskExtract, Extract, Delete, CleanupExpired
  <2>2. SnapshotsUnfinished'
    BY <2>1 DEF SnapshotsUnfinished
  <2>3. CASE Upload(j) \/ Extract(j)
    <3>1. FreshRow.status # "completed"
      BY DEF FreshRow
    <3>2. SaveRow(j, FreshRow) /\ \A i \in Jobs \ {j} : mirror'[i] = mirror[i]
      BY <2>3, MirrorOfOne DEF Upload, Extract, TypeOK
    <3>3. QED BY <2>1, <2>2, <3>1, <3>2, UnfinishedRow
  <2>4. CASE Retry(j)
    <3> DEFINE r == [requests[j].row EXCEPT !.status = "pending"]
    <3>1. requests[j].row \in JobRows
      <4>1. requests[j].status = "retry"
        BY <2>4 DEF Retry
      <4>2. \/ requests[j] \in [status : {"retry"}, row : JobRows]
            \/ requests[j] \in [status : {"extract"}]
            \/ requests[j] = NoPost
        BY DEF TypeOK
      <4>3. QED BY <4>1, <4>2 DEF NoPost
    <3>2. r.status # "completed"
      BY <3>1 DEF JobRows
    <3>3. SaveRow(j, r) /\ UNCHANGED mirror
      BY <2>4 DEF Retry
    <3> HIDE DEF r
    <3>4. QED BY <2>1, <2>2, <3>2, <3>3, UnfinishedRow
  <2>5. CASE Ask(j)
    <3>1. row' \in {row, [row EXCEPT ![j] = NoRow]} /\ UNCHANGED parted
      BY <2>5 DEF Ask, AskRetry, AskExtract, Delete, CleanupExpired
    <3>2. \A i \in Jobs : mirror'[i] \in {mirror[i], "absent"}
      BY <2>5 DEF Ask, AskRetry, AskExtract, Delete, CleanupExpired, Remove
    <3>3. QED BY <2>2, <3>1, <3>2, SameRow
  <2>6. QED BY <1>2, <2>3, <2>4, <2>5
<1>3. ASSUME NEW j \in Jobs, Consume(j) \/ Touch(j)
      PROVE  MirrorsAgree' /\ SnapshotsUnfinished'
  <2>1. UNCHANGED <<mirror, parted>>
    BY <1>3 DEF Consume, Launch, LaunchFails, Touch
  <2>2. SnapshotsUnfinished'
    <3>1. \/ UNCHANGED touching
          \/ touching' = [touching EXCEPT ![j] = NoRow]
          \/ touching' = [touching EXCEPT ![j] = row[j]]
             /\ (touching'[j] # NoRow => row[j].status = "pending")
      BY <1>3 DEF Consume, Launch, LaunchFails, Touch
    <3>2. QED BY <3>1 DEF SnapshotsUnfinished, TypeOK
  <2>3. CASE UNCHANGED row
    BY <2>1, <2>2, <2>3 DEF MirrorsAgree
  <2>4. CASE SaveRow(j, touching[j]) /\ touching[j] # NoRow
    <3>1. touching[j].status # "completed"
      BY <2>4 DEF SnapshotsUnfinished
    <3>2. QED BY <2>1, <2>2, <2>4, <3>1, UnfinishedRow
  <2>5. QED BY <1>3, <2>3, <2>4 DEF Consume, Launch, LaunchFails, Touch
<1>4. ASSUME NEW j \in Jobs, NEW k \in Kinds, LosePost(j, k) \/ Serve(j, k)
      PROVE  MirrorsAgree' /\ SnapshotsUnfinished'
  <2>1. UNCHANGED touching
    BY <1>4 DEF LosePost, Serve, ReadPost, WritePost
  <2>2. SnapshotsUnfinished'
    BY <2>1 DEF SnapshotsUnfinished
  <2>3. CASE LosePost(j, k) \/ ReadPost(j, k)
    <3>1. UNCHANGED <<row, mirror, parted>>
      BY <2>3 DEF LosePost, ReadPost
    <3>2. QED BY <2>2, <3>1 DEF MirrorsAgree
  <2>4. CASE WritePost(j, k)
    <3> DEFINE p == posts[j][k]
    <3>1. p \in Posts /\ p.row \in JobRows
      <4>1. p # NoPost /\ p.read
        BY <2>4 DEF WritePost
      <4>2. p \in Posts /\ p.row # NoRow
        BY <4>1 DEF TypeOK, PostsOK
      <4>3. QED BY <4>2 DEF Posts
    <3>2. SaveRow(j, Reported(p)) /\ Reported(p).status = p.status
      BY <2>4, <3>1, ReportedType DEF WritePost
    <3>3. \/ SaveMirrors(j, p) /\ parted' = Parted(j, p)
          \/ UNCHANGED mirror /\ parted' = parted \cup {j}
      BY <2>4 DEF WritePost
    <3>4. ASSUME NEW i \in Jobs \ {j}
          PROVE  i \in parted' \/ (mirror'[i] = mirror[i] /\ (i \in parted => i \in parted'))
      <4>1. CASE SaveMirrors(j, p) /\ parted' = Parted(j, p)
        <5>1. i \in parted => i \in parted'
          BY <4>1 DEF Parted
        <5>2. CASE i = Asset[j] /\ p.asset # "absent" /\ p.asset # mirror[i]
          <6>1. i \in parted'
            BY <4>1, <5>2 DEF Parted
          <6>2. QED BY <6>1
        <5>3. CASE ~(i = Asset[j] /\ p.asset # "absent" /\ p.asset # mirror[i])
          <6>1. mirror'[i] = mirror[i]
            BY <4>1, <5>3 DEF SaveMirrors, TypeOK
          <6>2. QED BY <5>1, <6>1
        <5>4. QED BY <5>2, <5>3
      <4>2. QED BY <3>3, <4>1
    <3>5. CASE p.status # "completed"
      BY <2>2, <3>2, <3>4, <3>5, UnfinishedRow
    <3>6. CASE p.status = "completed"
      <4>1. \A i \in Jobs \ {j} : row'[i] = row[i]
        BY <3>2 DEF SaveRow, TypeOK
      <4>2. Mirrored(p) = "ready"
        BY <3>6 DEF Mirrored
      <4>3. j \in parted' \/ mirror'[j] \in {"ready", "absent"}
        <5>1. CASE SaveMirrors(j, p) /\ parted' = Parted(j, p) /\ p.mirror # "absent"
          <6>1. mirror'[j] = "ready" \/ (mirror'[j] = mirror[j] /\ mirror[j] = "absent")
            BY <4>2, <5>1 DEF SaveMirrors
          <6>2. QED BY <6>1
        <5>2. CASE parted' = Parted(j, p) /\ p.mirror = "absent"
          BY <5>2 DEF Parted
        <5>3. QED BY <3>3, <5>1, <5>2
      <4>4. QED BY <2>2, <3>4, <4>1, <4>3, AgreesForAll DEF Agrees
    <3>7. QED BY <3>5, <3>6
  <2>5. QED BY <1>4, <2>3, <2>4 DEF Serve
<1>5. ASSUME NEW j \in Jobs, Work(j) \/ ReportStart(j) \/ Die(j) \/ Age(j) \/ ReadStuck(j)
      PROVE  MirrorsAgree' /\ SnapshotsUnfinished'
  <2>1. UNCHANGED <<row, mirror, parted, touching>>
    BY <1>5 DEF Work, Progress, Finish, ReportStart, Die, Age, ReadStuck
  <2>2. QED BY <2>1 DEF MirrorsAgree, SnapshotsUnfinished
<1>6. ASSUME NEW j \in Jobs, Reconcile(j)
      PROVE  MirrorsAgree' /\ SnapshotsUnfinished'
  <2>1. UNCHANGED <<row, touching>> /\ SaveMirror(j, "ready") /\ parted' = parted \ {j}
    BY <1>6 DEF Reconcile
  <2>2. \A i \in Jobs : \/ mirror'[i] \in {"absent", "ready"}
                        \/ mirror'[i] = mirror[i] /\ (i \in parted => i \in parted')
    BY <2>1, MirrorOfOne
  <2>3. QED BY <2>1, <2>2, SameRow DEF SnapshotsUnfinished
<1>7. CASE CronStart \/ CronList \/ CronDies
  <2>1. UNCHANGED <<row, mirror, parted, touching>>
    BY <1>7 DEF CronStart, CronList, CronDies
  <2>2. QED BY <2>1 DEF MirrorsAgree, SnapshotsUnfinished
<1>8. ASSUME NEW t \in cron.todo,
             CronFail(t) \/ CronGiveUp(t) \/ CronSkip(t) \/ CronSend(t) \/ CronSave(t)
      PROVE  MirrorsAgree' /\ SnapshotsUnfinished'
  <2>1. t.job \in Jobs /\ t.row \in JobRows
    BY DEF TypeOK, CronOK, Listed
  <2>2. UNCHANGED touching /\ \A i \in Jobs \ {t.job} : i \in parted => i \in parted'
    BY <1>8 DEF CronFail, CronGiveUp, CronSkip, CronSend, CronSave
  <2>3. SnapshotsUnfinished'
    BY <2>2 DEF SnapshotsUnfinished
  <2>4. CASE UNCHANGED <<row, mirror, parted>>
    BY <2>3, <2>4 DEF MirrorsAgree
  <2>5. CASE CronGiveUp(t)
    <3> DEFINE r == [t.row EXCEPT !.status = "failed", !.retries = MaxRetries + 1]
    <3>1. r.status # "completed"
      BY <2>1 DEF JobRows
    <3>2. SaveRow(t.job, r) /\ (UNCHANGED mirror \/ SaveMirror(t.job, "failed"))
      BY <2>5 DEF CronGiveUp
    <3> HIDE DEF r
    <3>3. QED BY <2>1, <2>2, <2>3, <3>1, <3>2, MirrorOfOne, UnfinishedRow
  <2>6. CASE CronSave(t) /\ ~UNCHANGED row
    <3> DEFINE r == [t.row EXCEPT !.status = "pending", !.mark = t.row.count,
                                 !.retries = EffectiveRetryCount(t.row) + 1]
    <3>1. r.status # "completed"
      BY <2>1 DEF JobRows
    <3>2. SaveRow(t.job, r) /\ UNCHANGED mirror
      BY <2>6 DEF CronSave
    <3> HIDE DEF r
    <3>3. QED BY <2>1, <2>2, <2>3, <3>1, <3>2, UnfinishedRow
  <2>7. UNCHANGED <<row, mirror, parted>> \/ CronGiveUp(t) \/ (CronSave(t) /\ ~UNCHANGED row)
    BY <1>8 DEF CronFail, CronSkip, CronSend, CronSave
  <2>8. QED BY <2>4, <2>5, <2>6, <2>7
<1>9. QED BY <1>1, <1>2, <1>3, <1>4, <1>5, <1>6, <1>7, <1>8 DEF Next, Tick

-----------------------------------------------------------------------------
(* Theorems *)

\* The invariant that carries the proofs: rows and mirrors together with the
\* snapshots of them that handlers hold (job/handler.ts, cleanup/handler.ts,
\* extraction/handler.ts).
THEOREM Invariance == Spec => []JobsInv
<1>1. Init => JobsInv
  <2> SUFFICES ASSUME Init PROVE JobsInv
    OBVIOUS
  <2>1. RetryCountEarned /\ MirrorsAgree /\ SnapshotsUnfinished
    BY DEF Init, AtRest, RetryCountEarned, Earned, MirrorsAgree, SnapshotsUnfinished
  <2>2. SnapshotsEarned
    BY DEF Init, AtRest, SnapshotsEarned, Earned, NoPost, Idle
  <2>3. QED BY <2>1, <2>2, InitType DEF JobsInv
<1>2. JobsInv /\ [Next]_vars => JobsInv'
  BY TypeStep, EarnedStep, MirrorStep DEF JobsInv
<1>3. QED BY <1>1, <1>2, PTL DEF Spec

\* Rows, snapshots and queue keep their shape.
THEOREM TypeCorrect == Spec => []TypeOK
<1>1. JobsInv => TypeOK
  BY DEF JobsInv
<1>2. QED BY Invariance, <1>1, PTL

\* No interleaving of callbacks, touches, retries and cron ticks, and no failed
\* send or save, charges a retry that was not sent (cleanup/handler.ts:151-171).
THEOREM RetriesAreEarned == Spec => []RetryCountEarned
<1>1. JobsInv => RetryCountEarned
  BY DEF JobsInv
<1>2. QED BY Invariance, <1>1, PTL

\* A completed job shows as ready unless, since the two were last written together,
\* a status was written without its mirror or a version's callback put an older
\* status back on its asset (job/handler.ts:176-231).
THEOREM MirrorsMoveWithJobs == Spec => []MirrorsAgree
<1>1. JobsInv => MirrorsAgree
  BY DEF JobsInv
<1>2. QED BY Invariance, <1>1, PTL

=============================================================================
