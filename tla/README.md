# Verification of reearth-serve

TLA+ modules, TLC configurations and TLAPS proofs kept beside the code of
reearth-serve, a service that hosts uploaded assets: files, versions of files,
and archives that a container extracts into static sites.

## 1. The system

Users upload assets through a Worker (Cloudflare Workers, or the Node runtime
with the same handlers). An archive is extracted by a Go container: the Worker
queues a message, a queue consumer starts the container, the container works on
object storage and reports back to the Worker. A cron repairs what got lost.
Sites are served under names that projects claim.

| Component | State it keeps | Operations | What is hard |
|---|---|---|---|
| Archive extraction worker (`container/archive-extractor`) | objects under the asset's prefix: entry list, checkpoint, manifest chunks, manifest; in memory: goroutines, buffer, low-water mark | list, extract, flush, checkpoint, finalize, report, resume | goroutines finish out of order and save checkpoints outside the lock; a crash anywhere; every PUT may fail with or without effect |
| Extraction jobs (`core/job`, `core/extraction`, `core/cleanup`) | job rows, asset and version rows they are mirrored onto, queue messages | upload, status callback, touch, retry, re-extract, cron heal and re-enqueue, expiry | every handler reads a row, awaits, and writes the whole row back; lost, repeated and late callbacks; a retry budget; starvation |
| Asset store (`core/asset`, `core/cleanup/usecase.ts`) | asset, version, upload-session and usage rows; `cleanup_pending`; objects | upload, single and multipart sessions, versions, PATCH, delete, re-extract, expire | check-then-act on rows, counters beside rows, objects beside rows, a subrequest budget |
| Job queues (`adapters/sql/queue.ts`, Cloudflare Queues) | messages with attempts and availability | send, receive, ack, retry, dead-letter | claiming deletes the row, retries are buffered until `flush` |
| Site names (`core/site`, `adapters/sql/site-hosts.ts`) | `site_hosts` rows, 60 s resolution cache, TXT records outside | claim, enable/disable, release, verify, purge, resolve, release by asset deletion | cooldown, quota and uniqueness under concurrent requests; cache written by reads that overlap a change |
| Accounts (`core/workspace`, `core/member`, `core/project`, `core/tenancy`) | workspaces, members with roles, projects | create, add, change role, remove, delete | "at least one owner" is a check followed by a write |
| Protected assets (`core/access`) | password hash and version, cookies, attempt counters | set, unlock, limit | counters in a store without atomic increment; revocation of cookies already issued |
| Authentication and authorization (`core/auth`, `core/session`, `core/authz`) | key set cache, sessions | two middlewares, roles, policy, scoping of lists | two descriptions of who sees what must agree |
| File delivery (`core/file`, `core/site/middleware.ts`, `resolver.ts`) | none of its own; caches outside keep its answers | resolve a host or an ID, admit, look up, fall back, redirect, range, revalidate, headers | an answer outlives the state it was made from; a version's files live in two prefixes |
| Site rules and hosting files (`core/site/rules.ts`, `hosting.ts`) | rules stored with the asset or version | parse `_headers` and `_redirects`, match, apply | rules come from an archive, delivery from the owner |
| Thumbnails (`core/thumbnail`, `container/thumbnail`) | thumbnail objects | one idempotent consumer | none of its own |
| Command line client (`cli`) | `credentials.json` and `session.json`, shared by every process of a user | log in and out, refresh a token, upload in parts and complete, upload directly, site options | processes that share files, refreshes that race, tokens and sessions that run out on the way, parts tried again |
| Key-value stores, web interface, runtimes, adapters | expiring entries; none; none; none | I/O and wiring | outside what a model would show |

Interactions: routes and the cron call the stores; `AtomicWrites` batches a job
with its mirror; the queue delivers to `handleQueue`, which starts a container;
the container calls `POST /api/internal/jobs/:id/status`; `deleteAsset` releases
the asset's site names before its row goes; the resolver reads `site_hosts`
through the cache; delivery reads the asset and version rows and the object
store, asks access control to admit the visitor, and applies the rules an
extraction stored; the command line client calls the upload routes.

What makes each component correct, in one line each:

- worker: a published manifest accounts for every file, whatever was interrupted;
- jobs: a job that can finish does, its retries are earned, and its asset says what the job says;
- asset store: the objects of a deleted asset are reclaimed, a retry finds what it uploaded, counters are what is stored;
- queues: a message handed out is with nobody else, and ends acknowledged or dead unless its holder dies;
- site names: one holder at a time, thirty days between two holders, nothing served that was taken down;
- accounts: roles come from above, and what may be read is what is listed;
- protected assets: nobody is let in on a demand that was not in force;
- delivery: nothing kept by a cache shows what was closed, or changes what was promised for ever;
- client: a finished upload is the whole file, and belongs to whom it was opened for.

`PROJECT.json` lists under `hazards` where in the code these are hard to keep.

## 2. Modules

| Module | Contents |
|---|---|
| `ExtractionOutcome` | what an extraction promises those who asked for it |
| `ArchiveExtractor` | the worker with its object store, crashes and failed calls |
| `ArchiveExtractorInv` | its inductive invariant, and the mapping under which it implements `ExtractionOutcome` |
| `ArchiveExtractorProofs` | proofs of both |
| `ExtractionJobs` | job rows, mirrors, queue, containers, callbacks, cron, users; its inductive invariant |
| `ExtractionJobsProofs` | proofs about it |
| `SiteHosts` | site names and their cache; its inductive invariant |
| `SiteHostsProofs` | proofs about it |
| `AssetStore` | assets, versions, sessions, usage, `cleanup_pending`, objects, requests and cron |
| `AssetStoreProofs` | its inductive invariant, and proofs |
| `Authorization` | callers, roles, policy, what each route answers, what each list holds |
| `Accounts` | extends it: workspaces, members and projects under concurrent requests |
| `AccountsProofs` | its inductive invariant, and proofs |
| `AccessControl` | password, cookies, the isolates' memory of hashes, the failure limiter |
| `AccessControlProofs` | its inductive invariant, and proofs |
| `JobQueue` | what a job queue promises |
| `SqlJobQueue` | the queue over a SQL table and the ticks that drain it; implements `JobQueue` |
| `QueueAndClientProofs` | the inductive invariants of `SqlJobQueue` and `UploadClient`; the refinement, step by step; the client's safety |
| `SiteRules` | `_headers` and `_redirects`: parsing, matching, where they are kept |
| `SiteRequests` | hosts, origins, validators: a request before it is resolved |
| `FileDelivery` | extends the last two: visits, caches, and the owner's changes meanwhile |
| `FileDeliveryProofs` | its inductive invariant, and proofs |
| `UploadClient` | processes of the command line client over one configuration directory |
| `MC…` | one for each of the above that runs: its instances for TLC |

`PROJECT.json` maps every definition to the lines it stands for.

### ArchiveExtractor

State: `entryList`, `ckpt`, `chunk`, `manifest` are the objects
`_entry_list.jsonl`, `_checkpoint.json`, `_manifest_chunks/*`, `_manifest.jsonl`;
`cp`, `chunkIndex`, `buffer`, `settled`, `loWater`, `resumeAfter`, `streamPos`
are fields of the worker and its `ManifestWriter`; `extracting`, `saving` and
`checking` say where each goroutine is; `pc` is the main goroutine.

Phase A is `ListEntries`, `SaveListed`, `SkipListing`; phase B `BeginExtraction`
to `FinalFlush` and `SaveCompleting`; phase C `Finalize` to `DeleteCheckpoint`.
A goroutine is `SpawnExtraction`, then `ExtractSucceeds` (the critical section:
add the line, maybe flush, maybe snapshot) or `ExtractFails`, then
`SaveSnapshot` and `CheckAsset`, which are outside the lock. Whether a
checkpoint is due by the heartbeat interval is a free choice. A PUT that returns
an error leaves the old object or the new one (`AfterFailedPut`).

Abstracted: an entry is its index, and indices stand for distinct paths; its
decompression and upload, with three attempts, is one outcome; a manifest line
is the index and the root prefix stripped from it; sizes, hashes and the byte
counter are left out; deletion of the asset wipes its prefix in one step, so
properties about the prefix are about assets that exist. `lost` in a checkpoint
and a manifest is a history field: the files whose line was only in the buffer
when a checkpoint that counts them was written.

`ExtractionOutcome` is the contract behind it: an extraction is open until its
outcome is decided, decided until what is published is that outcome, and closed
from then on; only a closed one is completed, and only a completed one may be
opened again; statuses of a run that starts or gives up come at any time. In the
worker the stored checkpoint is the record of it: "completing" is decided,
"reporting" closed, any other or none open; the outcome decided is the manifest
that the chunks and the errors of the "completing" checkpoint determine
(`DecidedManifest`), complete and with each file once. `OutcomeIsDecidedOnce`
says that the worker implements this: however often Finalize runs again after a
crash or a failed PUT, it publishes the same manifest. The outcomes allowed are
those that account for every file, as lost ones too (section 6).

### ExtractionJobs

State: `row` is the jobs table, `mirror` the status of the asset (`Own`) or
version row, `older` and `stale` order and age `updated_at`; `queue[j][a]`
counts messages whose next delivery is the a-th; `container` and `extracted`
are the container and what its checkpoint counts; `posts`, `touching`,
`requests` and `cron` are handlers at an await, with the rows they have read.

Actions are handlers cut at their awaits: a callback is `ReadPost`, `WritePost`;
the consumer `Launch`, `Touch`; a retry `AskRetry`, `Retry`; the cron
`CronStart`, `ReadStuck`, `Reconcile`, `CronList`, then for each listed job
`CronFail`/`CronGiveUp`, `CronSkip`, or `CronSend`/`CronSave`. `Die`, `LosePost`
and `CronDies` are failures, `Age` is time. The container is the process of
`ArchiveExtractor` reduced to the progress it reports.

A version's callback reads the asset too and writes both rows back
(`SaveMirrors`), so that it may put the asset's status back to what it was when
it was read: `Asset` says which job is the own job of a version's asset.

Abstracted: one counter for `fileCount` and `extractedSize`; at most one
progress and one terminal callback of a job in flight; the cron takes listed
jobs in any order; `Delete` and `CleanupExpired` are one step each, their own
check-then-act windows being left to the asset store. Bounds: `MaxMessages` (of a
job on the same delivery), `MaxHandlers` (of a job that hold a row, beside the
cron), `MaxFaults`, `MaxRequests`. History: `resends` counts the messages the
cron really sent; `parted` are the jobs that, since they were last written
together with their mirror, had a status written without it, or their asset's
status put back by a version's callback.


### SiteHosts

State: `hosts` is the table, `cache` the `host:{name}` entries, `live` the
assets, `handler` the requests in flight, one per slot, cut at their awaits:
`ClaimFind`, `ClaimRemove`, `ClaimCount`, `ClaimInsert`; `Find`, then `Switch`
or `Release`; `VerifyFind`, `VerifyLookup`, `Verify`; `ReleaseAsset`,
`DropEntry`s, `DeleteAsset`; `Purge`; `ResolveRead`, `ResolveCache`. A statement
with a WHERE clause is atomic and keeps its condition (`update` and `release`:
only while `released_at IS NULL`; `insert`: OR IGNORE; `remove`: no condition).

A row's `released` is "no", "cooling" for thirty days, then "served". `CoolDown`
may happen only when no request that read the row before its release is still
running: thirty days outlast every request and every cache entry. The columns
of a released row that no statement reads are cleared. A cached value "late" is
a resolution that outlived a change of its row. Left out: certificates and their
refresh, the previews flag (it is answered from the same row and entry), the
verify-attempt counter, validation of names; the await between a route's read of
the asset and its first read of the row, which changes nothing but the asset's
existence, already unknown from then on.

`overrun` records names whose row a claim removed although it was held: `remove`
deletes by hostname, so of two claims of a name whose cooldown is over the later
one may delete the row the earlier one has just inserted (`usecase.ts:126-130`,
while `usecase.ts:153` says that the winner owns the row). The properties except
those names.

### AssetStore

State: `asset`, `version`, `usage`, `pending` are the tables `assets`,
`asset_versions`, `storage_usage`, `cleanup_pending`; `objects` the object
store, where `<<a, None>>` is the asset's own file with all that is derived from
it and `<<a, v>>` the prefix of version v; `session` and `multipart` the upload
sessions; `active` says which jobs run. `slot` holds the requests in flight and
`cron` the tick.

Each request kind (upload, session, its completion, a version, PATCH, deletion
of a version or an asset, re-extraction, the container's callback) is `Request`
and then `Serve` from await to await, with what it read; the tick is `CronStart`,
then `Work` through the pending prefixes, the expired assets and what is left of
its budget. `OpenSession`, `ClientPut`, `SessionExpires`, `Lapse` are the client
and the clock; a statement or call that fails, and `Die`, spend `faults`.

Abstracted: every file has size 1; the status of a finished job is not kept, so
that a re-extraction is possible more often than in the code; a version's row is
its asset; jobs and their statuses are `ExtractionJobs`. History: `doomed` is what an asset had in the
store when it was first deleted, `born` and `gone` which assets ever had a row
and which were deleted, `ids` the identifiers given out, `calm` that requests
came one at a time and nothing failed.

### Authorization and Accounts

`Authorization` holds the tables (`workspaces`, `member`, `project`) and the
operators over them: who a request comes from (`Bearers`, `AuthMiddleware`,
`SessionMiddleware`, `Identify`), what `access.ts` and the policy decide, the
HTTP status each route answers, and the rows each list clause selects. Whether a
token verifies is an input; key sets and the expiry of sessions are not
modelled. Without an issuer everyone is a session. In `Accounts` a request is
authorised on arrival (`Request`) with the role it had then, and served await by
await; it may die anywhere. No two statements are in one transaction.

### AccessControl

State: `row` is the asset's access, hash and password version; `bucket` the
limiter's counters in the key-value store, read and written in two steps;
`memo` what isolates remember of verified hashes, as one union, which a request
may miss; `jar` the clients' cookies. `Owner` rotates, removes or restores the
password or deletes; `Redeploy` changes the signing secret, between requests
only. Requests come with a cookie, Basic or the form. Hashes and MACs are
perfect; the clock counts units in which the source's durations are constants.
The form's `next` path, cookie attributes and pages are left out. A deleted row
may be written back by a request that read it before; it then starts from
version 0, which `revived` records, and the first property stops there. History:
`told` is which client was let in with which password, `failed` the times of the
failures charged to an address, `seen` what the row demanded while a request ran.

### JobQueue and SqlJobQueue

`JobQueue` is what `core/queue/port.ts` promises: unsent, queued, held, ended;
deliveries counted; what a holder held when it died may be lost. `SqlJobQueue`
is `adapters/sql/queue.ts` under the ticks of `runtime/node/cron.ts`: `table`
is a set of rows with the order they are claimed in (`before`), a tick has its
`batch` (claimed rows are deleted), retries buffered in
`pending` until the tick flushes them, several ticks in one process sharing the
buffer. `ImplementsJobQueue` instantiates `JobQueue` with `place` and `delivered`
computed from these. The consumers are the acknowledgements and retries of
`core/extraction/handler.ts` and `core/thumbnail/handler.ts`. Cloudflare's own
queue is outside the repository.

### SiteRules, SiteRequests and FileDelivery

A path is a sequence of segments, a host of labels, a label of its parts between
`--`. `SiteRules` parses lines already split into fields and matches them;
`SiteRequests` classifies hosts, checks the deployment (`CheckSiteIsolation`, an
ASSUME because a deployment that fails it does not start), decides trusted
origins and validators.

`FileDelivery` follows one asset with versions. The owner uploads, activates and
deletes versions, protects, opens and deletes the asset; `ExtractEntry` adds an
archive's entries one by one, and `RejectEntry` takes one back. A visit (`Arrive`) is
resolved by asset ID, name or preview host (`Resolve`, `ResolveNamed`,
`ResolvePreview`), then `FindAsset`, `FindVersion`, `Admit`, `Look` and `Reply`
are steps of their own, between which anything may happen; its answer is one record:
status, file, part, location, caching, CORS and other headers. Of all that
caches keep, one answer with a file is watched, any of those given (`kept`),
for as long as its URL is visited. `named` is what a site's host resolves to,
one state for all hosts of the asset; how names come to resolve is `SiteHosts`.
Whether a credential is valid is `AccessControl`. History: `open` is whether the
asset was open at any time since the request came, `settled` whether the
extractions of the version and of the asset had ended when it found the version.
Left out: HEAD, dot segments, content types and wording, headers no property
speaks of.

### UploadClient

State: `credentials` and `sessionFile` are the two files; `age` and
`refreshable` what the provider thinks of tokens; `live`, `upload`, `part` and
`asset` the server's sessions, upload sessions, stored parts and assets; `cmd`
the command each process is at.

A command is cut at its requests: `DoUpload`, `Probe`, then `CreateUploadSession`,
`PutObject` or `PutPart`s in batches and `PartsDone`, `CompleteUploadSession`, or
`UploadDirect`, then `ApplySiteOption`. Before each request to the service
`CommonHeaders` reads the files and may refresh the token (`RefreshAccessToken`,
`SaveCredentials`), or makes up a session id; after it `Adopt` stores the id the
server gave. `Login`, `Logout`, `Age`, `SessionExpires` and `Interrupt` come from
outside.

Abstracted: the server answers and the client takes the answer in one step, the
inside of a handler being `AssetStore`; the effect of site options is in
`AssetStore` and `SiteHosts`; a part holds the k-th piece of the file, of its
gzip, or nothing; tokens age in the order they were issued; the browser's part of
a login. What the provider does is external and part of how a service is deployed
(`deployed.refresh`): it keeps refresh tokens; it retires each for a new one and
refuses the retired; or it also takes a retired one for theft and revokes the
login's tokens ("reuse detection", an option of the providers ADR-002 names), of
which the model lets it revoke any set. Left out: packing a directory, downloads, lists, the version commands.
Bounds: `MaxTokens`; `MaxFaults` covers failed calls, logouts, lost sessions and
interrupts. History: `opened` is for whom an upload was opened, `calm` that
commands ran alone and nothing ran out under them, `spoiled` that a refresh's
answer was lost.

## 3. Runs

`tlc -config <cfg> <module>`. All bounds are CONSTANTS.

| Run | Instance | What it shows |
|---|---|---|
| `extractor_zip` | 4 entries, one a directory, 2 goroutines, chunks of 2 lines, a checkpoint every 2 entries, 2 faults | the inductive invariant, resumable checkpoints, complete manifests, phases that only move forward, completion not redone; the worker implements `ExtractionOutcome` |
| `extractor_tar` | the sequential path, 3 faults | tar, which reads the archive instead of the list, is completed or fails |
| `extractor_files_lost` | 3 entries, 2 faults | a violation, see section 6 |
| `jobs` | an asset's job and the job of a version of it, one handler of each holding a row beside the cron, the cron's list one row long, two deliveries a message, a budget of one retry, one fault, one request; three starts | earned retries, job and mirror agree; every job settles and a lagging asset is healed |
| `sites` | a name and a custom domain, one asset of one project, quota 1, two requests at a time, one fault | the inductive invariant, cooldown, verification by the row's own proof, bounded quota overshoot, nothing served after a takedown |
| `assets_races` | a project's asset, one version, two requests beside the cron, one fault; no PATCH, no re-extraction | objects of a deleted asset stay queued until they are gone; a retried completion finds its object |
| `assets_faults` | all requests, one at a time beside the cron, one fault | they are reclaimed in the end; exact counters in sequence; expiry waits for extraction |
| `accounts` | 2 users, 1 workspace, 1 project, 1 session, 2 requests at a time | roles from above whatever interleaves and dies, lists equal to reads where the policy allows, and following them where it does not; owners and no leftovers in sequence |
| `access` | 1 asset, 2 clients, 2 passwords, 2 requests at a time, 3 writes of the row, 2 client requests, a clock to 2 | admission justified by a demand in force, a limiter that charges nobody for others, retired cookies |
| `queue` | 2 messages, 3 ticks in 2 processes, 3 attempts, batches of 2 | `SqlJobQueue` implements `JobQueue`; every message settles when nothing fails |
| `upload_client` | 2 processes, one uploading a file in 3 parts of which its gzip fills 2, streamed or held in memory, 2 at a time, one retry; 3 session ids, 3 tokens, providers that keep, rotate and revoke, one fault; four starts | what is completed is whole and its opener's; a process on its own is not refused; the refresh token on file is accepted |
| `delivery` | an archive, a version that is an archive, one that is a file, 2 writes of the owner, a list of visits of every kind | closed files are not seen, immutable answers stay true, ranges are exact, delivery outranks rules |

Why the bounds are enough. Four entries and two goroutines are the least with
which a later entry finishes first, a directory is stepped over, an automatic
flush and a checkpoint fall on different entries, and a resumed run has entries
on both sides of its mark; two faults give a crash after a failed call, and a
crash of the resumed run. For jobs, a handler holding a row beside the cron that
has listed it is the least with which two overwrite each other, and one of each
job the least with which a version's callback puts back what the asset's own has
written; two jobs and a list of one row are the least with which one job keeps
another from the cron. `MCSpec` begins in one of three places, so that no start
has to bear every bound: before the asset is uploaded, with the fault or the
request on the way; after the cron has given the job up, with both; and with both
jobs extracted but for the report, or the version deleted before it was extracted,
with nothing else going wrong. The states it begins in are states of `Spec`, the
version left out of the first two. Dropping either premise of `EventuallySettled`,
or the exception of `MirrorsAgree`, makes TLC find the violations of section 6.
Two callbacks, touches or retries of one job that overlap each other are within
the theorems only, and so are both properties at larger bounds; `EventuallySettled`
and `DriftIsHealed` have no theorem. For the other components two requests at a time are the
least that interleave, and each instance has one of everything they can contend
for: a name and a domain, a session and a version, a last owner and another,
an old and a new password, two messages in one batch and a third tick. The
owner's two writes in `delivery` are the least that close what was open and
change what is active. In `upload_client` three parts, two at a time, give a second
batch, a part that is tried again and one the gzip leaves empty; three tokens are
the least with two answered refreshes. `MCSpec` begins in one of four reachable
states that share the bounds out: logged in with two refreshes to come and the
fault spent; a login that ran out, with uploads and a fault; uploads with a refresh
on the way; a refresh with a fault. The third session id is the one that a server
gives for an id it does not know, beside those of two processes. The visits are listed in `MCFileDelivery`, at least one
for each branch of resolution, lookup and answer. Symmetry is used where
permuting the values leaves every other constant as it is, and in no run with
liveness. The proofs of section 5 do not depend on these bounds.

Deadlock is checked for `ArchiveExtractor` (`Terminated` marks the only states
where nothing is left to do), `SiteHosts`, `AssetStore` and `SqlJobQueue`. It is
off where the system really rests once its bounds are spent or nobody asks for
anything: `ExtractionJobs`, `Accounts`, `AccessControl`, `FileDelivery`,
`UploadClient`.

## 4. Fairness and liveness

`ArchiveExtractor`: weak fairness of `StartRun` (the cron re-enqueues a job of a
live asset that is not completed), of the main goroutine, and of each entry's
goroutine (the Go scheduler). Faults are finite and never forced.

`ExtractionJobs`: weak fairness of the consumer (the queue delivers), of each
started handler (a request runs to its end or dies by a fault), of the
container's work, of time passing, and of the cron (it is scheduled). Nothing
forces a user, a fault or a progress report.

`EventuallySettled` has two premises, both false in behaviours of the code. One
is that from some point on handlers write back rows nobody changed since they
were read (`UpdatesInTurn`): without it there is a behaviour in which every
re-enqueue of the cron is undone for ever by a consumer that writes back an older
row; each round needs a new overlap. The other is that from some point on the jobs
without an archive are fewer than a tick takes (`~Clogged`): the cron passes over
these and writes nothing, so that they keep the head of its list, and a job behind
them is never re-enqueued (`cleanup/handler.ts:148-149`). TLC finds a
counterexample when either is left out. `DriftIsHealed` needs neither.

`AssetStore` (`FairSpec`): weak fairness of the cron's start and of its work, and
of each request that runs. Requests, clients and faults are not forced; faults
are finite, so a wipe that fails is tried again by a later tick.

`SqlJobQueue`: weak fairness of time, of the start of every tick and of its
steps. Nothing forces a producer or a failure. `EveryMessageSettles` is about
behaviours without a failure: a dead process loses the messages it had claimed,
which is all the promise of `JobQueue` allows and what the cleanup cron repairs.

## 5. Proofs

Checked by TLAPS for every value of the constants that satisfies the ASSUMEs.
These say that bounds, tunings and limits are natural numbers (positive where the
code divides or waits by them), that tables of constants have the domain they are
used with, that `None` and the other words are not also identifiers, and, where
the code needs it:

- `ArchiveExtractor`: `Sequential` implies one goroutine;
- `SiteHosts`: a project for every asset, and a finite set of slots that is not
  empty (the quota's overshoot counts them);
- `Accounts`: the roles a request may name are roles, the verdicts it may be given
  are the policy's;
- `UploadClient`: the gzip of a file has no more parts than the file, and tokens and
  session ids are different things;
- `SiteRequests`: the deployment passes `checkSiteIsolation`, without which it does
  not start, and no credentialed origin is a pattern;
- `FileDelivery`: `cache-control` is among the headers rules may not set
  (`rules.ts`), a host with a site label is a host of a site, and the sizes of
  files and the ends of ranges are natural numbers.

Each component has an inductive invariant, because no property is inductive as it
stands: what a handler read before an await is used after it, so the invariant
has to say what the reads of every handler in flight still mean. Those of the
worker and of site names are also invariants of their runs.

`ArchiveExtractorProofs`: `IInv` (module `ArchiveExtractorInv`) is inductive.
The properties alone are not: that a stored checkpoint can be resumed depends on
what the snapshots still to be saved say, those on what the chunks, the buffer
and the error list held when they were taken (`PhaseBInv`), and the completeness
of the manifest on the low-water mark never passing an unsettled entry. The
argument has one lemma per action; the chunk lemmas say that writing chunk k
keeps every earlier chunk. From it follow `TypeCorrect`, `Resumption`,
`NothingSilentlyMissing`, `UniqueLines`, `ChunksForFinalize`, `Publication`, and
the action properties `PhasesMoveForward` and `NotRedone`.

`ImplementsContract` is the refinement of `ExtractionOutcome`, a lemma for each
kind of step (`DecideStep`, `PublishStep`, `CloseStep`, `CompleteStep`,
`DeleteStep`, and `QuietStep` for all that shows in the status only). Two facts
carry it. While an extraction is decided nobody writes a chunk, because whoever
writes one (`ChunkWriters`) is a goroutine or the last flush, and with those at
work the stored checkpoint is of an earlier phase. And a run that finalizes works
on the checkpoint that is stored (`OutcomeInv`, the part of `IInv` added for
this), so that two runs that publish publish the same.

`ExtractionJobsProofs`: `JobsInv` adds to the rows the snapshots that handlers
hold: every retry count in a snapshot is as earned as in a row, because
`resends` only grows, and none that goes back with its old status is of a
completed job. From it: `TypeCorrect`, `RetriesAreEarned`, `MirrorsMoveWithJobs`. The
last speaks of jobs that are not `parted`; that a version's callback may leave its
asset's own job so is what the code does (section 6).

`SiteHostsProofs`: `HostsInv` adds to the properties what a request keeps across
its awaits. A verification that has found its token still looks at the row it
read, or at that row in its cooldown (`VerificationsInv`): a later row of the
name cannot come while it runs, since released rows are held. A resolution about
to be cached is late or true (`CacheInv`), and the tokens set aside by claims in
flight fit the bound (`TokensInv`). Two lemmas carry the cases: `ReadStep` for
requests that only go on, `TableStep` for those that write rows; the second asks
that whoever holds a name keeps it (`Keeps`), which also proves `CooldownHeldHolds`.
From the invariant: `TypeCorrect`, `VerifiedByOwnProofHolds`, `NothingServedHolds`.
`QuotaOvershootHolds` needs one more (`QuotaInv`): a project's active names and its
claims that are past their count are together at most `Quota` plus one less than
the number of slots. A claim that passes the count sees fewer than `Quota` active
names, and the other claims that are past theirs are in other slots.

`AssetStoreProofs`: `StoreInv`. Identifiers are fresh until given out
(`KnownInv`), the object of a version is put by the one request that made its
identifier (`FreshInv`), the prefix of a whole asset is queued or wiped only if
the asset was deleted (`GoneInv`), a multipart upload that is not completed has
no object (`SessionInv`), and a wipe whose prefix is about to leave the queue has
left nothing doomed below it (`WipedInv`); with these `DoomedStaysQueued` and
`RetrySucceeds` hold under any interleaving and any faults. For calm histories,
one request or the tick runs at a time (`AloneInv`), every row has its file
(`FilesInv`) and the counter is what is stored plus the version being deleted
(`UsageInv`), which gives `ArchiveKept` and `UsageExact`.

`AccountsProofs`: `TypeInv` has in it that a request that changes members carries
a role its sender may give, from arrival to write; this alone gives
`RolesAreGivenFromAbove`, whatever interleaves and dies. `CalmInv` says that
members and projects have their workspace, a workspace that is neither made nor
taken apart has an owner (`Led`), and what a request has found is still so
(`Holds`), from which `OwnersRemain` and `NothingIsLeftBehind`.
`ListsAndReadsAgree` and `StrangersLearnNothing` are about the two descriptions of
access and hold in any state of the right type. The first compares the lists with
the reads under the verdict of the roles, and says for every verdict that a
project's list follows its reads and the unscoped lists miss none: a policy that
denies one project does not hide its rows (`README.md:340, 362`).

`AccessControlProofs`: `AccessInv`. A request has seen what the row demands at each
of its steps, and the hash it checks is one it has seen (`SlotsInv`); a password
version stands for one password, wherever it is written: in the row, an isolate's
memory, a request (`VersionsAgree`); a cookie was earned with the password of its
version (`CookiesEarned`); what a counter holds was failed in its window, also
when the counter is a copy in a request (`CountersInv`). From it
`AdmissionHolds`, `LimiterHolds`, `RetiredStayRetired`.

`QueueAndClientProofs`, the queue: `QueueInv` says that a message is in one row, one
batch or one buffer at most and nowhere once it is settled (`PlacesInv`), and that its
attempts are its deliveries (`CopiesInv`). `ImplementsQueue` then takes every step of
the table and the ticks to a step of `JobQueue` or to a stutter. `JobQueue` is without
fairness, so this is the whole refinement.

The client: `ClientInv`, for any number of processes over one directory, any number of
parts, batches, retries, tokens and failures, has four parts. `ClientTypeOK` holds the
types, and for each phase of a command what its record has by then. `UploadsInv`: an
upload session belongs to one command, the parts that command has an etag of are stored
as they were cut, and at completion it has them all (`StoringOK`); an asset is whole and
its opener's (`AssetOK`). From it `FinishedUploads` and `AssetsStay`, for processes that
interleave in any way. `LoneInv`: while commands run one at a time and nothing runs out
under them, the server takes each request of a command for what it took the first for
(`Recognised`), which gives `LoneUploads`. `RefreshInv`: a provider that never rotates
keeps what it gave out (`KeepsInv`); with one that always does, the token of an answer
that is not written yet is accepted and nobody else has it, so that once it is written
the file is right (`RotatesInv`). With a provider that revokes a login for a retired
token this is for commands that ran alone (`Promised`): such a command presents the
token on file (`PresentsInv`), which is accepted, so that the provider has nothing to
revoke (`LonePresents`). From these `RefreshTokens`.

`FileDeliveryProofs`: `DeliveryInv` follows a request from what it read to its
answer and into the cache: a request let in without a proof ran while the asset
was open (`Entered`), the ID it looks for is the one its URL names (`Routed`), what
a request for a version itself has read will be read again (`Vowed`), and a file
answered as immutable is promised (`Promise`): its URL names the version, all
extractions into the two prefixes have ended, and as long as the version is there
so is the object, and no forced rule takes the path elsewhere. The other half of
the argument is that no write of the owner breaks a promise, which needs that
version numbers are distinct and an upload's rules and files are written only
while it is being extracted (`StoreInv`). From it `ClosedFilesStayClosed`,
`DeliveryOutranks`, `ImmutableAnswersStand`.

`PartsAreExact` (every answer 206 sends the bytes its headers name, and these are the
ones asked for) needs `ObjectsInv`, that only uploads, entries and thumbnails are
stored, and a fact about a loop: `SliceStream` skips and sends chunk by chunk.
`Slicing` is that loop as a recursive function over the chunks. `SlicingExact` shows
by the least chunk at which it would fail that after every chunk of any stream what
is sent is the run of bytes from the offset on, as far as it is wanted
(`SliceChunkExact` is one turn of the loop). `SlicedPartExact` and `StoredPartExact`
compare that with the headers, for every size, range and cutting into chunks.

Only model-checked: the liveness properties (`EventuallyCompleted`,
`EventuallySettled`, `DriftIsHealed`, `DoomedIsReclaimed`, `EveryMessageSettles`), which
are out of the prover's reach under fairness. Every invariant and every action property
of a passing run, and both refinements, are stated by a theorem.

## 6. Where the code and its documentation disagree

`extractor_files_lost` is a run TLC finds violated: a failed flush at a
checkpoint is logged, the checkpoint is saved all the same, and a crash then
loses the buffered files from the manifest (`worker.go:313-330`).

Seen while modelling, without a run of their own; the properties leave these
cases out, each where its comment says so.

Extraction. A crash between the entry list's upload and the first checkpoint
makes the next run skip the listing and keep the root folder
(`worker.go:133-137`, `README.md:227`). `fileCount` may exceed the total after a
resume (`worker.go:292`), a completed job may list as failed a file that a
resumed run did extract (`worker.go:494`, ADR-010:70-73), and chunks and the
entry list may stay behind after completion (`worker.go:485-487`, ADR-001:121).
Jobs whose archive is gone keep the head of the cron's list, and when they fill it
they keep all others from the cron (`cleanup/handler.ts:148-149`); a given-up job made active again is outside
`listRetriable` (`stores.ts:275`); a row read before completion and written
after it makes the job active again; a mirror left at "failed", or a version's,
is never healed (`stores.ts:297-298`). A version's callback writes its asset's
whole row back with the status it read three awaits before (`job/handler.ts:191,
227`): a completed asset may say "extracting" again, which the cron heals, or
"failed", or a failed one "ready", which nothing does; ADR-012, section 3, has job
and mirror move together.

Site names. A claim between the release of an asset's names and the deletion of
its row leaves the name with an asset that is gone (`delete.ts:32`). Of two
claims of a freed name the later may delete the row the earlier has inserted
(section 2). A claim that removes a served row and then fails on the quota
leaves a cached "gone" behind (`usecase.ts:129-134`).

Assets. The single-PUT branch of `createUploadSession` does not store
`skipExtraction`, and the route does not pass it on, although the client sends it
(`upload.ts:54`, handler `create-upload-session.ts:56-61`). `createVersion` adds 1 to `asset_count`, `deleteAsset` takes
only 1 back for the asset and all its versions; two concurrent deletions of a
version both decrement; two completions of one session count twice; an expired
project asset is removed without decrementing (ADR-003:31, 430). Version numbers
are reused after the highest version is deleted (ADR-013:85, 446). An upload's
compensation deletes the object even if its batch committed; an upload of a
version may leave a row without an asset; INSERT OR REPLACE of a row read before
the asset's deletion brings it back, without its password. The tail of a cleanup
tick is charged without a check of the budget, which it overshoots by 6 at most.

Accounts. Concurrent demotions or removals can leave no owner; a change of role
brings a member removed meanwhile back; concurrent additions overwrite each
other; a deletion of a workspace that is interrupted leaves it without members;
a project can be created in a workspace being deleted; member lists stop at 200
rows, and so does the removal of members that uses them.

Access. A delayed write of the failure counter can undo later counts
(`ratelimit.ts:12-16`), so that only "never overcharges", and the limit for
requests one at a time, are checked.

Queues. The claim deletes the rows, so a failed flush or a dead process loses
what it held (`adapters/sql/queue.ts`); extraction is brought back by the cron,
a thumbnail is not.

Delivery. Thumbnails under an asset's ID are immutable for a year although they
follow the active version (`handler.ts:652`). `handler.ts:383` says that the bytes
of a pinned URL can never change: that holds for a version's own files once
extraction has ended, not for the fallbacks to the asset's prefix, nor for a
`v{n}` host when the number is reused. A version without rules of its own gets
the asset's (`hosting.ts:157-160`); the Cloudflare launcher passes only the
asset's ID (`hosting.ts:41-44`). Control files are withheld on the requested path
only (`handler.ts:407`). A 200 rewrite onto a directory without a slash and the
directory redirect append "/" for ever (`handler.ts:446-447`, `461-464`). The R2
adapter reports the requested, not the returned length of open-ended ranges
(`adapters/cloudflare/storage.ts:34-40`). Entries of an archive have no original
size, so that a range of one stored compressed has neither Content-Range nor
Content-Length; a range past the end of such a file is not a satisfiable one
(`stream.ts:23-32`), and `RangesAreExact` is about those that are. A directory's
301 and a JSON 404 carry no Cache-Control even on protected assets
(`site-routing.ts:59-61`).

Client. Logging out empties `credentials.json` instead of removing it, and every
command that reads it afterwards fails in `JSON.parse` (`config.ts:43-59`).
`helpers.ts:124` refreshes a token that is "expired or about to expire", but an
expired one is loaded as none at all: only the last minute is refreshed, and after
it the client goes on as an anonymous session without a word. Compressible files
of more than 1 GiB are put as they are under the label gzip
(`upload.ts:131-133`, `create-upload-session.ts:34-39`), which
`FinishedUploadIsWhole` excepts. The parts of a multipart file are cut for its
size before gzip, so that the last ones may be empty. An upload opened in a
session and completed after a login belongs to neither the session nor a project.
A refresh that ends after a logout restores the login. A provider that rotates
refresh tokens at some refreshes only may leave an old one on file: of two processes
that refresh at once the one that got no new token writes the old one back
(`auth.ts:152`), and `RefreshTokenIsUsable` is about providers that always or never
rotate. With a provider that takes a retired refresh token for theft, two processes
that refresh at once, or one that refreshes beside a login, can lose the login:
nothing keeps the processes apart (`auth.ts:123-160`). Of two processes that both
make the first `session.json`, the earlier one's completion is refused.

## 7. Plan

Done: every module of section 2, modelled and checked, and every component with a
state proved. Next, in order:

1. Key sets and session expiry; HEAD.
2. A contract of the asset store beside its users (an object is there as long as its
   row is), which `AssetStore` would implement under the exceptions of section 6.
3. Liveness proofs, once the prover supports fairness.

Not modelled, and why: the web interface (rendering), the client's downloads, zip
packing and version commands (I/O over routes that are modelled on the server's
side), runtimes and provider adapters (wiring and I/O to external services),
key-value stores except where another component depends on what they do, the
conversion of thumbnails (external). Of modelled components: certificates,
previews and name validation of sites; pagination, cursors and texts; the answers
405 of an external directory and the wording of 403; that redirect targets stay on
the site, which no property states.
