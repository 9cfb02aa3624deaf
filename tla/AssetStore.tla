------------------------------ MODULE AssetStore ------------------------------
(***************************************************************************)
(* The store of assets and versions: its rows, the usage counters beside   *)
(* them, the objects under each asset's prefix, upload sessions, and the   *)
(* requests and the cron that work on all of these at once                 *)
(* (core/asset/usecase, core/cleanup/usecase.ts, adapters/sql).            *)
(*                                                                         *)
(* A request is cut at its awaits: `slot` holds the requests in flight, each *)
(* with what it has read.  An object is <<a, None>>, the asset's own file  *)
(* with all that is derived from it, or <<a, v>>, the prefix of version v. *)
(* Every file has size 1.  Jobs are in ExtractionJobs; here a job is       *)
(* active or not.                                                          *)
(***************************************************************************)
EXTENDS Integers, FiniteSets, FiniteSetsExt

CONSTANTS
  Assets, Versions,   \* ids, each used once
  Owned,              \* the assets uploaded to the project; the others are demo assets
  Slots, Kinds,       \* requests in flight; the kinds of request that are made
  MaxFaults,          \* calls that fail, and isolates that die
  None

AssetRows == [expires : {"never", "later", "past"}, current : Versions \cup {None}]

ASSUME AssetStoreAssumption ==
  /\ Owned \subseteq Assets /\ MaxFaults \in Nat
  /\ None \notin Assets \cup Versions /\ None \notin AssetRows /\ None \notin {"single", "multi"}

VARIABLES
  asset, version,     \* the tables `assets` and `asset_versions` (the asset of each version)
  usage,              \* the project's row of `storage_usage`
  pending,            \* `cleanup_pending`: prefixes to wipe, <<a, None>> or <<a, v>>
  objects,            \* the object store
  session, multipart, \* upload sessions; multipart uploads not completed yet
  active,             \* pending or running jobs, named by the object they extract
  slot, cron,         \* requests in flight; the tick
  ids, born,          \* ids handed out; assets that have had a row
  gone, doomed,       \* history: assets deleted, and their objects when that was first done
  calm,               \* history: requests came one at a time and nothing failed
  faults

rows    == <<asset, born, version, usage, pending>>
store   == <<objects, session, multipart>>
history == <<ids, gone, doomed>>
vars    == <<rows, store, active, slot, cron, history, calm, faults>>

Keys == Assets \X (Versions \cup {None})
Under(p) == IF p[2] = None THEN {p[1]} \X (Versions \cup {None}) ELSE {p}
Of(a) == {v \in Versions : version[v] = a}
Stored == Cardinality({a \in Owned : asset[a] # None})
          + Cardinality({v \in Versions : version[v] \in Owned})

Idle == [op |-> "idle", at |-> "idle", key |-> <<None, None>>, row |-> None]
Cron == [at |-> "idle", todo |-> {}, now |-> None]

Init ==
  /\ asset = [a \in Assets |-> None] /\ version = [v \in Versions |-> None]
  /\ usage = [size |-> 0, count |-> 0] /\ pending = {}
  /\ objects = {} /\ session = [a \in Assets |-> None] /\ multipart = {}
  /\ active = {} /\ slot = [s \in Slots |-> Idle] /\ cron = Cron
  /\ ids = {} /\ born = {} /\ gone = {} /\ doomed = {} /\ calm = TRUE /\ faults = 0

-------------------------------------------------------------------------------
(* Requests.                                                               *)

Quiet == \A s \in Slots : slot[s] = Idle
Fault == faults < MaxFaults /\ faults' = faults + 1 /\ calm' = FALSE
Same  == UNCHANGED <<calm, faults>>

\* A request of kind op starts on key k; it is not calm to start beside another.
Start(s, op, at, k, row) ==
  /\ slot[s] = Idle /\ op \in Kinds
  /\ slot' = [slot EXCEPT ![s] = [op |-> op, at |-> at, key |-> k, row |-> row]]
  /\ calm' = (calm /\ Quiet /\ cron = Cron) /\ UNCHANGED <<faults, cron>>

At(s, op, at) == slot[s].op = op /\ slot[s].at = at
GoTo(s, at)   == slot' = [slot EXCEPT ![s].at = at] /\ UNCHANGED cron
Return(s)     == slot' = [slot EXCEPT ![s] = Idle] /\ UNCHANGED cron
Asset(s)      == slot[s].key[1]

\* storage_usage: both counters move by one statement, never below zero.
Counted(n)        == [size |-> usage.size + n, count |-> usage.count + 1]
MutantDiscounted(n) == [size |-> usage.size - n, count |-> usage.count - 1]
Discounted(n)     == [size |-> Max({0, usage.size - n}), count |-> Max({0, usage.count - 1})]
CountIf(a, u)     == usage' = IF a \in Owned THEN u ELSE usage

\* deleteAllR2Objects: everything under p, or less when the budget runs out. An
\* object stands for a whole tree, so that what is kept may be all of them; each
\* pass shrinks the trees, so running out is bounded like a fault.
WipeDone(p)    == objects' = objects \ Under(p) /\ Same
WipePartial(p) == /\ Fault
                  /\ \E kept \in SUBSET (objects \cap Under(p)) : objects' = (objects \ Under(p)) \cup kept

-------------------------------------------------------------------------------
(* Direct upload (upload.ts): the object, then rows and counters in a      *)
(* batch; a failed batch takes the object back.                            *)

Lifetime(a) == IF a \in Owned THEN "never" ELSE "later"

\* Job row, asset row and usage in one batch; the archive may have a job.
CreateAsset(a) ==
  /\ asset' = [asset EXCEPT ![a] = [expires |-> Lifetime(a), current |-> None]]
  /\ born' = born \cup {a} /\ CountIf(a, Counted(1))
  /\ active' \in {active, active \cup {<<a, None>>}}
  /\ UNCHANGED <<version, pending>>

Upload(s, a) ==
  /\ a \notin ids
  /\ Start(s, "upload", "commit", <<a, None>>, None)
  /\ objects' = objects \cup {<<a, None>>} /\ ids' = ids \cup {a}
  /\ UNCHANGED <<rows, session, multipart, active, gone, doomed>>

UploadCommit(s) ==
  /\ At(s, "upload", "commit")
  /\ \/ CreateAsset(Asset(s)) /\ Return(s) /\ Same
     \/ Fault /\ GoTo(s, "undo") /\ (CreateAsset(Asset(s)) \/ UNCHANGED <<rows, active>>)
  /\ UNCHANGED <<store, history>>

\* Both kinds of upload compensate; a failed deletion is only logged.
Undo(s) ==
  /\ slot[s].op \in {"upload", "version"} /\ slot[s].at = "undo"
  /\ \/ objects' = objects \ {slot[s].key} /\ Same
     \/ Fault /\ UNCHANGED objects
  /\ Return(s)
  /\ UNCHANGED <<rows, session, multipart, active, history>>

-------------------------------------------------------------------------------
(* Upload sessions (create-upload-session.ts, complete-upload-session.ts). *)

OpenSession(a, multi) ==
  /\ a \notin ids /\ "complete" \in Kinds
  /\ session' = [session EXCEPT ![a] = IF multi THEN "multi" ELSE "single"] /\ ids' = ids \cup {a}
  /\ multipart' = IF multi THEN multipart \cup {a} ELSE multipart
  /\ UNCHANGED <<rows, objects, active, slot, cron, gone, doomed, calm, faults>>

\* The client uploads to the presigned URL, possibly again.
ClientPut(a) ==
  /\ session[a] = "single"
  /\ objects' = objects \cup {<<a, None>>} /\ doomed' = doomed \ {<<a, None>>}
  /\ UNCHANGED <<rows, session, multipart, active, slot, cron, ids, gone, calm, faults>>

SessionExpires(a) ==
  /\ session[a] # None
  /\ session' = [session EXCEPT ![a] = None]
  /\ UNCHANGED <<rows, objects, multipart, active, slot, cron, history, calm, faults>>

Complete(s, a) ==
  /\ session[a] # None
  /\ Start(s, "complete", "existing", <<a, None>>, None)
  /\ UNCHANGED <<rows, store, active, history>>

CompleteExisting(s) ==
  /\ At(s, "complete", "existing")
  /\ GoTo(s, IF asset[Asset(s)] = None THEN "head" ELSE "drop")
  /\ UNCHANGED <<rows, store, active, history>> /\ Same

\* The object is there, or the multipart upload is completed now; else 404.
CompleteHead(s) ==
  /\ At(s, "complete", "head")
  /\ IF slot[s].key \in objects THEN GoTo(s, "commit") /\ UNCHANGED <<objects, multipart>>
     ELSE IF Asset(s) \in multipart
     THEN /\ objects' = objects \cup {slot[s].key} /\ multipart' = multipart \ {Asset(s)}
          /\ GoTo(s, "commit")
     ELSE Return(s) /\ UNCHANGED <<objects, multipart>>
  /\ UNCHANGED <<rows, session, active, history>> /\ Same

\* On failure object and session are kept for the client's retry.
MutantCompleteCommit(s) ==
  /\ At(s, "complete", "commit")
  /\ \/ CreateAsset(Asset(s)) /\ GoTo(s, "drop") /\ Same /\ UNCHANGED objects
     \/ /\ Fault /\ Return(s) /\ objects' = objects \ {slot[s].key}
        /\ (CreateAsset(Asset(s)) \/ UNCHANGED <<rows, active>>)
  /\ UNCHANGED <<session, multipart, history>>

CompleteCommit(s) ==
  /\ At(s, "complete", "commit")
  /\ \/ CreateAsset(Asset(s)) /\ GoTo(s, "drop") /\ Same
     \/ Fault /\ Return(s) /\ (CreateAsset(Asset(s)) \/ UNCHANGED <<rows, active>>)
  /\ UNCHANGED <<store, history>>

CompleteDrop(s) ==
  /\ At(s, "complete", "drop")
  /\ session' = [session EXCEPT ![Asset(s)] = None]
  /\ Return(s)
  /\ UNCHANGED <<rows, objects, multipart, active, history>> /\ Same

-------------------------------------------------------------------------------
(* Versions (upload-version.ts, delete-version.ts).                        *)

\* The row and its counters in a batch; the number the INSERT gives it is left out.
CreateVersion(k) ==
  /\ version' = [version EXCEPT ![k[2]] = k[1]]
  /\ CountIf(k[1], Counted(1))
  /\ active' \in {active, active \cup {k}}
  /\ UNCHANGED <<asset, born, pending>>

UploadVersion(s, a, v) ==
  /\ asset[a] # None /\ v \notin ids
  /\ Start(s, "version", "put", <<a, v>>, None)
  /\ ids' = ids \cup {v}
  /\ UNCHANGED <<rows, store, active, gone, doomed>>

PutVersion(s) ==
  /\ At(s, "version", "put")
  /\ objects' = objects \cup {slot[s].key}
  /\ GoTo(s, "commit") /\ Same
  /\ UNCHANGED <<rows, session, multipart, active, history>>

VersionCommit(s) ==
  /\ At(s, "version", "commit")
  /\ \/ CreateVersion(slot[s].key) /\ Return(s) /\ Same
     \/ /\ Fault /\ GoTo(s, "undo")
        /\ (CreateVersion(slot[s].key) \/ UNCHANGED <<rows, active>>)
  /\ UNCHANGED <<store, ids, gone, doomed>>

DeleteVersion(s, v) ==
  /\ version[v] # None
  /\ Start(s, "unversion", "delete", <<version[v], v>>, None)
  /\ UNCHANGED <<rows, store, active, history>>

DeleteVersionRow(s) ==
  /\ At(s, "unversion", "delete")
  /\ version' = [version EXCEPT ![slot[s].key[2]] = None]
  /\ GoTo(s, "read") /\ Same
  /\ UNCHANGED <<asset, born, usage, pending, store, active, history>>

\* A deleted active version is reset to "the latest".
ReadActive(s) ==
  /\ At(s, "unversion", "read")
  /\ LET row == asset[Asset(s)]
     IN GoTo(s, IF row # None /\ row.current = slot[s].key[2] THEN "reset" ELSE "wipe")
  /\ UNCHANGED <<rows, store, active, history>> /\ Same

\* UPDATE assets SET ... WHERE id: nothing happens to a row that is gone.
Patch(a, f, x) ==
  asset' = IF asset[a] = None THEN asset ELSE [asset EXCEPT ![a][f] = x]

ResetActive(s) ==
  /\ At(s, "unversion", "reset")
  /\ Patch(Asset(s), "current", None)
  /\ GoTo(s, "wipe") /\ Same
  /\ UNCHANGED <<born, version, usage, pending, store, active, history>>

WipeVersion(s) ==
  /\ At(s, "unversion", "wipe")
  /\ \/ WipeDone(slot[s].key) /\ GoTo(s, "count")
     \/ WipePartial(slot[s].key) /\ GoTo(s, "queue")
  /\ UNCHANGED <<rows, session, multipart, active, history>>

QueueVersion(s) ==
  /\ At(s, "unversion", "queue")
  /\ pending' = pending \cup {slot[s].key}
  /\ GoTo(s, "count") /\ Same
  /\ UNCHANGED <<asset, born, version, usage, store, active, history>>

MutantCountVersion(s) ==
  /\ At(s, "unversion", "count")
  /\ Return(s) /\ Same
  /\ UNCHANGED <<rows, store, active, history>>

CountVersion(s) ==
  /\ At(s, "unversion", "count")
  /\ CountIf(Asset(s), Discounted(1))
  /\ Return(s) /\ Same
  /\ UNCHANGED <<asset, born, version, pending, store, active, history>>

-------------------------------------------------------------------------------
(* PATCH (update-asset.ts): the asset, then the version it names, then one *)
(* UPDATE.                                                                 *)

Fields == {<<"current", x>> : x \in Versions \cup {None}}
          \cup {<<"expires", x>> : x \in {"never", "later", "past"}}

UpdateAsset(s, a, f) ==
  /\ asset[a] # None
  /\ Start(s, "patch", IF f[1] = "current" /\ f[2] # None THEN "check" ELSE "update", <<a, None>>, f)
  /\ UNCHANGED <<rows, store, active, history>>

CheckVersion(s) ==
  /\ At(s, "patch", "check")
  /\ IF slot[s].row[2] \in Of(Asset(s)) THEN GoTo(s, "update") ELSE Return(s)
  /\ UNCHANGED <<rows, store, active, history>> /\ Same

UpdateRow(s) ==
  /\ At(s, "patch", "update")
  /\ Patch(Asset(s), slot[s].row[1], slot[s].row[2])
  /\ Return(s) /\ Same
  /\ UNCHANGED <<born, version, usage, pending, store, active, history>>

-------------------------------------------------------------------------------
(* Deletion (delete.ts): rows, counters and the pending prefix in a batch, *)
(* then the objects inline as far as the budget goes.                      *)

DeleteAsset(s, a) ==
  /\ asset[a] # None
  /\ Start(s, "delete", "commit", <<a, None>>, None)
  /\ UNCHANGED <<rows, store, active, history>>

\* The decrement's subquery runs before the rows go and only while the asset is there.
RemoveRows(a) ==
  /\ IF asset[a] = None THEN UNCHANGED usage ELSE CountIf(a, Discounted(1 + Cardinality(Of(a))))
  /\ version' = [v \in Versions |-> IF v \in Of(a) THEN None ELSE version[v]]
  /\ asset' = [asset EXCEPT ![a] = None] /\ UNCHANGED born

MutantDeleteRows(s) ==
  /\ At(s, "delete", "commit")
  /\ RemoveRows(Asset(s))
  /\ gone' = gone \cup {Asset(s)}
  /\ doomed' = IF Asset(s) \in gone THEN doomed ELSE doomed \cup (objects \cap Under(slot[s].key))
  /\ GoTo(s, "wipe") /\ Same
  /\ UNCHANGED <<pending, store, active, ids>>

DeleteRows(s) ==
  /\ At(s, "delete", "commit")
  /\ RemoveRows(Asset(s))
  /\ pending' = pending \cup {slot[s].key}
  /\ gone' = gone \cup {Asset(s)}
  /\ doomed' = IF Asset(s) \in gone THEN doomed ELSE doomed \cup (objects \cap Under(slot[s].key))
  /\ GoTo(s, "wipe") /\ Same
  /\ UNCHANGED <<store, active, ids>>

MutantWipeAsset(s) ==
  /\ At(s, "delete", "wipe")
  /\ (WipeDone(slot[s].key) \/ WipePartial(slot[s].key)) /\ GoTo(s, "unqueue")
  /\ UNCHANGED <<rows, session, multipart, active, history>>

WipeAsset(s) ==
  /\ At(s, "delete", "wipe")
  /\ \/ WipeDone(slot[s].key) /\ GoTo(s, "unqueue")
     \/ WipePartial(slot[s].key) /\ Return(s)
     \/ Fault /\ Return(s) /\ UNCHANGED objects
  /\ UNCHANGED <<rows, session, multipart, active, history>>

Unqueue(s) ==
  /\ At(s, "delete", "unqueue")
  /\ pending' = pending \ {slot[s].key}
  /\ Return(s) /\ Same
  /\ UNCHANGED <<asset, born, version, usage, store, active, history>>

-------------------------------------------------------------------------------
(* Writers of the whole row: the callback of a job (job/handler.ts) and    *)
(* re-extraction (extract.ts) write back the row they have read, and       *)
(* INSERT OR REPLACE brings a row back that is gone.                       *)

Report(s, k) ==
  /\ k \in active
  /\ Start(s, "report", "save", k, asset[k[1]])
  /\ UNCHANGED <<rows, store, active, history>>

Extract(s, a) ==
  /\ asset[a] # None /\ <<a, None>> \notin active
  /\ Start(s, "extract", "save", <<a, None>>, asset[a])
  /\ UNCHANGED <<rows, store, active, history>>

\* Progress and completion, but not failure, push the expiry of a demo asset.
Extended(row) == IF row.expires = "never" THEN row ELSE [row EXCEPT !.expires = "later"]

SaveReport(s) ==
  /\ At(s, "report", "save")
  /\ IF slot[s].row = None THEN UNCHANGED asset
     ELSE \E row \in {slot[s].row, Extended(slot[s].row)} :
            asset' = [asset EXCEPT ![Asset(s)] = row]
  /\ active' \in {active, active \ {slot[s].key}}
  /\ Return(s) /\ Same
  /\ UNCHANGED <<born, version, usage, pending, store, history>>

SaveExtract(s) ==
  /\ At(s, "extract", "save")
  /\ asset' = [asset EXCEPT ![Asset(s)] = slot[s].row]
  /\ active' = active \cup {slot[s].key}
  /\ Return(s) /\ Same
  /\ UNCHANGED <<born, version, usage, pending, store, history>>

\* The isolate that serves a request dies.
Die(s) ==
  /\ slot[s] # Idle /\ Fault /\ Return(s)
  /\ UNCHANGED <<rows, store, active, history>>

-------------------------------------------------------------------------------
(* The cron (cleanup/usecase.ts): expired assets, then pending prefixes.   *)

Tick == cron' = [at |-> "expired", todo |-> {a \in Assets : asset[a] # None /\ asset[a].expires = "past"}, now |-> None]
Next1(at, x) == cron' = [at |-> at, todo |-> cron.todo \ {x}, now |-> x]
Step(at) == cron' = [cron EXCEPT !.at = at]

\* listExpired
CronStart ==
  /\ cron = Cron /\ Tick
  /\ calm' = (calm /\ Quiet)
  /\ UNCHANGED <<rows, store, active, slot, history, faults>>

\* An asset whose own job is active is left for a later tick.
MutantCronGuard(a) ==
  /\ cron.at = "expired" /\ a \in cron.todo
  /\ Next1("wipe", a)
  /\ UNCHANGED <<rows, store, active, slot, history>> /\ Same

CronGuard(a) ==
  /\ cron.at = "expired" /\ a \in cron.todo
  /\ IF <<a, None>> \in active THEN Next1("expired", a) ELSE Next1("wipe", a)
  /\ UNCHANGED <<rows, store, active, slot, history>> /\ Same

\* A prefix that does not fit the budget ends the loop.
CronWipe ==
  /\ cron.at = "wipe"
  /\ \/ WipeDone(<<cron.now, None>>) /\ Step("versions")
     \/ WipePartial(<<cron.now, None>>) /\ Step("list")
  /\ UNCHANGED <<rows, session, multipart, active, slot, history>>

CronVersions ==
  /\ cron.at = "versions" /\ Step("row")
  /\ version' = [v \in Versions |-> IF v \in Of(cron.now) THEN None ELSE version[v]]
  /\ UNCHANGED <<asset, born, usage, pending, store, active, slot, history>> /\ Same

\* The row goes by its id alone, and the counters are not touched.
CronRow ==
  /\ cron.at = "row" /\ Step("job")
  /\ asset' = [asset EXCEPT ![cron.now] = None]
  /\ calm' = (calm /\ cron.now \notin Owned)
  /\ UNCHANGED <<born, version, usage, pending, store, active, slot, history, faults>>

CronJob ==
  /\ cron.at = "job"
  /\ Step("expired") /\ active' = active \ {<<cron.now, None>>}
  /\ UNCHANGED <<rows, store, slot, history>> /\ Same

\* pending.list, when the expired assets are through or the budget is.
CronPending ==
  /\ cron.at = "list" \/ (cron.at = "expired" /\ cron.todo = {})
  /\ cron' = [at |-> "drain", todo |-> pending, now |-> None]
  /\ UNCHANGED <<rows, store, active, slot, history>> /\ Same

DrainWipe(p) ==
  /\ cron.at = "drain" /\ p \in cron.todo
  /\ \/ WipeDone(p) /\ Next1("remove", p)
     \/ WipePartial(p) /\ cron' = Cron
  /\ UNCHANGED <<rows, session, multipart, active, slot, history>>

DrainRemove ==
  /\ cron.at = "remove"
  /\ pending' = pending \ {cron.now} /\ Step("drain")
  /\ UNCHANGED <<asset, born, version, usage, store, active, slot, history>> /\ Same

CronEnd ==
  /\ cron.at = "drain" /\ cron.todo = {} /\ cron' = Cron
  /\ UNCHANGED <<rows, store, active, slot, history>> /\ Same

\* A call of the tick throws, or its budget ends it.
CronDies ==
  /\ cron # Cron /\ Fault /\ cron' = Cron
  /\ UNCHANGED <<rows, store, active, slot, history>>

\* The expiry passes.
Lapse(a) ==
  /\ asset[a] # None /\ asset[a].expires = "later"
  /\ asset' = [asset EXCEPT ![a].expires = "past"]
  /\ UNCHANGED <<born, version, usage, pending, store, active, slot, cron, history, calm, faults>>

-------------------------------------------------------------------------------

Serve(s) ==
  \/ UploadCommit(s) \/ Undo(s)
  \/ CompleteExisting(s) \/ CompleteHead(s) \/ CompleteCommit(s) \/ CompleteDrop(s)
  \/ PutVersion(s) \/ VersionCommit(s)
  \/ DeleteVersionRow(s) \/ ReadActive(s) \/ ResetActive(s)
  \/ WipeVersion(s) \/ QueueVersion(s) \/ CountVersion(s)
  \/ CheckVersion(s) \/ UpdateRow(s)
  \/ DeleteRows(s) \/ WipeAsset(s) \/ Unqueue(s)
  \/ SaveReport(s) \/ SaveExtract(s)

Request(s) ==
  \/ \E a \in Assets : \/ Upload(s, a) \/ Complete(s, a) \/ DeleteAsset(s, a) \/ Extract(s, a)
                       \/ \E v \in Versions : UploadVersion(s, a, v)
                       \/ \E f \in Fields : UpdateAsset(s, a, f)
  \/ \E v \in Versions : DeleteVersion(s, v)
  \/ \E k \in active : Report(s, k)

Work ==
  \/ \E a \in Assets : CronGuard(a)
  \/ CronWipe \/ CronVersions \/ CronRow \/ CronJob \/ CronPending
  \/ \E p \in Keys : DrainWipe(p)
  \/ DrainRemove \/ CronEnd

Next ==
  \/ \E s \in Slots : Serve(s) \/ Request(s) \/ Die(s)
  \/ \E a \in Assets : \/ \E multi \in BOOLEAN : OpenSession(a, multi)
                       \/ ClientPut(a) \/ SessionExpires(a) \/ Lapse(a)
  \/ CronStart \/ Work \/ CronDies

Spec == Init /\ [][Next]_vars

\* Started requests run to their end, and the cron is scheduled.
Fairness == WF_vars(CronStart) /\ WF_vars(Work) /\ \A s \in Slots : WF_vars(Serve(s))
FairSpec == Spec /\ Fairness

-------------------------------------------------------------------------------
(* Properties.                                                             *)

TypeOK ==
  /\ asset \in [Assets -> AssetRows \cup {None}]
  /\ version \in [Versions -> Assets \cup {None}]
  /\ usage \in [size : Nat, count : Nat]
  /\ pending \subseteq Keys /\ objects \subseteq Keys /\ active \subseteq Keys
  /\ session \in [Assets -> {"single", "multi", None}] /\ multipart \subseteq Assets
  /\ doomed \subseteq Keys /\ ids \subseteq Assets \cup Versions
  /\ cron.todo \subseteq Assets \cup Keys /\ faults \in 0..MaxFaults

\* What an asset had in the store when it was deleted first is queued for the cron as
\* long as any of it is there, whatever fails and however many requests and ticks wipe the
\* prefix (repository.ts deleteAsset: "always reclaimed even if the inline delete
\* that follows fails").
Covered(k) == \E p \in pending : k \in Under(p)
DoomedIsQueued == \A k \in doomed \cap objects : Covered(k)

\* And so it is reclaimed.
DoomedIsReclaimed == \A k \in Keys : k \in doomed ~> k \notin doomed \cap objects

\* As long as requests come one at a time, nothing fails and no project asset
\* expires, the counter is what is stored (writes.ts, delete-version.ts).
UsageExactInSequence == calm /\ Quiet /\ cron = Cron => usage.size = Stored

\* An upload to a multipart session cannot be completed twice, so until it has become
\* an asset its object stays: whatever completions fail or overlap, the client's
\* retry finds it (complete-upload-session.ts:102-109).
RetryFindsTheObject ==
  \A a \in Assets :
    session[a] = "multi" /\ a \notin multipart /\ a \notin born => <<a, None>> \in objects

\* In sequence, and at every step of the tick, an extraction that is running has its
\* archive: expiry waits for it
\* (cleanup/usecase.ts:71-82).
ExtractionKeepsItsArchive ==
  calm /\ Quiet =>
    \A a \in Assets : <<a, None>> \in active /\ asset[a] # None => <<a, None>> \in objects

===============================================================================
