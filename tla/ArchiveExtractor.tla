--------------------------- MODULE ArchiveExtractor ---------------------------
(***************************************************************************)
(* The Go extraction worker (container/archive-extractor): a process that  *)
(* lists an archive's entries, extracts them with a bounded number of      *)
(* goroutines, buffers manifest lines into chunk objects, checkpoints its  *)
(* progress in object storage, merges the chunks into the final manifest   *)
(* and reports "completed" to the Worker API.  The process may crash at    *)
(* any step and be started again; every object-store call may fail, with   *)
(* or without having taken effect.                                         *)
(*                                                                         *)
(* An entry is its index in the archive.  Paths, sizes and hashes are left *)
(* out: a manifest line is the entry's index and the root prefix that was  *)
(* in force when its path was normalised.  Entries are assumed to have     *)
(* distinct paths.  ProcessedBytes follows ProcessedCount and is left out. *)
(***************************************************************************)
EXTENDS Integers, FiniteSets

CONSTANTS
  N,                \* number of entries in the archive
  Dirs,             \* the entries that are directories
  MaxConcurrency,   \* goroutines extracting at once
  ChunkSize,        \* manifestChunkSize: lines buffered before an automatic flush
  CheckpointEvery,  \* successful entries between two forced checkpoints
  Sequential,       \* TRUE: tar formats (phaseBSequential); FALSE: zip (phaseB)
  RootPrefix,       \* what RootPrefixDetector finds in the listed entries
  MaxFaults         \* bound: crashes, failed calls, lost answers, duplicate starts

Entries == 0..(N - 1)

ASSUME EntriesAssumption == N \in Nat /\ Dirs \subseteq 0..(N - 1)
ASSUME TuningAssumption ==
  /\ MaxConcurrency \in Nat \ {0}
  /\ ChunkSize \in Nat \ {0}
  /\ CheckpointEvery \in Nat \ {0}
  /\ MaxFaults \in Nat
ASSUME SequentialAssumption ==
  /\ Sequential \in BOOLEAN
  /\ Sequential => MaxConcurrency = 1

VARIABLES
  \* objects under the run's key root
  entryList,    \* does _entry_list.jsonl exist
  ckpt,         \* _checkpoint.json, or NoCheckpoint
  chunk,        \* _manifest_chunks/k.jsonl: the lines of each chunk that exists
  manifest,     \* _manifest.jsonl, or NoManifest
  \* the process: lost when it stops
  pc,           \* where the main goroutine is
  cp,           \* the in-memory JobCheckpoint
  chunkIndex,   \* index of the next manifest chunk
  buffer,       \* lines added and not flushed (ManifestWriter.chunk)
  settled,      \* entries whose outcome is known in this run, or skipped on resume
  loWater,      \* end of the contiguous prefix of settled entries
  resumeAfter,  \* entries up to here are skipped
  streamPos,    \* next entry of the list
  extracting,   \* goroutines between their start and their critical section
  saving,       \* goroutines with a checkpoint snapshot still to save
  checking,     \* goroutines about to report progress and check the asset
  extractErr,   \* a goroutine saw that the asset is gone
  \* outside
  job,          \* the job's status, as last written by a callback
  assetExists,
  faults        \* environment faults so far

store    == <<entryList, ckpt, chunk, manifest>>
goroutines == <<extracting, saving, checking, extractErr>>
progress == <<chunkIndex, buffer, settled, loWater, resumeAfter, streamPos, goroutines>>
volatile == <<cp, progress>>
outside  == <<job, assetExists, faults>>
vars     == <<store, pc, volatile, outside>>

Files == Entries \ Dirs
Roots == {"", RootPrefix}
Lines == [idx : Entries, root : Roots]
IdxOf(lines) == {l.idx : l \in lines}

Phases == {"entries_listing", "entries_listed", "extracting", "completing", "reporting"}

\* "lost" is a history field: files at or below "last" whose line was still
\* only in the buffer when the checkpoint was written.
Checkpoints ==
  [phase : Phases, last : -1..(N - 1), count : Nat, total : Nat, chunks : Nat,
   root : Roots, errs : SUBSET Entries, lost : SUBSET Entries]

FreshCheckpoint ==
  [phase |-> "entries_listing", last |-> -1, count |-> 0, total |-> 0,
   chunks |-> 0, root |-> "", errs |-> {}, lost |-> {}]

NoCheckpoint == [phase |-> "none"]
NoManifest   == [absent |-> TRUE]
Manifests    == [lines : SUBSET Lines, errs : SUBSET Entries, lost : SUBSET Entries]

Locations == {"stopped", "listing", "listed", "starting", "streaming", "acquiring",
              "draining", "flushing", "completing", "finalizing", "reporting",
              "cleaning", "callback", "acknowledged", "failing"}

-----------------------------------------------------------------------------
(* Helpers *)

Fault == faults < MaxFaults /\ faults' = faults + 1

\* The values a location may hold after a PUT of v that returned an error.
AfterFailedPut(old, v) == {old, v}

NoTasks == [i \in Entries |-> NoCheckpoint]

InitVolatile ==
  /\ cp = FreshCheckpoint
  /\ chunkIndex = 0
  /\ buffer = {}
  /\ settled = {}
  /\ loWater = -1
  /\ resumeAfter = -1
  /\ streamPos = 0
  /\ extracting = {}
  /\ saving = NoTasks
  /\ checking = {}
  /\ extractErr = FALSE

\* The process exits or dies: nothing in memory survives.
Stop ==
  /\ pc' = "stopped"
  /\ cp' = FreshCheckpoint
  /\ chunkIndex' = 0
  /\ buffer' = {}
  /\ settled' = {}
  /\ loWater' = -1
  /\ resumeAfter' = -1
  /\ streamPos' = 0
  /\ extracting' = {}
  /\ saving' = NoTasks
  /\ checking' = {}
  /\ extractErr' = FALSE

\* Mutant: the highest finished index, which entries in flight may be below.
HighestSettled(low, S) == {m \in low..(N - 1) : m \in S \cup {low} /\ \A j \in S : j <= m}

\* settle's loop: where the low-water mark ends up, from low, when S is settled.
LowWater(low, S) == {m \in low..(N - 1) : (low + 1)..m \subseteq S /\ (m + 1) \notin S}

\* A goroutine holds its semaphore slot until its checkpoint and checks are done.
Active == extracting \cup checking \cup {i \in Entries : saving[i] # NoCheckpoint}

\* wg.Wait returns.
MutantNoWait == TRUE
AllGoroutinesDone == Active = {}

PutChunk(chs, k, lines) ==
  [j \in (DOMAIN chs) \cup {k} |-> IF j = k THEN lines ELSE chs[j]]

\* ManifestWriter with the objects it writes; "failed" counts failed PUTs.
Writer == [buffer |-> buffer, next |-> chunkIndex, chunk |-> chunk, failed |-> 0]

\* The outcomes of FlushChunk: done, failed, failed although the object is stored.
FlushChunk(w) ==
  IF w.buffer = {} THEN {w}
  ELSE {[buffer |-> {}, next |-> w.next + 1, failed |-> w.failed,
         chunk |-> PutChunk(w.chunk, w.next, w.buffer)]}
       \cup {[buffer |-> w.buffer, next |-> w.next, failed |-> w.failed + 1, chunk |-> c] :
               c \in AfterFailedPut(w.chunk, PutChunk(w.chunk, w.next, w.buffer))}

\* ManifestWriter.Add: buffer the line, flush when the buffer is full.
Add(w, line) ==
  LET added == [buffer |-> w.buffer \cup {line}, next |-> w.next, failed |-> w.failed,
                chunk |-> w.chunk]
  IN IF Cardinality(added.buffer) >= ChunkSize THEN FlushChunk(added) ELSE {added}

\* The buffer is flushed before a checkpoint records the number of chunks.
MutantNoFlush(doCheckpoint, w) == {w}
FlushAtCheckpoint(doCheckpoint, w) == IF doCheckpoint THEN FlushChunk(w) ELSE {w}

\* What checkpoint c claims although its flush failed: no chunk holds it.
Unflushed(c, w) ==
  IF w.failed = 0 THEN c.lost ELSE c.lost \cup {i \in IdxOf(w.buffer) : i <= c.last}

-----------------------------------------------------------------------------
Init ==
  /\ entryList = FALSE
  /\ ckpt = NoCheckpoint
  /\ chunk = [k \in {} |-> {}]
  /\ manifest = NoManifest
  /\ pc = "stopped"
  /\ InitVolatile
  /\ job = "pending"
  /\ assetExists = TRUE
  /\ faults = 0

\* Which phase function Run enters.
PhaseLocation(phase) ==
  CASE phase = "entries_listing" -> "listing"
    [] phase \in {"entries_listed", "extracting"} -> "starting"
    [] phase = "completing" -> "finalizing"
    [] phase = "reporting" -> "callback"

\* CheckpointManager.Load: absent means a first run.
MutantLoadCheckpoint ==
  IF ckpt = NoCheckpoint THEN FreshCheckpoint ELSE [ckpt EXCEPT !.root = ""]

LoadCheckpoint == IF ckpt = NoCheckpoint THEN FreshCheckpoint ELSE ckpt

\* Run: load the checkpoint, report "running" (best effort), enter its phase.
\* The cron re-enqueues the unfinished job of a live asset; otherwise only a
\* message that is late or delivered twice starts a run.
StartRun ==
  /\ pc = "stopped"
  /\ IF job # "completed" /\ assetExists THEN UNCHANGED faults ELSE Fault
  /\ cp' = LoadCheckpoint
  /\ pc' = PhaseLocation(cp'.phase)
  /\ job' \in {job, "running"}
  /\ UNCHANGED <<store, assetExists, progress>>

\* A failed call before any work was done; main reports "failed".
LoadOrOpenFails ==
  /\ pc \in {"stopped", "starting"}
  /\ pc = "stopped" => job # "completed" /\ assetExists
  /\ Fault
  /\ pc' = "failing"
  /\ UNCHANGED <<store, volatile, job, assetExists>>

\* phaseA when a previous run left the entry list; then, as after a fresh
\* listing, Run reports "running" again (best effort).
SkipListing ==
  /\ pc = "listing"
  /\ entryList
  /\ cp' = [cp EXCEPT !.phase = "entries_listed"]
  /\ pc' = "starting"
  /\ job' \in {job, "running"}
  /\ UNCHANGED <<store, assetExists, faults, progress>>

\* phaseA: stream the entries into the list object and detect the root prefix.
\* A failed HEAD of an existing list counts as "absent".
ListEntries ==
  /\ pc = "listing"
  /\ IF entryList THEN Fault ELSE UNCHANGED faults
  /\ entryList' = TRUE
  /\ cp' = [cp EXCEPT !.phase = "entries_listed", !.total = Cardinality(Files),
                      !.root = RootPrefix]
  /\ pc' = "listed"
  /\ UNCHANGED <<ckpt, chunk, manifest, job, assetExists, progress>>

\* Listing or its PUT fails; the object is deleted, best effort.
ListEntriesFails ==
  /\ pc = "listing"
  /\ Fault
  /\ entryList' \in BOOLEAN
  /\ pc' = "failing"
  /\ UNCHANGED <<ckpt, chunk, manifest, volatile, job, assetExists>>

\* The checkpoint writes of the main goroutine: phases A, B's end, and C.
SaveListed ==
  /\ pc = "listed"
  /\ ckpt' = cp
  /\ pc' = "starting"
  /\ job' \in {job, "running"}
  /\ UNCHANGED <<entryList, chunk, manifest, volatile, assetExists, faults>>

SaveCompleting ==
  /\ pc = "completing"
  /\ ckpt' = cp
  /\ pc' = IF extractErr THEN "failing" ELSE "finalizing"
  /\ UNCHANGED <<entryList, chunk, manifest, volatile, outside>>

SaveReporting ==
  /\ pc = "reporting"
  /\ ckpt' = cp
  /\ pc' = "cleaning"
  /\ UNCHANGED <<entryList, chunk, manifest, volatile, outside>>

SaveFails ==
  /\ pc \in {"listed", "completing", "reporting"}
  /\ Fault
  /\ ckpt' \in AfterFailedPut(ckpt, cp)
  /\ pc' = "failing"
  /\ UNCHANGED <<entryList, chunk, manifest, volatile, job, assetExists>>

-----------------------------------------------------------------------------
(* Phase B *)

\* phaseB's prologue; the zip path needs the entry list, the tar path re-reads
\* the archive.
BeginExtraction ==
  /\ pc = "starting"
  /\ Sequential \/ entryList
  /\ cp' = [cp EXCEPT !.phase = "extracting"]
  /\ chunkIndex' = cp.chunks
  /\ resumeAfter' = cp.last
  /\ loWater' = cp.last
  /\ settled' = 0..cp.last
  /\ streamPos' = 0
  /\ pc' = "streaming"
  /\ UNCHANGED <<store, outside, buffer, extracting, saving, checking, extractErr>>

EntryListMissing ==
  /\ pc = "starting"
  /\ ~Sequential /\ ~entryList
  /\ pc' = "failing"
  /\ UNCHANGED <<store, volatile, outside>>

\* A directory settles at once; an entry at or below the resume mark is skipped.
PassEntry ==
  /\ pc = "streaming"
  /\ streamPos < N
  /\ streamPos \in Dirs \/ streamPos <= resumeAfter
  /\ settled' = IF streamPos \in Dirs THEN settled \cup {streamPos} ELSE settled
  /\ loWater' \in LowWater(loWater, settled')
  /\ streamPos' = streamPos + 1
  /\ UNCHANGED <<store, outside, pc, cp, chunkIndex, buffer, resumeAfter, extracting,
                 saving, checking, extractErr>>

FileAhead ==
  /\ pc = "streaming"
  /\ streamPos < N
  /\ streamPos \notin Dirs
  /\ streamPos > resumeAfter

\* The callback looks at extractErr before it waits for a slot, not after.
TakeEntry ==
  /\ FileAhead
  /\ pc' = IF extractErr THEN "draining" ELSE "acquiring"
  /\ UNCHANGED <<store, volatile, outside>>

SpawnExtraction ==
  /\ pc = "acquiring"
  /\ Cardinality(Active) < MaxConcurrency
  /\ extracting' = extracting \cup {streamPos}
  /\ streamPos' = streamPos + 1
  /\ pc' = "streaming"
  /\ UNCHANGED <<store, outside, cp, chunkIndex, buffer, settled, loWater, resumeAfter,
                 saving, checking, extractErr>>

StreamFails ==
  /\ pc = "streaming"
  /\ Fault
  /\ pc' = "draining"
  /\ UNCHANGED <<store, volatile, job, assetExists>>

EndOfStream ==
  /\ pc = "streaming"
  /\ streamPos = N
  /\ pc' = "flushing"
  /\ UNCHANGED <<store, volatile, outside>>

\* wg.Wait, then the error of the stream is returned.
Drained ==
  /\ pc = "draining"
  /\ AllGoroutinesDone
  /\ pc' = "failing"
  /\ UNCHANGED <<store, volatile, outside>>

\* An entry that exhausted its attempts: recorded and settled.
ExtractFails(i) ==
  /\ i \in extracting
  /\ extracting' = extracting \ {i}
  /\ cp' = [cp EXCEPT !.errs = cp.errs \cup {i}]
  /\ settled' = settled \cup {i}
  /\ loWater' \in LowWater(loWater, settled')
  /\ UNCHANGED <<store, outside, pc, chunkIndex, buffer, resumeAfter, streamPos, saving,
                 checking, extractErr>>

\* An uploaded entry: the critical section under the mutex.  The heartbeat
\* interval may elapse at any time, so a checkpoint may be due at any entry.
ExtractSucceeds(i) ==
  /\ i \in extracting
  /\ extracting' = extracting \ {i}
  /\ settled' = settled \cup {i}
  /\ loWater' \in LowWater(loWater, settled')
  /\ \E doCheckpoint \in BOOLEAN, w1 \in Add(Writer, [idx |-> i, root |-> cp.root]) :
       /\ (cp.count + 1) % CheckpointEvery = 0 => doCheckpoint
       /\ \E w2 \in FlushAtCheckpoint(doCheckpoint, w1) :
            /\ faults + w2.failed <= MaxFaults
            /\ faults' = faults + w2.failed
            /\ buffer' = w2.buffer
            /\ chunkIndex' = w2.next
            /\ chunk' = w2.chunk
            /\ cp' = [cp EXCEPT !.count = cp.count + 1, !.last = loWater',
                                !.chunks = IF doCheckpoint THEN w2.next ELSE cp.chunks]
            /\ saving' = IF doCheckpoint
                         THEN [saving EXCEPT ![i] =
                                 [cp' EXCEPT !.lost = Unflushed(cp', w2)]]
                         ELSE saving
  /\ UNCHANGED <<entryList, ckpt, manifest, pc, resumeAfter, streamPos, checking,
                 extractErr, job, assetExists>>

\* The snapshot is saved outside the mutex, in no particular order; a failed
\* save is only logged.
SaveSnapshot(i) ==
  /\ saving[i] # NoCheckpoint
  /\ \/ ckpt' = saving[i] /\ UNCHANGED faults
     \/ ckpt' \in AfterFailedPut(ckpt, saving[i]) /\ Fault
  /\ saving' = [saving EXCEPT ![i] = NoCheckpoint]
  /\ checking' = checking \cup {i}
  /\ UNCHANGED <<entryList, chunk, manifest, pc, cp, chunkIndex, buffer, settled, loWater,
                 resumeAfter, streamPos, extracting, extractErr, job, assetExists>>

\* Progress callback and existence check; an answer that does not arrive
\* counts as "exists".  The sequential path returns at once.
CheckAsset(i) ==
  /\ i \in checking
  /\ checking' = checking \ {i}
  /\ job' \in {job, "running"}
  /\ \/ assetExists /\ UNCHANGED <<faults, pc, extractErr>>
     \/ ~assetExists /\ Fault /\ UNCHANGED <<pc, extractErr>>
     \/ /\ ~assetExists
        /\ pc' = IF Sequential THEN "failing" ELSE pc
        /\ extractErr' = IF Sequential THEN extractErr ELSE TRUE
        /\ UNCHANGED faults
  /\ UNCHANGED <<store, assetExists, cp, chunkIndex, buffer, settled, loWater,
                 resumeAfter, streamPos, extracting, saving>>

\* wg.Wait, then the last flush; its failure ends the run.
FinalFlush ==
  /\ pc = "flushing"
  /\ AllGoroutinesDone
  /\ \E w \in FlushChunk(Writer) :
       /\ faults + w.failed <= MaxFaults
       /\ faults' = faults + w.failed
       /\ buffer' = w.buffer
       /\ chunkIndex' = w.next
       /\ chunk' = w.chunk
       /\ IF w.failed = 0
          THEN /\ cp' = [cp EXCEPT !.phase = "completing", !.chunks = w.next]
               /\ pc' = "completing"
          ELSE /\ cp' = cp
               /\ pc' = "failing"
  /\ UNCHANGED <<entryList, ckpt, manifest, settled, loWater, resumeAfter, streamPos,
                 extracting, saving, checking, extractErr, job, assetExists>>

-----------------------------------------------------------------------------
(* Phase C *)

ChunksExist(chs, n) == \A k \in 0..(n - 1) : k \in DOMAIN chs

\* ManifestWriter.Finalize: the first n chunks, each path once.
Merged(chs, n) == {l \in Lines : \E k \in (0..(n - 1)) \cap DOMAIN chs : l \in chs[k]}

FinalManifest == [lines |-> Merged(chunk, cp.chunks), errs |-> cp.errs, lost |-> cp.lost]

\* Mutant: the chunks go as soon as they are merged.
MutantFinalize ==
  /\ pc = "finalizing"
  /\ ChunksExist(chunk, cp.chunks)
  /\ manifest' = FinalManifest
  /\ chunk' = [k \in DOMAIN chunk \ 0..(cp.chunks - 1) |-> chunk[k]]
  /\ cp' = [cp EXCEPT !.phase = "reporting"]
  /\ pc' = "reporting"
  /\ UNCHANGED <<entryList, ckpt, outside, progress>>

Finalize ==
  /\ pc = "finalizing"
  /\ ChunksExist(chunk, cp.chunks)
  /\ manifest' = FinalManifest
  /\ cp' = [cp EXCEPT !.phase = "reporting"]
  /\ pc' = "reporting"
  /\ UNCHANGED <<entryList, ckpt, chunk, outside, progress>>

FinalizeFails ==
  /\ pc = "finalizing"
  /\ \/ /\ ChunksExist(chunk, cp.chunks)
        /\ manifest' \in AfterFailedPut(manifest, FinalManifest)
        /\ Fault
     \/ /\ ~ChunksExist(chunk, cp.chunks)
        /\ UNCHANGED <<manifest, faults>>
  /\ pc' = "failing"
  /\ UNCHANGED <<entryList, ckpt, chunk, volatile, job, assetExists>>

\* DeleteChunks and the deletion of the entry list; failures are ignored.
DeleteInputs ==
  /\ pc = "cleaning"
  /\ \/ /\ chunk' = [k \in DOMAIN chunk \ 0..(cp.chunks - 1) |-> chunk[k]]
        /\ entryList' = FALSE
        /\ UNCHANGED faults
     \/ /\ \E D \in SUBSET (DOMAIN chunk \cap 0..(cp.chunks - 1)) :
             chunk' = [k \in DOMAIN chunk \ D |-> chunk[k]]
        /\ entryList' \in {FALSE, entryList}
        /\ Fault
  /\ pc' = "callback"
  /\ UNCHANGED <<ckpt, manifest, volatile, job, assetExists>>

\* updateJobStatusWithRetry("completed"): acknowledged by one of the attempts.
ReportCompleted ==
  /\ pc = "callback"
  /\ job' = "completed"
  /\ pc' = "acknowledged"
  /\ UNCHANGED <<store, volatile, assetExists, faults>>

MutantCompletionNotReported ==
  /\ pc = "callback"
  /\ Fault
  /\ job' \in {job, "completed"}
  /\ ckpt' = NoCheckpoint
  /\ Stop
  /\ UNCHANGED <<entryList, chunk, manifest, assetExists>>

\* No attempt is acknowledged, though one may have been processed: the process
\* exits without reporting "failed" and keeps the checkpoint.
CompletionNotReported ==
  /\ pc = "callback"
  /\ Fault
  /\ job' \in {job, "completed"}
  /\ Stop
  /\ UNCHANGED <<store, assetExists>>

DeleteCheckpoint ==
  /\ pc = "acknowledged"
  /\ \/ ckpt' = NoCheckpoint /\ UNCHANGED faults
     \/ ckpt' = ckpt /\ Fault
  /\ Stop
  /\ UNCHANGED <<entryList, chunk, manifest, job, assetExists>>

\* main: any other error of Run is reported as "failed", best effort.
ReportFailed ==
  /\ pc = "failing"
  /\ job' \in {job, "failed"}
  /\ Stop
  /\ UNCHANGED <<store, assetExists, faults>>

-----------------------------------------------------------------------------
(* Environment *)

Crash ==
  /\ pc # "stopped"
  /\ Fault
  /\ Stop
  /\ UNCHANGED <<store, job, assetExists>>

\* The asset is deleted and its prefix wiped under the running worker.
DeleteAsset ==
  /\ assetExists
  /\ assetExists' = FALSE
  /\ entryList' = FALSE
  /\ ckpt' = NoCheckpoint
  /\ chunk' = [k \in {} |-> {}]
  /\ manifest' = NoManifest
  /\ UNCHANGED <<pc, volatile, job, faults>>

\* Nothing is left to do: no process runs, the job is completed or has no asset.
Terminated ==
  /\ pc = "stopped"
  /\ job = "completed" \/ ~assetExists
  /\ UNCHANGED vars

Task(i) == ExtractFails(i) \/ ExtractSucceeds(i) \/ SaveSnapshot(i) \/ CheckAsset(i)

Main ==
  \/ SkipListing \/ ListEntries \/ SaveListed
  \/ BeginExtraction \/ EntryListMissing \/ PassEntry \/ TakeEntry \/ SpawnExtraction
  \/ EndOfStream \/ Drained \/ FinalFlush \/ SaveCompleting
  \/ Finalize \/ FinalizeFails \/ SaveReporting \/ DeleteInputs
  \/ ReportCompleted \/ DeleteCheckpoint \/ ReportFailed

Failures ==
  LoadOrOpenFails \/ ListEntriesFails \/ SaveFails \/ StreamFails \/ CompletionNotReported

Next ==
  \/ StartRun
  \/ Main
  \/ \E i \in Entries : Task(i)
  \/ Failures
  \/ Crash
  \/ DeleteAsset
  \/ Terminated

\* The cron re-enqueues a job that is not completed, and the container runtime
\* schedules every goroutine; nothing forces a fault or a deletion.
Fairness ==
  /\ WF_vars(StartRun)
  /\ WF_vars(Main)
  /\ \A i \in Entries : WF_vars(Task(i))

Spec     == Init /\ [][Next]_vars
FairSpec == Spec /\ Fairness

-----------------------------------------------------------------------------
(* Properties *)

\* Every variable keeps its shape: the objects of worker.go and checkpoint.go.
TypeOK ==
  /\ entryList \in BOOLEAN
  /\ ckpt \in Checkpoints \cup {NoCheckpoint}
  /\ DOMAIN chunk \subseteq Nat
  /\ \A k \in DOMAIN chunk : chunk[k] \subseteq Lines
  /\ manifest \in Manifests \cup {NoManifest}
  /\ pc \in Locations
  /\ cp \in Checkpoints
  /\ chunkIndex \in Nat
  /\ buffer \subseteq Lines
  /\ settled \subseteq Entries
  /\ loWater \in -1..(N - 1)
  /\ resumeAfter \in -1..(N - 1)
  /\ streamPos \in 0..N
  /\ extracting \subseteq Entries
  /\ saving \in [Entries -> Checkpoints \cup {NoCheckpoint}]
  /\ checking \subseteq Entries
  /\ extractErr \in BOOLEAN
  /\ job \in {"pending", "running", "failed", "completed"}
  /\ assetExists \in BOOLEAN
  /\ faults \in 0..MaxFaults

\* The line of file i is in one of the first n chunk objects.
InChunks(chs, i, n, root) ==
  \E k \in 0..(n - 1) : k \in DOMAIN chs /\ [idx |-> i, root |-> root] \in chs[k]

\* A checkpoint can be resumed from: every file it lets the next run skip is in
\* a chunk it counts, recorded as failed, or known to be lost.
Accounted(chs, c, i) == InChunks(chs, i, c.chunks, c.root) \/ i \in c.errs \/ i \in c.lost
Resumable(chs, c) == \A i \in Files : i <= c.last => Accounted(chs, c, i)

\* The stored checkpoint is always resumable, although snapshots are taken
\* under the mutex and saved outside it, in any order (worker.go:225-236, 308-343);
\* "reporting" skips phase B altogether and relies on the manifest instead.
StoredCheckpointResumable ==
  assetExists /\ ckpt # NoCheckpoint =>
    IF ckpt.phase = "reporting" THEN manifest # NoManifest ELSE Resumable(chunk, ckpt)

\* A published manifest accounts for every file of the archive, whatever crashes,
\* resumes and failed calls came before it: extracted, reported as an error, or
\* lost with a buffer whose flush had failed (worker.go:313-321).
ManifestAccountsForEveryFile ==
  assetExists /\ manifest # NoManifest =>
    Files \subseteq IdxOf(manifest.lines) \cup manifest.errs \cup manifest.lost

\* Finalize's de-duplication by path is enough: no file has two lines in the
\* manifest, since all runs that contribute to it strip the same prefix
\* (manifest.go:76-80).
NoFileListedTwice ==
  assetExists /\ manifest # NoManifest =>
    \A l1, l2 \in manifest.lines : l1.idx = l2.idx => l1 = l2

\* A run that reaches Finalize, now or after a crash, finds every chunk it has
\* to merge: the chunks go only after the "reporting" checkpoint (worker.go:470-486).
FinalizeFindsItsChunks ==
  assetExists =>
    /\ ckpt # NoCheckpoint /\ ckpt.phase = "completing" => ChunksExist(chunk, ckpt.chunks)
    /\ pc = "finalizing" => ChunksExist(chunk, cp.chunks)

\* A job reported as completed has its manifest, in every later state.
CompletedIsPublished ==
  assetExists /\ job = "completed" => manifest # NoManifest

\* Once extraction is recorded as finished, no snapshot of an earlier phase can
\* replace that record: the stored phase only moves forward until the checkpoint
\* is deleted (worker.go:345-361).
PhaseRank(c) ==
  IF c = NoCheckpoint THEN 0
  ELSE CASE c.phase \in {"entries_listing", "entries_listed"} -> 1
         [] c.phase = "extracting" -> 2
         [] c.phase = "completing" -> 3
         [] c.phase = "reporting"  -> 4

StoredPhaseNeverRegresses ==
  [][assetExists => ckpt' = NoCheckpoint \/ PhaseRank(ckpt) <= PhaseRank(ckpt')]_vars

\* ADR-001:61-66: the checkpoint goes only once the Worker has the completion, so
\* whatever happens to the callback, a later run does not extract again.
CompletionIsNotRedone ==
  [][ckpt # NoCheckpoint /\ ckpt.phase = "reporting" /\ job # "completed" /\ assetExists'
       => ckpt' = ckpt]_vars

\* The job of a live asset is reported as completed in the end, whatever finite
\* number of crashes and failed calls happen.
EventuallyCompleted == <>(job = "completed" \/ ~assetExists)

\* What the documentation says and the code does not keep (see the README).

\* worker.go:313-317: a checkpoint that claims more progress than the persisted
\* chunks loses every buffered entry, so the flush comes first.
NoFileIsLost ==
  assetExists /\ manifest # NoManifest =>
    Files \subseteq IdxOf(manifest.lines) \cup manifest.errs
=============================================================================
