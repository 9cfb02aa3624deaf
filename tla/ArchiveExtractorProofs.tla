------------------------ MODULE ArchiveExtractorProofs ------------------------
(***************************************************************************)
(* Safety of the extraction worker for every archive, concurrency, chunk   *)
(* size, checkpoint interval and number of faults: the invariant IInv is   *)
(* inductive, the published manifest and the stored checkpoint have the    *)
(* properties ArchiveExtractor states of them, and the worker implements   *)
(* the contract of an extraction, ExtractionOutcome.                       *)
(***************************************************************************)
EXTENDS ArchiveExtractorInv, FiniteSetTheorems, TLAPS

-----------------------------------------------------------------------------
(* The manifest writer *)

\* What the operations on the writer keep: chunks below the next index are not
\* touched, and a buffered line ends up in a chunk or stays in the buffer.
WriterOK(w) ==
  /\ w.buffer \subseteq Lines
  /\ w.next \in Nat
  /\ w.failed \in Nat
  /\ DOMAIN w.chunk \subseteq Nat
  /\ \A k \in DOMAIN w.chunk : w.chunk[k] \subseteq Lines

Extends(w, v) ==
  /\ w.next <= v.next
  /\ w.failed <= v.failed
  /\ v.buffer \subseteq w.buffer
  /\ DOMAIN w.chunk \subseteq DOMAIN v.chunk
  /\ \A k \in DOMAIN w.chunk : k < w.next => v.chunk[k] = w.chunk[k]
  /\ \A k \in w.next..(v.next - 1) : k \in DOMAIN v.chunk /\ v.chunk[k] \subseteq w.buffer
  /\ \A l \in w.buffer : l \in v.buffer \/ \E k \in 0..(v.next - 1) : k \in DOMAIN v.chunk /\ l \in v.chunk[k]

\* FlushChunk, whether its PUT succeeds or fails, extends the writer; when no
\* PUT failed the buffer is empty (manifest.go:49-64).
LEMMA FlushExtends ==
  ASSUME NEW w, WriterOK(w), NEW v \in FlushChunk(w)
  PROVE  /\ WriterOK(v)
         /\ Extends(w, v)
         /\ v.failed = w.failed => v.buffer = {}
<1>1. CASE w.buffer = {}
  BY <1>1 DEF FlushChunk, WriterOK, Extends
<1>2. CASE w.buffer # {}
  <2> DEFINE put == PutChunk(w.chunk, w.next, w.buffer)
  <2>1. /\ DOMAIN put = DOMAIN w.chunk \cup {w.next}
        /\ put[w.next] = w.buffer
        /\ \A k \in DOMAIN w.chunk : k # w.next => put[k] = w.chunk[k]
    BY DEF PutChunk
  <2>2. \/ v = [buffer |-> {}, next |-> w.next + 1, failed |-> w.failed, chunk |-> put]
        \/ \E c \in {w.chunk, put} :
             v = [buffer |-> w.buffer, next |-> w.next, failed |-> w.failed + 1, chunk |-> c]
    BY <1>2 DEF FlushChunk, AfterFailedPut
  <2> HIDE DEF put
  <2>3. CASE v = [buffer |-> {}, next |-> w.next + 1, failed |-> w.failed, chunk |-> put]
    <3>1. WriterOK(v)
      BY <2>1, <2>3 DEF WriterOK
    <3>2. Extends(w, v)
      BY <2>1, <2>3 DEF WriterOK, Extends
    <3>3. QED BY <2>3, <3>1, <3>2
  <2>4. ASSUME NEW c \in {w.chunk, put},
               v = [buffer |-> w.buffer, next |-> w.next, failed |-> w.failed + 1, chunk |-> c]
        PROVE  WriterOK(v) /\ Extends(w, v) /\ v.failed # w.failed
    <3>1. WriterOK(v)
      BY <2>1, <2>4 DEF WriterOK
    <3>2. Extends(w, v)
      BY <2>1, <2>4 DEF WriterOK, Extends
    <3>3. QED BY <2>4, <3>1, <3>2 DEF WriterOK
  <2>5. QED BY <2>2, <2>3, <2>4
<1>3. QED BY <1>1, <1>2

\* Add buffers the line and then at most flushes (manifest.go:40-46).
LEMMA AddExtends ==
  ASSUME NEW w, WriterOK(w), NEW line \in Lines, NEW v \in Add(w, line)
  PROVE  /\ WriterOK(v)
         /\ Extends([buffer |-> w.buffer \cup {line}, next |-> w.next,
                     failed |-> w.failed, chunk |-> w.chunk], v)
<1> DEFINE added == [buffer |-> w.buffer \cup {line}, next |-> w.next,
                     failed |-> w.failed, chunk |-> w.chunk]
<1>1. WriterOK(added)
  BY DEF WriterOK
<1>2. Extends(added, added)
  BY <1>1 DEF Extends, WriterOK
<1>3. v \in FlushChunk(added) \/ v = added
  BY DEF Add
<1> HIDE DEF added
<1>4. WriterOK(v) /\ Extends(added, v)
  BY <1>1, <1>2, <1>3, FlushExtends
<1>5. QED BY <1>4 DEF added

LEMMA ExtendsTransitive ==
  ASSUME NEW u, NEW v, NEW w, WriterOK(u), WriterOK(v), WriterOK(w),
         Extends(u, v), Extends(v, w)
  PROVE  Extends(u, w)
BY DEF WriterOK, Extends

-----------------------------------------------------------------------------
(* Types *)

LEMMA FilesCount == Cardinality(Files) \in Nat
<1>1. IsFiniteSet(0..(N - 1))
  BY EntriesAssumption, FS_Interval
<1>2. IsFiniteSet(Files)
  BY <1>1, FS_Subset DEF Files, Entries
<1>3. QED BY <1>2, FS_CardinalityType

LEMMA CheckpointFields ==
  ASSUME NEW c \in Checkpoints
  PROVE  /\ c # NoCheckpoint
         /\ c.phase \in Phases
         /\ c.last \in -1..(N - 1)
         /\ c.count \in Nat
         /\ c.total \in Nat
         /\ c.chunks \in Nat
         /\ c.root \in Roots
         /\ c.errs \subseteq Entries
         /\ c.lost \subseteq Entries
<1>1. c.last \in -1..(N - 1)
  BY DEF Checkpoints
<1>2. c # NoCheckpoint
  <2>1. "last" \in DOMAIN c
    BY DEF Checkpoints
  <2>2. "last" \notin DOMAIN NoCheckpoint
    BY DEF NoCheckpoint
  <2>3. QED BY <2>1, <2>2
<1>3. QED BY <1>1, <1>2 DEF Checkpoints

LEMMA FreshIsCheckpoint == FreshCheckpoint \in Checkpoints
BY EntriesAssumption DEF FreshCheckpoint, Checkpoints, Phases, Roots

LEMMA NoTasksType == NoTasks \in [Entries -> Checkpoints \cup {NoCheckpoint}]
BY DEF NoTasks

LEMMA WriterIsOK == TypeOK => WriterOK(Writer)
BY DEF TypeOK, WriterOK, Writer

\* settle leaves the mark on a settled prefix of the entries.
LEMMA LowWaterBounds ==
  ASSUME NEW low \in -1..(N - 1), NEW S, NEW m \in LowWater(low, S)
  PROVE  /\ m \in -1..(N - 1)
         /\ low <= m
         /\ 0..low \subseteq S => 0..m \subseteq S
BY EntriesAssumption DEF LowWater

\* What a stopped process forgets leaves the types intact.
LEMMA StopType ==
  ASSUME Stop
  PROVE  /\ pc' \in Locations
         /\ cp' \in Checkpoints
         /\ chunkIndex' \in Nat
         /\ buffer' \subseteq Lines
         /\ settled' \subseteq Entries
         /\ loWater' \in -1..(N - 1)
         /\ resumeAfter' \in -1..(N - 1)
         /\ streamPos' \in 0..N
         /\ extracting' \subseteq Entries
         /\ saving' \in [Entries -> Checkpoints \cup {NoCheckpoint}]
         /\ checking' \subseteq Entries
         /\ extractErr' \in BOOLEAN
<1>1. extractErr' \in BOOLEAN
  BY DEF Stop
<1>2. saving' \in [Entries -> Checkpoints \cup {NoCheckpoint}]
  BY NoTasksType DEF Stop
<1>3. QED
  BY <1>1, <1>2, EntriesAssumption, FreshIsCheckpoint DEF Stop, Locations

LEMMA InitType == Init => TypeOK
<1> SUFFICES ASSUME Init PROVE TypeOK
  OBVIOUS
<1>1. extractErr \in BOOLEAN /\ entryList \in BOOLEAN /\ assetExists \in BOOLEAN
  BY DEF Init, InitVolatile
<1>2. saving \in [Entries -> Checkpoints \cup {NoCheckpoint}]
  BY NoTasksType DEF Init, InitVolatile
<1>3. QED
  BY <1>1, <1>2, EntriesAssumption, TuningAssumption, FreshIsCheckpoint
     DEF Init, InitVolatile, TypeOK, Locations

\* One more fault stays within the bound.
LEMMA FaultType == ASSUME faults \in 0..MaxFaults, Fault PROVE faults' \in 0..MaxFaults
BY TuningAssumption DEF Fault

\* Every step keeps the types; a spawned entry needs the guard remembered by
\* AcquiringAFile, the part of the invariant about the goroutines.
LEMMA NextType ==
  ASSUME TypeOK, GoroutinesOnlyInPhaseB, [Next]_vars
  PROVE  TypeOK'
<1> USE DEF TypeOK
<1>0. CASE UNCHANGED vars
  BY <1>0 DEF vars, store, volatile, progress, goroutines, outside
<1>1. CASE StartRun
  <2>1. cp' \in Checkpoints
    BY <1>1, FreshIsCheckpoint DEF StartRun, LoadCheckpoint
  <2>2. pc' \in Locations
    BY <1>1, <2>1, CheckpointFields DEF StartRun, PhaseLocation, Locations, Phases
  <2>3. QED
    BY <1>1, <2>1, <2>2, FaultType DEF StartRun, store, progress, goroutines
<1>2. CASE SkipListing \/ ListEntries
  <2>1. cp' \in Checkpoints
    BY <1>2, FilesCount, CheckpointFields, ZenonT(60) DEF SkipListing, ListEntries, Checkpoints, Phases, Roots
  <2>2. QED
    BY <1>2, <2>1, FaultType DEF SkipListing, ListEntries, Locations, store, outside, progress, goroutines
<1>3. CASE SaveListed \/ SaveCompleting \/ SaveReporting
  BY <1>3 DEF SaveListed, SaveCompleting, SaveReporting, Locations, volatile, progress, goroutines, outside
<1>4. CASE BeginExtraction
  <2>1. cp' \in Checkpoints
    BY <1>4, CheckpointFields DEF BeginExtraction, Checkpoints, Phases
  <2>2. 0..cp.last \subseteq Entries
    BY CheckpointFields, EntriesAssumption DEF Entries
  <2>3. QED
    BY <1>4, <2>1, <2>2, CheckpointFields, EntriesAssumption
       DEF BeginExtraction, Locations, store, outside
<1>5. CASE EntryListMissing \/ TakeEntry \/ EndOfStream \/ Drained
  BY <1>5 DEF EntryListMissing, TakeEntry, EndOfStream, Drained, Locations,
              store, volatile, progress, goroutines, outside
<1>6. CASE PassEntry
  <2>1. streamPos \in Entries /\ streamPos' \in 0..N
    BY <1>6, EntriesAssumption DEF PassEntry, Entries
  <2>2. loWater' \in -1..(N - 1)
    BY <1>6, LowWaterBounds DEF PassEntry
  <2>3. QED
    BY <1>6, <2>1, <2>2 DEF PassEntry, store, outside
<1>7. CASE SpawnExtraction
  <2>1. streamPos \in Entries /\ streamPos' \in 0..N
    BY <1>7, EntriesAssumption DEF SpawnExtraction, GoroutinesOnlyInPhaseB, Entries
  <2>2. QED
    BY <1>7, <2>1 DEF SpawnExtraction, Locations, store, outside
<1>8. CASE \E i \in Entries : ExtractFails(i)
  <2> PICK i \in Entries : ExtractFails(i)
    BY <1>8
  <2>1. cp' \in Checkpoints
    BY CheckpointFields DEF ExtractFails, Checkpoints
  <2>2. loWater' \in -1..(N - 1)
    BY LowWaterBounds DEF ExtractFails
  <2>3. QED
    BY <2>1, <2>2 DEF ExtractFails, store, outside
<1>9. CASE \E i \in Entries : ExtractSucceeds(i)
  <2> PICK i \in Entries : ExtractSucceeds(i)
    BY <1>9
  <2> DEFINE line == [idx |-> i, root |-> cp.root]
  <2>1. PICK doCheckpoint \in BOOLEAN, w1 \in Add(Writer, line) :
          \E w2 \in FlushAtCheckpoint(doCheckpoint, w1) :
            /\ faults + w2.failed <= MaxFaults
            /\ faults' = faults + w2.failed
            /\ buffer' = w2.buffer
            /\ chunkIndex' = w2.next
            /\ chunk' = w2.chunk
            /\ cp' = [cp EXCEPT !.count = cp.count + 1, !.last = loWater',
                                !.chunks = IF doCheckpoint THEN w2.next ELSE cp.chunks]
            /\ saving' = IF doCheckpoint
                         THEN [saving EXCEPT ![i] = [cp' EXCEPT !.lost = Unflushed(cp', w2)]]
                         ELSE saving
    BY DEF ExtractSucceeds
  <2>2. PICK w2 \in FlushAtCheckpoint(doCheckpoint, w1) :
            /\ faults + w2.failed <= MaxFaults
            /\ faults' = faults + w2.failed
            /\ buffer' = w2.buffer
            /\ chunkIndex' = w2.next
            /\ chunk' = w2.chunk
            /\ cp' = [cp EXCEPT !.count = cp.count + 1, !.last = loWater',
                                !.chunks = IF doCheckpoint THEN w2.next ELSE cp.chunks]
            /\ saving' = IF doCheckpoint
                         THEN [saving EXCEPT ![i] = [cp' EXCEPT !.lost = Unflushed(cp', w2)]]
                         ELSE saving
    BY <2>1
  <2>3. line \in Lines
    BY CheckpointFields DEF Lines
  <2> HIDE DEF line
  <2>4. WriterOK(w1)
    BY <2>3, WriterIsOK, AddExtends
  <2>5. WriterOK(w2)
    BY <2>4, FlushExtends DEF FlushAtCheckpoint
  <2>6. loWater' \in -1..(N - 1)
    BY LowWaterBounds DEF ExtractSucceeds
  <2>7. cp' \in Checkpoints
    <3> DEFINE n == IF doCheckpoint THEN w2.next ELSE cp.chunks
    <3>1. n \in Nat /\ cp.count + 1 \in Nat
      BY <2>5, CheckpointFields DEF WriterOK
    <3>2. cp' = [cp EXCEPT !.count = cp.count + 1, !.last = loWater', !.chunks = n]
      BY <2>2
    <3> HIDE DEF n
    <3>3. QED
      BY <2>6, <3>1, <3>2 DEF Checkpoints
  <2>8. Unflushed(cp', w2) \subseteq Entries
    BY <2>5, <2>7, CheckpointFields DEF Unflushed, IdxOf, Lines, WriterOK
  <2>9. [cp' EXCEPT !.lost = Unflushed(cp', w2)] \in Checkpoints
    BY <2>7, <2>8 DEF Checkpoints
  <2>10. saving' \in [Entries -> Checkpoints \cup {NoCheckpoint}]
    BY <2>2, <2>9
  <2>11. faults' \in 0..MaxFaults
    BY <2>2, <2>5, TuningAssumption DEF WriterOK
  <2>12. QED
    BY <2>2, <2>5, <2>6, <2>7, <2>10, <2>11 DEF ExtractSucceeds, WriterOK
<1>10. CASE \E i \in Entries : SaveSnapshot(i)
  BY <1>10, FaultType DEF SaveSnapshot, AfterFailedPut
<1>11. CASE \E i \in Entries : CheckAsset(i)
  BY <1>11, FaultType, ZenonT(60) DEF CheckAsset, Locations, store
<1>12. CASE FinalFlush
  <2> PICK w \in FlushChunk(Writer) :
       /\ faults + w.failed <= MaxFaults
       /\ faults' = faults + w.failed
       /\ buffer' = w.buffer
       /\ chunkIndex' = w.next
       /\ chunk' = w.chunk
       /\ IF w.failed = 0
          THEN /\ cp' = [cp EXCEPT !.phase = "completing", !.chunks = w.next]
               /\ pc' = "completing"
          ELSE /\ cp' = cp
               /\ pc' = "failing"
    BY <1>12 DEF FinalFlush
  <2>1. WriterOK(w)
    BY WriterIsOK, FlushExtends
  <2>2. cp' \in Checkpoints
    BY <2>1, CheckpointFields, ZenonT(60) DEF Checkpoints, Phases, WriterOK
  <2>3. pc' \in Locations
    BY DEF Locations
  <2>4. QED
    BY <1>12, <2>1, <2>2, <2>3, TuningAssumption DEF FinalFlush, WriterOK
<1>13. CASE Finalize
  <2>1. cp' \in Checkpoints
    BY <1>13, CheckpointFields DEF Finalize, Checkpoints, Phases
  <2>2. FinalManifest \in Manifests
    BY CheckpointFields DEF FinalManifest, Manifests, Merged
  <2>3. QED
    BY <1>13, <2>1, <2>2 DEF Finalize, Locations, outside, progress, goroutines
<1>14. CASE FinalizeFails
  <2>1. FinalManifest \in Manifests
    BY CheckpointFields DEF FinalManifest, Manifests, Merged
  <2>2. QED
    BY <1>14, <2>1, FaultType DEF FinalizeFails, AfterFailedPut, Locations, volatile, progress, goroutines
<1>15. CASE DeleteInputs
  BY <1>15, FaultType DEF DeleteInputs, Locations, volatile, progress, goroutines
<1>16. CASE ReportCompleted
  BY <1>16 DEF ReportCompleted, Locations, store, volatile, progress, goroutines
<1>17. CASE DeleteCheckpoint \/ ReportFailed \/ CompletionNotReported \/ Crash
  BY <1>17, StopType, FaultType
     DEF DeleteCheckpoint, ReportFailed, CompletionNotReported, Crash, store
<1>18. CASE LoadOrOpenFails \/ ListEntriesFails \/ SaveFails \/ StreamFails
  BY <1>18, FaultType
     DEF LoadOrOpenFails, ListEntriesFails, SaveFails, StreamFails, AfterFailedPut, Locations, store, volatile, progress, goroutines
<1>19. CASE DeleteAsset
  BY <1>19 DEF DeleteAsset, volatile, progress, goroutines
<1>20. CASE Terminated
  BY <1>20 DEF Terminated, vars, store, volatile, progress, goroutines, outside
<1>21. QED
  BY <1>0, <1>1, <1>2, <1>3, <1>4, <1>5, <1>6, <1>7, <1>8, <1>9, <1>10, <1>11, <1>12, <1>13,
     <1>14, <1>15, <1>16, <1>17, <1>18, <1>19, <1>20
     DEF Next, Main, Failures, Task

-----------------------------------------------------------------------------
(* The goroutines live in phase B only *)

LEMMA StoppedIsIdle == Stop => Active' = {}
BY DEF Stop, Active, NoTasks

LEMMA NextGoroutines ==
  ASSUME TypeOK, GoroutinesOnlyInPhaseB, [Next]_vars
  PROVE  GoroutinesOnlyInPhaseB'
<1> USE DEF GoroutinesOnlyInPhaseB, PhaseB
<1>0. CASE UNCHANGED vars \/ Terminated
  BY <1>0 DEF Terminated, Active, vars, store, volatile, progress, goroutines, outside
<1>1. CASE StartRun
  <2>1. LoadCheckpoint \in Checkpoints
    BY FreshIsCheckpoint DEF TypeOK, LoadCheckpoint
  <2>2. pc' \notin {"streaming", "acquiring", "draining", "flushing", "failing"}
    BY <1>1, <2>1, CheckpointFields DEF StartRun, PhaseLocation, Phases
  <2>3. QED BY <1>1, <2>2 DEF StartRun, Active, progress, goroutines
<1>2. CASE \/ SkipListing \/ ListEntries \/ SaveListed \/ SaveCompleting \/ SaveReporting
           \/ Finalize \/ FinalizeFails \/ DeleteInputs \/ ReportCompleted
  BY <1>2 DEF SkipListing, ListEntries, SaveListed, SaveCompleting, SaveReporting, Finalize,
              FinalizeFails, DeleteInputs, ReportCompleted, Active, volatile, progress, goroutines
<1>3. CASE \/ LoadOrOpenFails \/ ListEntriesFails \/ SaveFails \/ StreamFails \/ EntryListMissing
           \/ EndOfStream \/ Drained
  BY <1>3 DEF LoadOrOpenFails, ListEntriesFails, SaveFails, StreamFails, EntryListMissing,
              EndOfStream, Drained, Active, volatile, progress, goroutines
<1>4. CASE DeleteCheckpoint \/ ReportFailed \/ CompletionNotReported \/ Crash
  <2>1. Stop
    BY <1>4 DEF DeleteCheckpoint, ReportFailed, CompletionNotReported, Crash
  <2>2. QED BY <2>1, StoppedIsIdle DEF Stop
<1>5. CASE BeginExtraction \/ PassEntry
  BY <1>5 DEF BeginExtraction, PassEntry, Active
<1>6. CASE TakeEntry
  BY <1>6 DEF TakeEntry, FileAhead, Active, volatile, progress, goroutines
<1>7. CASE SpawnExtraction
  <2>1. streamPos \in Files
    BY <1>7, EntriesAssumption DEF TypeOK, SpawnExtraction, Files, Entries
  <2>2. QED BY <1>7, <2>1 DEF SpawnExtraction
<1>8. CASE \E i \in Entries : Task(i)
  <2> PICK i \in Entries : Task(i)
    BY <1>8
  <2>1. Active # {}
    BY DEF Task, ExtractFails, ExtractSucceeds, SaveSnapshot, CheckAsset, Active
  <2>2. pc \in {"streaming", "acquiring", "draining", "flushing", "failing"}
    BY <2>1
  <2>3. pc' = pc \/ pc' = "failing"
    BY DEF Task, ExtractFails, ExtractSucceeds, SaveSnapshot, CheckAsset
  <2>4. extracting' \subseteq extracting /\ streamPos' = streamPos /\ resumeAfter' = resumeAfter
    BY DEF Task, ExtractFails, ExtractSucceeds, SaveSnapshot, CheckAsset
  <2>5. QED BY <2>2, <2>3, <2>4
<1>9. CASE FinalFlush
  <2>1. PICK w \in FlushChunk(Writer) :
          /\ buffer' = w.buffer
          /\ \/ pc' = "failing"
             \/ w.failed = 0 /\ pc' = "completing"
    BY <1>9 DEF FinalFlush
  <2>2. pc' = "completing" => buffer' = {}
    BY <2>1, FlushExtends, WriterIsOK DEF Writer
  <2>3. Active' = Active /\ Active = {} /\ extracting' = extracting
    BY <1>9 DEF FinalFlush, AllGoroutinesDone, Active
  <2>4. QED BY <2>1, <2>2, <2>3
<1>10. CASE DeleteAsset
  BY <1>10 DEF DeleteAsset, Active, volatile, progress, goroutines
<1>11. QED
  BY <1>0, <1>1, <1>2, <1>3, <1>4, <1>5, <1>6, <1>7, <1>8, <1>9, <1>10
     DEF Next, Main, Failures, Task

-----------------------------------------------------------------------------
(* What depends on the chunk objects *)

\* The chunks below n are the same in chs and in new.
SameBelow(chs, new, n) ==
  \A k \in DOMAIN chs : k < n => k \in DOMAIN new /\ new[k] = chs[k]

\* A checkpoint stays good as long as nobody touches the chunks it counts.
LEMMA GoodKept ==
  ASSUME NEW chs, NEW new, NEW c \in Checkpoints, SameBelow(chs, new, c.chunks),
         GoodCheckpoint(chs, c)
  PROVE  GoodCheckpoint(new, c)
<1> USE CheckpointFields DEF SameBelow, GoodCheckpoint, ChunksExist
<1>1. ChunksExist(new, c.chunks)
  OBVIOUS
<1>2. ChunksUseRoot(new, c.chunks, c.root)
  BY DEF ChunksUseRoot
<1>3. Resumable(new, c)
  BY DEF Resumable, Accounted, InChunks
<1>4. QED BY <1>1, <1>2, <1>3

LEMMA CompleteKept ==
  ASSUME NEW chs, NEW new, NEW c \in Checkpoints, SameBelow(chs, new, c.chunks),
         Complete(chs, c)
  PROVE  Complete(new, c)
BY CheckpointFields DEF SameBelow, Complete, Accounted, InChunks

LEMMA FreshIsGood ==
  ASSUME NEW chs, NEW c, c.chunks = 0, c.last = -1
  PROVE  GoodCheckpoint(chs, c)
BY DEF GoodCheckpoint, ChunksExist, ChunksUseRoot, Resumable, Files, Entries

\* Finalize publishes a manifest that accounts for every file under one root.
LEMMA FinalManifestIsComplete ==
  ASSUME TypeOK, GoodCheckpoint(chunk, cp), Complete(chunk, cp)
  PROVE  /\ FinalManifest # NoManifest
         /\ Files \subseteq IdxOf(FinalManifest.lines) \cup FinalManifest.errs \cup FinalManifest.lost
         /\ \A l1, l2 \in FinalManifest.lines : l1.root = l2.root
<1> DEFINE merged == Merged(chunk, cp.chunks)
<1>1. FinalManifest # NoManifest
  <2>1. "lines" \in DOMAIN FinalManifest /\ "lines" \notin DOMAIN NoManifest
    BY DEF FinalManifest, NoManifest
  <2>2. QED BY <2>1
<1>2. ASSUME NEW i \in Files, InChunks(chunk, i, cp.chunks, cp.root)
      PROVE  i \in IdxOf(merged)
  <2>1. [idx |-> i, root |-> cp.root] \in Lines
    BY CheckpointFields DEF TypeOK, Lines, Files
  <2>2. [idx |-> i, root |-> cp.root] \in merged
    BY <1>2, <2>1 DEF Merged, InChunks
  <2>3. QED BY <2>2 DEF IdxOf
<1>3. Files \subseteq IdxOf(merged) \cup cp.errs \cup cp.lost
  BY <1>2 DEF Complete, Accounted
<1>4. \A l \in merged : l.root = cp.root
  BY DEF Merged, GoodCheckpoint, ChunksUseRoot
<1>5. FinalManifest.lines = merged /\ FinalManifest.errs = cp.errs /\ FinalManifest.lost = cp.lost
  BY DEF FinalManifest
<1> HIDE DEF merged
<1>6. QED BY <1>1, <1>3, <1>4, <1>5

LEMMA SavedAreCheckpoints ==
  ASSUME TypeOK
  PROVE  /\ cp \in Checkpoints
         /\ ckpt # NoCheckpoint => ckpt \in Checkpoints
         /\ \A i \in Entries : saving[i] # NoCheckpoint => saving[i] \in Checkpoints
BY DEF TypeOK

\* An idle process has no snapshot and nothing to say about phase B.
LEMMA IdleInv ==
  ASSUME Active' = {}, pc' \notin PhaseB
  PROVE  SnapshotsInv' /\ PhaseBInv'
BY DEF Active, SnapshotsInv, PhaseBInv

-----------------------------------------------------------------------------
(* The data, action by action *)

\* Starting from the stored checkpoint, which is resumable.
LEMMA StartRunData ==
  ASSUME IInv, assetExists, StartRun
  PROVE  DataInv'
<1> USE DEF IInv, DataInv
<1>1. cp' = LoadCheckpoint /\ pc' = PhaseLocation(cp'.phase) /\ UNCHANGED <<store, progress>>
      /\ job' \in {job, "running"} /\ pc = "stopped"
  BY DEF StartRun
<1>2. Active' = {} /\ Active = {}
  BY <1>1 DEF GoroutinesOnlyInPhaseB, PhaseB, Active, progress, goroutines
<1>3. StoredInv' /\ ManifestInv' /\ (job' = "completed" => manifest' # NoManifest)
  BY <1>1 DEF StoredInv, ManifestInv, store
<1>4. CASE ckpt = NoCheckpoint
  <2>1. cp' = FreshCheckpoint
    BY <1>1, <1>4 DEF LoadCheckpoint
  <2>2. pc' = "listing" /\ cp'.chunks = 0 /\ cp'.last = -1 /\ ckpt' = NoCheckpoint
    <3>1. cp'.phase = "entries_listing" /\ cp'.chunks = 0 /\ cp'.last = -1
      BY <2>1 DEF FreshCheckpoint
    <3>2. pc' = "listing"
      BY <1>1, <3>1 DEF PhaseLocation
    <3>3. QED BY <1>1, <1>4, <3>1, <3>2 DEF store
  <2>3. LocationInv'
    BY <2>1, <2>2 DEF LocationInv
  <2>4. pc' \notin PhaseB
    BY <2>2 DEF PhaseB
  <2>5. QED BY <1>2, <1>3, <2>3, <2>4, IdleInv DEF DataInv
<1>5. CASE ckpt # NoCheckpoint
  <2>1. cp' = ckpt /\ ckpt \in Checkpoints /\ ckpt.phase # "entries_listing"
    BY <1>1, <1>5 DEF LoadCheckpoint, TypeOK, StoredInv
  <2>2. ckpt.phase \in {"entries_listed", "extracting", "completing", "reporting"}
    BY <2>1, CheckpointFields DEF Phases
  <2>3. \/ pc' = "starting" /\ ckpt.phase \in {"entries_listed", "extracting"}
        \/ pc' = "finalizing" /\ ckpt.phase = "completing"
        \/ pc' = "callback" /\ ckpt.phase = "reporting"
    BY <1>1, <2>1, <2>2 DEF PhaseLocation
  <2>4. LocationInv'
    BY <1>1, <1>5, <2>1, <2>3, CheckpointFields DEF LocationInv, StoredInv, store
  <2>5. pc' \notin PhaseB
    BY <2>3 DEF PhaseB
  <2>6. QED BY <1>2, <1>3, <2>4, <2>5, IdleInv DEF DataInv
<1>6. QED BY <1>4, <1>5

\* Steps that move the main goroutine, or fail, and touch no object that counts.
LEMMA ControlData ==
  ASSUME IInv, assetExists,
         \/ LoadOrOpenFails \/ EntryListMissing \/ ListEntriesFails \/ SkipListing
         \/ ListEntries \/ TakeEntry \/ EndOfStream \/ StreamFails \/ Drained
  PROVE  DataInv'
<1>1. TypeOK /\ GoroutinesOnlyInPhaseB /\ DataInv
  BY DEF IInv
<1>2. UNCHANGED <<ckpt, chunk, manifest>> /\ job' \in {job, "running"} /\ UNCHANGED progress
  BY DEF LoadOrOpenFails, EntryListMissing, ListEntriesFails, SkipListing, ListEntries,
         TakeEntry, EndOfStream, StreamFails, Drained, store, volatile, outside
<1>3. StoredInv' /\ ManifestInv' /\ (job' = "completed" => manifest' # NoManifest)
  BY <1>1, <1>2 DEF DataInv, StoredInv, ManifestInv
<1>4. CASE LoadOrOpenFails \/ EntryListMissing \/ ListEntriesFails \/ Drained
  <2>1. Active' = {} /\ pc' = "failing"
    BY <1>1, <1>2, <1>4 DEF LoadOrOpenFails, EntryListMissing, ListEntriesFails, Drained,
       AllGoroutinesDone, GoroutinesOnlyInPhaseB, PhaseB, Active, progress, goroutines
  <2>2. LocationInv'
    BY <2>1 DEF LocationInv
  <2>3. QED BY <1>3, <2>1, <2>2, IdleInv DEF DataInv, PhaseB
<1>5. CASE SkipListing \/ ListEntries
  <2>1. /\ Active' = {}
        /\ ckpt' = NoCheckpoint
        /\ cp'.phase = "entries_listed" /\ cp'.chunks = 0 /\ cp'.last = -1
        /\ pc' \in {"starting", "listed"}
    BY <1>1, <1>2, <1>5 DEF SkipListing, ListEntries, DataInv, LocationInv, FreshCheckpoint,
       GoroutinesOnlyInPhaseB, PhaseB, Active, progress, goroutines
  <2>2. LocationInv'
    BY <2>1, FreshIsGood DEF LocationInv
  <2>3. QED BY <1>3, <2>1, <2>2, IdleInv DEF DataInv, PhaseB
<1>6. CASE TakeEntry \/ EndOfStream \/ StreamFails
  <2>1. /\ pc = "streaming" /\ pc' \in {"acquiring", "draining", "flushing"}
        /\ UNCHANGED <<cp, extracting, saving, checking, chunkIndex, buffer, settled, loWater,
                       resumeAfter, streamPos>>
    BY <1>6 DEF TakeEntry, FileAhead, EndOfStream, StreamFails, volatile, progress, goroutines
  <2>2. SnapshotsInv'
    BY <1>1, <1>2, <2>1 DEF DataInv, SnapshotsInv
  <2>3. PhaseBInv'
    BY <1>1, <1>2, <2>1 DEF DataInv, PhaseBInv, PhaseB, Held
  <2>4. LocationInv'
    BY <2>1 DEF LocationInv
  <2>5. QED BY <1>3, <2>2, <2>3, <2>4 DEF DataInv
<1>7. QED BY <1>4, <1>5, <1>6

\* Saving the checkpoint of the main goroutine, successfully or not.
LEMMA SaveData ==
  ASSUME IInv, assetExists, SaveListed \/ SaveCompleting \/ SaveReporting \/ SaveFails
  PROVE  DataInv'
<1>1. TypeOK /\ GoroutinesOnlyInPhaseB /\ DataInv
  BY DEF IInv
<1>2. /\ pc \in {"listed", "completing", "reporting"}
      /\ UNCHANGED <<chunk, manifest, cp>> /\ UNCHANGED progress
      /\ job' \in {job, "running"}
      /\ ckpt' \in {ckpt, cp}
      /\ cp \in Checkpoints
  BY <1>1 DEF SaveListed, SaveCompleting, SaveReporting, SaveFails, AfterFailedPut, volatile,
     outside, TypeOK
<1>3. /\ pc' \in {"starting", "finalizing", "cleaning", "failing"}
      /\ pc' = "starting" => pc = "listed" /\ ckpt' = cp
      /\ pc' = "finalizing" => pc = "completing" /\ ckpt' = cp
      /\ pc' = "cleaning" => pc = "reporting" /\ ckpt' = cp
  BY DEF SaveListed, SaveCompleting, SaveReporting, SaveFails
<1>4. Active' = {}
  BY <1>1, <1>2 DEF GoroutinesOnlyInPhaseB, PhaseB, Active, progress, goroutines
<1>5. ManifestInv' /\ (job' = "completed" => manifest' # NoManifest)
  BY <1>1, <1>2 DEF DataInv, ManifestInv
<1>6. /\ pc = "listed" => cp.phase = "entries_listed" /\ GoodCheckpoint(chunk, cp)
      /\ pc = "completing" => cp.phase = "completing" /\ GoodCheckpoint(chunk, cp) /\ Complete(chunk, cp)
      /\ pc = "reporting" => cp.phase = "reporting" /\ manifest # NoManifest
  BY <1>1, FreshIsGood DEF DataInv, LocationInv
<1>7. StoredInv'
  <2>1. CASE ckpt' = ckpt
    BY <1>1, <1>2, <2>1 DEF DataInv, StoredInv
  <2>2. CASE ckpt' = cp
    BY <1>2, <1>6, <2>2 DEF StoredInv
  <2>3. QED BY <1>2, <2>1, <2>2
<1>8. LocationInv'
  BY <1>2, <1>3, <1>6, CheckpointFields DEF LocationInv
<1>9. QED BY <1>3, <1>4, <1>5, <1>7, <1>8, IdleInv DEF DataInv, PhaseB

\* Phase B starts from a good checkpoint: what it skips is held.
LEMMA BeginExtractionData ==
  ASSUME IInv, assetExists, BeginExtraction
  PROVE  DataInv'
<1>1. TypeOK /\ GoroutinesOnlyInPhaseB /\ DataInv
  BY DEF IInv
<1>2. /\ pc = "starting" /\ pc' = "streaming"
      /\ UNCHANGED <<ckpt, chunk, manifest, job, buffer, extracting, saving, checking>>
      /\ chunkIndex' = cp.chunks /\ resumeAfter' = cp.last /\ loWater' = cp.last
      /\ settled' = 0..cp.last /\ streamPos' = 0
  BY DEF BeginExtraction, store, outside
<1>3. cp \in Checkpoints /\ cp' \in Checkpoints
      /\ cp'.phase = "extracting" /\ cp'.chunks = cp.chunks /\ cp'.root = cp.root
      /\ cp'.errs = cp.errs /\ cp'.lost = cp.lost
  BY <1>1 DEF BeginExtraction, TypeOK, Checkpoints, Phases
<1>4. StoredInv' /\ ManifestInv' /\ (job' = "completed" => manifest' # NoManifest)
  BY <1>1, <1>2 DEF DataInv, StoredInv, ManifestInv
<1>5. SnapshotsInv'
  BY <1>1, <1>2 DEF GoroutinesOnlyInPhaseB, PhaseB, Active, SnapshotsInv
<1>6. LocationInv'
  BY <1>2 DEF LocationInv
<1>7. GoodCheckpoint(chunk, cp) /\ buffer = {}
      /\ (ckpt # NoCheckpoint => ckpt.phase \in {"entries_listed", "extracting"}
                                 /\ ckpt.chunks <= cp.chunks)
  BY <1>1, <1>2 DEF DataInv, LocationInv, GoroutinesOnlyInPhaseB, PhaseB
<1>8. ASSUME NEW i \in Files \cap settled' PROVE Held(i)'
  <2>1. Accounted(chunk, cp, i)
    BY <1>2, <1>3, <1>7, CheckpointFields DEF GoodCheckpoint, Resumable
  <2>2. QED BY <1>2, <1>3, <2>1 DEF Accounted, Held
<1>9. \A i \in Files : i < streamPos' \/ i <= resumeAfter' => i \in settled' \cup extracting'
  BY <1>2, <1>3, CheckpointFields DEF Files, Entries
<1>10. PhaseBInv'
  BY <1>2, <1>3, <1>7, <1>8, <1>9, CheckpointFields DEF PhaseBInv, GoodCheckpoint
<1>11. QED BY <1>4, <1>5, <1>6, <1>10 DEF DataInv

\* Passing over an entry and spawning one keep track of what is settled.
LEMMA StreamData ==
  ASSUME IInv, assetExists, PassEntry \/ SpawnExtraction
  PROVE  DataInv'
<1>1. TypeOK /\ GoroutinesOnlyInPhaseB /\ DataInv
  BY DEF IInv
<1>2. /\ pc \in PhaseB /\ pc' = "streaming" /\ streamPos' = streamPos + 1 /\ streamPos \in 0..N
      /\ UNCHANGED <<ckpt, chunk, manifest, job, cp, chunkIndex, buffer, resumeAfter, saving>>
  BY <1>1 DEF PassEntry, SpawnExtraction, PhaseB, store, outside, TypeOK
<1>3. StoredInv' /\ ManifestInv' /\ SnapshotsInv' /\ (job' = "completed" => manifest' # NoManifest)
  BY <1>1, <1>2 DEF DataInv, StoredInv, ManifestInv, SnapshotsInv
<1>4. LocationInv'
  BY <1>2 DEF LocationInv
<1>5. PhaseBInv
  BY <1>1 DEF DataInv
<1>6. Files \cap settled' = Files \cap settled /\ 0..loWater' \subseteq settled'
  <2>1. CASE PassEntry
    <3>1. settled \subseteq settled' /\ 0..loWater \subseteq settled
      BY <1>2, <1>5, <2>1 DEF PassEntry, PhaseBInv
    <3>2. 0..loWater' \subseteq settled'
      BY <1>1, <2>1, <3>1, LowWaterBounds DEF PassEntry, TypeOK
    <3>3. QED BY <2>1, <3>2 DEF PassEntry, Files
  <2>2. CASE SpawnExtraction
    BY <1>2, <1>5, <2>2 DEF SpawnExtraction, PhaseBInv
  <2>3. QED BY <2>1, <2>2
<1>7. \A i \in Files : i < streamPos' \/ i <= resumeAfter' => i \in settled' \cup extracting'
  <2> SUFFICES ASSUME NEW i \in Files, i < streamPos' \/ i <= resumeAfter'
               PROVE  i \in settled' \cup extracting'
    OBVIOUS
  <2>1. i \in Int /\ (i < streamPos \/ i <= resumeAfter \/ i = streamPos)
    BY <1>2, EntriesAssumption DEF Files, Entries
  <2>2. CASE PassEntry
    BY <1>2, <1>5, <2>1, <2>2 DEF PassEntry, PhaseBInv, Files
  <2>3. CASE SpawnExtraction
    BY <1>2, <1>5, <2>1, <2>3 DEF SpawnExtraction, PhaseBInv
  <2>4. QED BY <2>2, <2>3
<1>8. \A i \in Files \cap settled' : Held(i)'
  BY <1>2, <1>5, <1>6 DEF PhaseBInv, Held
<1>9. PhaseBInv'
  BY <1>2, <1>5, <1>6, <1>7, <1>8 DEF PhaseBInv, PhaseB
<1>10. QED BY <1>3, <1>4, <1>9 DEF DataInv

\* A goroutine acts only in phase B, or while a failing run drains.
LEMMA GoroutineActs ==
  ASSUME IInv, assetExists, NEW i \in Entries, Task(i)
  PROVE  /\ pc \in PhaseB \cup {"failing"}
         /\ PhaseBInv
         /\ SnapshotsInv
         /\ StoredInv /\ ManifestInv /\ (job = "completed" => manifest # NoManifest)
         /\ pc' = pc
         /\ LocationInv'
<1>1. Active # {}
  BY DEF Task, ExtractFails, ExtractSucceeds, SaveSnapshot, CheckAsset, Active
<1>2. pc \in PhaseB \cup {"failing"}
  BY <1>1 DEF IInv, GoroutinesOnlyInPhaseB
<1>3. pc' = pc
  BY DEF Task, ExtractFails, ExtractSucceeds, SaveSnapshot, CheckAsset
<1>4. LocationInv'
  BY <1>2, <1>3 DEF LocationInv, PhaseB
<1>5. QED BY <1>1, <1>2, <1>3, <1>4 DEF IInv, DataInv

\* PhaseBInv's premise held before the step of a goroutine, whatever it is after.
LEMMA GoroutineInPhaseB ==
  ASSUME IInv, assetExists, NEW i \in Entries, Task(i)
  PROVE  pc \in PhaseB \/ (pc = "failing" /\ Active # {})
<1>1. Active # {}
  BY DEF Task, ExtractFails, ExtractSucceeds, SaveSnapshot, CheckAsset, Active
<1>2. QED BY <1>1 DEF IInv, GoroutinesOnlyInPhaseB

LEMMA ExtractFailsData ==
  ASSUME IInv, assetExists, NEW i \in Entries, ExtractFails(i)
  PROVE  DataInv'
<1>1. Task(i)
  BY DEF Task
<1>2. /\ PhaseBInv /\ SnapshotsInv /\ StoredInv /\ ManifestInv /\ LocationInv'
      /\ (job = "completed" => manifest # NoManifest)
      /\ (pc \in PhaseB \/ (pc = "failing" /\ Active # {}))
  BY <1>1, GoroutineActs, GoroutineInPhaseB
<1>3. /\ UNCHANGED <<ckpt, chunk, manifest, job, pc, chunkIndex, buffer, resumeAfter,
                     streamPos, saving>>
      /\ extracting' = extracting \ {i} /\ settled' = settled \cup {i}
      /\ loWater' \in LowWater(loWater, settled')
      /\ cp' = [cp EXCEPT !.errs = cp.errs \cup {i}]
  BY DEF ExtractFails, store, outside
<1>4. cp \in Checkpoints /\ loWater \in -1..(N - 1)
  BY DEF IInv, TypeOK
<1>5. cp'.phase = cp.phase /\ cp'.chunks = cp.chunks /\ cp'.root = cp.root
      /\ cp'.errs = cp.errs \cup {i} /\ cp'.lost = cp.lost
  BY <1>3, <1>4 DEF Checkpoints
<1>6. StoredInv' /\ ManifestInv' /\ SnapshotsInv' /\ (job' = "completed" => manifest' # NoManifest)
  BY <1>2, <1>3 DEF StoredInv, ManifestInv, SnapshotsInv
<1>7. 0..loWater' \subseteq settled'
  <2>1. 0..loWater \subseteq settled'
    BY <1>2, <1>3 DEF PhaseBInv
  <2>2. QED BY <1>3, <1>4, <2>1, LowWaterBounds
<1>8. \A j \in Files \cap settled' : Held(j)'
  BY <1>2, <1>3, <1>5 DEF PhaseBInv, Held
<1>9. \A j \in Files : j < streamPos' \/ j <= resumeAfter' => j \in settled' \cup extracting'
  BY <1>2, <1>3 DEF PhaseBInv
<1>10. PhaseBInv'
  BY <1>2, <1>3, <1>5, <1>7, <1>8, <1>9 DEF PhaseBInv
<1>11. QED BY <1>2, <1>6, <1>10 DEF DataInv

\* A snapshot may be saved late: it is good, and counts no chunk that is not there.
LEMMA SaveSnapshotData ==
  ASSUME IInv, assetExists, NEW i \in Entries, SaveSnapshot(i)
  PROVE  DataInv'
<1>1. Task(i)
  BY DEF Task
<1>2. /\ PhaseBInv /\ SnapshotsInv /\ StoredInv /\ ManifestInv /\ LocationInv'
      /\ (job = "completed" => manifest # NoManifest)
      /\ (pc \in PhaseB \/ (pc = "failing" /\ Active # {}))
  BY <1>1, GoroutineActs, GoroutineInPhaseB
<1>3. /\ UNCHANGED <<chunk, manifest, job, pc, cp, chunkIndex, buffer, settled, loWater,
                     resumeAfter, streamPos, extracting>>
      /\ ckpt' \in {ckpt, saving[i]}
      /\ saving[i] # NoCheckpoint
      /\ saving' = [saving EXCEPT ![i] = NoCheckpoint]
  BY DEF SaveSnapshot, AfterFailedPut
<1>4. saving \in [Entries -> Checkpoints \cup {NoCheckpoint}]
  BY DEF IInv, TypeOK
<1>5. SnapshotsInv'
  BY <1>2, <1>3, <1>4 DEF SnapshotsInv
<1>6. saving[i].phase = "extracting" /\ saving[i].chunks <= chunkIndex
      /\ GoodCheckpoint(chunk, saving[i])
  BY <1>2, <1>3 DEF SnapshotsInv
<1>7. StoredInv'
  BY <1>2, <1>3, <1>6 DEF StoredInv
<1>8. PhaseBInv'
  BY <1>2, <1>3, <1>6 DEF PhaseBInv, Held
<1>9. ManifestInv' /\ (job' = "completed" => manifest' # NoManifest)
  BY <1>2, <1>3 DEF ManifestInv
<1>10. QED BY <1>2, <1>5, <1>7, <1>8, <1>9 DEF DataInv

LEMMA CheckAssetData ==
  ASSUME IInv, assetExists, NEW i \in Entries, CheckAsset(i)
  PROVE  DataInv'
<1>1. Task(i)
  BY DEF Task
<1>2. /\ PhaseBInv /\ SnapshotsInv /\ StoredInv /\ ManifestInv /\ LocationInv'
      /\ (job = "completed" => manifest # NoManifest)
      /\ (pc \in PhaseB \/ (pc = "failing" /\ Active # {}))
  BY <1>1, GoroutineActs, GoroutineInPhaseB
<1>3. /\ UNCHANGED <<ckpt, chunk, manifest, pc, cp, chunkIndex, buffer, settled, loWater,
                     resumeAfter, streamPos, extracting, saving>>
      /\ job' \in {job, "running"}
  BY DEF CheckAsset, store
<1>4. QED
  BY <1>2, <1>3 DEF DataInv, StoredInv, ManifestInv, SnapshotsInv, PhaseBInv, Held

\* What a run of the manifest writer from buf, at the current chunk index, does
\* to checkpoints and to the files held.
LEMMA WriterStep ==
  ASSUME TypeOK,
         NEW buf, buf \subseteq Lines,
         ChunksExist(chunk, chunkIndex), ChunksUseRoot(chunk, chunkIndex, cp.root),
         \A l \in buf : l.root = cp.root,
         NEW v, WriterOK(v),
         Extends([buffer |-> buf, next |-> chunkIndex, failed |-> 0, chunk |-> chunk], v)
  PROVE  /\ chunkIndex <= v.next
         /\ \A n \in Nat : n <= chunkIndex => SameBelow(chunk, v.chunk, n)
         /\ ChunksExist(v.chunk, v.next)
         /\ ChunksUseRoot(v.chunk, v.next, cp.root)
         /\ \A l \in v.buffer : l \in buf
         /\ \A j \in Entries :
              InChunks(chunk, j, chunkIndex, cp.root) \/ [idx |-> j, root |-> cp.root] \in buf =>
                InChunks(v.chunk, j, v.next, cp.root) \/ [idx |-> j, root |-> cp.root] \in v.buffer
<1> DEFINE w == [buffer |-> buf, next |-> chunkIndex, failed |-> 0, chunk |-> chunk]
<1>1. w.buffer = buf /\ w.next = chunkIndex /\ w.chunk = chunk /\ Extends(w, v)
  OBVIOUS
<1> HIDE DEF w
<1>2. chunkIndex \in Nat /\ DOMAIN chunk \subseteq Nat /\ v.next \in Nat /\ DOMAIN v.chunk \subseteq Nat
  BY DEF TypeOK, WriterOK
<1>3. chunkIndex <= v.next
  BY <1>1 DEF Extends
<1>4. \A k \in DOMAIN chunk : k < chunkIndex => k \in DOMAIN v.chunk /\ v.chunk[k] = chunk[k]
  BY <1>1 DEF Extends
<1>5. \A k \in chunkIndex..(v.next - 1) : k \in DOMAIN v.chunk /\ v.chunk[k] \subseteq buf
  BY <1>1 DEF Extends
<1>6. \A l \in buf : l \in v.buffer \/ \E k \in 0..(v.next - 1) : k \in DOMAIN v.chunk /\ l \in v.chunk[k]
  BY <1>1 DEF Extends
<1>7. \A n \in Nat : n <= chunkIndex => SameBelow(chunk, v.chunk, n)
  BY <1>2, <1>4 DEF SameBelow
<1>8. ChunksExist(v.chunk, v.next)
  BY <1>2, <1>3, <1>4, <1>5 DEF ChunksExist
<1>9. ChunksUseRoot(v.chunk, v.next, cp.root)
  <2> SUFFICES ASSUME NEW k \in 0..(v.next - 1), k \in DOMAIN v.chunk, NEW l \in v.chunk[k]
               PROVE  l.root = cp.root
    BY DEF ChunksUseRoot
  <2>1. CASE k < chunkIndex
    <3>1. k \in 0..(chunkIndex - 1) /\ k \in DOMAIN chunk
      BY <1>2, <2>1 DEF ChunksExist
    <3>2. l \in chunk[k]
      BY <1>4, <2>1, <3>1
    <3>3. QED BY <3>1, <3>2 DEF ChunksUseRoot
  <2>2. CASE k >= chunkIndex
    <3>1. k \in chunkIndex..(v.next - 1)
      BY <1>2, <2>2
    <3>2. QED BY <1>5, <3>1
  <2>3. QED BY <1>2, <2>1, <2>2
<1>10. ASSUME NEW j \in Entries,
              InChunks(chunk, j, chunkIndex, cp.root) \/ [idx |-> j, root |-> cp.root] \in buf
       PROVE  InChunks(v.chunk, j, v.next, cp.root) \/ [idx |-> j, root |-> cp.root] \in v.buffer
  <2>1. CASE InChunks(chunk, j, chunkIndex, cp.root)
    <3>1. PICK k \in 0..(chunkIndex - 1) : k \in DOMAIN chunk /\ [idx |-> j, root |-> cp.root] \in chunk[k]
      BY <2>1 DEF InChunks
    <3>2. k \in 0..(v.next - 1) /\ k \in DOMAIN v.chunk /\ [idx |-> j, root |-> cp.root] \in v.chunk[k]
      BY <1>2, <1>3, <1>4, <3>1
    <3>3. QED BY <3>2 DEF InChunks
  <2>2. CASE [idx |-> j, root |-> cp.root] \in buf
    BY <1>6, <2>2 DEF InChunks
  <2>3. QED BY <1>10, <2>1, <2>2
<1>11. \A l \in v.buffer : l \in buf
  BY <1>1 DEF Extends
<1>12. QED BY <1>3, <1>7, <1>8, <1>9, <1>10, <1>11

\* The critical section of a goroutine whose entry was uploaded: the line is
\* buffered or flushed, and a snapshot taken now is a good checkpoint.
LEMMA ExtractSucceedsData ==
  ASSUME IInv, assetExists, NEW i \in Entries, ExtractSucceeds(i)
  PROVE  DataInv'
<1> DEFINE line == [idx |-> i, root |-> cp.root]
           buf  == buffer \cup {line}
<1>1. Task(i)
  BY DEF Task
<1>2. /\ PhaseBInv /\ SnapshotsInv /\ StoredInv /\ ManifestInv /\ LocationInv'
      /\ (job = "completed" => manifest # NoManifest)
      /\ (pc \in PhaseB \/ (pc = "failing" /\ Active # {}))
  BY <1>1, GoroutineActs, GoroutineInPhaseB
<1>3. TypeOK /\ extracting \subseteq Files /\ i \in Files
  BY DEF IInv, GoroutinesOnlyInPhaseB, ExtractSucceeds
<1>4. PICK doCheckpoint \in BOOLEAN, w1 \in Add(Writer, line) :
        \E w2 \in FlushAtCheckpoint(doCheckpoint, w1) :
            /\ buffer' = w2.buffer
            /\ chunkIndex' = w2.next
            /\ chunk' = w2.chunk
            /\ cp' = [cp EXCEPT !.count = cp.count + 1, !.last = loWater',
                                !.chunks = IF doCheckpoint THEN w2.next ELSE cp.chunks]
            /\ saving' = IF doCheckpoint
                         THEN [saving EXCEPT ![i] = [cp' EXCEPT !.lost = Unflushed(cp', w2)]]
                         ELSE saving
  BY DEF ExtractSucceeds
<1>5. PICK w2 \in FlushAtCheckpoint(doCheckpoint, w1) :
            /\ buffer' = w2.buffer
            /\ chunkIndex' = w2.next
            /\ chunk' = w2.chunk
            /\ cp' = [cp EXCEPT !.count = cp.count + 1, !.last = loWater',
                                !.chunks = IF doCheckpoint THEN w2.next ELSE cp.chunks]
            /\ saving' = IF doCheckpoint
                         THEN [saving EXCEPT ![i] = [cp' EXCEPT !.lost = Unflushed(cp', w2)]]
                         ELSE saving
  BY <1>4
<1>6. /\ UNCHANGED <<ckpt, manifest, pc, resumeAfter, streamPos, job>>
      /\ extracting' = extracting \ {i} /\ settled' = settled \cup {i}
      /\ loWater' \in LowWater(loWater, settled')
  BY DEF ExtractSucceeds
<1>7. cp \in Checkpoints /\ loWater \in -1..(N - 1) /\ chunkIndex \in Nat /\ buffer \subseteq Lines
      /\ line \in Lines /\ saving \in [Entries -> Checkpoints \cup {NoCheckpoint}]
      /\ (ckpt # NoCheckpoint => ckpt \in Checkpoints)
  BY <1>3, CheckpointFields DEF TypeOK, Lines
<1>8. /\ cp'.phase = cp.phase /\ cp'.root = cp.root /\ cp'.errs = cp.errs /\ cp'.lost = cp.lost
      /\ cp'.last = loWater' /\ cp'.chunks = IF doCheckpoint THEN w2.next ELSE cp.chunks
  BY <1>5, <1>7 DEF Checkpoints
<1>9. DOMAIN cp' = DOMAIN cp
  BY <1>5
<1>10. /\ WriterOK(w2)
       /\ Extends([buffer |-> buf, next |-> chunkIndex, failed |-> 0, chunk |-> chunk], w2)
       /\ doCheckpoint /\ w2.failed = 0 => w2.buffer = {}
  <2> DEFINE added == [buffer |-> buf, next |-> chunkIndex, failed |-> 0, chunk |-> chunk]
  <2>1. WriterOK(w1) /\ Extends(added, w1) /\ WriterOK(added)
    BY <1>3, <1>7, WriterIsOK, AddExtends DEF Writer, WriterOK, TypeOK
  <2>2. added.failed = 0 /\ added.failed <= w1.failed
    BY <2>1 DEF Extends
  <2> HIDE DEF added
  <2>3. CASE doCheckpoint
    <3>1. w2 \in FlushChunk(w1)
      BY <2>3 DEF FlushAtCheckpoint
    <3>2. WriterOK(w2) /\ Extends(w1, w2) /\ (w2.failed = w1.failed => w2.buffer = {})
      BY <2>1, <3>1, FlushExtends
    <3>3. Extends(added, w2)
      BY <2>1, <3>2, ExtendsTransitive
    <3>4. w2.failed = 0 => w2.failed = w1.failed
      BY <2>1, <2>2, <3>2 DEF Extends, WriterOK
    <3>5. QED BY <3>2, <3>3, <3>4 DEF added
  <2>4. CASE ~doCheckpoint
    BY <2>1, <2>4 DEF FlushAtCheckpoint, added
  <2>5. QED BY <2>3, <2>4
<1>11. /\ ChunksExist(chunk, chunkIndex) /\ ChunksUseRoot(chunk, chunkIndex, cp.root)
       /\ \A l \in buf : l.root = cp.root /\ l.idx \in Files
       /\ buf \subseteq Lines
  BY <1>2, <1>3, <1>7 DEF PhaseBInv
<1> HIDE DEF buf
<1>12. /\ chunkIndex <= chunkIndex'
       /\ \A n \in Nat : n <= chunkIndex => SameBelow(chunk, chunk', n)
       /\ ChunksExist(chunk', chunkIndex')
       /\ ChunksUseRoot(chunk', chunkIndex', cp'.root)
       /\ \A l \in buffer' : l \in buf
       /\ \A j \in Entries :
            InChunks(chunk, j, chunkIndex, cp.root) \/ [idx |-> j, root |-> cp.root] \in buf =>
              InChunks(chunk', j, chunkIndex', cp'.root) \/ [idx |-> j, root |-> cp'.root] \in buffer'
  BY <1>3, <1>5, <1>8, <1>10, <1>11, WriterStep
<1>13. \A j \in Files \cap settled' : Held(j)'
  <2> SUFFICES ASSUME NEW j \in Files \cap settled' PROVE Held(j)'
    OBVIOUS
  <2>1. CASE j = i
    BY <1>12, <2>1 DEF buf, Held
  <2>2. CASE j # i
    <3>1. Held(j) /\ j \in Entries
      BY <1>2, <1>6, <2>2 DEF PhaseBInv, Files
    <3>2. QED BY <1>8, <1>12, <3>1 DEF buf, Held
  <2>3. QED BY <2>1, <2>2
<1>14. 0..loWater' \subseteq settled'
  <2>1. 0..loWater \subseteq settled'
    BY <1>2, <1>6 DEF PhaseBInv
  <2>2. QED BY <1>6, <1>7, <2>1, LowWaterBounds
<1>15. ckpt' # NoCheckpoint => ckpt'.phase \in {"entries_listed", "extracting"}
                             /\ ckpt'.chunks <= chunkIndex /\ ckpt'.chunks \in Nat
  BY <1>2, <1>6, <1>7, CheckpointFields DEF PhaseBInv
<1>16. PhaseBInv'
  <2>1. cp'.phase = "extracting" /\ cp'.chunks <= chunkIndex'
    BY <1>2, <1>5, <1>7, <1>8, <1>10, <1>12, CheckpointFields DEF PhaseBInv, WriterOK
  <2>2. ckpt' # NoCheckpoint => ckpt'.phase \in {"entries_listed", "extracting"}
                                /\ ckpt'.chunks <= chunkIndex'
    BY <1>5, <1>7, <1>10, <1>12, <1>15 DEF WriterOK
  <2>3. \A l \in buffer' : l.root = cp'.root /\ l.idx \in Files
    BY <1>8, <1>11, <1>12
  <2>4. \A j \in Files : j < streamPos' \/ j <= resumeAfter' => j \in settled' \cup extracting'
    BY <1>2, <1>6 DEF PhaseBInv
  <2>5. QED BY <1>12, <1>13, <1>14, <2>1, <2>2, <2>3, <2>4 DEF PhaseBInv
<1>17. SnapshotsInv'
  <2> SUFFICES ASSUME NEW j \in Entries, saving'[j] # NoCheckpoint
               PROVE  /\ saving'[j].phase = "extracting"
                      /\ saving'[j].chunks <= chunkIndex'
                      /\ GoodCheckpoint(chunk', saving'[j])
    BY DEF SnapshotsInv
  <2>1. CASE saving'[j] = saving[j]
    <3>1. saving[j] \in Checkpoints /\ saving[j].phase = "extracting"
          /\ saving[j].chunks <= chunkIndex /\ GoodCheckpoint(chunk, saving[j])
      BY <1>2, <1>7, <2>1 DEF SnapshotsInv
    <3>2. saving[j].chunks \in Nat
      BY <3>1, CheckpointFields
    <3>3. GoodCheckpoint(chunk', saving[j])
      BY <1>12, <3>1, <3>2, GoodKept
    <3>4. chunkIndex' \in Nat
      BY <1>5, <1>10 DEF WriterOK
    <3>5. saving[j].chunks <= chunkIndex'
      BY <1>7, <1>12, <3>1, <3>2, <3>4
    <3>6. QED BY <2>1, <3>1, <3>3, <3>5
  <2>2. CASE saving'[j] # saving[j]
    <3> DEFINE c == [cp' EXCEPT !.lost = Unflushed(cp', w2)]
    <3>1. doCheckpoint /\ saving'[j] = c
      BY <1>5, <1>7, <2>2
    <3>2. c.phase = "extracting" /\ c.chunks = chunkIndex' /\ c.root = cp'.root
          /\ c.last = loWater' /\ c.errs = cp'.errs /\ c.lost = Unflushed(cp', w2)
      BY <1>2, <1>5, <1>7, <1>8, <1>9, <3>1 DEF Checkpoints, PhaseBInv
    <3> HIDE DEF c
    <3>3. ASSUME NEW f \in Files, f <= c.last PROVE Accounted(chunk', c, f)
      <4>1. f \in settled'
        BY <1>6, <1>7, <1>14, <3>2, <3>3, LowWaterBounds DEF Files, Entries
      <4>2. Held(f)'
        BY <1>13, <4>1
      <4>3. [idx |-> f, root |-> cp'.root] \in buffer' => f \in Unflushed(cp', w2)
        <5> SUFFICES ASSUME [idx |-> f, root |-> cp'.root] \in buffer'
                     PROVE  f \in Unflushed(cp', w2)
          OBVIOUS
        <5>1. w2.failed # 0
          BY <1>5, <1>10, <3>1
        <5>2. f \in IdxOf(w2.buffer)
          BY <1>5 DEF IdxOf
        <5>3. f <= cp'.last
          BY <1>8, <3>2, <3>3
        <5>4. QED BY <5>1, <5>2, <5>3 DEF Unflushed
      <4>4. cp'.lost \subseteq Unflushed(cp', w2)
        BY DEF Unflushed
      <4>5. QED BY <3>2, <4>2, <4>3, <4>4 DEF Held, Accounted
    <3>4. GoodCheckpoint(chunk', c)
      BY <1>12, <3>2, <3>3 DEF GoodCheckpoint, Resumable
    <3>5. chunkIndex' \in Nat
      BY <1>5, <1>10 DEF WriterOK
    <3>6. c.chunks <= chunkIndex'
      BY <3>2, <3>5
    <3>7. QED BY <3>1, <3>2, <3>4, <3>6
  <2>3. QED BY <2>1, <2>2
<1>18. StoredInv'
  <2> SUFFICES ASSUME ckpt' # NoCheckpoint
               PROVE  ckpt'.phase \in {"entries_listed", "extracting"} /\ GoodCheckpoint(chunk', ckpt')
    BY DEF StoredInv
  <2>1. GoodCheckpoint(chunk, ckpt) /\ ckpt \in Checkpoints /\ ckpt' = ckpt
    BY <1>2, <1>6, <1>7, <1>15 DEF StoredInv
  <2>2. GoodCheckpoint(chunk', ckpt)
    BY <1>12, <1>15, <2>1, GoodKept
  <2>3. QED BY <1>15, <2>1, <2>2
<1>19. ManifestInv' /\ (job' = "completed" => manifest' # NoManifest)
  BY <1>2, <1>6 DEF ManifestInv
<1>20. QED BY <1>2, <1>16, <1>17, <1>18, <1>19 DEF DataInv

\* After wg.Wait every file is settled; once the buffer is flushed, the chunks,
\* the errors and the losses account for all of them.
LEMMA FinalFlushData ==
  ASSUME IInv, assetExists, FinalFlush
  PROVE  DataInv'
<1>1. TypeOK /\ GoroutinesOnlyInPhaseB /\ DataInv
  BY DEF IInv
<1>2. /\ pc = "flushing" /\ Active = {}
      /\ UNCHANGED <<ckpt, manifest, settled, streamPos, extracting, saving, checking, job>>
  BY DEF FinalFlush, AllGoroutinesDone
<1>3. PICK w \in FlushChunk(Writer) :
       /\ buffer' = w.buffer
       /\ chunkIndex' = w.next
       /\ chunk' = w.chunk
       /\ IF w.failed = 0
          THEN /\ cp' = [cp EXCEPT !.phase = "completing", !.chunks = w.next]
               /\ pc' = "completing"
          ELSE /\ cp' = cp
               /\ pc' = "failing"
  BY DEF FinalFlush
<1>4. Active' = {} /\ pc' \notin PhaseB
  BY <1>2, <1>3 DEF Active, PhaseB
<1>5. PhaseBInv
  BY <1>1 DEF DataInv
<1>6. /\ ChunksExist(chunk, chunkIndex) /\ ChunksUseRoot(chunk, chunkIndex, cp.root)
      /\ \A l \in buffer : l.root = cp.root
      /\ buffer \subseteq Lines
  BY <1>1, <1>2, <1>5 DEF PhaseBInv, PhaseB, TypeOK
<1>7. /\ WriterOK(w)
      /\ Extends([buffer |-> buffer, next |-> chunkIndex, failed |-> 0, chunk |-> chunk], w)
      /\ w.failed = 0 => w.buffer = {}
  <2>1. WriterOK(w) /\ Extends(Writer, w) /\ (w.failed = Writer.failed => w.buffer = {})
    BY <1>1, WriterIsOK, FlushExtends
  <2>2. QED BY <2>1 DEF Writer
<1>8. /\ chunkIndex <= chunkIndex'
      /\ \A n \in Nat : n <= chunkIndex => SameBelow(chunk, chunk', n)
      /\ ChunksExist(chunk', chunkIndex')
      /\ ChunksUseRoot(chunk', chunkIndex', cp.root)
      /\ \A j \in Entries :
           InChunks(chunk, j, chunkIndex, cp.root) \/ [idx |-> j, root |-> cp.root] \in buffer =>
             InChunks(chunk', j, chunkIndex', cp.root) \/ [idx |-> j, root |-> cp.root] \in buffer'
  BY <1>1, <1>3, <1>6, <1>7, WriterStep
<1>9. ckpt' # NoCheckpoint => /\ ckpt' = ckpt /\ ckpt \in Checkpoints
                             /\ ckpt.phase \in {"entries_listed", "extracting"}
                             /\ ckpt.chunks \in Nat /\ ckpt.chunks <= chunkIndex
                             /\ GoodCheckpoint(chunk, ckpt)
  BY <1>1, <1>2, <1>5, CheckpointFields DEF DataInv, StoredInv, PhaseBInv, PhaseB, TypeOK
<1>10. StoredInv'
  <2> SUFFICES ASSUME ckpt' # NoCheckpoint
               PROVE  ckpt'.phase \in {"entries_listed", "extracting"} /\ GoodCheckpoint(chunk', ckpt')
    BY DEF StoredInv
  <2>1. GoodCheckpoint(chunk', ckpt)
    BY <1>8, <1>9, GoodKept
  <2>2. QED BY <1>9, <2>1
<1>11. LocationInv'
  <2>1. CASE pc' = "failing"
    BY <2>1 DEF LocationInv
  <2>2. CASE pc' # "failing"
    <3>1. w.failed = 0 /\ pc' = "completing" /\ buffer' = {}
          /\ cp' = [cp EXCEPT !.phase = "completing", !.chunks = w.next]
      BY <1>3, <1>7, <2>2
    <3>2. /\ cp'.phase = "completing" /\ cp'.chunks = chunkIndex' /\ cp'.root = cp.root
          /\ cp'.errs = cp.errs /\ cp'.lost = cp.lost
      BY <1>1, <1>3, <3>1 DEF TypeOK, Checkpoints
    <3>3. ASSUME NEW j \in Files PROVE Accounted(chunk', cp', j)
      <4>1. streamPos = N /\ j \in Entries /\ j < streamPos
        BY <1>1, <1>2, EntriesAssumption DEF GoroutinesOnlyInPhaseB, Files, Entries
      <4>2. j \in settled
        BY <1>2, <1>5, <4>1 DEF PhaseBInv, PhaseB, Active
      <4>3. Held(j)
        BY <1>2, <1>5, <4>2 DEF PhaseBInv, PhaseB
      <4>4. QED BY <1>8, <3>1, <3>2, <4>1, <4>3 DEF Held, Accounted
    <3>4. GoodCheckpoint(chunk', cp') /\ Complete(chunk', cp')
      BY <1>8, <3>2, <3>3 DEF GoodCheckpoint, Resumable, Complete
    <3>5. QED BY <1>9, <3>1, <3>2, <3>4 DEF LocationInv
  <2>3. QED BY <2>1, <2>2
<1>12. ManifestInv' /\ (job' = "completed" => manifest' # NoManifest)
  BY <1>1, <1>2 DEF DataInv, ManifestInv
<1>13. QED BY <1>4, <1>10, <1>11, <1>12, IdleInv DEF DataInv

\* Publishing the manifest, and a failed attempt to.
LEMMA FinalizeData ==
  ASSUME IInv, assetExists, Finalize \/ FinalizeFails
  PROVE  DataInv'
<1>1. TypeOK /\ GoroutinesOnlyInPhaseB /\ DataInv
  BY DEF IInv
<1>2. /\ pc = "finalizing" /\ pc' \in {"reporting", "failing"}
      /\ UNCHANGED <<ckpt, chunk, job>> /\ UNCHANGED progress
      /\ manifest' \in {manifest, FinalManifest}
      /\ pc' = "reporting" => manifest' = FinalManifest /\ cp' = [cp EXCEPT !.phase = "reporting"]
  BY DEF Finalize, FinalizeFails, AfterFailedPut, volatile, outside
<1>3. cp \in Checkpoints /\ GoodCheckpoint(chunk, cp) /\ Complete(chunk, cp)
  BY <1>1, <1>2 DEF DataInv, LocationInv, TypeOK
<1>4. /\ FinalManifest # NoManifest
      /\ Files \subseteq IdxOf(FinalManifest.lines) \cup FinalManifest.errs \cup FinalManifest.lost
      /\ \A l1, l2 \in FinalManifest.lines : l1.root = l2.root
  BY <1>1, <1>3, FinalManifestIsComplete
<1>5. ManifestInv' /\ (manifest # NoManifest => manifest' # NoManifest)
  <2>1. CASE manifest' = manifest
    BY <1>1, <2>1 DEF DataInv, ManifestInv
  <2>2. CASE manifest' = FinalManifest
    BY <1>4, <2>2 DEF ManifestInv
  <2>3. QED BY <1>2, <2>1, <2>2
<1>6. StoredInv' /\ (job' = "completed" => manifest' # NoManifest)
  BY <1>1, <1>2, <1>5 DEF DataInv, StoredInv
<1>7. LocationInv'
  <2>1. pc' = "reporting" => cp'.phase = "reporting" /\ manifest' # NoManifest
    BY <1>2, <1>3, <1>4 DEF Checkpoints
  <2>2. ckpt' # NoCheckpoint /\ ckpt'.phase = "completing"
    BY <1>1, <1>2 DEF DataInv, LocationInv
  <2>3. QED BY <1>2, <2>1, <2>2 DEF LocationInv
<1>8. Active' = {} /\ pc' \notin PhaseB
  BY <1>1, <1>2 DEF GoroutinesOnlyInPhaseB, PhaseB, Active, progress, goroutines
<1>9. QED BY <1>5, <1>6, <1>7, <1>8, IdleInv DEF DataInv

\* Phase C's tail works under a "reporting" checkpoint, which needs no chunk.
LEMMA TailData ==
  ASSUME IInv, assetExists,
         DeleteInputs \/ ReportCompleted \/ CompletionNotReported \/ DeleteCheckpoint
  PROVE  DataInv'
<1>1. TypeOK /\ GoroutinesOnlyInPhaseB /\ DataInv
  BY DEF IInv
<1>2. pc \in {"cleaning", "callback", "acknowledged"} /\ manifest' = manifest
      /\ ckpt' \in {ckpt, NoCheckpoint}
  BY DEF DeleteInputs, ReportCompleted, CompletionNotReported, DeleteCheckpoint, store
<1>3. ckpt # NoCheckpoint /\ ckpt.phase = "reporting" /\ cp.phase = "reporting"
      /\ manifest # NoManifest
  BY <1>1, <1>2 DEF DataInv, LocationInv
<1>4. StoredInv' /\ ManifestInv' /\ (job' = "completed" => manifest' # NoManifest)
  BY <1>1, <1>2, <1>3 DEF DataInv, StoredInv, ManifestInv
<1>5. CASE DeleteInputs \/ ReportCompleted
  <2>1. pc' \in {"callback", "acknowledged"} /\ UNCHANGED <<ckpt, cp>> /\ UNCHANGED progress
        /\ (pc' = "acknowledged" => job' = "completed")
    BY <1>5 DEF DeleteInputs, ReportCompleted, store, volatile
  <2>2. Active' = {}
    BY <1>1, <1>2, <2>1 DEF GoroutinesOnlyInPhaseB, PhaseB, Active, progress, goroutines
  <2>3. LocationInv'
    BY <1>2, <1>3, <2>1 DEF LocationInv
  <2>4. QED BY <1>4, <2>1, <2>2, <2>3, IdleInv DEF DataInv, PhaseB
<1>6. CASE CompletionNotReported \/ DeleteCheckpoint
  <2>1. Stop
    BY <1>6 DEF CompletionNotReported, DeleteCheckpoint
  <2>2. pc' = "stopped" /\ Active' = {}
    BY <2>1, StoppedIsIdle DEF Stop
  <2>3. LocationInv'
    BY <2>2 DEF LocationInv
  <2>4. QED BY <1>4, <2>2, <2>3, IdleInv DEF DataInv, PhaseB
<1>7. QED BY <1>5, <1>6

\* A process that dies leaves the objects as they are.
LEMMA StopData ==
  ASSUME IInv, assetExists, ReportFailed \/ Crash
  PROVE  DataInv'
<1>1. DataInv /\ Stop /\ UNCHANGED store /\ job' \in {job, "failed"}
  BY DEF IInv, ReportFailed, Crash
<1>2. pc' = "stopped" /\ Active' = {}
  BY <1>1, StoppedIsIdle DEF Stop
<1>3. StoredInv' /\ ManifestInv' /\ (job' = "completed" => manifest' # NoManifest)
  BY <1>1 DEF DataInv, StoredInv, ManifestInv, store
<1>4. LocationInv'
  BY <1>2 DEF LocationInv
<1>5. QED BY <1>2, <1>3, <1>4, IdleInv DEF DataInv, PhaseB

LEMMA StutterData ==
  ASSUME DataInv, UNCHANGED vars
  PROVE  DataInv'
BY DEF DataInv, StoredInv, ManifestInv, SnapshotsInv, PhaseBInv, LocationInv, Held, Active,
       vars, store, volatile, progress, goroutines, outside

-----------------------------------------------------------------------------
(* The theorems *)

LEMMA InitInv == Init => IInv
<1> SUFFICES ASSUME Init PROVE IInv
  OBVIOUS
<1>1. TypeOK
  BY InitType
<1>2. Active = {} /\ pc = "stopped" /\ buffer = {} /\ extracting = {}
  BY DEF Init, InitVolatile, Active, NoTasks
<1>3. GoroutinesOnlyInPhaseB
  BY <1>2 DEF GoroutinesOnlyInPhaseB
<1>4. SnapshotsInv /\ PhaseBInv
  BY <1>2 DEF Active, SnapshotsInv, PhaseBInv, PhaseB
<1>5. StoredInv /\ ManifestInv /\ LocationInv /\ (job = "completed" => manifest # NoManifest)
  BY <1>2 DEF Init, StoredInv, ManifestInv, LocationInv
<1>6. OutcomeInv
  BY <1>2 DEF OutcomeInv
<1>7. QED BY <1>1, <1>3, <1>4, <1>5, <1>6 DEF IInv, DataInv

\* Only DeleteAsset touches the asset, and it never comes back.
LEMMA AssetNeverReturns ==
  ASSUME [Next]_vars
  PROVE  (assetExists' => assetExists) /\ (assetExists' \/ DeleteAsset \/ ~assetExists)
<1>1. assetExists' = assetExists \/ DeleteAsset
  BY DEF Next, Main, Failures, Task, StartRun, SkipListing, ListEntries, SaveListed,
    BeginExtraction, EntryListMissing, PassEntry, TakeEntry, SpawnExtraction, EndOfStream,
    Drained, FinalFlush, SaveCompleting, Finalize, FinalizeFails, SaveReporting, DeleteInputs,
    ReportCompleted, DeleteCheckpoint, ReportFailed, LoadOrOpenFails, ListEntriesFails,
    SaveFails, StreamFails, CompletionNotReported, Crash, Terminated, ExtractFails,
    ExtractSucceeds, SaveSnapshot, CheckAsset, vars, outside
<1>2. DeleteAsset => ~assetExists'
  BY DEF DeleteAsset
<1>3. QED BY <1>1, <1>2

\* The steps that lead to Finalize, or past it.
LEMMA FinalizeSteps ==
  ASSUME IInv, [Next]_vars, assetExists, pc' \in {"finalizing", "reporting"}
  PROVE  \/ StartRun /\ pc' = "finalizing"
         \/ SaveCompleting /\ pc' = "finalizing"
         \/ Finalize
         \/ DeleteAsset
         \/ UNCHANGED vars
<1>1. ASSUME NEW i \in Entries, Task(i) PROVE FALSE
  BY <1>1, GoroutineActs DEF PhaseB
<1>2. CASE StartRun
  <2>1. LoadCheckpoint \in Checkpoints
    BY FreshIsCheckpoint DEF IInv, TypeOK, LoadCheckpoint
  <2>2. pc' # "reporting"
    BY <1>2, <2>1, CheckpointFields DEF StartRun, PhaseLocation, Phases
  <2>3. QED BY <1>2, <2>2
<1>3. CASE ~StartRun
  BY <1>1, <1>3 DEF Next, Main, Failures, SkipListing, ListEntries, SaveListed,
    BeginExtraction, EntryListMissing, PassEntry, TakeEntry, SpawnExtraction, EndOfStream,
    Drained, FinalFlush, SaveCompleting, FinalizeFails, SaveReporting, DeleteInputs,
    ReportCompleted, DeleteCheckpoint, ReportFailed, LoadOrOpenFails, ListEntriesFails,
    SaveFails, StreamFails, CompletionNotReported, Crash, Terminated, Stop
<1>4. QED BY <1>2, <1>3

\* A run that finalizes works on the checkpoint that is stored.
LEMMA NextOutcome ==
  ASSUME IInv, [Next]_vars, assetExists, ~DeleteAsset
  PROVE  OutcomeInv'
<1>1. TypeOK /\ OutcomeInv
  BY DEF IInv
<1>2. CASE pc' \notin {"finalizing", "reporting"}
  BY <1>2 DEF OutcomeInv
<1>3. CASE StartRun /\ pc' = "finalizing"
  <2>1. cp' = LoadCheckpoint /\ ckpt' = ckpt /\ pc' = PhaseLocation(cp'.phase)
    BY <1>3 DEF StartRun, store
  <2>2. CASE ckpt = NoCheckpoint
    <3>1. pc' = "listing"
      BY <2>1, <2>2 DEF LoadCheckpoint, FreshCheckpoint, PhaseLocation
    <3>2. QED BY <1>3, <3>1
  <2>3. CASE ckpt # NoCheckpoint
    BY <1>3, <2>1, <2>3 DEF LoadCheckpoint, OutcomeInv
  <2>4. QED BY <2>2, <2>3
<1>4. CASE SaveCompleting /\ pc' = "finalizing"
  BY <1>4 DEF SaveCompleting, OutcomeInv, volatile
<1>5. CASE Finalize
  <2>1. cp = ckpt /\ manifest' = FinalManifest /\ pc' = "reporting" /\ UNCHANGED <<ckpt, chunk>>
    BY <1>1, <1>5 DEF Finalize, OutcomeInv
  <2>2. manifest' = DecidedManifest'
    BY <2>1 DEF FinalManifest, DecidedManifest
  <2>3. QED BY <2>1, <2>2 DEF OutcomeInv
<1>6. CASE UNCHANGED vars
  BY <1>1, <1>6 DEF OutcomeInv, DecidedManifest, vars, store, volatile
<1>7. QED BY <1>2, <1>3, <1>4, <1>5, <1>6, FinalizeSteps

LEMMA NextInv == IInv /\ [Next]_vars => IInv'
<1> SUFFICES ASSUME IInv, [Next]_vars PROVE IInv'
  OBVIOUS
<1>1. TypeOK' /\ GoroutinesOnlyInPhaseB'
  BY NextType, NextGoroutines DEF IInv
<1>2. ASSUME assetExists' PROVE DataInv'
  <2>1. assetExists /\ ~DeleteAsset
    <3>1. assetExists
      BY <1>2, AssetNeverReturns
    <3>2. ~DeleteAsset
      BY <1>2 DEF DeleteAsset
    <3>3. QED BY <1>2, <3>1, <3>2
  <2>2. DataInv
    BY <2>1 DEF IInv
  <2>3. CASE UNCHANGED vars \/ Terminated
    BY <2>2, <2>3, StutterData DEF Terminated
  <2>4. CASE \E i \in Entries : Task(i)
    BY <2>1, <2>4, ExtractFailsData, ExtractSucceedsData, SaveSnapshotData, CheckAssetData DEF Task
  <2>5. CASE StartRun \/ Main \/ Failures \/ Crash
    BY <2>1, <2>5, StartRunData, ControlData, SaveData, BeginExtractionData, StreamData,
       FinalFlushData, FinalizeData, TailData, StopData DEF Main, Failures
  <2>6. QED BY <2>1, <2>3, <2>4, <2>5 DEF Next
<1>3. assetExists' => OutcomeInv'
  BY AssetNeverReturns, NextOutcome DEF DeleteAsset
<1>4. QED BY <1>1, <1>2, <1>3 DEF IInv

\* IInv holds in every reachable state (worker.go, whatever crashes and fails).
THEOREM Invariance == Spec => []IInv
BY InitInv, NextInv, PTL DEF Spec

\* Every variable keeps its type.
THEOREM TypeCorrect == Spec => []TypeOK
<1>1. IInv => TypeOK
  BY DEF IInv
<1>2. QED BY <1>1, Invariance, PTL

\* The stored checkpoint can always be resumed from (worker.go:225-236, 308-343).
THEOREM Resumption == Spec => []StoredCheckpointResumable
<1>1. IInv => StoredCheckpointResumable
  BY DEF IInv, DataInv, StoredInv, StoredCheckpointResumable, GoodCheckpoint
<1>2. QED BY <1>1, Invariance, PTL

\* A published manifest accounts for every file (manifest.go:81-136).
THEOREM NothingSilentlyMissing == Spec => []ManifestAccountsForEveryFile
<1>1. IInv => ManifestAccountsForEveryFile
  BY DEF IInv, DataInv, ManifestInv, ManifestAccountsForEveryFile
<1>2. QED BY <1>1, Invariance, PTL

\* No file has two lines in the manifest (manifest.go:76-80).
THEOREM UniqueLines == Spec => []NoFileListedTwice
<1>1. IInv => NoFileListedTwice
  <2> SUFFICES ASSUME IInv, assetExists, manifest # NoManifest,
                      NEW l1 \in manifest.lines, NEW l2 \in manifest.lines, l1.idx = l2.idx
               PROVE  l1 = l2
    BY DEF NoFileListedTwice
  <2>1. l1.root = l2.root
    BY DEF IInv, DataInv, ManifestInv
  <2>2. l1 \in Lines /\ l2 \in Lines
    BY DEF IInv, TypeOK, Manifests
  <2>3. QED BY <2>1, <2>2 DEF Lines
<1>2. QED BY <1>1, Invariance, PTL

\* Finalize finds the chunks it has to merge (worker.go:470-486).
THEOREM ChunksForFinalize == Spec => []FinalizeFindsItsChunks
<1>1. IInv => FinalizeFindsItsChunks
  BY DEF IInv, DataInv, StoredInv, LocationInv, FinalizeFindsItsChunks, GoodCheckpoint
<1>2. QED BY <1>1, Invariance, PTL

\* A completed job has a manifest (worker.go:469-510).
THEOREM Publication == Spec => []CompletedIsPublished
<1>1. IInv => CompletedIsPublished
  BY DEF IInv, DataInv, CompletedIsPublished
<1>2. QED BY <1>1, Invariance, PTL

\* The steps that write the checkpoint, and which one each replaces.
LEMMA CheckpointWrites ==
  ASSUME IInv, [Next]_vars, assetExists, assetExists', ckpt' # ckpt
  PROVE  \/ ckpt' = NoCheckpoint /\ job = "completed"
         \/ /\ ckpt' # NoCheckpoint
            /\ ckpt # NoCheckpoint => ckpt.phase # "reporting"
            /\ PhaseRank(ckpt) <= PhaseRank(ckpt')
<1>1. TypeOK /\ DataInv
  BY DEF IInv
<1>2. CASE SaveListed \/ (SaveFails /\ pc = "listed")
  <2>1. ckpt = NoCheckpoint /\ ckpt' = cp /\ cp.phase = "entries_listed"
    BY <1>1, <1>2 DEF SaveListed, SaveFails, AfterFailedPut, DataInv, LocationInv
  <2>2. QED BY <1>1, <2>1, CheckpointFields DEF TypeOK, PhaseRank
<1>3. CASE SaveCompleting \/ (SaveFails /\ pc = "completing")
  <2>1. /\ ckpt # NoCheckpoint => ckpt.phase \in {"entries_listed", "extracting"}
        /\ ckpt' = cp /\ cp.phase = "completing"
    BY <1>1, <1>3 DEF SaveCompleting, SaveFails, AfterFailedPut, DataInv, LocationInv
  <2>2. QED BY <1>1, <2>1, CheckpointFields DEF TypeOK, PhaseRank
<1>4. CASE SaveReporting \/ (SaveFails /\ pc = "reporting")
  <2>1. /\ ckpt # NoCheckpoint /\ ckpt.phase = "completing"
        /\ ckpt' = cp /\ cp.phase = "reporting"
    BY <1>1, <1>4 DEF SaveReporting, SaveFails, AfterFailedPut, DataInv, LocationInv
  <2>2. QED BY <1>1, <2>1, CheckpointFields DEF TypeOK, PhaseRank
<1>5. ASSUME NEW i \in Entries, SaveSnapshot(i) PROVE
        /\ ckpt' # NoCheckpoint
        /\ ckpt # NoCheckpoint => ckpt.phase # "reporting"
        /\ PhaseRank(ckpt) <= PhaseRank(ckpt')
  <2>1. i \in Active
    BY <1>5 DEF SaveSnapshot, Active
  <2>2. PhaseBInv
    BY <1>1 DEF DataInv
  <2>3. ckpt # NoCheckpoint => ckpt.phase \in {"entries_listed", "extracting"}
    BY <2>1, <2>2 DEF IInv, GoroutinesOnlyInPhaseB, PhaseBInv
  <2>4. ckpt' = saving[i] /\ saving[i] # NoCheckpoint
    BY <1>5 DEF SaveSnapshot, AfterFailedPut
  <2>5. saving[i].phase = "extracting"
    BY <1>1, <2>4 DEF DataInv, SnapshotsInv
  <2>6. QED BY <1>1, <2>3, <2>4, <2>5, CheckpointFields DEF TypeOK, PhaseRank
<1>6. CASE DeleteCheckpoint
  <2>1. ckpt' = NoCheckpoint /\ pc = "acknowledged"
    BY <1>6 DEF DeleteCheckpoint
  <2>2. QED BY <1>1, <2>1 DEF DataInv, LocationInv
<1>7. \/ SaveListed \/ SaveCompleting \/ SaveReporting \/ DeleteCheckpoint
      \/ SaveFails /\ pc \in {"listed", "completing", "reporting"}
      \/ \E i \in Entries : SaveSnapshot(i)
  BY DEF Next, Main, Failures, Task, StartRun, SkipListing, ListEntries,
    BeginExtraction, EntryListMissing, PassEntry, TakeEntry, SpawnExtraction, EndOfStream,
    Drained, FinalFlush, Finalize, FinalizeFails, DeleteInputs, SaveFails,
    ReportCompleted, ReportFailed, LoadOrOpenFails, ListEntriesFails,
    StreamFails, CompletionNotReported, Crash, Terminated, ExtractFails,
    ExtractSucceeds, CheckAsset, DeleteAsset, vars, store
<1>8. QED BY <1>2, <1>3, <1>4, <1>5, <1>6, <1>7

\* No snapshot of an earlier phase replaces the record of a later one
\* (worker.go:345-361).
THEOREM PhasesMoveForward == Spec => StoredPhaseNeverRegresses
<1>1. IInv /\ [Next]_vars =>
        [assetExists => ckpt' = NoCheckpoint \/ PhaseRank(ckpt) <= PhaseRank(ckpt')]_vars
  <2> SUFFICES ASSUME IInv, [Next]_vars, assetExists, ckpt' # NoCheckpoint
               PROVE  PhaseRank(ckpt) <= PhaseRank(ckpt')
    OBVIOUS
  <2>1. CASE ckpt' = ckpt
    <3>1. ckpt \in Checkpoints \cup {NoCheckpoint}
      BY DEF IInv, TypeOK
    <3>2. PhaseRank(ckpt) \in Int
      BY <3>1, CheckpointFields DEF PhaseRank, Phases
    <3>3. QED BY <2>1, <3>2
  <2>2. CASE ckpt' # ckpt
    <3>1. assetExists'
      BY AssetNeverReturns DEF DeleteAsset
    <3>2. QED BY <2>2, <3>1, CheckpointWrites
  <2>3. QED BY <2>1, <2>2
<1>2. QED BY <1>1, Invariance, PTL DEF Spec, StoredPhaseNeverRegresses

\* The "reporting" checkpoint stays until the completion is recorded (ADR-001:61-66).
THEOREM NotRedone == Spec => CompletionIsNotRedone
<1>1. IInv /\ [Next]_vars =>
        [ckpt # NoCheckpoint /\ ckpt.phase = "reporting" /\ job # "completed" /\ assetExists'
           => ckpt' = ckpt]_vars
  <2> SUFFICES ASSUME IInv, [Next]_vars, ckpt # NoCheckpoint, ckpt.phase = "reporting",
                      job # "completed", assetExists', ckpt' # ckpt
               PROVE  FALSE
    OBVIOUS
  <2>1. assetExists
    BY AssetNeverReturns
  <2>2. QED BY <2>1, CheckpointWrites
<1>2. QED BY <1>1, Invariance, PTL DEF Spec, CompletionIsNotRedone

-----------------------------------------------------------------------------
(* The worker implements the contract of an extraction *)

\* The record of an extraction that is not finished.
Unfinished(c) == c = NoCheckpoint \/ c.phase \in {"entries_listed", "extracting"}

\* An asset that is gone stays gone, and nothing of it is seen.
LEMMA GoneStep ==
  ASSUME ~assetExists, ~assetExists'
  PROVE  UNCHANGED Contract!vars
BY DEF Contract!vars, OutcomePhase, Outcome, Published, Status

LEMMA DeleteStep ==
  ASSUME assetExists, DeleteAsset
  PROVE  Contract!Delete
<1>1. OutcomePhase # "gone" /\ ~assetExists'
  BY DEF OutcomePhase, DeleteAsset
<1>2. OutcomePhase' = "gone" /\ Outcome' = NoManifest /\ Published' = NoManifest /\ Status' = "gone"
  BY <1>1 DEF OutcomePhase, Outcome, Published, Status
<1>3. QED BY <1>1, <1>2 DEF Contract!Delete

\* A step that leaves the record, its outcome and the manifest alone shows in
\* the status only.
LEMMA StatusStep ==
  ASSUME assetExists, assetExists', job' \in {job, "running", "failed"}, manifest' = manifest,
         \/ Unfinished(ckpt) /\ Unfinished(ckpt')
         \/ ckpt' = ckpt /\ DecidedManifest' = DecidedManifest
         \/ ckpt' = ckpt /\ ckpt # NoCheckpoint /\ ckpt.phase = "reporting"
  PROVE  [Contract!Next]_Contract!vars
<1>1. OutcomePhase # "gone" /\ Status' = job' /\ Status = job /\ Published' = Published
  BY DEF OutcomePhase, Published, Status
<1>2. OutcomePhase' = OutcomePhase /\ Outcome' = Outcome
  BY DEF OutcomePhase, Outcome, Unfinished
<1>3. CASE job' = job
  BY <1>1, <1>2, <1>3 DEF Contract!vars
<1>4. CASE job' # job
  <2>1. Contract!Report
    BY <1>1, <1>2, <1>4 DEF Contract!Report
  <2>2. QED BY <2>1 DEF Contract!Next
<1>5. QED BY <1>3, <1>4

\* The goroutines and the last flush write chunks; no extraction that is decided
\* has any of them at work.
LEMMA ChunkWriters ==
  ASSUME IInv, assetExists, FinalFlush \/ \E i \in Entries : Task(i)
  PROVE  Unfinished(ckpt)
<1>1. PhaseBInv /\ (pc \in PhaseB \/ (pc = "failing" /\ Active # {}))
  <2>1. CASE FinalFlush
    BY <2>1 DEF IInv, DataInv, FinalFlush, PhaseB
  <2>2. CASE \E i \in Entries : Task(i)
    BY <2>2, GoroutineActs, GoroutineInPhaseB
  <2>3. QED BY <2>1, <2>2
<1>2. QED BY <1>1 DEF PhaseBInv, Unfinished

\* The decided manifest is one of the outcomes.
LEMMA DecidedIsOutcome ==
  ASSUME TypeOK, GoodCheckpoint(chunk, cp), Complete(chunk, cp)
  PROVE  FinalManifest \in Outcomes
<1>1. /\ Files \subseteq IdxOf(FinalManifest.lines) \cup FinalManifest.errs \cup FinalManifest.lost
      /\ \A l1, l2 \in FinalManifest.lines : l1.root = l2.root
  BY FinalManifestIsComplete
<1>2. FinalManifest \in Manifests
  BY CheckpointFields DEF TypeOK, FinalManifest, Manifests, Merged
<1>3. ASSUME NEW l1 \in FinalManifest.lines, NEW l2 \in FinalManifest.lines, l1.idx = l2.idx
      PROVE  l1 = l2
  <2>1. l1.root = l2.root
    BY <1>1
  <2>2. l1 \in Lines /\ l2 \in Lines
    BY <1>2 DEF Manifests
  <2>3. QED BY <1>3, <2>1, <2>2 DEF Lines
<1>4. QED BY <1>1, <1>2, <1>3 DEF Outcomes

\* Storing the "completing" checkpoint decides.
LEMMA DecideStep ==
  ASSUME IInv, assetExists, assetExists', SaveCompleting \/ (SaveFails /\ pc = "completing")
  PROVE  [Contract!Next]_Contract!vars
<1>1. TypeOK /\ LocationInv
  BY DEF IInv, DataInv
<1>2. /\ Unfinished(ckpt) /\ pc = "completing"
      /\ cp.phase = "completing" /\ GoodCheckpoint(chunk, cp) /\ Complete(chunk, cp)
      /\ cp # NoCheckpoint
  BY <1>1, CheckpointFields DEF LocationInv, SaveCompleting, Unfinished, TypeOK
<1>3. ckpt' \in {ckpt, cp} /\ UNCHANGED <<chunk, manifest, job, cp>>
  BY DEF SaveCompleting, SaveFails, AfterFailedPut, volatile, outside
<1>4. CASE ckpt' = ckpt
  BY <1>2, <1>3, <1>4, StatusStep
<1>5. CASE ckpt' = cp
  <2>1. DecidedManifest' = FinalManifest
    BY <1>3, <1>5 DEF DecidedManifest, FinalManifest
  <2>2. OutcomePhase = "open" /\ OutcomePhase' = "decided"
    BY <1>2, <1>5 DEF OutcomePhase, Unfinished
  <2>3. Outcome' = DecidedManifest' /\ Published' = Published /\ Status' = Status
    BY <1>3, <2>2 DEF Outcome, Published, Status
  <2>4. Outcome' \in Outcomes
    BY <1>1, <1>2, <2>1, <2>3, DecidedIsOutcome
  <2>5. Contract!Decide
    BY <2>2, <2>3, <2>4 DEF Contract!Decide
  <2>6. QED BY <2>5 DEF Contract!Next
<1>6. QED BY <1>3, <1>4, <1>5

\* Every run that gets as far publishes what was decided.
LEMMA PublishStep ==
  ASSUME IInv, assetExists, assetExists', Finalize \/ FinalizeFails
  PROVE  [Contract!Next]_Contract!vars
<1>1. cp = ckpt /\ ckpt # NoCheckpoint /\ ckpt.phase = "completing"
  BY DEF IInv, DataInv, LocationInv, OutcomeInv, Finalize, FinalizeFails
<1>2. manifest' \in {manifest, FinalManifest} /\ UNCHANGED <<ckpt, chunk, job>>
  BY DEF Finalize, FinalizeFails, AfterFailedPut, outside
<1>3. FinalManifest = DecidedManifest /\ DecidedManifest' = DecidedManifest
  BY <1>1, <1>2 DEF FinalManifest, DecidedManifest
<1>4. CASE manifest' = manifest
  BY <1>2, <1>3, <1>4, StatusStep
<1>5. CASE manifest' = FinalManifest
  <2>1. OutcomePhase = "decided" /\ OutcomePhase' = "decided"
    BY <1>1, <1>2 DEF OutcomePhase
  <2>2. Outcome = DecidedManifest /\ Outcome' = Outcome
    BY <1>3, <2>1 DEF Outcome
  <2>3. Published' = Outcome /\ Status' = Status
    BY <1>2, <1>3, <1>5, <2>2 DEF Published, Status
  <2>4. Contract!Publish
    BY <2>1, <2>2, <2>3 DEF Contract!Publish
  <2>5. QED BY <2>4 DEF Contract!Next
<1>6. QED BY <1>2, <1>4, <1>5

\* Storing the "reporting" checkpoint closes the extraction.
LEMMA CloseStep ==
  ASSUME IInv, assetExists, assetExists', SaveReporting \/ (SaveFails /\ pc = "reporting")
  PROVE  [Contract!Next]_Contract!vars
<1>1. /\ ckpt # NoCheckpoint /\ ckpt.phase = "completing"
      /\ cp # NoCheckpoint /\ cp.phase = "reporting"
      /\ manifest = DecidedManifest
  BY CheckpointFields DEF IInv, TypeOK, DataInv, LocationInv, OutcomeInv, SaveReporting
<1>2. ckpt' \in {ckpt, cp} /\ UNCHANGED <<chunk, manifest, job, cp>>
  BY DEF SaveReporting, SaveFails, AfterFailedPut, volatile, outside
<1>3. CASE ckpt' = ckpt
  <2>1. DecidedManifest' = DecidedManifest
    BY <1>2, <1>3 DEF DecidedManifest
  <2>2. QED BY <1>2, <1>3, <2>1, StatusStep
<1>4. CASE ckpt' = cp
  <2>1. OutcomePhase = "decided" /\ OutcomePhase' = "closed"
    BY <1>1, <1>4 DEF OutcomePhase
  <2>2. Outcome = manifest /\ Outcome' = manifest
    BY <1>1, <1>2, <2>1 DEF Outcome
  <2>3. Published = manifest /\ Published' = manifest /\ Status' = Status
    BY <1>2 DEF Published, Status
  <2>4. Contract!Close
    BY <2>1, <2>2, <2>3 DEF Contract!Close
  <2>5. QED BY <2>4 DEF Contract!Next
<1>5. QED BY <1>2, <1>3, <1>4

\* The completion is reported of a closed extraction, and its record goes after.
LEMMA CompleteStep ==
  ASSUME IInv, assetExists, assetExists',
         ReportCompleted \/ CompletionNotReported \/ DeleteCheckpoint
  PROVE  [Contract!Next]_Contract!vars
<1>1. ckpt # NoCheckpoint /\ ckpt.phase = "reporting" /\ (DeleteCheckpoint => job = "completed")
  BY DEF IInv, DataInv, LocationInv, ReportCompleted, CompletionNotReported, DeleteCheckpoint
<1>2. UNCHANGED <<chunk, manifest>>
  BY DEF ReportCompleted, CompletionNotReported, DeleteCheckpoint, store
<1>3. OutcomePhase = "closed" /\ Outcome = manifest
  BY <1>1 DEF OutcomePhase, Outcome
<1>4. CASE ckpt' = ckpt /\ job' = job
  BY <1>1, <1>2, <1>4, StatusStep
<1>5. CASE ckpt' = ckpt /\ job' = "completed"
  <2>1. OutcomePhase' = "closed" /\ Outcome' = Outcome /\ Published' = Published
    BY <1>1, <1>2, <1>3, <1>5 DEF OutcomePhase, Outcome, Published
  <2>2. Status' = "completed"
    BY <1>5 DEF Status
  <2>3. Contract!Complete
    BY <1>3, <2>1, <2>2 DEF Contract!Complete
  <2>4. QED BY <2>3 DEF Contract!Next
<1>6. CASE DeleteCheckpoint /\ ckpt' = NoCheckpoint
  <2>1. OutcomePhase' = "open" /\ Outcome' = NoManifest /\ Published' = Published
    BY <1>2, <1>6 DEF OutcomePhase, Outcome, Published
  <2>2. Status = "completed" /\ Status' = Status
    BY <1>1, <1>6 DEF Status, DeleteCheckpoint
  <2>3. Contract!Reopen
    BY <1>3, <2>1, <2>2 DEF Contract!Reopen
  <2>4. QED BY <2>3 DEF Contract!Next
<1>7. QED BY <1>4, <1>5, <1>6 DEF ReportCompleted, CompletionNotReported, DeleteCheckpoint, store

\* What moves the process, saves progress or deletes the inputs only shows in
\* the status.
LEMMA QuietStep ==
  ASSUME IInv, assetExists, assetExists',
         \/ StartRun \/ SkipListing \/ ListEntries \/ SaveListed \/ BeginExtraction
         \/ EntryListMissing \/ PassEntry \/ TakeEntry \/ SpawnExtraction \/ EndOfStream
         \/ Drained \/ FinalFlush \/ DeleteInputs \/ ReportFailed \/ LoadOrOpenFails
         \/ ListEntriesFails \/ (SaveFails /\ pc = "listed") \/ StreamFails \/ Crash
         \/ \E i \in Entries : Task(i)
  PROVE  [Contract!Next]_Contract!vars
<1>1. TypeOK /\ DataInv
  BY DEF IInv
<1>2. CASE FinalFlush \/ \E i \in Entries : Task(i)
  <2>1. Unfinished(ckpt)
    BY <1>2, ChunkWriters
  <2>2. manifest' = manifest /\ job' \in {job, "running"}
    BY <1>2 DEF FinalFlush, Task, ExtractFails, ExtractSucceeds, SaveSnapshot, CheckAsset,
       store, outside
  <2>3. ckpt' = ckpt \/ \E i \in Entries : saving[i] # NoCheckpoint /\ ckpt' = saving[i]
    BY <1>2 DEF FinalFlush, Task, ExtractFails, ExtractSucceeds, SaveSnapshot, CheckAsset,
       AfterFailedPut, store
  <2>4. Unfinished(ckpt')
    BY <1>1, <2>1, <2>3 DEF Unfinished, DataInv, SnapshotsInv
  <2>5. QED BY <2>1, <2>2, <2>4, StatusStep
<1>3. CASE SaveListed \/ (SaveFails /\ pc = "listed")
  <2>1. Unfinished(ckpt) /\ Unfinished(cp)
    BY <1>1, <1>3 DEF DataInv, LocationInv, Unfinished, SaveListed
  <2>2. ckpt' \in {ckpt, cp} /\ manifest' = manifest /\ job' \in {job, "running"}
    BY <1>3 DEF SaveListed, SaveFails, AfterFailedPut
  <2>3. Unfinished(ckpt')
    BY <2>1, <2>2
  <2>4. QED BY <2>1, <2>2, <2>3, StatusStep
<1>4. CASE DeleteInputs
  <2>1. ckpt # NoCheckpoint /\ ckpt.phase = "reporting"
    BY <1>1, <1>4 DEF DataInv, LocationInv, DeleteInputs
  <2>2. UNCHANGED <<ckpt, manifest, job>>
    BY <1>4 DEF DeleteInputs
  <2>3. QED BY <2>1, <2>2, StatusStep
<1>5. CASE \/ StartRun \/ SkipListing \/ ListEntries \/ BeginExtraction \/ EntryListMissing
           \/ PassEntry \/ TakeEntry \/ SpawnExtraction \/ EndOfStream \/ Drained
           \/ ReportFailed \/ LoadOrOpenFails \/ ListEntriesFails \/ StreamFails \/ Crash
  <2>1. UNCHANGED <<ckpt, chunk, manifest>> /\ job' \in {job, "running", "failed"}
    BY <1>5 DEF StartRun, SkipListing, ListEntries, BeginExtraction, EntryListMissing,
       PassEntry, TakeEntry, SpawnExtraction, EndOfStream, Drained, ReportFailed,
       LoadOrOpenFails, ListEntriesFails, StreamFails, Crash, store, outside
  <2>2. DecidedManifest' = DecidedManifest
    BY <2>1 DEF DecidedManifest
  <2>3. QED BY <2>1, <2>2, StatusStep
<1>6. QED BY <1>2, <1>3, <1>4, <1>5

LEMMA ContractInit == Init => Contract!Init
BY DEF Init, Contract!Init, OutcomePhase, Outcome, Published, Status

LEMMA ContractStep ==
  ASSUME IInv, [Next]_vars
  PROVE  [Contract!Next]_Contract!vars
<1>1. CASE ~assetExists
  BY <1>1, AssetNeverReturns, GoneStep
<1>2. CASE assetExists /\ DeleteAsset
  BY <1>2, DeleteStep DEF Contract!Next
<1>3. CASE assetExists /\ ~DeleteAsset
  <2>1. assetExists'
    BY <1>3, AssetNeverReturns
  <2>2. CASE UNCHANGED vars \/ Terminated
    <3>1. UNCHANGED <<ckpt, chunk, manifest, job>>
      BY <2>2 DEF Terminated, vars, store, outside
    <3>2. DecidedManifest' = DecidedManifest
      BY <3>1 DEF DecidedManifest
    <3>3. QED BY <1>3, <2>1, <3>1, <3>2, StatusStep
  <2>3. CASE SaveFails
    BY <1>3, <2>1, <2>3, DecideStep, CloseStep, QuietStep DEF SaveFails
  <2>4. CASE StartRun \/ Main \/ (Failures /\ ~SaveFails) \/ Crash \/ \E i \in Entries : Task(i)
    BY <1>3, <2>1, <2>4, DecideStep, PublishStep, CloseStep, CompleteStep, QuietStep
       DEF Main, Failures
  <2>5. QED BY <1>3, <2>2, <2>3, <2>4 DEF Next
<1>4. QED BY <1>1, <1>2, <1>3

\* The worker implements the contract of an extraction: its outcome is decided
\* once, only that is published, and only what is published completes the job
\* (worker.go:358-361, 469-510).
THEOREM ImplementsContract == Spec => OutcomeIsDecidedOnce
<1>1. Init => Contract!Init
  BY ContractInit
<1>2. IInv /\ [Next]_vars => [Contract!Next]_Contract!vars
  BY ContractStep
<1>3. QED BY <1>1, <1>2, Invariance, PTL DEF Spec, OutcomeIsDecidedOnce, Contract!Spec

=============================================================================
