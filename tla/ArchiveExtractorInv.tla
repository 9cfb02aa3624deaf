------------------------- MODULE ArchiveExtractorInv -------------------------
(***************************************************************************)
(* The inductive invariant of ArchiveExtractor: what is true of the stored *)
(* checkpoint, of the snapshots still to be saved, of the process's memory *)
(* at each location, and of the published manifest; and the mapping under  *)
(* which the worker implements ExtractionOutcome.  TLC checks both; the    *)
(* module ArchiveExtractorProofs proves them.                              *)
(***************************************************************************)
EXTENDS ArchiveExtractor

\* The root prefix of every line in the first n chunks.
ChunksUseRoot(chs, n, root) ==
  \A k \in 0..(n - 1) : k \in DOMAIN chs => \A l \in chs[k] : l.root = root

GoodCheckpoint(chs, c) ==
  /\ ChunksExist(chs, c.chunks)
  /\ ChunksUseRoot(chs, c.chunks, c.root)
  /\ Resumable(chs, c)

Complete(chs, c) == \A i \in Files : Accounted(chs, c, i)

\* Goroutines live only between the start of phase B and its wait.
PhaseB == {"streaming", "acquiring", "draining", "flushing"}
GoroutinesOnlyInPhaseB ==
  /\ pc \notin PhaseB \cup {"failing"} => Active = {}
  /\ pc \notin PhaseB \cup {"failing"} => buffer = {}
  /\ extracting \subseteq Files
  /\ pc = "acquiring" => streamPos < N /\ streamPos \notin Dirs /\ streamPos > resumeAfter
  /\ pc = "flushing" => streamPos = N

StoredInv ==
  ckpt # NoCheckpoint =>
    /\ ckpt.phase # "entries_listing"
    /\ IF ckpt.phase = "reporting" THEN manifest # NoManifest ELSE GoodCheckpoint(chunk, ckpt)
    /\ ckpt.phase = "completing" => Complete(chunk, ckpt)

ManifestInv ==
  manifest # NoManifest =>
    /\ Files \subseteq IdxOf(manifest.lines) \cup manifest.errs \cup manifest.lost
    /\ \A l1, l2 \in manifest.lines : l1.root = l2.root

SnapshotsInv ==
  \A i \in Entries : saving[i] # NoCheckpoint =>
    /\ saving[i].phase = "extracting"
    /\ saving[i].chunks <= chunkIndex
    /\ GoodCheckpoint(chunk, saving[i])

\* Where the outcome of a settled file is.
Held(i) ==
  \/ InChunks(chunk, i, chunkIndex, cp.root)
  \/ [idx |-> i, root |-> cp.root] \in buffer
  \/ i \in cp.errs
  \/ i \in cp.lost

PhaseBInv ==
  pc \in PhaseB \/ (pc = "failing" /\ Active # {}) =>
    /\ cp.phase = "extracting"
    /\ cp.chunks <= chunkIndex
    /\ ckpt # NoCheckpoint => ckpt.phase \in {"entries_listed", "extracting"}
                             /\ ckpt.chunks <= chunkIndex
    /\ ChunksExist(chunk, chunkIndex)
    /\ ChunksUseRoot(chunk, chunkIndex, cp.root)
    /\ \A l \in buffer : l.root = cp.root /\ l.idx \in Files
    /\ 0..loWater \subseteq settled
    /\ \A i \in Files \cap settled : Held(i)
    /\ \A i \in Files : i < streamPos \/ i <= resumeAfter => i \in settled \cup extracting

LocationInv ==
  /\ pc \in {"listing", "listed"} => ckpt = NoCheckpoint /\ cp.chunks = 0 /\ cp.last = -1
  /\ pc = "listing" => cp = FreshCheckpoint
  /\ pc = "listed" => cp.phase = "entries_listed"
  /\ pc = "starting" =>
       /\ GoodCheckpoint(chunk, cp)
       /\ cp.phase \in {"entries_listed", "extracting"}
       /\ ckpt # NoCheckpoint => ckpt.phase \in {"entries_listed", "extracting"}
                                /\ ckpt.chunks <= cp.chunks
  /\ pc = "completing" /\ ckpt # NoCheckpoint => ckpt.phase \in {"entries_listed", "extracting"}
  /\ pc \in {"completing", "finalizing"} =>
       cp.phase = "completing" /\ GoodCheckpoint(chunk, cp) /\ Complete(chunk, cp)
  /\ pc \in {"reporting", "cleaning", "callback", "acknowledged"} =>
       cp.phase = "reporting" /\ manifest # NoManifest
  /\ pc \in {"cleaning", "callback", "acknowledged"} =>
       ckpt # NoCheckpoint /\ ckpt.phase = "reporting"
  /\ pc \in {"finalizing", "reporting"} => ckpt # NoCheckpoint /\ ckpt.phase = "completing"
  /\ pc = "acknowledged" => job = "completed"

\* What holds while the asset exists; its deletion wipes the prefix.
DataInv ==
  /\ StoredInv
  /\ ManifestInv
  /\ SnapshotsInv
  /\ PhaseBInv
  /\ LocationInv
  /\ job = "completed" => manifest # NoManifest

\* What Finalize publishes once the "completing" checkpoint is stored.
DecidedManifest ==
  [lines |-> Merged(chunk, ckpt.chunks), errs |-> ckpt.errs, lost |-> ckpt.lost]

\* From the "completing" checkpoint to the "reporting" one, every run works on
\* the stored checkpoint, and what it publishes is what that one determines.
OutcomeInv ==
  /\ pc = "finalizing" => cp = ckpt
  /\ pc = "reporting" => manifest = DecidedManifest

\* The inductive invariant: what the worker has in memory, what its goroutines
\* still have to save and what is stored agree, so that a crash anywhere in
\* worker.go leaves a checkpoint that can be resumed from.
IInv ==
  /\ TypeOK
  /\ GoroutinesOnlyInPhaseB
  /\ assetExists => DataInv
  /\ assetExists => OutcomeInv

-----------------------------------------------------------------------------
(* What the worker implements *)

Outcomes ==
  {m \in Manifests :
     /\ Files \subseteq IdxOf(m.lines) \cup m.errs \cup m.lost
     /\ \A l1, l2 \in m.lines : l1.idx = l2.idx => l1 = l2}

\* The stored checkpoint is the record of how far the extraction is.
OutcomePhase ==
  IF ~assetExists THEN "gone"
  ELSE IF ckpt = NoCheckpoint THEN "open"
  ELSE CASE ckpt.phase = "completing" -> "decided"
         [] ckpt.phase = "reporting" -> "closed"
         [] OTHER -> "open"

Outcome ==
  CASE OutcomePhase = "decided" -> DecidedManifest
    [] OutcomePhase = "closed" -> manifest
    [] OTHER -> NoManifest

Published == IF assetExists THEN manifest ELSE NoManifest
Status    == IF assetExists THEN job ELSE "gone"

Contract == INSTANCE ExtractionOutcome
  WITH None <- NoManifest, phase <- OutcomePhase, outcome <- Outcome,
       published <- Published, status <- Status

\* Whatever crashes, fails or comes twice, the manifest of an extraction is
\* decided once, by the chunks and errors of the "completing" checkpoint; every
\* run that publishes publishes that one, complete and with each file once; and
\* "completed" is reported only when it is out (worker.go:358-361, 469-510).
OutcomeIsDecidedOnce == Contract!Spec
=============================================================================
