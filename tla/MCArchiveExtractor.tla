------------------------- MODULE MCArchiveExtractor -------------------------
(***************************************************************************)
(* Instances of ArchiveExtractor for TLC: an archive of four entries, the  *)
(* second of which is a directory inside the run of files, so that the     *)
(* low-water mark has to step over it.                                     *)
(***************************************************************************)
EXTENDS ArchiveExtractorInv

MCDirs == {1}
=============================================================================
