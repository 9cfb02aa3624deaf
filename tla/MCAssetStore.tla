---------------------------- MODULE MCAssetStore ----------------------------
(***************************************************************************)
(* Instances of AssetStore for TLC: one asset of the project and one       *)
(* version of it.  The races are those of two requests at once and the     *)
(* cron; PATCH and re-extraction come one at a time, beside the cron.      *)
(***************************************************************************)
EXTENDS AssetStore, TLC

CONSTANTS p1, v1, s1, s2

ProjectAsset == {p1}
OneVersion   == {v1}
OneSlot      == {s1}
TwoSlots     == {s1, s2}
AllKinds     == {"upload", "complete", "version", "unversion", "patch", "delete", "report", "extract"}
Racing       == AllKinds \ {"patch", "extract"}
Symmetric    == Permutations(TwoSlots)
=============================================================================
