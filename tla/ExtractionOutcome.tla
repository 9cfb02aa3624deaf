--------------------------- MODULE ExtractionOutcome ---------------------------
(***************************************************************************)
(* What the extraction worker promises those who asked for an extraction   *)
(* (docs/adr/001-archive-extraction.md): the outcome of an extraction, its *)
(* manifest, is decided once and for all before anything of it is          *)
(* published; what is published is what was decided; and the job is        *)
(* completed only while the published outcome stands.  How often the       *)
(* process is started, and what is lost or repeated on the way, does not   *)
(* show, save in the status, which is reported at best effort.             *)
(***************************************************************************)
CONSTANTS
  Outcomes,       \* the manifests that tell what became of every file
  None

VARIABLES
  phase,          \* open, decided, closed; gone with the asset
  outcome,        \* what was decided, from then until the extraction is over
  published,      \* the manifest a client finds
  status          \* of the job, as clients see it

vars == <<phase, outcome, published, status>>

Init ==
  /\ phase = "open"
  /\ outcome = None
  /\ published = None
  /\ status = "pending"

Decide ==
  /\ phase = "open"
  /\ phase' = "decided"
  /\ outcome' \in Outcomes
  /\ UNCHANGED <<published, status>>

Publish ==
  /\ phase = "decided"
  /\ published' = outcome
  /\ UNCHANGED <<phase, outcome, status>>

\* What is published is final.
Close ==
  /\ phase = "decided"
  /\ published = outcome
  /\ phase' = "closed"
  /\ UNCHANGED <<outcome, published, status>>

Complete ==
  /\ phase = "closed"
  /\ status' = "completed"
  /\ UNCHANGED <<phase, outcome, published>>

\* A run that starts, goes on or gives up says so, late or not.
Report ==
  /\ phase # "gone"
  /\ status' \in {"running", "failed"}
  /\ UNCHANGED <<phase, outcome, published>>

\* The record of a completed extraction goes: a later run would begin again.
Reopen ==
  /\ phase = "closed"
  /\ status = "completed"
  /\ phase' = "open"
  /\ outcome' = None
  /\ UNCHANGED <<published, status>>

Delete ==
  /\ phase # "gone"
  /\ phase' = "gone"
  /\ outcome' = None
  /\ published' = None
  /\ status' = "gone"

Next == Decide \/ Publish \/ Close \/ Complete \/ Report \/ Reopen \/ Delete

Spec == Init /\ [][Next]_vars

===============================================================================
