-------------------------- MODULE MCExtractionJobs --------------------------
(***************************************************************************)
(* An instance of ExtractionJobs for TLC: a1 is an asset's own job, v1 the  *)
(* job of a version of that asset.  A behaviour begins in one of three      *)
(* places.  Alone: before a1 is uploaded, with failures or requests on its  *)
(* way.  GivenUp: after the cron has given a1 up, whose asset may have been *)
(* deleted since, with both.  Together: with a1 and v1 extracted but for    *)
(* the report when the cron has sent each its last message, or with v1's    *)
(* version deleted before it was extracted; nothing else goes wrong here,   *)
(* and their handlers overlap.                                              *)
(***************************************************************************)
EXTENDS ExtractionJobs

CONSTANTS a1, v1

AssetJob == {a1}
AssetAndVersion == {a1, v1}
OfAsset == [j \in AssetAndVersion |-> a1]

\* What the cron writes when it re-enqueues a job for the last time.
Requeued == [status |-> "pending", retries |-> MaxRetries, count |-> Total, mark |-> Total]

Only(j, x, y) == [i \in Jobs |-> IF i = j THEN x ELSE y]

\* Messages of the jobs in js are on their last delivery.
Waiting(js) ==
  [j \in Jobs |-> [a \in 1..MaxAttempts |-> IF j \in js /\ a = MaxAttempts THEN 1 ELSE 0]]

Alone ==
  /\ AtRest
  /\ row = [j \in Jobs |-> NoRow]
  /\ mirror = Only(a1, "new", "absent")
  /\ older = [j \in Jobs |-> {}]
  /\ queue = Waiting({})
  /\ extracted = [j \in Jobs |-> 0]
  /\ resends = [j \in Jobs |-> 0]
  /\ \/ faults = 0 /\ asked = MaxRequests
     \/ faults = MaxFaults /\ asked = 0

GivenUp ==
  \E deleted \in BOOLEAN :
    /\ AtRest
    /\ row = Only(a1, [Requeued EXCEPT !.status = "failed", !.retries = MaxRetries + 1], NoRow)
    /\ mirror = Only(a1, IF deleted THEN "absent" ELSE "failed", "absent")
    /\ older = [j \in Jobs |-> {}]
    /\ queue = Waiting({})
    /\ extracted = Only(a1, IF deleted THEN 0 ELSE Total, 0)
    /\ resends = Only(a1, MaxRetries, 0)
    /\ faults = 0
    /\ asked = 0

Together ==
  \E deleted \in SUBSET {v1} :
    /\ AtRest
    /\ row = [j \in Jobs |-> IF j \in deleted THEN FreshRow ELSE Requeued]
    /\ mirror = [j \in Jobs |-> IF j \in deleted THEN "absent" ELSE "extracting"]
    /\ older = Only(v1, {a1}, {})
    /\ queue = Waiting(Jobs)
    /\ extracted = [j \in Jobs |-> IF j \in deleted THEN 0 ELSE Total]
    /\ resends = [j \in Jobs |-> IF j \in deleted THEN 0 ELSE MaxRetries]
    /\ faults = MaxFaults
    /\ asked = MaxRequests

MCSpec == (Alone \/ GivenUp \/ Together) /\ [][Next]_vars /\ Fairness
=============================================================================
