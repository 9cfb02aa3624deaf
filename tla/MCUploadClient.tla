---------------------------- MODULE MCUploadClient ----------------------------
(* Two processes that share a configuration directory: one uploads          *)
(* compressible files in three parts, streamed or held in memory, the other *)
(* one that is put at once, with site options.  Four starts, each a state   *)
(* that ClientSpec reaches, share the bounds out among what they are about. *)
EXTENDS UploadClient, TLC

CONSTANTS p1, p2, u1, u2, i1, i2, i3

MCClients == {p1, p2}
MCUploads == {u1, u2}
MCIds == {i1, i2, i3}
Of(size, gzip, direct, want) == [size |-> size, gzip |-> gzip, direct |-> direct, want |-> want]
MCCommands == (p1 :> {Of("huge", TRUE, FALSE, {}), Of("multi", TRUE, FALSE, {})} @@ p2 :> {Of("single", TRUE, FALSE, {"patch", "name"})})
MCDeployments == {[presigned |-> TRUE, anonymous |-> TRUE, refresh |-> "revokes"],
                  [presigned |-> TRUE, anonymous |-> FALSE, refresh |-> "rotates"],
                  [presigned |-> FALSE, anonymous |-> TRUE, refresh |-> "revokes"],
                  [presigned |-> FALSE, anonymous |-> TRUE, refresh |-> "rotates"],
                  [presigned |-> FALSE, anonymous |-> TRUE, refresh |-> "keeps"]}

\* The n-th login, its token as old as a, and nothing under way; uploads that an
\* earlier command of p2 completed; a fault that an earlier command met.
LoggedIn(n, a) ==
  /\ credentials = [access |-> n, refresh |-> n] /\ refreshable = 1..n
  /\ age = [m \in Tokens |-> IF m < n THEN "expired" ELSE IF m = n THEN a ELSE "unissued"]
AtRest ==
  /\ sessionFile = None /\ live = {} /\ minted = {}
  /\ upload = [u \in Uploads |-> None] /\ part = [u \in Uploads |-> NoParts]
  /\ deployed \in Deployments
  /\ cmd = [p \in Clients |-> Idle]
  /\ calm = TRUE /\ spoiled = FALSE
Uploaded(done) ==
  /\ opened = [u \in Uploads |-> IF u \in done THEN [owner |-> Project, size |-> "single"] ELSE None]
  /\ asset = [u \in Uploads |-> IF u \in done
                THEN [owner |-> Project, encoding |-> "gzip", body |-> [k \in 1..Parts |-> Cut(TRUE, k)]] ELSE None]

\* Refreshes in turn; a login that ran out, with uploads and faults; uploads with a
\* refresh on the way; a refresh with faults.
Refreshing == LoggedIn(1, "fresh") /\ (\E u \in Uploads : Uploaded({u})) /\ faults = MaxFaults /\ ~deployed.presigned
RanOut     == LoggedIn(2, "expired") /\ Uploaded({}) /\ faults = 0
Uploading  == LoggedIn(2, "fresh") /\ Uploaded({}) /\ faults = MaxFaults /\ deployed.presigned
Failing    == LoggedIn(2, "fresh") /\ (\E u \in Uploads : Uploaded({u})) /\ faults = 0

MCInit == AtRest /\ (Refreshing \/ RanOut \/ Uploading \/ Failing)
MCSpec == MCInit /\ [][ClientNext]_clientVars
Symmetric == Permutations(MCUploads) \cup Permutations(MCIds)
===============================================================================
