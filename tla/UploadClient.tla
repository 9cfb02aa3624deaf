----------------------------- MODULE UploadClient -----------------------------
(***************************************************************************)
(* The command line client uploading files (cli/upload, helpers, config,   *)
(* auth.ts): several processes share one configuration directory, whose    *)
(* files say who they are, while tokens age, server sessions expire and    *)
(* the user logs in and out beside them.                                   *)
(*                                                                         *)
(* A command is cut at its requests.  The server answers a request and the *)
(* client takes the answer in one step; what may go wrong inside the       *)
(* server is in AssetStore.  A stored body is what each part holds:        *)
(* <<"raw", k>>, <<"gz", k>> or nothing; a file put in one piece is the    *)
(* same body at once.                                                      *)
(***************************************************************************)
EXTENDS Integers, FiniteSets

CONSTANTS
  Clients, Uploads, Ids,      \* commands at once; upload ids, session ids, used once each
  Project,                      \* the default project of the configuration
  Commands,                     \* the uploads each process may be asked for, see Invocations
  Deployments,                  \* what a server may offer and its provider does
  Parts, GzipParts,             \* parts of a large file; how many its gzip fills
  MaxConcurrency, Retries,
  MaxTokens, MaxFaults,         \* bounds on tokens issued; on failed calls, logouts and lost sessions
  None, Blank                   \* Blank: a file that was emptied

\* A file of up to 100 MB, of up to 1 GiB, or more; whether it is compressible; --direct;
\* and what is to be done with the asset: --site and --password, --name.
Invocations == [size : {"single", "multi", "huge"}, gzip : BOOLEAN, direct : BOOLEAN,
                want : SUBSET {"patch", "name"}]

\* What a provider does with a refresh token it answers: it keeps it; it retires it for a
\* new one; or it also takes a retired one that is presented for theft and revokes the
\* login's tokens.
Providers == {"keeps", "rotates", "revokes"}

ASSUME UploadClientAssumption ==
  /\ Commands \in [Clients -> SUBSET Invocations]
  /\ Deployments \subseteq [presigned : BOOLEAN, anonymous : BOOLEAN, refresh : Providers]
  /\ {Parts, GzipParts, MaxConcurrency} \subseteq Nat \ {0} /\ GzipParts <= Parts
  /\ {Retries, MaxTokens, MaxFaults} \subseteq Nat
  /\ Project \notin Ids /\ Ids \cap 1..MaxTokens = {} /\ None # Blank
  /\ None \notin Ids \cup Uploads \cup {Project} /\ None \notin 1..MaxTokens
  /\ None \notin {"token", "save", "gzip"}
  /\ {None, Blank} \cap [access : 1..MaxTokens, refresh : 1..MaxTokens] = {}
  /\ None \notin [owner : Ids \cup {Project}, size : {"single", "multi", "huge"}]

VARIABLES
  credentials,        \* credentials.json: None, Blank, or [access, refresh]
  sessionFile,        \* session.json: None or an id
  age,                \* of each access token: unissued, fresh, closing (its last minute), expired
  refreshable,        \* refresh tokens the provider accepts
  live, minted,       \* the server's sessions; ids given out by server or client
  upload,             \* the server's upload sessions: [owner, encoding] or None
  part,               \* parts stored: part[u][k]
  asset,              \* assets made: [owner, encoding, body] or None
  deployed,           \* what the server offers, and what the provider does with
                      \* refresh tokens: [presigned, anonymous, refresh]
  cmd,                \* each process's command
  opened,             \* history: the owner each upload was opened for and the command's size
  calm,               \* history: commands ran alone, nothing ran out under them
  spoiled,            \* history: the answer of a refresh was lost
  faults

files  == <<credentials, sessionFile>>
server == <<live, upload, part, asset, deployed, opened>>
tokens == <<age, refreshable>>
clientVars   == <<files, tokens, server, minted, cmd, calm, spoiled, faults>>

Tokens == 1..MaxTokens
Empty == <<"empty", 0>>
Idle == [at |-> "idle", of |-> None, id |-> None, header |-> None, sub |-> None, creds |-> None,
         etags |-> {}, tries |-> [k \in 1..Parts |-> 0], refused |-> FALSE]

ClientInit ==
  /\ credentials = None /\ sessionFile = None
  /\ age = [n \in Tokens |-> "unissued"] /\ refreshable = {}
  /\ live = {} /\ minted = {}
  /\ upload = [u \in Uploads |-> None] /\ asset = [u \in Uploads |-> None] /\ opened = [u \in Uploads |-> None]
  /\ part = [u \in Uploads |-> [k \in 1..Parts |-> Empty]]
  /\ deployed \in Deployments
  /\ cmd = [p \in Clients |-> Idle]
  /\ calm = TRUE /\ spoiled = FALSE /\ faults = 0

Running(p) == cmd[p].at # "idle"
Quiet == \A p \in Clients : ~Running(p)
Fault == faults < MaxFaults /\ faults' = faults + 1
At(p, at) == cmd[p].at = at
Becomes(p, c) == cmd' = [cmd EXCEPT ![p] = c]
GoTo(p, at) == Becomes(p, [cmd[p] EXCEPT !.at = at, !.header = None])
End(p) == Becomes(p, Idle)
Refuse(p) == Becomes(p, [Idle EXCEPT !.refused = calm /\ deployed.anonymous])

-------------------------------------------------------------------------------
(* The configuration directory (config.ts).                                *)

\* A file that logout has emptied does not parse: reading it throws.
Unreadable == credentials = Blank
LoadCredentials ==
  IF credentials = None \/ Unreadable THEN None
  ELSE IF age[credentials.access] = "expired" THEN None ELSE credentials

\* The first id that is not in use, as randomBytes and randomUUID are taken to give.
FreshIds == Ids \ minted
FreshTokens == {n \in Tokens : age[n] = "unissued"}
NextToken(n) == n \in FreshTokens /\ \A m \in FreshTokens : n <= m

\* Logging in and out, in another terminal.  The browser's part of a login is
\* outside; a login ends with the file being written.
Login ==
  /\ \E n \in Tokens :
       /\ NextToken(n)
       /\ credentials' = [access |-> n, refresh |-> n]
       /\ age' = [age EXCEPT ![n] = "fresh"] /\ refreshable' = refreshable \cup {n}
  /\ calm' = (calm /\ Quiet)
  /\ UNCHANGED <<sessionFile, server, minted, cmd, spoiled, faults>>

Logout ==
  /\ credentials # None /\ credentials' = Blank /\ Fault
  /\ calm' = (calm /\ Quiet)
  /\ UNCHANGED <<sessionFile, tokens, server, minted, cmd, spoiled>>

\* Time passes for a token; for a session of the server.
Older(a) == IF a = "fresh" THEN "closing" ELSE "expired"

Age(n) ==
  /\ age[n] \in {"fresh", "closing"} /\ (\A m \in Tokens : m < n => age[m] # age[n]) /\ age' = [age EXCEPT ![n] = Older(@)]
  /\ calm' = (calm /\ (Quiet \/ age[n] = "fresh"))
  /\ UNCHANGED <<files, refreshable, server, minted, cmd, spoiled, faults>>

SessionExpires(i) ==
  /\ i \in live /\ live' = live \ {i} /\ Fault
  /\ calm' = (calm /\ Quiet)
  /\ UNCHANGED <<files, tokens, upload, part, asset, deployed, opened, minted, cmd, spoiled>>

-------------------------------------------------------------------------------
(* commonHeaders: the token, refreshed in its last minute, or the session. *)

Asking == {"init", "complete", "direct", "patch", "name"}

\* A token about to expire is refreshed first.
Closing == LoadCredentials # None /\ age[LoadCredentials.access] = "closing"

CommonHeaders(p) ==
  /\ cmd[p].at \in Asking /\ cmd[p].header = None /\ cmd[p].sub = None
  /\ IF Unreadable THEN End(p) /\ UNCHANGED <<sessionFile, minted>>
     ELSE IF Closing
     THEN Becomes(p, [cmd[p] EXCEPT !.sub = "token", !.creds = LoadCredentials]) /\ UNCHANGED <<sessionFile, minted>>
     ELSE IF LoadCredentials # None
     THEN Becomes(p, [cmd[p] EXCEPT !.header = LoadCredentials.access]) /\ UNCHANGED <<sessionFile, minted>>
     ELSE \E i \in IF sessionFile # None THEN {sessionFile} ELSE FreshIds :
            /\ Becomes(p, [cmd[p] EXCEPT !.header = i])
            /\ sessionFile' = i /\ minted' = minted \cup {i}
  /\ UNCHANGED <<credentials, tokens, server, calm, spoiled, faults>>

\* The provider answers with a new access token and, unless it keeps refresh tokens, a
\* new one of these, which retires the old one.  Or it refuses a retired one, and if it
\* takes that for theft revokes others, any of them here; or the call fails.
Answer(p, r) == Becomes(p, [cmd[p] EXCEPT !.sub = "save", !.creds = r])
Resume(p) == Becomes(p, [cmd[p] EXCEPT !.sub = None, !.creds = None, !.header = cmd[p].creds.access])

RefreshAccessToken(p) ==
  /\ cmd[p].sub = "token"
  /\ LET old == cmd[p].creds.refresh IN
     \/ /\ old \in refreshable
        /\ \E n \in Tokens : LET kept == IF deployed.refresh = "keeps" THEN old ELSE n IN
             /\ NextToken(n)
             /\ age' = [age EXCEPT ![n] = "fresh"]
             /\ refreshable' = (refreshable \ {old}) \cup {kept}
             /\ Answer(p, [access |-> n, refresh |-> kept])
        /\ UNCHANGED <<spoiled, faults>>
     \/ /\ old \notin refreshable /\ Resume(p) /\ UNCHANGED <<age, spoiled, faults>>
        /\ refreshable' \in IF deployed.refresh = "revokes" THEN SUBSET refreshable ELSE {refreshable}
     \/ Fault /\ Resume(p) /\ spoiled' = TRUE
        /\ refreshable' \in {refreshable, refreshable \ {old}} /\ UNCHANGED age
  /\ UNCHANGED <<files, server, minted, calm>>

MutantSaved(r) == IF credentials \in {None, Blank} THEN r ELSE [r EXCEPT !.refresh = credentials.refresh]
Saved(r) == r

\* The answer is written over whatever the file holds by now, and read back.
SaveCredentials(p) ==
  /\ cmd[p].sub = "save"
  /\ credentials' = Saved(cmd[p].creds)
  /\ Resume(p)
  /\ UNCHANGED <<sessionFile, tokens, server, minted, calm, spoiled, faults>>

-------------------------------------------------------------------------------
(* The server's side of a request: whom it takes the caller for, and the   *)
(* session it mints for an id it does not know.                            *)

IsToken(h) == h \in Tokens
Unauthorized(h) == IsToken(h) /\ age[h] = "expired"

\* The session a request runs in, None for a user, and what its answer gives out.
Sessions(h) == IF IsToken(h) THEN {None} ELSE IF h \in live THEN {h} ELSE FreshIds
Issue(h, i) == IF i \in {None, h} THEN UNCHANGED <<live, minted>>
               ELSE live' = live \cup {i} /\ minted' = minted \cup {i}

\* adoptSessionId: the id in the answer replaces the one on file, unless logged in.
MutantAdopt(h, i) == UNCHANGED sessionFile
Adopt(h, i) ==
  sessionFile' = IF ~Unreadable /\ LoadCredentials = None /\ i \notin {None, h} THEN i ELSE sessionFile

Ready(p, at) == At(p, at) /\ cmd[p].header # None

\* What an asset or an upload is bound to: the default project, or the session.
Owner(i) == IF i = None THEN Project ELSE i
Denied(i) == i # None /\ ~deployed.anonymous
Offers(i) == deployed.presigned /\ ~Denied(i)

\* The client reads the credentials again when it takes an answer.
Take(p, next) == IF Unreadable THEN End(p) ELSE next

-------------------------------------------------------------------------------
(* An upload: the probe, the upload session, its parts, completion.         *)

DoUpload(p, c) ==
  /\ ~Running(p)
  /\ Becomes(p, [Idle EXCEPT !.at = "probe", !.of = c])
  /\ calm' = (calm /\ Quiet)
  /\ UNCHANGED <<files, tokens, server, minted, spoiled, faults>>

\* shouldBlockAnonymousUpload; a probe that fails does not block.
Probe(p) ==
  /\ At(p, "probe")
  /\ LET proceed == GoTo(p, IF cmd[p].of.direct THEN "direct" ELSE "init") IN
     IF Unreadable THEN End(p) /\ UNCHANGED faults
     ELSE IF LoadCredentials # None \/ deployed.anonymous THEN proceed /\ UNCHANGED faults
     ELSE (End(p) /\ UNCHANGED faults) \/ (proceed /\ Fault)
  /\ UNCHANGED <<files, tokens, server, minted, calm, spoiled>>

\* POST /uploads.  The server decides whether the file is to be gzipped.
CreateUploadSession(p, u) ==
  /\ Ready(p, "init") /\ opened[u] = None
  /\ LET h == cmd[p].header IN
     \/ Unauthorized(h) /\ Refuse(p) /\ UNCHANGED <<files, server, minted>>
     \/ /\ ~Unauthorized(h)
        /\ \E i \in Sessions(h) :
             /\ Issue(h, i) /\ Adopt(h, i)
             /\ IF Offers(i)
                THEN /\ upload' = [upload EXCEPT ![u] = [owner |-> Owner(i), encoding |-> IF cmd[p].of.gzip THEN "gzip" ELSE None]]
                     /\ opened' = [opened EXCEPT ![u] = [owner |-> Owner(i), size |-> cmd[p].of.size]]
                     /\ Take(p, Becomes(p, [cmd[p] EXCEPT !.at = "put", !.id = u, !.header = None]))
                ELSE /\ UNCHANGED <<upload, opened>>
                     /\ Take(p, IF Denied(i) THEN Refuse(p)
                                ELSE IF cmd[p].of.size = "huge" THEN End(p) ELSE GoTo(p, "direct"))
        /\ UNCHANGED <<credentials, part, asset, deployed>>
  /\ UNCHANGED <<tokens, calm, spoiled, faults>>

\* The bytes of part k.  A file in memory is gzipped when the server says so and then
\* cut; one that is streamed from disk is cut as it is.
Cut(gz, k) == IF ~gz THEN <<"raw", k>> ELSE IF k <= GzipParts THEN <<"gz", k>> ELSE Empty
Chunk(p, k) == Cut(upload[cmd[p].id].encoding = "gzip" /\ cmd[p].of.size # "huge", k)

\* One PUT of everything, not tried again.
PutObject(p) ==
  /\ At(p, "put") /\ cmd[p].of.size = "single"
  /\ part' = [part EXCEPT ![cmd[p].id] = [k \in 1..Parts |-> Chunk(p, k)]]
  /\ \/ GoTo(p, "complete") /\ UNCHANGED faults
     \/ Fault /\ End(p)
  /\ UNCHANGED <<files, tokens, live, upload, asset, deployed, opened, minted, calm, spoiled>>

\* The batch under way: the parts after those of the batches that are done.
Batch(p) ==
  LET n == MaxConcurrency * (Cardinality(cmd[p].etags) \div MaxConcurrency)
  IN {k \in 1..Parts : n < k /\ k <= n + MaxConcurrency}

\* uploadPartWithRetry: an answer that is not ok is tried again, whether the part was
\* stored or not; the last one, or a broken connection, ends the upload.
PutPart(p, k) ==
  /\ At(p, "put") /\ cmd[p].of.size # "single" /\ k \in Batch(p) \ cmd[p].etags
  /\ \/ /\ part' = [part EXCEPT ![cmd[p].id][k] = Chunk(p, k)]
        /\ Becomes(p, [cmd[p] EXCEPT !.etags = @ \cup {k}, !.tries[k] = 0]) /\ UNCHANGED faults
     \/ /\ Fault
        /\ part' \in {part, [part EXCEPT ![cmd[p].id][k] = Chunk(p, k)]}
        /\ IF cmd[p].tries[k] < Retries THEN Becomes(p, [cmd[p] EXCEPT !.tries[k] = @ + 1]) \/ End(p)
           ELSE End(p)
  /\ UNCHANGED <<files, tokens, live, upload, asset, deployed, opened, minted, calm, spoiled>>

MutantAllPut(p) == cmd[p].etags # {}
AllPut(p) == cmd[p].etags = 1..Parts

PartsDone(p) ==
  /\ At(p, "put") /\ cmd[p].of.size # "single" /\ AllPut(p)
  /\ GoTo(p, "complete")
  /\ UNCHANGED <<files, tokens, server, minted, calm, spoiled, faults>>

\* The handler wants the project's member, or the session the upload was opened in;
\* a user may complete the upload of a session.
MutantMayComplete(u, i) == upload[u].owner = Project => i = None
MayComplete(u, i) == IF upload[u].owner = Project THEN i = None ELSE i \in {None, upload[u].owner}

\* The asset's project is the upload's, its session the caller's.
Completed(p, i) ==
  LET u == cmd[p].id IN
  [owner    |-> IF upload[u].owner = Project THEN Project ELSE i,
   encoding |-> upload[u].encoding,
   body     |-> [k \in 1..Parts |-> IF cmd[p].of.size = "single" \/ k \in cmd[p].etags THEN part[u][k] ELSE Empty]]

\* The upload session is deleted, its parts have become the object.
NoParts == [k \in 1..Parts |-> Empty]
Forget(u) == upload' = [upload EXCEPT ![u] = None] /\ part' = [part EXCEPT ![u] = NoParts]

\* After the upload: site options need a project.
Configure(p, owner, from) ==
  IF owner # Project THEN End(p)
  ELSE IF from = "upload" /\ "patch" \in cmd[p].of.want THEN GoTo(p, "patch")
  ELSE IF from # "name" /\ "name" \in cmd[p].of.want THEN GoTo(p, "name") ELSE End(p)

CompleteUploadSession(p) ==
  /\ Ready(p, "complete")
  /\ LET h == cmd[p].header u == cmd[p].id IN
     \/ Unauthorized(h) /\ Refuse(p) /\ UNCHANGED <<files, server, minted, faults>>
     \/ /\ ~Unauthorized(h)
        /\ \E i \in Sessions(h) :
             /\ Issue(h, i) /\ Adopt(h, i)
             /\ IF ~MayComplete(u, i) THEN UNCHANGED <<upload, part, asset, faults>> /\ Take(p, Refuse(p))
                ELSE \/ /\ asset' = [asset EXCEPT ![u] = Completed(p, i)] /\ Forget(u) /\ UNCHANGED faults
                        /\ Take(p, Configure(p, Completed(p, i).owner, "upload"))
                     \/ /\ Fault /\ asset' \in {asset, [asset EXCEPT ![u] = Completed(p, i)]}
                        /\ End(p) /\ UNCHANGED <<upload, part>>
        /\ UNCHANGED <<credentials, deployed, opened>>
  /\ UNCHANGED <<tokens, calm, spoiled>>

\* uploadDirect: one request with the whole file, gzipped by the client's own rule.
UploadDirect(p, u) ==
  /\ Ready(p, "direct") /\ opened[u] = None
  /\ LET h == cmd[p].header IN
     \/ Unauthorized(h) /\ Refuse(p) /\ UNCHANGED <<files, server, minted, faults>>
     \/ /\ ~Unauthorized(h)
        /\ \E i \in Sessions(h) :
             /\ Issue(h, i) /\ Adopt(h, i)
             /\ IF Denied(i) THEN UNCHANGED <<asset, opened, faults>> /\ Take(p, Refuse(p))
                ELSE /\ asset' = [asset EXCEPT ![u] = [owner |-> Owner(i), encoding |-> IF cmd[p].of.gzip THEN "gzip" ELSE None,
                                    body |-> [k \in 1..Parts |-> Cut(cmd[p].of.gzip, k)]]]
                     /\ opened' = [opened EXCEPT ![u] = [owner |-> Owner(i), size |-> cmd[p].of.size]]
                     /\ \/ Take(p, IF Owner(i) # Project \/ cmd[p].of.want = {} THEN End(p)
                                   ELSE Becomes(p, [cmd[p] EXCEPT !.at = IF "patch" \in cmd[p].of.want THEN "patch" ELSE "name",
                                                                     !.id = u, !.header = None])) /\ UNCHANGED faults
                        \/ Fault /\ End(p)
        /\ UNCHANGED <<credentials, upload, part, deployed>>
  /\ UNCHANGED <<tokens, calm, spoiled>>

\* --site and --password in one PATCH, then --name; a failure leaves the asset and ends
\* the command.  What the two requests do to the asset is in AssetStore and SiteHosts.
ApplySiteOption(p, step) ==
  /\ step \in {"patch", "name"} /\ Ready(p, step)
  /\ LET h == cmd[p].header IN
     \/ Unauthorized(h) /\ Refuse(p) /\ UNCHANGED <<files, live, minted, faults>>
     \/ /\ ~Unauthorized(h)
        /\ \E i \in Sessions(h) :
             /\ Issue(h, i) /\ Adopt(h, i)
             /\ \/ i # None /\ Take(p, Refuse(p)) /\ UNCHANGED faults
                \/ i = None /\ Take(p, Configure(p, Project, step)) /\ UNCHANGED faults
                \/ Fault /\ End(p)
        /\ UNCHANGED credentials
  /\ UNCHANGED <<tokens, upload, part, asset, deployed, opened, calm, spoiled>>

\* The process is interrupted.
Interrupt(p) ==
  /\ Running(p) /\ Fault /\ End(p)
  /\ spoiled' = (spoiled \/ cmd[p].sub = "save")
  /\ UNCHANGED <<files, tokens, server, minted, calm>>

-------------------------------------------------------------------------------
Command(p) ==
  \/ \E c \in Commands[p] : DoUpload(p, c)
  \/ Probe(p) \/ CommonHeaders(p) \/ RefreshAccessToken(p) \/ SaveCredentials(p)
  \/ \E u \in Uploads : CreateUploadSession(p, u) \/ UploadDirect(p, u)
  \/ PutObject(p) \/ (\E k \in 1..Parts : PutPart(p, k)) \/ PartsDone(p)
  \/ CompleteUploadSession(p) \/ (\E step \in {"patch", "name"} : ApplySiteOption(p, step))
  \/ Interrupt(p)

ClientNext ==
  \/ \E p \in Clients : Command(p)
  \/ Login \/ Logout
  \/ \E n \in Tokens : Age(n)
  \/ \E i \in Ids : SessionExpires(i)

ClientSpec == ClientInit /\ [][ClientNext]_clientVars

-------------------------------------------------------------------------------
(* Properties.                                                             *)

\* What a label says of a body: gzipped as a whole, or the file as it is.
Whole(body, gz) == \A k \in 1..Parts : body[k] = Cut(gz, k)

\* However parts fail, are stored without an answer and are put again, an asset that
\* the client completes holds the whole file in order, under the encoding it is
\* labelled with (uploadPartWithRetry, batches of MAX_CONCURRENCY).  The exception is
\* a compressible file that is streamed: the server labels it gzip, and
\* uploadLargeFileViaPresigned puts it as it is.
FinishedUploadIsWhole ==
  \A u \in Uploads : asset[u] # None =>
    \/ Whole(asset[u].body, asset[u].encoding = "gzip")
    \/ opened[u].size = "huge" /\ asset[u].encoding = "gzip" /\ Whole(asset[u].body, FALSE)

\* Whatever processes and logins race for the files, an asset ends with the session or
\* the project its upload was opened for, or with nobody (a session's upload that is
\* completed after a login, complete-upload-session.ts:27): never with another's.
AssetsStayWithTheirOpener ==
  \A u \in Uploads : asset[u] # None => asset[u].owner \in {opened[u].owner, None}

\* A process that has the directory to itself, with no other process, login or logout
\* beside it and neither its token nor its session running out on the way (calm), is
\* never refused between the first request and the last: the session minted on the way
\* is adopted before it is needed ("otherwise multi-request flows like presigned uploads
\* fail their ownership check", cli/helpers.ts:151-152).  A deployment without anonymous
\* uploads refuses who is not logged in and is left out (Refuse).
LoneUploadsAreAccepted ==
  \A p \in Clients : ~cmd[p].refused

\* The refresh token on file is one the provider accepts, unless an answer was lost.  With
\* a provider that only refuses retired tokens this holds however many processes refresh
\* at once: of those that use an old token one is answered, and it writes the file.  With
\* one that revokes a login whose retired token is presented, it holds for commands that
\* ran alone (calm): no process presents a token it has itself replaced.  Two that refresh
\* at once, or a login beside a refresh, can lose that login; nothing in auth.ts:123-160
\* keeps the processes apart.  The provider rotates at each answer or at none (auth.ts:152
\* allows for both).
RefreshTokenIsUsable ==
  \/ spoiled \/ credentials \in {None, Blank}
  \/ deployed.refresh = "revokes" /\ ~calm
  \/ \E p \in Clients : cmd[p].sub = "save"
  \/ credentials.refresh \in refreshable
===============================================================================
