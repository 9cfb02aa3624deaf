------------------------------ MODULE FileDelivery ------------------------------
(***************************************************************************)
(* The files of one asset, as visitors get them (core/file, core/site/     *)
(* middleware.ts, resolver.ts, hosting.ts): a request is resolved from a   *)
(* host or an ID to an asset and a version, let in, looked up in the       *)
(* version's prefix and then in the asset's own, and answered, and the     *)
(* answer is kept by a cache, while versions are uploaded, extracted, made *)
(* active and deleted and the asset is protected or opened.                *)
(*                                                                         *)
(* What an upload holds is `Content`, a function of paths.  Whether a      *)
(* credential is valid is AccessControl's subject: the ones here are.      *)
(* What a name resolves to is SiteHosts' subject: `named` is the outcome.  *)
(* One stored answer is watched, any of those given, for as long as visits *)
(* to its URL are: each invariant about caches speaks of one entry.        *)
(***************************************************************************)
EXTENDS SiteRules, SiteRequests

CONSTANTS
  Asset, Versions, None,
  Archive,            \* the uploads that are archives
  Content,            \* of each archive: path -> [bytes, inline, gzip, size]
  Single,             \* of each upload: the uploaded file itself, likewise
  HeadersFile, RedirectsFile,   \* what the two control files of each upload say
  Visits,             \* requests: those of SiteRequests, with [range, credential, origin]
  Sites,              \* the asset's site hosts, which share one row here
  IdOf, NumberOf,     \* what labels name: ID -> upload, "v{n}" -> n
  DeniedNow,          \* the headers no rule may set; DeniedHeaders when rules were parsed
  FileShaped,         \* path segments with a file's extension
  MaxWrites           \* bound on what the owner does

Uploads == Versions \cup {Asset}
Main == <<"(upload)">>
Thumb == <<"(thumbnail)">>
Index == "index.html"
NotFoundPage == <<"404.html">>
ControlFiles == {<<"_headers">>, <<"_redirects">>}

ASSUME DeliveryAssumption ==
  /\ Asset \notin Versions /\ None \notin Uploads
  /\ Archive \subseteq Uploads
  /\ MaxWrites \in Nat
  /\ "cache-control" \in DeniedNow
  /\ \A visit \in Visits :
       /\ SiteHostLabel(visit.host) \in Seq(STRING) /\ (SiteHostLabel(visit.host) # <<>> => OnSite(visit))
       /\ visit.range.start \in Nat /\ visit.range.end \in Nat
  /\ \A u \in Uploads : Single[u].size \in Nat
  /\ \A u \in Archive : \A path \in DOMAIN Content[u] : Content[u][path].size \in Nat

VARIABLES
  asset,              \* the asset's row, or None
  version,            \* the row of each version, or None
  stored,             \* <<upload, path>>: the objects under the asset's prefix
  extraction,         \* of each upload: "no", "running", "placing", "done", "wiped"
  named,              \* the site name: "served", "plain" (no previews), or "off"
  request,            \* the request in flight, with its answer once it has one
  kept,               \* an answer some cache holds, or None
  writes

vars == <<asset, version, stored, extraction, named, request, kept, writes>>
rows == <<asset, version, stored, extraction, named>>

NoHosting == [headers |-> <<>>, redirects |-> <<>>, there |-> FALSE]
Idle == [at |-> "idle"]

Begun(u) == IF u \in Archive THEN "running" ELSE "done"

\* A new asset, or one whose first version has been uploaded and made active.
Init ==
  \E first \in Versions \cup {None} :
    /\ asset = [active |-> first, spa |-> FALSE, locked |-> FALSE, hosting |-> NoHosting]
    /\ version = [v \in Versions |-> IF v = first THEN [number |-> 1, hosting |-> NoHosting] ELSE None]
    /\ stored = {<<u, Main>> : u \in {Asset, first} \ {None}}
    /\ extraction = [u \in Uploads |-> IF u \in {Asset, first} THEN Begun(u) ELSE "no"]
    /\ named = "served"
    /\ request = Idle /\ kept = None
    /\ writes = IF first = None THEN 0 ELSE 1

-------------------------------------------------------------------------------
(* The owner and the extraction.                                           *)

Row(v) == version[v] # None
Write == writes < MaxWrites /\ writes' = writes + 1

\* Whoever is being served lives through both modes.
Opened(there, locked) ==
  request' = IF request.at \in {"idle", "answered"} THEN request
             ELSE [request EXCEPT !.open = @ \/ (there /\ ~locked)]

UploadVersion(v) ==
  /\ Write /\ asset # None /\ extraction[v] = "no"
  /\ LET numbers == {version[w].number : w \in {w \in Versions : Row(w)}}
     IN version' = [version EXCEPT ![v] = [number |-> Max(numbers \cup {0}) + 1, hosting |-> NoHosting]]
  /\ stored' = stored \cup {<<v, Main>>}
  /\ extraction' = [extraction EXCEPT ![v] = Begun(v)]
  /\ UNCHANGED <<asset, named, request, kept>>

Upload(u, path) == stored' = stored \cup {<<u, path>>}

\* Entries are put in any order, and again if an attempt has failed.
ExtractEntry(u, path) ==
  /\ extraction[u] = "running" /\ <<u, path>> \notin stored
  /\ Upload(u, path)
  /\ UNCHANGED <<asset, version, extraction, named, request, kept, writes>>

\* A compressed entry is copied as it is and verified after it was put: one
\* that does not decode to its checksum is taken back.
RejectEntry(u, path) ==
  /\ extraction[u] = "running" /\ <<u, path>> \in stored /\ Content[u][path].gzip
  /\ stored' = stored \ {<<u, path>>}
  /\ UNCHANGED <<asset, version, extraction, named, request, kept, writes>>

\* One control file: the version's own, or else what the asset's prefix has.
ControlFile(file, upload, name) ==
  LET places == SelectSeq(<<upload, Asset>>, LAMBDA u : <<u, name>> \in stored)
  IN IF places = <<>> THEN None ELSE file[Head(places)]

ReadSiteHosting(upload) ==
  LET headers == ControlFile(HeadersFile, upload, <<"_headers">>)
      redirects == ControlFile(RedirectsFile, upload, <<"_redirects">>)
      bounded == BoundHosting([headers |-> IF headers = None THEN <<>> ELSE ParseHeaders(headers),
                               redirects |-> IF redirects = None THEN <<>> ELSE ParseRedirects(redirects)])
  IN IF headers = None /\ redirects = None THEN NoHosting
     ELSE [headers |-> bounded.headers, redirects |-> bounded.redirects, there |-> TRUE]

\* The completion callback writes the asset's rules with the status, and a
\* version's after it; rules that cannot be read are no rules.
Complete(u) ==
  /\ extraction[u] = "running"
  /\ \A path \in DOMAIN Content[u] : <<u, path>> \in stored
  /\ extraction' = [extraction EXCEPT ![u] = IF u = Asset THEN "done" ELSE "placing"]
  /\ IF u = Asset /\ asset # None
     THEN \E hosting \in {ReadSiteHosting(u), NoHosting} : asset' = [asset EXCEPT !.hosting = hosting]
     ELSE UNCHANGED asset
  /\ UNCHANGED <<version, stored, named, request, kept, writes>>

PlaceHosting(v) ==
  /\ extraction[v] = "placing"
  /\ extraction' = [extraction EXCEPT ![v] = "done"]
  /\ IF Row(v) /\ asset # None /\ Asset \in Archive
     THEN \E hosting \in {ReadSiteHosting(v), NoHosting} :
            version' = [version EXCEPT ![v].hosting = hosting]
     ELSE UNCHANGED version
  /\ UNCHANGED <<asset, stored, named, request, kept, writes>>

SetActive(v) ==
  /\ Write /\ asset # None /\ asset.active # v
  /\ v \in {None} \cup {w \in Versions : Row(w)}
  /\ asset' = [asset EXCEPT !.active = v]
  /\ UNCHANGED <<version, stored, extraction, named, request, kept>>

SetSpa ==
  /\ Write /\ asset # None
  /\ asset.spa \/ Asset \in Archive
  /\ asset' = [asset EXCEPT !.spa = ~@]
  /\ UNCHANGED <<version, stored, extraction, named, request, kept>>

SetAccess ==
  /\ Write /\ asset # None
  /\ asset' = [asset EXCEPT !.locked = ~@]
  /\ Opened(TRUE, ~asset.locked)
  /\ UNCHANGED <<version, stored, extraction, named, kept>>

\* The row goes first, then the pointer to it, then the objects.
DeleteVersion(v) ==
  /\ Write /\ Row(v)
  /\ version' = [version EXCEPT ![v] = None]
  /\ UNCHANGED <<asset, stored, extraction, named, request, kept>>

ResetActive ==
  /\ asset # None /\ asset.active # None /\ ~Row(asset.active)
  /\ asset' = [asset EXCEPT !.active = None]
  /\ UNCHANGED <<version, stored, extraction, named, request, kept, writes>>

\* Its names have been released, which a cached resolution may not show yet.
DeleteAsset ==
  /\ Write /\ asset # None
  /\ asset' = None /\ version' = [v \in Versions |-> None]
  /\ named' \in {named, "off"}
  /\ UNCHANGED <<stored, extraction, request, kept>>

WipeObjects(u) ==
  /\ extraction[u] \notin {"no", "wiped"}
  /\ IF u = Asset THEN asset = None ELSE ~Row(u)
  /\ stored' = {object \in stored : object[1] # u}
  /\ extraction' = [extraction EXCEPT ![u] = "wiped"]
  /\ UNCHANGED <<asset, version, named, request, kept, writes>>

ChangeName(outcome) ==
  /\ Write /\ named # outcome /\ (outcome = "served" => asset # None)
  /\ named' = outcome
  /\ UNCHANGED <<asset, version, stored, extraction, request, kept>>

PutThumbnail(u) ==
  /\ <<u, Main>> \in stored /\ u \notin Archive /\ <<u, Thumb>> \notin stored
  /\ stored' = stored \cup {<<u, Thumb>>}
  /\ UNCHANGED <<asset, version, extraction, named, request, kept, writes>>

-------------------------------------------------------------------------------
(* Answers.  `file` is what the body was read from, `part` the range it is, *)
(* `control` and `private` the Cache-Control, `vary` that the proof counts. *)

Refusal == [status |-> 404, file |-> None, part |-> None, control |-> "none", private |-> FALSE,
            vary |-> {}, credentials |-> FALSE, etag |-> None, headers |-> <<>>, location |-> <<>>]
NoStore(status) == [Refusal EXCEPT !.status = status, !.control = "no-store"]

\* Everything that leaves the route after the access check.
Decorate(r, answer) ==
  ApplyCors(AddVary(answer, IF r.proof = "none" THEN {} ELSE {"cookie", "authorization"}), r.proof, r.visit)

\* What the handler had read is forgotten with the answer.
Finish(r, answer) ==
  request' = [r EXCEPT !.at = "answered",
                       !.answer = [answer EXCEPT !.location = UnrewriteLocation(r.visit, r.id, @)],
                       !.id = None, !.preview = "no", !.asset = None, !.version = None, !.hosting = NoHosting, !.etag = None]
Refuse(r, answer) == Finish(r, ApplyCors(answer, "refused", r.visit))

MutantCacheControlFor(pinned, protected) == [control |-> "immutable", private |-> protected]
CacheControlFor(pinned, protected) ==
  [control |-> IF pinned THEN "immutable" ELSE "revalidate", private |-> protected]

\* One header; headers set over others.
Header(name, value) == [n \in {name} |-> value]
Over(set, under) ==
  [name \in DOMAIN set \cup DOMAIN under |-> IF name \in DOMAIN set THEN set[name] ELSE under[name]]

\* An attachment is sandboxed; a site host renders everything.
Disposition(entry, site) == IF site \/ entry.inline THEN <<>> ELSE Header("content-security-policy", "sandbox")

\* Rules stored before a name joined the list may still carry it.
MutantApplySiteHeaders(answer, hosting, path, site) ==
  LET asked == MatchHeaders(hosting.headers, path)
      kept_ == {name \in DOMAIN asked : ~IsDeniedHeader(name, DeniedNow)}
  IN [answer EXCEPT !.headers = Over([name \in kept_ |-> asked[name]], @)]
ApplySiteHeaders(answer, hosting, path, site) ==
  LET asked == MatchHeaders(hosting.headers, path)
      allowed == {name \in DOMAIN asked :
                    ~IsDeniedHeader(name, DeniedNow) /\ (site \/ name # "content-security-policy")}
  IN [answer EXCEPT !.headers = Over([name \in allowed |-> asked[name]], @)]

-------------------------------------------------------------------------------
(* Ranges *)

ParseRange(range) == [offset |-> range.start, length |-> range.end - range.start + 1]

MutantSliceChunk(state, length, offset, want) ==
  LET end == IF length < offset + want - Len(state.sent) THEN length ELSE offset + want - Len(state.sent)
  IN IF Len(state.sent) >= want THEN state
     ELSE IF state.skipped + length <= offset THEN [state EXCEPT !.skipped = @ + length]
     ELSE [skipped |-> state.skipped + length,
           sent |-> state.sent \o [i \in 1..end - offset |-> state.skipped + offset + i - 1]]
\* One chunk of the decoded stream, of which `want` bytes from `offset` are sent.
SliceChunk(state, length, offset, want) ==
  LET start == IF offset > state.skipped THEN offset - state.skipped ELSE 0
      end == IF length < start + want - Len(state.sent) THEN length ELSE start + want - Len(state.sent)
  IN IF Len(state.sent) >= want THEN state
     ELSE IF state.skipped + length <= offset THEN [state EXCEPT !.skipped = @ + length]
     ELSE [skipped |-> state.skipped + length,
           sent |-> state.sent \o [i \in 1..end - start |-> state.skipped + start + i - 1]]

\* What has been skipped and sent after the first n of the chunks, which end at `ends`.
Slicing(ends, offset, want) ==
  LET state[n \in 0..Len(ends)] ==
        IF n = 0 THEN [skipped |-> 0, sent |-> <<>>]
        ELSE SliceChunk(state[n - 1], ends[n] - (IF n = 1 THEN 0 ELSE ends[n - 1]), offset, want)
  IN state

\* `total` is 0 when the decoded size is not known.
SliceStream(ends, offset, length, total) ==
  LET want == IF total # 0 /\ total - offset < length THEN total - offset ELSE length
  IN Slicing(ends, offset, want)[Len(ends)].sent

\* The ways a decoded stream of `size` bytes may arrive in chunks: where each ends.
Chunkings(size) ==
  {ends \in UNION {[1..n -> 1..size] : n \in 0..size} :
     /\ \A i \in 1..Len(ends) - 1 : ends[i] < ends[i + 1]
     /\ size # 0 => ends # <<>> /\ ends[Len(ends)] = size}

\* The part, and what its headers say of it: nothing if the size is not known.
SlicedPart(range, total, ends) ==
  LET wanted == ParseRange(range)
      end == (IF wanted.offset + wanted.length < total THEN wanted.offset + wanted.length ELSE total) - 1
      bytes == SliceStream(ends, wanted.offset, wanted.length, total)
  IN IF total = 0 THEN [bytes |-> bytes, told |-> FALSE]
     ELSE [bytes |-> bytes, told |-> TRUE, first |-> wanted.offset, last |-> end,
           length |-> end - wanted.offset + 1]

\* A ranged read of the in-memory store, which reports what it returns.
StoredPart(range, size) ==
  LET wanted == ParseRange(range)
      offset == IF wanted.offset < size THEN wanted.offset ELSE size
      length == IF wanted.length < size - offset THEN wanted.length ELSE size - offset
  IN [first |-> offset, last |-> offset + length - 1, length |-> length, told |-> TRUE,
      bytes |-> [i \in 1..length |-> offset + i - 1]]

-------------------------------------------------------------------------------
(* From a host to an asset and a version.                                  *)

Latest == IF \E v \in Versions : Row(v)
          THEN CHOOSE v \in Versions : Row(v) /\ \A w \in Versions : Row(w) => version[w].number <= version[v].number
          ELSE None
Numbered(n) == IF \E v \in Versions : Row(v) /\ version[v].number = n
               THEN CHOOSE v \in Versions : Row(v) /\ version[v].number = n ELSE None

Nothing == [id |-> None, preview |-> "no"]

\* A name; a site that is not served has no target.
ResolveNamed(host) == IF host \in Sites /\ named # "off" THEN [Nothing EXCEPT !.id = Asset] ELSE Nothing

ResolvePreview(left, name) ==
  IF <<name>> \o Suffix \notin Sites \/ named # "served" THEN Nothing
  ELSE IF left = "latest" THEN [id |-> Latest, preview |-> "latest"]
  ELSE IF left \in DOMAIN NumberOf THEN [id |-> Numbered(NumberOf[left]), preview |-> "pinned"]
  ELSE Nothing

\* The ID a host or a path names, None if there is nothing to serve.
Resolve(visit) ==
  LET query == SiteHostQuery(visit.host) IN
  IF query = NoQuery THEN [Nothing EXCEPT !.id = visit.id]
  ELSE IF query.form = "custom" \/ (Len(query.label) = 1 /\ query.label[1] \notin DOMAIN IdOf)
  THEN ResolveNamed(visit.host)
  ELSE IF Len(query.label) = 1 THEN [Nothing EXCEPT !.id = IdOf[query.label[1]]]
  ELSE ResolvePreview(query.label[1], Tail(query.label))

\* The site middleware's own pages: no such site, released, or disabled.
SitePages == IF named = "off" THEN {404, 410, 503} ELSE {404}
Interface == [Refusal EXCEPT !.status = 200]

\* Nothing more is to come of these uploads.
Settled(uploads) == \A u \in uploads : extraction[u] \notin {"no", "running", "placing"}

\* The entry watched is one of this URL, and this visitor's cache may hold it.
SameUrl(visit) ==
  /\ kept # None
  /\ \A field \in {"host", "root", "id", "path", "query", "method"} : kept.visit[field] = visit[field]
Usable(visit) ==
  /\ SameUrl(visit)
  /\ (~kept.answer.private /\ "cookie" \notin kept.answer.vary) \/ kept.visit.credential = visit.credential

Started(visit) ==
  LET target == Resolve(visit) IN
  [at |-> "asset", visit |-> visit, id |-> target.id, preview |-> target.preview, asset |-> None, version |-> None,
   hosting |-> NoHosting, proof |-> "none", path |-> visit.path, rewritten |-> FALSE, file |-> None,
   etag |-> IF Usable(visit) THEN kept.answer.etag ELSE None,
   settled |-> FALSE, open |-> asset # None /\ ~asset.locked, cached |-> FALSE, answer |-> Refusal]

Free == request.at = "idle"

\* Answered without an access check; the one POST route is AccessControl's.
Preflight == [Refusal EXCEPT !.status = 204]

Arrive(visit) ==
  /\ Free
  /\ LET r == Started(visit) IN
       IF ~ReachesApp(visit) THEN Finish(r, Interface)
       ELSE IF OnSite(visit) /\ r.id = None THEN \E status \in SitePages : Finish(r, NoStore(status))
       ELSE IF TooLarge(visit) THEN Finish(r, NoStore(413))
       ELSE IF visit.method = "OPTIONS" THEN Refuse(r, Preflight)
       ELSE IF visit.method = "POST" THEN Finish(r, Refusal)
       ELSE IF DetectThumbRequest(visit) = "invalid" THEN Refuse(r, [Refusal EXCEPT !.status = 400])
       ELSE request' = r
  /\ kept' = IF SameUrl(visit) THEN kept ELSE None
  /\ UNCHANGED <<rows, writes>>

\* A row read as public needs no proof.
Gate(row) == IF row.locked THEN "admit" ELSE "look"

\* An asset's ID, or else a version's and its parent's.
FindAsset ==
  /\ request.at = "asset"
  /\ IF request.id = Asset /\ asset # None
     THEN request' = [request EXCEPT !.at = "version", !.asset = asset]
     ELSE IF request.id \in Versions /\ asset # None /\ Row(request.id)
     THEN request' = [request EXCEPT !.at = Gate(asset), !.asset = asset, !.version = request.id,
                                     !.hosting = version[request.id].hosting,
                                     !.settled = Settled({request.id, Asset})]
     ELSE Refuse(request, Refusal)
  /\ UNCHANGED <<rows, kept, writes>>

Current(active) == IF active # None /\ Row(active) THEN active ELSE Latest

FindVersion ==
  /\ request.at = "version"
  /\ LET v == Current(request.asset.active) IN
       request' = [request EXCEPT !.at = Gate(request.asset), !.version = v,
                                  !.hosting = IF v = None THEN NoHosting ELSE version[v].hosting]
  /\ UNCHANGED <<rows, kept, writes>>

\* The protection of an asset read as protected is read again.
Admit ==
  /\ request.at = "admit"
  /\ IF asset = None \/ ~asset.locked THEN Refuse(request, NoStore(503))
     ELSE IF request.visit.credential = "none" THEN Refuse(request, NoStore(401))
     ELSE request' = [request EXCEPT !.at = "look", !.proof = request.visit.credential]
  /\ UNCHANGED <<rows, kept, writes>>

-------------------------------------------------------------------------------
(* From a path to an object.                                               *)

Layouts(v) == IF v = None THEN <<Asset>> ELSE <<v, Asset>>
ArchiveLayouts(v) ==
  LET layout(u) == IF u \in Archive THEN <<u>> ELSE <<>>
  IN IF v = None THEN layout(Asset) ELSE layout(v) \o layout(Asset)

WantsDirectory(path) == Last(path) = ""

\* The object of one layout a path names.
Key(u, path) ==
  IF u \notin Archive \/ path = <<Single[u].name>> THEN Main
  ELSE IF WantsDirectory(path) THEN Append(Front(path), Index)
  ELSE path

LocateIn(layouts, path) ==
  LET holders == {i \in DOMAIN layouts : <<layouts[i], Key(layouts[i], path)>> \in stored}
      first == layouts[Min(holders)]
  IN IF holders = {} THEN None ELSE [upload |-> first, key |-> Key(first, path)]
Locate(v, path) == LocateIn(Layouts(v), path)
LocateRootFile(v, path) == LocateIn(ArchiveLayouts(v), path)

HasIndex(v, path) == \E u \in Range(ArchiveLayouts(v)) : <<u, Append(path, Index)>> \in stored

Entry(file) == IF file.key = Main THEN Single[file.upload] ELSE Content[file.upload][file.key]

HostingFor(r) == IF r.hosting.there THEN r.hosting ELSE r.asset.hosting

Consulted(redirects, force) == SelectSeq(redirects, LAMBDA rule : rule.force = force)
SiteRedirect(r, path, force) ==
  IF ArchiveLayouts(r.version) = <<>> THEN NoRule
  ELSE MatchRedirect(Consulted(HostingFor(r).redirects, force), path)

\* 301 and 308 revalidate; temporary or protected ones are not stored.
RedirectAnswer(r, rule) ==
  Decorate(r, [Refusal EXCEPT !.status = rule.status,
    !.location = Prefix(r.id) \o rule.to,
    !.control = IF r.proof # "none" \/ rule.status \in {302, 307} THEN "no-store" ELSE "revalidate"])

\* The URL names the version, and does not follow the asset.
MutantPinned(r) == r.version # None /\ r.id = r.version
Pinned(r) == r.version # None /\ r.id = r.version /\ r.preview # "latest"

ThumbnailAnswer(r) ==
  LET u == IF r.version = None THEN Asset ELSE r.version IN
  IF <<u, Thumb>> \in stored
  THEN [Refusal EXCEPT !.status = 200, !.file = [upload |-> u, key |-> Thumb],
                       !.control = "immutable", !.private = r.proof # "none"]
  ELSE [Refusal EXCEPT !.control = "brief", !.private = r.proof # "none"]

\* The forced rules, then the lookup.
Lookup(r) ==
  LET forced == SiteRedirect(r, r.visit.path, TRUE)
      path == IF forced.status = 200 THEN forced.to ELSE r.visit.path
  IN [rule |-> forced, path |-> path, file |-> Locate(r.version, path)]

Look ==
  /\ request.at = "look"
  /\ LET r == request
         found == Lookup(r)
     IN IF DetectThumbRequest(r.visit) = "size" THEN Finish(r, Decorate(r, ThumbnailAnswer(r)))
        ELSE IF ArchiveLayouts(r.version) # <<>> /\ r.visit.path \in ControlFiles
        THEN Finish(r, Decorate(r, Refusal))
        ELSE IF found.rule.status \notin {0, 200} THEN Finish(r, RedirectAnswer(r, found.rule))
        ELSE request' = [r EXCEPT !.at = "reply", !.path = found.path, !.file = found.file,
                                  !.rewritten = found.rule.status = 200]
  /\ UNCHANGED <<rows, kept, writes>>

-------------------------------------------------------------------------------
(* The answer.                                                             *)

Whole(entry) == [bytes |-> [i \in 1..entry.size |-> i - 1], told |-> FALSE]

\* The headers every answer with a file has, 304 included.
Common(r, file) ==
  LET entry == Entry(file)
      policy == CacheControlFor(Pinned(r), r.proof # "none")
  IN [Refusal EXCEPT !.status = 200, !.file = file, !.etag = RepresentationEtag(entry.bytes, entry.gzip), !.headers = Disposition(entry, OnSite(r.visit)),
        !.control = policy.control, !.private = policy.private]

\* Only the row of an upload tells the decoded size of its file.
DecodedSize(file) == IF file.key = Main THEN Entry(file).size ELSE 0

\* The bodies a file may be answered with: the first read is of the whole
\* object, a range of a plain one is read again, and one of a compressed one
\* is cut out of the decoded stream.
Bodies(file, range) ==
  LET entry == Entry(file) IN
  IF range.kind # "bytes" THEN {[status |-> 200, part |-> Whole(entry)]}
  ELSE IF entry.gzip
  THEN {[status |-> 206, part |-> SlicedPart(range, DecodedSize(file), ends)] : ends \in Chunkings(entry.size)}
  ELSE IF <<file.upload, file.key>> \in stored
  THEN {[status |-> 206, part |-> StoredPart(range, entry.size)]}
  ELSE {[status |-> 404, part |-> None]}

ServeFile(r, file, path) ==
  LET common == Common(r, file)
      Send(answer) ==
        LET ruled == ApplySiteHeaders(answer, IF ArchiveLayouts(r.version) = <<>> THEN NoHosting ELSE HostingFor(r), path, OnSite(r.visit))
            preview == OnSite(r.visit) /\ (Pinned(r) \/ r.preview # "no")
        IN Finish(r, Decorate(r, IF preview THEN [ruled EXCEPT !.headers = Over(Header("x-robots-tag", "noindex"), @)] ELSE ruled))
  IN IF EtagMatches(r.etag, common.etag)
     THEN Send([common EXCEPT !.status = 304])
     ELSE \E body \in Bodies(file, r.visit.range) :
            Send(IF body.status = 404 THEN Refusal
                 ELSE [common EXCEPT !.status = body.status, !.part = body.part])

\* The archive's own error page has no identity of its own.
NotFoundAnswer(r, file, path) ==
  ApplySiteHeaders([Refusal EXCEPT !.control = "no-store", !.file = file, !.headers = Disposition(Entry(file), OnSite(r.visit))],
                   HostingFor(r), path, OnSite(r.visit))

IsFileShaped(path) == Last(path) \in FileShaped

\* What a miss falls back to: the application's index, or the error page.
Fallback(r, path) ==
  IF r.asset.spa /\ ~IsFileShaped(path)
  THEN LET index == LocateRootFile(r.version, <<Index>>) IN
       IF index = None THEN Finish(r, Decorate(r, Refusal)) ELSE ServeFile(r, index, path)
  ELSE LET page == LocateRootFile(r.version, NotFoundPage) IN
       Finish(r, Decorate(r, IF page = None THEN Refusal ELSE NotFoundAnswer(r, page, path)))

Reply ==
  /\ request.at = "reply"
  /\ LET r == request
         plain == IF r.file = None THEN SiteRedirect(r, r.path, FALSE) ELSE NoRule
         rewrites == plain.status = 200 /\ ~r.rewritten
         path == IF rewrites THEN plain.to ELSE r.path
         file == IF rewrites THEN Locate(r.version, path) ELSE r.file
     IN IF plain.status \notin {0, 200} THEN Finish(r, RedirectAnswer(r, plain))
        ELSE IF file # None THEN ServeFile(r, file, path)
        ELSE IF ~WantsDirectory(path) /\ HasIndex(r.version, path)
        THEN Finish(r, Decorate(r, [Refusal EXCEPT !.status = 301, !.location = Prefix(r.id) \o Append(r.visit.path, "")]))
        ELSE Fallback(r, path)
  /\ UNCHANGED <<rows, kept, writes>>

-------------------------------------------------------------------------------
(* Caches: whatever stores an answer and uses it as its headers allow.     *)

\* What shows no file is of no interest, wherever it is kept.
Storable(answer) == answer.control # "no-store" /\ answer.status = 200 /\ answer.file # None

\* A cache shared by all visitors keeps what is not private.
Keep ==
  /\ request.at = "answered" /\ ~request.cached /\ Storable(request.answer)
  /\ kept' = [visit |-> request.visit, answer |-> request.answer,
              own |-> /\ request.settled /\ request.answer.file # None
                      /\ request.answer.file = request.file
                      /\ request.file.upload \in Versions
                      /\ request.path = request.visit.path]
  /\ request' = Idle
  /\ UNCHANGED <<rows, writes>>

Leave ==
  /\ request.at = "answered"
  /\ request' = Idle
  /\ UNCHANGED <<rows, kept, writes>>

\* An answer that need not be revalidated.
Reuse(visit) ==
  /\ Free /\ Usable(visit)
  /\ kept.answer.control = "immutable" /\ visit.range.kind = "absent"
  /\ Finish([Started(visit) EXCEPT !.cached = TRUE], kept.answer)
  /\ UNCHANGED <<rows, kept, writes>>

-------------------------------------------------------------------------------
Owner ==
  \/ \E v \in Versions : UploadVersion(v) \/ PlaceHosting(v) \/ DeleteVersion(v)
  \/ \E u \in Uploads : (u \in Archive /\ \E path \in DOMAIN Content[u] : ExtractEntry(u, path) \/ RejectEntry(u, path))
                        \/ Complete(u) \/ WipeObjects(u) \/ PutThumbnail(u)
  \/ \E v \in Versions \cup {None} : SetActive(v)
  \/ SetSpa \/ SetAccess \/ ResetActive \/ DeleteAsset
  \/ \E outcome \in {"served", "plain", "off"} : ChangeName(outcome)

Visitor ==
  \/ \E visit \in Visits : Arrive(visit) \/ Reuse(visit)
  \/ FindAsset \/ FindVersion \/ Admit \/ Look \/ Reply
  \/ Keep \/ Leave

Next == Owner \/ Visitor

Spec == Init /\ [][Next]_vars

-------------------------------------------------------------------------------
(* Properties *)

Answered == request.at = "answered"
Served == Answered /\ request.answer.file # None /\ request.answer.status # 404

\* A host of one version: a preview, or the version's own ID.
NamesVersion(visit) ==
  LET label == SiteHostLabel(visit.host) IN
  Len(label) > 1 \/ (Len(label) = 1 /\ label[1] \in DOMAIN IdOf /\ IdOf[label[1]] \in Versions)

FollowsLatest(visit) == Len(SiteHostLabel(visit.host)) > 1 /\ SiteHostLabel(visit.host)[1] = "latest"

\* The URLs that follow the asset, of which nothing may be kept unrevalidated.
Moving(visit) ==
  /\ DetectThumbRequest(visit) = "no"
  /\ IF OnSite(visit) THEN ~NamesVersion(visit) \/ FollowsLatest(visit) ELSE visit.id = Asset

\* A visitor without a proof, and a page of a foreign origin that rides on its
\* visitor's cookie, sees a file under a URL that follows the asset only if the
\* asset was open at some moment while that very request was answered, whatever
\* any cache has kept: ADR-013 A2 and B7 in caching.ts, cors.ts and resolve.ts.
Onlooker(visit) ==
  visit.credential = "none" \/ (visit.credential = "cookie" /\ visit.origin \notin TrustedOrigins(visit))
OnlookersSeeOpenFiles ==
  (Answered /\ request.answer.file # None /\ Onlooker(request.visit) /\ Moving(request.visit)
          /\ (request.visit.credential = "none" \/ request.answer.credentials))
    => request.open

\* An answer that may be kept for ever is the one the server would give now, as
\* long as the version is there: for a file of the version's own, found at the
\* path asked for and once its extraction had ended.  handler.ts:383 calls
\* such a URL pinned: neither another active version, nor rules, nor the
\* fallback to the asset's own files may change what it shows.
ImmutableMeansImmutable ==
  LET old == kept.answer.file
      now == [visit |-> kept.visit, version |-> old.upload, asset |-> asset, hosting |-> version[old.upload].hosting]
      id == Resolve(kept.visit).id
  IN (/\ kept # None /\ kept.own /\ kept.answer.control = "immutable"
      /\ asset # None /\ Row(old.upload) /\ id # None)
     => LET v == IF id = Asset THEN Current(asset.active) ELSE id
            found == Lookup([now EXCEPT !.version = v,
                             !.hosting = IF v = None THEN NoHosting ELSE version[v].hosting])
        IN found.file = old /\ found.path = kept.visit.path /\ found.rule.status \in {0, 200}

ExactPart(range, size, part) ==
  LET last == IF range.end < size THEN range.end ELSE size - 1
  IN range.start < size /\ range.start <= range.end
     => /\ part.bytes = [i \in 1..last - range.start + 1 |-> range.start + i - 1]
        /\ part.told => part.first = range.start /\ part.last = last /\ part.length = Len(part.bytes)

\* The part of a file that is sent is the part that was asked for, as far as
\* the file has it, and its headers, if any, say which part that is: however the decoded
\* stream of a compressed file is cut into chunks (stream.ts:23-54,
\* handler.ts:746-755).
RangesAreExact ==
  Served /\ request.answer.status = 206
    => ExactPart(request.visit.range, Entry(request.answer.file).size, request.answer.part)

\* What delivery decides no rule of an archive overrides, whenever the rule was
\* stored: a file the shared origin must not render stays sandboxed there, a
\* preview of a site stays out of search indexes, and caching is not the
\* archive's to choose (site-routing.ts:92-105, handler.ts:499-509).
DeliveryOutranksRules ==
  LET headers == request.answer.headers IN
  (Served /\ DetectThumbRequest(request.visit) = "no") =>
    /\ "cache-control" \notin DOMAIN headers
    /\ ~OnSite(request.visit) /\ ~Entry(request.answer.file).inline
         => headers["content-security-policy"] = "sandbox"
    /\ NamesVersion(request.visit) => headers["x-robots-tag"] = "noindex"
===============================================================================
