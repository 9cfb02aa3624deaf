----------------------------- MODULE SiteRequests -----------------------------
(***************************************************************************)
(* A request before it is resolved: which hosts are sites, what reaches the *)
(* app, and which origins are trusted (core/site/middleware.ts,            *)
(* core/site/isolation.ts, core/file/cors.ts, runtime/cloudflare/index.ts). *)
(*                                                                         *)
(* A host is the sequence of its labels, and a label the sequence of its   *)
(* parts between "--", so that <<<<"v1", "map">>>> \o Suffix is a preview.  *)
(* An origin is its host: every scheme here is that of BASE_URL.           *)
(***************************************************************************)
EXTENDS Integers, Sequences

CONSTANTS
  Suffix,             \* SITE_HOST_SUFFIX without its dot
  BaseHost,           \* the host of BASE_URL
  RegistrableDomain,  \* SITE_REGISTRABLE_DOMAIN
  LoopbackHosts,
  CredentialedOrigins,   \* CREDENTIALED_ORIGINS: [exact, origin]
  ThumbnailSizes,
  ThumbnailFiles,     \* the path segments "<size>.webp": segment -> size
  MaxBody, NoQuery    \* the largest body a site takes; no host, parameter or origin

-------------------------------------------------------------------------------
(* The deployment, which does not start if it is not sound.                *)

IsUnder(host, domain) ==
  Len(host) > Len(domain) /\ SubSeq(host, Len(host) - Len(domain) + 1, Len(host)) = domain

\* No site is same-site with the management surface.
CheckSiteIsolation ==
  /\ IsUnder(Suffix, RegistrableDomain)
  /\ BaseHost # RegistrableDomain /\ ~IsUnder(BaseHost, RegistrableDomain)

ParseCredentialedOrigins == {entry.origin : entry \in CredentialedOrigins}

ASSUME DeploymentAssumption ==
  /\ Suffix # <<>> /\ CheckSiteIsolation
  /\ \A entry \in CredentialedOrigins : entry.exact
  /\ MaxBody \in Nat

-------------------------------------------------------------------------------
(* Hosts.  A visit is [host, root, id, path, query, method, body, ...]; on  *)
(* the apex its path is /files/{id}/{path} if root is "files".             *)

\* The one label in front of the suffix: none for a deeper host.
SiteHostLabel(host) == IF host # <<>> /\ Tail(host) = Suffix THEN Head(host) ELSE <<>>

IsApexHost(host) == host \in {<<>>, Suffix, BaseHost} \cup LoopbackHosts
IsSiteHost(host) == ~IsApexHost(host)

\* A custom domain is what is neither a site's label nor the apex.
SiteHostQuery(host) ==
  IF SiteHostLabel(host) # <<>> THEN [form |-> "label", label |-> SiteHostLabel(host)]
  ELSE IF IsApexHost(host) THEN NoQuery
  ELSE [form |-> "custom", label |-> <<>>]

OnSite(visit) == SiteHostQuery(visit.host) # NoQuery

\* The other paths of the apex are the web interface's.
ReachesApp(visit) == visit.root \in {"api", "files"} \/ IsSiteHost(visit.host)

\* The rewrite of a site's request carries a small body only.
TooLarge(visit) == OnSite(visit) /\ visit.method \notin {"GET", "HEAD"} /\ visit.body > MaxBody

\* The path the file router is given, and the one a visitor is sent back to.
Prefix(id) == <<"files", id>>
UnrewriteLocation(visit, id, location) ==
  IF OnSite(visit) /\ Len(location) >= 2 /\ SubSeq(location, 1, 2) = Prefix(id)
  THEN SubSeq(location, 3, Len(location)) ELSE location

\* The parameter comes first, then a path under _thumbs.
DetectThumbRequest(visit) ==
  IF visit.query # NoQuery THEN IF visit.query \in ThumbnailSizes THEN "size" ELSE "invalid"
  ELSE IF Len(visit.path) # 2 \/ visit.path[1] # "_thumbs" \/ visit.path[2] \notin DOMAIN ThumbnailFiles
  THEN "no"
  ELSE IF ThumbnailFiles[visit.path[2]] \in ThumbnailSizes THEN "size" ELSE "invalid"

-------------------------------------------------------------------------------
(* Cross-origin reads.                                                     *)

\* Its own origin, as the visitor sees it, and the configured ones.
TrustedOrigins(visit) ==
  {IF OnSite(visit) THEN visit.host ELSE BaseHost} \cup ParseCredentialedOrigins

\* Only a cookie, or no proof at all, is answered with credentials.
Credentialed(proof, visit) == proof \in {"cookie", "refused"} /\ visit.origin \in TrustedOrigins(visit)

AddVary(answer, names) == [answer EXCEPT !.vary = @ \cup names]

ApplyCors(answer, proof, visit) ==
  [AddVary(answer, IF proof = "none" THEN {} ELSE {"origin"})
     EXCEPT !.credentials = Credentialed(proof, visit)]

-------------------------------------------------------------------------------
(* Conditional requests: a tag is what it is a tag of, and whether it is   *)
(* weak, which a comparison ignores.                                       *)

RepresentationEtag(bytes, transformed) == [of |-> bytes, weak |-> transformed]
EtagMatches(tag, etag) == tag # NoQuery /\ tag.of = etag.of
===============================================================================
