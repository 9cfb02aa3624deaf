------------------------------ MODULE SiteHosts ------------------------------
(***************************************************************************)
(* Site names: the site_hosts table, the resolution cache in front of it,  *)
(* and the requests that claim, switch, verify and release names, resolve  *)
(* hosts, delete assets and purge names whose cooldown has run out.  Each  *)
(* request awaits between its reads and its writes, so several are in      *)
(* flight at once; a request is a slot, and each await ends a step.        *)
(*                                                                         *)
(* Whether a name is a custom domain follows from the name.  Certificates, *)
(* previews and the limit on verify attempts are left out: a preview is    *)
(* answered from the same row and the same cache entry as its name.        *)
(***************************************************************************)
EXTENDS Integers, FiniteSets

CONSTANTS
  Names, Custom,   \* hostnames; those that are custom domains
  Assets, Projects,
  ProjectOf,       \* the project of each asset
  Quota,           \* SITE_HOST_QUOTA: active names of a project
  Slots,           \* bound: requests in flight at once
  MaxTokens,       \* bound: verification tokens issued
  MaxFaults        \* bound: failed cache deletes, requests that die

ASSUME NamesAssumption == Custom \subseteq Names
ASSUME ProjectsAssumption == ProjectOf \in [Assets -> Projects]
ASSUME BoundsAssumption ==
  /\ Quota \in Nat
  /\ IsFiniteSet(Slots) /\ Slots # {}
  /\ MaxTokens \in Nat
  /\ MaxFaults \in Nat

\* What a host resolves to when it is not an asset, and "no asset".
Misses  == {"miss", "gone", "disabled"}
NoAsset == "none"
NoName  == "none"
ASSUME DistinctAssumption ==
  /\ Assets \cap (Misses \cup {NoAsset, "late"}) = {}
  /\ NoName \notin Names

VARIABLES
  hosts,      \* site_hosts: the row of each name, or NoHost
  cache,      \* host:{name}: the cached resolution, or NoEntry
  live,       \* the assets that exist
  handler,    \* the request in each slot
  published,  \* TXT records the domains' owners have published
  issued,     \* tokens issued so far
  overrun,    \* history: names whose row a claim removed although it was held
  faults

vars == <<hosts, cache, live, handler, published, issued, overrun, faults>>

\* released: "no"; "cooling" until RELEASE_COOLDOWN_MS has passed, then "served".
NoHost == [released |-> "absent"]
Rows == [asset : Assets \cup {NoAsset}, project : Projects, token : 0..MaxTokens,
         verified : BOOLEAN, disabled : BOOLEAN, released : {"no", "cooling", "served"}]

\* "late": a resolution that outlived a change of its row, since the request that
\* had read the row cached it after the change, or since its deletion failed.
NoEntry == "none"
Entries == Assets \cup Misses \cup {"late"}

Requests ==
  [op : {"none", "claim", "disable", "enable", "release", "verify", "delete", "drop", "resolve"},
   at : {"idle", "removing", "counting", "inserting", "writing", "looking", "dropping", "caching"},
   asset : Assets \cup {NoAsset}, name : Names \cup {NoName}, token : 0..MaxTokens,
   drop : SUBSET Names, to : Entries \cup {NoEntry}]
Idle == [op |-> "none", at |-> "idle", asset |-> NoAsset, name |-> NoName,
         token |-> 0, drop |-> {}, to |-> NoEntry]

-----------------------------------------------------------------------------
(* Helpers *)

Fault == faults < MaxFaults /\ faults' = faults + 1

Active(n) == hosts[n].released = "no"
Held(n)   == hosts[n].released \in {"no", "cooling"}
ActiveNames(p) == {n \in Names : Active(n) /\ hosts[n].project = p}

\* resolveRow: release outranks disable; an unverified domain does not exist.
Serves(r, n) == r.released = "no" /\ ~r.disabled /\ (n \in Custom => r.verified)
Resolution(r, n) ==
  IF r.released \in {"cooling", "served"} THEN "gone"
  ELSE IF Serves(r, n) THEN r.asset
  ELSE IF r.released = "no" /\ r.disabled THEN "disabled"
  ELSE "miss"

\* Slot s goes on as h after a write of the table; requests that hold an older
\* reading of a row it changes are late from now on.
Write(s, rows, h) ==
  /\ hosts' = rows
  /\ handler' = [t \in Slots |->
       IF t = s THEN h
       ELSE IF handler[t].at = "caching" /\ rows[handler[t].name] # hosts[handler[t].name]
            THEN [handler[t] EXCEPT !.to = "late"]
            ELSE handler[t]]

GoTo(s, at) == handler' = [handler EXCEPT ![s].at = at]
Finish(s)   == handler' = [handler EXCEPT ![s] = Idle]
At(s, op, at) == handler[s].op = op /\ handler[s].at = at

\* A request that has changed the rows of the names ns has their entries to drop.
Dropping(ns) == [Idle EXCEPT !.op = "drop", !.at = "dropping", !.drop = ns]

\* What release and releaseByAsset make of a row; the columns that no statement
\* reads on a released row are cleared.
Released(r) ==
  [r EXCEPT !.released = "cooling", !.asset = NoAsset,
            !.token = 0, !.verified = FALSE, !.disabled = FALSE]

\* The row a request may act on: active, and of the asset it acts through.
Own(a, n) == Active(n) /\ hosts[n].asset = a

-----------------------------------------------------------------------------
Init ==
  /\ hosts = [n \in Names |-> NoHost]
  /\ cache = [n \in Names |-> NoEntry]
  /\ live = Assets
  /\ handler = [s \in Slots |-> Idle]
  /\ published = {}
  /\ issued = 0
  /\ overrun = {}
  /\ faults = 0

\* A request on asset a begins when its route has read the asset and its first
\* step the row; what lies between the two reads is left out.  h is what it keeps.
Begin(s, a, h) ==
  /\ handler[s] = Idle
  /\ a \in live
  /\ handler' = [handler EXCEPT ![s] = h]

\* Bound: a token for every claim of a custom domain in flight.
DomainClaims == {s \in Slots : handler[s].op = "claim" /\ handler[s].name \in Custom}
TokensLeft == issued + Cardinality(DomainClaims) < MaxTokens

-----------------------------------------------------------------------------
(* claimSiteHost *)

\* find: a held name is refused; one whose cooldown is over is removed first.
ClaimFind(s, a, n) ==
  /\ n \in Custom => TokensLeft
  /\ ~Held(n)
  /\ Begin(s, a, [Idle EXCEPT !.op = "claim", !.asset = a, !.name = n,
                              !.at = IF hosts[n] = NoHost THEN "counting" ELSE "removing"])
  /\ UNCHANGED <<hosts, cache, live, published, issued, overrun, faults>>

\* remove: DELETE by hostname, whatever the row has become.
ClaimRemove(s) ==
  /\ At(s, "claim", "removing")
  /\ LET n == handler[s].name IN
       /\ Write(s, [hosts EXCEPT ![n] = NoHost], [handler[s] EXCEPT !.at = "counting"])
       /\ overrun' = IF Held(n) THEN overrun \cup {n} ELSE overrun
  /\ UNCHANGED <<cache, live, published, issued, faults>>

\* Mutant: the quota is not looked at.
MutantClaimCount(s) ==
  /\ At(s, "claim", "counting")
  /\ GoTo(s, "inserting")
  /\ UNCHANGED <<hosts, cache, live, published, issued, overrun, faults>>

ClaimCount(s) ==
  /\ At(s, "claim", "counting")
  /\ IF Cardinality(ActiveNames(ProjectOf[handler[s].asset])) >= Quota
     THEN Finish(s)
     ELSE GoTo(s, "inserting")
  /\ UNCHANGED <<hosts, cache, live, published, issued, overrun, faults>>

NewRow(a, n, token) ==
  [asset |-> a, project |-> ProjectOf[a], token |-> token,
   verified |-> FALSE, disabled |-> FALSE, released |-> "no"]

NextToken(n) == IF n \in Custom THEN issued + 1 ELSE 0

\* Mutant: INSERT OR REPLACE.
MutantClaimInsert(s) ==
  /\ At(s, "claim", "inserting")
  /\ LET n == handler[s].name IN
       /\ issued' = IF n \in Custom THEN issued + 1 ELSE issued
       /\ Write(s, [hosts EXCEPT ![n] = NewRow(handler[s].asset, n, NextToken(n))],
                Dropping({n}))
  /\ UNCHANGED <<cache, live, published, overrun, faults>>

\* INSERT OR IGNORE: whoever is first has the name.
ClaimInsert(s) ==
  /\ At(s, "claim", "inserting")
  /\ LET n == handler[s].name IN
       \/ /\ hosts[n] = NoHost
          /\ issued' = IF n \in Custom THEN issued + 1 ELSE issued
          /\ Write(s, [hosts EXCEPT ![n] = NewRow(handler[s].asset, n, NextToken(n))],
                   Dropping({n}))
       \/ /\ hosts[n] # NoHost
          /\ Finish(s)
          /\ UNCHANGED <<hosts, issued>>
  /\ UNCHANGED <<cache, live, published, overrun, faults>>

-----------------------------------------------------------------------------
(* updateSiteHost, releaseSiteHost, verifySiteHost *)

\* find: the row must be active and belong to the asset.
Find(s, op, a, n) ==
  /\ Own(a, n)
  /\ Begin(s, a, [Idle EXCEPT !.op = op, !.at = "writing", !.name = n])
  /\ UNCHANGED <<hosts, cache, live, published, issued, overrun, faults>>

\* update: WHERE released_at IS NULL.
Switch(s) ==
  /\ handler[s].op \in {"disable", "enable"} /\ handler[s].at = "writing"
  /\ LET n == handler[s].name IN
       Write(s, IF Active(n)
                THEN [hosts EXCEPT ![n].disabled = handler[s].op = "disable"]
                ELSE hosts,
             Dropping({n}))
  /\ UNCHANGED <<cache, live, published, issued, overrun, faults>>

\* Mutant: the row is deleted, not released.
MutantRelease(s) ==
  /\ At(s, "release", "writing")
  /\ LET n == handler[s].name IN
       Write(s, IF Active(n) THEN [hosts EXCEPT ![n] = NoHost] ELSE hosts, Dropping({n}))
  /\ UNCHANGED <<cache, live, published, issued, overrun, faults>>

\* release: WHERE released_at IS NULL.
Release(s) ==
  /\ At(s, "release", "writing")
  /\ LET n == handler[s].name IN
       Write(s, IF Active(n) THEN [hosts EXCEPT ![n] = Released(@)] ELSE hosts,
             Dropping({n}))
  /\ UNCHANGED <<cache, live, published, issued, overrun, faults>>

\* find: a custom domain that is not verified yet; its token is kept.
VerifyFind(s, a, n) ==
  /\ Own(a, n) /\ n \in Custom /\ ~hosts[n].verified
  /\ Begin(s, a, [Idle EXCEPT !.op = "verify", !.at = "looking", !.name = n,
                              !.token = hosts[n].token])
  /\ UNCHANGED <<hosts, cache, live, published, issued, overrun, faults>>

\* lookupTxt: one record that carries the token is the proof.
VerifyLookup(s) ==
  /\ At(s, "verify", "looking")
  /\ IF <<handler[s].name, handler[s].token>> \in published
     THEN handler' = [handler EXCEPT ![s].at = "writing", ![s].token = 0]
     ELSE Finish(s)
  /\ UNCHANGED <<hosts, cache, live, published, issued, overrun, faults>>

\* update: WHERE released_at IS NULL.
Verify(s) ==
  /\ At(s, "verify", "writing")
  /\ LET n == handler[s].name IN
       Write(s, IF Active(n) THEN [hosts EXCEPT ![n].verified = TRUE] ELSE hosts,
             Dropping({n}))
  /\ UNCHANGED <<cache, live, published, issued, overrun, faults>>

-----------------------------------------------------------------------------
(* deleteAsset and the cron *)

AssetNames(a) == {n \in Names : Active(n) /\ hosts[n].asset = a}

\* Mutant: the released names are not handed to dropCache.
MutantReleaseAsset(s, a) ==
  /\ handler[s] = Idle
  /\ a \in live
  /\ LET ns == AssetNames(a) IN
       Write(s, [n \in Names |-> IF n \in ns THEN Released(hosts[n]) ELSE hosts[n]],
             [Idle EXCEPT !.op = "delete", !.at = "dropping", !.asset = a, !.drop = {}])
  /\ UNCHANGED <<cache, live, published, issued, overrun, faults>>

\* releaseByAsset: one UPDATE, which returns the names it released.
ReleaseAsset(s, a) ==
  /\ handler[s] = Idle
  /\ a \in live
  /\ LET ns == AssetNames(a) IN
       Write(s, [n \in Names |-> IF n \in ns THEN Released(hosts[n]) ELSE hosts[n]],
             [Idle EXCEPT !.op = "delete", !.at = "dropping", !.asset = a, !.drop = ns])
  /\ UNCHANGED <<cache, live, published, issued, overrun, faults>>

\* The asset's row goes once its names are released.
DeleteAsset(s) ==
  /\ At(s, "delete", "dropping")
  /\ handler[s].drop = {}
  /\ live' = live \ {handler[s].asset}
  /\ Finish(s)
  /\ UNCHANGED <<hosts, cache, published, issued, overrun, faults>>

\* purgeReleasedBefore: one DELETE of the rows whose cooldown is over.
Purge(s) ==
  /\ handler[s] = Idle
  /\ LET ns == {n \in Names : hosts[n].released = "served"} IN
       /\ ns # {}
       /\ Write(s, [n \in Names |-> IF n \in ns THEN NoHost ELSE hosts[n]],
                Dropping(ns))
  /\ UNCHANGED <<cache, live, published, issued, overrun, faults>>

-----------------------------------------------------------------------------
(* The resolution cache *)

\* dropCache, one name after the other; a failure is swallowed.
DropEntry(s, n) ==
  /\ n \in handler[s].drop
  /\ \/ cache' = [cache EXCEPT ![n] = NoEntry] /\ UNCHANGED faults
     \/ /\ cache[n] # NoEntry
        /\ cache' = [cache EXCEPT ![n] = "late"]
        /\ Fault
  /\ handler' = [handler EXCEPT ![s] =
       IF handler[s].op # "delete" /\ handler[s].drop = {n} THEN Idle
       ELSE [handler[s] EXCEPT !.drop = @ \ {n}]]
  /\ UNCHANGED <<hosts, live, published, issued, overrun>>

\* resolveRow after a cache miss, or a cache that did not answer: the row is read ...
ResolveRead(s, n) ==
  /\ handler[s] = Idle
  /\ handler' = [handler EXCEPT ![s] =
       [Idle EXCEPT !.op = "resolve", !.at = "caching", !.name = n,
                    !.to = Resolution(hosts[n], n)]]
  /\ UNCHANGED <<hosts, cache, live, published, issued, overrun, faults>>

\* ... and what it says is cached.
ResolveCache(s) ==
  /\ At(s, "resolve", "caching")
  /\ cache' = [cache EXCEPT ![handler[s].name] = handler[s].to]
  /\ Finish(s)
  /\ UNCHANGED <<hosts, live, published, issued, overrun, faults>>

\* HOST_CACHE_TTL_SECONDS pass.
Expire(n) ==
  /\ cache[n] # NoEntry
  /\ cache' = [cache EXCEPT ![n] = NoEntry]
  /\ UNCHANGED <<hosts, live, handler, published, issued, overrun, faults>>

-----------------------------------------------------------------------------
(* Environment *)

\* RELEASE_COOLDOWN_MS pass.  Thirty days outlast every request that read the
\* row before its release, and every cache entry.
CoolDown(n) ==
  /\ hosts[n].released = "cooling"
  /\ cache[n] \in {NoEntry, "gone"}
  /\ \A s \in Slots :
       /\ n \notin handler[s].drop
       /\ handler[s].name = n =>
            handler[s].at = "caching" /\ handler[s].to = "gone"
  /\ hosts' = [hosts EXCEPT ![n].released = "served"]
  /\ UNCHANGED <<cache, live, handler, published, issued, overrun, faults>>

\* The domain's owner publishes the token a claim was answered with.
Publish(n) ==
  /\ n \in Custom /\ Active(n)
  /\ published' = published \cup {<<n, hosts[n].token>>}
  /\ UNCHANGED <<hosts, cache, live, handler, issued, overrun, faults>>

\* A call throws or the isolate is gone; what the request had to drop stays.
Die(s) ==
  /\ handler[s] # Idle
  /\ Fault
  /\ cache' = [n \in Names |-> IF n \in handler[s].drop /\ cache[n] # NoEntry
                               THEN "late" ELSE cache[n]]
  /\ Finish(s)
  /\ UNCHANGED <<hosts, live, published, issued, overrun>>

-----------------------------------------------------------------------------
Claim(s) ==
  \/ \E a \in Assets, n \in Names : ClaimFind(s, a, n)
  \/ ClaimRemove(s) \/ ClaimCount(s) \/ ClaimInsert(s)

Change(s) ==
  \/ \E op \in {"disable", "enable", "release"}, a \in Assets, n \in Names : Find(s, op, a, n)
  \/ \E a \in Assets, n \in Names : VerifyFind(s, a, n)
  \/ Switch(s) \/ Release(s) \/ VerifyLookup(s) \/ Verify(s)

Delete(s) == (\E a \in Assets : ReleaseAsset(s, a)) \/ DeleteAsset(s)

Next ==
  \/ \E s \in Slots :
       \/ Claim(s) \/ Change(s) \/ Delete(s) \/ Purge(s)
       \/ \E n \in Names : DropEntry(s, n) \/ ResolveRead(s, n)
       \/ ResolveCache(s) \/ Die(s)
  \/ \E n \in Names : Expire(n) \/ CoolDown(n) \/ Publish(n)

Spec == Init /\ [][Next]_vars

-----------------------------------------------------------------------------
(* Properties *)

\* Every variable keeps its shape; a row has an asset exactly while it is
\* active (repository.ts:15, site-hosts.ts:95-113).
TypeOK ==
  /\ hosts \in [Names -> Rows \cup {NoHost}]
  /\ \A n \in Names : hosts[n] # NoHost => (Active(n) <=> hosts[n].asset # NoAsset)
  /\ cache \in [Names -> Entries \cup {NoEntry}]
  /\ live \subseteq Assets
  /\ handler \in [Slots -> Requests]
  /\ published \subseteq Custom \X (0..MaxTokens)
  /\ issued \in 0..MaxTokens
  /\ overrun \subseteq Names
  /\ faults \in 0..MaxFaults

\* A released name is held for its whole cooldown, whatever claims, purges,
\* switches and verifications overlap (usecase.ts:238-241): its row stays
\* released until the cooldown is over.  Two claims of a name that was free
\* before are the exception; see the README.
CooldownHeld ==
  [][\A n \in Names :
       hosts[n].released = "cooling" /\ n \notin overrun'
         => hosts'[n].released \in {"cooling", "served"}]_vars

\* A custom domain that counts as verified has had its own row's token in the
\* DNS, although the row may be released and claimed again while a
\* verification awaits its lookup (usecase.ts:308-347).
VerifiedByOwnProof ==
  \A n \in Custom \ overrun :
    Active(n) /\ hosts[n].verified => <<n, hosts[n].token>> \in published

\* Counting and inserting are two steps, so claims in flight together may pass
\* the quota together; they exceed it by no more than their number less one
\* (usecase.ts:132-156).
QuotaOvershootBounded ==
  \A p \in Projects :
    Cardinality(ActiveNames(p))
      + Cardinality({s \in Slots : At(s, "claim", "inserting")
                                  /\ ProjectOf[handler[s].asset] = p})
      <= Quota + Cardinality(Slots) - 1

\* Once the request that took a site down has dropped the entry, the cache does
\* not serve it any more, unless a resolution overlapped with the change or the
\* entry's deletion failed (usecase.ts:50, 211-213).
NothingServedAfterTakedown ==
  \A n \in Names \ overrun :
    /\ cache[n] \in Assets
    /\ \A s \in Slots : n \notin handler[s].drop
    => Resolution(hosts[n], n) = cache[n]

\* What makes them inductive.

\* What each kind of request keeps across its awaits.
RequestOK(h) ==
  \/ h = Idle
  \/ h.op \in {"drop", "delete"} /\ h.at = "dropping"
  \/ h.drop = {} /\ h.name \in Names /\
       \/ h.op = "claim" /\ h.at \in {"removing", "counting", "inserting"} /\ h.asset \in Assets
       \/ h.op \in {"disable", "enable", "release"} /\ h.at = "writing"
       \/ h.op = "verify" /\ h.at \in {"looking", "writing"} /\ h.name \in Custom
       \/ h.op = "resolve" /\ h.at = "caching"

\* A request has something to drop only after its write (usecase.ts:494-504).
RequestsInv == \A s \in Slots : RequestOK(handler[s])

\* The tokens issued and those set aside by claims in flight fit the bound.
TokensInv == issued + Cardinality(DomainClaims) <= MaxTokens

\* The row a verification has read is still there, unless it was released; then
\* it is in its cooldown until the verification is over.
VerificationsInv ==
  \A s \in Slots : LET h == handler[s] IN
    h.op = "verify" /\ h.name \notin overrun =>
      /\ Held(h.name)
      /\ Active(h.name) =>
           IF h.at = "looking" THEN h.token = hosts[h.name].token
           ELSE <<h.name, hosts[h.name].token>> \in published

\* A resolution about to be cached is late or still true, and nothing says that
\* a name which is free leads to an asset.
CacheInv ==
  /\ \A s \in Slots : LET h == handler[s] IN
       h.op = "resolve" => h.to \in {"late", Resolution(hosts[h.name], h.name)}
  /\ \A n \in Names \ overrun : ~Held(n) => cache[n] \notin Assets

\* What a request keeps across its awaits stays true of the table while other
\* requests write it (usecase.ts:78-166, 308-347, resolver.ts:121-162): with
\* that, the three properties it contains are preserved by every step.
HostsInv ==
  /\ TypeOK /\ RequestsInv /\ TokensInv
  /\ VerificationsInv /\ VerifiedByOwnProof
  /\ CacheInv /\ NothingServedAfterTakedown
=============================================================================
