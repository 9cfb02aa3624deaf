--------------------------- MODULE SiteHostsProofs ---------------------------
(***************************************************************************)
(* Safety of site names for every set of names, assets and projects, any   *)
(* quota, any number of requests in flight and any number of faults:       *)
(* HostsInv is inductive, released names are held for their cooldown, and  *)
(* claims exceed the quota by less than their number.                      *)
(***************************************************************************)
EXTENDS SiteHosts, FiniteSetTheorems, TLAPS

-----------------------------------------------------------------------------
(* Rows, resolutions and requests *)

\* An absent row is no row, and no name, asset or entry is mistaken for another.
LEMMA Distinct ==
  /\ NoHost \notin Rows
  /\ NoName \notin Names
  /\ NoAsset \notin Assets
  /\ NoEntry \notin Assets /\ "late" \notin Assets
  /\ \A m \in Misses : m \notin Assets
BY DistinctAssumption DEF NoHost, Rows, NoName, NoAsset, NoEntry

\* What the table says of a name (resolver.ts:139-158).
LEMMA ResolutionType ==
  ASSUME NEW n \in Names, NEW r \in Rows \cup {NoHost},
         r # NoHost => (r.released = "no" <=> r.asset # NoAsset)
  PROVE  /\ Resolution(r, n) \in Assets \cup Misses
         /\ r.released # "no" => Resolution(r, n) \notin Assets
         /\ r.released \in {"cooling", "served"} => Resolution(r, n) = "gone"
<1>1. CASE r = NoHost
  BY <1>1, Distinct DEF Resolution, Serves, NoHost, Misses
<1>2. CASE r \in Rows /\ r.released = "no"
  BY <1>2, Distinct DEF Resolution, Serves, Rows, Misses
<1>3. CASE r \in Rows /\ r.released \in {"cooling", "served"}
  BY <1>3, Distinct DEF Resolution, Serves, Rows, Misses
<1>4. QED BY <1>1, <1>2, <1>3 DEF Rows

LEMMA IdleType == Idle \in Requests /\ Idle.op = "none" /\ Idle.drop = {}
BY BoundsAssumption DEF Idle, Requests

\* A reading that is late differs in nothing else (resolver.ts:121-136).
LEMMA LateType ==
  ASSUME NEW h \in Requests
  PROVE  LET g == [h EXCEPT !.to = "late"] IN
         /\ g \in Requests /\ g.to = "late"
         /\ g.op = h.op /\ g.at = h.at /\ g.name = h.name /\ g.asset = h.asset
         /\ g.token = h.token /\ g.drop = h.drop
<1>1. "late" \in Entries \cup {NoEntry}
  BY DEF Entries
<1>2. QED BY <1>1 DEF Requests

\* Writing keeps who holds a name: a held row stays held, and an active one is
\* the one that was there.
Keeps(rows, over) ==
  \A n \in Names \ over : Held(n) =>
    /\ rows[n].released \in {"no", "cooling"}
    /\ rows[n].released = "no" => Active(n) /\ rows[n].token = hosts[n].token

\* A row has an asset exactly while it is active.
RowOK(r) == r # NoHost => (r.released = "no" <=> r.asset # NoAsset)

\* The claims of domains in flight, when one request goes on.
LEMMA OneClaim ==
  ASSUME NEW s \in Slots, NEW A \in SUBSET Slots, NEW B \in SUBSET Slots,
         \A t \in Slots \ {s} : t \in A <=> t \in B
  PROVE  /\ Cardinality(A) \in Nat /\ Cardinality(B) \in Nat
         /\ s \in A /\ s \notin B => Cardinality(A) = Cardinality(B) + 1
         /\ (s \in A => s \in B) => Cardinality(A) <= Cardinality(B)
<1>1. IsFiniteSet(A) /\ IsFiniteSet(B)
  BY BoundsAssumption, FS_Subset
<1>2. Cardinality(A) \in Nat /\ Cardinality(B) \in Nat
  BY <1>1, FS_CardinalityType
<1>3. ASSUME s \in A, s \notin B
      PROVE  Cardinality(A) = Cardinality(B) + 1
  <2>1. A = B \cup {s}
    BY <1>3
  <2>2. QED BY <1>1, <1>3, <2>1, FS_AddElement
<1>4. ASSUME s \in A => s \in B
      PROVE  Cardinality(A) <= Cardinality(B)
  <2>1. A \subseteq B
    BY <1>4
  <2>2. QED BY <1>1, <2>1, FS_Subset
<1>5. QED BY <1>2, <1>3, <1>4

-----------------------------------------------------------------------------
(* Steps of one request *)

\* A step that changes only what the request of slot s keeps: it loses no entry
\* it has to drop, and what it has read is true.
LEMMA RequestStep ==
  ASSUME HostsInv, NEW s \in Slots, NEW h \in Requests, RequestOK(h),
         handler' = [handler EXCEPT ![s] = h],
         UNCHANGED <<hosts, cache, published, overrun>>,
         handler[s].drop = {},
         h.op = "verify" /\ h.name \notin overrun =>
           /\ Held(h.name)
           /\ Active(h.name) =>
                IF h.at = "looking" THEN h.token = hosts[h.name].token
                ELSE <<h.name, hosts[h.name].token>> \in published,
         h.op = "resolve" => h.to = Resolution(hosts[h.name], h.name)
  PROVE  /\ handler' \in [Slots -> Requests]
         /\ RequestsInv'
         /\ VerificationsInv' /\ VerifiedByOwnProof'
         /\ CacheInv' /\ NothingServedAfterTakedown'
<1>1. handler' \in [Slots -> Requests] /\ handler'[s] = h
      /\ \A t \in Slots \ {s} : handler'[t] = handler[t]
  BY DEF HostsInv, TypeOK
<1>2. RequestsInv'
  BY <1>1 DEF HostsInv, RequestsInv, RequestOK
<1>3. VerificationsInv'
  BY <1>1 DEF HostsInv, VerificationsInv, Held, Active
<1>4. VerifiedByOwnProof'
  BY DEF HostsInv, VerifiedByOwnProof, Active
<1>5. CacheInv'
  <2>1. ASSUME NEW t \in Slots, handler'[t].op = "resolve"
        PROVE  handler'[t].to \in {"late", Resolution(hosts[handler'[t].name], handler'[t].name)}
    BY <1>1, <2>1 DEF HostsInv, CacheInv
  <2>2. \A n \in Names \ overrun : ~Held(n) => cache[n] \notin Assets
    BY DEF HostsInv, CacheInv
  <2>3. QED BY <2>1, <2>2 DEF CacheInv, Held
<1>6. NothingServedAfterTakedown'
  BY <1>1 DEF HostsInv, NothingServedAfterTakedown
<1>7. QED BY <1>1, <1>2, <1>3, <1>4, <1>5, <1>6

\* A write of the table by the request of slot s: it keeps the holders, and has
\* the entries of what it changed to drop, unless the name was free.
LEMMA WriteStep ==
  ASSUME HostsInv, NEW s \in Slots, NEW h \in Requests, RequestOK(h),
         h.op \in {"claim", "drop", "delete"},
         NEW rows \in [Names -> Rows \cup {NoHost}], \A n \in Names : RowOK(rows[n]),
         Write(s, rows, h),
         handler[s].drop = {},
         UNCHANGED <<cache, published>>, overrun \subseteq overrun',
         Keeps(rows, overrun'),
         \A n \in Names \ overrun' : rows[n] # hosts[n] => n \in h.drop \/ ~Held(n),
         \A n \in Custom \ overrun' :
           rows[n].released = "no" /\ rows[n].verified => <<n, rows[n].token>> \in published
  PROVE  /\ hosts' = rows
         /\ handler' \in [Slots -> Requests] /\ handler'[s] = h
         /\ \A t \in Slots \ {s} : handler'[t].op = handler[t].op /\ handler'[t].name = handler[t].name
         /\ RequestsInv'
         /\ VerificationsInv' /\ VerifiedByOwnProof'
         /\ CacheInv' /\ NothingServedAfterTakedown'
<1> USE NamesAssumption
<1>1. hosts' = rows
  BY DEF Write
<1>2. ASSUME NEW t \in Slots \ {s}
      PROVE  /\ handler'[t] \in Requests
             /\ handler'[t].op = handler[t].op /\ handler'[t].at = handler[t].at
             /\ handler'[t].name = handler[t].name /\ handler'[t].asset = handler[t].asset
             /\ handler'[t].token = handler[t].token /\ handler'[t].drop = handler[t].drop
             /\ handler'[t] = handler[t] \/ (handler[t].at = "caching" /\ handler'[t].to = "late")
             /\ handler[t].at = "caching" /\ rows[handler[t].name] # hosts[handler[t].name]
                  => handler'[t].to = "late"
  <2>1. handler[t] \in Requests
    BY <1>2 DEF HostsInv, TypeOK
  <2>2. handler'[t] = IF handler[t].at = "caching" /\ rows[handler[t].name] # hosts[handler[t].name]
                      THEN [handler[t] EXCEPT !.to = "late"] ELSE handler[t]
    BY <1>2 DEF Write
  <2>3. CASE handler[t].at = "caching" /\ rows[handler[t].name] # hosts[handler[t].name]
    <3> DEFINE g == [handler[t] EXCEPT !.to = "late"]
    <3>1. handler'[t] = g
      BY <2>2, <2>3
    <3>2. /\ g \in Requests /\ g.to = "late"
          /\ g.op = handler[t].op /\ g.at = handler[t].at /\ g.name = handler[t].name
          /\ g.asset = handler[t].asset /\ g.token = handler[t].token
          /\ g.drop = handler[t].drop
      BY <2>1, LateType
    <3> HIDE DEF g
    <3>3. QED BY <2>3, <3>1, <3>2
  <2>4. CASE ~(handler[t].at = "caching" /\ rows[handler[t].name] # hosts[handler[t].name])
    <3>1. handler'[t] = handler[t]
      BY <2>2, <2>4
    <3>2. QED BY <2>1, <2>4, <3>1
  <2>5. QED BY <2>3, <2>4
<1>3. handler'[s] = h /\ handler' \in [Slots -> Requests]
  <2>1. handler'[s] = h
    BY DEF Write
  <2>2. \A t \in Slots : handler'[t] \in Requests
    BY <1>2, <2>1
  <2> DEFINE step(t) ==
        IF t = s THEN h
        ELSE IF handler[t].at = "caching" /\ rows[handler[t].name] # hosts[handler[t].name]
             THEN [handler[t] EXCEPT !.to = "late"]
             ELSE handler[t]
  <2>3. handler' = [t \in Slots |-> step(t)]
    BY DEF Write
  <2>4. \A t \in Slots : handler'[t] = step(t)
    BY <2>3
  <2> HIDE DEF step
  <2>5. handler' \in [Slots -> Requests]
    BY <2>2, <2>3, <2>4
  <2>6. QED BY <2>1, <2>5
<1>4. RequestsInv'
  <2>1. ASSUME NEW t \in Slots \ {s}
        PROVE  RequestOK(handler'[t])
    <3>1. RequestOK(handler[t])
      BY <2>1 DEF HostsInv, RequestsInv
    <3>2. CASE handler'[t] = handler[t]
      BY <3>1, <3>2
    <3>3. CASE handler'[t] # handler[t]
      BY <1>2, <2>1, <3>1, <3>3 DEF RequestOK, Idle
    <3>4. QED BY <3>2, <3>3
  <2>2. QED BY <1>3, <2>1 DEF RequestsInv
<1>5. VerificationsInv'
  <2>1. ASSUME NEW t \in Slots, handler'[t].op = "verify", handler'[t].name \notin overrun'
        PROVE  /\ rows[handler'[t].name].released \in {"no", "cooling"}
               /\ rows[handler'[t].name].released = "no" =>
                    IF handler'[t].at = "looking" THEN handler'[t].token = rows[handler'[t].name].token
                    ELSE <<handler'[t].name, rows[handler'[t].name].token>> \in published
    <3>1. t # s
      BY <1>3, <2>1
    <3> DEFINE n == handler[t].name
    <3>2. handler[t].op = "verify" /\ n \notin overrun /\ handler'[t].name = n
          /\ handler'[t].at = handler[t].at /\ handler'[t].token = handler[t].token
      BY <1>2, <2>1, <3>1
    <3>3. n \in Names
      BY <2>1, <3>2 DEF HostsInv, RequestsInv, RequestOK, Idle
    <3>4. Held(n) /\ (Active(n) => IF handler[t].at = "looking" THEN handler[t].token = hosts[n].token
                                   ELSE <<n, hosts[n].token>> \in published)
      BY <2>1, <3>2 DEF HostsInv, VerificationsInv
    <3>5. rows[n].released \in {"no", "cooling"}
          /\ (rows[n].released = "no" => Active(n) /\ rows[n].token = hosts[n].token)
      BY <2>1, <3>2, <3>3, <3>4 DEF Keeps
    <3>6. QED BY <3>2, <3>4, <3>5
  <2>2. QED BY <1>1, <2>1 DEF VerificationsInv, Held, Active
<1>6. VerifiedByOwnProof'
  BY <1>1 DEF VerifiedByOwnProof, Active
<1>7. CacheInv'
  <2>1. ASSUME NEW t \in Slots, handler'[t].op = "resolve"
        PROVE  handler'[t].to \in {"late", Resolution(rows[handler'[t].name], handler'[t].name)}
    <3>1. t # s
      BY <1>3, <2>1
    <3>2. handler[t].op = "resolve" /\ handler'[t].name = handler[t].name
      BY <1>2, <2>1, <3>1
    <3>3. handler[t].at = "caching"
      BY <3>2 DEF HostsInv, RequestsInv, RequestOK, Idle
    <3>4. handler[t].to \in {"late", Resolution(hosts[handler[t].name], handler[t].name)}
      BY <3>2 DEF HostsInv, CacheInv
    <3>5. QED BY <1>2, <3>1, <3>2, <3>3, <3>4
  <2>2. ASSUME NEW n \in Names \ overrun', ~(rows[n].released \in {"no", "cooling"})
        PROVE  cache[n] \notin Assets
    BY <2>2 DEF Keeps, HostsInv, CacheInv
  <2>3. QED BY <1>1, <2>1, <2>2 DEF CacheInv, Held
<1>8. NothingServedAfterTakedown'
  <2>1. ASSUME NEW n \in Names \ overrun', cache[n] \in Assets,
               \A t \in Slots : n \notin handler'[t].drop
        PROVE  Resolution(rows[n], n) = cache[n]
    <3>1. \A t \in Slots : n \notin handler[t].drop
      BY <1>2, <2>1
    <3>2. Held(n)
      BY <2>1 DEF HostsInv, CacheInv
    <3>3. rows[n] = hosts[n]
      BY <1>3, <2>1, <3>2
    <3>4. QED BY <2>1, <3>1, <3>3 DEF HostsInv, NothingServedAfterTakedown
  <2>2. QED BY <1>1, <2>1 DEF NothingServedAfterTakedown
<1>9. QED BY <1>1, <1>2, <1>3, <1>4, <1>5, <1>6, <1>7, <1>8

-----------------------------------------------------------------------------
(* What a step of a request has to show *)

\* Other requests stay what they are; a reading may have become late.
Moved(s, h) ==
  /\ handler' \in [Slots -> Requests] /\ handler'[s] = h
  /\ \A t \in Slots \ {s} : handler'[t].op = handler[t].op /\ handler'[t].name = handler[t].name

Kept == /\ RequestsInv' /\ VerificationsInv' /\ VerifiedByOwnProof'
        /\ CacheInv' /\ NothingServedAfterTakedown'

Stays == \A n \in Names : hosts[n].released = "cooling" /\ n \notin overrun'
                           => hosts'[n].released \in {"cooling", "served"}

\* The tokens of a claim: it sets one aside when it starts and issues it when it
\* inserts (usecase.ts:141-156).
Tokens(s, h) ==
  \/ /\ issued' = issued
     /\ h.op = "claim" /\ h.name \in Custom => s \in DomainClaims \/ TokensLeft
  \/ issued' = issued + 1 /\ s \in DomainClaims /\ h.op # "claim"

LEMMA TokensKept ==
  ASSUME HostsInv, NEW s \in Slots, NEW h \in Requests, Moved(s, h), Tokens(s, h)
  PROVE  TokensInv' /\ issued' \in 0..MaxTokens
<1> USE BoundsAssumption
<1> DEFINE A == DomainClaims
           B == {t \in Slots : handler'[t].op = "claim" /\ handler'[t].name \in Custom}
<1>1. A \in SUBSET Slots /\ B \in SUBSET Slots /\ \A t \in Slots \ {s} : t \in A <=> t \in B
  BY DEF DomainClaims, Moved
<1>2. s \in B <=> h.op = "claim" /\ h.name \in Custom
  BY DEF Moved
<1>3. Cardinality(A) \in Nat /\ issued \in Nat /\ issued + Cardinality(A) <= MaxTokens
  <2>1. Cardinality(A) \in Nat
    BY <1>1, OneClaim
  <2>2. QED BY <2>1 DEF HostsInv, TypeOK, TokensInv
<1>4. Cardinality(B) \in Nat /\ issued' \in Nat /\ issued' + Cardinality(B) <= MaxTokens
  <2>1. Cardinality(B) \in Nat
    BY <1>1, OneClaim
  <2>2. CASE issued' = issued /\ (s \in B => s \in A)
    <3>1. Cardinality(B) <= Cardinality(A)
      BY <1>1, <2>2, OneClaim
    <3> HIDE DEF A, B
    <3>2. QED BY <1>3, <2>1, <2>2, <3>1
  <2>3. CASE issued' = issued /\ s \in B /\ s \notin A
    <3>1. Cardinality(B) = Cardinality(A) + 1
      BY <1>1, <2>3, OneClaim
    <3>2. issued + Cardinality(A) < MaxTokens
      BY <1>2, <1>3, <2>3 DEF Tokens, TokensLeft
    <3> HIDE DEF A, B
    <3>3. QED BY <1>3, <2>1, <2>3, <3>1, <3>2
  <2>4. CASE issued' = issued + 1 /\ s \in A /\ s \notin B
    <3>1. Cardinality(A) = Cardinality(B) + 1
      BY <1>1, <2>4, OneClaim
    <3> HIDE DEF A, B
    <3>2. QED BY <1>3, <2>1, <2>4, <3>1
  <2>5. QED BY <1>2, <2>2, <2>3, <2>4 DEF Tokens
<1>5. DomainClaims' = B
  BY DEF DomainClaims
<1> HIDE DEF A, B
<1>6. QED BY <1>4, <1>5 DEF TokensInv

LEMMA Assemble ==
  ASSUME HostsInv, NEW s \in Slots, NEW h \in Requests, Moved(s, h), Tokens(s, h), Kept,
         hosts' \in [Names -> Rows \cup {NoHost}], \A n \in Names : RowOK(hosts'[n]),
         cache' \in [Names -> Entries \cup {NoEntry}],
         live' \subseteq Assets, overrun' \subseteq Names, faults' \in 0..MaxFaults,
         published' = published
  PROVE  HostsInv'
<1>1. TokensInv' /\ issued' \in 0..MaxTokens
  BY TokensKept
<1>2. handler' \in [Slots -> Requests]
  BY DEF Moved
<1>3. \A n \in Names : hosts'[n] # NoHost => (hosts'[n].released = "no" <=> hosts'[n].asset # NoAsset)
  BY DEF RowOK
<1>4. published' \subseteq Custom \X (0..MaxTokens)
  BY DEF HostsInv, TypeOK
<1>5. TypeOK'
  BY <1>1, <1>2, <1>3, <1>4 DEF TypeOK, Active
<1>6. QED BY <1>1, <1>5 DEF HostsInv, Kept

\* A request goes on from what it has read, and nothing else changes.
LEMMA ReadStep ==
  ASSUME HostsInv, NEW s \in Slots, NEW h \in Requests, RequestOK(h), Tokens(s, h),
         handler' = [handler EXCEPT ![s] = h], live' \subseteq Assets,
         UNCHANGED <<hosts, cache, published, issued, overrun, faults>>,
         handler[s].drop = {},
         h.op = "verify" /\ h.name \notin overrun =>
           /\ Held(h.name)
           /\ Active(h.name) =>
                IF h.at = "looking" THEN h.token = hosts[h.name].token
                ELSE <<h.name, hosts[h.name].token>> \in published,
         h.op = "resolve" => h.to = Resolution(hosts[h.name], h.name)
  PROVE  HostsInv' /\ Stays
<1>1. Kept
  BY RequestStep DEF Kept
<1>2. Moved(s, h)
  BY DEF Moved, HostsInv, TypeOK
<1>3. hosts \in [Names -> Rows \cup {NoHost}] /\ (\A n \in Names : RowOK(hosts[n]))
      /\ cache \in [Names -> Entries \cup {NoEntry}]
      /\ overrun \subseteq Names /\ faults \in 0..MaxFaults
  BY DEF HostsInv, TypeOK, RowOK, Active
<1>4. HostsInv'
  BY <1>1, <1>2, <1>3, Assemble
<1>5. Stays
  BY DEF Stays
<1>6. QED BY <1>4, <1>5

\* The table is written.
LEMMA TableStep ==
  ASSUME HostsInv, NEW s \in Slots, NEW h \in Requests, RequestOK(h), Tokens(s, h),
         h.op \in {"claim", "drop", "delete"},
         NEW rows \in [Names -> Rows \cup {NoHost}], \A n \in Names : RowOK(rows[n]),
         Write(s, rows, h),
         handler[s].drop = {},
         UNCHANGED <<cache, live, published, faults>>,
         overrun \subseteq overrun', overrun' \subseteq Names,
         Keeps(rows, overrun'),
         \A n \in Names \ overrun' : rows[n] # hosts[n] => n \in h.drop \/ ~Held(n),
         \A n \in Custom \ overrun' :
           rows[n].released = "no" /\ rows[n].verified => <<n, rows[n].token>> \in published
  PROVE  HostsInv' /\ Stays
<1>1. Moved(s, h) /\ Kept /\ hosts' = rows
  BY WriteStep DEF Moved, Kept
<1>2. cache \in [Names -> Entries \cup {NoEntry}] /\ live \subseteq Assets
      /\ faults \in 0..MaxFaults
  BY DEF HostsInv, TypeOK
<1>3. HostsInv'
  BY <1>1, <1>2, Assemble
<1>4. Stays
  BY <1>1 DEF Stays, Keeps, Held, Active
<1>5. QED BY <1>3, <1>4

\* The claim of a domain that is inserting has set its token aside.
LEMMA TokenLeft ==
  ASSUME HostsInv, NEW s \in DomainClaims
  PROVE  issued + 1 \in 0..MaxTokens
<1>1. DomainClaims \subseteq Slots /\ DomainClaims \ {s} \subseteq Slots
      /\ IsFiniteSet(Slots) /\ MaxTokens \in Nat
  BY BoundsAssumption DEF DomainClaims
<1>2. Cardinality(DomainClaims) \in Nat /\ Cardinality(DomainClaims \ {s}) \in Nat
      /\ Cardinality(DomainClaims) = Cardinality(DomainClaims \ {s}) + 1
  BY <1>1, FS_Subset, FS_CardinalityType, FS_RemoveElement
<1>3. issued \in Nat /\ issued + Cardinality(DomainClaims) <= MaxTokens
  BY <1>1 DEF HostsInv, TypeOK, TokensInv
<1>4. QED BY <1>1, <1>2, <1>3

\* One row is written.
LEMMA RowStep ==
  ASSUME HostsInv, NEW s \in Slots, NEW h \in Requests, RequestOK(h), Tokens(s, h),
         h.op \in {"claim", "drop", "delete"},
         NEW n \in Names, NEW r \in Rows \cup {NoHost}, RowOK(r),
         Write(s, [hosts EXCEPT ![n] = r], h),
         handler[s].drop = {},
         UNCHANGED <<cache, live, published, faults>>,
         overrun' = overrun \/ overrun' = overrun \cup {n},
         n \notin overrun' /\ Held(n) =>
           /\ r.released \in {"no", "cooling"}
           /\ r.released = "no" => Active(n) /\ r.token = hosts[n].token,
         n \in overrun' \/ r = hosts[n] \/ n \in h.drop \/ ~Held(n),
         n \in Custom \ overrun' /\ r.released = "no" /\ r.verified => <<n, r.token>> \in published
  PROVE  HostsInv' /\ Stays
<1> USE NamesAssumption
<1> DEFINE rows == [hosts EXCEPT ![n] = r]
<1>1. hosts \in [Names -> Rows \cup {NoHost}] /\ (\A m \in Names : RowOK(hosts[m]))
      /\ cache \in [Names -> Entries \cup {NoEntry}]
      /\ live \subseteq Assets /\ overrun \subseteq Names /\ faults \in 0..MaxFaults
  BY DEF HostsInv, TypeOK, RowOK, Active
<1>2. rows \in [Names -> Rows \cup {NoHost}] /\ rows[n] = r
      /\ \A m \in Names \ {n} : rows[m] = hosts[m]
  BY <1>1
<1>3. Write(s, rows, h)
  OBVIOUS
<1> HIDE DEF rows
<1>4. \A m \in Names : RowOK(rows[m])
  BY <1>1, <1>2
<1>5. Keeps(rows, overrun')
  <2>1. SUFFICES ASSUME NEW m \in Names \ overrun', Held(m)
                 PROVE  /\ rows[m].released \in {"no", "cooling"}
                        /\ rows[m].released = "no" => Active(m) /\ rows[m].token = hosts[m].token
    BY DEF Keeps
  <2>2. CASE m = n
    BY <1>2, <2>1, <2>2
  <2>3. CASE m # n
    BY <1>2, <2>1, <2>3 DEF Held, Active
  <2>4. QED BY <2>2, <2>3
<1>6. \A m \in Names \ overrun' : rows[m] # hosts[m] => m \in h.drop \/ ~Held(m)
  BY <1>2
<1>7. \A m \in Custom \ overrun' :
        rows[m].released = "no" /\ rows[m].verified => <<m, rows[m].token>> \in published
  <2>1. \A m \in Custom \ overrun :
          hosts[m].released = "no" /\ hosts[m].verified => <<m, hosts[m].token>> \in published
    BY DEF HostsInv, VerifiedByOwnProof, Active
  <2>2. QED BY <1>2, <2>1
<1>8. overrun \subseteq overrun' /\ overrun' \subseteq Names
  BY <1>1
<1>9. QED BY <1>2, <1>3, <1>4, <1>5, <1>6, <1>7, <1>8, TableStep

-----------------------------------------------------------------------------
(* Claims *)

\* A request between two steps has nothing to drop, save while it drops.
LEMMA Handling ==
  ASSUME HostsInv, NEW s \in Slots
  PROVE  /\ handler[s] \in Requests
         /\ handler[s] = Idle \/ handler[s].at # "dropping" => handler[s].drop = {}
         /\ handler[s] # Idle /\ handler[s].op \notin {"drop", "delete"}
              => handler[s].name \in Names
         /\ handler[s].op = "claim" => handler[s].asset \in Assets
         /\ handler[s].op = "verify" => handler[s].name \in Custom
         /\ handler[s].drop # {} => handler[s].op \in {"drop", "delete"} /\ handler[s].at = "dropping"
<1>1. RequestOK(handler[s]) /\ handler[s] \in Requests
  BY DEF HostsInv, RequestsInv, TypeOK
<1>2. QED BY <1>1 DEF RequestOK, Idle

LEMMA DroppingType ==
  ASSUME NEW ns \in SUBSET Names
  PROVE  /\ Dropping(ns) \in Requests /\ RequestOK(Dropping(ns))
         /\ Dropping(ns).op = "drop" /\ Dropping(ns).drop = ns
<1>1. Dropping(ns) \in Requests /\ Dropping(ns).op = "drop" /\ Dropping(ns).at = "dropping"
      /\ Dropping(ns).drop = ns
  BY IdleType DEF Dropping, Requests
<1>2. QED BY <1>1 DEF RequestOK

\* A request ends.
LEMMA FinishStep ==
  ASSUME HostsInv, NEW s \in Slots, handler[s].drop = {}, Finish(s), live' \subseteq Assets,
         UNCHANGED <<hosts, cache, published, issued, overrun, faults>>
  PROVE  HostsInv' /\ Stays
<1>1. Idle \in Requests /\ RequestOK(Idle) /\ Idle.op = "none"
  BY IdleType DEF RequestOK, Idle
<1>2. Tokens(s, Idle)
  BY <1>1 DEF Tokens
<1>3. handler' = [handler EXCEPT ![s] = Idle]
  BY DEF Finish
<1>4. QED BY <1>1, <1>2, <1>3, ReadStep

LEMMA ClaimFindStep ==
  ASSUME HostsInv, NEW s \in Slots, NEW a \in Assets, NEW n \in Names, ClaimFind(s, a, n)
  PROVE  HostsInv' /\ Stays
<1> DEFINE at == IF hosts[n] = NoHost THEN "counting" ELSE "removing"
           h == [Idle EXCEPT !.op = "claim", !.asset = a, !.name = n, !.at = at]
<1>1. /\ n \in Custom => TokensLeft
      /\ handler[s] = Idle /\ handler' = [handler EXCEPT ![s] = h]
      /\ UNCHANGED <<hosts, cache, live, published, issued, overrun, faults>>
  BY DEF ClaimFind, Begin
<1>2. h \in Requests /\ h.op = "claim" /\ h.name = n /\ RequestOK(h)
  <2>1. at \in {"counting", "removing"}
    OBVIOUS
  <2> HIDE DEF at
  <2>2. h \in Requests /\ h.op = "claim" /\ h.at = at /\ h.asset = a /\ h.name = n /\ h.drop = {}
    BY <2>1, IdleType DEF Requests
  <2>3. QED BY <2>1, <2>2 DEF RequestOK
<1> HIDE DEF h
<1>3. handler[s].drop = {} /\ live \subseteq Assets
  BY <1>1, Handling DEF HostsInv, TypeOK
<1>4. Tokens(s, h)
  BY <1>1, <1>2 DEF Tokens
<1>5. QED BY <1>1, <1>2, <1>3, <1>4, ReadStep

LEMMA ClaimRemoveStep ==
  ASSUME HostsInv, NEW s \in Slots, ClaimRemove(s)
  PROVE  HostsInv' /\ Stays
<1> DEFINE h == [handler[s] EXCEPT !.at = "counting"]
           n == handler[s].name
<1>1. /\ handler[s].op = "claim" /\ handler[s].at = "removing"
      /\ Write(s, [hosts EXCEPT ![n] = NoHost], h)
      /\ overrun' = IF Held(n) THEN overrun \cup {n} ELSE overrun
      /\ UNCHANGED <<cache, live, published, issued, faults>>
  BY DEF ClaimRemove, At
<1>2. handler[s] \in Requests /\ handler[s].drop = {} /\ n \in Names /\ handler[s].asset \in Assets
  BY <1>1, Handling DEF Idle
<1>3. h \in Requests /\ h.op = "claim" /\ h.name = n /\ RequestOK(h)
  BY <1>1, <1>2 DEF Requests, RequestOK
<1>4. Tokens(s, h)
  BY <1>1, <1>3 DEF Tokens, DomainClaims
<1> HIDE DEF h, n
<1>5. RowOK(NoHost) /\ NoHost.released = "absent"
  BY DEF RowOK, NoHost
<1>6. QED BY <1>1, <1>2, <1>3, <1>4, <1>5, RowStep

LEMMA ClaimCountStep ==
  ASSUME HostsInv, NEW s \in Slots, ClaimCount(s)
  PROVE  HostsInv' /\ Stays
<1>1. /\ handler[s].op = "claim" /\ handler[s].at = "counting"
      /\ Finish(s) \/ GoTo(s, "inserting")
      /\ UNCHANGED <<hosts, cache, live, published, issued, overrun, faults>>
  BY DEF ClaimCount, At
<1>2. handler[s] \in Requests /\ handler[s].drop = {} /\ handler[s].name \in Names
      /\ handler[s].asset \in Assets /\ live \subseteq Assets
  BY <1>1, Handling DEF Idle, HostsInv, TypeOK
<1>3. CASE Finish(s)
  BY <1>1, <1>2, <1>3, FinishStep
<1>4. CASE GoTo(s, "inserting")
  <2> DEFINE h == [handler[s] EXCEPT !.at = "inserting"]
  <2>1. handler' = [handler EXCEPT ![s] = h]
    BY <1>4 DEF GoTo
  <2>2. h \in Requests /\ h.op = "claim" /\ h.name = handler[s].name /\ RequestOK(h)
    BY <1>1, <1>2 DEF Requests, RequestOK
  <2>3. Tokens(s, h)
    BY <1>1, <2>2 DEF Tokens, DomainClaims
  <2> HIDE DEF h
  <2>4. QED BY <1>1, <1>2, <2>1, <2>2, <2>3, ReadStep
<1>5. QED BY <1>1, <1>3, <1>4

LEMMA ClaimInsertStep ==
  ASSUME HostsInv, NEW s \in Slots, ClaimInsert(s)
  PROVE  HostsInv' /\ Stays
<1> DEFINE n == handler[s].name
           t == NextToken(n)
           r == NewRow(handler[s].asset, n, t)
<1>1. /\ handler[s].op = "claim" /\ handler[s].at = "inserting"
      /\ \/ /\ hosts[n] = NoHost
            /\ issued' = IF n \in Custom THEN issued + 1 ELSE issued
            /\ Write(s, [hosts EXCEPT ![n] = r], Dropping({n}))
         \/ Finish(s) /\ UNCHANGED <<hosts, issued>>
      /\ UNCHANGED <<cache, live, published, overrun, faults>>
  BY DEF ClaimInsert, At
<1>2. handler[s] \in Requests /\ handler[s].drop = {} /\ n \in Names
      /\ handler[s].asset \in Assets /\ live \subseteq Assets
  BY <1>1, Handling DEF Idle, HostsInv, TypeOK
<1>3. CASE Finish(s) /\ UNCHANGED <<hosts, issued>>
  BY <1>1, <1>2, <1>3, FinishStep
<1>4. CASE /\ hosts[n] = NoHost
           /\ issued' = IF n \in Custom THEN issued + 1 ELSE issued
           /\ Write(s, [hosts EXCEPT ![n] = r], Dropping({n}))
  <2>1. Tokens(s, Dropping({n}))
    BY <1>1, <1>2, <1>4, DroppingType DEF Tokens, DomainClaims
  <2>2. t \in 0..MaxTokens
    <3>1. CASE n \in Custom
      <4>1. s \in DomainClaims
        BY <1>1, <3>1 DEF DomainClaims
      <4>2. QED BY <3>1, <4>1, TokenLeft DEF NextToken
    <3>2. CASE n \notin Custom
      BY <3>2, BoundsAssumption DEF NextToken
    <3>3. QED BY <3>1, <3>2
  <2> HIDE DEF t
  <2>4. r \in Rows /\ RowOK(r) /\ r.released = "no" /\ ~r.verified
    BY <1>2, <2>2, ProjectsAssumption, Distinct DEF NewRow, Rows, RowOK
  <2> HIDE DEF n, r
  <2>5. ~Held(n)
    BY <1>4 DEF Held, NoHost
  <2>6. QED BY <1>1, <1>2, <1>4, <2>1, <2>4, <2>5, DroppingType, RowStep
<1>5. QED BY <1>1, <1>3, <1>4

-----------------------------------------------------------------------------
(* Switches, releases and verifications *)

LEMMA FindStep ==
  ASSUME HostsInv, NEW s \in Slots, NEW op \in {"disable", "enable", "release"},
         NEW a \in Assets, NEW n \in Names, Find(s, op, a, n)
  PROVE  HostsInv' /\ Stays
<1> DEFINE h == [Idle EXCEPT !.op = op, !.at = "writing", !.name = n]
<1>1. /\ handler[s] = Idle /\ handler' = [handler EXCEPT ![s] = h]
      /\ UNCHANGED <<hosts, cache, live, published, issued, overrun, faults>>
  BY DEF Find, Begin
<1>2. h \in Requests /\ h.op = op /\ RequestOK(h)
  <2>1. h \in Requests /\ h.op = op /\ h.at = "writing" /\ h.name = n /\ h.drop = {}
    BY IdleType DEF Requests
  <2>2. QED BY <2>1 DEF RequestOK
<1> HIDE DEF h
<1>3. handler[s].drop = {} /\ live \subseteq Assets
  BY <1>1, IdleType DEF HostsInv, TypeOK
<1>4. Tokens(s, h)
  BY <1>1, <1>2 DEF Tokens
<1>5. QED BY <1>1, <1>2, <1>3, <1>4, ReadStep

\* WHERE released_at IS NULL: an active row becomes r, any other one stays.
LEMMA ActiveRowStep ==
  ASSUME HostsInv, NEW s \in Slots, NEW n \in Names, NEW r,
         handler[s].drop = {},
         Active(n) => /\ r \in Rows /\ RowOK(r)
                      /\ r.released \in {"no", "cooling"}
                      /\ r.released = "no" => r.token = hosts[n].token
                      /\ n \in Custom \ overrun /\ r.released = "no" /\ r.verified
                           => <<n, r.token>> \in published,
         Write(s, IF Active(n) THEN [hosts EXCEPT ![n] = r] ELSE hosts, Dropping({n})),
         UNCHANGED <<cache, live, published, issued, overrun, faults>>
  PROVE  HostsInv' /\ Stays
<1>1. /\ Dropping({n}) \in Requests /\ RequestOK(Dropping({n}))
      /\ Dropping({n}).op = "drop" /\ Dropping({n}).drop = {n}
  BY DroppingType
<1>2. Tokens(s, Dropping({n}))
  BY <1>1 DEF Tokens
<1>3. CASE Active(n)
  BY <1>1, <1>2, <1>3, RowStep
<1>4. CASE ~Active(n)
  <2>1. hosts \in [Names -> Rows \cup {NoHost}] /\ RowOK(hosts[n])
    BY DEF HostsInv, TypeOK, RowOK, Active
  <2>2. hosts = [hosts EXCEPT ![n] = hosts[n]]
    BY <2>1
  <2>3. Write(s, [hosts EXCEPT ![n] = hosts[n]], Dropping({n}))
    BY <1>4, <2>2
  <2>4. hosts[n] \in Rows \cup {NoHost} /\ hosts[n].released # "no"
        /\ (Held(n) => hosts[n].released = "cooling")
    BY <1>4, <2>1 DEF Active, Held
  <2>5. QED BY <1>1, <1>2, <2>1, <2>3, <2>4, RowStep
<1>5. QED BY <1>3, <1>4

\* An active row is a row.
LEMMA ActiveRow ==
  ASSUME HostsInv, NEW n \in Names, Active(n)
  PROVE  hosts[n] \in Rows /\ hosts[n].asset # NoAsset /\ hosts[n].released = "no"
<1>1. hosts[n] # NoHost
  BY DEF Active, NoHost
<1>2. QED BY <1>1 DEF HostsInv, TypeOK, Active

LEMMA SwitchStep ==
  ASSUME HostsInv, NEW s \in Slots, Switch(s)
  PROVE  HostsInv' /\ Stays
<1> DEFINE n == handler[s].name
           r == [hosts[n] EXCEPT !.disabled = handler[s].op = "disable"]
<1>1. /\ handler[s].op \in {"disable", "enable"} /\ handler[s].at = "writing"
      /\ Write(s, IF Active(n) THEN [hosts EXCEPT ![n].disabled = handler[s].op = "disable"]
                  ELSE hosts, Dropping({n}))
      /\ UNCHANGED <<cache, live, published, issued, overrun, faults>>
  BY DEF Switch
<1>2. handler[s].drop = {} /\ n \in Names
  BY <1>1, Handling DEF Idle
<1>3. [hosts EXCEPT ![n].disabled = handler[s].op = "disable"] = [hosts EXCEPT ![n] = r]
  OBVIOUS
<1>4. ASSUME Active(n)
      PROVE  /\ r \in Rows /\ RowOK(r) /\ r.released = "no" /\ r.token = hosts[n].token
             /\ n \in Custom \ overrun /\ r.verified => <<n, r.token>> \in published
  <2>1. hosts[n] \in Rows /\ hosts[n].asset # NoAsset /\ hosts[n].released = "no"
    BY <1>2, <1>4, ActiveRow
  <2>2. r \in Rows /\ r.released = "no" /\ r.asset = hosts[n].asset
        /\ r.token = hosts[n].token /\ r.verified = hosts[n].verified
    BY <2>1 DEF Rows
  <2> HIDE DEF n, r
  <2>3. QED BY <1>4, <2>1, <2>2 DEF RowOK, HostsInv, VerifiedByOwnProof
<1>5. Write(s, IF Active(n) THEN [hosts EXCEPT ![n] = r] ELSE hosts, Dropping({n}))
  BY <1>1, <1>3
<1> HIDE DEF n, r
<1>6. QED BY <1>1, <1>2, <1>4, <1>5, ActiveRowStep

\* What the statements that release make of an active row.
LEMMA ReleasedType ==
  ASSUME NEW r \in Rows
  PROVE  Released(r) \in Rows /\ RowOK(Released(r)) /\ Released(r).released = "cooling"
<1>1. 0 \in 0..MaxTokens
  BY BoundsAssumption
<1>2. /\ Released(r) \in Rows /\ Released(r).released = "cooling"
      /\ Released(r).asset = NoAsset
  BY <1>1 DEF Released, Rows
<1>3. QED BY <1>2 DEF RowOK

LEMMA ReleaseStep ==
  ASSUME HostsInv, NEW s \in Slots, Release(s)
  PROVE  HostsInv' /\ Stays
<1> DEFINE n == handler[s].name
           r == Released(hosts[n])
<1>1. /\ handler[s].op = "release" /\ handler[s].at = "writing"
      /\ Write(s, IF Active(n) THEN [hosts EXCEPT ![n] = r] ELSE hosts, Dropping({n}))
      /\ UNCHANGED <<cache, live, published, issued, overrun, faults>>
  BY DEF Release, At
<1>2. handler[s].drop = {} /\ n \in Names
  BY <1>1, Handling DEF Idle
<1>3. ASSUME Active(n)
      PROVE  r \in Rows /\ RowOK(r) /\ r.released = "cooling"
  BY <1>2, <1>3, ActiveRow, ReleasedType
<1> HIDE DEF n, r
<1>4. QED BY <1>1, <1>2, <1>3, ActiveRowStep

LEMMA VerifyFindStep ==
  ASSUME HostsInv, NEW s \in Slots, NEW a \in Assets, NEW n \in Names, VerifyFind(s, a, n)
  PROVE  HostsInv' /\ Stays
<1> DEFINE h == [Idle EXCEPT !.op = "verify", !.at = "looking", !.name = n,
                             !.token = hosts[n].token]
<1>1. /\ Active(n) /\ n \in Custom
      /\ handler[s] = Idle /\ handler' = [handler EXCEPT ![s] = h]
      /\ UNCHANGED <<hosts, cache, live, published, issued, overrun, faults>>
  BY DEF VerifyFind, Begin, Own
<1>2. h \in Requests /\ h.op = "verify" /\ h.at = "looking" /\ h.name = n
      /\ h.token = hosts[n].token /\ RequestOK(h)
  <2>1. hosts[n].token \in 0..MaxTokens
    BY <1>1, ActiveRow DEF Rows
  <2>2. h \in Requests /\ h.op = "verify" /\ h.at = "looking" /\ h.name = n /\ h.drop = {}
        /\ h.token = hosts[n].token
    BY <2>1, IdleType DEF Requests
  <2>3. QED BY <1>1, <2>2 DEF RequestOK
<1> HIDE DEF h
<1>3. handler[s].drop = {} /\ live \subseteq Assets
  BY <1>1, IdleType DEF HostsInv, TypeOK
<1>4. Tokens(s, h) /\ Held(n)
  BY <1>1, <1>2 DEF Tokens, Active, Held
<1>5. QED BY <1>1, <1>2, <1>3, <1>4, ReadStep

LEMMA VerifyLookupStep ==
  ASSUME HostsInv, NEW s \in Slots, VerifyLookup(s)
  PROVE  HostsInv' /\ Stays
<1> DEFINE g == handler[s]
           h == [g EXCEPT !.at = "writing", !.token = 0]
<1>1. /\ g.op = "verify" /\ g.at = "looking"
      /\ \/ <<g.name, g.token>> \in published
            /\ handler' = [handler EXCEPT ![s].at = "writing", ![s].token = 0]
         \/ Finish(s)
      /\ UNCHANGED <<hosts, cache, live, published, issued, overrun, faults>>
  BY DEF VerifyLookup, At
<1>2. g \in Requests /\ g.drop = {} /\ g.name \in Names /\ g.name \in Custom
      /\ live \subseteq Assets
  BY <1>1, Handling DEF Idle, HostsInv, TypeOK
<1>3. CASE Finish(s)
  BY <1>1, <1>2, <1>3, FinishStep
<1>4. CASE /\ <<g.name, g.token>> \in published
           /\ handler' = [handler EXCEPT ![s].at = "writing", ![s].token = 0]
  <2>1. handler' = [handler EXCEPT ![s] = h]
    BY <1>4 DEF HostsInv, TypeOK
  <2> HIDE DEF g
  <2>2. h \in Requests /\ h.op = "verify" /\ h.at = "writing" /\ h.name = g.name /\ h.drop = {}
    <3>1. 0 \in 0..MaxTokens
      BY BoundsAssumption
    <3>2. QED BY <1>1, <1>2, <3>1 DEF Requests
  <2> HIDE DEF h
  <2>3. RequestOK(h) /\ Tokens(s, h)
    BY <1>1, <1>2, <2>2 DEF RequestOK, Tokens
  <2>4. ASSUME g.name \notin overrun
        PROVE  /\ Held(g.name)
               /\ Active(g.name) => <<g.name, hosts[g.name].token>> \in published
    BY <1>1, <1>4, <2>4 DEF HostsInv, VerificationsInv, g
  <2>5. QED BY <1>1, <1>2, <2>1, <2>2, <2>3, <2>4, ReadStep DEF g
<1>5. QED BY <1>1, <1>3, <1>4

LEMMA VerifyStep ==
  ASSUME HostsInv, NEW s \in Slots, Verify(s)
  PROVE  HostsInv' /\ Stays
<1> DEFINE n == handler[s].name
           r == [hosts[n] EXCEPT !.verified = TRUE]
<1>1. /\ handler[s].op = "verify" /\ handler[s].at = "writing"
      /\ Write(s, IF Active(n) THEN [hosts EXCEPT ![n].verified = TRUE] ELSE hosts, Dropping({n}))
      /\ UNCHANGED <<cache, live, published, issued, overrun, faults>>
  BY DEF Verify, At
<1>2. handler[s].drop = {} /\ n \in Names
  BY <1>1, Handling DEF Idle
<1>3. [hosts EXCEPT ![n].verified = TRUE] = [hosts EXCEPT ![n] = r]
  OBVIOUS
<1>4. ASSUME Active(n)
      PROVE  /\ r \in Rows /\ RowOK(r) /\ r.released = "no" /\ r.token = hosts[n].token
             /\ n \in Custom \ overrun /\ r.verified => <<n, r.token>> \in published
  <2>1. hosts[n] \in Rows /\ hosts[n].asset # NoAsset /\ hosts[n].released = "no"
    BY <1>2, <1>4, ActiveRow
  <2>2. r \in Rows /\ r.released = "no" /\ r.asset = hosts[n].asset /\ r.token = hosts[n].token
    BY <2>1 DEF Rows
  <2>3. n \notin overrun => <<n, hosts[n].token>> \in published
    BY <1>1, <1>4 DEF HostsInv, VerificationsInv
  <2> HIDE DEF n, r
  <2>4. QED BY <2>1, <2>2, <2>3 DEF RowOK
<1>5. Write(s, IF Active(n) THEN [hosts EXCEPT ![n] = r] ELSE hosts, Dropping({n}))
  BY <1>1, <1>3
<1> HIDE DEF n, r
<1>6. QED BY <1>1, <1>2, <1>4, <1>5, ActiveRowStep

-----------------------------------------------------------------------------
(* Deletions and the cron *)

LEMMA ReleaseAssetStep ==
  ASSUME HostsInv, NEW s \in Slots, NEW a \in Assets, ReleaseAsset(s, a)
  PROVE  HostsInv' /\ Stays
<1> USE NamesAssumption
<1> DEFINE ns == AssetNames(a)
           rows == [n \in Names |-> IF n \in ns THEN Released(hosts[n]) ELSE hosts[n]]
           h == [Idle EXCEPT !.op = "delete", !.at = "dropping", !.asset = a, !.drop = ns]
<1>1. /\ handler[s] = Idle /\ Write(s, rows, h)
      /\ UNCHANGED <<cache, live, published, issued, overrun, faults>>
  BY DEF ReleaseAsset
<1>2. ns \subseteq Names /\ \A n \in ns : Active(n)
  BY DEF AssetNames
<1>3. h \in Requests /\ h.op = "delete" /\ h.drop = ns /\ RequestOK(h) /\ Tokens(s, h)
  <2> HIDE DEF ns
  <2>1. h \in Requests /\ h.op = "delete" /\ h.at = "dropping" /\ h.drop = ns
    BY <1>2, IdleType DEF Requests
  <2>2. QED BY <1>1, <2>1 DEF RequestOK, Tokens
<1>4. handler[s].drop = {}
  BY <1>1, IdleType
<1>5. hosts \in [Names -> Rows \cup {NoHost}] /\ overrun \subseteq Names
      /\ \A n \in Names : RowOK(hosts[n])
  BY DEF HostsInv, TypeOK, RowOK, Active
<1>6. \A n \in ns : /\ rows[n] \in Rows /\ RowOK(rows[n]) /\ rows[n].released = "cooling"
  BY <1>2, ActiveRow, ReleasedType
<1>7. \A n \in Names \ ns : rows[n] = hosts[n]
  OBVIOUS
<1>8. rows = [n \in Names |-> rows[n]]
  OBVIOUS
<1> HIDE DEF ns, rows, h
<1>9. rows \in [Names -> Rows \cup {NoHost}] /\ \A n \in Names : RowOK(rows[n])
  BY <1>2, <1>5, <1>6, <1>7, <1>8
<1>10. Keeps(rows, overrun)
  BY <1>2, <1>6, <1>7 DEF Keeps, Held, Active
<1>11. \A n \in Custom \ overrun :
         rows[n].released = "no" /\ rows[n].verified => <<n, rows[n].token>> \in published
  BY <1>6, <1>7 DEF HostsInv, VerifiedByOwnProof, Active
<1>12. \A n \in Names \ overrun : rows[n] # hosts[n] => n \in h.drop \/ ~Held(n)
  BY <1>3, <1>7
<1>13. QED BY <1>1, <1>3, <1>4, <1>5, <1>9, <1>10, <1>11, <1>12, TableStep

LEMMA DeleteAssetStep ==
  ASSUME HostsInv, NEW s \in Slots, DeleteAsset(s)
  PROVE  HostsInv' /\ Stays
<1>1. /\ handler[s].drop = {} /\ Finish(s) /\ live' \subseteq Assets
      /\ UNCHANGED <<hosts, cache, published, issued, overrun, faults>>
  BY DEF DeleteAsset, HostsInv, TypeOK
<1>2. QED BY <1>1, FinishStep

LEMMA PurgeStep ==
  ASSUME HostsInv, NEW s \in Slots, Purge(s)
  PROVE  HostsInv' /\ Stays
<1> USE NamesAssumption
<1> DEFINE ns == {n \in Names : hosts[n].released = "served"}
           rows == [n \in Names |-> IF n \in ns THEN NoHost ELSE hosts[n]]
<1>1. /\ handler[s] = Idle /\ Write(s, rows, Dropping(ns))
      /\ UNCHANGED <<cache, live, published, issued, overrun, faults>>
  BY DEF Purge
<1>2. ns \subseteq Names /\ \A n \in ns : ~Held(n)
  BY DEF Held
<1>3. /\ Dropping(ns) \in Requests /\ RequestOK(Dropping(ns)) /\ Tokens(s, Dropping(ns))
      /\ Dropping(ns).op = "drop" /\ Dropping(ns).drop = ns
  BY <1>1, <1>2, DroppingType DEF Tokens
<1>4. handler[s].drop = {}
  BY <1>1, IdleType
<1>5. hosts \in [Names -> Rows \cup {NoHost}] /\ overrun \subseteq Names
      /\ \A n \in Names : RowOK(hosts[n])
  BY DEF HostsInv, TypeOK, RowOK, Active
<1>6. \A n \in ns : rows[n] = NoHost /\ RowOK(rows[n]) /\ rows[n].released = "absent"
  BY <1>2 DEF RowOK, NoHost
<1>7. \A n \in Names \ ns : rows[n] = hosts[n]
  OBVIOUS
<1>8. rows = [n \in Names |-> rows[n]]
  OBVIOUS
<1> HIDE DEF ns, rows
<1>9. rows \in [Names -> Rows \cup {NoHost}] /\ \A n \in Names : RowOK(rows[n])
  BY <1>2, <1>5, <1>6, <1>7, <1>8
<1>10. Keeps(rows, overrun)
  BY <1>2, <1>7 DEF Keeps, Held, Active
<1>11. \A n \in Custom \ overrun :
         rows[n].released = "no" /\ rows[n].verified => <<n, rows[n].token>> \in published
  BY <1>6, <1>7 DEF HostsInv, VerifiedByOwnProof, Active
<1>12. \A n \in Names \ overrun : rows[n] # hosts[n] => n \in Dropping(ns).drop \/ ~Held(n)
  BY <1>3, <1>7
<1>13. QED BY <1>1, <1>3, <1>4, <1>5, <1>9, <1>10, <1>11, <1>12, TableStep

-----------------------------------------------------------------------------
(* The cache and the environment *)

LEMMA ResolveReadStep ==
  ASSUME HostsInv, NEW s \in Slots, NEW n \in Names, ResolveRead(s, n)
  PROVE  HostsInv' /\ Stays
<1> DEFINE x == Resolution(hosts[n], n)
           h == [Idle EXCEPT !.op = "resolve", !.at = "caching", !.name = n, !.to = x]
<1>1. /\ handler[s] = Idle /\ handler' = [handler EXCEPT ![s] = h]
      /\ UNCHANGED <<hosts, cache, live, published, issued, overrun, faults>>
  BY DEF ResolveRead
<1>2. x \in Entries \cup {NoEntry}
  BY ResolutionType DEF HostsInv, TypeOK, Active, Entries
<1> HIDE DEF x
<1>3. h \in Requests /\ h.op = "resolve" /\ h.at = "caching" /\ h.name = n /\ h.to = x
      /\ h.drop = {}
  BY <1>2, IdleType DEF Requests
<1> HIDE DEF h
<1>4. RequestOK(h) /\ Tokens(s, h)
  BY <1>1, <1>3 DEF RequestOK, Tokens
<1>5. handler[s].drop = {} /\ live \subseteq Assets
  BY <1>1, IdleType DEF HostsInv, TypeOK
<1>6. QED BY <1>1, <1>3, <1>4, <1>5, ReadStep DEF x

\* A step that leaves the table alone, and the requests other than that of slot s.
LEMMA CacheStep ==
  ASSUME HostsInv, NEW s \in Slots, NEW h \in Requests, RequestOK(h), Tokens(s, h),
         handler' = [handler EXCEPT ![s] = h],
         h.op \notin {"verify", "resolve"},
         cache' \in [Names -> Entries \cup {NoEntry}], faults' \in 0..MaxFaults,
         UNCHANGED <<hosts, live, published, issued, overrun>>,
         \A n \in Names : cache'[n] \in Assets =>
           \/ cache'[n] = cache[n] /\ (n \in handler[s].drop => n \in h.drop)
           \/ cache'[n] = Resolution(hosts[n], n)
  PROVE  HostsInv' /\ Stays
<1>1. handler' \in [Slots -> Requests] /\ handler'[s] = h
      /\ \A t \in Slots \ {s} : handler'[t] = handler[t]
  BY DEF HostsInv, TypeOK
<1>2. hosts \in [Names -> Rows \cup {NoHost}] /\ (\A n \in Names : RowOK(hosts[n]))
      /\ live \subseteq Assets /\ overrun \subseteq Names
  BY DEF HostsInv, TypeOK, RowOK, Active
<1>3. RequestsInv'
  BY <1>1 DEF HostsInv, RequestsInv, RequestOK
<1>4. VerificationsInv'
  BY <1>1 DEF HostsInv, VerificationsInv, Held, Active
<1>5. VerifiedByOwnProof'
  BY DEF HostsInv, VerifiedByOwnProof, Active
<1>6. CacheInv'
  <2>1. ASSUME NEW t \in Slots, handler'[t].op = "resolve"
        PROVE  handler'[t].to \in {"late", Resolution(hosts[handler'[t].name], handler'[t].name)}
    BY <1>1, <2>1 DEF HostsInv, CacheInv
  <2>2. ASSUME NEW n \in Names \ overrun, ~Held(n)
        PROVE  cache'[n] \notin Assets
    <3>1. cache[n] \notin Assets
      BY <2>2 DEF HostsInv, CacheInv
    <3>2. Resolution(hosts[n], n) \notin Assets
      BY <1>2, <2>2, ResolutionType DEF RowOK, Held
    <3>3. QED BY <3>1, <3>2
  <2>3. QED BY <2>1, <2>2 DEF CacheInv, Held
<1>7. NothingServedAfterTakedown'
  <2>1. ASSUME NEW n \in Names \ overrun, cache'[n] \in Assets,
               \A t \in Slots : n \notin handler'[t].drop
        PROVE  Resolution(hosts[n], n) = cache'[n]
    <3>1. CASE cache'[n] = cache[n] /\ (n \in handler[s].drop => n \in h.drop)
      <4>1. \A t \in Slots : n \notin handler[t].drop
        BY <1>1, <2>1, <3>1
      <4>2. QED BY <2>1, <3>1, <4>1 DEF HostsInv, NothingServedAfterTakedown
    <3>2. QED BY <2>1, <3>1
  <2>2. QED BY <2>1 DEF NothingServedAfterTakedown
<1>8. Moved(s, h) /\ Kept
  BY <1>1, <1>3, <1>4, <1>5, <1>6, <1>7 DEF Moved, Kept
<1>9. HostsInv'
  BY <1>2, <1>8, Assemble
<1>10. Stays
  BY DEF Stays
<1>11. QED BY <1>9, <1>10

LEMMA FaultType ==
  ASSUME HostsInv, Fault
  PROVE  faults' \in 0..MaxFaults
BY BoundsAssumption DEF HostsInv, TypeOK, Fault

LEMMA DropEntryStep ==
  ASSUME HostsInv, NEW s \in Slots, NEW n \in Names, DropEntry(s, n)
  PROVE  HostsInv' /\ Stays
<1> DEFINE g == handler[s]
           d == g.drop \ {n}
           k == [g EXCEPT !.drop = d]
           h == IF g.op # "delete" /\ g.drop = {n} THEN Idle ELSE k
<1>1. /\ n \in g.drop
      /\ cache' = [cache EXCEPT ![n] = NoEntry] \/ cache' = [cache EXCEPT ![n] = "late"]
      /\ UNCHANGED <<hosts, live, published, issued, overrun>>
  BY DEF DropEntry
<1>2. handler' = [handler EXCEPT ![s] = h]
  BY DEF DropEntry
<1>3. faults' \in 0..MaxFaults
  BY FaultType DEF DropEntry, HostsInv, TypeOK
<1>4. g \in Requests /\ g.op \in {"drop", "delete"} /\ g.at = "dropping"
  BY <1>1, Handling
<1>5. d \subseteq Names
  BY <1>4 DEF Requests
<1> HIDE DEF g
<1>6. k \in Requests /\ k.op = g.op /\ k.at = "dropping" /\ k.drop = d
  <2> HIDE DEF d
  <2>1. QED BY <1>4, <1>5 DEF Requests
<1> HIDE DEF k
<1>7. h \in Requests /\ RequestOK(h) /\ h.op \notin {"claim", "verify", "resolve"}
  BY <1>4, <1>6, IdleType DEF RequestOK
<1>8. \A m \in Names \ {n} : m \in g.drop => m \in h.drop
  BY <1>6
<1> HIDE DEF h, d
<1>9. Tokens(s, h)
  BY <1>1, <1>7 DEF Tokens
<1>10. /\ cache \in [Names -> Entries \cup {NoEntry}]
       /\ "late" \in Entries /\ "late" \notin Assets /\ NoEntry \notin Assets
  BY Distinct DEF HostsInv, TypeOK, Entries
<1>11. cache' \in [Names -> Entries \cup {NoEntry}]
       /\ \A m \in Names : cache'[m] \in Assets => m # n /\ cache'[m] = cache[m]
  BY <1>1, <1>10
<1>12. QED BY <1>1, <1>2, <1>3, <1>7, <1>8, <1>9, <1>11, CacheStep DEF g

LEMMA ResolveCacheStep ==
  ASSUME HostsInv, NEW s \in Slots, ResolveCache(s)
  PROVE  HostsInv' /\ Stays
<1> DEFINE g == handler[s]
<1>1. /\ g.op = "resolve" /\ g.at = "caching"
      /\ cache' = [cache EXCEPT ![g.name] = g.to]
      /\ handler' = [handler EXCEPT ![s] = Idle]
      /\ UNCHANGED <<hosts, live, published, issued, overrun, faults>>
  BY DEF ResolveCache, At, Finish
<1>2. g \in Requests /\ g.name \in Names /\ g.drop = {}
  BY <1>1, Handling, IdleType DEF Idle
<1>3. g.to \in Entries \cup {NoEntry} /\ g.to \in {"late", Resolution(hosts[g.name], g.name)}
  BY <1>1, <1>2 DEF HostsInv, CacheInv, Requests
<1>4. Idle \in Requests /\ RequestOK(Idle) /\ Tokens(s, Idle) /\ Idle.op = "none"
  BY <1>1, IdleType DEF RequestOK, Tokens
<1>5. cache \in [Names -> Entries \cup {NoEntry}] /\ faults \in 0..MaxFaults
  BY DEF HostsInv, TypeOK
<1>6. cache' \in [Names -> Entries \cup {NoEntry}]
  BY <1>1, <1>2, <1>3, <1>5
<1>7. \A n \in Names : cache'[n] \in Assets =>
         cache'[n] = cache[n] \/ cache'[n] = Resolution(hosts[n], n)
  BY <1>1, <1>3, <1>5, Distinct
<1>8. QED BY <1>1, <1>2, <1>4, <1>5, <1>6, <1>7, CacheStep

LEMMA DieStep ==
  ASSUME HostsInv, NEW s \in Slots, Die(s)
  PROVE  HostsInv' /\ Stays
<1>1. /\ cache' = [n \in Names |-> IF n \in handler[s].drop /\ cache[n] # NoEntry
                                   THEN "late" ELSE cache[n]]
      /\ handler' = [handler EXCEPT ![s] = Idle]
      /\ UNCHANGED <<hosts, live, published, issued, overrun>>
  BY DEF Die, Finish
<1>2. faults' \in 0..MaxFaults
  BY FaultType DEF Die
<1>3. Idle \in Requests /\ RequestOK(Idle) /\ Tokens(s, Idle) /\ Idle.op = "none"
  BY <1>1, IdleType DEF RequestOK, Tokens
<1>4. /\ cache \in [Names -> Entries \cup {NoEntry}]
      /\ "late" \in Entries /\ "late" \notin Assets /\ NoEntry \notin Assets
  BY Distinct DEF HostsInv, TypeOK, Entries
<1>5. cache' \in [Names -> Entries \cup {NoEntry}]
      /\ \A n \in Names : cache'[n] \in Assets => cache'[n] = cache[n] /\ n \notin handler[s].drop
  BY <1>1, <1>4
<1>6. QED BY <1>1, <1>2, <1>3, <1>5, CacheStep

LEMMA ExpireStep ==
  ASSUME HostsInv, NEW n \in Names, Expire(n)
  PROVE  HostsInv' /\ Stays
<1>1. /\ cache' = [cache EXCEPT ![n] = NoEntry]
      /\ UNCHANGED <<hosts, live, handler, published, issued, overrun, faults>>
  BY DEF Expire
<1>2. cache' \in [Names -> Entries \cup {NoEntry}]
      /\ \A m \in Names : cache'[m] \in Assets => cache'[m] = cache[m]
  BY <1>1, Distinct DEF HostsInv, TypeOK
<1>3. TypeOK' /\ RequestsInv' /\ TokensInv' /\ VerificationsInv' /\ VerifiedByOwnProof'
  BY <1>1, <1>2 DEF HostsInv, TypeOK, RequestsInv, RequestOK, TokensInv, DomainClaims,
                   VerificationsInv, VerifiedByOwnProof, Held, Active
<1>4. CacheInv'
  BY <1>1, <1>2 DEF HostsInv, CacheInv, Held
<1>5. NothingServedAfterTakedown'
  BY <1>1, <1>2 DEF HostsInv, NothingServedAfterTakedown
<1>6. QED BY <1>1, <1>3, <1>4, <1>5 DEF HostsInv, Stays

LEMMA CoolDownStep ==
  ASSUME HostsInv, NEW n \in Names, CoolDown(n)
  PROVE  HostsInv' /\ Stays
<1> USE NamesAssumption
<1> DEFINE r == [hosts[n] EXCEPT !.released = "served"]
<1>1. /\ hosts[n].released = "cooling" /\ cache[n] \notin Assets
      /\ \A s \in Slots : handler[s].name = n => handler[s].at = "caching" /\ handler[s].to = "gone"
      /\ hosts' = [hosts EXCEPT ![n] = r]
      /\ UNCHANGED <<cache, live, handler, published, issued, overrun, faults>>
  BY Distinct DEF CoolDown, Misses
<1>2. hosts \in [Names -> Rows \cup {NoHost}] /\ (\A m \in Names : RowOK(hosts[m]))
      /\ hosts[n] # NoHost
  BY <1>1 DEF HostsInv, TypeOK, RowOK, Active, NoHost
<1>3. r \in Rows /\ RowOK(r) /\ r.released = "served"
  <2>1. hosts[n] \in Rows /\ hosts[n].asset = NoAsset
    BY <1>1, <1>2 DEF RowOK
  <2>2. r \in Rows /\ r.released = "served" /\ r.asset = NoAsset
    BY <2>1 DEF Rows
  <2>3. QED BY <2>2 DEF RowOK
<1> HIDE DEF r
<1>4. hosts' \in [Names -> Rows \cup {NoHost}] /\ hosts'[n] = r
      /\ \A m \in Names \ {n} : hosts'[m] = hosts[m]
  BY <1>1, <1>2, <1>3
<1>5. TypeOK'
  <2>1. \A m \in Names : RowOK(hosts'[m])
    BY <1>2, <1>3, <1>4
  <2>2. QED BY <1>1, <1>4, <2>1 DEF HostsInv, TypeOK, RowOK, Active
<1>6. RequestsInv' /\ TokensInv'
  BY <1>1 DEF HostsInv, RequestsInv, RequestOK, TokensInv, DomainClaims
<1>7. VerificationsInv'
  <2>1. ASSUME NEW s \in Slots, handler[s].op = "verify"
        PROVE  handler[s].name \in Names \ {n}
    BY <1>1, <2>1 DEF HostsInv, RequestsInv, RequestOK, Idle
  <2>2. QED BY <1>1, <1>4, <2>1 DEF HostsInv, VerificationsInv, Held, Active
<1>8. VerifiedByOwnProof'
  BY <1>1, <1>3, <1>4 DEF HostsInv, VerifiedByOwnProof, Active
<1>9. CacheInv'
  <2>1. Resolution(r, n) = "gone"
    BY <1>3, ResolutionType DEF RowOK
  <2>2. ASSUME NEW s \in Slots, handler[s].op = "resolve"
        PROVE  handler[s].to \in {"late", Resolution(hosts'[handler[s].name], handler[s].name)}
    <3>1. handler[s].name \in Names
      BY <2>2 DEF HostsInv, RequestsInv, RequestOK, Idle
    <3>2. handler[s].to \in {"late", Resolution(hosts[handler[s].name], handler[s].name)}
      BY <2>2 DEF HostsInv, CacheInv
    <3>3. QED BY <1>1, <1>4, <2>1, <3>1, <3>2
  <2>3. ASSUME NEW m \in Names \ overrun, ~(hosts'[m].released \in {"no", "cooling"})
        PROVE  cache[m] \notin Assets
    BY <1>1, <1>4, <2>3 DEF HostsInv, CacheInv, Held
  <2>4. QED BY <1>1, <2>2, <2>3 DEF CacheInv, Held
<1>10. NothingServedAfterTakedown'
  BY <1>1, <1>4 DEF HostsInv, NothingServedAfterTakedown
<1>11. Stays
  BY <1>3, <1>4 DEF Stays
<1>12. QED BY <1>5, <1>6, <1>7, <1>8, <1>9, <1>10, <1>11 DEF HostsInv

LEMMA PublishStep ==
  ASSUME HostsInv, NEW n \in Names, Publish(n)
  PROVE  HostsInv' /\ Stays
<1>1. /\ n \in Custom /\ Active(n)
      /\ published' = published \cup {<<n, hosts[n].token>>}
      /\ UNCHANGED <<hosts, cache, live, handler, issued, overrun, faults>>
  BY DEF Publish
<1>2. hosts[n].token \in 0..MaxTokens
  BY <1>1, ActiveRow DEF Rows
<1>3. TypeOK'
  BY <1>1, <1>2 DEF HostsInv, TypeOK, Active
<1>4. RequestsInv' /\ TokensInv'
  BY <1>1 DEF HostsInv, RequestsInv, RequestOK, TokensInv, DomainClaims
<1>5. VerificationsInv' /\ VerifiedByOwnProof'
  BY <1>1 DEF HostsInv, VerificationsInv, VerifiedByOwnProof, Held, Active
<1>6. CacheInv' /\ NothingServedAfterTakedown'
  BY <1>1 DEF HostsInv, CacheInv, NothingServedAfterTakedown, Held
<1>7. QED BY <1>1, <1>3, <1>4, <1>5, <1>6 DEF HostsInv, Stays

-----------------------------------------------------------------------------
(* The quota *)

\* The claims of a project that have counted and are about to insert.
Inserting(p) == {s \in Slots : At(s, "claim", "inserting") /\ ProjectOf[handler[s].asset] = p}

\* A claim that has counted found a place, so that the last of them to count
\* leaves room for all the others.
QuotaInv ==
  \A p \in Projects :
    /\ IsFiniteSet(ActiveNames(p))
    /\ Cardinality(ActiveNames(p)) + Cardinality(Inserting(p)) <= Quota + Cardinality(Slots) - 1

\* A step that activates no name; one that lets no claim pass the count.
NoneActivated ==
  \A n \in Names : hosts'[n].released = "no" =>
    hosts[n].released = "no" /\ hosts'[n].project = hosts[n].project
NonePassed ==
  \A s \in Slots : handler'[s].op = "claim" /\ handler'[s].at = "inserting" =>
    /\ handler[s].op = "claim" /\ handler[s].at = "inserting"
    /\ handler'[s].asset = handler[s].asset

LEMMA InsertingFinite ==
  ASSUME NEW p \in Projects
  PROVE  /\ IsFiniteSet(Inserting(p)) /\ Cardinality(Inserting(p)) \in Nat
         /\ Cardinality(Inserting(p)) <= Cardinality(Slots)
         /\ IsFiniteSet(Inserting(p)') /\ Cardinality(Inserting(p)') \in Nat
         /\ Cardinality(Inserting(p)') <= Cardinality(Slots)
         /\ Cardinality(Slots) \in Nat
<1>1. Inserting(p) \subseteq Slots /\ Inserting(p)' \subseteq Slots
  BY DEF Inserting
<1>2. QED BY <1>1, BoundsAssumption, FS_Subset, FS_CardinalityType

\* Fewer names and fewer claims fit where more did.
LEMMA QuotaStep ==
  ASSUME QuotaInv, NoneActivated, NonePassed
  PROVE  QuotaInv'
<1> SUFFICES ASSUME NEW p \in Projects
             PROVE  /\ IsFiniteSet(ActiveNames(p)')
                    /\ Cardinality(ActiveNames(p)') + Cardinality(Inserting(p)')
                         <= Quota + Cardinality(Slots) - 1
  BY DEF QuotaInv
<1>1. /\ IsFiniteSet(ActiveNames(p))
      /\ Cardinality(ActiveNames(p)) + Cardinality(Inserting(p)) <= Quota + Cardinality(Slots) - 1
  BY DEF QuotaInv
<1>2. ActiveNames(p)' \subseteq ActiveNames(p)
  BY DEF NoneActivated, ActiveNames, Active
<1>3. Inserting(p)' \subseteq Inserting(p)
  BY DEF NonePassed, Inserting, At
<1>4. /\ IsFiniteSet(ActiveNames(p)')
      /\ Cardinality(ActiveNames(p)') <= Cardinality(ActiveNames(p))
  BY <1>1, <1>2, FS_Subset
<1>5. Cardinality(ActiveNames(p)) \in Nat /\ Cardinality(ActiveNames(p)') \in Nat
  BY <1>1, <1>4, FS_CardinalityType
<1>6. Cardinality(Inserting(p)') <= Cardinality(Inserting(p))
  BY <1>3, InsertingFinite, FS_Subset
<1>7. QED BY <1>1, <1>4, <1>5, <1>6, InsertingFinite, BoundsAssumption

\* A write of rows none of which becomes active, by a request that then inserts nothing.
LEMMA QuotaWrite ==
  ASSUME HostsInv, QuotaInv, NEW s \in Slots, NEW h, NEW rows,
         Write(s, rows, h), h.at # "inserting",
         \A n \in Names : rows[n].released = "no" =>
           hosts[n].released = "no" /\ rows[n].project = hosts[n].project
  PROVE  QuotaInv'
<1>1. NoneActivated
  BY DEF Write, NoneActivated
<1>2. ASSUME NEW t \in Slots, t # s
      PROVE  /\ handler'[t].op = handler[t].op /\ handler'[t].at = handler[t].at
             /\ handler'[t].asset = handler[t].asset
  <2>1. handler[t] \in Requests
    BY DEF HostsInv, TypeOK
  <2>2. handler'[t] = handler[t] \/ handler'[t] = [handler[t] EXCEPT !.to = "late"]
    BY <1>2 DEF Write
  <2>3. QED BY <2>1, <2>2 DEF Requests
<1>3. handler'[s] = h
  BY DEF Write
<1>4. NonePassed
  BY <1>2, <1>3 DEF NonePassed
<1>5. QED BY <1>1, <1>4, QuotaStep

\* A request that goes on to anything but inserting while the table stays.
LEMMA QuotaGo ==
  ASSUME HostsInv, QuotaInv, NEW s \in Slots, NEW h,
         handler' = [handler EXCEPT ![s] = h], h.op = "claim" => h.at # "inserting",
         UNCHANGED hosts
  PROVE  QuotaInv'
<1>1. NoneActivated
  BY DEF NoneActivated
<1>2. NonePassed
  BY DEF NonePassed, HostsInv, TypeOK
<1>3. QED BY <1>1, <1>2, QuotaStep

LEMMA QuotaCount ==
  ASSUME HostsInv, QuotaInv, NEW s \in Slots, ClaimCount(s)
  PROVE  QuotaInv'
<1> DEFINE q == ProjectOf[handler[s].asset]
<1>1. At(s, "claim", "counting") /\ UNCHANGED hosts /\ handler \in [Slots -> Requests]
  BY DEF ClaimCount, HostsInv, TypeOK
<1>2. CASE Cardinality(ActiveNames(q)) >= Quota
  <2>1. handler' = [handler EXCEPT ![s] = Idle] /\ Idle.op # "claim"
    BY <1>2 DEF ClaimCount, Finish, Idle
  <2>2. QED BY <1>1, <2>1, QuotaGo
<1>3. CASE ~(Cardinality(ActiveNames(q)) >= Quota)
  <2>1. handler' = [handler EXCEPT ![s].at = "inserting"]
    BY <1>3 DEF ClaimCount, GoTo
  <2>2. /\ \A t \in Slots \ {s} : handler'[t] = handler[t]
        /\ handler'[s].asset = handler[s].asset
    BY <1>1, <2>1 DEF Requests
  <2> SUFFICES ASSUME NEW p \in Projects
               PROVE  /\ IsFiniteSet(ActiveNames(p)')
                      /\ Cardinality(ActiveNames(p)') + Cardinality(Inserting(p)')
                           <= Quota + Cardinality(Slots) - 1
    BY DEF QuotaInv
  <2>3. ActiveNames(p)' = ActiveNames(p)
    BY <1>1 DEF ActiveNames, Active
  <2>4. /\ IsFiniteSet(ActiveNames(p)) /\ Cardinality(ActiveNames(p)) \in Nat
        /\ Cardinality(ActiveNames(p)) + Cardinality(Inserting(p)) <= Quota + Cardinality(Slots) - 1
    BY FS_CardinalityType DEF QuotaInv
  <2>5. CASE p = q
    <3>1. Cardinality(ActiveNames(p)) <= Quota - 1
      BY <1>3, <2>4, <2>5, BoundsAssumption
    <3>2. QED BY <2>3, <2>4, <3>1, InsertingFinite, BoundsAssumption
  <2>6. CASE p # q
    <3>1. Inserting(p)' = Inserting(p)
      BY <2>2, <2>6 DEF Inserting, At
    <3>2. QED BY <2>3, <2>4, <3>1
  <2>7. QED BY <2>5, <2>6
<1>4. QED BY <1>2, <1>3

\* The claim that inserts a name is one less that is about to.
LEMMA QuotaInsert ==
  ASSUME HostsInv, QuotaInv, NEW s \in Slots, ClaimInsert(s)
  PROVE  QuotaInv'
<1> DEFINE n == handler[s].name
           a == handler[s].asset
           q == ProjectOf[a]
           row == NewRow(a, n, NextToken(n))
           rows == [hosts EXCEPT ![n] = row]
<1>1. At(s, "claim", "inserting") /\ handler \in [Slots -> Requests]
  BY DEF ClaimInsert, HostsInv, TypeOK
<1>2. n \in Names /\ a \in Assets /\ q \in Projects
  BY <1>1, ProjectsAssumption DEF HostsInv, RequestsInv, RequestOK, At, Idle
<1>3. CASE Finish(s) /\ UNCHANGED hosts
  BY <1>3, IdleType, QuotaGo DEF Finish
<1>4. CASE hosts[n] = NoHost /\ Write(s, rows, Dropping({n}))
  <2>1. hosts' = rows /\ hosts \in [Names -> Rows \cup {NoHost}]
    BY <1>4 DEF Write, HostsInv, TypeOK
  <2>2. row.project = q
    BY DEF NewRow
  <2>3. hosts'[n].project = q /\ \A m \in Names \ {n} : hosts'[m] = hosts[m]
    BY <1>2, <2>1, <2>2
  <2>4. Dropping({n}).op # "claim"
    BY DEF Dropping, Idle
  <2>5. handler'[s].op # "claim"
    BY <1>4, <2>4 DEF Write
  <2>6. ASSUME NEW t \in Slots, t # s
        PROVE  /\ handler'[t].op = handler[t].op /\ handler'[t].at = handler[t].at
               /\ handler'[t].asset = handler[t].asset
    <3>1. handler[t] \in Requests
      BY <1>1
    <3>2. handler'[t] = handler[t] \/ handler'[t] = [handler[t] EXCEPT !.to = "late"]
      BY <1>4, <2>6 DEF Write
    <3>3. QED BY <3>1, <3>2 DEF Requests
  <2> SUFFICES ASSUME NEW p \in Projects
               PROVE  /\ IsFiniteSet(ActiveNames(p)')
                      /\ Cardinality(ActiveNames(p)') + Cardinality(Inserting(p)')
                           <= Quota + Cardinality(Slots) - 1
    BY DEF QuotaInv
  <2>7. /\ IsFiniteSet(ActiveNames(p)) /\ Cardinality(ActiveNames(p)) \in Nat
        /\ Cardinality(ActiveNames(p)) + Cardinality(Inserting(p)) <= Quota + Cardinality(Slots) - 1
    BY FS_CardinalityType DEF QuotaInv
  <2>8. Inserting(p)' = Inserting(p) \ {s}
    BY <2>5, <2>6 DEF Inserting, At
  <2>9. CASE p = q
    <3>1. s \in Inserting(p)
      BY <1>1, <2>9 DEF Inserting
    <3>2. Cardinality(Inserting(p)') = Cardinality(Inserting(p)) - 1
      BY <2>8, <3>1, InsertingFinite, FS_RemoveElement
    <3>3. ActiveNames(p)' \subseteq ActiveNames(p) \cup {n}
      BY <2>3 DEF ActiveNames, Active
    <3>4. /\ IsFiniteSet(ActiveNames(p) \cup {n})
          /\ Cardinality(ActiveNames(p) \cup {n}) <= Cardinality(ActiveNames(p)) + 1
      <4>1. /\ IsFiniteSet(ActiveNames(p) \cup {n})
            /\ \/ Cardinality(ActiveNames(p) \cup {n}) = Cardinality(ActiveNames(p))
               \/ Cardinality(ActiveNames(p) \cup {n}) = Cardinality(ActiveNames(p)) + 1
        BY <2>7, FS_AddElement, Zenon
      <4>2. QED BY <2>7, <4>1
    <3>5. /\ IsFiniteSet(ActiveNames(p)')
          /\ Cardinality(ActiveNames(p)') <= Cardinality(ActiveNames(p) \cup {n})
      BY <3>3, <3>4, FS_Subset
    <3>6. /\ Cardinality(ActiveNames(p)') \in Nat
          /\ Cardinality(ActiveNames(p) \cup {n}) \in Nat
      BY <3>4, <3>5, FS_CardinalityType
    <3>7. QED BY <2>7, <3>2, <3>4, <3>5, <3>6, InsertingFinite, BoundsAssumption
  <2>10. CASE p # q
    <3>1. ActiveNames(p)' = ActiveNames(p) \ {n}
      BY <2>3, <2>10 DEF ActiveNames, Active
    <3>2. ActiveNames(p)' = ActiveNames(p)
      BY <1>4, <3>1 DEF ActiveNames, Active, NoHost
    <3>3. Inserting(p)' = Inserting(p)
      BY <2>8, <2>10 DEF Inserting
    <3>4. QED BY <2>7, <3>2, <3>3
  <2>11. QED BY <2>9, <2>10
<1>5. QED BY <1>3, <1>4 DEF ClaimInsert

LEMMA QuotaClaim ==
  ASSUME HostsInv, QuotaInv, NEW s \in Slots, Claim(s)
  PROVE  QuotaInv'
<1>1. ASSUME NEW a \in Assets, NEW n \in Names, ClaimFind(s, a, n)
      PROVE  QuotaInv'
  <2> DEFINE h == [Idle EXCEPT !.op = "claim", !.asset = a, !.name = n,
                               !.at = IF hosts[n] = NoHost THEN "counting" ELSE "removing"]
  <2>1. handler' = [handler EXCEPT ![s] = h] /\ UNCHANGED hosts
    BY <1>1 DEF ClaimFind, Begin
  <2>2. h.at # "inserting"
    BY DEF Idle
  <2>3. QED BY <2>1, <2>2, QuotaGo
<1>2. ASSUME ClaimRemove(s)
      PROVE  QuotaInv'
  <2> DEFINE n == handler[s].name
             rows == [hosts EXCEPT ![n] = NoHost]
             h == [handler[s] EXCEPT !.at = "counting"]
  <2>1. Write(s, rows, h)
    BY <1>2 DEF ClaimRemove
  <2>2. handler[s] \in Requests /\ hosts \in [Names -> Rows \cup {NoHost}]
    BY DEF HostsInv, TypeOK
  <2>3. h.at # "inserting"
    BY <2>2 DEF Requests
  <2>4. NoHost.released # "no"
    BY DEF NoHost
  <2>5. \A m \in Names : rows[m].released = "no" =>
          hosts[m].released = "no" /\ rows[m].project = hosts[m].project
    BY <2>2, <2>4
  <2> HIDE DEF rows, h
  <2>6. QED BY <2>1, <2>3, <2>5, QuotaWrite
<1>3. QED BY <1>1, <1>2, QuotaCount, QuotaInsert DEF Claim

\* Rows are switched, verified, released and purged, and none becomes active.
LEMMA QuotaChange ==
  ASSUME HostsInv, QuotaInv, NEW s \in Slots, Change(s)
  PROVE  QuotaInv'
<1>1. hosts \in [Names -> Rows \cup {NoHost}] /\ handler[s] \in Requests
  BY DEF HostsInv, TypeOK
<1>2. ASSUME NEW op \in {"disable", "enable", "release"}, NEW a \in Assets, NEW n \in Names,
             Find(s, op, a, n)
      PROVE  QuotaInv'
  <2> DEFINE h == [Idle EXCEPT !.op = op, !.at = "writing", !.name = n]
  <2>1. handler' = [handler EXCEPT ![s] = h] /\ UNCHANGED hosts
    BY <1>2 DEF Find, Begin
  <2>2. h.at # "inserting"
    BY DEF Idle
  <2>3. QED BY <2>1, <2>2, QuotaGo
<1>3. ASSUME NEW a \in Assets, NEW n \in Names, VerifyFind(s, a, n)
      PROVE  QuotaInv'
  <2> DEFINE h == [Idle EXCEPT !.op = "verify", !.at = "looking", !.name = n,
                               !.token = hosts[n].token]
  <2>1. handler' = [handler EXCEPT ![s] = h] /\ UNCHANGED hosts
    BY <1>3 DEF VerifyFind, Begin
  <2>2. h.at # "inserting"
    BY DEF Idle
  <2>3. QED BY <2>1, <2>2, QuotaGo
<1>4. ASSUME NEW rows, NEW n,
             Write(s, rows, Dropping({n})),
             \A m \in Names : rows[m].released = "no" =>
               hosts[m].released = "no" /\ rows[m].project = hosts[m].project
      PROVE  QuotaInv'
  <2>1. Dropping({n}).at # "inserting"
    BY DEF Dropping, Idle
  <2>2. QED BY <1>4, <2>1, QuotaWrite
<1>5. ASSUME Switch(s)
      PROVE  QuotaInv'
  <2> DEFINE n == handler[s].name
             rows == IF Active(n)
                     THEN [hosts EXCEPT ![n].disabled = handler[s].op = "disable"]
                     ELSE hosts
  <2>1. Write(s, rows, Dropping({n}))
    BY <1>5 DEF Switch
  <2>2. \A m \in Names : rows[m].released = "no" =>
          hosts[m].released = "no" /\ rows[m].project = hosts[m].project
    BY <1>1 DEF Rows, NoHost
  <2> HIDE DEF rows, n
  <2>3. QED BY <1>4, <2>1, <2>2
<1>6. ASSUME Release(s)
      PROVE  QuotaInv'
  <2> DEFINE n == handler[s].name
             rows == IF Active(n) THEN [hosts EXCEPT ![n] = Released(@)] ELSE hosts
  <2>1. Write(s, rows, Dropping({n}))
    BY <1>6 DEF Release
  <2>2. \A m \in Names : rows[m].released = "no" =>
          hosts[m].released = "no" /\ rows[m].project = hosts[m].project
    BY <1>1 DEF Rows, NoHost, Released
  <2> HIDE DEF rows, n
  <2>3. QED BY <1>4, <2>1, <2>2
<1>7. ASSUME VerifyLookup(s)
      PROVE  QuotaInv'
  <2>1. UNCHANGED hosts
    BY <1>7 DEF VerifyLookup
  <2>2. CASE Finish(s)
    BY <2>1, <2>2, IdleType, QuotaGo DEF Finish
  <2>3. CASE handler' = [handler EXCEPT ![s].at = "writing", ![s].token = 0]
    <3>1. NoneActivated
      BY <2>1 DEF NoneActivated
    <3>2. handler'[s].at = "writing" /\ \A t \in Slots \ {s} : handler'[t] = handler[t]
      BY <2>3 DEF HostsInv, TypeOK, Requests
    <3>3. NonePassed
      BY <3>2 DEF NonePassed
    <3>4. QED BY <3>1, <3>3, QuotaStep
  <2>4. QED BY <1>7, <2>2, <2>3 DEF VerifyLookup
<1>8. ASSUME Verify(s)
      PROVE  QuotaInv'
  <2> DEFINE n == handler[s].name
             rows == IF Active(n) THEN [hosts EXCEPT ![n].verified = TRUE] ELSE hosts
  <2>1. Write(s, rows, Dropping({n}))
    BY <1>8 DEF Verify
  <2>2. \A m \in Names : rows[m].released = "no" =>
          hosts[m].released = "no" /\ rows[m].project = hosts[m].project
    BY <1>1 DEF Rows, NoHost
  <2> HIDE DEF rows, n
  <2>3. QED BY <1>4, <2>1, <2>2
<1>9. QED BY <1>2, <1>3, <1>5, <1>6, <1>7, <1>8 DEF Change

LEMMA QuotaDelete ==
  ASSUME HostsInv, QuotaInv, NEW s \in Slots, Delete(s) \/ Purge(s)
  PROVE  QuotaInv'
<1>1. ASSUME NEW a \in Assets, ReleaseAsset(s, a)
      PROVE  QuotaInv'
  <2> DEFINE ns == AssetNames(a)
             rows == [n \in Names |-> IF n \in ns THEN Released(hosts[n]) ELSE hosts[n]]
             h == [Idle EXCEPT !.op = "delete", !.at = "dropping", !.asset = a, !.drop = ns]
  <2>1. Write(s, rows, h)
    BY <1>1 DEF ReleaseAsset
  <2>2. h.at # "inserting"
    BY DEF Idle
  <2>3. ASSUME NEW n \in Names, n \in ns
        PROVE  Released(hosts[n]).released = "cooling"
    <3>1. hosts[n] \in Rows
      BY <2>3 DEF AssetNames, Active, HostsInv, TypeOK, NoHost
    <3>2. QED BY <3>1 DEF Released, Rows
  <2>4. \A n \in Names : rows[n].released = "no" =>
          hosts[n].released = "no" /\ rows[n].project = hosts[n].project
    BY <2>3
  <2> HIDE DEF rows, h
  <2>5. QED BY <2>1, <2>2, <2>4, QuotaWrite
<1>2. ASSUME DeleteAsset(s)
      PROVE  QuotaInv'
  BY <1>2, IdleType, QuotaGo DEF DeleteAsset, Finish
<1>3. ASSUME Purge(s)
      PROVE  QuotaInv'
  <2> DEFINE ns == {n \in Names : hosts[n].released = "served"}
             rows == [n \in Names |-> IF n \in ns THEN NoHost ELSE hosts[n]]
  <2>1. Write(s, rows, Dropping(ns))
    BY <1>3 DEF Purge
  <2>2. Dropping(ns).at # "inserting"
    BY DEF Dropping, Idle
  <2>3. \A n \in Names : rows[n].released = "no" =>
          hosts[n].released = "no" /\ rows[n].project = hosts[n].project
    BY DEF NoHost
  <2> HIDE DEF rows, ns
  <2>4. QED BY <2>1, <2>2, <2>3, QuotaWrite
<1>4. QED BY <1>1, <1>2, <1>3 DEF Delete

LEMMA QuotaCache ==
  ASSUME HostsInv, QuotaInv, NEW s \in Slots,
         ResolveCache(s) \/ Die(s) \/ \E n \in Names : DropEntry(s, n) \/ ResolveRead(s, n)
  PROVE  QuotaInv'
<1>1. CASE ResolveCache(s) \/ Die(s)
  BY <1>1, IdleType, QuotaGo DEF ResolveCache, Die, Finish
<1>2. ASSUME NEW n \in Names, DropEntry(s, n)
      PROVE  QuotaInv'
  <2> DEFINE h == IF handler[s].op # "delete" /\ handler[s].drop = {n} THEN Idle
                  ELSE [handler[s] EXCEPT !.drop = @ \ {n}]
  <2>1. handler' = [handler EXCEPT ![s] = h] /\ UNCHANGED hosts
    BY <1>2 DEF DropEntry
  <2>2. handler[s] \in Requests /\ handler[s].op # "claim"
    BY <1>2 DEF DropEntry, HostsInv, TypeOK, RequestsInv, RequestOK, Idle
  <2>3. h.op # "claim"
    BY <2>2, IdleType DEF Requests
  <2> HIDE DEF h
  <2>4. QED BY <2>1, <2>3, QuotaGo
<1>3. ASSUME NEW n \in Names, ResolveRead(s, n)
      PROVE  QuotaInv'
  <2> DEFINE h == [Idle EXCEPT !.op = "resolve", !.at = "caching", !.name = n,
                               !.to = Resolution(hosts[n], n)]
  <2>1. handler' = [handler EXCEPT ![s] = h] /\ UNCHANGED hosts
    BY <1>3 DEF ResolveRead
  <2>2. h.at # "inserting"
    BY DEF Idle
  <2> HIDE DEF h
  <2>3. QED BY <2>1, <2>2, QuotaGo
<1>4. QED BY <1>1, <1>2, <1>3

LEMMA QuotaTime ==
  ASSUME HostsInv, QuotaInv, NEW n \in Names, Expire(n) \/ CoolDown(n) \/ Publish(n)
  PROVE  QuotaInv'
<1>1. NonePassed
  BY DEF NonePassed, Expire, CoolDown, Publish
<1>2. CASE Expire(n) \/ Publish(n)
  BY <1>1, <1>2, QuotaStep DEF NoneActivated, Expire, Publish
<1>3. CASE CoolDown(n)
  <2>1. hosts \in [Names -> Rows \cup {NoHost}] /\ hosts' = [hosts EXCEPT ![n].released = "served"]
    BY <1>3 DEF CoolDown, HostsInv, TypeOK
  <2>2. NoneActivated
    BY <2>1 DEF NoneActivated, Rows, NoHost
  <2>3. QED BY <1>1, <2>2, QuotaStep
<1>4. QED BY <1>2, <1>3

LEMMA InitQuota == Init => QuotaInv
<1> SUFFICES ASSUME Init, NEW p \in Projects
             PROVE  /\ IsFiniteSet(ActiveNames(p))
                    /\ Cardinality(ActiveNames(p)) + Cardinality(Inserting(p))
                         <= Quota + Cardinality(Slots) - 1
  BY DEF QuotaInv
<1>1. ActiveNames(p) = {}
  BY DEF Init, ActiveNames, Active, NoHost
<1>2. Inserting(p) = {}
  BY IdleType DEF Init, Inserting, At
<1>3. Cardinality(Slots) \in Nat /\ Cardinality(Slots) # 0
  BY BoundsAssumption, FS_CardinalityType, FS_EmptySet
<1>4. QED BY <1>1, <1>2, <1>3, FS_EmptySet, BoundsAssumption

LEMMA NextQuota == HostsInv /\ QuotaInv /\ [Next]_vars => QuotaInv'
<1> SUFFICES ASSUME HostsInv, QuotaInv, [Next]_vars PROVE QuotaInv'
  OBVIOUS
<1>1. CASE UNCHANGED vars
  BY <1>1, QuotaStep DEF vars, NoneActivated, NonePassed
<1>2. CASE Next
  BY <1>2, QuotaClaim, QuotaChange, QuotaDelete, QuotaCache, QuotaTime DEF Next
<1>3. QED BY <1>1, <1>2

-----------------------------------------------------------------------------
(* The theorems *)

LEMMA InitInv == Init => HostsInv
<1> SUFFICES ASSUME Init PROVE HostsInv
  OBVIOUS
<1>1. NoHost.released = "absent" /\ NoEntry \notin Assets
  BY Distinct DEF NoHost
<1>2. TypeOK
  BY <1>1, BoundsAssumption, IdleType DEF Init, TypeOK, Active
<1>3. DomainClaims = {} /\ TokensInv
  <2>1. DomainClaims = {}
    BY IdleType DEF Init, DomainClaims
  <2>2. QED BY <2>1, FS_EmptySet, BoundsAssumption DEF Init, TokensInv
<1>4. RequestsInv /\ VerificationsInv
  BY IdleType DEF Init, RequestsInv, RequestOK, VerificationsInv
<1>5. VerifiedByOwnProof /\ CacheInv /\ NothingServedAfterTakedown
  BY <1>1, IdleType, NamesAssumption DEF Init, VerifiedByOwnProof, CacheInv,
                                        NothingServedAfterTakedown, Active
<1>6. QED BY <1>2, <1>3, <1>4, <1>5 DEF HostsInv

LEMMA NextInv == HostsInv /\ [Next]_vars => HostsInv' /\ Stays
<1> SUFFICES ASSUME HostsInv, [Next]_vars PROVE HostsInv' /\ Stays
  OBVIOUS
<1>1. ASSUME NEW s \in Slots, Claim(s) PROVE HostsInv' /\ Stays
  BY <1>1, ClaimFindStep, ClaimRemoveStep, ClaimCountStep, ClaimInsertStep DEF Claim
<1>2. ASSUME NEW s \in Slots, Change(s) PROVE HostsInv' /\ Stays
  BY <1>2, FindStep, VerifyFindStep, SwitchStep, ReleaseStep, VerifyLookupStep, VerifyStep
     DEF Change
<1>3. ASSUME NEW s \in Slots, Delete(s) PROVE HostsInv' /\ Stays
  BY <1>3, ReleaseAssetStep, DeleteAssetStep DEF Delete
<1>4. ASSUME NEW s \in Slots, NEW n \in Names, DropEntry(s, n) \/ ResolveRead(s, n)
      PROVE  HostsInv' /\ Stays
  BY <1>4, DropEntryStep, ResolveReadStep
<1>5. ASSUME NEW s \in Slots, Purge(s) \/ ResolveCache(s) \/ Die(s) PROVE HostsInv' /\ Stays
  BY <1>5, PurgeStep, ResolveCacheStep, DieStep
<1>6. ASSUME NEW n \in Names, Expire(n) \/ CoolDown(n) \/ Publish(n) PROVE HostsInv' /\ Stays
  BY <1>6, ExpireStep, CoolDownStep, PublishStep
<1>7. CASE UNCHANGED vars
  <2>1. HostsInv'
    BY <1>7 DEF vars, HostsInv, TypeOK, RequestsInv, RequestOK, TokensInv, DomainClaims,
                VerificationsInv, VerifiedByOwnProof, CacheInv, NothingServedAfterTakedown,
                Held, Active
  <2>2. QED BY <1>7, <2>1 DEF vars, Stays
<1>8. QED BY <1>1, <1>2, <1>3, <1>4, <1>5, <1>6, <1>7 DEF Next

\* HostsInv holds in every reachable state.
THEOREM Invariance == Spec => []HostsInv
BY InitInv, NextInv, PTL DEF Spec

\* Every variable keeps its shape, and a row has an asset exactly while it is
\* active (repository.ts:15, site-hosts.ts:95-113).
THEOREM TypeCorrect == Spec => []TypeOK
<1>1. HostsInv => TypeOK
  BY DEF HostsInv
<1>2. QED BY <1>1, Invariance, PTL

\* A custom domain that counts as verified was proved with its own row's token,
\* whatever was released and claimed again while the lookup was awaited
\* (usecase.ts:308-347).
THEOREM VerifiedByOwnProofHolds == Spec => []VerifiedByOwnProof
<1>1. HostsInv => VerifiedByOwnProof
  BY DEF HostsInv
<1>2. QED BY <1>1, Invariance, PTL

\* After a takedown has dropped the entry, the cache serves what the table says,
\* unless a resolution overlapped or the deletion failed (usecase.ts:50, 211-213).
THEOREM NothingServedHolds == Spec => []NothingServedAfterTakedown
<1>1. HostsInv => NothingServedAfterTakedown
  BY DEF HostsInv
<1>2. QED BY <1>1, Invariance, PTL

\* A released name stays released for its whole cooldown, whatever requests
\* overlap (usecase.ts:238-241).
THEOREM CooldownHeldHolds == Spec => CooldownHeld
<1>1. HostsInv /\ [Next]_vars =>
        [\A n \in Names : hosts[n].released = "cooling" /\ n \notin overrun'
                          => hosts'[n].released \in {"cooling", "served"}]_vars
  BY NextInv DEF Stays
<1>2. QED BY <1>1, Invariance, PTL DEF Spec, CooldownHeld

\* Claims in flight together pass the quota together, and exceed it by no more
\* than their number less one (usecase.ts:132-156).
THEOREM QuotaOvershootHolds == Spec => []QuotaOvershootBounded
<1>1. QuotaInv => QuotaOvershootBounded
  BY DEF QuotaInv, Inserting, QuotaOvershootBounded
<1>2. QED BY <1>1, InitQuota, NextQuota, Invariance, PTL DEF Spec
=============================================================================
