-------------------------- MODULE FileDeliveryProofs --------------------------
(***************************************************************************)
(* What visitors are served, for every set of versions, every content, any *)
(* hosts, rules and visits, and any number of the owner's writes:          *)
(* DeliveryInv is inductive.  It follows what a request has read (who was  *)
(* let in, what its URL names, which rules and which object it found) to   *)
(* the answer and into the cache.  ObjectsInv says what lies under which   *)
(* key, so that whatever is found has a size, and the loop that cuts a     *)
(* range out of a stream is followed chunk by chunk (SlicingExact).        *)
(***************************************************************************)
EXTENDS FileDelivery, SequenceTheorems, WellFoundedInduction, TLAPS

-------------------------------------------------------------------------------
(* Records.                                                                *)

AnswerFields == {"status", "file", "part", "control", "private", "vary", "credentials", "etag", "headers", "location"}
RequestFields == {"at", "visit", "id", "preview", "asset", "version", "hosting", "proof", "path", "rewritten", "file",
                  "etag", "settled", "open", "cached", "answer"}
AssetFields == {"active", "spa", "locked", "hosting"}
InFlight == {"asset", "version", "admit", "look", "reply"}

-------------------------------------------------------------------------------
(* The invariant.                                                          *)

AssetInv ==
  asset # None =>
    DOMAIN asset = AssetFields /\ asset.locked \in BOOLEAN /\ asset.active \in Versions \cup {None}

\* A request is let in without a proof only while the asset is open.
Entered(r) ==
  /\ asset # None /\ ~asset.locked => r.open
  /\ r.at = "version" /\ ~r.asset.locked => r.open
  /\ r.at \in {"look", "reply"} /\ r.proof = "none" => r.open
  /\ r.at \in {"asset", "version", "admit"} => r.proof = "none"
  /\ r.visit.credential = "none" => r.proof = "none"

\* What the host or the ID of a request was resolved to.
Routed(r) ==
  /\ r.visit \in Visits
  /\ r.version \in Versions \cup {None}
  /\ r.at = "version" => r.id = Asset /\ r.asset.active \in Versions \cup {None}
  /\ Moving(r.visit) => r.id \notin Versions \/ r.preview = "latest"
  /\ NamesVersion(r.visit) =>
       r.preview # "no" \/ (r.id \in Versions /\ (r.at # "asset" => r.version = r.id))

\* The URL names version u itself: by its ID, or by its number.
NamesUpload(visit, u) ==
  LET query == SiteHostQuery(visit.host)
      label == SiteHostLabel(visit.host) IN
  \/ query = NoQuery /\ visit.id = u
  \/ /\ query # NoQuery /\ query.form # "custom"
     /\ Len(label) = 1 /\ label[1] \in DOMAIN IdOf /\ IdOf[label[1]] = u
  \/ /\ query # NoQuery /\ query.form # "custom"
     /\ Len(label) # 1 /\ label[1] # "latest" /\ label[1] \in DOMAIN NumberOf
     /\ extraction[u] # "no" /\ (Row(u) => version[u].number = NumberOf[label[1]])

Alive(u) == asset # None /\ Row(u)

\* The forced rule that applies to a path of version u.
Forced(u, path) == SiteRedirect([version |-> u, asset |-> asset, hosting |-> version[u].hosting], path, TRUE)
Harmless(rule, path) == rule.status \in {0, 200} /\ (rule.status = 200 => rule.to = path)

\* The URL leads to this file for as long as its version is there.
Promise(visit, file) ==
  LET u == file.upload IN
  /\ u \in Versions /\ file = [upload |-> u, key |-> Key(u, visit.path)]
  /\ Settled({u, Asset}) /\ NamesUpload(visit, u)
  /\ Alive(u) => <<u, file.key>> \in stored /\ Harmless(Forced(u, visit.path), visit.path)

\* A file with a size: an uploaded one, or an entry of an archive.
HasEntry(file) ==
  /\ file.upload \in Uploads
  /\ file.key = Main \/ (file.upload \in Archive /\ file.key \in DOMAIN Content[file.upload])

\* What a request for a version itself has read is what will be read again.
Vowed(r) ==
  /\ r.at = "asset" /\ r.id \in Versions /\ r.preview # "latest" => NamesUpload(r.visit, r.id)
  /\ r.at \in {"asset", "version", "admit", "look"} => r.file = None
  /\ r.at \in {"admit", "look"} /\ r.settled /\ Pinned(r) =>
       /\ Settled({r.id, Asset}) /\ NamesUpload(r.visit, r.id)
       /\ Alive(r.id) => r.hosting = version[r.id].hosting /\ r.asset.hosting = asset.hosting
  /\ r.at = "reply" /\ r.file # None => HasEntry(r.file)
  /\ r.at = "reply" /\ r.settled /\ Pinned(r) /\ r.file # None /\ r.file.upload \in Versions
     /\ r.path = r.visit.path => Promise(r.visit, r.file)

\* An answer Keep takes for the version's own is promised.
Promised(r, a) ==
  (/\ a.control = "immutable" /\ r.settled /\ a.file # None /\ a.file = r.file
   /\ r.file.upload \in Versions /\ r.path = r.visit.path)
    => Promise(r.visit, r.file)

\* Versions are numbered as they are written.
StoreInv ==
  /\ writes \in Nat
  /\ DOMAIN version = Versions /\ DOMAIN extraction = Uploads
  /\ \A v \in Versions : Row(v) =>
       /\ DOMAIN version[v] = {"number", "hosting"}
       /\ version[v].number \in Nat /\ version[v].number <= writes
       /\ extraction[v] # "no"
  /\ \A v, w \in Versions : Row(v) /\ Row(w) /\ version[v].number = version[w].number => v = w

\* Delivery's own headers, on an answer with a file.
Headed(visit, a) ==
  a.file # None /\ a.status # 404 /\ DetectThumbRequest(visit) = "no" =>
    /\ "cache-control" \notin DOMAIN a.headers
    /\ ~OnSite(visit) /\ ~Entry(a.file).inline => a.headers["content-security-policy"] = "sandbox"
    /\ NamesVersion(visit) => a.headers["x-robots-tag"] = "noindex"

\* The part an answer sends.
Measured(visit, a) ==
  a.file # None /\ a.status = 206 => ExactPart(visit.range, Entry(a.file).size, a.part)

\* An answer to request r, without its Vary and its credentials.
Drafted(r, a) ==
  /\ DOMAIN a = AnswerFields
  /\ a.control = "immutable" => ~Moving(r.visit)
  /\ Headed(r.visit, a)
  /\ Measured(r.visit, a)
  /\ Promised(r, a)
  /\ a.file # None /\ Moving(r.visit) /\ r.visit.credential = "none" => r.open

Sound(r, a) ==
  /\ Drafted(r, a)
  /\ a.file # None /\ Moving(r.visit) /\ a.credentials => r.visit.origin \in TrustedOrigins(r.visit)

RequestInv ==
  \/ request = Idle
  \/ /\ DOMAIN request = RequestFields
     /\ request.at \in InFlight \cup {"answered"}
     /\ request.at \in InFlight => Entered(request) /\ Routed(request) /\ Vowed(request)
     /\ request.at = "answered" => Sound(request, request.answer)

KeptInv ==
  kept # None =>
    /\ DOMAIN kept.answer = AnswerFields
    /\ kept.answer.control = "immutable" => ~Moving(kept.visit)
    /\ Headed(kept.visit, kept.answer)
    /\ kept.answer.status = 200
    /\ kept.own /\ kept.answer.control = "immutable" => Promise(kept.visit, kept.answer.file)

DeliveryInv == AssetInv /\ StoreInv /\ RequestInv /\ KeptInv

\* Only uploads, entries of archives and thumbnails of other files are stored.
ObjectsInv ==
  \A object \in stored :
    /\ object[1] \in Uploads
    /\ \/ object[2] = Main
       \/ object[1] \in Archive /\ object[2] \in DOMAIN Content[object[1]]
       \/ object[1] \notin Archive /\ object[2] = Thumb

ServiceInv == ObjectsInv /\ DeliveryInv

-------------------------------------------------------------------------------
(* Ranges.                                                                 *)

LEMMA LeastNatural ==
  ASSUME NEW T \in SUBSET Nat, T # {}
  PROVE  \E n \in T : \A m \in T : n <= m
<1> DEFINE R == OpToRel(<, Nat)
<1>1. IsWellFoundedOn(R, Nat)
  BY NatLessThanWellFounded
<1>2. PICK n \in T : \A m \in T : ~(<<m, n>> \in R)
  BY <1>1, WFMin
<1>3. \A m \in T : ~(m < n)
  BY <1>2 DEF OpToRel
<1>4. QED BY <1>3

NothingSent == [skipped |-> 0, sent |-> <<>>]
ChunkOf(g, n, ends, offset, want) ==
  IF n = 0 THEN NothingSent
  ELSE SliceChunk(g[n - 1], ends[n] - (IF n = 1 THEN 0 ELSE ends[n - 1]), offset, want)

LEMMA SlicingExists ==
  ASSUME NEW ends, NEW offset, NEW want, NEW N \in Nat
  PROVE  \E g : g = [i \in 0..N |-> ChunkOf(g, i, ends, offset, want)]
<1> DEFINE Ok(n) == \E g : g = [i \in 0..n |-> ChunkOf(g, i, ends, offset, want)]
           bad == {n \in Nat : ~Ok(n)}
<1>1. SUFFICES ASSUME bad # {} PROVE FALSE
  OBVIOUS
<1>2. PICK m \in bad : \A k \in bad : m <= k
  BY <1>1, LeastNatural
<1>3. CASE m = 0
  <2> DEFINE g == [i \in 0..0 |-> NothingSent]
  <2>1. g = [i \in 0..0 |-> ChunkOf(g, i, ends, offset, want)]
    BY DEF ChunkOf
  <2>2. Ok(0)
    BY <2>1
  <2>3. QED BY <1>3, <2>2
<1>4. CASE m # 0
  <2>1. m - 1 \in Nat /\ m - 1 \notin bad
    BY <1>2, <1>4
  <2>2. PICK g : g = [i \in 0..m - 1 |-> ChunkOf(g, i, ends, offset, want)]
    BY <2>1
  <2> DEFINE h == [i \in 0..m |-> IF i = m THEN ChunkOf(g, m, ends, offset, want) ELSE g[i]]
  <2>3. ASSUME NEW i \in 0..m PROVE h[i] = ChunkOf(h, i, ends, offset, want)
    <3>1. i = 0 \/ (i - 1 \in 0..m - 1 /\ h[i - 1] = g[i - 1])
      OBVIOUS
    <3>2. ChunkOf(h, i, ends, offset, want) = ChunkOf(g, i, ends, offset, want)
      <4> HIDE DEF h
      <4>1. QED BY <3>1 DEF ChunkOf
    <3>3. i # m => g[i] = ChunkOf(g, i, ends, offset, want)
      BY <2>2
    <3>4. QED BY <3>2, <3>3
  <2>4. h = [i \in 0..m |-> ChunkOf(h, i, ends, offset, want)]
    <3>1. h = [i \in 0..m |-> h[i]]
      OBVIOUS
    <3> HIDE DEF h
    <3>2. [i \in 0..m |-> h[i]] = [i \in 0..m |-> ChunkOf(h, i, ends, offset, want)]
      BY <2>3
    <3>3. QED BY <3>1, <3>2
  <2>5. Ok(m)
    BY <2>4
  <2>6. QED BY <2>5
<1>5. QED BY <1>3, <1>4

LEMMA SlicingDef ==
  ASSUME NEW ends, NEW offset, NEW want, Len(ends) \in Nat
  PROVE  LET state == Slicing(ends, offset, want) IN
         \A n \in 0..Len(ends) : state[n] = ChunkOf(state, n, ends, offset, want)
<1> DEFINE Is(g) == g = [n \in 0..Len(ends) |-> ChunkOf(g, n, ends, offset, want)]
<1>1. \E g : Is(g)
  BY SlicingExists
<1>2. Slicing(ends, offset, want) = CHOOSE g : Is(g)
  BY DEF Slicing, ChunkOf, NothingSent
<1>3. Is(Slicing(ends, offset, want))
  BY <1>1, <1>2
<1>4. QED BY <1>3

Run(offset, n) == [i \in 1..n |-> offset + i - 1]

LEMMA RunSeq ==
  ASSUME NEW o \in Nat, NEW n \in Nat
  PROVE  Run(o, n) \in Seq(Nat) /\ Len(Run(o, n)) = n
<1>1. Run(o, n) \in [1..n -> Nat]
  BY DEF Run
<1>2. QED BY <1>1 DEF Run

LEMMA RunsJoin ==
  ASSUME NEW o \in Nat, NEW n \in Nat, NEW m \in Nat
  PROVE  Run(o, n) \o Run(o + n, m) = Run(o, n + m)
<1> DEFINE s == Run(o, n)
           t == Run(o + n, m)
           w == Run(o, n + m)
<1>1. s \in Seq(Nat) /\ Len(s) = n /\ t \in Seq(Nat) /\ Len(t) = m /\ w \in Seq(Nat) /\ Len(w) = n + m
  <2>1. o + n \in Nat /\ n + m \in Nat
    OBVIOUS
  <2>2. QED BY <2>1, RunSeq, Zenon
<1>2. \A i \in 1..n : s[i] = o + i - 1
  BY DEF Run
<1>3. \A i \in 1..m : t[i] = o + n + i - 1
  BY DEF Run
<1>4. \A i \in 1..n + m : w[i] = o + i - 1
  BY DEF Run
<1> HIDE DEF s, t, w
<1>5. /\ s \o t \in Seq(Nat) /\ Len(s \o t) = n + m
      /\ \A i \in 1..n + m : (s \o t)[i] = IF i <= n THEN s[i] ELSE t[i - n]
  BY <1>1, ConcatProperties
<1>6. ASSUME NEW i \in 1..n + m PROVE (s \o t)[i] = w[i]
  <2>1. CASE i <= n
    <3>1. (s \o t)[i] = s[i] BY <1>5, <2>1
    <3>2. QED BY <1>2, <1>4, <2>1, <3>1
  <2>2. CASE ~(i <= n)
    <3>1. (s \o t)[i] = t[i - n] BY <1>5, <2>2
    <3>2. i - n \in 1..m BY <2>2
    <3>3. QED BY <1>3, <1>4, <3>1, <3>2
  <2>3. QED BY <2>1, <2>2
<1>7. s \o t = w
  BY <1>1, <1>5, <1>6, SeqEqual
<1>8. QED BY <1>7 DEF s, t, w

\* How much of a part is sent once the stream has come to `at`.
Amount(at, offset, want) == IF at <= offset THEN 0 ELSE IF at - offset < want THEN at - offset ELSE want

Sliced(state, at, offset, want) ==
  /\ DOMAIN state = {"skipped", "sent"}
  /\ state.sent = Run(offset, Amount(at, offset, want))
  /\ Amount(at, offset, want) < want => state.skipped = at

LEMMA SliceChunkExact ==
  ASSUME NEW offset \in Nat, NEW want \in Nat \ {0}, NEW at \in Nat, NEW next \in Nat, at < next,
         NEW state, Sliced(state, at, offset, want)
  PROVE  Sliced(SliceChunk(state, next - at, offset, want), next, offset, want)
<1> DEFINE before == Amount(at, offset, want)
           after == Amount(next, offset, want)
           length == next - at
           new == SliceChunk(state, length, offset, want)
           start == IF offset > state.skipped THEN offset - state.skipped ELSE 0
           end == IF length < start + want - Len(state.sent) THEN length ELSE start + want - Len(state.sent)
<1>1. before \in Nat /\ after \in Nat /\ before <= want
  BY DEF Amount
<1>2. state.sent = Run(offset, before) /\ Len(state.sent) = before
  BY <1>1, RunSeq DEF Sliced
<1>3. CASE before >= want
  <2>1. new = state
    BY <1>2, <1>3 DEF SliceChunk
  <2>2. before = want /\ after = want
    BY <1>1, <1>3 DEF Amount
  <2>3. QED BY <2>1, <2>2 DEF Sliced
<1>4. CASE before < want /\ next <= offset
  <2>1. state.skipped = at
    BY <1>4 DEF Sliced
  <2>2. new = [state EXCEPT !.skipped = next]
    BY <1>2, <1>4, <2>1 DEF SliceChunk
  <2>3. before = 0 /\ after = 0
    BY <1>4 DEF Amount
  <2>4. new.sent = state.sent /\ new.skipped = next /\ DOMAIN new = {"skipped", "sent"}
    BY <2>2 DEF Sliced
  <2>5. QED BY <2>3, <2>4 DEF Sliced
<1>5. CASE before < want /\ next > offset
  <2> DEFINE more == IF next - offset < want THEN next - offset - before ELSE want - before
  <2>1. state.skipped = at
    BY <1>5 DEF Sliced
  <2>2. start \in Nat /\ at + start = offset + before
    BY <1>5, <2>1 DEF Amount
  <2>3. more \in Nat /\ before + more = after
    BY <1>5 DEF Amount
  <2>4. end - start = more
    BY <1>1, <1>2, <1>5, <2>1 DEF Amount
  <2>5. new = [skipped |-> state.skipped + length,
               sent |-> state.sent \o [i \in 1..end - start |-> state.skipped + start + i - 1]]
    BY <1>2, <1>5, <2>1 DEF SliceChunk
  <2> HIDE DEF before, after, start, end, new, more
  <2>6. [i \in 1..end - start |-> state.skipped + start + i - 1] = Run(offset + before, more)
    BY <2>1, <2>2, <2>4 DEF Run
  <2>7. new.sent = Run(offset, after)
    <3>1. new.sent = Run(offset, before) \o Run(offset + before, more)
      BY <1>2, <2>5, <2>6
    <3>2. Run(offset, before) \o Run(offset + before, more) = Run(offset, before + more)
      BY <1>1, <2>3, RunsJoin, ZenonT(40)
    <3>3. QED BY <2>3, <3>1, <3>2
  <2>8. new.skipped = next /\ DOMAIN new = {"skipped", "sent"}
    BY <2>1, <2>5
  <2>9. QED BY <2>7, <2>8 DEF Sliced, after, new
<1>6. QED BY <1>1, <1>3, <1>4, <1>5

\* Where the n-th chunk ends.
EndOf(ends, n) == IF n = 0 THEN 0 ELSE ends[n]

LEMMA ChunkingEnds ==
  ASSUME NEW size \in Nat, NEW ends \in Chunkings(size)
  PROVE  /\ Len(ends) \in Nat /\ EndOf(ends, Len(ends)) = size
         /\ \A n \in 0..Len(ends) : EndOf(ends, n) \in Nat
         /\ \A n \in 1..Len(ends) : EndOf(ends, n - 1) < EndOf(ends, n)
<1>1. PICK n \in 0..size : ends \in [1..n -> 1..size]
  BY DEF Chunkings
<1>2. ends \in Seq(Nat) /\ Len(ends) = n
  BY <1>1
<1>3. \A i \in 1..n : ends[i] \in 1..size
  BY <1>1
<1>4. \A i \in 1..n - 1 : ends[i] < ends[i + 1]
  BY <1>2 DEF Chunkings
<1>5. size # 0 => n # 0 /\ ends[n] = size
  BY <1>2, EmptySeq DEF Chunkings
<1>6. \A i \in 1..n : EndOf(ends, i - 1) < EndOf(ends, i)
  <2> SUFFICES ASSUME NEW i \in 1..n PROVE EndOf(ends, i - 1) < EndOf(ends, i)
    OBVIOUS
  <2>1. CASE i = 1
    BY <1>3, <2>1 DEF EndOf
  <2>2. CASE i # 1
    <3>1. i - 1 \in 1..n - 1 /\ (i - 1) + 1 = i BY <2>2
    <3>2. ends[i - 1] < ends[i] BY <1>4, <3>1
    <3>3. QED BY <2>2, <3>2 DEF EndOf
  <2>3. QED BY <2>1, <2>2
<1>7. QED BY <1>2, <1>3, <1>5, <1>6 DEF EndOf

LEMMA SlicingExact ==
  ASSUME NEW size \in Nat, NEW ends \in Chunkings(size), NEW offset \in Nat, NEW want \in Nat \ {0}
  PROVE  Slicing(ends, offset, want)[Len(ends)].sent = Run(offset, Amount(size, offset, want))
<1> DEFINE state == Slicing(ends, offset, want)
           Good(n) == Sliced(state[n], EndOf(ends, n), offset, want)
           bad == {n \in 0..Len(ends) : ~Good(n)}
<1>1. /\ Len(ends) \in Nat /\ EndOf(ends, Len(ends)) = size
      /\ \A n \in 0..Len(ends) : EndOf(ends, n) \in Nat
      /\ \A n \in 1..Len(ends) : EndOf(ends, n - 1) < EndOf(ends, n)
  BY ChunkingEnds
<1>2. \A n \in 0..Len(ends) : state[n] = ChunkOf(state, n, ends, offset, want)
  BY <1>1, SlicingDef
<1> HIDE DEF state
<1>3. bad = {}
  <2>1. SUFFICES ASSUME bad # {} PROVE FALSE
    OBVIOUS
  <2>2. bad \in SUBSET Nat
    BY <1>1
  <2>3. PICK m \in bad : \A k \in bad : m <= k
    BY <2>1, <2>2, LeastNatural
  <2>4. CASE m = 0
    <3>1. state[0] = [skipped |-> 0, sent |-> <<>>]
      BY <1>1, <1>2 DEF ChunkOf, NothingSent
    <3>2. state[0].skipped = 0 /\ state[0].sent = <<>> /\ DOMAIN state[0] = {"skipped", "sent"}
      BY <3>1
    <3>3. Amount(0, offset, want) = 0 /\ EndOf(ends, 0) = 0
      BY DEF Amount, EndOf
    <3>4. Run(offset, 0) = <<>>
      BY RunSeq, EmptySeq
    <3>5. Good(0)
      BY <3>2, <3>3, <3>4 DEF Sliced
    <3>6. QED BY <2>3, <2>4, <3>5
  <2>5. CASE m # 0
    <3>1. m \in 1..Len(ends) /\ m - 1 \in 0..Len(ends) /\ m - 1 \notin bad
      BY <1>1, <2>3, <2>5
    <3>2. Good(m - 1)
      BY <3>1
    <3>3. state[m] = SliceChunk(state[m - 1], EndOf(ends, m) - EndOf(ends, m - 1), offset, want)
      BY <1>1, <1>2, <3>1 DEF ChunkOf, EndOf
    <3>4. EndOf(ends, m - 1) \in Nat /\ EndOf(ends, m) \in Nat /\ EndOf(ends, m - 1) < EndOf(ends, m)
      BY <1>1, <3>1
    <3>5. Sliced(state[m - 1], EndOf(ends, m - 1), offset, want)
      BY <3>2
    <3>6. Sliced(state[m], EndOf(ends, m), offset, want)
      BY <3>3, <3>4, <3>5, SliceChunkExact
    <3>7. QED BY <2>3, <3>6
  <2>6. QED BY <2>4, <2>5
<1>4. Good(Len(ends))
  BY <1>1, <1>3
<1>5. QED BY <1>1, <1>4 DEF Sliced, state

LEMMA SlicedPartExact ==
  ASSUME NEW range, range.start \in Nat, range.end \in Nat, NEW size \in Nat, NEW total \in {0, size},
         NEW ends \in Chunkings(size)
  PROVE  ExactPart(range, size, SlicedPart(range, total, ends))
<1> DEFINE first == range.start
           length == range.end - first + 1
           last == IF range.end < size THEN range.end ELSE size - 1
           want == IF total # 0 /\ total - first < length THEN total - first ELSE length
           part == SlicedPart(range, total, ends)
           bytes == SliceStream(ends, first, length, total)
<1>1. SUFFICES ASSUME first < size, first <= range.end
               PROVE  /\ part.bytes = Run(first, last - first + 1)
                      /\ part.told => part.first = first /\ part.last = last /\ part.length = Len(part.bytes)
  BY DEF ExactPart, Run
<1>2. want \in Nat \ {0} /\ Amount(size, first, want) = last - first + 1
  BY <1>1 DEF Amount
<1>3. bytes = Slicing(ends, first, want)[Len(ends)].sent
  BY DEF SliceStream
<1>4. bytes = Run(first, last - first + 1)
  <2> HIDE DEF want, last, bytes
  <2>1. QED BY <1>2, <1>3, SlicingExact
<1>5. Len(bytes) = last - first + 1
  <2>1. last - first + 1 \in Nat
    BY <1>1
  <2> HIDE DEF last, bytes
  <2>2. QED BY <1>4, <2>1, RunSeq
<1>6. (IF first + length < total THEN first + length ELSE total) - 1 = last \/ total = 0
  BY <1>1
<1> HIDE DEF bytes
<1>7. part = IF total = 0 THEN [bytes |-> bytes, told |-> FALSE]
             ELSE [bytes |-> bytes, told |-> TRUE, first |-> first, last |-> last, length |-> last - first + 1]
  BY <1>6 DEF SlicedPart, ParseRange, bytes
<1> HIDE DEF part, last
<1>8. part.bytes = bytes /\ (part.told => part.first = first /\ part.last = last /\ part.length = last - first + 1)
  BY <1>7
<1>9. QED BY <1>4, <1>5, <1>8

LEMMA StoredPartExact ==
  ASSUME NEW range, range.start \in Nat, range.end \in Nat, NEW size \in Nat
  PROVE  ExactPart(range, size, StoredPart(range, size))
<1> DEFINE first == range.start
           last == IF range.end < size THEN range.end ELSE size - 1
           part == StoredPart(range, size)
<1>1. SUFFICES ASSUME first < size, first <= range.end
               PROVE  /\ part.bytes = Run(first, last - first + 1)
                      /\ part.told => part.first = first /\ part.last = last /\ part.length = Len(part.bytes)
  BY DEF ExactPart, Run
<1>2. /\ part.first = first /\ part.length = last - first + 1 /\ part.last = last
      /\ part.bytes = Run(first, last - first + 1)
  BY <1>1 DEF StoredPart, ParseRange, Run
<1>3. Len(part.bytes) = last - first + 1
  <2>1. last - first + 1 \in Nat
    BY <1>1
  <2> HIDE DEF last, part
  <2>2. QED BY <1>2, <2>1, RunSeq
<1>4. QED BY <1>2, <1>3

-------------------------------------------------------------------------------
(* Records and hosts.                                                      *)

LEMMA RefusalFields ==
  /\ DOMAIN Refusal = AnswerFields
  /\ Refusal.file = None /\ Refusal.control = "none" /\ Refusal.status = 404 /\ Refusal.headers = <<>>
BY DEF Refusal, AnswerFields

LEMMA NoStoreFields ==
  ASSUME NEW status
  PROVE  /\ DOMAIN NoStore(status) = AnswerFields
         /\ NoStore(status).file = None /\ NoStore(status).control = "no-store"
BY RefusalFields DEF NoStore, AnswerFields

LEMMA IdleFields == Idle.at = "idle"
BY DEF Idle

LEMMA StartedFields ==
  ASSUME NEW visit
  PROVE  LET r == Started(visit) IN
         /\ DOMAIN r = RequestFields /\ r.at = "asset" /\ r.visit = visit /\ r.proof = "none"
         /\ r.id = Resolve(visit).id /\ r.preview = Resolve(visit).preview
         /\ r.open = (asset # None /\ ~asset.locked)
         /\ ~r.settled /\ r.file = None /\ r.version = None
BY DEF Started, RequestFields

-------------------------------------------------------------------------------
(* What the owner and the extraction leave alone of version u.             *)

Stable(u) ==
  /\ extraction[u] # "no" =>
       extraction'[u] # "no" /\ (Row(u)' => Row(u) /\ version'[u].number = version[u].number)
  /\ Settled({u, Asset}) =>
       /\ Settled({u, Asset})'
       /\ Alive(u)' => /\ Alive(u)
                       /\ version'[u].hosting = version[u].hosting /\ asset'.hosting = asset.hosting
                       /\ \A key : <<u, key>> \in stored => <<u, key>> \in stored'
Lasting == \A u \in Versions : Stable(u)

LEMMA Rested ==
  ASSUME UNCHANGED rows
  PROVE  Lasting
BY DEF rows, Lasting, Stable, Settled, Alive, Row

LEMMA SameRule ==
  ASSUME NEW r, NEW q, NEW path, r.version = q.version, r.hosting = q.hosting, r.asset.hosting = q.asset.hosting
  PROVE  SiteRedirect(r, path, TRUE) = SiteRedirect(q, path, TRUE)
BY DEF SiteRedirect, HostingFor

LEMMA ForcedRule ==
  ASSUME NEW r, NEW path, r.hosting = version[r.version].hosting, r.asset.hosting = asset.hosting
  PROVE  Forced(r.version, path) = SiteRedirect(r, path, TRUE)
BY DEF Forced, SiteRedirect, HostingFor

LEMMA NameStays ==
  ASSUME NEW u \in Versions, Stable(u), NEW visit, NamesUpload(visit, u)
  PROVE  NamesUpload(visit, u)'
BY DEF NamesUpload, Stable

LEMMA PromiseStays ==
  ASSUME Lasting, NEW visit, NEW file, Promise(visit, file)
  PROVE  Promise(visit, file)'
<1> DEFINE u == file.upload
<1>1. u \in Versions /\ Stable(u)
  BY DEF Promise, Lasting
<1>2. NamesUpload(visit, u)'
  BY <1>1, NameStays DEF Promise
<1>3. Settled({u, Asset})'
  BY <1>1 DEF Promise, Stable
<1>4. Alive(u)' => /\ Alive(u) /\ Forced(u, visit.path)' = Forced(u, visit.path)
                   /\ <<u, file.key>> \in stored'
  <2> SUFFICES ASSUME Alive(u)' PROVE Alive(u) /\ Forced(u, visit.path)' = Forced(u, visit.path)
                                      /\ <<u, file.key>> \in stored'
    OBVIOUS
  <2>1. /\ Alive(u) /\ version'[u].hosting = version[u].hosting /\ asset'.hosting = asset.hosting
        /\ \A key : <<u, key>> \in stored => <<u, key>> \in stored'
    BY <1>1 DEF Promise, Stable
  <2>2. <<u, file.key>> \in stored'
    BY <2>1 DEF Promise
  <2> DEFINE r == [version |-> u, asset |-> asset, hosting |-> version[u].hosting]
             q == [version |-> u, asset |-> asset', hosting |-> version'[u].hosting]
  <2>3. r.version = q.version /\ r.hosting = q.hosting /\ r.asset.hosting = q.asset.hosting
    BY <2>1
  <2>4. SiteRedirect(r, visit.path, TRUE) = SiteRedirect(q, visit.path, TRUE)
    <3> HIDE DEF r, q
    <3>1. QED BY <2>3, SameRule
  <2>5. QED BY <2>1, <2>2, <2>4 DEF Forced
<1>5. QED BY <1>1, <1>2, <1>3, <1>4 DEF Promise

LEMMA PromiseMoves ==
  ASSUME Lasting, NEW visit, NEW file, Promise(visit, file), kept'.visit = visit, kept'.answer.file = file
  PROVE  Promise(kept.visit, kept.answer.file)'
BY PromiseStays

LEMMA VowStays ==
  ASSUME Lasting, NEW r, Routed(r), Vowed(r)
  PROVE  Vowed(r)'
<1>1. r.at = "asset" /\ r.id \in Versions /\ r.preview # "latest" => NamesUpload(r.visit, r.id)'
  BY NameStays DEF Vowed, Lasting
<1>2. ASSUME r.at \in {"admit", "look"}, r.settled, Pinned(r)
      PROVE  /\ Settled({r.id, Asset})' /\ NamesUpload(r.visit, r.id)'
             /\ Alive(r.id)' => r.hosting = version'[r.id].hosting /\ r.asset.hosting = asset'.hosting
  <2>1. r.id \in Versions /\ Stable(r.id)
    BY <1>2 DEF Lasting, Routed, Pinned
  <2>2. QED BY <1>2, <2>1, NameStays DEF Vowed, Stable
<1>3. Promise(r.visit, r.file) => Promise(r.visit, r.file)'
  BY PromiseStays
<1>4. Pinned(r)' <=> Pinned(r)
  BY DEF Pinned
<1>5. QED BY <1>1, <1>2, <1>3, <1>4 DEF Vowed

-------------------------------------------------------------------------------
(* Answers given.                                                          *)

LEMMA Finished ==
  ASSUME NEW r, DOMAIN r = RequestFields, NEW a, DOMAIN a = AnswerFields, Finish(r, a)
  PROVE  /\ DOMAIN request' = RequestFields
         /\ request'.at = "answered" /\ request'.visit = r.visit /\ request'.open = r.open
         /\ request'.file = r.file /\ request'.path = r.path /\ request'.settled = r.settled
         /\ request'.cached = r.cached
         /\ DOMAIN request'.answer = AnswerFields
         /\ request'.answer.file = a.file /\ request'.answer.control = a.control
         /\ request'.answer.credentials = a.credentials /\ request'.answer.headers = a.headers
         /\ request'.answer.status = a.status /\ request'.answer.part = a.part
BY DEF Finish, RequestFields, AnswerFields

LEMMA FinishSound ==
  ASSUME NEW r, DOMAIN r = RequestFields, NEW a, Sound(r, a), Finish(r, a), UNCHANGED rows
  PROVE  RequestInv'
<1>1. DOMAIN a = AnswerFields
  BY DEF Sound, Drafted
<1>2. /\ DOMAIN request' = RequestFields
      /\ request'.at = "answered" /\ request'.visit = r.visit /\ request'.open = r.open
      /\ DOMAIN request'.answer = AnswerFields
      /\ request'.answer.file = a.file /\ request'.answer.control = a.control
      /\ request'.answer.credentials = a.credentials /\ request'.answer.headers = a.headers
      /\ request'.answer.status = a.status /\ request'.answer.part = a.part
  BY <1>1, Finished
<1>3. /\ request'.file = r.file /\ request'.path = r.path /\ request'.settled = r.settled
  BY <1>1, Finished
<1>4. Promised(request, request.answer)'
  <2>1. Promised(r, a)
    BY DEF Sound, Drafted
  <2>2. SUFFICES ASSUME Promise(r.visit, r.file) PROVE Promise(r.visit, r.file)'
    BY <1>2, <1>3, <2>1 DEF Promised
  <2>3. QED BY <2>2, Rested, PromiseStays
<1>5. Sound(request, request.answer)'
  BY <1>2, <1>4 DEF Sound, Drafted, Headed, Measured, Entry
<1>6. QED BY <1>2, <1>5 DEF RequestInv, InFlight

\* A visit of the same URL.
Alike(v, w) == v.host = w.host /\ v.id = w.id /\ v.path = w.path /\ v.query = w.query

LEMMA SameVisit ==
  ASSUME NEW v, NEW w, Alike(v, w)
  PROVE  /\ Moving(v) = Moving(w) /\ OnSite(v) = OnSite(w) /\ NamesVersion(v) = NamesVersion(w)
         /\ DetectThumbRequest(v) = DetectThumbRequest(w)
<1>1. OnSite(v) = OnSite(w) BY DEF Alike, OnSite
<1>2. NamesVersion(v) = NamesVersion(w) BY DEF Alike, NamesVersion
<1>3. DetectThumbRequest(v) = DetectThumbRequest(w) BY DEF Alike, DetectThumbRequest
<1>4. FollowsLatest(v) = FollowsLatest(w) BY DEF Alike, FollowsLatest
<1>5. QED BY <1>1, <1>2, <1>3, <1>4 DEF Alike, Moving

LEMMA SameUrlVisit ==
  ASSUME NEW visit, SameUrl(visit)
  PROVE  kept # None /\ Alike(kept.visit, visit)
BY DEF SameUrl, Alike

LEMMA LongLabel ==
  ASSUME NEW label \in Seq(STRING), label # <<>>, Len(label) # 1
  PROVE  Len(label) > 1
<1>1. Len(label) \in Nat \ {0} BY EmptySeq
<1>2. \A n \in Nat \ {0} : n # 1 => n > 1 OBVIOUS
<1>3. QED BY <1>1, <1>2

\* No version is pinned for a URL that follows the asset; a host of a version leads to one.
LEMMA Resolved ==
  ASSUME NEW visit \in Visits
  PROVE  /\ Moving(visit) => Resolve(visit).id \notin Versions \/ Resolve(visit).preview = "latest"
         /\ NamesVersion(visit) /\ Resolve(visit).id # None =>
              Resolve(visit).preview # "no" \/ Resolve(visit).id \in Versions
<1> USE DeliveryAssumption DEF Uploads
<1> DEFINE label == SiteHostLabel(visit.host)
           query == SiteHostQuery(visit.host)
<1>1. label \in Seq(STRING) /\ (label # <<>> => OnSite(visit))
  OBVIOUS
<1>2. /\ Nothing.id = None /\ Nothing.preview = "no"
      /\ \A i : [Nothing EXCEPT !.id = i].id = i /\ [Nothing EXCEPT !.id = i].preview = "no"
  BY DEF Nothing
<1>3. NamesVersion(visit) => label # <<>>
  BY <1>1 DEF NamesVersion
<1>4. CASE query = NoQuery
  <2>1. ~OnSite(visit)
    BY <1>4 DEF OnSite
  <2>2. Resolve(visit).id = visit.id
    BY <1>2, <1>4 DEF Resolve
  <2>3. Moving(visit) => visit.id = Asset
    BY <2>1 DEF Moving
  <2>4. ~NamesVersion(visit)
    BY <1>1, <1>3, <2>1
  <2>5. QED BY <2>2, <2>3, <2>4
<1>5. ResolveNamed(visit.host).id \in {Asset, None}
  BY <1>2 DEF ResolveNamed
<1>6. CASE query # NoQuery /\ query.form = "custom"
  <2>1. label = <<>>
    BY <1>6 DEF SiteHostQuery
  <2>2. Resolve(visit) = ResolveNamed(visit.host)
    BY <1>6 DEF Resolve
  <2>3. QED BY <1>3, <1>5, <2>1, <2>2
<1>7. CASE query # NoQuery /\ query.form # "custom"
  <2>1. query.label = label /\ label # <<>>
    BY <1>7 DEF SiteHostQuery
  <2>2. OnSite(visit)
    BY <1>7 DEF OnSite
  <2>3. CASE Len(label) = 1 /\ label[1] \notin DOMAIN IdOf
    <3>1. Resolve(visit) = ResolveNamed(visit.host)
      BY <1>7, <2>1, <2>3 DEF Resolve
    <3>2. ~NamesVersion(visit)
      BY <2>3 DEF NamesVersion
    <3>3. QED BY <1>5, <3>1, <3>2
  <2>4. CASE Len(label) = 1 /\ label[1] \in DOMAIN IdOf
    <3>1. Resolve(visit).id = IdOf[label[1]]
      BY <1>2, <1>7, <2>1, <2>4 DEF Resolve
    <3>2. NamesVersion(visit) <=> IdOf[label[1]] \in Versions
      BY <2>4 DEF NamesVersion
    <3>3. ~FollowsLatest(visit)
      BY <2>4 DEF FollowsLatest
    <3>4. QED BY <2>2, <3>1, <3>2, <3>3 DEF Moving
  <2>5. CASE Len(label) # 1
    <3>1. Len(label) > 1
      BY <1>1, <2>1, <2>5, LongLabel
    <3>2. Resolve(visit) = ResolvePreview(label[1], Tail(label))
      BY <1>7, <2>1, <2>5 DEF Resolve
    <3>3. CASE Resolve(visit) = Nothing
      BY <1>2, <3>3
    <3>4. CASE Resolve(visit) # Nothing
      <4>1. Resolve(visit).preview = IF label[1] = "latest" THEN "latest" ELSE "pinned"
        BY <3>2, <3>4 DEF ResolvePreview
      <4>2. Moving(visit) => label[1] = "latest"
        BY <2>2, <3>1 DEF Moving, NamesVersion, FollowsLatest
      <4>3. QED BY <4>1, <4>2
    <3>5. QED BY <3>3, <3>4
  <2>6. QED BY <2>3, <2>4, <2>5
<1>8. QED BY <1>4, <1>6, <1>7

\* A URL that is resolved to a version, and does not follow the asset, names that version.
LEMMA ResolvedNames ==
  ASSUME StoreInv, NEW visit, Resolve(visit).id \in Versions, Resolve(visit).preview # "latest"
  PROVE  NamesUpload(visit, Resolve(visit).id)
<1> USE DeliveryAssumption DEF Uploads
<1> DEFINE label == SiteHostLabel(visit.host)
           query == SiteHostQuery(visit.host)
           u == Resolve(visit).id
<1>1. /\ Nothing.id = None /\ Nothing.preview = "no"
      /\ \A i : [Nothing EXCEPT !.id = i].id = i /\ [Nothing EXCEPT !.id = i].preview = "no"
  BY DEF Nothing
<1>2. ResolveNamed(visit.host).id \notin Versions
  BY <1>1 DEF ResolveNamed
<1>3. CASE query = NoQuery
  <2>1. u = visit.id
    BY <1>1, <1>3 DEF Resolve
  <2>2. QED BY <1>3, <2>1 DEF NamesUpload
<1>4. CASE query # NoQuery /\ query.form = "custom"
  <2>1. Resolve(visit) = ResolveNamed(visit.host)
    BY <1>4 DEF Resolve
  <2>2. QED BY <1>2, <2>1
<1>5. CASE query # NoQuery /\ query.form # "custom"
  <2>1. query.label = label
    BY <1>5 DEF SiteHostQuery
  <2>2. CASE Len(label) = 1
    <3>1. label[1] \in DOMAIN IdOf
      <4>1. SUFFICES ASSUME label[1] \notin DOMAIN IdOf PROVE FALSE
        OBVIOUS
      <4>2. Resolve(visit) = ResolveNamed(visit.host)
        BY <1>5, <2>1, <2>2, <4>1 DEF Resolve
      <4>3. QED BY <1>2, <4>2
    <3>2. u = IdOf[label[1]]
      BY <1>1, <1>5, <2>1, <2>2, <3>1 DEF Resolve
    <3>3. QED BY <1>5, <2>2, <3>1, <3>2 DEF NamesUpload
  <2>3. CASE Len(label) # 1
    <3>1. Resolve(visit) = ResolvePreview(label[1], Tail(label))
      BY <1>5, <2>1, <2>3 DEF Resolve
    <3>2. /\ label[1] # "latest" /\ label[1] \in DOMAIN NumberOf
          /\ u = Numbered(NumberOf[label[1]])
      BY <1>1, <3>1 DEF ResolvePreview
    <3>3. Row(u) /\ version[u].number = NumberOf[label[1]]
      BY <3>2 DEF Numbered
    <3>4. extraction[u] # "no"
      BY <3>3 DEF StoreInv
    <3>5. QED BY <1>5, <2>3, <3>2, <3>3, <3>4 DEF NamesUpload
  <2>4. QED BY <2>2, <2>3
<1>6. QED BY <1>3, <1>4, <1>5

\* Such a URL is resolved to the version it names, or to nothing.
LEMMA NameResolves ==
  ASSUME StoreInv, NEW visit, NEW u \in Versions, NamesUpload(visit, u), Row(u), Resolve(visit).id # None
  PROVE  Resolve(visit).id = u
<1> DEFINE label == SiteHostLabel(visit.host)
           query == SiteHostQuery(visit.host)
<1>1. /\ Nothing.id = None
      /\ \A i : [Nothing EXCEPT !.id = i].id = i
  BY DEF Nothing
<1>2. CASE query = NoQuery /\ visit.id = u
  BY <1>1, <1>2 DEF Resolve
<1>3. CASE /\ query # NoQuery /\ query.form # "custom"
           /\ Len(label) = 1 /\ label[1] \in DOMAIN IdOf /\ IdOf[label[1]] = u
  <2>1. query.label = label
    BY <1>3 DEF SiteHostQuery
  <2>2. QED BY <1>1, <1>3, <2>1 DEF Resolve
<1>4. CASE /\ query # NoQuery /\ query.form # "custom"
           /\ Len(label) # 1 /\ label[1] # "latest" /\ label[1] \in DOMAIN NumberOf
           /\ version[u].number = NumberOf[label[1]]
  <2>1. query.label = label
    BY <1>4 DEF SiteHostQuery
  <2>2. Resolve(visit) = ResolvePreview(label[1], Tail(label))
    BY <1>4, <2>1 DEF Resolve
  <2>3. Resolve(visit) # Nothing
    BY <1>1
  <2>4. Resolve(visit) = [id |-> Numbered(NumberOf[label[1]]), preview |-> "pinned"]
    BY <1>4, <2>2, <2>3 DEF ResolvePreview
  <2>5. Numbered(NumberOf[label[1]]) = u
    <3>1. \A v \in Versions : Row(v) /\ version[v].number = NumberOf[label[1]] => v = u
      BY <1>4 DEF StoreInv
    <3>2. QED BY <1>4, <3>1 DEF Numbered
  <2>6. QED BY <2>4, <2>5
<1>5. QED BY <1>2, <1>3, <1>4 DEF NamesUpload

-------------------------------------------------------------------------------
(* Answers.                                                                *)

\* A draft without a file.
LEMMA NoFileDrafted ==
  ASSUME NEW r, NEW a, DOMAIN a = AnswerFields, a.file = None, a.control # "immutable"
  PROVE  Drafted(r, a)
BY DEF Drafted, Headed, Measured, Promised

LEMMA CorsSound ==
  ASSUME NEW r, NEW a, NEW proof, Drafted(r, a)
  PROVE  Sound(r, ApplyCors(a, proof, r.visit))
<1> DEFINE b == ApplyCors(a, proof, r.visit)
<1>1. /\ DOMAIN b = AnswerFields /\ b.file = a.file /\ b.control = a.control /\ b.status = a.status
      /\ b.part = a.part
      /\ b.headers = a.headers /\ b.credentials = Credentialed(proof, r.visit)
  BY DEF Drafted, AnswerFields, ApplyCors, AddVary
<1> HIDE DEF b
<1>2. Drafted(r, b)
  BY <1>1 DEF Drafted, Headed, Measured, Promised
<1>3. b.credentials => r.visit.origin \in TrustedOrigins(r.visit)
  BY <1>1 DEF Credentialed
<1>4. Sound(r, b)
  BY <1>2, <1>3 DEF Sound
<1>5. QED BY <1>4 DEF b

LEMMA DecorateSound ==
  ASSUME NEW r, NEW a, Drafted(r, a)
  PROVE  Sound(r, Decorate(r, a))
<1> DEFINE b == AddVary(a, IF r.proof = "none" THEN {} ELSE {"cookie", "authorization"})
<1>1. /\ DOMAIN b = AnswerFields /\ b.file = a.file /\ b.control = a.control /\ b.status = a.status
      /\ b.part = a.part
      /\ b.headers = a.headers
  BY DEF Drafted, AnswerFields, AddVary
<1>2. Drafted(r, b)
  BY <1>1 DEF Drafted, Headed, Measured, Promised
<1>3. Decorate(r, a) = ApplyCors(b, r.proof, r.visit)
  BY DEF Decorate
<1> HIDE DEF b
<1>4. QED BY <1>2, <1>3, CorsSound

LEMMA FinishDecorated ==
  ASSUME NEW r, DOMAIN r = RequestFields, NEW a, Drafted(r, a), Finish(r, Decorate(r, a)), UNCHANGED rows
  PROVE  RequestInv'
BY DecorateSound, FinishSound

LEMMA FinishRefused ==
  ASSUME NEW r, DOMAIN r = RequestFields, NEW a,
         DOMAIN a = AnswerFields, a.file = None, a.control # "immutable",
         Refuse(r, a) \/ Finish(r, a), UNCHANGED rows
  PROVE  RequestInv'
<1>1. Drafted(r, a) BY NoFileDrafted
<1>2. CASE Refuse(r, a)
  BY <1>1, <1>2, CorsSound, FinishSound DEF Refuse
<1>3. CASE Finish(r, a)
  <2>1. Sound(r, a) BY <1>1 DEF Sound
  <2>2. QED BY <1>3, <2>1, FinishSound
<1>4. QED BY <1>2, <1>3

\* Whoever looks up a file under a URL that follows the asset, and has no proof, finds it open.
LEMMA LookOpen ==
  ASSUME RequestInv, request.at \in {"look", "reply"}
  PROVE  /\ DOMAIN request = RequestFields /\ Entered(request) /\ Routed(request) /\ Vowed(request)
         /\ request.visit.credential = "none" => request.open
BY IdleFields DEF RequestInv, InFlight, Entered

LEMMA MovingUnpinned ==
  ASSUME NEW r, Routed(r), Moving(r.visit), r.at # "asset"
  PROVE  ~Pinned(r)
BY DeliveryAssumption DEF Routed, Pinned, Uploads

\* What a file is sent with; the header of a preview outranks any rule.
Ruled(r, a, hosting, path) ==
  LET ruled == ApplySiteHeaders(a, hosting, path, OnSite(r.visit)) IN
  IF OnSite(r.visit) /\ (Pinned(r) \/ r.preview # "no")
  THEN [ruled EXCEPT !.headers = Over(Header("x-robots-tag", "noindex"), @)] ELSE ruled

LEMMA SandboxKept ==
  ASSUME NEW r, Routed(r), r.at # "asset", NEW a, NEW hosting, NEW path,
         DOMAIN a = AnswerFields, a.headers = Disposition(Entry(a.file), OnSite(r.visit)),
         NEW b, b = Ruled(r, a, hosting, path)
  PROVE  /\ DOMAIN b = AnswerFields /\ b.file = a.file /\ b.control = a.control
         /\ b.status = a.status /\ b.part = a.part
         /\ Headed(r.visit, b)
<1> DEFINE site == OnSite(r.visit)
           ruled == ApplySiteHeaders(a, hosting, path, site)
           asked == MatchHeaders(hosting.headers, path)
           allowed == {name \in DOMAIN asked :
                         ~IsDeniedHeader(name, DeniedNow) /\ (site \/ name # "content-security-policy")}
           rules == [name \in allowed |-> asked[name]]
<1>1. /\ DOMAIN ruled = AnswerFields /\ ruled.file = a.file /\ ruled.control = a.control
      /\ ruled.status = a.status /\ ruled.part = a.part
      /\ ruled.headers = Over(rules, a.headers)
  BY DEF ApplySiteHeaders, AnswerFields
<1>2. "cache-control" \notin allowed /\ (~site => "content-security-policy" \notin allowed)
  BY DeliveryAssumption DEF IsDeniedHeader
<1>3. DOMAIN rules = allowed
  OBVIOUS
<1>4. "cache-control" \notin DOMAIN a.headers
      /\ (~site /\ ~Entry(a.file).inline =>
            "content-security-policy" \in DOMAIN a.headers /\ a.headers["content-security-policy"] = "sandbox")
  BY DEF Disposition, Header
<1> HIDE DEF rules, allowed
<1>5. "cache-control" \notin DOMAIN ruled.headers
      /\ (~site /\ ~Entry(a.file).inline => ruled.headers["content-security-policy"] = "sandbox")
  BY <1>1, <1>2, <1>3, <1>4 DEF Over
<1>6. NamesVersion(r.visit) => OnSite(r.visit) /\ (Pinned(r) \/ r.preview # "no")
  <2>1. r.visit \in Visits BY DEF Routed
  <2>2. NamesVersion(r.visit) => SiteHostLabel(r.visit.host) # <<>>
    BY <2>1, DeliveryAssumption, EmptySeq DEF NamesVersion
  <2>3. r.id \in Versions => r.id # None
    BY DeliveryAssumption DEF Uploads
  <2>4. QED BY <2>1, <2>2, <2>3, DeliveryAssumption DEF Routed, Pinned
<1> HIDE DEF ruled
<1>7. CASE site /\ (Pinned(r) \/ r.preview # "no")
  <2>1. b = [ruled EXCEPT !.headers = Over(Header("x-robots-tag", "noindex"), @)]
    BY <1>7 DEF Ruled, ruled
  <2>2. /\ DOMAIN b = AnswerFields /\ b.file = a.file /\ b.control = a.control
        /\ b.status = a.status /\ b.part = a.part
        /\ b.headers = Over(Header("x-robots-tag", "noindex"), ruled.headers)
    BY <1>1, <2>1 DEF AnswerFields
  <2>3. b.headers["x-robots-tag"] = "noindex" /\ "cache-control" \notin DOMAIN b.headers
    BY <1>5, <2>2 DEF Over, Header
  <2>4. QED BY <1>7, <2>2, <2>3 DEF Headed
<1>8. CASE ~(site /\ (Pinned(r) \/ r.preview # "no"))
  <2>1. b = ruled
    BY <1>8 DEF Ruled, ruled
  <2>2. QED BY <1>1, <1>5, <1>6, <1>8, <2>1 DEF Headed
<1>9. QED BY <1>7, <1>8

-------------------------------------------------------------------------------
(* The steps of a request.                                                 *)

LEMMA SendStep ==
  ASSUME RequestInv, request.at = "reply", NEW a, NEW hosting, NEW path,
         \/ a = Refusal
         \/ /\ DOMAIN a = AnswerFields
            /\ a.headers = Disposition(Entry(a.file), OnSite(request.visit))
            /\ a.control = "immutable" => Pinned(request)
            /\ Measured(request.visit, a),
         NEW b, b = Ruled(request, a, hosting, path), Finish(request, Decorate(request, b)),
         UNCHANGED rows
  PROVE  RequestInv'
<1>1. /\ DOMAIN request = RequestFields /\ Entered(request) /\ Routed(request)
      /\ request.visit.credential = "none" => request.open
  BY LookOpen
<1>2. CASE a = Refusal
  <2> DEFINE ruled == ApplySiteHeaders(a, hosting, path, OnSite(request.visit))
  <2>1. DOMAIN ruled = AnswerFields /\ ruled.file = None /\ ruled.control = "none"
    BY <1>2, RefusalFields DEF ApplySiteHeaders, AnswerFields
  <2>2. b = ruled \/ b = [ruled EXCEPT !.headers = Over(Header("x-robots-tag", "noindex"), @)]
    BY DEF Ruled
  <2> HIDE DEF ruled
  <2>3. DOMAIN b = AnswerFields /\ b.file = None /\ b.control = "none"
    BY <2>1, <2>2 DEF AnswerFields
  <2>4. QED BY <1>1, <2>3, NoFileDrafted, FinishDecorated
<1>3. CASE /\ DOMAIN a = AnswerFields
           /\ a.headers = Disposition(Entry(a.file), OnSite(request.visit))
           /\ a.control = "immutable" => Pinned(request)
           /\ Measured(request.visit, a)
  <2>0. request.at # "asset"
    OBVIOUS
  <2>1. /\ DOMAIN b = AnswerFields /\ b.file = a.file /\ b.control = a.control
        /\ b.status = a.status /\ b.part = a.part
        /\ Headed(request.visit, b)
    BY <1>1, <1>3, <2>0, SandboxKept
  <2>2. b.control = "immutable" => ~Moving(request.visit)
    BY <1>1, <1>3, <2>1, MovingUnpinned
  <2>3. Promised(request, b)
    <3>1. Vowed(request)
      BY LookOpen
    <3>2. QED BY <1>3, <2>1, <3>1 DEF Promised, Vowed
  <2>4. Drafted(request, b)
    BY <1>1, <1>3, <2>1, <2>2, <2>3 DEF Drafted, Measured
  <2>5. QED BY <1>1, <2>4, FinishDecorated
<1>4. QED BY <1>2, <1>3

LEMMA CommonFields ==
  ASSUME NEW r, NEW file
  PROVE  LET c == Common(r, file) IN
         /\ DOMAIN c = AnswerFields /\ c.file = file /\ c.status = 200
         /\ c.headers = Disposition(Entry(file), OnSite(r.visit))
         /\ c.control = "immutable" => Pinned(r)
<1> DEFINE policy == CacheControlFor(Pinned(r), r.proof # "none")
<1>1. policy.control = IF Pinned(r) THEN "immutable" ELSE "revalidate"
  BY DEF CacheControlFor
<1> HIDE DEF policy
<1>2. Common(r, file) =
        [Refusal EXCEPT !.status = 200, !.file = file,
           !.etag = RepresentationEtag(Entry(file).bytes, Entry(file).gzip),
           !.headers = Disposition(Entry(file), OnSite(r.visit)),
           !.control = policy.control, !.private = policy.private]
  BY DEF Common, policy
<1>3. QED BY <1>1, <1>2, RefusalFields DEF AnswerFields

\* The body of a range is the range.
LEMMA BodiesExact ==
  ASSUME NEW visit \in Visits, NEW file, HasEntry(file), NEW body \in Bodies(file, visit.range), body.status = 206
  PROVE  ExactPart(visit.range, Entry(file).size, body.part)
<1> DEFINE range == visit.range
           size == Entry(file).size
<1>1. size \in Nat
  BY DeliveryAssumption DEF HasEntry, Entry
<1>2. range.start \in Nat /\ range.end \in Nat
  BY DeliveryAssumption
<1>3. DecodedSize(file) \in {0, size}
  BY DEF DecodedSize
<1>4. \/ \E ends \in Chunkings(size) : body.part = SlicedPart(range, DecodedSize(file), ends)
      \/ body.part = StoredPart(range, size)
  BY DEF Bodies
<1> HIDE DEF size, range
<1>5. ASSUME NEW ends \in Chunkings(size) PROVE ExactPart(range, size, SlicedPart(range, DecodedSize(file), ends))
  BY <1>1, <1>2, <1>3, SlicedPartExact
<1>6. ExactPart(range, size, StoredPart(range, size))
  BY <1>1, <1>2, StoredPartExact
<1>7. QED BY <1>4, <1>5, <1>6 DEF size, range

LEMMA ServeFileStep ==
  ASSUME RequestInv, request.at = "reply", NEW file, HasEntry(file), NEW path, ServeFile(request, file, path),
         UNCHANGED rows
  PROVE  RequestInv'
<1> DEFINE common == Common(request, file)
           hosting == IF ArchiveLayouts(request.version) = <<>> THEN NoHosting ELSE HostingFor(request)
           Sent(a) == Ruled(request, a, hosting, path)
<1>1. /\ DOMAIN common = AnswerFields /\ common.file = file /\ common.status = 200
      /\ common.headers = Disposition(Entry(file), OnSite(request.visit))
      /\ common.control = "immutable" => Pinned(request)
  BY CommonFields
<1>2. ASSUME NEW a, Finish(request, Decorate(request, Sent(a))),
             \/ a = Refusal
             \/ /\ DOMAIN a = AnswerFields
                /\ a.headers = Disposition(Entry(a.file), OnSite(request.visit))
                /\ a.control = "immutable" => Pinned(request)
                /\ Measured(request.visit, a)
      PROVE  RequestInv'
  BY <1>2, SendStep
<1>3. \/ Finish(request, Decorate(request, Sent([common EXCEPT !.status = 304])))
      \/ \E body \in Bodies(file, request.visit.range) :
           Finish(request, Decorate(request, Sent(IF body.status = 404 THEN Refusal
                     ELSE [common EXCEPT !.status = body.status, !.part = body.part])))
  BY DEF ServeFile, Ruled
<1> HIDE DEF common, Sent
<1>4. CASE Finish(request, Decorate(request, Sent([common EXCEPT !.status = 304])))
  <2> DEFINE a == [common EXCEPT !.status = 304]
  <2>1. /\ DOMAIN a = AnswerFields /\ a.file = file /\ a.headers = common.headers /\ a.control = common.control
        /\ a.status = 304
    BY <1>1 DEF AnswerFields
  <2> HIDE DEF a
  <2>2. Finish(request, Decorate(request, Sent(a)))
    BY <1>4 DEF a
  <2>3. Measured(request.visit, a)
    BY <2>1 DEF Measured
  <2>4. QED BY <1>1, <1>2, <2>1, <2>2, <2>3
<1>5. ASSUME NEW body \in Bodies(file, request.visit.range),
             Finish(request, Decorate(request, Sent(IF body.status = 404 THEN Refusal
               ELSE [common EXCEPT !.status = body.status, !.part = body.part])))
      PROVE  RequestInv'
  <2>1. CASE body.status = 404
    BY <1>2, <1>5, <2>1
  <2>2. CASE body.status # 404
    <3> DEFINE a == [common EXCEPT !.status = body.status, !.part = body.part]
    <3>1. /\ DOMAIN a = AnswerFields /\ a.file = file /\ a.headers = common.headers /\ a.control = common.control
          /\ a.status = body.status /\ a.part = body.part
      BY <1>1 DEF AnswerFields
    <3> HIDE DEF a
    <3>2. Finish(request, Decorate(request, Sent(a)))
      BY <1>5, <2>2 DEF a
    <3>3. request.visit \in Visits
      BY LookOpen DEF Routed
    <3>4. Measured(request.visit, a)
      <4>1. ASSUME NEW visit \in Visits, visit = request.visit, body.status = 206
            PROVE  ExactPart(visit.range, Entry(file).size, body.part)
        BY <1>5, <4>1, BodiesExact
      <4>2. QED BY <3>1, <3>3, <4>1 DEF Measured
    <3>5. QED BY <1>1, <1>2, <3>1, <3>2, <3>4
  <2>3. QED BY <2>1, <2>2
<1>6. QED BY <1>3, <1>4, <1>5

LEMMA RedirectStep ==
  ASSUME NEW r, DOMAIN r = RequestFields, NEW rule, Finish(r, RedirectAnswer(r, rule)), UNCHANGED rows
  PROVE  RequestInv'
<1> DEFINE control == IF r.proof # "none" \/ rule.status \in {302, 307} THEN "no-store" ELSE "revalidate"
           a == [Refusal EXCEPT !.status = rule.status, !.location = Prefix(r.id) \o rule.to, !.control = control]
<1>1. control # "immutable"
  OBVIOUS
<1>2. RedirectAnswer(r, rule) = Decorate(r, a)
  BY DEF RedirectAnswer
<1> HIDE DEF control
<1>3. DOMAIN a = AnswerFields /\ a.file = None /\ a.control = control
  BY RefusalFields DEF AnswerFields
<1> HIDE DEF a
<1>4. QED BY <1>1, <1>2, <1>3, NoFileDrafted, FinishDecorated

LEMMA RefusalStep ==
  ASSUME NEW r, DOMAIN r = RequestFields, Finish(r, Decorate(r, Refusal)), UNCHANGED rows
  PROVE  RequestInv'
<1>1. Drafted(r, Refusal) BY RefusalFields, NoFileDrafted
<1>2. QED BY <1>1, FinishDecorated

LEMMA NotFoundStep ==
  ASSUME RequestInv, request.at = "reply", NEW file, NEW path,
         Finish(request, Decorate(request, NotFoundAnswer(request, file, path))), UNCHANGED rows
  PROVE  RequestInv'
<1> DEFINE a == [Refusal EXCEPT !.control = "no-store", !.file = file,
                                !.headers = Disposition(Entry(file), OnSite(request.visit))]
           b == NotFoundAnswer(request, file, path)
<1>1. DOMAIN a = AnswerFields /\ a.file = file /\ a.control = "no-store" /\ a.status = 404
  BY RefusalFields DEF AnswerFields
<1>2. b = ApplySiteHeaders(a, HostingFor(request), path, OnSite(request.visit))
  BY DEF NotFoundAnswer
<1> HIDE DEF a
<1>3. DOMAIN b = AnswerFields /\ b.control = "no-store" /\ b.status = 404
  BY <1>1, <1>2 DEF ApplySiteHeaders, AnswerFields
<1> HIDE DEF b
<1>4. /\ DOMAIN request = RequestFields
      /\ request.visit.credential = "none" => request.open
  BY LookOpen
<1>5. Drafted(request, b)
  BY <1>3, <1>4 DEF Drafted, Headed, Measured, Promised
<1>6. QED BY <1>4, <1>5, FinishDecorated DEF b

\* Whatever is located has an entry.
LEMMA LocatedEntry ==
  ASSUME ObjectsInv, NEW layouts \in Seq(Uploads), NEW path, LocateIn(layouts, path) # None
  PROVE  HasEntry(LocateIn(layouts, path))
<1> DEFINE holders == {i \in DOMAIN layouts : <<layouts[i], Key(layouts[i], path)>> \in stored}
           u == layouts[Min(holders)]
           file == [upload |-> u, key |-> Key(u, path)]
<1>1. holders # {} /\ LocateIn(layouts, path) = file
  BY DEF LocateIn
<1>2. Min(holders) \in holders
  <2>1. holders \in SUBSET Nat
    OBVIOUS
  <2>2. PICK i \in holders : \A j \in holders : i <= j
    BY <1>1, <2>1, LeastNatural
  <2>3. QED BY <2>2 DEF Min
<1>3. <<u, Key(u, path)>> \in stored
  BY <1>2
<1> HIDE DEF u
<1>4. /\ u \in Uploads
      /\ \/ Key(u, path) = Main
         \/ u \in Archive /\ Key(u, path) \in DOMAIN Content[u]
         \/ u \notin Archive
  BY <1>3 DEF ObjectsInv
<1>5. u \notin Archive => Key(u, path) = Main
  BY DEF Key
<1>6. HasEntry(file)
  BY <1>4, <1>5 DEF HasEntry
<1>7. QED BY <1>1, <1>6

LEMMA LayoutsType ==
  ASSUME NEW v \in Versions \cup {None}
  PROVE  Layouts(v) \in Seq(Uploads) /\ ArchiveLayouts(v) \in Seq(Uploads)
<1>1. v # None => v \in Uploads
  BY DEF Uploads
<1>2. Asset \in Uploads
  BY DEF Uploads
<1>3. QED BY <1>1, <1>2 DEF Layouts, ArchiveLayouts

LEMMA FallbackStep ==
  ASSUME ObjectsInv, RequestInv, request.at = "reply", NEW path, Fallback(request, path), UNCHANGED rows
  PROVE  RequestInv'
<1>1. DOMAIN request = RequestFields BY LookOpen
<1>2. \/ \E file : HasEntry(file) /\ ServeFile(request, file, path)
      \/ Finish(request, Decorate(request, Refusal))
      \/ \E file : Finish(request, Decorate(request, NotFoundAnswer(request, file, path)))
  <2>1. request.version \in Versions \cup {None}
    BY LookOpen DEF Routed
  <2> DEFINE index == LocateRootFile(request.version, <<Index>>)
  <2>2. index # None => HasEntry(index)
    BY <2>1, LayoutsType, LocatedEntry DEF LocateRootFile
  <2> HIDE DEF index
  <2>3. \/ index # None /\ ServeFile(request, index, path)
        \/ Finish(request, Decorate(request, Refusal))
        \/ \E file : Finish(request, Decorate(request, NotFoundAnswer(request, file, path)))
    BY DEF Fallback, index
  <2>4. QED BY <2>2, <2>3
<1>3. QED BY <1>1, <1>2, ServeFileStep, RefusalStep, NotFoundStep

LEMMA ReplyStep ==
  ASSUME ObjectsInv, RequestInv, Reply
  PROVE  RequestInv'
<1>1. request.at = "reply" /\ DOMAIN request = RequestFields /\ UNCHANGED rows
  BY LookOpen DEF Reply
<1> DEFINE plain == IF request.file = None THEN SiteRedirect(request, request.path, FALSE) ELSE NoRule
           rewrites == plain.status = 200 /\ ~request.rewritten
           to == IF rewrites THEN plain.to ELSE request.path
           found == IF rewrites THEN Locate(request.version, to) ELSE request.file
           slashed == Prefix(request.id) \o Append(request.visit.path, "")
<1>2. \/ Finish(request, RedirectAnswer(request, plain))
      \/ found # None /\ ServeFile(request, found, to)
      \/ Finish(request, Decorate(request, [Refusal EXCEPT !.status = 301, !.location = slashed]))
      \/ Fallback(request, to)
  BY DEF Reply
<1>5. found # None => HasEntry(found)
  <2>1. request.version \in Versions \cup {None} /\ Vowed(request)
    BY LookOpen, <1>1 DEF Routed
  <2>2. request.file # None => HasEntry(request.file)
    BY <1>1, <2>1 DEF Vowed
  <2>3. \A path : Locate(request.version, path) # None => HasEntry(Locate(request.version, path))
    BY <2>1, LayoutsType, LocatedEntry DEF Locate
  <2> HIDE DEF plain, rewrites, to
  <2>4. found = request.file \/ found = Locate(request.version, to)
    OBVIOUS
  <2> HIDE DEF found
  <2>5. QED BY <2>2, <2>3, <2>4
<1> HIDE DEF plain, rewrites, to, found, slashed
<1>3. ASSUME NEW path, Finish(request, Decorate(request, [Refusal EXCEPT !.status = 301, !.location = path]))
      PROVE  RequestInv'
  <2> DEFINE a == [Refusal EXCEPT !.status = 301, !.location = path]
  <2>1. DOMAIN a = AnswerFields /\ a.file = None /\ a.control = "none"
    <3>1. DOMAIN Refusal = AnswerFields /\ Refusal.file = None /\ Refusal.control = "none"
      BY RefusalFields
    <3>2. DOMAIN a = DOMAIN Refusal
      OBVIOUS
    <3>3. {"file", "control"} \subseteq AnswerFields
      BY DEF AnswerFields
    <3>4. QED BY <3>1, <3>2, <3>3
  <2>2. Finish(request, Decorate(request, a))
    BY <1>3
  <2> HIDE DEF a
  <2>3. QED BY <1>1, <2>1, <2>2, NoFileDrafted, FinishDecorated
<1>4. QED BY <1>1, <1>2, <1>3, <1>5, RedirectStep, ServeFileStep, FallbackStep

LEMMA ThumbnailStep ==
  ASSUME RequestInv, request.at = "look", DetectThumbRequest(request.visit) = "size",
         Finish(request, Decorate(request, ThumbnailAnswer(request))), UNCHANGED rows
  PROVE  RequestInv'
<1> DEFINE a == ThumbnailAnswer(request)
<1>1. DOMAIN a = AnswerFields /\ a.status \in {200, 404}
  BY RefusalFields DEF ThumbnailAnswer, AnswerFields
<1> HIDE DEF a
<1>2. ~Moving(request.visit)
  BY DEF Moving
<1>3. request.file = None
  BY LookOpen DEF Vowed
<1>4. Drafted(request, a)
  BY <1>1, <1>2, <1>3 DEF Drafted, Headed, Measured, Promised
<1>5. QED BY <1>4, LookOpen, FinishDecorated DEF a

\* A request that goes on.
LEMMA OnwardStep ==
  ASSUME NEW r, DOMAIN r = RequestFields, r.at \in InFlight, Entered(r), Routed(r), Vowed(r),
         request' = r, UNCHANGED rows
  PROVE  RequestInv'
<1>1. Entered(request)'
  BY DEF Entered, rows
<1>2. Routed(request)'
  BY DEF Routed
<1>3. Vowed(request)'
  BY Rested, VowStays
<1>4. request'.at # "answered"
  BY DEF InFlight
<1>5. QED BY <1>1, <1>2, <1>3, <1>4 DEF RequestInv

LEMMA LocateVersion ==
  ASSUME NEW v \in Versions, NEW path
  PROVE  LET f == Locate(v, path)
             object == <<v, Key(v, path)>>
         IN /\ object \in stored => f = [upload |-> v, key |-> Key(v, path)]
            /\ f # None /\ f.upload \in Versions => object \in stored /\ f = [upload |-> v, key |-> Key(v, path)]
<1> DEFINE layouts == <<v, Asset>>
           holders == {i \in DOMAIN layouts : <<layouts[i], Key(layouts[i], path)>> \in stored}
<1>1. Layouts(v) = layouts /\ v # Asset
  BY DeliveryAssumption DEF Layouts, Uploads
<1>2. Locate(v, path) = IF holders = {} THEN None
                        ELSE [upload |-> layouts[Min(holders)], key |-> Key(layouts[Min(holders)], path)]
  BY <1>1 DEF Locate, LocateIn
<1>3. DOMAIN layouts = {1, 2} /\ layouts[1] = v /\ layouts[2] = Asset
  OBVIOUS
<1> HIDE DEF layouts
<1>4. 1 \in holders <=> <<v, Key(v, path)>> \in stored
  BY <1>3
<1>5. holders \subseteq {1, 2}
  BY <1>3
<1> HIDE DEF holders
<1>6. ASSUME 1 \in holders PROVE Min(holders) = 1
  <2>1. \A x \in holders : 1 <= x
    BY <1>5
  <2>2. \A x \in holders : (\A y \in holders : x <= y) => x = 1
    BY <1>5, <1>6
  <2>3. QED BY <1>6, <2>1, <2>2 DEF Min
<1>7. 1 \notin holders => holders = {} \/ holders = {2}
  BY <1>5
<1>8. Min({2}) = 2
  BY DEF Min
<1>9. CASE 1 \in holders
  <2>1. Locate(v, path) = [upload |-> v, key |-> Key(v, path)]
    BY <1>2, <1>3, <1>6, <1>9
  <2>2. QED BY <1>4, <1>9, <2>1
<1>10. CASE 1 \notin holders
  <2>1. Locate(v, path) = None \/ Locate(v, path).upload = Asset
    BY <1>2, <1>3, <1>7, <1>8, <1>10
  <2>2. QED BY <1>4, <1>10, <2>1, DeliveryAssumption
<1>11. QED BY <1>9, <1>10

\* What is looked up once nothing more is to come is what will be looked up.
LEMMA LookupPromise ==
  ASSUME NEW r, Routed(r), Vowed(r), r.at = "look", r.settled, Pinned(r),
         Lookup(r).rule.status \in {0, 200}, Lookup(r).path = r.visit.path,
         Lookup(r).file # None, Lookup(r).file.upload \in Versions
  PROVE  Promise(r.visit, Lookup(r).file)
<1> DEFINE v == r.version
           path == r.visit.path
           forced == SiteRedirect(r, path, TRUE)
<1>1. v \in Versions /\ r.id = v
  BY DEF Routed, Pinned
<1>2. Settled({v, Asset}) /\ NamesUpload(r.visit, v)
      /\ (Alive(v) => r.hosting = version[v].hosting /\ r.asset.hosting = asset.hosting)
  BY <1>1 DEF Vowed
<1>3. /\ Lookup(r).rule = forced
      /\ Lookup(r).path = IF forced.status = 200 THEN forced.to ELSE path
      /\ Lookup(r).file = Locate(v, Lookup(r).path)
  BY DEF Lookup
<1>4. Harmless(forced, path)
  BY <1>3 DEF Harmless
<1>5. /\ <<v, Key(v, path)>> \in stored
      /\ Lookup(r).file = [upload |-> v, key |-> Key(v, path)]
  <2>1. Lookup(r).file = Locate(v, path)
    BY <1>3
  <2>2. Locate(v, path) # None /\ Locate(v, path).upload \in Versions
    BY <2>1
  <2> HIDE DEF v, path
  <2>3. QED BY <1>1, <2>1, <2>2, LocateVersion
<1>6. ASSUME Alive(v) PROVE Forced(v, path) = forced
  <2>1. r.hosting = version[r.version].hosting /\ r.asset.hosting = asset.hosting
    BY <1>2, <1>6
  <2> HIDE DEF v, path, forced
  <2>2. Forced(r.version, path) = SiteRedirect(r, path, TRUE)
    BY <2>1 DEF Forced, SiteRedirect, HostingFor
  <2>3. QED BY <2>2 DEF v, forced
<1> HIDE DEF v, path, forced
<1>7. Lookup(r).file.upload = v /\ Lookup(r).file.key = Key(v, path)
  BY <1>5
<1>8. QED BY <1>1, <1>2, <1>4, <1>5, <1>6, <1>7 DEF Promise, path

LEMMA LookStep ==
  ASSUME ObjectsInv, RequestInv, Look
  PROVE  RequestInv'
<1> DEFINE found == Lookup(request)
<1>1. /\ request.at = "look" /\ DOMAIN request = RequestFields /\ Entered(request) /\ Routed(request)
      /\ Vowed(request) /\ UNCHANGED rows
  BY LookOpen DEF Look
<1>2. \/ /\ DetectThumbRequest(request.visit) = "size"
         /\ Finish(request, Decorate(request, ThumbnailAnswer(request)))
      \/ Finish(request, Decorate(request, Refusal))
      \/ Finish(request, RedirectAnswer(request, found.rule))
      \/ /\ found.rule.status \in {0, 200}
         /\ request' = [request EXCEPT !.at = "reply", !.path = found.path, !.file = found.file,
                                       !.rewritten = found.rule.status = 200]
  BY DEF Look
<1>4. ASSUME request.settled, Pinned(request), found.rule.status \in {0, 200}, found.path = request.visit.path,
             found.file # None, found.file.upload \in Versions
      PROVE  Promise(request.visit, found.file)
  BY <1>1, <1>4, LookupPromise
<1>6. found.file # None => HasEntry(found.file)
  <2>1. found.file = Locate(request.version, found.path) /\ request.version \in Versions \cup {None}
    BY <1>1 DEF Lookup, Routed
  <2> HIDE DEF found
  <2>2. QED BY <2>1, LayoutsType, LocatedEntry DEF Locate
<1> HIDE DEF found
<1>3. CASE /\ found.rule.status \in {0, 200}
           /\ request' = [request EXCEPT !.at = "reply", !.path = found.path, !.file = found.file,
                                         !.rewritten = found.rule.status = 200]
  <2>1. /\ DOMAIN request' = RequestFields /\ request'.at = "reply" /\ request'.visit = request.visit
        /\ request'.open = request.open /\ request'.proof = request.proof /\ request'.id = request.id
        /\ request'.preview = request.preview /\ request'.version = request.version
        /\ request'.settled = request.settled /\ request'.path = found.path /\ request'.file = found.file
    BY <1>1, <1>3 DEF RequestFields
  <2>2. Vowed(request')
    BY <1>3, <1>4, <1>6, <2>1 DEF Vowed, Pinned
  <2>3. Entered(request')
    BY <1>1, <2>1 DEF Entered
  <2>4. Routed(request')
    BY <1>1, <2>1 DEF Routed
  <2>5. QED BY <1>1, <2>1, <2>2, <2>3, <2>4, OnwardStep DEF InFlight
<1>5. QED BY <1>1, <1>2, <1>3, ThumbnailStep, RefusalStep, RedirectStep

LEMMA FindAssetStep ==
  ASSUME RequestInv, AssetInv, FindAsset
  PROVE  RequestInv'
<1>1. /\ request.at = "asset" /\ DOMAIN request = RequestFields /\ Entered(request) /\ Routed(request)
      /\ UNCHANGED asset
  BY IdleFields DEF FindAsset, RequestInv, InFlight, rows
<1>0. Vowed(request) /\ UNCHANGED rows
  BY <1>1, IdleFields DEF FindAsset, RequestInv, InFlight
<1>2. CASE /\ request.id = Asset /\ asset # None
           /\ request' = [request EXCEPT !.at = "version", !.asset = asset]
  <2>1. /\ DOMAIN request' = RequestFields /\ request'.at = "version" /\ request'.visit = request.visit
        /\ request'.asset = asset
        /\ request'.open = request.open /\ request'.proof = request.proof /\ request'.id = request.id
        /\ request'.preview = request.preview /\ request'.version = request.version
        /\ request'.file = request.file
    BY <1>1, <1>2 DEF RequestFields
  <2>2. Entered(request')
    BY <1>1, <1>2, <2>1 DEF Entered
  <2>3. Routed(request')
    BY <1>1, <1>2, <2>1, DeliveryAssumption DEF Routed, AssetInv
  <2>4. Vowed(request')
    BY <1>0, <1>1, <2>1 DEF Vowed
  <2>5. QED BY <1>0, <1>1, <2>1, <2>2, <2>3, <2>4, OnwardStep DEF InFlight
<1>3. CASE /\ request.id \in Versions /\ asset # None
           /\ request' = [request EXCEPT !.at = Gate(asset), !.asset = asset, !.version = request.id,
                                         !.hosting = version[request.id].hosting,
                                         !.settled = Settled({request.id, Asset})]
  <2>1. /\ DOMAIN request' = RequestFields /\ request'.at = Gate(asset) /\ request'.visit = request.visit
        /\ request'.asset = asset
        /\ request'.open = request.open /\ request'.proof = request.proof /\ request'.id = request.id
        /\ request'.preview = request.preview /\ request'.version = request.id
        /\ request'.file = request.file /\ request'.hosting = version[request.id].hosting
        /\ request'.settled = Settled({request.id, Asset})
    BY <1>1, <1>3 DEF RequestFields
  <2>2. Entered(request')
    BY <1>1, <1>3, <2>1 DEF Entered, Gate
  <2>3. request'.at \in {"admit", "look"}
    BY <2>1 DEF Gate
  <2>4. Routed(request')
    BY <1>1, <1>3, <2>1, <2>3 DEF Routed
  <2>5. Vowed(request')
    BY <1>0, <1>1, <1>3, <2>1, <2>3 DEF Vowed, Pinned
  <2>6. QED BY <1>0, <1>1, <2>1, <2>2, <2>3, <2>4, <2>5, OnwardStep DEF InFlight
<1>4. CASE Refuse(request, Refusal)
  BY <1>0, <1>1, <1>4, RefusalFields, FinishRefused
<1>5. QED BY <1>2, <1>3, <1>4 DEF FindAsset

LEMMA LatestType == Latest \in Versions \cup {None}
BY DEF Latest

LEMMA CurrentType ==
  ASSUME NEW active \in Versions \cup {None}
  PROVE  Current(active) \in Versions \cup {None}
BY LatestType DEF Current, Row

LEMMA FindVersionStep ==
  ASSUME RequestInv, FindVersion
  PROVE  RequestInv'
<1> DEFINE v == Current(request.asset.active)
           hosting == IF v = None THEN NoHosting ELSE version[v].hosting
<1>1. /\ request.at = "version" /\ DOMAIN request = RequestFields /\ Entered(request) /\ Routed(request)
      /\ UNCHANGED asset
  BY IdleFields DEF FindVersion, RequestInv, InFlight, rows
<1>0. Vowed(request) /\ UNCHANGED rows
  BY <1>1, IdleFields DEF FindVersion, RequestInv, InFlight
<1>2. request' = [request EXCEPT !.at = Gate(request.asset), !.version = v, !.hosting = hosting]
  BY DEF FindVersion
<1>3. v \in Versions \cup {None}
  BY <1>1, CurrentType DEF Routed
<1> HIDE DEF v, hosting
<1>4. /\ DOMAIN request' = RequestFields /\ request'.at = Gate(request.asset) /\ request'.visit = request.visit
      /\ request'.open = request.open /\ request'.proof = request.proof /\ request'.id = request.id
      /\ request'.preview = request.preview /\ request'.version = v /\ request'.file = request.file
  BY <1>1, <1>2 DEF RequestFields
<1>5. Entered(request')
  BY <1>1, <1>4 DEF Entered, Gate
<1>6. Routed(request')
  <2>1. request'.at \in {"admit", "look"}
    BY <1>4 DEF Gate
  <2>2. NamesVersion(request.visit) => request.preview # "no"
    BY <1>1, DeliveryAssumption DEF Routed, Uploads
  <2>3. QED BY <1>1, <1>3, <1>4, <2>1, <2>2 DEF Routed
<1>7. ~Pinned(request')
  BY <1>1, <1>3, <1>4, DeliveryAssumption DEF Routed, Pinned, Uploads
<1>8. request'.at \in {"admit", "look"}
  BY <1>4 DEF Gate
<1>9. Vowed(request')
  BY <1>0, <1>1, <1>4, <1>7, <1>8 DEF Vowed
<1>10. QED BY <1>0, <1>1, <1>4, <1>5, <1>6, <1>8, <1>9, OnwardStep DEF InFlight

LEMMA AdmitStep ==
  ASSUME RequestInv, Admit
  PROVE  RequestInv'
<1>1. /\ request.at = "admit" /\ DOMAIN request = RequestFields /\ Entered(request) /\ Routed(request)
      /\ UNCHANGED asset
  BY IdleFields DEF Admit, RequestInv, InFlight, rows
<1>0. Vowed(request) /\ UNCHANGED rows
  BY <1>1, IdleFields DEF Admit, RequestInv, InFlight
<1>2. CASE /\ request.visit.credential # "none"
           /\ request' = [request EXCEPT !.at = "look", !.proof = request.visit.credential]
  <2>1. /\ DOMAIN request' = RequestFields /\ request'.at = "look" /\ request'.visit = request.visit
        /\ request'.open = request.open /\ request'.proof = request.visit.credential /\ request'.id = request.id
        /\ request'.preview = request.preview /\ request'.version = request.version
        /\ request'.file = request.file /\ request'.hosting = request.hosting
        /\ request'.settled = request.settled /\ request'.asset = request.asset
    BY <1>1, <1>2 DEF RequestFields
  <2>2. Entered(request')
    BY <1>1, <1>2, <2>1 DEF Entered
  <2>3. Routed(request')
    BY <1>1, <2>1 DEF Routed
  <2>4. Vowed(request')
    BY <1>0, <1>1, <2>1 DEF Vowed, Pinned
  <2>5. QED BY <1>0, <1>1, <2>1, <2>2, <2>3, <2>4, OnwardStep DEF InFlight
<1>3. CASE \E status : Refuse(request, NoStore(status))
  BY <1>0, <1>1, <1>3, NoStoreFields, FinishRefused
<1>4. QED BY <1>2, <1>3 DEF Admit

LEMMA ArriveStep ==
  ASSUME StoreInv, NEW visit \in Visits, Arrive(visit)
  PROVE  RequestInv'
<1> DEFINE r == Started(visit)
<1>1. /\ DOMAIN r = RequestFields /\ r.at = "asset" /\ r.visit = visit /\ r.proof = "none"
      /\ r.id = Resolve(visit).id /\ r.preview = Resolve(visit).preview
      /\ r.open = (asset # None /\ ~asset.locked) /\ r.version = None /\ r.file = None
  BY StartedFields
<1>2. UNCHANGED rows
  BY DEF Arrive
<1>3. /\ DOMAIN Interface = AnswerFields /\ Interface.file = None /\ Interface.control = "none"
      /\ DOMAIN Preflight = AnswerFields /\ Preflight.file = None /\ Preflight.control = "none"
      /\ \A status : LET a == [Refusal EXCEPT !.status = status] IN
           DOMAIN a = AnswerFields /\ a.file = None /\ a.control = "none"
  BY RefusalFields DEF Interface, Preflight, AnswerFields
<1>4. \/ Finish(r, Interface)
      \/ \E status : Finish(r, NoStore(status))
      \/ Refuse(r, Preflight)
      \/ Finish(r, Refusal)
      \/ Refuse(r, [Refusal EXCEPT !.status = 400])
      \/ request' = r /\ (OnSite(visit) => r.id # None)
  BY DEF Arrive
<1> HIDE DEF r
<1>5. CASE request' = r /\ (OnSite(visit) => r.id # None)
  <2>1. Entered(r)
    BY <1>1 DEF Entered
  <2>2. NamesVersion(visit) => OnSite(visit)
    BY DeliveryAssumption, EmptySeq DEF NamesVersion
  <2>3. Routed(r)
    BY <1>1, <1>5, <2>2, Resolved DEF Routed
  <2>4. Vowed(r)
    BY <1>1, ResolvedNames DEF Vowed
  <2>5. QED BY <1>1, <1>2, <1>5, <2>1, <2>3, <2>4, OnwardStep DEF InFlight
<1>6. ASSUME NEW status, Finish(r, NoStore(status)) PROVE RequestInv'
  BY <1>1, <1>2, <1>6, NoStoreFields, FinishRefused
<1>7. CASE Refuse(r, [Refusal EXCEPT !.status = 400])
  <2> DEFINE a == [Refusal EXCEPT !.status = 400]
  <2>1. DOMAIN a = AnswerFields /\ a.file = None /\ a.control = "none"
    BY <1>3
  <2> HIDE DEF a
  <2>2. QED BY <1>1, <1>2, <1>7, <2>1, FinishRefused DEF a
<1>8. CASE Finish(r, Interface) \/ Refuse(r, Preflight) \/ Finish(r, Refusal)
  BY <1>1, <1>2, <1>3, <1>8, RefusalFields, FinishRefused
<1>9. QED BY <1>4, <1>5, <1>6, <1>7, <1>8

\* What a cache answers with is as good as when it was kept.
LEMMA ReuseStep ==
  ASSUME KeptInv, NEW visit \in Visits, Reuse(visit)
  PROVE  RequestInv'
<1> DEFINE r == [Started(visit) EXCEPT !.cached = TRUE]
<1>1. DOMAIN r = RequestFields /\ r.visit = visit /\ ~r.settled
  BY StartedFields DEF RequestFields
<1>2. kept # None /\ Alike(kept.visit, visit) /\ kept.answer.control = "immutable" /\ Finish(r, kept.answer)
  BY SameUrlVisit DEF Reuse, Usable
<1> HIDE DEF r
<1>3. /\ DOMAIN kept.answer = AnswerFields /\ ~Moving(kept.visit) /\ Headed(kept.visit, kept.answer)
      /\ kept.answer.status = 200
  BY <1>2 DEF KeptInv
<1>4. ~Moving(visit) /\ Headed(visit, kept.answer)
  BY <1>2, <1>3, SameVisit DEF Headed
<1>5. Sound(r, kept.answer)
  BY <1>1, <1>3, <1>4 DEF Sound, Drafted, Measured, Promised
<1>6. UNCHANGED rows
  BY DEF Reuse
<1>7. QED BY <1>1, <1>2, <1>5, <1>6, FinishSound

LEMMA KeepStep ==
  ASSUME RequestInv, Keep
  PROVE  RequestInv' /\ KeptInv'
<1>1. request.at = "answered" /\ Sound(request, request.answer)
  BY IdleFields DEF Keep, RequestInv
<1>2. /\ kept'.visit = request.visit /\ kept'.answer = request.answer /\ request.answer.status = 200
      /\ kept'.own => /\ request.settled /\ request.answer.file # None /\ request.answer.file = request.file
                      /\ request.file.upload \in Versions /\ request.path = request.visit.path
  BY DEF Keep, Storable
<1>3. kept'.own /\ kept'.answer.control = "immutable" => Promise(request.visit, request.answer.file)
  BY <1>1, <1>2 DEF Sound, Drafted, Promised
<1>4. UNCHANGED rows
  BY DEF Keep
<1>5. kept'.own /\ kept'.answer.control = "immutable" => Promise(kept.visit, kept.answer.file)'
  BY <1>2, <1>3, <1>4, Rested, PromiseMoves
<1>6. KeptInv'
  BY <1>1, <1>2, <1>5 DEF KeptInv, Sound, Drafted, Headed, Entry
<1>7. QED BY <1>6 DEF Keep, RequestInv

-------------------------------------------------------------------------------
(* The owner and the extraction.                                           *)

LEMMA SoundStays ==
  ASSUME Lasting, NEW r, NEW a, Sound(r, a)
  PROVE  Sound(r, a)'
<1>1. Promised(r, a)'
  BY PromiseStays DEF Sound, Drafted, Promised
<1>2. QED BY <1>1 DEF Sound, Drafted, Headed, Measured, Entry

LEMMA KeptStays ==
  ASSUME KeptInv, Lasting, kept' \in {kept, None}
  PROVE  KeptInv'
<1>1. CASE kept' # None /\ kept # None /\ kept' = kept
  <2>1. kept.own /\ kept.answer.control = "immutable" => Promise(kept.visit, kept.answer.file)'
    BY <1>1, PromiseMoves DEF KeptInv
  <2>2. QED BY <1>1, <2>1 DEF KeptInv, Headed, Entry
<1>2. CASE kept' = None
  BY <1>2 DEF KeptInv
<1>3. QED BY <1>1, <1>2

\* Nothing becomes open.
LEMMA AsideStep ==
  ASSUME DeliveryInv, UNCHANGED <<request, kept>>, AssetInv', StoreInv', Lasting,
         asset' # None /\ ~asset'.locked => asset # None /\ ~asset.locked
  PROVE  DeliveryInv'
<1>1. request.at \in InFlight /\ Entered(request) => Entered(request)'
  BY DEF Entered
<1>2. Routed(request) => Routed(request)'
  BY DEF Routed
<1>3. ASSUME NEW r, request = r, Routed(r), Vowed(r) PROVE Vowed(request)'
  BY <1>3, VowStays
<1>4. ASSUME NEW r, request = r, Sound(r, r.answer) PROVE Sound(request, request.answer)'
  BY <1>4, SoundStays
<1>5. RequestInv'
  BY <1>1, <1>2, <1>3, <1>4 DEF DeliveryInv, RequestInv
<1>6. KeptInv'
  BY KeptStays DEF DeliveryInv
<1>7. QED BY <1>5, <1>6 DEF DeliveryInv

\* Numbers that are bounded have a greatest.
LEMMA Greatest ==
  ASSUME NEW n \in Nat, NEW T, T # {}, \A x \in T : x \in Nat /\ x <= n
  PROVE  Max(T) \in T /\ \A x \in T : x <= Max(T)
<1> DEFINE R == OpToRel(<, Nat)
           gaps == {n - x : x \in T}
<1>1. IsWellFoundedOn(R, Nat)
  BY NatLessThanWellFounded
<1>2. gaps \subseteq Nat /\ gaps # {}
  OBVIOUS
<1>3. PICK gap \in gaps : \A y \in gaps : ~(<<y, gap>> \in R)
  BY <1>1, <1>2, WFMin
<1>4. \A y \in gaps : ~(y < gap)
  BY <1>2, <1>3 DEF OpToRel
<1>5. PICK x \in T : gap = n - x
  OBVIOUS
<1>6. \A y \in T : x >= y
  <2> SUFFICES ASSUME NEW y \in T PROVE x >= y
    OBVIOUS
  <2>1. n - y \in gaps /\ ~(n - y < n - x)
    BY <1>4, <1>5
  <2>2. x \in Nat /\ y \in Nat
    OBVIOUS
  <2>3. QED BY <2>1, <2>2
<1>7. Max(T) \in T /\ \A y \in T : Max(T) >= y
  BY <1>6 DEF Max
<1>8. QED BY <1>7

\* A new version's number is above all others.
LEMMA NumberingStep ==
  ASSUME StoreInv, NEW v \in Versions, UploadVersion(v)
  PROVE  StoreInv'
<1> DEFINE numbers == {version[w].number : w \in {w \in Versions : Row(w)}}
           top == Max(numbers \cup {0})
<1>1. \A x \in numbers \cup {0} : x \in Nat /\ x <= writes
  BY DEF StoreInv
<1>2. writes \in Nat
  BY DEF StoreInv
<1>3. top \in Nat /\ top <= writes /\ \A x \in numbers : x <= top
  BY <1>1, <1>2, Greatest
<1>4. /\ version' = [version EXCEPT ![v] = [number |-> top + 1, hosting |-> NoHosting]]
      /\ extraction' = [extraction EXCEPT ![v] = Begun(v)]
      /\ extraction[v] = "no" /\ writes' = writes + 1
  BY DEF UploadVersion, Write
<1> HIDE DEF top
<1>5. DOMAIN version' = Versions /\ DOMAIN extraction' = Uploads
  BY <1>4 DEF StoreInv
<1>6. \A w \in Versions : w # v => version'[w] = version[w] /\ extraction'[w] = extraction[w]
  BY <1>4 DEF StoreInv, Uploads
<1>7. version'[v] = [number |-> top + 1, hosting |-> NoHosting] /\ extraction'[v] # "no"
  BY <1>4 DEF StoreInv, Uploads, Begun
<1>8. version'[v].number = top + 1 /\ DOMAIN version'[v] = {"number", "hosting"}
  BY <1>7
<1>9. \A w \in Versions : Row(w) => version[w].number <= top /\ version[w].number \in Nat
  BY <1>3 DEF StoreInv
<1>10. \A w \in Versions : w # v => (Row(w)' <=> Row(w))
  BY <1>6 DEF Row
<1>11. ASSUME NEW w \in Versions, Row(w)'
       PROVE  /\ DOMAIN version'[w] = {"number", "hosting"}
              /\ version'[w].number \in Nat /\ version'[w].number <= writes'
              /\ extraction'[w] # "no"
  <2>1. CASE w = v
    BY <1>2, <1>3, <1>4, <1>7, <1>8, <2>1
  <2>2. CASE w # v
    BY <1>2, <1>4, <1>6, <1>10, <1>11, <2>2 DEF StoreInv
  <2>3. QED BY <2>1, <2>2
<1>12. ASSUME NEW w \in Versions, NEW x \in Versions, Row(w)', Row(x)', version'[w].number = version'[x].number
       PROVE  w = x
  <2>1. CASE w # v /\ x # v
    BY <1>6, <1>10, <1>12, <2>1 DEF StoreInv
  <2>2. ASSUME NEW y \in Versions, y # v, Row(y)' PROVE version'[y].number # version'[v].number
    BY <1>3, <1>6, <1>8, <1>9, <1>10, <2>2
  <2>3. QED BY <1>12, <2>1, <2>2
<1>13. writes' \in Nat
  BY <1>2, <1>4
<1>14. QED BY <1>5, <1>11, <1>12, <1>13 DEF StoreInv

\* Rows keep their numbers, or go, and no extraction is undone.
LEMMA StoreStays ==
  ASSUME StoreInv, writes' \in {writes, writes + 1},
         DOMAIN version' = Versions, DOMAIN extraction' = Uploads,
         \A u \in Versions : extraction[u] # "no" => extraction'[u] # "no",
         \A v \in Versions : Row(v)' => /\ Row(v) /\ version'[v].number = version[v].number
                                       /\ DOMAIN version'[v] = DOMAIN version[v]
  PROVE  StoreInv'
<1>1. writes' \in Nat /\ writes <= writes'
  BY DEF StoreInv
<1>2. ASSUME NEW v \in Versions, Row(v)'
      PROVE  /\ DOMAIN version'[v] = {"number", "hosting"}
             /\ version'[v].number \in Nat /\ version'[v].number <= writes'
             /\ extraction'[v] # "no"
  BY <1>1, <1>2 DEF StoreInv
<1>3. ASSUME NEW w \in Versions, NEW x \in Versions, Row(w)', Row(x)', version'[w].number = version'[x].number
      PROVE  w = x
  BY <1>3 DEF StoreInv
<1>4. QED BY <1>1, <1>2, <1>3 DEF StoreInv

\* Nothing but the rules of the asset is watched of its row.
LEMMA CalmStep ==
  ASSUME StoreInv, UNCHANGED <<version, extraction>>, stored \subseteq stored', writes' \in {writes, writes + 1},
         asset' # None => asset # None /\ asset'.hosting = asset.hosting
  PROVE  StoreInv' /\ Lasting
<1>1. StoreInv'
  BY StoreStays DEF StoreInv, Row
<1>2. Lasting
  BY DEF Lasting, Stable, Settled, Alive, Row
<1>3. QED BY <1>1, <1>2

LEMMA UploadStable ==
  ASSUME StoreInv, NEW v \in Versions, UploadVersion(v)
  PROVE  Lasting
<1>1. /\ asset' = asset /\ stored \subseteq stored' /\ extraction[v] = "no"
      /\ \A w \in Versions : w # v => version'[w] = version[w]
      /\ \A w \in Uploads : w # v => extraction'[w] = extraction[w]
  BY DEF UploadVersion, StoreInv
<1>2. SUFFICES ASSUME NEW u \in Versions PROVE Stable(u)
  BY DEF Lasting
<1>3. CASE u = v
  BY <1>1, <1>3 DEF Stable, Settled
<1>4. CASE u # v
  BY <1>1, <1>4, DeliveryAssumption DEF Stable, Settled, Alive, Row, Uploads
<1>5. QED BY <1>3, <1>4

LEMMA RejectStep ==
  ASSUME StoreInv, NEW w \in Uploads, NEW path, RejectEntry(w, path)
  PROVE  StoreInv' /\ Lasting
<1>1. /\ UNCHANGED <<asset, version, extraction, writes>> /\ extraction[w] = "running"
      /\ stored' = stored \ {<<w, path>>}
  BY DEF RejectEntry
<1>2. StoreInv'
  BY <1>1, StoreStays DEF StoreInv, Row
<1>3. ASSUME NEW u \in Versions PROVE Stable(u)
  <2>1. Settled({u, Asset}) => u # w
    BY <1>1 DEF Settled
  <2>2. \A key : u # w /\ <<u, key>> \in stored => <<u, key>> \in stored'
    BY <1>1
  <2>3. QED BY <1>1, <2>1, <2>2 DEF Stable, Settled, Alive, Row
<1>4. QED BY <1>2, <1>3 DEF Lasting

LEMMA CompletionStep ==
  ASSUME StoreInv, NEW w \in Uploads, Complete(w)
  PROVE  StoreInv' /\ Lasting
<1>1. /\ UNCHANGED <<version, stored, writes>> /\ extraction[w] = "running"
      /\ extraction' = [extraction EXCEPT ![w] = IF w = Asset THEN "done" ELSE "placing"]
      /\ asset' = asset \/ (w = Asset /\ asset # None)
  BY DEF Complete
<1>2. /\ DOMAIN extraction' = Uploads /\ extraction'[w] # "no"
      /\ \A u \in Uploads : u # w => extraction'[u] = extraction[u]
  BY <1>1 DEF StoreInv
<1>3. StoreInv'
  <2>1. \A u \in Versions : extraction[u] # "no" => extraction'[u] # "no"
    BY <1>1, <1>2 DEF Uploads
  <2>2. QED BY <1>1, <1>2, <2>1, StoreStays DEF StoreInv, Row
<1>4. ASSUME NEW u \in Versions PROVE Stable(u)
  <2>1. Settled({u, Asset}) => u # w /\ Asset # w
    BY <1>1 DEF Settled
  <2>2. u \in Uploads /\ Asset \in Uploads
    BY DEF Uploads
  <2>3. QED BY <1>1, <1>2, <2>1, <2>2 DEF Stable, Settled, Alive, Row
<1>5. QED BY <1>3, <1>4 DEF Lasting

LEMMA PlacingStep ==
  ASSUME StoreInv, NEW v \in Versions, PlaceHosting(v)
  PROVE  StoreInv' /\ Lasting
<1>1. /\ UNCHANGED <<asset, stored, writes>> /\ extraction[v] = "placing"
      /\ extraction' = [extraction EXCEPT ![v] = "done"]
      /\ version' = version \/ (Row(v) /\ \E hosting : version' = [version EXCEPT ![v].hosting = hosting])
  BY DEF PlaceHosting
<1>2. /\ DOMAIN extraction' = Uploads /\ extraction'[v] # "no"
      /\ \A u \in Uploads : u # v => extraction'[u] = extraction[u]
  BY <1>1 DEF StoreInv, Uploads
<1>3. /\ DOMAIN version' = Versions
      /\ \A u \in Versions : u # v => version'[u] = version[u]
      /\ Row(v)' => Row(v) /\ version'[v].number = version[v].number /\ DOMAIN version'[v] = DOMAIN version[v]
  <2>1. CASE version' = version
    BY <2>1 DEF StoreInv, Row
  <2>2. ASSUME NEW hosting, Row(v), version' = [version EXCEPT ![v].hosting = hosting]
        PROVE  /\ DOMAIN version' = Versions
               /\ \A u \in Versions : u # v => version'[u] = version[u]
               /\ version'[v].number = version[v].number /\ DOMAIN version'[v] = DOMAIN version[v]
    BY <2>2 DEF StoreInv
  <2>3. QED BY <1>1, <2>1, <2>2
<1>4. StoreInv'
  <2>1. \A u \in Versions : extraction[u] # "no" => extraction'[u] # "no"
    BY <1>2 DEF Uploads
  <2>2. \A u \in Versions : Row(u)' => /\ Row(u) /\ version'[u].number = version[u].number
                                       /\ DOMAIN version'[u] = DOMAIN version[u]
    BY <1>3 DEF Row
  <2>3. QED BY <1>1, <1>2, <1>3, <2>1, <2>2, StoreStays
<1>5. ASSUME NEW u \in Versions PROVE Stable(u)
  <2>1. Settled({u, Asset}) => u # v
    BY <1>1 DEF Settled
  <2>2. u \in Uploads /\ Asset \in Uploads /\ Asset # v
    BY DeliveryAssumption DEF Uploads
  <2>3. CASE u = v
    BY <1>1, <1>2, <1>3, <2>1, <2>3 DEF Stable
  <2>4. CASE u # v
    BY <1>1, <1>2, <1>3, <2>2, <2>4 DEF Stable, Settled, Alive, Row
  <2>5. QED BY <2>3, <2>4
<1>6. QED BY <1>4, <1>5 DEF Lasting

LEMMA DeletionStep ==
  ASSUME StoreInv, DeleteAsset \/ \E v \in Versions : DeleteVersion(v)
  PROVE  StoreInv' /\ Lasting
<1>1. /\ UNCHANGED <<stored, extraction>> /\ writes' = writes + 1
      /\ asset' = asset \/ asset' = None
      /\ DOMAIN version' = Versions
      /\ \A u \in Versions : version'[u] \in {version[u], None}
  BY DEF DeleteAsset, DeleteVersion, Write, StoreInv
<1>2. \A u \in Versions : Row(u)' => Row(u) /\ version'[u] = version[u]
  BY <1>1 DEF Row
<1>3. StoreInv'
  BY <1>1, <1>2, StoreStays DEF StoreInv
<1>4. ASSUME NEW u \in Versions PROVE Stable(u)
  BY <1>1, <1>2 DEF Stable, Settled, Alive
<1>5. QED BY <1>3, <1>4 DEF Lasting

LEMMA WipeStep ==
  ASSUME StoreInv, NEW w \in Uploads, WipeObjects(w)
  PROVE  StoreInv' /\ Lasting
<1>1. /\ UNCHANGED <<asset, version, writes>>
      /\ IF w = Asset THEN asset = None ELSE ~Row(w)
      /\ stored' = {object \in stored : object[1] # w}
      /\ extraction' = [extraction EXCEPT ![w] = "wiped"]
  BY DEF WipeObjects
<1>2. /\ DOMAIN extraction' = Uploads /\ extraction'[w] = "wiped"
      /\ \A u \in Uploads : u # w => extraction'[u] = extraction[u]
  BY <1>1 DEF StoreInv
<1>3. StoreInv'
  <2>1. \A u \in Versions : extraction[u] # "no" => extraction'[u] # "no"
    BY <1>2 DEF Uploads
  <2>2. QED BY <1>1, <1>2, <2>1, StoreStays DEF StoreInv, Row
<1>4. ASSUME NEW u \in Versions PROVE Stable(u)
  <2>1. Row(u)' <=> Row(u)
    BY <1>1 DEF Row
  <2>2. Alive(u)' => Alive(u) /\ u # w
    BY <1>1, <2>1 DEF Alive
  <2>3. Settled({u, Asset}) => Settled({u, Asset})'
    BY <1>2 DEF Settled, Uploads
  <2>4. extraction[u] # "no" => extraction'[u] # "no"
    BY <1>2 DEF Uploads
  <2>5. \A key : u # w /\ <<u, key>> \in stored => <<u, key>> \in stored'
    BY <1>1
  <2>6. QED BY <1>1, <2>1, <2>2, <2>3, <2>4, <2>5 DEF Stable
<1>5. QED BY <1>3, <1>4 DEF Lasting

LEMMA AssetFieldSet ==
  ASSUME AssetInv, asset # None, NEW x, NEW v \in Versions \cup {None},
         \/ asset' = [asset EXCEPT !.active = v]
         \/ asset' = [asset EXCEPT !.spa = x]
         \/ asset' = [asset EXCEPT !.hosting = x]
  PROVE  AssetInv' /\ asset'.locked = asset.locked
BY DEF AssetInv, AssetFields

LEMMA StoreStep ==
  ASSUME StoreInv, AssetInv, Owner
  PROVE  StoreInv' /\ Lasting
<1>1. ASSUME NEW v \in Versions, UploadVersion(v) PROVE StoreInv' /\ Lasting
  BY <1>1, NumberingStep, UploadStable
<1>2. ASSUME NEW v \in Versions, PlaceHosting(v) PROVE StoreInv' /\ Lasting
  BY <1>2, PlacingStep
<1>3. ASSUME DeleteAsset \/ \E v \in Versions : DeleteVersion(v) PROVE StoreInv' /\ Lasting
  BY <1>3, DeletionStep
<1>4. ASSUME NEW u \in Uploads, NEW path, ExtractEntry(u, path) PROVE StoreInv' /\ Lasting
  BY <1>4, CalmStep DEF ExtractEntry, Upload
<1>5. ASSUME NEW u \in Uploads, NEW path, RejectEntry(u, path) PROVE StoreInv' /\ Lasting
  BY <1>5, RejectStep
<1>6. ASSUME NEW u \in Uploads, Complete(u) PROVE StoreInv' /\ Lasting
  BY <1>6, CompletionStep
<1>7. ASSUME NEW u \in Uploads, WipeObjects(u) PROVE StoreInv' /\ Lasting
  BY <1>7, WipeStep
<1>8. ASSUME NEW u \in Uploads, PutThumbnail(u) PROVE StoreInv' /\ Lasting
  BY <1>8, CalmStep DEF PutThumbnail
<1>9. ASSUME NEW outcome, ChangeName(outcome) PROVE StoreInv' /\ Lasting
  BY <1>9, CalmStep DEF ChangeName, Write
<1>10. ASSUME SetSpa \/ SetAccess \/ ResetActive \/ \E v \in Versions \cup {None} : SetActive(v)
       PROVE  StoreInv' /\ Lasting
  <2>1. /\ UNCHANGED <<version, extraction, stored>> /\ writes' \in {writes, writes + 1} /\ asset # None
        /\ \/ \E x : asset' = [asset EXCEPT !.active = x]
           \/ \E x : asset' = [asset EXCEPT !.spa = x]
           \/ \E x : asset' = [asset EXCEPT !.locked = x]
    BY <1>10 DEF SetSpa, SetAccess, ResetActive, SetActive, Write
  <2>2. asset'.hosting = asset.hosting
    BY <2>1 DEF AssetInv, AssetFields
  <2>3. QED BY <2>1, <2>2, CalmStep
<1>11. QED BY <1>1, <1>2, <1>3, <1>4, <1>5, <1>6, <1>7, <1>8, <1>9, <1>10 DEF Owner

LEMMA SetAccessStep ==
  ASSUME DeliveryInv, SetAccess, StoreInv', Lasting
  PROVE  DeliveryInv'
<1>1. asset # None /\ asset' = [asset EXCEPT !.locked = ~asset.locked] /\ UNCHANGED kept
  BY DEF SetAccess
<1>2. AssetInv' /\ asset'.locked = ~asset.locked
  BY <1>1 DEF DeliveryInv, AssetInv, AssetFields
<1>3. KeptInv'
  BY <1>1, KeptStays DEF DeliveryInv
<1>4. RequestInv'
  <2>1. CASE request.at \in {"idle", "answered"}
    <3>1. request' = request /\ request.at \notin InFlight
      BY <2>1 DEF SetAccess, Opened, InFlight
    <3>2. ASSUME NEW r, request = r, Sound(r, r.answer) PROVE Sound(request, request.answer)'
      BY <3>1, <3>2, SoundStays
    <3>3. QED BY <3>1, <3>2, IdleFields DEF DeliveryInv, RequestInv
  <2>2. CASE request.at \notin {"idle", "answered"}
    <3>1. /\ DOMAIN request = RequestFields /\ request.at \in InFlight /\ Entered(request) /\ Routed(request)
          /\ Vowed(request)
      BY <2>2, IdleFields DEF DeliveryInv, RequestInv
    <3> DEFINE open == request.open \/ (TRUE /\ ~(~asset.locked))
    <3>2. request' = [request EXCEPT !.open = open]
      BY <2>2 DEF SetAccess, Opened
    <3>3. (request.open => open) /\ (asset.locked => open)
      OBVIOUS
    <3> HIDE DEF open
    <3>4. /\ DOMAIN request' = RequestFields /\ request'.at = request.at /\ request'.visit = request.visit
          /\ request'.asset = request.asset
          /\ request'.open = open /\ request'.proof = request.proof /\ request'.id = request.id
          /\ request'.preview = request.preview /\ request'.version = request.version
          /\ request'.file = request.file /\ request'.hosting = request.hosting
          /\ request'.settled = request.settled /\ request'.path = request.path
      BY <3>1, <3>2 DEF RequestFields
    <3>5. Entered(request)'
      BY <1>2, <3>1, <3>3, <3>4 DEF Entered
    <3>6. Routed(request)'
      BY <3>1, <3>4 DEF Routed
    <3>7. Vowed(request)'
      <4>1. ASSUME NEW r, request' = r PROVE Routed(r) /\ Vowed(r)
        BY <3>1, <3>4, <4>1 DEF Routed, Vowed, Pinned
      <4>2. ASSUME NEW r, request' = r PROVE Vowed(request)'
        BY <4>1, <4>2, VowStays
      <4>3. QED BY <4>2
    <3>8. QED BY <2>2, <3>1, <3>4, <3>5, <3>6, <3>7 DEF RequestInv
  <2>3. QED BY <2>1, <2>2
<1>5. QED BY <1>2, <1>3, <1>4 DEF DeliveryInv

LEMMA CompleteStep ==
  ASSUME DeliveryInv, NEW u \in Uploads, Complete(u), StoreInv', Lasting
  PROVE  DeliveryInv'
<1>1. asset' = asset \/ (asset # None /\ \E hosting : asset' = [asset EXCEPT !.hosting = hosting])
  BY DEF Complete
<1>2. UNCHANGED <<request, kept>>
  BY DEF Complete
<1>3. None \in Versions \cup {None}
  OBVIOUS
<1>4. AssetInv' /\ (asset' # None /\ ~asset'.locked => asset # None /\ ~asset.locked)
  BY <1>1, <1>3, AssetFieldSet DEF DeliveryInv, AssetInv
<1>5. QED BY <1>2, <1>4, AsideStep

LEMMA OwnerStep ==
  ASSUME DeliveryInv, Owner
  PROVE  DeliveryInv'
<1>0. StoreInv' /\ Lasting
  BY StoreStep DEF DeliveryInv
<1>1. ASSUME UNCHANGED <<asset, request, kept>> PROVE DeliveryInv'
  BY <1>0, <1>1, AsideStep DEF DeliveryInv, AssetInv
<1>2. ASSUME NEW v \in Versions, UploadVersion(v) \/ PlaceHosting(v) \/ DeleteVersion(v)
      PROVE  DeliveryInv'
  BY <1>1, <1>2 DEF UploadVersion, PlaceHosting, DeleteVersion
<1>3. ASSUME NEW u \in Uploads, WipeObjects(u) \/ PutThumbnail(u)
      PROVE  DeliveryInv'
  BY <1>1, <1>3 DEF WipeObjects, PutThumbnail
<1>4. ASSUME NEW u \in Uploads, NEW path, ExtractEntry(u, path) \/ RejectEntry(u, path)
      PROVE  DeliveryInv'
  BY <1>1, <1>4 DEF ExtractEntry, RejectEntry
<1>5. ASSUME NEW v \in Versions \cup {None}, SetActive(v)
      PROVE  DeliveryInv'
  <2>1. asset # None /\ asset' = [asset EXCEPT !.active = v] /\ UNCHANGED <<request, kept>>
    BY <1>5 DEF SetActive
  <2>2. QED BY <1>0, <2>1, AssetFieldSet, AsideStep DEF DeliveryInv
<1>6. CASE SetSpa
  <2>1. asset # None /\ asset' = [asset EXCEPT !.spa = ~asset.spa] /\ UNCHANGED <<request, kept>>
    BY <1>6 DEF SetSpa
  <2>2. None \in Versions \cup {None}
    OBVIOUS
  <2>3. QED BY <1>0, <2>1, <2>2, AssetFieldSet, AsideStep DEF DeliveryInv
<1>7. CASE ResetActive
  <2>1. asset # None /\ asset' = [asset EXCEPT !.active = None] /\ UNCHANGED <<request, kept>>
    BY <1>7 DEF ResetActive
  <2>2. None \in Versions \cup {None}
    OBVIOUS
  <2>3. QED BY <1>0, <2>1, <2>2, AssetFieldSet, AsideStep DEF DeliveryInv
<1>8. CASE DeleteAsset
  BY <1>0, <1>8, AsideStep DEF DeleteAsset, AssetInv
<1>9. ASSUME NEW outcome, ChangeName(outcome)
      PROVE  DeliveryInv'
  BY <1>1, <1>9 DEF ChangeName
<1>10. QED BY <1>0, <1>2, <1>3, <1>4, <1>5, <1>6, <1>7, <1>8, <1>9, CompleteStep, SetAccessStep DEF Owner

\* What is put is an upload, an entry of an archive, or a thumbnail.
LEMMA ObjectsStep ==
  ASSUME ObjectsInv, [Next]_vars
  PROVE  ObjectsInv'
<1>1. stored' \subseteq stored => ObjectsInv'
  BY DEF ObjectsInv
<1>2. ASSUME NEW v \in Versions, UploadVersion(v) PROVE ObjectsInv'
  <2>1. stored' = stored \cup {<<v, Main>>} /\ v \in Uploads
    BY <1>2 DEF UploadVersion, Uploads
  <2>2. QED BY <2>1 DEF ObjectsInv
<1>3. ASSUME NEW u \in Uploads, u \in Archive, NEW path \in DOMAIN Content[u], ExtractEntry(u, path) PROVE ObjectsInv'
  <2>1. stored' = stored \cup {<<u, path>>}
    BY <1>3 DEF ExtractEntry, Upload
  <2>2. QED BY <1>3, <2>1 DEF ObjectsInv
<1>4. ASSUME NEW u \in Uploads, PutThumbnail(u) PROVE ObjectsInv'
  <2>1. stored' = stored \cup {<<u, Thumb>>} /\ u \notin Archive
    BY <1>4 DEF PutThumbnail
  <2>2. QED BY <2>1 DEF ObjectsInv
<1>5. ASSUME NEW u \in Uploads, WipeObjects(u) PROVE ObjectsInv'
  BY <1>1, <1>5 DEF WipeObjects
<1>6. ASSUME NEW u \in Uploads, NEW path, RejectEntry(u, path) PROVE ObjectsInv'
  BY <1>1, <1>6 DEF RejectEntry
<1>7. ASSUME NEW v \in Versions, PlaceHosting(v) \/ DeleteVersion(v) PROVE ObjectsInv'
  BY <1>1, <1>7 DEF PlaceHosting, DeleteVersion
<1>8. ASSUME \/ SetSpa \/ SetAccess \/ ResetActive \/ DeleteAsset
             \/ \E u \in Uploads : Complete(u)
             \/ \E v \in Versions \cup {None} : SetActive(v)
             \/ \E outcome : ChangeName(outcome)
      PROVE  ObjectsInv'
  BY <1>1, <1>8 DEF SetSpa, SetAccess, ResetActive, DeleteAsset, Complete, SetActive, ChangeName
<1>9. Owner => ObjectsInv'
  BY <1>2, <1>3, <1>4, <1>5, <1>6, <1>7, <1>8 DEF Owner
<1>10. ASSUME Visitor \/ UNCHANGED vars PROVE stored' = stored
  BY <1>10 DEF Visitor, Arrive, Reuse, FindAsset, FindVersion, Admit, Look, Reply, Keep, Leave, rows, vars
<1>11. QED BY <1>1, <1>9, <1>10 DEF Next

LEMMA VisitorStep ==
  ASSUME ServiceInv, Visitor
  PROVE  DeliveryInv'
<1>1. UNCHANGED <<rows, writes>>
  BY DEF Visitor, Arrive, Reuse, FindAsset, FindVersion, Admit, Look, Reply, Keep, Leave
<1>2. AssetInv' /\ StoreInv'
  BY <1>1 DEF ServiceInv, DeliveryInv, AssetInv, StoreInv, Row, rows
<1>3. ASSUME kept' \in {kept, None} PROVE KeptInv'
  BY <1>1, <1>3, Rested, KeptStays DEF ServiceInv, DeliveryInv
<1>4. ASSUME NEW visit \in Visits, Arrive(visit) PROVE DeliveryInv'
  <2>1. kept' \in {kept, None} BY <1>4 DEF Arrive
  <2>2. QED BY <1>2, <1>3, <1>4, <2>1, ArriveStep DEF ServiceInv, DeliveryInv
<1>5. ASSUME NEW visit \in Visits, Reuse(visit) PROVE DeliveryInv'
  <2>1. kept' \in {kept, None} BY <1>5 DEF Reuse
  <2>2. QED BY <1>2, <1>3, <1>5, <2>1, ReuseStep DEF ServiceInv, DeliveryInv
<1>6. CASE FindAsset \/ FindVersion \/ Admit \/ Look \/ Reply
  <2>1. kept' \in {kept, None} BY <1>6 DEF FindAsset, FindVersion, Admit, Look, Reply
  <2>2. QED BY <1>2, <1>3, <1>6, <2>1, FindAssetStep, FindVersionStep, AdmitStep, LookStep, ReplyStep DEF ServiceInv, DeliveryInv
<1>7. CASE Keep
  BY <1>2, <1>7, KeepStep DEF ServiceInv, DeliveryInv
<1>8. CASE Leave
  <2>1. kept' \in {kept, None} /\ request' = Idle BY <1>8 DEF Leave
  <2>2. RequestInv' BY <2>1 DEF RequestInv
  <2>3. QED BY <1>2, <1>3, <2>1, <2>2 DEF ServiceInv, DeliveryInv
<1>9. QED BY <1>4, <1>5, <1>6, <1>7, <1>8 DEF Visitor

LEMMA InitStep == Init => ServiceInv
<1> SUFFICES ASSUME Init PROVE ServiceInv
  OBVIOUS
<1>1. AssetInv
  BY DEF Init, AssetInv, AssetFields
<1>2. request = Idle /\ kept = None
  BY DEF Init
<1>3. StoreInv
  <2>1. PICK first \in Versions \cup {None} :
          /\ version = [v \in Versions |-> IF v = first THEN [number |-> 1, hosting |-> NoHosting] ELSE None]
          /\ extraction = [u \in Uploads |-> IF u \in {Asset, first} THEN Begun(u) ELSE "no"]
          /\ writes = IF first = None THEN 0 ELSE 1
    BY DEF Init
  <2>2. \A v \in Versions : Row(v) => v = first /\ version[v] = [number |-> 1, hosting |-> NoHosting]
    BY <2>1 DEF Row
  <2>3. \A v \in Versions : v = first => writes = 1 /\ extraction[v] # "no"
    BY <2>1, DeliveryAssumption DEF Begun, Uploads
  <2>4. \A v \in Versions : Row(v) =>
          version[v].number = 1 /\ DOMAIN version[v] = {"number", "hosting"}
    BY <2>2
  <2>5. QED BY <2>1, <2>2, <2>3, <2>4 DEF StoreInv
<1>4. ObjectsInv
  <2>1. \A object \in stored : object[1] \in Uploads /\ object[2] = Main
    BY DeliveryAssumption DEF Init, Uploads
  <2>2. QED BY <2>1 DEF ObjectsInv
<1>5. QED BY <1>1, <1>2, <1>3, <1>4 DEF ServiceInv, DeliveryInv, RequestInv, KeptInv

LEMMA NextStep == ServiceInv /\ [Next]_vars => ServiceInv'
<1> SUFFICES ASSUME ServiceInv, [Next]_vars PROVE DeliveryInv'
  BY ObjectsStep DEF ServiceInv
<1>1. CASE UNCHANGED vars
  <2>1. UNCHANGED <<rows, writes, request, kept>>
    BY <1>1 DEF vars, rows
  <2>2. AssetInv' /\ StoreInv' /\ asset' = asset
    BY <2>1 DEF ServiceInv, DeliveryInv, AssetInv, StoreInv, Row, rows
  <2>3. QED BY <2>1, <2>2, Rested, AsideStep DEF ServiceInv
<1>2. QED BY <1>1, OwnerStep, VisitorStep DEF ServiceInv, Next

-------------------------------------------------------------------------------
(* The theorems.                                                           *)

\* From its first request on, delivery keeps the invariant: what was read of the
\* rows before an await (resolve-version.ts, resolve.ts:104-112) is what the
\* handler goes on with (handler.ts:359-483).
THEOREM Invariance == Spec => []ServiceInv
BY InitStep, NextStep, PTL DEF Spec

\* Without a proof, or with a foreign page's cookie, no file is read that was not
\* open while it was served (ADR-013 A2 and B7: caching.ts, cors.ts, resolve.ts).
THEOREM ClosedFilesStayClosed == Spec => []OnlookersSeeOpenFiles
<1>1. DeliveryInv => OnlookersSeeOpenFiles
  BY IdleFields DEF DeliveryInv, RequestInv, InFlight, Sound, Drafted, OnlookersSeeOpenFiles, Onlooker, Answered
<1>2. QED BY <1>1, Invariance, PTL DEF ServiceInv

\* No rule of an archive overrides the sandbox, the caching or the noindex of
\* delivery (site-routing.ts:92-105, handler.ts:499-509).
THEOREM DeliveryOutranks == Spec => []DeliveryOutranksRules
<1>1. DeliveryInv => DeliveryOutranksRules
  BY IdleFields DEF DeliveryInv, RequestInv, InFlight, Sound, Drafted, Headed, DeliveryOutranksRules, Served, Answered
<1>2. QED BY <1>1, Invariance, PTL DEF ServiceInv

\* What a cache keeps for ever of a version's own file is what the server would
\* answer now: for as long as the version is there its number, its objects and
\* the rules that apply to it stay what they were when the extractions of both
\* had ended (handler.ts:383-392, caching.ts:18-48).
THEOREM ImmutableAnswersStand == Spec => []ImmutableMeansImmutable
<1>1. DeliveryInv => ImmutableMeansImmutable
  <2> DEFINE visit == kept.visit
             path == kept.visit.path
             old == kept.answer.file
             u == old.upload
             now == [visit |-> visit, version |-> u, asset |-> asset, hosting |-> version[u].hosting]
             id == Resolve(visit).id
             v == IF id = Asset THEN Current(asset.active) ELSE id
             later == [now EXCEPT !.version = v, !.hosting = IF v = None THEN NoHosting ELSE version[v].hosting]
             found == Lookup(later)
  <2>1. SUFFICES ASSUME DeliveryInv, kept # None, kept.own, kept.answer.control = "immutable", Alive(u), id # None
                 PROVE  found.file = old /\ found.path = path /\ found.rule.status \in {0, 200}
    BY DEF ImmutableMeansImmutable, Alive
  <2>2. Promise(visit, old)
    BY <2>1 DEF DeliveryInv, KeptInv
  <2>3. u \in Versions /\ u # Asset /\ u # None
    BY <2>2, DeliveryAssumption DEF Promise, Uploads
  <2>4. id = u
    BY <2>1, <2>2, <2>3, NameResolves DEF Promise, DeliveryInv, Alive
  <2>5. later.visit = visit /\ later.version = u /\ later.asset = asset /\ later.hosting = version[u].hosting
    BY <2>3, <2>4
  <2> HIDE DEF later
  <2> DEFINE forced == SiteRedirect(later, path, TRUE)
  <2>6. /\ found.rule = forced
        /\ found.path = IF forced.status = 200 THEN forced.to ELSE path
        /\ found.file = Locate(u, found.path)
    BY <2>5 DEF Lookup
  <2>7. forced = Forced(u, path)
    BY <2>5, ForcedRule
  <2>8. Harmless(forced, path)
    BY <2>1, <2>2, <2>7 DEF Promise
  <2>9. found.path = path /\ found.rule.status \in {0, 200}
    BY <2>6, <2>8 DEF Harmless
  <2>10. old = [upload |-> u, key |-> Key(u, path)] /\ <<u, old.key>> \in stored
    BY <2>1, <2>2 DEF Promise
  <2> HIDE DEF old, path, found
  <2>11. old.key = Key(u, path)
    BY <2>10
  <2>12. Locate(u, path) = [upload |-> u, key |-> Key(u, path)]
    BY <2>3, <2>10, <2>11, LocateVersion
  <2>13. QED BY <2>6, <2>9, <2>10, <2>12
<1>2. QED BY <1>1, Invariance, PTL DEF ServiceInv

\* A part that is sent is the part that was asked for, and its headers, if any,
\* say which it is, for a file of any size whose decoded stream is cut into any
\* chunks: sliceStream (stream.ts:23-54) is followed chunk by chunk, and the
\* range of a plain file by the store's own arithmetic (handler.ts:746-755).
THEOREM PartsAreExact == Spec => []RangesAreExact
<1>1. ServiceInv => RangesAreExact
  BY IdleFields DEF ServiceInv, DeliveryInv, RequestInv, InFlight, Sound, Drafted, Measured, RangesAreExact, Served, Answered
<1>2. QED BY <1>1, Invariance, PTL
===============================================================================
