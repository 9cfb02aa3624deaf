--------------------------- MODULE AssetStoreProofs ---------------------------
(***************************************************************************)
(* The store for any assets, versions, requests in flight and faults: what *)
(* was deleted stays queued until it is wiped, a client's retry finds what *)
(* it uploaded, and in sequence extractions keep their archive and the     *)
(* counter is exact.                                                       *)
(***************************************************************************)
EXTENDS AssetStore, FiniteSetTheorems, TLAPS

-------------------------------------------------------------------------------
(* The invariant.                                                          *)

AnyKey == (Assets \cup {None}) \X (Versions \cup {None})
Places == {"idle", "commit", "undo", "existing", "head", "drop", "put", "delete", "read", "reset", "wipe", "queue",
           "count", "check", "update", "unqueue", "save"}
Requests ==
  [op : {"idle", "upload", "complete", "version", "unversion", "patch", "delete", "report", "extract"},
   at : Places, key : AnyKey, row : AssetRows \cup {None} \cup Fields]
Ticks ==
  [at : {"idle", "expired", "wipe", "versions", "row", "job", "list", "drain", "remove"},
   todo : SUBSET (Assets \cup Keys), now : Assets \cup Keys \cup {None}]

Busy(s) == slot[s].op # "idle"

\* What a request works on.
RequestOK(r) ==
  /\ r.op = "idle" => r = Idle
  /\ r.op # "idle" => r.key \in Keys
  /\ r.op \in {"upload", "complete", "patch", "delete", "extract"} => r.key[2] = None
  /\ r.op \in {"version", "unversion"} => r.key[2] # None
  /\ r.op = "patch" => r.row \in Fields
  /\ r.op = "report" => r.row \in AssetRows \cup {None}
  /\ r.op = "extract" => r.row \in AssetRows

CronOK ==
  /\ cron.at = "idle" => cron = Cron
  /\ cron.at \in {"expired", "wipe", "versions", "row", "job"} => cron.todo \subseteq Assets
  /\ cron.at \in {"wipe", "versions", "row", "job"} => cron.now \in Assets
  /\ cron.at \in {"drain", "remove"} => cron.todo \subseteq Keys
  /\ cron.at = "remove" => cron.now \in Keys

SlotsOK == slot \in [Slots -> Requests] /\ \A s \in Slots : RequestOK(slot[s])
CronsOK == cron \in Ticks /\ CronOK
TypeInv == TypeOK /\ SlotsOK /\ CronsOK /\ calm \in BOOLEAN /\ born \subseteq Assets /\ gone \subseteq Assets

\* Whatever names an asset or a version has been handed out.
Known(k) == k[1] \in ids /\ (k[2] # None => k[2] \in ids)
KnownInv ==
  /\ IsFiniteSet(ids) /\ born \subseteq ids /\ gone \subseteq born /\ multipart \subseteq ids
  /\ \A a \in Assets : /\ session[a] # None => a \in ids
                       /\ asset[a] # None => a \in born
  /\ \A v \in Versions : version[v] # None => v \in ids /\ version[v] \in ids
  /\ \A k \in objects \cup doomed \cup pending \cup active : Known(k)
  /\ \A s \in Slots : Busy(s) => Known(slot[s].key)
  /\ \A s \in Slots : slot[s].op \in {"report", "extract"} /\ slot[s].row # None => Asset(s) \in born
  /\ \A s \in Slots : slot[s].op = "delete" => Asset(s) \in born
  /\ cron.at \in {"expired", "wipe", "versions", "row", "job"} => cron.todo \subseteq born
  /\ cron.at = "wipe" => cron.now \in born
  /\ cron.at \in {"drain", "remove"} => \A k \in cron.todo : Known(k)
  /\ cron.at = "remove" => Known(cron.now)

\* Nobody speaks of a version before its row is there, nor of its object before it is put,
\* but the request that makes them.
New(s) == slot[s].op = "version" /\ slot[s].at \in {"put", "commit"}
Putting(s) == At(s, "version", "put")
FreshInv ==
  /\ \A s \in Slots : New(s) => LET v == slot[s].key[2] IN
       /\ v \in Versions /\ version[v] = None
       /\ \A k \in active : k[2] # v
       /\ \A t \in Slots : Busy(t) /\ slot[t].key[2] = v => s = t
  /\ \A s \in Slots : Putting(s) => LET v == slot[s].key[2] IN
       /\ \A k \in objects \cup doomed \cup pending : k[2] # v
       /\ cron.at \in {"drain", "remove"} => \A k \in cron.todo : k[2] # v
       /\ cron.at = "remove" => cron.now[2] # v

\* The prefix of a whole asset is wiped only when the asset was deleted;
GoneInv ==
  /\ \A k \in pending : k[2] = None => k[1] \in gone
  /\ \A s \in Slots : slot[s].op = "delete" /\ slot[s].at \in {"wipe", "unqueue"} => Asset(s) \in gone
  /\ cron.at \in {"drain", "remove"} => \A k \in cron.todo : k[2] = None => k[1] \in gone
  /\ cron.at = "remove" /\ cron.now[2] = None => cron.now[1] \in gone
  /\ \A k \in doomed : k[1] \in gone

\* a multipart upload that is not completed has no object, and a direct upload no session;
SessionInv ==
  /\ \A a \in Assets : a \in multipart => session[a] # "single" /\ <<a, None>> \notin objects \cup doomed
  /\ \A s \in Slots : slot[s].op = "upload" => Asset(s) \in Assets /\ session[Asset(s)] = None /\ Asset(s) \notin multipart

\* and a prefix that was wiped and is to be taken off the queue has nothing doomed left.
Below(k, p) == k[1] = p[1] /\ (p[2] = None \/ k[2] = p[2])
WipedInv ==
  /\ \A s \in Slots : At(s, "delete", "unqueue") => \A k \in doomed \cap objects : k[1] # Asset(s)
  /\ cron.at = "remove" => \A k \in objects : Below(k, cron.now) => k \notin doomed /\ cron.now[2] = None

\* While requests come one at a time, and nothing fails:
AloneInv == calm =>
  /\ \A s, t \in Slots : Busy(s) /\ Busy(t) => s = t
  /\ \A s \in Slots : Busy(s) => cron = Cron
  /\ \A s \in Slots : slot[s].at # "undo"

\* an asset has its file, but while the cron deletes it;
Filed == \A a \in Assets : asset[a] # None =>
  <<a, None>> \in objects \/ (cron.at \in {"versions", "row"} /\ cron.now = a)
Unhurried == cron.at \in {"wipe", "versions", "row"} => <<cron.now, None>> \notin active
StayGone == \A a \in Assets : a \in gone => asset[a] = None
Committing(s) == At(s, "upload", "commit") \/ At(s, "complete", "commit")
SessionsEnd == \A a \in Assets : a \in born /\ session[a] # None => \E s \in Slots : At(s, "complete", "drop") /\ Asset(s) = a
Unborn == \A s \in Slots :
  Committing(s) \/ At(s, "complete", "existing") \/ At(s, "complete", "head") => Asset(s) \notin born
Uploaded == \A s \in Slots : Committing(s) => slot[s].key \in objects
Present == \A s \in Slots :
  /\ slot[s].op \in {"report", "extract"} /\ slot[s].row # None => asset[Asset(s)] # None
  /\ At(s, "delete", "commit") => asset[Asset(s)] # None
FilesInv == calm => Filed /\ Unhurried /\ StayGone /\ SessionsEnd /\ Unborn /\ Uploaded /\ Present

\* and the counter is what is stored, with the version that is being deleted.
StoredAssets == {a \in Owned : asset[a] # None}
StoredVersions == {v \in Versions : version[v] \in Owned}
Uncounted == {s \in Slots : slot[s].op = "unversion" /\ slot[s].at # "delete" /\ Asset(s) \in Owned}
DeletingInv == \A s \in Slots : At(s, "unversion", "delete") => version[slot[s].key[2]] = Asset(s)
CountInv ==
  \/ cron.at = "row" /\ cron.now \in Owned
  \/ usage.size = Cardinality(StoredAssets) + Cardinality(StoredVersions) + (IF Uncounted = {} THEN 0 ELSE 1)
UsageInv == calm => DeletingInv /\ CountInv

StoreInv == TypeInv /\ KnownInv /\ FreshInv /\ GoneInv /\ SessionInv /\ WipedInv /\ DoomedIsQueued
            /\ RetryFindsTheObject /\ AloneInv /\ FilesInv /\ UsageInv

-------------------------------------------------------------------------------
(* Requests.                                                               *)

\* Keys are pairs.
LEMMA KeyFacts ==
  \A k \in Keys :
    /\ k[1] \in Assets /\ k[2] \in Versions \cup {None} /\ k = <<k[1], k[2]>>
    /\ \A p \in Keys : k \in Under(p) <=> Below(k, p)
BY DEF Keys, Under, Below

LEMMA RequestFacts ==
  ASSUME TypeInv, NEW s \in Slots, slot[s].op # "idle"
  PROVE  /\ slot[s].key \in Keys /\ Asset(s) \in Assets
         /\ slot[s].op \in {"upload", "complete", "patch", "delete", "extract"} =>
              \E a \in Assets : slot[s].key = <<a, None>>
         /\ slot[s].op \in {"version", "unversion"} =>
              \E a \in Assets, v \in Versions : slot[s].key = <<a, v>>
         /\ slot[s].op = "patch" => slot[s].row \in Fields
         /\ slot[s].op = "report" => slot[s].row \in AssetRows \cup {None}
         /\ slot[s].op = "extract" => slot[s].row \in AssetRows
<1>1. slot[s].key \in Keys /\ RequestOK(slot[s]) BY DEF TypeInv, SlotsOK, RequestOK
<1>2. PICK a \in Assets, v \in Versions \cup {None} : slot[s].key = <<a, v>> BY <1>1 DEF Keys
<1>3. QED BY <1>1, <1>2 DEF RequestOK, Asset

\* A request starts, goes on or ends; the others stay where they are.
LEMMA IdleFacts ==
  Idle \in Requests /\ RequestOK(Idle) /\ Idle.op = "idle" /\ Idle.at = "idle" /\ Idle.key = <<None, None>>
  /\ Idle.key[1] = None /\ Idle.key[2] = None /\ Idle.row = None
BY DEF Idle, Requests, RequestOK, AnyKey, Places

LEMMA Starts ==
  ASSUME TypeInv, NEW s \in Slots, NEW op, NEW at, NEW k, NEW row, Start(s, op, at, k, row),
         [op |-> op, at |-> at, key |-> k, row |-> row] \in Requests,
         RequestOK([op |-> op, at |-> at, key |-> k, row |-> row])
  PROVE  /\ SlotsOK' /\ CronsOK' /\ calm' \in BOOLEAN /\ faults' \in 0..MaxFaults
         /\ slot[s] = Idle /\ cron' = cron /\ \A t \in Slots \ {s} : slot'[t] = slot[t]
         /\ slot'[s].op = op /\ slot'[s].at = at /\ slot'[s].key = k /\ slot'[s].row = row
         /\ slot'[s].key[1] = k[1] /\ slot'[s].key[2] = k[2]
         /\ calm' => calm /\ (\A t \in Slots : slot[t].op = "idle") /\ cron = Cron
<1> DEFINE r == [op |-> op, at |-> at, key |-> k, row |-> row]
<1>1. slot' = [slot EXCEPT ![s] = r] /\ cron' = cron /\ faults' = faults /\ slot[s] = Idle
      /\ calm' = (calm /\ Quiet /\ cron = Cron)
  BY DEF Start
<1>2. slot'[s] = r /\ \A t \in Slots \ {s} : slot'[t] = slot[t] BY <1>1 DEF TypeInv, SlotsOK
<1>3. SlotsOK' BY <1>1, <1>2 DEF TypeInv, SlotsOK
<1>4. CronsOK' BY <1>1 DEF TypeInv, CronsOK, CronOK
<1>5. calm' \in BOOLEAN /\ faults' \in 0..MaxFaults BY <1>1 DEF TypeInv, TypeOK
<1>6. calm' => calm /\ (\A t \in Slots : slot[t].op = "idle") /\ cron = Cron BY <1>1, IdleFacts DEF Quiet
<1>7. QED BY <1>1, <1>2, <1>3, <1>4, <1>5, <1>6

LEMMA GoesOn ==
  ASSUME TypeInv, NEW s \in Slots, NEW at \in Places, GoTo(s, at), slot[s].op # "idle"
  PROVE  /\ SlotsOK' /\ CronsOK' /\ cron' = cron /\ \A t \in Slots \ {s} : slot'[t] = slot[t]
         /\ slot'[s].op = slot[s].op /\ slot'[s].at = at
         /\ slot'[s].key = slot[s].key /\ slot'[s].row = slot[s].row
<1>1. slot' = [slot EXCEPT ![s] = [slot[s] EXCEPT !.at = at]] /\ cron' = cron
  BY DEF GoTo, TypeInv, SlotsOK
<1>2. slot[s] \in Requests /\ RequestOK(slot[s]) BY DEF TypeInv, SlotsOK
<1>3. [slot[s] EXCEPT !.at = at] \in Requests BY <1>2 DEF Requests
<1>4. slot'[s] = [slot[s] EXCEPT !.at = at] /\ \A t \in Slots \ {s} : slot'[t] = slot[t]
  BY <1>1 DEF TypeInv, SlotsOK
<1>5. RequestOK(slot'[s]) BY <1>2, <1>4 DEF RequestOK, Requests
<1>6. SlotsOK' BY <1>1, <1>3, <1>4, <1>5 DEF TypeInv, SlotsOK
<1>7. CronsOK' BY <1>1 DEF TypeInv, CronsOK, CronOK
<1>8. QED BY <1>1, <1>2, <1>4, <1>6, <1>7 DEF Requests

LEMMA Returns ==
  ASSUME TypeInv, NEW s \in Slots, Return(s)
  PROVE  /\ SlotsOK' /\ CronsOK' /\ cron' = cron /\ \A t \in Slots \ {s} : slot'[t] = slot[t]
         /\ slot'[s] = Idle /\ slot'[s].op = "idle" /\ slot'[s].at = "idle" /\ slot'[s].key[2] = None
<1>1. slot' = [slot EXCEPT ![s] = Idle] /\ cron' = cron BY DEF Return
<1>2. slot'[s] = Idle /\ \A t \in Slots \ {s} : slot'[t] = slot[t] BY <1>1 DEF TypeInv, SlotsOK
<1>3. SlotsOK' BY <1>1, <1>2, IdleFacts DEF TypeInv, SlotsOK
<1>4. CronsOK' BY <1>1 DEF TypeInv, CronsOK, CronOK
<1>5. QED BY <1>1, <1>2, <1>3, <1>4, IdleFacts

LEMMA CronFacts == Cron \in Ticks /\ Cron.at = "idle" /\ Cron.todo = {} /\ Cron.now = None
BY DEF Cron, Ticks

LEMMA SameFacts ==
  ASSUME TypeInv, Same
  PROVE  calm' = calm /\ calm' \in BOOLEAN /\ faults' \in 0..MaxFaults
BY DEF Same, TypeInv, TypeOK

LEMMA FaultFacts ==
  ASSUME TypeInv, Fault
  PROVE  ~calm' /\ calm' \in BOOLEAN /\ faults' \in 0..MaxFaults
<1>1. faults \in 0..MaxFaults /\ MaxFaults \in Nat BY AssetStoreAssumption DEF TypeInv, TypeOK
<1>2. faults < MaxFaults /\ faults' = faults + 1 /\ calm' = FALSE BY DEF Fault
<1>3. faults' \in 0..MaxFaults BY <1>1, <1>2
<1>4. QED BY <1>2, <1>3

\* In sequence, nobody else is there.
LEMMA AloneFacts ==
  ASSUME AloneInv, NEW s \in Slots, slot[s].op # "idle"
  PROVE  calm => cron = Cron /\ cron.at = "idle" /\ \A t \in Slots \ {s} : slot[t].op = "idle"
BY CronFacts DEF AloneInv, Busy

\* The counter does not move and stands for the same rows.
LEMMA SameUsage ==
  ASSUME UsageInv, calm' => calm /\ DeletingInv', usage' = usage, StoredAssets' = StoredAssets,
         StoredVersions' = StoredVersions, Uncounted' = Uncounted,
         cron.at = "row" /\ cron.now \in Owned => cron'.at = "row" /\ cron'.now = cron.now
  PROVE  UsageInv'
BY DEF UsageInv, CountInv


\* The batch of an upload, or what is left of it after a fault.
LEMMA CreatedAsset ==
  ASSUME TypeInv, NEW a \in Assets, CreateAsset(a) \/ UNCHANGED <<rows, active>>
  PROVE  /\ asset' \in [Assets -> AssetRows \cup {None}] /\ usage' \in [size : Nat, count : Nat]
         /\ \A b \in Assets \ {a} : asset'[b] = asset[b]
         /\ asset[a] # None => asset'[a] # None
         /\ asset'[a] # None => asset[a] # None \/ a \in born'
         /\ born \subseteq born' /\ born' \subseteq born \cup {a}
         /\ active \subseteq active' /\ active' \subseteq active \cup {<<a, None>>}
         /\ version' = version /\ pending' = pending
<1>1. CASE CreateAsset(a)
  <2>1. usage' \in [size : Nat, count : Nat] BY <1>1 DEF CreateAsset, CountIf, Counted, TypeInv, TypeOK
  <2>2. QED BY <1>1, <2>1, AssetStoreAssumption DEF CreateAsset, TypeInv, TypeOK, AssetRows, Lifetime
<1>2. CASE UNCHANGED <<rows, active>> BY <1>2 DEF rows, TypeInv, TypeOK, AssetRows
<1>3. QED BY <1>1, <1>2

\* What is stored is finite: it has been handed out.
LEMMA StoredFinite ==
  ASSUME TypeInv, KnownInv
  PROVE  /\ IsFiniteSet(StoredAssets) /\ IsFiniteSet(StoredVersions) /\ \A a \in Assets : IsFiniteSet(Of(a))
         /\ Cardinality(StoredAssets) \in Nat /\ Cardinality(StoredVersions) \in Nat
         /\ \A a \in Assets : Cardinality(Of(a)) \in Nat
<1>1. IsFiniteSet(ids) BY DEF KnownInv
<1>2. StoredAssets \subseteq ids BY AssetStoreAssumption DEF StoredAssets, KnownInv
<1>3. StoredVersions \subseteq ids BY AssetStoreAssumption DEF StoredVersions, KnownInv
<1>4. \A a \in Assets : Of(a) \subseteq ids BY AssetStoreAssumption DEF Of, KnownInv
<1>5. QED BY <1>1, <1>2, <1>3, <1>4, FS_Subset, FS_CardinalityType

\* A new asset is counted, once.
LEMMA AssetCounted ==
  ASSUME TypeInv, KnownInv, CountInv, NEW a \in Assets, asset[a] = None, CreateAsset(a),
         cron.at # "row", Uncounted' = Uncounted
  PROVE  CountInv'
<1>1. asset' = [asset EXCEPT ![a] = [expires |-> Lifetime(a), current |-> None]] /\ version' = version
      /\ usage' = IF a \in Owned THEN Counted(1) ELSE usage
  BY DEF CreateAsset, CountIf
<1>2. asset'[a] # None /\ \A b \in Assets \ {a} : asset'[b] = asset[b]
  BY <1>1, AssetStoreAssumption DEF TypeInv, TypeOK, AssetRows, Lifetime
<1>3. StoredVersions' = StoredVersions BY <1>1 DEF StoredVersions
<1>4. usage.size = Cardinality(StoredAssets) + Cardinality(StoredVersions) + (IF Uncounted = {} THEN 0 ELSE 1)
  BY DEF CountInv
<1>5. CASE a \in Owned
  <2>1. StoredAssets' = StoredAssets \cup {a} BY <1>2, <1>5, AssetStoreAssumption DEF StoredAssets
  <2>2. a \notin StoredAssets BY DEF StoredAssets
  <2>3. Cardinality(StoredAssets') = Cardinality(StoredAssets) + 1
    BY <2>1, <2>2, StoredFinite, FS_AddElement
  <2>4. usage'.size = usage.size + 1 BY <1>1, <1>5 DEF Counted
  <2>5. QED BY <1>3, <1>4, <2>3, <2>4, StoredFinite DEF CountInv
<1>6. CASE a \notin Owned
  <2>1. StoredAssets' = StoredAssets BY <1>2, <1>6, AssetStoreAssumption DEF StoredAssets
  <2>2. usage' = usage BY <1>1, <1>6
  <2>3. QED BY <1>3, <1>4, <2>1, <2>2 DEF CountInv
<1>7. QED BY <1>5, <1>6

LEMMA Still ==
  ASSUME TypeInv, UNCHANGED <<slot, cron, calm, faults>>
  PROVE  /\ SlotsOK' /\ CronsOK' /\ slot' = slot /\ cron' = cron
         /\ calm' = calm /\ calm' \in BOOLEAN /\ faults' \in 0..MaxFaults
BY DEF TypeInv, TypeOK, SlotsOK, CronsOK, CronOK

LEMMA PatchFacts ==
  ASSUME TypeInv, NEW a \in Assets, NEW f, NEW x, <<f, x>> \in Fields, Patch(a, f, x)
  PROVE  /\ asset' \in [Assets -> AssetRows \cup {None}]
         /\ \A b \in Assets : asset'[b] # None <=> asset[b] # None
<1>1. CASE asset[a] = None BY <1>1 DEF Patch, TypeInv, TypeOK
<1>2. CASE asset[a] # None /\ f = "current"
  <2>1. asset[a] \in AssetRows /\ x \in Versions \cup {None} BY <1>2 DEF TypeInv, TypeOK, Fields
  <2>2. asset' = [asset EXCEPT ![a].current = x] BY <1>2 DEF Patch
  <2>3. QED BY <2>1, <2>2, AssetStoreAssumption DEF TypeInv, TypeOK, AssetRows
<1>3. CASE asset[a] # None /\ f = "expires"
  <2>1. asset[a] \in AssetRows /\ x \in {"never", "later", "past"} BY <1>3 DEF TypeInv, TypeOK, Fields
  <2>2. asset' = [asset EXCEPT ![a].expires = x] BY <1>3 DEF Patch
  <2>3. QED BY <2>1, <2>2, AssetStoreAssumption DEF TypeInv, TypeOK, AssetRows
<1>4. QED BY <1>1, <1>2, <1>3 DEF Fields

\* The counter never falls below zero.
LEMMA Floor == \A x \in Int : Max({0, x}) = IF x >= 0 THEN x ELSE 0
<1> SUFFICES ASSUME NEW x \in Int PROVE Max({0, x}) = IF x >= 0 THEN x ELSE 0
  OBVIOUS
<1>1. CASE x >= 0
  <2>1. \A y \in {0, x} : (\A z \in {0, x} : y >= z) <=> y = x BY <1>1
  <2>2. QED BY <1>1, <2>1 DEF Max
<1>2. CASE ~(x >= 0)
  <2>1. \A y \in {0, x} : (\A z \in {0, x} : y >= z) <=> y = 0 BY <1>2
  <2>2. QED BY <1>2, <2>1 DEF Max
<1>3. QED BY <1>1, <1>2

LEMMA DiscountedFacts ==
  ASSUME TypeInv, NEW n \in Nat
  PROVE  /\ Discounted(n) \in [size : Nat, count : Nat]
         /\ Discounted(n).size = IF usage.size >= n THEN usage.size - n ELSE 0
<1>1. usage.size \in Nat /\ usage.count \in Nat BY DEF TypeInv, TypeOK
<1>2. Max({0, usage.size - n}) = IF usage.size - n >= 0 THEN usage.size - n ELSE 0 BY <1>1, Floor
<1>3. Max({0, usage.count - 1}) = IF usage.count - 1 >= 0 THEN usage.count - 1 ELSE 0 BY <1>1, Floor
<1> DEFINE s == Max({0, usage.size - n})
           c == Max({0, usage.count - 1})
<1>4. s \in Nat /\ c \in Nat BY <1>1, <1>2, <1>3
<1>5. s = IF usage.size >= n THEN usage.size - n ELSE 0 BY <1>1, <1>2
<1> HIDE DEF s, c
<1>6. Discounted(n) = [size |-> s, count |-> c] BY DEF Discounted, s, c
<1>7. QED BY <1>4, <1>5, <1>6

\* The batch of a version, or what is left of it after a fault.
LEMMA CreatedVersion ==
  ASSUME TypeInv, NEW a \in Assets, NEW v \in Versions, CreateVersion(<<a, v>>) \/ UNCHANGED <<rows, active>>
  PROVE  /\ version' \in [Versions -> Assets \cup {None}] /\ usage' \in [size : Nat, count : Nat]
         /\ \A u \in Versions \ {v} : version'[u] = version[u]
         /\ version'[v] # None => version[v] # None \/ version'[v] = a
         /\ version'[v] \in {version[v], a}
         /\ active \subseteq active' /\ active' \subseteq active \cup {<<a, v>>}
         /\ asset' = asset /\ born' = born /\ pending' = pending
<1>1. CASE CreateVersion(<<a, v>>)
  <2>1. usage' \in [size : Nat, count : Nat] BY <1>1 DEF CreateVersion, CountIf, Counted, TypeInv, TypeOK
  <2>2. QED BY <1>1, <2>1, AssetStoreAssumption DEF CreateVersion, TypeInv, TypeOK
<1>2. CASE UNCHANGED <<rows, active>> BY <1>2 DEF rows, TypeInv, TypeOK
<1>3. QED BY <1>1, <1>2

LEMMA VersionCounted ==
  ASSUME TypeInv, KnownInv, CountInv, NEW a \in Assets, NEW v \in Versions, version[v] = None,
         CreateVersion(<<a, v>>), cron.at # "row", Uncounted' = Uncounted
  PROVE  CountInv'
<1>1. version' = [version EXCEPT ![v] = a] /\ asset' = asset
      /\ usage' = IF a \in Owned THEN Counted(1) ELSE usage
  BY DEF CreateVersion, CountIf
<1>2. version'[v] = a /\ \A u \in Versions \ {v} : version'[u] = version[u] BY <1>1 DEF TypeInv, TypeOK
<1>3. StoredAssets' = StoredAssets BY <1>1 DEF StoredAssets
<1>4. usage.size = Cardinality(StoredAssets) + Cardinality(StoredVersions) + (IF Uncounted = {} THEN 0 ELSE 1)
  BY DEF CountInv
<1>5. v \notin StoredVersions BY AssetStoreAssumption DEF StoredVersions
<1>6. CASE a \in Owned
  <2>1. StoredVersions' = StoredVersions \cup {v} BY <1>2, <1>6 DEF StoredVersions
  <2>2. Cardinality(StoredVersions') = Cardinality(StoredVersions) + 1
    BY <2>1, <1>5, StoredFinite, FS_AddElement
  <2>3. usage'.size = usage.size + 1 BY <1>1, <1>6 DEF Counted
  <2>4. QED BY <1>3, <1>4, <2>2, <2>3, StoredFinite DEF CountInv
<1>7. CASE a \notin Owned
  <2>1. StoredVersions' = StoredVersions BY <1>2, <1>5, <1>7 DEF StoredVersions
  <2>2. usage' = usage BY <1>1, <1>7
  <2>3. QED BY <1>3, <1>4, <2>1, <2>2 DEF CountInv
<1>8. QED BY <1>6, <1>7

\* A wipe leaves what is not under the prefix; when it is done it leaves nothing under it.
LEMMA Wipes ==
  ASSUME TypeInv, NEW p \in Keys, WipeDone(p) \/ WipePartial(p)
  PROVE  /\ objects' \subseteq objects
         /\ \A k \in objects : k \in objects' \/ Below(k, p)
         /\ WipeDone(p) => \A k \in objects' : ~Below(k, p)
         /\ calm' \in BOOLEAN /\ faults' \in 0..MaxFaults /\ (calm' => calm /\ WipeDone(p))
<1>1. CASE WipeDone(p)
  <2>1. objects' = objects \ Under(p) /\ Same BY <1>1 DEF WipeDone
  <2>2. calm' = calm /\ calm' \in BOOLEAN /\ faults' \in 0..MaxFaults BY <2>1, SameFacts
  <2>3. objects \subseteq Keys BY DEF TypeInv, TypeOK
  <2>4. \A k \in objects : k \in Under(p) <=> Below(k, p) BY <2>3, KeyFacts
  <2>5. QED BY <1>1, <2>1, <2>2, <2>4
<1>2. CASE WipePartial(p)
  <2>1. PICK kept \in SUBSET (objects \cap Under(p)) : objects' = (objects \ Under(p)) \cup kept
    BY <1>2 DEF WipePartial
  <2>2. ~calm' /\ calm' \in BOOLEAN /\ faults' \in 0..MaxFaults BY <1>2, FaultFacts DEF WipePartial
  <2>3. objects \subseteq Keys BY DEF TypeInv, TypeOK
  <2>4. \A k \in objects : k \in Under(p) <=> Below(k, p) BY <2>3, KeyFacts
  <2>5. objects' \subseteq objects /\ \A k \in objects : k \in objects' \/ k \in Under(p) BY <2>1
  <2>6. CASE WipeDone(p)
    <3>1. calm' = calm /\ objects' = objects \ Under(p) BY <2>6, SameFacts DEF WipeDone
    <3>2. QED BY <2>2, <2>4, <2>5, <3>1
  <2>7. QED BY <2>2, <2>4, <2>5, <2>6
<1>3. QED BY <1>1, <1>2

\* The tick moves; the requests stay.
LEMMA Ticking ==
  ASSUME TypeInv, NEW at, NEW todo, NEW now, cron' = [at |-> at, todo |-> todo, now |-> now], slot' = slot,
         at \in {"expired", "wipe", "versions", "row", "job", "list", "drain", "remove"},
         todo \subseteq Assets \cup Keys, now \in Assets \cup Keys \cup {None},
         at \in {"expired", "wipe", "versions", "row", "job"} => todo \subseteq Assets,
         at \in {"wipe", "versions", "row", "job"} => now \in Assets,
         at \in {"drain", "remove"} => todo \subseteq Keys,
         at = "remove" => now \in Keys
  PROVE  /\ SlotsOK' /\ CronsOK' /\ slot' = slot
         /\ cron'.at = at /\ cron'.todo = todo /\ cron'.now = now
<1>1. SlotsOK' BY DEF TypeInv, SlotsOK
<1>2. cron'.at = at /\ cron'.todo = todo /\ cron'.now = now OBVIOUS
<1>3. cron' \in Ticks BY DEF Ticks
<1>4. CronOK' BY <1>2 DEF CronOK
<1>5. QED BY <1>1, <1>2, <1>3, <1>4 DEF CronsOK

LEMMA Stepping ==
  ASSUME TypeInv, NEW at \in {"versions", "row", "job", "expired", "list"}, Step(at), slot' = slot,
         cron.at \in {"wipe", "versions", "row", "job"}
  PROVE  /\ SlotsOK' /\ CronsOK' /\ slot' = slot
         /\ cron'.at = at /\ cron'.todo = cron.todo /\ cron'.now = cron.now
<1>1. cron \in Ticks /\ cron.todo \subseteq Assets /\ cron.now \in Assets
  BY DEF TypeInv, CronsOK, CronOK
<1>2. cron' = [cron EXCEPT !.at = at] BY DEF Step
<1>3. cron'.at = at /\ cron'.todo = cron.todo /\ cron'.now = cron.now /\ cron' \in Ticks BY <1>1, <1>2 DEF Ticks
<1>4. CronOK' BY <1>1, <1>3 DEF CronOK
<1>5. SlotsOK' BY DEF TypeInv, SlotsOK
<1>6. QED BY <1>3, <1>4, <1>5 DEF CronsOK

LEMMA Resting ==
  ASSUME TypeInv, cron' = Cron, slot' = slot
  PROVE  SlotsOK' /\ CronsOK' /\ slot' = slot /\ cron'.at = "idle" /\ cron'.todo = {}
BY CronFacts DEF TypeInv, SlotsOK, CronsOK, CronOK

\* In sequence, no request runs beside the tick.
LEMMA TickAlone ==
  ASSUME AloneInv, cron.at # "idle"
  PROVE  calm => \A s \in Slots : slot[s].op = "idle"
BY CronFacts DEF AloneInv, Busy

LEMMA UploadKeeps ==
  ASSUME StoreInv, NEW s \in Slots, NEW a \in Assets, Upload(s, a)
  PROVE  StoreInv'
<1> USE DEF StoreInv
<1>1. [op |-> "upload", at |-> "commit", key |-> <<a, None>>, row |-> None] \in Requests /\ RequestOK([op |-> "upload", at |-> "commit", key |-> <<a, None>>, row |-> None])
  BY AssetStoreAssumption DEF Requests, AnyKey, Places, RequestOK, Keys, Idle
<1>2. /\ SlotsOK' /\ CronsOK' /\ calm' \in BOOLEAN /\ faults' \in 0..MaxFaults
      /\ slot[s] = Idle /\ cron' = cron /\ \A t \in Slots \ {s} : slot'[t] = slot[t]
      /\ slot'[s].op = "upload" /\ slot'[s].at = "commit" /\ slot'[s].key = <<a, None>> /\ slot'[s].row = None
      /\ slot'[s].key[1] = <<a, None>>[1] /\ slot'[s].key[2] = <<a, None>>[2]
      /\ calm' => calm /\ (\A t \in Slots : slot[t].op = "idle") /\ cron = Cron
  <2>1. Start(s, "upload", "commit", <<a, None>>, None) BY DEF Upload
  <2>2. QED BY <2>1, <1>1, Starts
<1>3. UNCHANGED <<asset, born, version, usage, pending, session, multipart, active, gone, doomed>> /\ objects' = objects \cup {<<a, None>>} /\ ids' = ids \cup {a} /\ a \notin ids
  BY DEF Upload, rows, store, history
<1>4. a \notin born BY <1>3 DEF KnownInv
<1>5. TypeInv' BY <1>1, <1>2, <1>3, <1>4 DEF TypeInv, TypeOK, Keys
<1>6. KnownInv' BY <1>1, <1>2, <1>3, <1>4, FS_AddElement DEF KnownInv, Known, Busy, Asset
<1>7. FreshInv' BY <1>1, <1>2, <1>3, <1>4, AssetStoreAssumption DEF FreshInv, New, Putting, Busy, At
<1>8. GoneInv' BY <1>1, <1>2, <1>3, <1>4 DEF GoneInv, Asset
<1>9. SessionInv' BY <1>1, <1>2, <1>3, <1>4 DEF SessionInv, KnownInv, Known, Asset
<1>10. WipedInv' BY <1>1, <1>2, <1>3, <1>4 DEF WipedInv, Below, KnownInv, Known, GoneInv, At, Asset
<1>11. DoomedIsQueued' BY <1>1, <1>2, <1>3, <1>4 DEF DoomedIsQueued, Covered, KnownInv, Known
<1>12. RetryFindsTheObject' BY <1>1, <1>2, <1>3, <1>4 DEF RetryFindsTheObject
<1>13. AloneInv' BY <1>1, <1>2, <1>3, <1>4 DEF AloneInv, Busy
<1>14. FilesInv'
  BY <1>1, <1>2, <1>3, <1>4, IdleFacts DEF FilesInv, Filed, Unhurried, StayGone, SessionsEnd, Unborn, Uploaded,
       Present, Committing, At, Asset
<1>15. UsageInv'
  <2>1. calm' => calm /\ DeletingInv' BY <1>1, <1>2, <1>3, <1>4 DEF UsageInv, DeletingInv, At, Asset
  <2>2. StoredAssets' = StoredAssets /\ StoredVersions' = StoredVersions BY <1>1, <1>2, <1>3, <1>4 DEF StoredAssets, StoredVersions
  <2>3. Uncounted' = Uncounted BY <1>1, <1>2, <1>3, <1>4, IdleFacts DEF Uncounted, Asset
  <2>4. QED BY <2>1, <2>2, <2>3, <1>1, <1>2, <1>3, <1>4, SameUsage
<1>16. QED BY <1>5, <1>6, <1>7, <1>8, <1>9, <1>10, <1>11, <1>12, <1>13, <1>14, <1>15

LEMMA CompleteKeeps ==
  ASSUME StoreInv, NEW s \in Slots, NEW a \in Assets, Complete(s, a)
  PROVE  StoreInv'
<1> USE DEF StoreInv
<1>1. [op |-> "complete", at |-> "existing", key |-> <<a, None>>, row |-> None] \in Requests /\ RequestOK([op |-> "complete", at |-> "existing", key |-> <<a, None>>, row |-> None])
  BY AssetStoreAssumption DEF Requests, AnyKey, Places, RequestOK, Keys, Idle
<1>2. /\ SlotsOK' /\ CronsOK' /\ calm' \in BOOLEAN /\ faults' \in 0..MaxFaults
      /\ slot[s] = Idle /\ cron' = cron /\ \A t \in Slots \ {s} : slot'[t] = slot[t]
      /\ slot'[s].op = "complete" /\ slot'[s].at = "existing" /\ slot'[s].key = <<a, None>> /\ slot'[s].row = None
      /\ slot'[s].key[1] = <<a, None>>[1] /\ slot'[s].key[2] = <<a, None>>[2]
      /\ calm' => calm /\ (\A t \in Slots : slot[t].op = "idle") /\ cron = Cron
  <2>1. Start(s, "complete", "existing", <<a, None>>, None) BY DEF Complete
  <2>2. QED BY <2>1, <1>1, Starts
<1>3. UNCHANGED <<asset, born, version, usage, pending, objects, session, multipart, active, ids, gone, doomed>> /\ session[a] # None
  BY DEF Complete, rows, store, history
<1>4. TypeInv' BY <1>1, <1>2, <1>3 DEF TypeInv, TypeOK, Keys
<1>5. KnownInv' BY <1>1, <1>2, <1>3 DEF KnownInv, Known, Busy, Asset
<1>6. FreshInv' BY <1>1, <1>2, <1>3, AssetStoreAssumption DEF FreshInv, New, Putting, Busy, At
<1>7. GoneInv' BY <1>1, <1>2, <1>3 DEF GoneInv, Asset
<1>8. SessionInv' BY <1>1, <1>2, <1>3 DEF SessionInv, KnownInv, Known, Asset
<1>9. WipedInv' BY <1>1, <1>2, <1>3 DEF WipedInv, Below, KnownInv, Known, GoneInv, At, Asset
<1>10. DoomedIsQueued' BY <1>1, <1>2, <1>3 DEF DoomedIsQueued, Covered, KnownInv, Known
<1>11. RetryFindsTheObject' BY <1>1, <1>2, <1>3 DEF RetryFindsTheObject
<1>12. AloneInv' BY <1>1, <1>2, <1>3 DEF AloneInv, Busy
<1>13. FilesInv'
  BY <1>1, <1>2, <1>3, IdleFacts DEF FilesInv, Filed, Unhurried, StayGone, SessionsEnd, Unborn, Uploaded,
       Present, Committing, At, Asset
<1>14. UsageInv'
  <2>1. calm' => calm /\ DeletingInv' BY <1>1, <1>2, <1>3 DEF UsageInv, DeletingInv, At, Asset
  <2>2. StoredAssets' = StoredAssets /\ StoredVersions' = StoredVersions BY <1>1, <1>2, <1>3 DEF StoredAssets, StoredVersions
  <2>3. Uncounted' = Uncounted BY <1>1, <1>2, <1>3, IdleFacts DEF Uncounted, Asset
  <2>4. QED BY <2>1, <2>2, <2>3, <1>1, <1>2, <1>3, SameUsage
<1>15. QED BY <1>4, <1>5, <1>6, <1>7, <1>8, <1>9, <1>10, <1>11, <1>12, <1>13, <1>14

LEMMA DeleteVersionKeeps ==
  ASSUME StoreInv, NEW s \in Slots, NEW v \in Versions, DeleteVersion(s, v)
  PROVE  StoreInv'
<1> USE DEF StoreInv
<1>1. [op |-> "unversion", at |-> "delete", key |-> <<version[v], v>>, row |-> None] \in Requests /\ RequestOK([op |-> "unversion", at |-> "delete", key |-> <<version[v], v>>, row |-> None])
  BY AssetStoreAssumption DEF Requests, AnyKey, Places, RequestOK, Keys, Idle, DeleteVersion, TypeInv, TypeOK
<1>2. /\ SlotsOK' /\ CronsOK' /\ calm' \in BOOLEAN /\ faults' \in 0..MaxFaults
      /\ slot[s] = Idle /\ cron' = cron /\ \A t \in Slots \ {s} : slot'[t] = slot[t]
      /\ slot'[s].op = "unversion" /\ slot'[s].at = "delete" /\ slot'[s].key = <<version[v], v>> /\ slot'[s].row = None
      /\ slot'[s].key[1] = <<version[v], v>>[1] /\ slot'[s].key[2] = <<version[v], v>>[2]
      /\ calm' => calm /\ (\A t \in Slots : slot[t].op = "idle") /\ cron = Cron
  <2>1. Start(s, "unversion", "delete", <<version[v], v>>, None) BY DEF DeleteVersion
  <2>2. QED BY <2>1, <1>1, Starts
<1>3. UNCHANGED <<asset, born, version, usage, pending, objects, session, multipart, active, ids, gone, doomed>> /\ version[v] # None
  BY DEF DeleteVersion, rows, store, history
<1>4. TypeInv' BY <1>1, <1>2, <1>3 DEF TypeInv, TypeOK, Keys
<1>5. KnownInv' BY <1>1, <1>2, <1>3 DEF KnownInv, Known, Busy, Asset
<1>6. FreshInv' BY <1>1, <1>2, <1>3, AssetStoreAssumption DEF FreshInv, New, Putting, Busy, At
<1>7. GoneInv' BY <1>1, <1>2, <1>3 DEF GoneInv, Asset
<1>8. SessionInv' BY <1>1, <1>2, <1>3 DEF SessionInv, KnownInv, Known, Asset
<1>9. WipedInv' BY <1>1, <1>2, <1>3 DEF WipedInv, Below, KnownInv, Known, GoneInv, At, Asset
<1>10. DoomedIsQueued' BY <1>1, <1>2, <1>3 DEF DoomedIsQueued, Covered, KnownInv, Known
<1>11. RetryFindsTheObject' BY <1>1, <1>2, <1>3 DEF RetryFindsTheObject
<1>12. AloneInv' BY <1>1, <1>2, <1>3 DEF AloneInv, Busy
<1>13. FilesInv'
  BY <1>1, <1>2, <1>3, IdleFacts DEF FilesInv, Filed, Unhurried, StayGone, SessionsEnd, Unborn, Uploaded,
       Present, Committing, At, Asset
<1>14. UsageInv'
  <2>1. calm' => calm /\ DeletingInv' BY <1>1, <1>2, <1>3 DEF UsageInv, DeletingInv, At, Asset
  <2>2. StoredAssets' = StoredAssets /\ StoredVersions' = StoredVersions BY <1>1, <1>2, <1>3 DEF StoredAssets, StoredVersions
  <2>3. Uncounted' = Uncounted BY <1>1, <1>2, <1>3, IdleFacts DEF Uncounted, Asset
  <2>4. QED BY <2>1, <2>2, <2>3, <1>1, <1>2, <1>3, SameUsage
<1>15. QED BY <1>4, <1>5, <1>6, <1>7, <1>8, <1>9, <1>10, <1>11, <1>12, <1>13, <1>14

LEMMA UpdateAssetKeeps ==
  ASSUME StoreInv, NEW s \in Slots, NEW a \in Assets, NEW f \in Fields, UpdateAsset(s, a, f)
  PROVE  StoreInv'
<1> USE DEF StoreInv
<1>1. PICK at \in {"check", "update"} : Start(s, "patch", at, <<a, None>>, f)
  BY DEF UpdateAsset
<1>2. [op |-> "patch", at |-> at, key |-> <<a, None>>, row |-> f] \in Requests /\ RequestOK([op |-> "patch", at |-> at, key |-> <<a, None>>, row |-> f])
  BY AssetStoreAssumption DEF Requests, AnyKey, Places, RequestOK, Keys, Idle
<1>3. /\ SlotsOK' /\ CronsOK' /\ calm' \in BOOLEAN /\ faults' \in 0..MaxFaults
      /\ slot[s] = Idle /\ cron' = cron /\ \A t \in Slots \ {s} : slot'[t] = slot[t]
      /\ slot'[s].op = "patch" /\ slot'[s].at = at /\ slot'[s].key = <<a, None>> /\ slot'[s].row = f
      /\ slot'[s].key[1] = <<a, None>>[1] /\ slot'[s].key[2] = <<a, None>>[2]
      /\ calm' => calm /\ (\A t \in Slots : slot[t].op = "idle") /\ cron = Cron
  <2>1. Start(s, "patch", at, <<a, None>>, f) BY <1>1
  <2>2. QED BY <2>1, <1>2, Starts
<1>4. UNCHANGED <<asset, born, version, usage, pending, objects, session, multipart, active, ids, gone, doomed>> /\ asset[a] # None
  BY DEF UpdateAsset, rows, store, history
<1>5. TypeInv' BY <1>1, <1>2, <1>3, <1>4 DEF TypeInv, TypeOK, Keys
<1>6. KnownInv' BY <1>1, <1>2, <1>3, <1>4 DEF KnownInv, Known, Busy, Asset
<1>7. FreshInv' BY <1>1, <1>2, <1>3, <1>4, AssetStoreAssumption DEF FreshInv, New, Putting, Busy, At
<1>8. GoneInv' BY <1>1, <1>2, <1>3, <1>4 DEF GoneInv, Asset
<1>9. SessionInv' BY <1>1, <1>2, <1>3, <1>4 DEF SessionInv, KnownInv, Known, Asset
<1>10. WipedInv' BY <1>1, <1>2, <1>3, <1>4 DEF WipedInv, Below, KnownInv, Known, GoneInv, At, Asset
<1>11. DoomedIsQueued' BY <1>1, <1>2, <1>3, <1>4 DEF DoomedIsQueued, Covered, KnownInv, Known
<1>12. RetryFindsTheObject' BY <1>1, <1>2, <1>3, <1>4 DEF RetryFindsTheObject
<1>13. AloneInv' BY <1>1, <1>2, <1>3, <1>4 DEF AloneInv, Busy
<1>14. FilesInv'
  BY <1>1, <1>2, <1>3, <1>4, IdleFacts DEF FilesInv, Filed, Unhurried, StayGone, SessionsEnd, Unborn, Uploaded,
       Present, Committing, At, Asset
<1>15. UsageInv'
  <2>1. calm' => calm /\ DeletingInv' BY <1>1, <1>2, <1>3, <1>4 DEF UsageInv, DeletingInv, At, Asset
  <2>2. StoredAssets' = StoredAssets /\ StoredVersions' = StoredVersions BY <1>1, <1>2, <1>3, <1>4 DEF StoredAssets, StoredVersions
  <2>3. Uncounted' = Uncounted BY <1>1, <1>2, <1>3, <1>4, IdleFacts DEF Uncounted, Asset
  <2>4. QED BY <2>1, <2>2, <2>3, <1>1, <1>2, <1>3, <1>4, SameUsage
<1>16. QED BY <1>5, <1>6, <1>7, <1>8, <1>9, <1>10, <1>11, <1>12, <1>13, <1>14, <1>15

LEMMA DeleteAssetKeeps ==
  ASSUME StoreInv, NEW s \in Slots, NEW a \in Assets, DeleteAsset(s, a)
  PROVE  StoreInv'
<1> USE DEF StoreInv
<1>1. [op |-> "delete", at |-> "commit", key |-> <<a, None>>, row |-> None] \in Requests /\ RequestOK([op |-> "delete", at |-> "commit", key |-> <<a, None>>, row |-> None])
  BY AssetStoreAssumption DEF Requests, AnyKey, Places, RequestOK, Keys, Idle
<1>2. /\ SlotsOK' /\ CronsOK' /\ calm' \in BOOLEAN /\ faults' \in 0..MaxFaults
      /\ slot[s] = Idle /\ cron' = cron /\ \A t \in Slots \ {s} : slot'[t] = slot[t]
      /\ slot'[s].op = "delete" /\ slot'[s].at = "commit" /\ slot'[s].key = <<a, None>> /\ slot'[s].row = None
      /\ slot'[s].key[1] = <<a, None>>[1] /\ slot'[s].key[2] = <<a, None>>[2]
      /\ calm' => calm /\ (\A t \in Slots : slot[t].op = "idle") /\ cron = Cron
  <2>1. Start(s, "delete", "commit", <<a, None>>, None) BY DEF DeleteAsset
  <2>2. QED BY <2>1, <1>1, Starts
<1>3. UNCHANGED <<asset, born, version, usage, pending, objects, session, multipart, active, ids, gone, doomed>> /\ asset[a] # None
  BY DEF DeleteAsset, rows, store, history
<1>4. TypeInv' BY <1>1, <1>2, <1>3 DEF TypeInv, TypeOK, Keys
<1>5. KnownInv' BY <1>1, <1>2, <1>3 DEF KnownInv, Known, Busy, Asset
<1>6. FreshInv' BY <1>1, <1>2, <1>3, AssetStoreAssumption DEF FreshInv, New, Putting, Busy, At
<1>7. GoneInv' BY <1>1, <1>2, <1>3 DEF GoneInv, Asset
<1>8. SessionInv' BY <1>1, <1>2, <1>3 DEF SessionInv, KnownInv, Known, Asset
<1>9. WipedInv' BY <1>1, <1>2, <1>3 DEF WipedInv, Below, KnownInv, Known, GoneInv, At, Asset
<1>10. DoomedIsQueued' BY <1>1, <1>2, <1>3 DEF DoomedIsQueued, Covered, KnownInv, Known
<1>11. RetryFindsTheObject' BY <1>1, <1>2, <1>3 DEF RetryFindsTheObject
<1>12. AloneInv' BY <1>1, <1>2, <1>3 DEF AloneInv, Busy
<1>13. FilesInv'
  BY <1>1, <1>2, <1>3, IdleFacts DEF FilesInv, Filed, Unhurried, StayGone, SessionsEnd, Unborn, Uploaded,
       Present, Committing, At, Asset
<1>14. UsageInv'
  <2>1. calm' => calm /\ DeletingInv' BY <1>1, <1>2, <1>3 DEF UsageInv, DeletingInv, At, Asset
  <2>2. StoredAssets' = StoredAssets /\ StoredVersions' = StoredVersions BY <1>1, <1>2, <1>3 DEF StoredAssets, StoredVersions
  <2>3. Uncounted' = Uncounted BY <1>1, <1>2, <1>3, IdleFacts DEF Uncounted, Asset
  <2>4. QED BY <2>1, <2>2, <2>3, <1>1, <1>2, <1>3, SameUsage
<1>15. QED BY <1>4, <1>5, <1>6, <1>7, <1>8, <1>9, <1>10, <1>11, <1>12, <1>13, <1>14

LEMMA ReportKeeps ==
  ASSUME StoreInv, NEW s \in Slots, NEW k \in active, Report(s, k)
  PROVE  StoreInv'
<1> USE DEF StoreInv
<1>1. [op |-> "report", at |-> "save", key |-> k, row |-> asset[k[1]]] \in Requests /\ RequestOK([op |-> "report", at |-> "save", key |-> k, row |-> asset[k[1]]])
  BY KeyFacts, AssetStoreAssumption DEF Requests, AnyKey, Places, RequestOK, Keys, Idle, AssetRows, TypeInv, TypeOK
<1>2. /\ SlotsOK' /\ CronsOK' /\ calm' \in BOOLEAN /\ faults' \in 0..MaxFaults
      /\ slot[s] = Idle /\ cron' = cron /\ \A t \in Slots \ {s} : slot'[t] = slot[t]
      /\ slot'[s].op = "report" /\ slot'[s].at = "save" /\ slot'[s].key = k /\ slot'[s].row = asset[k[1]]
      /\ slot'[s].key[1] = k[1] /\ slot'[s].key[2] = k[2]
      /\ calm' => calm /\ (\A t \in Slots : slot[t].op = "idle") /\ cron = Cron
  <2>1. Start(s, "report", "save", k, asset[k[1]]) BY DEF Report
  <2>2. QED BY <2>1, <1>1, Starts
<1>3. UNCHANGED <<asset, born, version, usage, pending, objects, session, multipart, active, ids, gone, doomed>> /\ k \in active /\ k[1] \in Assets
  BY KeyFacts DEF Report, rows, store, history, TypeInv, TypeOK
<1>4. TypeInv' BY <1>1, <1>2, <1>3 DEF TypeInv, TypeOK, Keys
<1>5. KnownInv' BY <1>1, <1>2, <1>3 DEF KnownInv, Known, Busy, Asset
<1>6. FreshInv' BY <1>1, <1>2, <1>3, AssetStoreAssumption DEF FreshInv, New, Putting, Busy, At
<1>7. GoneInv' BY <1>1, <1>2, <1>3 DEF GoneInv, Asset
<1>8. SessionInv' BY <1>1, <1>2, <1>3 DEF SessionInv, KnownInv, Known, Asset
<1>9. WipedInv' BY <1>1, <1>2, <1>3 DEF WipedInv, Below, KnownInv, Known, GoneInv, At, Asset
<1>10. DoomedIsQueued' BY <1>1, <1>2, <1>3 DEF DoomedIsQueued, Covered, KnownInv, Known
<1>11. RetryFindsTheObject' BY <1>1, <1>2, <1>3 DEF RetryFindsTheObject
<1>12. AloneInv' BY <1>1, <1>2, <1>3 DEF AloneInv, Busy
<1>13. FilesInv'
  BY <1>1, <1>2, <1>3, IdleFacts DEF FilesInv, Filed, Unhurried, StayGone, SessionsEnd, Unborn, Uploaded,
       Present, Committing, At, Asset
<1>14. UsageInv'
  <2>1. calm' => calm /\ DeletingInv' BY <1>1, <1>2, <1>3 DEF UsageInv, DeletingInv, At, Asset
  <2>2. StoredAssets' = StoredAssets /\ StoredVersions' = StoredVersions BY <1>1, <1>2, <1>3 DEF StoredAssets, StoredVersions
  <2>3. Uncounted' = Uncounted BY <1>1, <1>2, <1>3, IdleFacts DEF Uncounted, Asset
  <2>4. QED BY <2>1, <2>2, <2>3, <1>1, <1>2, <1>3, SameUsage
<1>15. QED BY <1>4, <1>5, <1>6, <1>7, <1>8, <1>9, <1>10, <1>11, <1>12, <1>13, <1>14

LEMMA ExtractKeeps ==
  ASSUME StoreInv, NEW s \in Slots, NEW a \in Assets, Extract(s, a)
  PROVE  StoreInv'
<1> USE DEF StoreInv
<1>1. [op |-> "extract", at |-> "save", key |-> <<a, None>>, row |-> asset[a]] \in Requests /\ RequestOK([op |-> "extract", at |-> "save", key |-> <<a, None>>, row |-> asset[a]])
  BY AssetStoreAssumption DEF Requests, AnyKey, Places, RequestOK, Keys, Idle, AssetRows, Extract, TypeInv, TypeOK
<1>2. /\ SlotsOK' /\ CronsOK' /\ calm' \in BOOLEAN /\ faults' \in 0..MaxFaults
      /\ slot[s] = Idle /\ cron' = cron /\ \A t \in Slots \ {s} : slot'[t] = slot[t]
      /\ slot'[s].op = "extract" /\ slot'[s].at = "save" /\ slot'[s].key = <<a, None>> /\ slot'[s].row = asset[a]
      /\ slot'[s].key[1] = <<a, None>>[1] /\ slot'[s].key[2] = <<a, None>>[2]
      /\ calm' => calm /\ (\A t \in Slots : slot[t].op = "idle") /\ cron = Cron
  <2>1. Start(s, "extract", "save", <<a, None>>, asset[a]) BY DEF Extract
  <2>2. QED BY <2>1, <1>1, Starts
<1>3. UNCHANGED <<asset, born, version, usage, pending, objects, session, multipart, active, ids, gone, doomed>> /\ asset[a] # None
  BY DEF Extract, rows, store, history
<1>4. TypeInv' BY <1>1, <1>2, <1>3 DEF TypeInv, TypeOK, Keys
<1>5. KnownInv' BY <1>1, <1>2, <1>3 DEF KnownInv, Known, Busy, Asset
<1>6. FreshInv' BY <1>1, <1>2, <1>3, AssetStoreAssumption DEF FreshInv, New, Putting, Busy, At
<1>7. GoneInv' BY <1>1, <1>2, <1>3 DEF GoneInv, Asset
<1>8. SessionInv' BY <1>1, <1>2, <1>3 DEF SessionInv, KnownInv, Known, Asset
<1>9. WipedInv' BY <1>1, <1>2, <1>3 DEF WipedInv, Below, KnownInv, Known, GoneInv, At, Asset
<1>10. DoomedIsQueued' BY <1>1, <1>2, <1>3 DEF DoomedIsQueued, Covered, KnownInv, Known
<1>11. RetryFindsTheObject' BY <1>1, <1>2, <1>3 DEF RetryFindsTheObject
<1>12. AloneInv' BY <1>1, <1>2, <1>3 DEF AloneInv, Busy
<1>13. FilesInv'
  BY <1>1, <1>2, <1>3, IdleFacts DEF FilesInv, Filed, Unhurried, StayGone, SessionsEnd, Unborn, Uploaded,
       Present, Committing, At, Asset
<1>14. UsageInv'
  <2>1. calm' => calm /\ DeletingInv' BY <1>1, <1>2, <1>3 DEF UsageInv, DeletingInv, At, Asset
  <2>2. StoredAssets' = StoredAssets /\ StoredVersions' = StoredVersions BY <1>1, <1>2, <1>3 DEF StoredAssets, StoredVersions
  <2>3. Uncounted' = Uncounted BY <1>1, <1>2, <1>3, IdleFacts DEF Uncounted, Asset
  <2>4. QED BY <2>1, <2>2, <2>3, <1>1, <1>2, <1>3, SameUsage
<1>15. QED BY <1>4, <1>5, <1>6, <1>7, <1>8, <1>9, <1>10, <1>11, <1>12, <1>13, <1>14

LEMMA UploadVersionKeeps ==
  ASSUME StoreInv, NEW s \in Slots, NEW a \in Assets, NEW v \in Versions, UploadVersion(s, a, v)
  PROVE  StoreInv'
<1> USE DEF StoreInv
<1>1. [op |-> "version", at |-> "put", key |-> <<a, v>>, row |-> None] \in Requests /\ RequestOK([op |-> "version", at |-> "put", key |-> <<a, v>>, row |-> None])
  BY AssetStoreAssumption DEF Requests, AnyKey, Places, RequestOK, Keys, Idle
<1>2. /\ SlotsOK' /\ CronsOK' /\ calm' \in BOOLEAN /\ faults' \in 0..MaxFaults
      /\ slot[s] = Idle /\ cron' = cron /\ \A t \in Slots \ {s} : slot'[t] = slot[t]
      /\ slot'[s].op = "version" /\ slot'[s].at = "put" /\ slot'[s].key = <<a, v>> /\ slot'[s].row = None
      /\ slot'[s].key[1] = <<a, v>>[1] /\ slot'[s].key[2] = <<a, v>>[2]
      /\ calm' => calm /\ (\A t \in Slots : slot[t].op = "idle") /\ cron = Cron
  <2>1. Start(s, "version", "put", <<a, v>>, None) BY DEF UploadVersion
  <2>2. QED BY <2>1, <1>1, Starts
<1>3. UNCHANGED <<asset, born, version, usage, pending, objects, session, multipart, active, gone, doomed>> /\ ids' = ids \cup {v} /\ v \notin ids /\ asset[a] # None
  BY DEF UploadVersion, rows, store, history
<1>4. TypeInv' BY <1>1, <1>2, <1>3 DEF TypeInv, TypeOK, Keys
<1>5. KnownInv' BY <1>1, <1>2, <1>3, FS_AddElement DEF KnownInv, Known, Busy, Asset
<1>6. FreshInv' BY <1>1, <1>2, <1>3, AssetStoreAssumption DEF FreshInv, New, Putting, Busy, At, KnownInv, Known
<1>7. GoneInv' BY <1>1, <1>2, <1>3 DEF GoneInv, Asset
<1>8. SessionInv' BY <1>1, <1>2, <1>3 DEF SessionInv, KnownInv, Known, Asset
<1>9. WipedInv' BY <1>1, <1>2, <1>3 DEF WipedInv, Below, KnownInv, Known, GoneInv, At, Asset
<1>10. DoomedIsQueued' BY <1>1, <1>2, <1>3 DEF DoomedIsQueued, Covered, KnownInv, Known
<1>11. RetryFindsTheObject' BY <1>1, <1>2, <1>3 DEF RetryFindsTheObject
<1>12. AloneInv' BY <1>1, <1>2, <1>3 DEF AloneInv, Busy
<1>13. FilesInv'
  BY <1>1, <1>2, <1>3, IdleFacts DEF FilesInv, Filed, Unhurried, StayGone, SessionsEnd, Unborn, Uploaded,
       Present, Committing, At, Asset
<1>14. UsageInv'
  <2>1. calm' => calm /\ DeletingInv' BY <1>1, <1>2, <1>3 DEF UsageInv, DeletingInv, At, Asset
  <2>2. StoredAssets' = StoredAssets /\ StoredVersions' = StoredVersions BY <1>1, <1>2, <1>3 DEF StoredAssets, StoredVersions
  <2>3. Uncounted' = Uncounted BY <1>1, <1>2, <1>3, IdleFacts DEF Uncounted, Asset
  <2>4. QED BY <2>1, <2>2, <2>3, <1>1, <1>2, <1>3, SameUsage
<1>15. QED BY <1>4, <1>5, <1>6, <1>7, <1>8, <1>9, <1>10, <1>11, <1>12, <1>13, <1>14

LEMMA UploadCommitKeeps ==
  ASSUME StoreInv, NEW s \in Slots, UploadCommit(s)
  PROVE  StoreInv'
<1> USE DEF StoreInv
<1>1. PICK a \in Assets :
      /\ slot[s].op = "upload" /\ slot[s].at = "commit" /\ slot[s].key = <<a, None>> /\ Asset(s) = a
      /\ slot[s].key[1] = a /\ slot[s].key[2] = None
  BY RequestFacts DEF UploadCommit, At, Asset
<1>2. calm => cron = Cron /\ cron.at = "idle" /\ \A t \in Slots \ {s} : slot[t].op = "idle"
  BY <1>1, AloneFacts
<1>3. /\ SlotsOK' /\ CronsOK' /\ cron' = cron /\ \A t \in Slots \ {s} : slot'[t] = slot[t]
      /\ slot'[s].op \in {"idle", "upload"} /\ (slot'[s].op = "idle" => slot'[s].at = "idle") /\ (calm' => slot'[s].op = "idle")
      /\ slot'[s].op = "upload" => slot'[s].at = "undo" /\ slot'[s].key = slot[s].key
      /\ calm' \in BOOLEAN /\ faults' \in 0..MaxFaults /\ (calm' => calm)
  <2>1. CASE CreateAsset(Asset(s)) /\ Return(s) /\ Same
    <3>1. /\ SlotsOK' /\ CronsOK' /\ cron' = cron /\ \A t \in Slots \ {s} : slot'[t] = slot[t]
         /\ slot'[s].op = "idle" /\ slot'[s].at = "idle" /\ slot'[s].key[2] = None /\ calm' \in BOOLEAN /\ faults' \in 0..MaxFaults /\ calm' = calm
      BY <2>1, <1>1, Returns, SameFacts
    <3>2. QED BY <3>1
  <2>2. CASE Fault /\ GoTo(s, "undo") /\ (CreateAsset(Asset(s)) \/ UNCHANGED <<rows, active>>)
    BY <2>2, <1>1, GoesOn, FaultFacts DEF Places
  <2>3. QED BY <2>1, <2>2 DEF UploadCommit
<1>4. CreateAsset(a) \/ UNCHANGED <<rows, active>> BY <1>1 DEF UploadCommit
<1>5. /\ asset' \in [Assets -> AssetRows \cup {None}] /\ usage' \in [size : Nat, count : Nat]
      /\ \A b \in Assets \ {a} : asset'[b] = asset[b]
      /\ asset[a] # None => asset'[a] # None
      /\ asset'[a] # None => asset[a] # None \/ a \in born'
      /\ born \subseteq born' /\ born' \subseteq born \cup {a}
      /\ active \subseteq active' /\ active' \subseteq active \cup {<<a, None>>}
      /\ version' = version /\ pending' = pending
  BY <1>1, <1>4, CreatedAsset
<1>6. UNCHANGED <<objects, session, multipart, ids, gone, doomed>>
  BY DEF UploadCommit, rows, store, history
<1>7. calm' => CreateAsset(a) BY <1>1 DEF UploadCommit, Fault
<1>8. calm => a \notin born /\ a \notin gone /\ asset[a] = None
  <2>1. calm => a \notin born BY <1>1 DEF FilesInv, Unborn, Committing, At
  <2>2. QED BY <2>1, <1>1 DEF KnownInv
<1>9. TypeInv' BY <1>1, <1>3, <1>5, <1>6 DEF TypeInv, TypeOK, Keys
<1>10. KnownInv' BY <1>1, <1>3, <1>5, <1>6 DEF KnownInv, Known, Busy, Asset
<1>11. FreshInv' BY <1>1, <1>3, <1>5, <1>6, AssetStoreAssumption DEF FreshInv, New, Putting, Busy, At
<1>12. GoneInv' BY <1>1, <1>3, <1>5, <1>6 DEF GoneInv, Asset
<1>13. SessionInv' BY <1>1, <1>3, <1>5, <1>6 DEF SessionInv, KnownInv, Known, Asset
<1>14. WipedInv' BY <1>1, <1>3, <1>5, <1>6 DEF WipedInv, Below, KnownInv, Known, GoneInv, At, Asset
<1>15. DoomedIsQueued' BY <1>1, <1>3, <1>5, <1>6 DEF DoomedIsQueued, Covered, KnownInv, Known
<1>16. RetryFindsTheObject' BY <1>1, <1>3, <1>5, <1>6 DEF RetryFindsTheObject
<1>17. AloneInv' BY <1>1, <1>2, <1>3, <1>5, <1>6, <1>8 DEF AloneInv, Busy
<1>18. FilesInv'
  BY <1>1, <1>2, <1>3, <1>5, <1>6, <1>8 DEF FilesInv, Filed, Unhurried, StayGone, SessionsEnd, Unborn, Uploaded,
       Present, Committing, At, Asset, SessionInv
<1>19. UsageInv'
  <2> SUFFICES ASSUME calm' PROVE (DeletingInv /\ CountInv)' BY DEF UsageInv
  <2>1. DeletingInv' BY <1>1, <1>2, <1>3, <1>5 DEF UsageInv, DeletingInv, At, Asset
  <2>2. Uncounted' = Uncounted BY <1>1, <1>3 DEF Uncounted, Asset
  <2>3. CreateAsset(a) /\ calm /\ asset[a] = None /\ cron.at # "row" BY <1>2, <1>3, <1>7, <1>8
  <2>4. CountInv' BY <2>2, <2>3, <1>1, AssetCounted DEF UsageInv
  <2>5. QED BY <2>1, <2>4
<1>20. QED BY <1>9, <1>10, <1>11, <1>12, <1>13, <1>14, <1>15, <1>16, <1>17, <1>18, <1>19

LEMMA UndoKeeps ==
  ASSUME StoreInv, NEW s \in Slots, Undo(s)
  PROVE  StoreInv'
<1> USE DEF StoreInv
<1>1. PICK a \in Assets, v \in Versions \cup {None} :
      /\ slot[s].op \in {"upload", "version"} /\ slot[s].at = "undo" /\ slot[s].key = <<a, v>> /\ Asset(s) = a
      /\ slot[s].key[1] = a /\ slot[s].key[2] = v
      /\ slot[s].op = "upload" => v = None
      /\ slot[s].op = "version" => v \in Versions
  BY RequestFacts DEF Undo, Asset
<1>2. ~calm BY <1>1 DEF AloneInv
<1>3. /\ SlotsOK' /\ CronsOK' /\ cron' = cron /\ \A t \in Slots \ {s} : slot'[t] = slot[t]
      /\ slot'[s].op = "idle" /\ slot'[s].at = "idle" /\ slot'[s].key[2] = None
      /\ calm' \in BOOLEAN /\ faults' \in 0..MaxFaults /\ ~calm'
  BY <1>1, <1>2, Returns, SameFacts, FaultFacts DEF Undo
<1>4. objects \ {<<a, v>>} \subseteq objects' /\ objects' \subseteq objects BY <1>1 DEF Undo
<1>5. UNCHANGED <<asset, born, version, usage, pending, session, multipart, active, ids, gone, doomed>>
  BY DEF Undo, rows, store, history
<1>6. TypeInv' BY <1>1, <1>3, <1>4, <1>5 DEF TypeInv, TypeOK, Keys
<1>7. KnownInv' BY <1>1, <1>3, <1>4, <1>5 DEF KnownInv, Known, Busy, Asset
<1>8. FreshInv' BY <1>1, <1>3, <1>4, <1>5 DEF FreshInv, New, Putting, Busy, At
<1>9. GoneInv' BY <1>1, <1>3, <1>4, <1>5 DEF GoneInv, Asset
<1>10. SessionInv' BY <1>1, <1>3, <1>4, <1>5 DEF SessionInv, KnownInv, Known, Asset
<1>11. WipedInv' BY <1>1, <1>3, <1>4, <1>5 DEF WipedInv, Below, KnownInv, Known, GoneInv, At, Asset
<1>12. DoomedIsQueued' BY <1>1, <1>3, <1>4, <1>5 DEF DoomedIsQueued, Covered, KnownInv, Known
<1>13. RetryFindsTheObject' BY <1>1, <1>3, <1>4, <1>5, AssetStoreAssumption DEF RetryFindsTheObject, SessionInv
<1>14. AloneInv' BY <1>1, <1>2, <1>3, <1>4, <1>5 DEF AloneInv, Busy
<1>15. FilesInv'
  BY <1>3 DEF FilesInv
<1>16. UsageInv'
  BY <1>3 DEF UsageInv
<1>17. QED BY <1>6, <1>7, <1>8, <1>9, <1>10, <1>11, <1>12, <1>13, <1>14, <1>15, <1>16

LEMMA OpenSessionKeeps ==
  ASSUME StoreInv, NEW a \in Assets, NEW multi \in BOOLEAN, OpenSession(a, multi)
  PROVE  StoreInv'
<1> USE DEF StoreInv
<1>1. /\ SlotsOK' /\ CronsOK' /\ slot' = slot /\ cron' = cron
      /\ calm' = calm /\ calm' \in BOOLEAN /\ faults' \in 0..MaxFaults
  BY Still DEF OpenSession, rows, store, history
<1>2. /\ session' \in [Assets -> {"single", "multi", None}] /\ \A b \in Assets \ {a} : session'[b] = session[b]
      /\ session'[a] \in {"single", "multi"} /\ session'[a] = "single" => multipart' = multipart
      /\ multipart \subseteq multipart' /\ multipart' \subseteq multipart \cup {a}
      /\ session'[a] = "multi" => a \in multipart'
  BY DEF OpenSession, TypeInv, TypeOK
<1>3. ids' = ids \cup {a} /\ a \notin ids /\ a \notin born /\ a \notin multipart
  BY DEF OpenSession, KnownInv
<1>4. UNCHANGED <<asset, born, version, usage, pending, objects, active, slot, cron, gone, doomed, calm, faults>>
  BY DEF OpenSession, rows, store, history
<1>5. TypeInv' BY <1>1, <1>2, <1>3, <1>4 DEF TypeInv, TypeOK, Keys
<1>6. KnownInv' BY <1>1, <1>2, <1>3, <1>4, FS_AddElement DEF KnownInv, Known, Busy, Asset
<1>7. FreshInv' BY <1>1, <1>2, <1>3, <1>4 DEF FreshInv, New, Putting, Busy, At
<1>8. GoneInv' BY <1>1, <1>2, <1>3, <1>4 DEF GoneInv, Asset
<1>9. SessionInv' BY <1>1, <1>2, <1>3, <1>4 DEF SessionInv, KnownInv, Known, Asset, Busy
<1>10. WipedInv' BY <1>1, <1>2, <1>3, <1>4 DEF WipedInv, Below, KnownInv, Known, GoneInv, At, Asset
<1>11. DoomedIsQueued' BY <1>1, <1>2, <1>3, <1>4 DEF DoomedIsQueued, Covered, KnownInv, Known
<1>12. RetryFindsTheObject' BY <1>1, <1>2, <1>3, <1>4 DEF RetryFindsTheObject
<1>13. AloneInv' BY <1>1, <1>2, <1>3, <1>4 DEF AloneInv, Busy
<1>14. FilesInv'
  BY <1>1, <1>2, <1>3, <1>4 DEF FilesInv, Filed, Unhurried, StayGone, SessionsEnd, Unborn, Uploaded, Present,
       Committing, At, Asset
<1>15. UsageInv'
  <2>1. calm' => calm /\ DeletingInv' BY <1>1, <1>2, <1>3, <1>4 DEF UsageInv, DeletingInv, At, Asset
  <2>2. StoredAssets' = StoredAssets /\ StoredVersions' = StoredVersions BY <1>1, <1>2, <1>3, <1>4 DEF StoredAssets, StoredVersions
  <2>3. Uncounted' = Uncounted BY <1>1, <1>2, <1>3, <1>4 DEF Uncounted, Asset
  <2>4. QED BY <2>1, <2>2, <2>3, <1>1, <1>2, <1>3, <1>4, SameUsage
<1>16. QED BY <1>5, <1>6, <1>7, <1>8, <1>9, <1>10, <1>11, <1>12, <1>13, <1>14, <1>15

LEMMA ClientPutKeeps ==
  ASSUME StoreInv, NEW a \in Assets, ClientPut(a)
  PROVE  StoreInv'
<1> USE DEF StoreInv
<1>1. /\ SlotsOK' /\ CronsOK' /\ slot' = slot /\ cron' = cron
      /\ calm' = calm /\ calm' \in BOOLEAN /\ faults' \in 0..MaxFaults
  BY Still DEF ClientPut, rows, store, history
<1>2. /\ session[a] = "single" /\ objects' = objects \cup {<<a, None>>} /\ doomed' = doomed \ {<<a, None>>}
  BY DEF ClientPut
<1>3. a \in ids /\ a \notin multipart BY <1>2, AssetStoreAssumption DEF KnownInv, SessionInv
<1>4. UNCHANGED <<asset, born, version, usage, pending, session, multipart, active, slot, cron, ids, gone, calm, faults>>
  BY DEF ClientPut, rows, store, history
<1>5. TypeInv' BY <1>1, <1>2, <1>3, <1>4 DEF TypeInv, TypeOK, Keys
<1>6. KnownInv' BY <1>1, <1>2, <1>3, <1>4 DEF KnownInv, Known, Busy, Asset
<1>7. FreshInv' BY <1>1, <1>2, <1>3, <1>4, AssetStoreAssumption DEF FreshInv, New, Putting, Busy, At
<1>8. GoneInv' BY <1>1, <1>2, <1>3, <1>4 DEF GoneInv, Asset
<1>9. SessionInv' BY <1>1, <1>2, <1>3, <1>4 DEF SessionInv, KnownInv, Known, Asset
<1>10. WipedInv' BY <1>1, <1>2, <1>3, <1>4 DEF WipedInv, Below, KnownInv, Known, GoneInv, At, Asset
<1>11. DoomedIsQueued' BY <1>1, <1>2, <1>3, <1>4 DEF DoomedIsQueued, Covered, KnownInv, Known
<1>12. RetryFindsTheObject' BY <1>1, <1>2, <1>3, <1>4 DEF RetryFindsTheObject
<1>13. AloneInv' BY <1>1, <1>2, <1>3, <1>4 DEF AloneInv, Busy
<1>14. FilesInv'
  BY <1>1, <1>2, <1>3, <1>4 DEF FilesInv, Filed, Unhurried, StayGone, SessionsEnd, Unborn, Uploaded, Present,
       Committing, At, Asset
<1>15. UsageInv'
  <2>1. calm' => calm /\ DeletingInv' BY <1>1, <1>2, <1>3, <1>4 DEF UsageInv, DeletingInv, At, Asset
  <2>2. StoredAssets' = StoredAssets /\ StoredVersions' = StoredVersions BY <1>1, <1>2, <1>3, <1>4 DEF StoredAssets, StoredVersions
  <2>3. Uncounted' = Uncounted BY <1>1, <1>2, <1>3, <1>4 DEF Uncounted, Asset
  <2>4. QED BY <2>1, <2>2, <2>3, <1>1, <1>2, <1>3, <1>4, SameUsage
<1>16. QED BY <1>5, <1>6, <1>7, <1>8, <1>9, <1>10, <1>11, <1>12, <1>13, <1>14, <1>15

LEMMA SessionExpiresKeeps ==
  ASSUME StoreInv, NEW a \in Assets, SessionExpires(a)
  PROVE  StoreInv'
<1> USE DEF StoreInv
<1>1. /\ SlotsOK' /\ CronsOK' /\ slot' = slot /\ cron' = cron
      /\ calm' = calm /\ calm' \in BOOLEAN /\ faults' \in 0..MaxFaults
  BY Still DEF SessionExpires, rows, store, history
<1>2. /\ session' \in [Assets -> {"single", "multi", None}] /\ \A b \in Assets \ {a} : session'[b] = session[b]
      /\ session'[a] = None
  BY DEF SessionExpires, TypeInv, TypeOK
<1>3. UNCHANGED <<asset, born, version, usage, pending, objects, multipart, active, slot, cron, ids, gone, doomed, calm, faults>>
  BY DEF SessionExpires, rows, store, history
<1>4. TypeInv' BY <1>1, <1>2, <1>3 DEF TypeInv, TypeOK, Keys
<1>5. KnownInv' BY <1>1, <1>2, <1>3 DEF KnownInv, Known, Busy, Asset
<1>6. FreshInv' BY <1>1, <1>2, <1>3 DEF FreshInv, New, Putting, Busy, At
<1>7. GoneInv' BY <1>1, <1>2, <1>3 DEF GoneInv, Asset
<1>8. SessionInv' BY <1>1, <1>2, <1>3, AssetStoreAssumption DEF SessionInv, KnownInv, Known, Asset
<1>9. WipedInv' BY <1>1, <1>2, <1>3 DEF WipedInv, Below, KnownInv, Known, GoneInv, At, Asset
<1>10. DoomedIsQueued' BY <1>1, <1>2, <1>3 DEF DoomedIsQueued, Covered, KnownInv, Known
<1>11. RetryFindsTheObject' BY <1>1, <1>2, <1>3, AssetStoreAssumption DEF RetryFindsTheObject
<1>12. AloneInv' BY <1>1, <1>2, <1>3 DEF AloneInv, Busy
<1>13. FilesInv'
  BY <1>1, <1>2, <1>3 DEF FilesInv, Filed, Unhurried, StayGone, SessionsEnd, Unborn, Uploaded, Present,
       Committing, At, Asset
<1>14. UsageInv'
  <2>1. calm' => calm /\ DeletingInv' BY <1>1, <1>2, <1>3 DEF UsageInv, DeletingInv, At, Asset
  <2>2. StoredAssets' = StoredAssets /\ StoredVersions' = StoredVersions BY <1>1, <1>2, <1>3 DEF StoredAssets, StoredVersions
  <2>3. Uncounted' = Uncounted BY <1>1, <1>2, <1>3 DEF Uncounted, Asset
  <2>4. QED BY <2>1, <2>2, <2>3, <1>1, <1>2, <1>3, SameUsage
<1>15. QED BY <1>4, <1>5, <1>6, <1>7, <1>8, <1>9, <1>10, <1>11, <1>12, <1>13, <1>14

LEMMA CompleteExistingKeeps ==
  ASSUME StoreInv, NEW s \in Slots, CompleteExisting(s)
  PROVE  StoreInv'
<1> USE DEF StoreInv
<1>1. PICK a \in Assets :
      /\ slot[s].op = "complete" /\ slot[s].at = "existing" /\ slot[s].key = <<a, None>> /\ Asset(s) = a
      /\ slot[s].key[1] = a /\ slot[s].key[2] = None
  BY RequestFacts DEF CompleteExisting, At, Asset
<1>2. calm => cron = Cron /\ cron.at = "idle" /\ \A t \in Slots \ {s} : slot[t].op = "idle"
  BY <1>1, AloneFacts
<1>3. PICK at \in {"head", "drop"} : GoTo(s, at) /\ (at = "head" => asset[a] = None) BY <1>1 DEF CompleteExisting
<1>4. /\ SlotsOK' /\ CronsOK' /\ cron' = cron /\ \A t \in Slots \ {s} : slot'[t] = slot[t]
      /\ slot'[s].op = slot[s].op /\ slot'[s].key = slot[s].key /\ slot'[s].row = slot[s].row
      /\ slot'[s].at \in {"head", "drop"}
      /\ calm' \in BOOLEAN /\ faults' \in 0..MaxFaults /\ calm' = calm
  BY <1>1, <1>3, GoesOn, SameFacts DEF CompleteExisting, Places
<1>5. UNCHANGED <<asset, born, version, usage, pending, objects, session, multipart, active, ids, gone, doomed>>
  BY DEF CompleteExisting, rows, store, history
<1>6. TypeInv' BY <1>1, <1>2, <1>4, <1>5 DEF TypeInv, TypeOK, Keys
<1>7. KnownInv' BY <1>1, <1>2, <1>4, <1>5 DEF KnownInv, Known, Busy, Asset
<1>8. FreshInv' BY <1>1, <1>2, <1>4, <1>5 DEF FreshInv, New, Putting, Busy, At
<1>9. GoneInv' BY <1>1, <1>2, <1>4, <1>5 DEF GoneInv, Asset
<1>10. SessionInv' BY <1>1, <1>2, <1>4, <1>5 DEF SessionInv, KnownInv, Known, Asset
<1>11. WipedInv' BY <1>1, <1>2, <1>4, <1>5 DEF WipedInv, Below, KnownInv, Known, GoneInv, At, Asset
<1>12. DoomedIsQueued' BY <1>1, <1>2, <1>4, <1>5 DEF DoomedIsQueued, Covered, KnownInv, Known
<1>13. RetryFindsTheObject' BY <1>1, <1>2, <1>4, <1>5 DEF RetryFindsTheObject
<1>14. AloneInv' BY <1>1, <1>2, <1>4, <1>5 DEF AloneInv, Busy
<1>15. FilesInv'
  BY <1>1, <1>2, <1>4, <1>5 DEF FilesInv, Filed, Unhurried, StayGone, SessionsEnd, Unborn, Uploaded, Present,
       Committing, At, Asset
<1>16. UsageInv'
  <2>1. calm' => calm /\ DeletingInv' BY <1>1, <1>4, <1>5 DEF UsageInv, DeletingInv, At, Asset
  <2>2. StoredAssets' = StoredAssets /\ StoredVersions' = StoredVersions BY <1>1, <1>4, <1>5 DEF StoredAssets, StoredVersions
  <2>3. Uncounted' = Uncounted BY <1>1, <1>4, <1>5 DEF Uncounted, Asset
  <2>4. QED BY <2>1, <2>2, <2>3, <1>1, <1>4, <1>5, SameUsage
<1>17. QED BY <1>6, <1>7, <1>8, <1>9, <1>10, <1>11, <1>12, <1>13, <1>14, <1>15, <1>16

LEMMA CompleteHeadKeeps ==
  ASSUME StoreInv, NEW s \in Slots, CompleteHead(s)
  PROVE  StoreInv'
<1> USE DEF StoreInv
<1>1. PICK a \in Assets :
      /\ slot[s].op = "complete" /\ slot[s].at = "head" /\ slot[s].key = <<a, None>> /\ Asset(s) = a
      /\ slot[s].key[1] = a /\ slot[s].key[2] = None
  BY RequestFacts DEF CompleteHead, At, Asset
<1>2. calm => cron = Cron /\ cron.at = "idle" /\ \A t \in Slots \ {s} : slot[t].op = "idle"
  BY <1>1, AloneFacts
<1>3. /\ SlotsOK' /\ CronsOK' /\ cron' = cron /\ \A t \in Slots \ {s} : slot'[t] = slot[t]
      /\ slot'[s].op \in {"idle", "complete"} /\ (slot'[s].op = "idle" => slot'[s].at = "idle")
      /\ slot'[s].op = "complete" => slot'[s].at = "commit" /\ slot'[s].key = slot[s].key /\ slot'[s].row = slot[s].row
      /\ calm' \in BOOLEAN /\ faults' \in 0..MaxFaults /\ calm' = calm
  <2>1. GoTo(s, "commit") \/ Return(s) BY DEF CompleteHead
  <2>2. CASE GoTo(s, "commit") BY <2>2, <1>1, GoesOn, SameFacts DEF CompleteHead, Places
  <2>3. CASE Return(s) BY <2>3, <1>1, Returns, SameFacts DEF CompleteHead
  <2>4. QED BY <2>1, <2>2, <2>3
<1>4. /\ objects \subseteq objects' /\ objects' \subseteq objects \cup {<<a, None>>}
      /\ multipart' \subseteq multipart /\ multipart \subseteq multipart' \cup {a}
      /\ a \in multipart /\ a \notin multipart' => <<a, None>> \in objects'
      /\ <<a, None>> \in objects' /\ <<a, None>> \notin objects => a \in multipart /\ a \notin multipart'
  BY <1>1 DEF CompleteHead
<1>5. slot'[s].op = "complete" => <<a, None>> \in objects'
  <2>1. slot[s].key \notin objects /\ a \notin multipart => Return(s) BY <1>1 DEF CompleteHead
  <2>2. slot[s].key \notin objects /\ a \notin multipart => slot'[s].op = "idle" BY <2>1, Returns
  <2>3. QED BY <1>1, <1>4, <2>2 DEF CompleteHead
<1>6. UNCHANGED <<asset, born, version, usage, pending, session, active, ids, gone, doomed>>
  BY DEF CompleteHead, rows, store, history
<1>7. TypeInv' BY <1>1, <1>3, <1>4, <1>6 DEF TypeInv, TypeOK, Keys
<1>8. KnownInv' BY <1>1, <1>3, <1>4, <1>6 DEF KnownInv, Known, Busy, Asset
<1>9. FreshInv' BY <1>1, <1>3, <1>4, <1>6, AssetStoreAssumption DEF FreshInv, New, Putting, Busy, At
<1>10. GoneInv' BY <1>1, <1>3, <1>4, <1>6 DEF GoneInv, Asset
<1>11. SessionInv' BY <1>1, <1>3, <1>4, <1>6 DEF SessionInv, KnownInv, Known, Asset
<1>12. WipedInv' BY <1>1, <1>3, <1>4, <1>6 DEF WipedInv, Below, KnownInv, Known, GoneInv, At, Asset, SessionInv
<1>13. DoomedIsQueued' BY <1>1, <1>3, <1>4, <1>6 DEF DoomedIsQueued, Covered, KnownInv, Known, SessionInv
<1>14. RetryFindsTheObject' BY <1>1, <1>3, <1>4, <1>6 DEF RetryFindsTheObject
<1>15. AloneInv' BY <1>1, <1>2, <1>3, <1>4, <1>5, <1>6 DEF AloneInv, Busy
<1>16. FilesInv'
  BY <1>1, <1>2, <1>3, <1>4, <1>5, <1>6 DEF FilesInv, Filed, Unhurried, StayGone, SessionsEnd, Unborn, Uploaded,
       Present, Committing, At, Asset
<1>17. UsageInv'
  <2>1. calm' => calm /\ DeletingInv' BY <1>1, <1>3, <1>6 DEF UsageInv, DeletingInv, At, Asset
  <2>2. StoredAssets' = StoredAssets /\ StoredVersions' = StoredVersions BY <1>1, <1>3, <1>6 DEF StoredAssets, StoredVersions
  <2>3. Uncounted' = Uncounted BY <1>1, <1>3, <1>6 DEF Uncounted, Asset
  <2>4. QED BY <2>1, <2>2, <2>3, <1>1, <1>3, <1>6, SameUsage
<1>18. QED BY <1>7, <1>8, <1>9, <1>10, <1>11, <1>12, <1>13, <1>14, <1>15, <1>16, <1>17

LEMMA CompleteCommitKeeps ==
  ASSUME StoreInv, NEW s \in Slots, CompleteCommit(s)
  PROVE  StoreInv'
<1> USE DEF StoreInv
<1>1. PICK a \in Assets :
      /\ slot[s].op = "complete" /\ slot[s].at = "commit" /\ slot[s].key = <<a, None>> /\ Asset(s) = a
      /\ slot[s].key[1] = a /\ slot[s].key[2] = None
  BY RequestFacts DEF CompleteCommit, At, Asset
<1>2. calm => cron = Cron /\ cron.at = "idle" /\ \A t \in Slots \ {s} : slot[t].op = "idle"
  BY <1>1, AloneFacts
<1>3. /\ SlotsOK' /\ CronsOK' /\ cron' = cron /\ \A t \in Slots \ {s} : slot'[t] = slot[t]
      /\ slot'[s].op \in {"idle", "complete"} /\ (slot'[s].op = "idle" => slot'[s].at = "idle")
      /\ slot'[s].op = "complete" => slot'[s].at = "drop" /\ slot'[s].key = slot[s].key /\ slot'[s].row = slot[s].row
      /\ calm' => slot'[s].op = "complete"
      /\ calm' \in BOOLEAN /\ faults' \in 0..MaxFaults /\ (calm' => calm)
  <2>1. CASE CreateAsset(Asset(s)) /\ GoTo(s, "drop") /\ Same BY <2>1, <1>1, GoesOn, SameFacts DEF Places
  <2>2. CASE Fault /\ Return(s) /\ (CreateAsset(Asset(s)) \/ UNCHANGED <<rows, active>>)
    BY <2>2, <1>1, Returns, FaultFacts
  <2>3. QED BY <2>1, <2>2 DEF CompleteCommit
<1>4. CreateAsset(a) \/ UNCHANGED <<rows, active>> BY <1>1 DEF CompleteCommit
<1>5. /\ asset' \in [Assets -> AssetRows \cup {None}] /\ usage' \in [size : Nat, count : Nat]
      /\ \A b \in Assets \ {a} : asset'[b] = asset[b]
      /\ asset[a] # None => asset'[a] # None
      /\ asset'[a] # None => asset[a] # None \/ a \in born'
      /\ born \subseteq born' /\ born' \subseteq born \cup {a}
      /\ active \subseteq active' /\ active' \subseteq active \cup {<<a, None>>}
      /\ version' = version /\ pending' = pending
  BY <1>1, <1>4, CreatedAsset
<1>6. UNCHANGED <<objects, session, multipart, ids, gone, doomed>>
  BY DEF CompleteCommit, rows, store, history
<1>7. calm' => CreateAsset(a) BY <1>1 DEF CompleteCommit, Fault
<1>8. calm => a \notin born /\ a \notin gone /\ asset[a] = None
  <2>1. calm => a \notin born BY <1>1 DEF FilesInv, Unborn, Committing, At
  <2>2. QED BY <2>1, <1>1 DEF KnownInv
<1>9. TypeInv' BY <1>1, <1>3, <1>5, <1>6 DEF TypeInv, TypeOK, Keys
<1>10. KnownInv' BY <1>1, <1>3, <1>5, <1>6 DEF KnownInv, Known, Busy, Asset
<1>11. FreshInv' BY <1>1, <1>3, <1>5, <1>6, AssetStoreAssumption DEF FreshInv, New, Putting, Busy, At
<1>12. GoneInv' BY <1>1, <1>3, <1>5, <1>6 DEF GoneInv, Asset
<1>13. SessionInv' BY <1>1, <1>3, <1>5, <1>6 DEF SessionInv, KnownInv, Known, Asset
<1>14. WipedInv' BY <1>1, <1>3, <1>5, <1>6 DEF WipedInv, Below, KnownInv, Known, GoneInv, At, Asset
<1>15. DoomedIsQueued' BY <1>1, <1>3, <1>5, <1>6 DEF DoomedIsQueued, Covered, KnownInv, Known
<1>16. RetryFindsTheObject' BY <1>1, <1>3, <1>5, <1>6 DEF RetryFindsTheObject
<1>17. AloneInv' BY <1>1, <1>2, <1>3, <1>5, <1>6, <1>8 DEF AloneInv, Busy
<1>18. FilesInv'
  BY <1>1, <1>2, <1>3, <1>5, <1>6, <1>8 DEF FilesInv, Filed, Unhurried, StayGone, SessionsEnd, Unborn, Uploaded,
       Present, Committing, At, Asset, SessionInv
<1>19. UsageInv'
  <2> SUFFICES ASSUME calm' PROVE (DeletingInv /\ CountInv)' BY DEF UsageInv
  <2>1. DeletingInv' BY <1>1, <1>2, <1>3, <1>5 DEF UsageInv, DeletingInv, At, Asset
  <2>2. Uncounted' = Uncounted BY <1>1, <1>3 DEF Uncounted, Asset
  <2>3. CreateAsset(a) /\ calm /\ asset[a] = None /\ cron.at # "row" BY <1>2, <1>3, <1>7, <1>8
  <2>4. CountInv' BY <2>2, <2>3, <1>1, AssetCounted DEF UsageInv
  <2>5. QED BY <2>1, <2>4
<1>20. QED BY <1>9, <1>10, <1>11, <1>12, <1>13, <1>14, <1>15, <1>16, <1>17, <1>18, <1>19

LEMMA CompleteDropKeeps ==
  ASSUME StoreInv, NEW s \in Slots, CompleteDrop(s)
  PROVE  StoreInv'
<1> USE DEF StoreInv
<1>1. PICK a \in Assets :
      /\ slot[s].op = "complete" /\ slot[s].at = "drop" /\ slot[s].key = <<a, None>> /\ Asset(s) = a
      /\ slot[s].key[1] = a /\ slot[s].key[2] = None
  BY RequestFacts DEF CompleteDrop, At, Asset
<1>2. calm => cron = Cron /\ cron.at = "idle" /\ \A t \in Slots \ {s} : slot[t].op = "idle"
  BY <1>1, AloneFacts
<1>3. /\ SlotsOK' /\ CronsOK' /\ cron' = cron /\ \A t \in Slots \ {s} : slot'[t] = slot[t]
      /\ slot'[s].op = "idle" /\ slot'[s].at = "idle" /\ slot'[s].key[2] = None
      /\ calm' \in BOOLEAN /\ faults' \in 0..MaxFaults /\ calm' = calm
  BY <1>1, Returns, SameFacts DEF CompleteDrop
<1>4. /\ session' \in [Assets -> {"single", "multi", None}] /\ \A b \in Assets \ {a} : session'[b] = session[b]
      /\ session'[a] = None
  BY <1>1 DEF CompleteDrop, TypeInv, TypeOK
<1>5. UNCHANGED <<asset, born, version, usage, pending, objects, multipart, active, ids, gone, doomed>>
  BY DEF CompleteDrop, rows, store, history
<1>6. TypeInv' BY <1>1, <1>3, <1>4, <1>5 DEF TypeInv, TypeOK, Keys
<1>7. KnownInv' BY <1>1, <1>3, <1>4, <1>5 DEF KnownInv, Known, Busy, Asset
<1>8. FreshInv' BY <1>1, <1>3, <1>4, <1>5 DEF FreshInv, New, Putting, Busy, At
<1>9. GoneInv' BY <1>1, <1>3, <1>4, <1>5 DEF GoneInv, Asset
<1>10. SessionInv' BY <1>1, <1>3, <1>4, <1>5, AssetStoreAssumption DEF SessionInv, KnownInv, Known, Asset
<1>11. WipedInv' BY <1>1, <1>3, <1>4, <1>5 DEF WipedInv, Below, KnownInv, Known, GoneInv, At, Asset
<1>12. DoomedIsQueued' BY <1>1, <1>3, <1>4, <1>5 DEF DoomedIsQueued, Covered, KnownInv, Known
<1>13. RetryFindsTheObject' BY <1>1, <1>3, <1>4, <1>5, AssetStoreAssumption DEF RetryFindsTheObject
<1>14. AloneInv' BY <1>1, <1>2, <1>3, <1>4, <1>5 DEF AloneInv, Busy
<1>15. FilesInv'
  BY <1>1, <1>2, <1>3, <1>4, <1>5 DEF FilesInv, Filed, Unhurried, StayGone, SessionsEnd, Unborn, Uploaded,
       Present, Committing, At, Asset
<1>16. UsageInv'
  <2>1. calm' => calm /\ DeletingInv' BY <1>1, <1>3, <1>5 DEF UsageInv, DeletingInv, At, Asset
  <2>2. StoredAssets' = StoredAssets /\ StoredVersions' = StoredVersions BY <1>1, <1>3, <1>5 DEF StoredAssets, StoredVersions
  <2>3. Uncounted' = Uncounted BY <1>1, <1>3, <1>5 DEF Uncounted, Asset
  <2>4. QED BY <2>1, <2>2, <2>3, <1>1, <1>3, <1>5, SameUsage
<1>17. QED BY <1>6, <1>7, <1>8, <1>9, <1>10, <1>11, <1>12, <1>13, <1>14, <1>15, <1>16

LEMMA PutVersionKeeps ==
  ASSUME StoreInv, NEW s \in Slots, PutVersion(s)
  PROVE  StoreInv'
<1> USE DEF StoreInv
<1>1. PICK a \in Assets, v \in Versions :
      /\ slot[s].op = "version" /\ slot[s].at = "put" /\ slot[s].key = <<a, v>> /\ Asset(s) = a
      /\ slot[s].key[1] = a /\ slot[s].key[2] = v
  BY RequestFacts DEF PutVersion, At, Asset
<1>2. calm => cron = Cron /\ cron.at = "idle" /\ \A t \in Slots \ {s} : slot[t].op = "idle"
  BY <1>1, AloneFacts
<1>3. /\ SlotsOK' /\ CronsOK' /\ cron' = cron /\ \A t \in Slots \ {s} : slot'[t] = slot[t]
      /\ slot'[s].op = slot[s].op /\ slot'[s].key = slot[s].key /\ slot'[s].row = slot[s].row
      /\ slot'[s].at = "commit"
      /\ calm' \in BOOLEAN /\ faults' \in 0..MaxFaults /\ calm' = calm
  BY <1>1, GoesOn, SameFacts DEF PutVersion, Places
<1>4. objects' = objects \cup {<<a, v>>} BY <1>1 DEF PutVersion
<1>5. UNCHANGED <<asset, born, version, usage, pending, session, multipart, active, ids, gone, doomed>>
  BY DEF PutVersion, rows, store, history
<1>6. TypeInv' BY <1>1, <1>3, <1>4, <1>5 DEF TypeInv, TypeOK, Keys
<1>7. KnownInv' BY <1>1, <1>3, <1>4, <1>5 DEF KnownInv, Known, Busy, Asset
<1>8. FreshInv' BY <1>1, <1>3, <1>4, <1>5 DEF FreshInv, New, Putting, Busy, At
<1>9. GoneInv' BY <1>1, <1>3, <1>4, <1>5 DEF GoneInv, Asset
<1>10. SessionInv' BY <1>1, <1>3, <1>4, <1>5, AssetStoreAssumption DEF SessionInv, KnownInv, Known, Asset
<1>11. WipedInv'
  BY <1>1, <1>3, <1>4, <1>5 DEF WipedInv, Below, KnownInv, Known, GoneInv, At, Asset, FreshInv, Putting
<1>12. DoomedIsQueued' BY <1>1, <1>3, <1>4, <1>5 DEF DoomedIsQueued, Covered, KnownInv, Known, FreshInv, Putting, At
<1>13. RetryFindsTheObject' BY <1>1, <1>3, <1>4, <1>5, AssetStoreAssumption DEF RetryFindsTheObject
<1>14. AloneInv' BY <1>1, <1>2, <1>3, <1>4, <1>5 DEF AloneInv, Busy
<1>15. FilesInv'
  BY <1>1, <1>2, <1>3, <1>4, <1>5 DEF FilesInv, Filed, Unhurried, StayGone, SessionsEnd, Unborn, Uploaded,
       Present, Committing, At, Asset
<1>16. UsageInv'
  <2>1. calm' => calm /\ DeletingInv' BY <1>1, <1>3, <1>5 DEF UsageInv, DeletingInv, At, Asset
  <2>2. StoredAssets' = StoredAssets /\ StoredVersions' = StoredVersions BY <1>1, <1>3, <1>5 DEF StoredAssets, StoredVersions
  <2>3. Uncounted' = Uncounted BY <1>1, <1>3, <1>5 DEF Uncounted, Asset
  <2>4. QED BY <2>1, <2>2, <2>3, <1>1, <1>3, <1>5, SameUsage
<1>17. QED BY <1>6, <1>7, <1>8, <1>9, <1>10, <1>11, <1>12, <1>13, <1>14, <1>15, <1>16

LEMMA VersionCommitKeeps ==
  ASSUME StoreInv, NEW s \in Slots, VersionCommit(s)
  PROVE  StoreInv'
<1> USE DEF StoreInv
<1>1. PICK a \in Assets, v \in Versions :
      /\ slot[s].op = "version" /\ slot[s].at = "commit" /\ slot[s].key = <<a, v>> /\ Asset(s) = a
      /\ slot[s].key[1] = a /\ slot[s].key[2] = v
  BY RequestFacts DEF VersionCommit, At, Asset
<1>2. calm => cron = Cron /\ cron.at = "idle" /\ \A t \in Slots \ {s} : slot[t].op = "idle"
  BY <1>1, AloneFacts
<1>3. /\ SlotsOK' /\ CronsOK' /\ cron' = cron /\ \A t \in Slots \ {s} : slot'[t] = slot[t]
      /\ slot'[s].op \in {"idle", "version"} /\ (slot'[s].op = "idle" => slot'[s].at = "idle")
      /\ slot'[s].op = "version" => slot'[s].at = "undo" /\ slot'[s].key = slot[s].key /\ slot'[s].row = slot[s].row
      /\ calm' => slot'[s].op = "idle"
      /\ calm' \in BOOLEAN /\ faults' \in 0..MaxFaults /\ (calm' => calm)
  <2>1. CASE CreateVersion(slot[s].key) /\ Return(s) /\ Same BY <2>1, <1>1, Returns, SameFacts
  <2>2. CASE Fault /\ GoTo(s, "undo") /\ (CreateVersion(slot[s].key) \/ UNCHANGED <<rows, active>>)
    BY <2>2, <1>1, GoesOn, FaultFacts DEF Places
  <2>3. QED BY <2>1, <2>2 DEF VersionCommit
<1>4. CreateVersion(<<a, v>>) \/ UNCHANGED <<rows, active>> BY <1>1 DEF VersionCommit
<1>5. /\ version' \in [Versions -> Assets \cup {None}] /\ usage' \in [size : Nat, count : Nat]
      /\ \A u \in Versions \ {v} : version'[u] = version[u]
      /\ version'[v] # None => version[v] # None \/ version'[v] = a
      /\ version'[v] \in {version[v], a}
      /\ active \subseteq active' /\ active' \subseteq active \cup {<<a, v>>}
      /\ asset' = asset /\ born' = born /\ pending' = pending
  BY <1>1, <1>4, CreatedVersion
<1>6. UNCHANGED <<objects, session, multipart, ids, gone, doomed>>
  BY DEF VersionCommit, rows, store, history
<1>7. calm' => CreateVersion(<<a, v>>) BY <1>1 DEF VersionCommit, Fault
<1>8. TypeInv' BY <1>1, <1>3, <1>5, <1>6 DEF TypeInv, TypeOK, Keys
<1>9. KnownInv' BY <1>1, <1>3, <1>5, <1>6, AssetStoreAssumption DEF KnownInv, Known, Busy, Asset
<1>10. FreshInv' BY <1>1, <1>3, <1>5, <1>6 DEF FreshInv, New, Putting, Busy, At
<1>11. GoneInv' BY <1>1, <1>3, <1>5, <1>6 DEF GoneInv, Asset
<1>12. SessionInv' BY <1>1, <1>3, <1>5, <1>6 DEF SessionInv, KnownInv, Known, Asset
<1>13. WipedInv' BY <1>1, <1>3, <1>5, <1>6 DEF WipedInv, Below, KnownInv, Known, GoneInv, At, Asset
<1>14. DoomedIsQueued' BY <1>1, <1>3, <1>5, <1>6 DEF DoomedIsQueued, Covered, KnownInv, Known
<1>15. RetryFindsTheObject' BY <1>1, <1>3, <1>5, <1>6 DEF RetryFindsTheObject
<1>16. AloneInv' BY <1>1, <1>2, <1>3, <1>5, <1>6 DEF AloneInv, Busy
<1>17. FilesInv'
  BY <1>1, <1>2, <1>3, <1>5, <1>6 DEF FilesInv, Filed, Unhurried, StayGone, SessionsEnd, Unborn, Uploaded,
       Present, Committing, At, Asset
<1>18. UsageInv'
  <2> SUFFICES ASSUME calm' PROVE (DeletingInv /\ CountInv)' BY DEF UsageInv
  <2>1. DeletingInv' BY <1>1, <1>2, <1>3 DEF DeletingInv, At, Asset
  <2>2. Uncounted' = Uncounted BY <1>1, <1>3 DEF Uncounted, Asset
  <2>3. version[v] = None BY <1>1 DEF FreshInv, New
  <2>4. calm /\ cron.at # "row" BY <1>2, <1>3
  <2>5. CountInv' BY <1>1, <1>7, <2>2, <2>3, <2>4, VersionCounted DEF UsageInv
  <2>6. QED BY <2>1, <2>5
<1>19. QED BY <1>8, <1>9, <1>10, <1>11, <1>12, <1>13, <1>14, <1>15, <1>16, <1>17, <1>18

LEMMA DeleteVersionRowKeeps ==
  ASSUME StoreInv, NEW s \in Slots, DeleteVersionRow(s)
  PROVE  StoreInv'
<1> USE DEF StoreInv
<1>1. PICK a \in Assets, v \in Versions :
      /\ slot[s].op = "unversion" /\ slot[s].at = "delete" /\ slot[s].key = <<a, v>> /\ Asset(s) = a
      /\ slot[s].key[1] = a /\ slot[s].key[2] = v
  BY RequestFacts DEF DeleteVersionRow, At, Asset
<1>2. calm => cron = Cron /\ cron.at = "idle" /\ \A t \in Slots \ {s} : slot[t].op = "idle"
  BY <1>1, AloneFacts
<1>3. /\ SlotsOK' /\ CronsOK' /\ cron' = cron /\ \A t \in Slots \ {s} : slot'[t] = slot[t]
      /\ slot'[s].op = slot[s].op /\ slot'[s].key = slot[s].key /\ slot'[s].row = slot[s].row
      /\ slot'[s].at = "read"
      /\ calm' \in BOOLEAN /\ faults' \in 0..MaxFaults /\ calm' = calm
  BY <1>1, GoesOn, SameFacts DEF DeleteVersionRow, Places
<1>4. /\ version' \in [Versions -> Assets \cup {None}]
      /\ version'[v] = None /\ \A u \in Versions \ {v} : version'[u] = version[u]
  BY <1>1 DEF DeleteVersionRow, TypeInv, TypeOK
<1>5. UNCHANGED <<asset, born, usage, pending, objects, session, multipart, active, ids, gone, doomed>>
  BY DEF DeleteVersionRow, rows, store, history
<1>6. TypeInv' BY <1>1, <1>3, <1>4, <1>5 DEF TypeInv, TypeOK, Keys
<1>7. KnownInv' BY <1>1, <1>3, <1>4, <1>5 DEF KnownInv, Known, Busy, Asset
<1>8. FreshInv' BY <1>1, <1>3, <1>4, <1>5 DEF FreshInv, New, Putting, Busy, At
<1>9. GoneInv' BY <1>1, <1>3, <1>4, <1>5 DEF GoneInv, Asset
<1>10. SessionInv' BY <1>1, <1>3, <1>4, <1>5 DEF SessionInv, KnownInv, Known, Asset
<1>11. WipedInv' BY <1>1, <1>3, <1>4, <1>5 DEF WipedInv, Below, KnownInv, Known, GoneInv, At, Asset
<1>12. DoomedIsQueued' BY <1>1, <1>3, <1>4, <1>5 DEF DoomedIsQueued, Covered, KnownInv, Known
<1>13. RetryFindsTheObject' BY <1>1, <1>3, <1>4, <1>5 DEF RetryFindsTheObject
<1>14. AloneInv' BY <1>1, <1>2, <1>3, <1>4, <1>5 DEF AloneInv, Busy
<1>15. FilesInv'
  BY <1>1, <1>2, <1>3, <1>4, <1>5 DEF FilesInv, Filed, Unhurried, StayGone, SessionsEnd, Unborn, Uploaded,
       Present, Committing, At, Asset
<1>16. UsageInv'
  <2> SUFFICES ASSUME calm' PROVE (DeletingInv /\ CountInv)' BY DEF UsageInv
  <2>1. DeletingInv' BY <1>1, <1>2, <1>3 DEF DeletingInv, At, Asset
  <2>2. StoredAssets' = StoredAssets BY <1>5 DEF StoredAssets
  <2>3. version[v] = a BY <1>1, <1>3 DEF UsageInv, DeletingInv, At
  <2>4. Uncounted = {} BY <1>1, <1>2, <1>3 DEF Uncounted
  <2>5. usage.size = Cardinality(StoredAssets) + Cardinality(StoredVersions)
    BY <1>2, <1>3, <2>4, StoredFinite DEF UsageInv, CountInv
  <2>6. CASE a \in Owned
    <3>1. StoredVersions' = StoredVersions \ {v} /\ v \in StoredVersions
      BY <1>4, <2>3, <2>6, AssetStoreAssumption DEF StoredVersions
    <3>2. Cardinality(StoredVersions') = Cardinality(StoredVersions) - 1
      BY <3>1, StoredFinite, FS_RemoveElement
    <3>3. s \in Uncounted' BY <1>1, <1>3, <2>6 DEF Uncounted, Asset
    <3>4. CountInv' BY <2>2, <2>5, <3>2, <3>3, <1>5, StoredFinite DEF CountInv
    <3>5. QED BY <2>1, <3>4
  <2>7. CASE a \notin Owned
    <3>1. StoredVersions' = StoredVersions BY <1>4, <2>3, <2>7, AssetStoreAssumption DEF StoredVersions
    <3>2. Uncounted' = {} BY <1>1, <1>2, <1>3, <2>7 DEF Uncounted, Asset
    <3>3. CountInv' BY <2>2, <2>5, <3>1, <3>2, <1>5, StoredFinite DEF CountInv
    <3>4. QED BY <2>1, <3>3
  <2>8. QED BY <2>6, <2>7
<1>17. QED BY <1>6, <1>7, <1>8, <1>9, <1>10, <1>11, <1>12, <1>13, <1>14, <1>15, <1>16

LEMMA ReadActiveKeeps ==
  ASSUME StoreInv, NEW s \in Slots, ReadActive(s)
  PROVE  StoreInv'
<1> USE DEF StoreInv
<1>1. PICK a \in Assets, v \in Versions :
      /\ slot[s].op = "unversion" /\ slot[s].at = "read" /\ slot[s].key = <<a, v>> /\ Asset(s) = a
      /\ slot[s].key[1] = a /\ slot[s].key[2] = v
  BY RequestFacts DEF ReadActive, At, Asset
<1>2. calm => cron = Cron /\ cron.at = "idle" /\ \A t \in Slots \ {s} : slot[t].op = "idle"
  BY <1>1, AloneFacts
<1>3. PICK at \in {"reset", "wipe"} : GoTo(s, at) BY <1>1 DEF ReadActive
<1>4. /\ SlotsOK' /\ CronsOK' /\ cron' = cron /\ \A t \in Slots \ {s} : slot'[t] = slot[t]
      /\ slot'[s].op = slot[s].op /\ slot'[s].key = slot[s].key /\ slot'[s].row = slot[s].row
      /\ slot'[s].at \in {"reset", "wipe"}
      /\ calm' \in BOOLEAN /\ faults' \in 0..MaxFaults /\ calm' = calm
  BY <1>1, <1>3, GoesOn, SameFacts DEF ReadActive, Places
<1>5. UNCHANGED <<asset, born, version, usage, pending, objects, session, multipart, active, ids, gone, doomed>>
  BY DEF ReadActive, rows, store, history
<1>6. TypeInv' BY <1>1, <1>2, <1>4, <1>5 DEF TypeInv, TypeOK, Keys
<1>7. KnownInv' BY <1>1, <1>2, <1>4, <1>5 DEF KnownInv, Known, Busy, Asset
<1>8. FreshInv' BY <1>1, <1>2, <1>4, <1>5 DEF FreshInv, New, Putting, Busy, At
<1>9. GoneInv' BY <1>1, <1>2, <1>4, <1>5 DEF GoneInv, Asset
<1>10. SessionInv' BY <1>1, <1>2, <1>4, <1>5 DEF SessionInv, KnownInv, Known, Asset
<1>11. WipedInv' BY <1>1, <1>2, <1>4, <1>5 DEF WipedInv, Below, KnownInv, Known, GoneInv, At, Asset
<1>12. DoomedIsQueued' BY <1>1, <1>2, <1>4, <1>5 DEF DoomedIsQueued, Covered, KnownInv, Known
<1>13. RetryFindsTheObject' BY <1>1, <1>2, <1>4, <1>5 DEF RetryFindsTheObject
<1>14. AloneInv' BY <1>1, <1>2, <1>4, <1>5 DEF AloneInv, Busy
<1>15. FilesInv'
  BY <1>1, <1>2, <1>4, <1>5 DEF FilesInv, Filed, Unhurried, StayGone, SessionsEnd, Unborn, Uploaded, Present,
       Committing, At, Asset
<1>16. UsageInv'
  <2>1. calm' => calm /\ DeletingInv' BY <1>1, <1>4, <1>5 DEF UsageInv, DeletingInv, At, Asset
  <2>2. StoredAssets' = StoredAssets /\ StoredVersions' = StoredVersions BY <1>1, <1>4, <1>5 DEF StoredAssets, StoredVersions
  <2>3. Uncounted' = Uncounted BY <1>1, <1>4, <1>5 DEF Uncounted, Asset
  <2>4. QED BY <2>1, <2>2, <2>3, <1>1, <1>4, <1>5, SameUsage
<1>17. QED BY <1>6, <1>7, <1>8, <1>9, <1>10, <1>11, <1>12, <1>13, <1>14, <1>15, <1>16

LEMMA ResetActiveKeeps ==
  ASSUME StoreInv, NEW s \in Slots, ResetActive(s)
  PROVE  StoreInv'
<1> USE DEF StoreInv
<1>1. PICK a \in Assets, v \in Versions :
      /\ slot[s].op = "unversion" /\ slot[s].at = "reset" /\ slot[s].key = <<a, v>> /\ Asset(s) = a
      /\ slot[s].key[1] = a /\ slot[s].key[2] = v
  BY RequestFacts DEF ResetActive, At, Asset
<1>2. calm => cron = Cron /\ cron.at = "idle" /\ \A t \in Slots \ {s} : slot[t].op = "idle"
  BY <1>1, AloneFacts
<1>3. /\ SlotsOK' /\ CronsOK' /\ cron' = cron /\ \A t \in Slots \ {s} : slot'[t] = slot[t]
      /\ slot'[s].op = slot[s].op /\ slot'[s].key = slot[s].key /\ slot'[s].row = slot[s].row
      /\ slot'[s].at = "wipe"
      /\ calm' \in BOOLEAN /\ faults' \in 0..MaxFaults /\ calm' = calm
  BY <1>1, GoesOn, SameFacts DEF ResetActive, Places
<1>4. Patch(a, "current", None) /\ <<"current", None>> \in Fields BY <1>1 DEF ResetActive, Fields
<1>5. /\ asset' \in [Assets -> AssetRows \cup {None}] /\ \A b \in Assets : asset'[b] # None <=> asset[b] # None
  BY <1>1, <1>4, PatchFacts
<1>6. UNCHANGED <<born, version, usage, pending, objects, session, multipart, active, ids, gone, doomed>>
  BY DEF ResetActive, rows, store, history
<1>7. TypeInv' BY <1>1, <1>3, <1>5, <1>6 DEF TypeInv, TypeOK, Keys
<1>8. KnownInv' BY <1>1, <1>3, <1>5, <1>6 DEF KnownInv, Known, Busy, Asset
<1>9. FreshInv' BY <1>1, <1>3, <1>5, <1>6 DEF FreshInv, New, Putting, Busy, At
<1>10. GoneInv' BY <1>1, <1>3, <1>5, <1>6 DEF GoneInv, Asset
<1>11. SessionInv' BY <1>1, <1>3, <1>5, <1>6 DEF SessionInv, KnownInv, Known, Asset
<1>12. WipedInv' BY <1>1, <1>3, <1>5, <1>6 DEF WipedInv, Below, KnownInv, Known, GoneInv, At, Asset
<1>13. DoomedIsQueued' BY <1>1, <1>3, <1>5, <1>6 DEF DoomedIsQueued, Covered, KnownInv, Known
<1>14. RetryFindsTheObject' BY <1>1, <1>3, <1>5, <1>6 DEF RetryFindsTheObject
<1>15. AloneInv' BY <1>1, <1>2, <1>3, <1>5, <1>6 DEF AloneInv, Busy
<1>16. FilesInv'
  BY <1>1, <1>2, <1>3, <1>5, <1>6 DEF FilesInv, Filed, Unhurried, StayGone, SessionsEnd, Unborn, Uploaded,
       Present, Committing, At, Asset
<1>17. UsageInv'
  <2>1. calm' => calm /\ DeletingInv' BY <1>1, <1>3, <1>5, <1>6, AssetStoreAssumption DEF UsageInv, DeletingInv, At, Asset
  <2>2. StoredAssets' = StoredAssets /\ StoredVersions' = StoredVersions BY <1>1, <1>3, <1>5, <1>6, AssetStoreAssumption DEF StoredAssets, StoredVersions
  <2>3. Uncounted' = Uncounted BY <1>1, <1>3, <1>5, <1>6, AssetStoreAssumption DEF Uncounted, Asset
  <2>4. QED BY <2>1, <2>2, <2>3, <1>1, <1>3, <1>5, <1>6, AssetStoreAssumption, SameUsage
<1>18. QED BY <1>7, <1>8, <1>9, <1>10, <1>11, <1>12, <1>13, <1>14, <1>15, <1>16, <1>17

LEMMA WipeVersionKeeps ==
  ASSUME StoreInv, NEW s \in Slots, WipeVersion(s)
  PROVE  StoreInv'
<1> USE DEF StoreInv
<1>1. PICK a \in Assets, v \in Versions :
      /\ slot[s].op = "unversion" /\ slot[s].at = "wipe" /\ slot[s].key = <<a, v>> /\ Asset(s) = a
      /\ slot[s].key[1] = a /\ slot[s].key[2] = v
  BY RequestFacts DEF WipeVersion, At, Asset
<1>2. calm => cron = Cron /\ cron.at = "idle" /\ \A t \in Slots \ {s} : slot[t].op = "idle"
  BY <1>1, AloneFacts
<1>3. PICK at \in {"count", "queue"} : GoTo(s, at) BY DEF WipeVersion
<1>4. /\ SlotsOK' /\ CronsOK' /\ cron' = cron /\ \A t \in Slots \ {s} : slot'[t] = slot[t]
      /\ slot'[s].op = slot[s].op /\ slot'[s].key = slot[s].key /\ slot'[s].row = slot[s].row
      /\ slot'[s].at \in {"count", "queue"}
  BY <1>1, <1>3, GoesOn DEF Places
<1>5. <<a, v>> \in Keys /\ (WipeDone(<<a, v>>) \/ WipePartial(<<a, v>>)) BY <1>1 DEF WipeVersion, Keys
<1>6. /\ objects' \subseteq objects /\ \A k \in objects : k \in objects' \/ (k[1] = a /\ k[2] = v)
      /\ calm' \in BOOLEAN /\ faults' \in 0..MaxFaults /\ (calm' => calm)
  <2>1. v # None BY AssetStoreAssumption
  <2>2. QED BY <1>5, <2>1, Wipes DEF Below
<1>7. UNCHANGED <<asset, born, version, usage, pending, session, multipart, active, ids, gone, doomed>>
  BY DEF WipeVersion, rows, store, history
<1>8. TypeInv' BY <1>1, <1>4, <1>6, <1>7 DEF TypeInv, TypeOK, Keys
<1>9. KnownInv' BY <1>1, <1>4, <1>6, <1>7 DEF KnownInv, Known, Busy, Asset
<1>10. FreshInv' BY <1>1, <1>4, <1>6, <1>7 DEF FreshInv, New, Putting, Busy, At
<1>11. GoneInv' BY <1>1, <1>4, <1>6, <1>7 DEF GoneInv, Asset
<1>12. SessionInv' BY <1>1, <1>4, <1>6, <1>7 DEF SessionInv, KnownInv, Known, Asset
<1>13. WipedInv' BY <1>1, <1>4, <1>6, <1>7 DEF WipedInv, Below, KnownInv, Known, GoneInv, At, Asset
<1>14. DoomedIsQueued' BY <1>1, <1>4, <1>6, <1>7 DEF DoomedIsQueued, Covered, KnownInv, Known
<1>15. RetryFindsTheObject' BY <1>1, <1>4, <1>6, <1>7, AssetStoreAssumption DEF RetryFindsTheObject
<1>16. AloneInv' BY <1>1, <1>2, <1>4, <1>6, <1>7 DEF AloneInv, Busy
<1>17. FilesInv'
  BY <1>1, <1>2, <1>4, <1>6, <1>7, AssetStoreAssumption DEF FilesInv, Filed, Unhurried, StayGone, SessionsEnd,
       Unborn, Uploaded, Present, Committing, At, Asset
<1>18. UsageInv'
  <2>1. calm' => calm /\ DeletingInv' BY <1>1, <1>4, <1>6, <1>7 DEF UsageInv, DeletingInv, At, Asset
  <2>2. StoredAssets' = StoredAssets /\ StoredVersions' = StoredVersions BY <1>1, <1>4, <1>6, <1>7 DEF StoredAssets, StoredVersions
  <2>3. Uncounted' = Uncounted BY <1>1, <1>4, <1>6, <1>7 DEF Uncounted, Asset
  <2>4. QED BY <2>1, <2>2, <2>3, <1>1, <1>4, <1>6, <1>7, SameUsage
<1>19. QED BY <1>8, <1>9, <1>10, <1>11, <1>12, <1>13, <1>14, <1>15, <1>16, <1>17, <1>18

LEMMA QueueVersionKeeps ==
  ASSUME StoreInv, NEW s \in Slots, QueueVersion(s)
  PROVE  StoreInv'
<1> USE DEF StoreInv
<1>1. PICK a \in Assets, v \in Versions :
      /\ slot[s].op = "unversion" /\ slot[s].at = "queue" /\ slot[s].key = <<a, v>> /\ Asset(s) = a
      /\ slot[s].key[1] = a /\ slot[s].key[2] = v
  BY RequestFacts DEF QueueVersion, At, Asset
<1>2. calm => cron = Cron /\ cron.at = "idle" /\ \A t \in Slots \ {s} : slot[t].op = "idle"
  BY <1>1, AloneFacts
<1>3. /\ SlotsOK' /\ CronsOK' /\ cron' = cron /\ \A t \in Slots \ {s} : slot'[t] = slot[t]
      /\ slot'[s].op = slot[s].op /\ slot'[s].key = slot[s].key /\ slot'[s].row = slot[s].row
      /\ slot'[s].at = "count"
      /\ calm' \in BOOLEAN /\ faults' \in 0..MaxFaults /\ calm' = calm
  BY <1>1, GoesOn, SameFacts DEF QueueVersion, Places
<1>4. pending' = pending \cup {<<a, v>>} BY <1>1 DEF QueueVersion
<1>5. UNCHANGED <<asset, born, version, usage, objects, session, multipart, active, ids, gone, doomed>>
  BY DEF QueueVersion, rows, store, history
<1>6. TypeInv' BY <1>1, <1>3, <1>4, <1>5 DEF TypeInv, TypeOK, Keys
<1>7. KnownInv' BY <1>1, <1>3, <1>4, <1>5 DEF KnownInv, Known, Busy, Asset
<1>8. FreshInv' BY <1>1, <1>3, <1>4, <1>5 DEF FreshInv, New, Putting, Busy, At
<1>9. GoneInv' BY <1>1, <1>3, <1>4, <1>5, AssetStoreAssumption DEF GoneInv, Asset
<1>10. SessionInv' BY <1>1, <1>3, <1>4, <1>5 DEF SessionInv, KnownInv, Known, Asset
<1>11. WipedInv' BY <1>1, <1>3, <1>4, <1>5 DEF WipedInv, Below, KnownInv, Known, GoneInv, At, Asset
<1>12. DoomedIsQueued' BY <1>1, <1>3, <1>4, <1>5 DEF DoomedIsQueued, Covered, KnownInv, Known
<1>13. RetryFindsTheObject' BY <1>1, <1>3, <1>4, <1>5 DEF RetryFindsTheObject
<1>14. AloneInv' BY <1>1, <1>2, <1>3, <1>4, <1>5 DEF AloneInv, Busy
<1>15. FilesInv'
  BY <1>1, <1>2, <1>3, <1>4, <1>5 DEF FilesInv, Filed, Unhurried, StayGone, SessionsEnd, Unborn, Uploaded,
       Present, Committing, At, Asset
<1>16. UsageInv'
  <2>1. calm' => calm /\ DeletingInv' BY <1>1, <1>3, <1>5 DEF UsageInv, DeletingInv, At, Asset
  <2>2. StoredAssets' = StoredAssets /\ StoredVersions' = StoredVersions BY <1>1, <1>3, <1>5 DEF StoredAssets, StoredVersions
  <2>3. Uncounted' = Uncounted BY <1>1, <1>3, <1>5 DEF Uncounted, Asset
  <2>4. QED BY <2>1, <2>2, <2>3, <1>1, <1>3, <1>5, SameUsage
<1>17. QED BY <1>6, <1>7, <1>8, <1>9, <1>10, <1>11, <1>12, <1>13, <1>14, <1>15, <1>16

LEMMA CountVersionKeeps ==
  ASSUME StoreInv, NEW s \in Slots, CountVersion(s)
  PROVE  StoreInv'
<1> USE DEF StoreInv
<1>1. PICK a \in Assets, v \in Versions :
      /\ slot[s].op = "unversion" /\ slot[s].at = "count" /\ slot[s].key = <<a, v>> /\ Asset(s) = a
      /\ slot[s].key[1] = a /\ slot[s].key[2] = v
  BY RequestFacts DEF CountVersion, At, Asset
<1>2. calm => cron = Cron /\ cron.at = "idle" /\ \A t \in Slots \ {s} : slot[t].op = "idle"
  BY <1>1, AloneFacts
<1>3. /\ SlotsOK' /\ CronsOK' /\ cron' = cron /\ \A t \in Slots \ {s} : slot'[t] = slot[t]
      /\ slot'[s].op = "idle" /\ slot'[s].at = "idle" /\ slot'[s].key[2] = None
      /\ calm' \in BOOLEAN /\ faults' \in 0..MaxFaults /\ calm' = calm
  BY <1>1, Returns, SameFacts DEF CountVersion
<1>4. usage' = IF a \in Owned THEN Discounted(1) ELSE usage BY <1>1 DEF CountVersion, CountIf
<1>5. usage' \in [size : Nat, count : Nat] BY <1>4, DiscountedFacts DEF TypeInv, TypeOK
<1>6. UNCHANGED <<asset, born, version, pending, objects, session, multipart, active, ids, gone, doomed>>
  BY DEF CountVersion, rows, store, history
<1>7. TypeInv' BY <1>1, <1>3, <1>5, <1>6 DEF TypeInv, TypeOK, Keys
<1>8. KnownInv' BY <1>1, <1>3, <1>5, <1>6 DEF KnownInv, Known, Busy, Asset
<1>9. FreshInv' BY <1>1, <1>3, <1>5, <1>6 DEF FreshInv, New, Putting, Busy, At
<1>10. GoneInv' BY <1>1, <1>3, <1>5, <1>6 DEF GoneInv, Asset
<1>11. SessionInv' BY <1>1, <1>3, <1>5, <1>6 DEF SessionInv, KnownInv, Known, Asset
<1>12. WipedInv' BY <1>1, <1>3, <1>5, <1>6 DEF WipedInv, Below, KnownInv, Known, GoneInv, At, Asset
<1>13. DoomedIsQueued' BY <1>1, <1>3, <1>5, <1>6 DEF DoomedIsQueued, Covered, KnownInv, Known
<1>14. RetryFindsTheObject' BY <1>1, <1>3, <1>5, <1>6 DEF RetryFindsTheObject
<1>15. AloneInv' BY <1>1, <1>2, <1>3, <1>5, <1>6 DEF AloneInv, Busy
<1>16. FilesInv'
  BY <1>1, <1>2, <1>3, <1>5, <1>6 DEF FilesInv, Filed, Unhurried, StayGone, SessionsEnd, Unborn, Uploaded,
       Present, Committing, At, Asset
<1>17. UsageInv'
  <2> SUFFICES ASSUME calm' PROVE (DeletingInv /\ CountInv)' BY DEF UsageInv
  <2>1. DeletingInv' BY <1>1, <1>2, <1>3 DEF DeletingInv, At, Asset
  <2>2. StoredAssets' = StoredAssets /\ StoredVersions' = StoredVersions BY <1>6 DEF StoredAssets, StoredVersions
  <2>3. Uncounted' = {} BY <1>1, <1>2, <1>3 DEF Uncounted
  <2>4. CASE a \in Owned
    <3>1. s \in Uncounted BY <1>1, <2>4 DEF Uncounted
    <3>2. usage.size = Cardinality(StoredAssets) + Cardinality(StoredVersions) + 1
      BY <1>2, <1>3, <3>1 DEF UsageInv, CountInv
    <3>3. usage'.size = Cardinality(StoredAssets) + Cardinality(StoredVersions)
      BY <1>4, <2>4, <3>2, StoredFinite, DiscountedFacts
    <3>4. CountInv' BY <2>2, <2>3, <3>3, StoredFinite DEF CountInv
    <3>5. QED BY <2>1, <3>4
  <2>5. CASE a \notin Owned
    <3>1. Uncounted = {} BY <1>1, <1>2, <1>3, <2>5 DEF Uncounted
    <3>2. CountInv' BY <1>2, <1>3, <1>4, <2>2, <2>3, <2>5, <3>1 DEF UsageInv, CountInv
    <3>3. QED BY <2>1, <3>2
  <2>6. QED BY <2>4, <2>5
<1>18. QED BY <1>7, <1>8, <1>9, <1>10, <1>11, <1>12, <1>13, <1>14, <1>15, <1>16, <1>17

LEMMA CheckVersionKeeps ==
  ASSUME StoreInv, NEW s \in Slots, CheckVersion(s)
  PROVE  StoreInv'
<1> USE DEF StoreInv
<1>1. PICK a \in Assets :
      /\ slot[s].op = "patch" /\ slot[s].at = "check" /\ slot[s].key = <<a, None>> /\ Asset(s) = a
      /\ slot[s].key[1] = a /\ slot[s].key[2] = None
  BY RequestFacts DEF CheckVersion, At, Asset
<1>2. calm => cron = Cron /\ cron.at = "idle" /\ \A t \in Slots \ {s} : slot[t].op = "idle"
  BY <1>1, AloneFacts
<1>3. /\ SlotsOK' /\ CronsOK' /\ cron' = cron /\ \A t \in Slots \ {s} : slot'[t] = slot[t]
      /\ slot'[s].op \in {"idle", "patch"} /\ (slot'[s].op = "idle" => slot'[s].at = "idle")
      /\ slot'[s].op = "patch" => slot'[s].at = "update" /\ slot'[s].key = slot[s].key /\ slot'[s].row = slot[s].row
      /\ calm' \in BOOLEAN /\ faults' \in 0..MaxFaults /\ calm' = calm
  <2>1. GoTo(s, "update") \/ Return(s) BY DEF CheckVersion
  <2>2. CASE GoTo(s, "update") BY <2>2, <1>1, GoesOn, SameFacts DEF CheckVersion, Places
  <2>3. CASE Return(s) BY <2>3, <1>1, Returns, SameFacts DEF CheckVersion
  <2>4. QED BY <2>1, <2>2, <2>3
<1>4. UNCHANGED <<asset, born, version, usage, pending, objects, session, multipart, active, ids, gone, doomed>>
  BY DEF CheckVersion, rows, store, history
<1>5. TypeInv' BY <1>1, <1>2, <1>3, <1>4 DEF TypeInv, TypeOK, Keys
<1>6. KnownInv' BY <1>1, <1>2, <1>3, <1>4 DEF KnownInv, Known, Busy, Asset
<1>7. FreshInv' BY <1>1, <1>2, <1>3, <1>4 DEF FreshInv, New, Putting, Busy, At
<1>8. GoneInv' BY <1>1, <1>2, <1>3, <1>4 DEF GoneInv, Asset
<1>9. SessionInv' BY <1>1, <1>2, <1>3, <1>4 DEF SessionInv, KnownInv, Known, Asset
<1>10. WipedInv' BY <1>1, <1>2, <1>3, <1>4 DEF WipedInv, Below, KnownInv, Known, GoneInv, At, Asset
<1>11. DoomedIsQueued' BY <1>1, <1>2, <1>3, <1>4 DEF DoomedIsQueued, Covered, KnownInv, Known
<1>12. RetryFindsTheObject' BY <1>1, <1>2, <1>3, <1>4 DEF RetryFindsTheObject
<1>13. AloneInv' BY <1>1, <1>2, <1>3, <1>4 DEF AloneInv, Busy
<1>14. FilesInv'
  BY <1>1, <1>2, <1>3, <1>4 DEF FilesInv, Filed, Unhurried, StayGone, SessionsEnd, Unborn, Uploaded, Present,
       Committing, At, Asset
<1>15. UsageInv'
  <2>1. calm' => calm /\ DeletingInv' BY <1>1, <1>3, <1>4 DEF UsageInv, DeletingInv, At, Asset
  <2>2. StoredAssets' = StoredAssets /\ StoredVersions' = StoredVersions BY <1>1, <1>3, <1>4 DEF StoredAssets, StoredVersions
  <2>3. Uncounted' = Uncounted BY <1>1, <1>3, <1>4 DEF Uncounted, Asset
  <2>4. QED BY <2>1, <2>2, <2>3, <1>1, <1>3, <1>4, SameUsage
<1>16. QED BY <1>5, <1>6, <1>7, <1>8, <1>9, <1>10, <1>11, <1>12, <1>13, <1>14, <1>15

LEMMA UpdateRowKeeps ==
  ASSUME StoreInv, NEW s \in Slots, UpdateRow(s)
  PROVE  StoreInv'
<1> USE DEF StoreInv
<1>1. PICK a \in Assets :
      /\ slot[s].op = "patch" /\ slot[s].at = "update" /\ slot[s].key = <<a, None>> /\ Asset(s) = a
      /\ slot[s].key[1] = a /\ slot[s].key[2] = None
  BY RequestFacts DEF UpdateRow, At, Asset
<1>2. calm => cron = Cron /\ cron.at = "idle" /\ \A t \in Slots \ {s} : slot[t].op = "idle"
  BY <1>1, AloneFacts
<1>3. /\ SlotsOK' /\ CronsOK' /\ cron' = cron /\ \A t \in Slots \ {s} : slot'[t] = slot[t]
      /\ slot'[s].op = "idle" /\ slot'[s].at = "idle" /\ slot'[s].key[2] = None
      /\ calm' \in BOOLEAN /\ faults' \in 0..MaxFaults /\ calm' = calm
  BY <1>1, Returns, SameFacts DEF UpdateRow
<1>4. /\ asset' \in [Assets -> AssetRows \cup {None}] /\ \A b \in Assets : asset'[b] # None <=> asset[b] # None
  <2>1. PICK f \in Fields : slot[s].row = f BY <1>1, RequestFacts
  <2>2. f = <<f[1], f[2]>> BY DEF Fields
  <2>3. Patch(a, f[1], f[2]) BY <1>1, <2>1 DEF UpdateRow
  <2>4. QED BY <2>2, <2>3, PatchFacts
<1>5. UNCHANGED <<born, version, usage, pending, objects, session, multipart, active, ids, gone, doomed>>
  BY DEF UpdateRow, rows, store, history
<1>6. TypeInv' BY <1>1, <1>3, <1>4, <1>5 DEF TypeInv, TypeOK, Keys
<1>7. KnownInv' BY <1>1, <1>3, <1>4, <1>5 DEF KnownInv, Known, Busy, Asset
<1>8. FreshInv' BY <1>1, <1>3, <1>4, <1>5 DEF FreshInv, New, Putting, Busy, At
<1>9. GoneInv' BY <1>1, <1>3, <1>4, <1>5 DEF GoneInv, Asset
<1>10. SessionInv' BY <1>1, <1>3, <1>4, <1>5 DEF SessionInv, KnownInv, Known, Asset
<1>11. WipedInv' BY <1>1, <1>3, <1>4, <1>5 DEF WipedInv, Below, KnownInv, Known, GoneInv, At, Asset
<1>12. DoomedIsQueued' BY <1>1, <1>3, <1>4, <1>5 DEF DoomedIsQueued, Covered, KnownInv, Known
<1>13. RetryFindsTheObject' BY <1>1, <1>3, <1>4, <1>5 DEF RetryFindsTheObject
<1>14. AloneInv' BY <1>1, <1>2, <1>3, <1>4, <1>5 DEF AloneInv, Busy
<1>15. FilesInv'
  BY <1>1, <1>2, <1>3, <1>4, <1>5 DEF FilesInv, Filed, Unhurried, StayGone, SessionsEnd, Unborn, Uploaded,
       Present, Committing, At, Asset
<1>16. UsageInv'
  <2>1. calm' => calm /\ DeletingInv' BY <1>1, <1>3, <1>4, <1>5, AssetStoreAssumption DEF UsageInv, DeletingInv, At, Asset
  <2>2. StoredAssets' = StoredAssets /\ StoredVersions' = StoredVersions BY <1>1, <1>3, <1>4, <1>5, AssetStoreAssumption DEF StoredAssets, StoredVersions
  <2>3. Uncounted' = Uncounted BY <1>1, <1>3, <1>4, <1>5, AssetStoreAssumption DEF Uncounted, Asset
  <2>4. QED BY <2>1, <2>2, <2>3, <1>1, <1>3, <1>4, <1>5, AssetStoreAssumption, SameUsage
<1>17. QED BY <1>6, <1>7, <1>8, <1>9, <1>10, <1>11, <1>12, <1>13, <1>14, <1>15, <1>16

LEMMA DeleteRowsKeeps ==
  ASSUME StoreInv, NEW s \in Slots, DeleteRows(s)
  PROVE  StoreInv'
<1> USE DEF StoreInv
<1>1. PICK a \in Assets :
      /\ slot[s].op = "delete" /\ slot[s].at = "commit" /\ slot[s].key = <<a, None>> /\ Asset(s) = a
      /\ slot[s].key[1] = a /\ slot[s].key[2] = None
  BY RequestFacts DEF DeleteRows, At, Asset
<1>2. calm => cron = Cron /\ cron.at = "idle" /\ \A t \in Slots \ {s} : slot[t].op = "idle"
  BY <1>1, AloneFacts
<1>3. /\ SlotsOK' /\ CronsOK' /\ cron' = cron /\ \A t \in Slots \ {s} : slot'[t] = slot[t]
      /\ slot'[s].op = slot[s].op /\ slot'[s].key = slot[s].key /\ slot'[s].row = slot[s].row
      /\ slot'[s].at = "wipe"
      /\ calm' \in BOOLEAN /\ faults' \in 0..MaxFaults /\ calm' = calm
  BY <1>1, GoesOn, SameFacts DEF DeleteRows, Places
<1>4. /\ asset' \in [Assets -> AssetRows \cup {None}] /\ asset'[a] = None
      /\ \A b \in Assets \ {a} : asset'[b] = asset[b]
      /\ version' \in [Versions -> Assets \cup {None}]
      /\ \A u \in Versions : version'[u] = IF version[u] = a THEN None ELSE version[u]
  <2>1. asset' = [asset EXCEPT ![a] = None]
        /\ version' = [u \in Versions |-> IF u \in Of(a) THEN None ELSE version[u]]
    BY <1>1 DEF DeleteRows, RemoveRows
  <2>2. QED BY <2>1 DEF TypeInv, TypeOK, Of
<1>5. usage' = IF asset[a] # None /\ a \in Owned THEN Discounted(1 + Cardinality(Of(a))) ELSE usage
  BY <1>1 DEF DeleteRows, RemoveRows, CountIf
<1>6. usage' \in [size : Nat, count : Nat]
  BY <1>5, StoredFinite, DiscountedFacts DEF TypeInv, TypeOK
<1>7. /\ pending' = pending \cup {<<a, None>>} /\ gone' = gone \cup {a} /\ a \in born
      /\ doomed \subseteq doomed' /\ doomed' \subseteq doomed \cup objects /\ (a \in gone => doomed' = doomed)
      /\ \A k \in doomed' : k \in doomed \/ (k[1] = a /\ k \in Under(<<a, None>>))
  <2>1. pending' = pending \cup {<<a, None>>} /\ gone' = gone \cup {a} BY <1>1 DEF DeleteRows
  <2>2. doomed' = IF a \in gone THEN doomed ELSE doomed \cup (objects \cap Under(<<a, None>>)) BY <1>1 DEF DeleteRows
  <2>3. a \in born BY <1>1 DEF KnownInv
  <2>4. \A k \in Under(<<a, None>>) : k[1] = a BY DEF Under
  <2>5. QED BY <2>1, <2>2, <2>3, <2>4
<1>8. UNCHANGED <<born, objects, session, multipart, active, ids>> /\ born' = born
  BY DEF DeleteRows, rows, store, history, RemoveRows
<1>9. TypeInv' BY <1>1, <1>3, <1>4, <1>6, <1>7, <1>8 DEF TypeInv, TypeOK, Keys
<1>10. KnownInv' BY <1>1, <1>3, <1>4, <1>6, <1>7, <1>8 DEF KnownInv, Known, Busy, Asset
<1>11. FreshInv' BY <1>1, <1>3, <1>4, <1>6, <1>7, <1>8, AssetStoreAssumption DEF FreshInv, New, Putting, Busy, At
<1>12. GoneInv' BY <1>1, <1>3, <1>4, <1>6, <1>7, <1>8 DEF GoneInv, Asset
<1>13. SessionInv' BY <1>1, <1>3, <1>4, <1>6, <1>7, <1>8 DEF SessionInv, KnownInv, Known, Asset
<1>14. WipedInv' BY <1>1, <1>3, <1>4, <1>6, <1>7, <1>8 DEF WipedInv, Below, KnownInv, Known, GoneInv, At, Asset
<1>15. DoomedIsQueued' BY <1>1, <1>3, <1>4, <1>6, <1>7, <1>8 DEF DoomedIsQueued, Covered, KnownInv, Known
<1>16. RetryFindsTheObject' BY <1>1, <1>3, <1>4, <1>6, <1>7, <1>8 DEF RetryFindsTheObject
<1>17. AloneInv' BY <1>1, <1>2, <1>3, <1>4, <1>6, <1>7, <1>8 DEF AloneInv, Busy
<1>18. FilesInv'
  BY <1>1, <1>2, <1>3, <1>4, <1>6, <1>7, <1>8 DEF FilesInv, Filed, Unhurried, StayGone, SessionsEnd, Unborn,
       Uploaded, Present, Committing, At, Asset
<1>19. UsageInv'
  <2> SUFFICES ASSUME calm' PROVE (DeletingInv /\ CountInv)' BY DEF UsageInv
  <2>1. DeletingInv' BY <1>1, <1>2, <1>3 DEF DeletingInv, At, Asset
  <2>2. asset[a] # None BY <1>1, <1>3 DEF FilesInv, Present, At
  <2>3. Uncounted = {} /\ Uncounted' = {} BY <1>1, <1>2, <1>3 DEF Uncounted, Asset
  <2>4. usage.size = Cardinality(StoredAssets) + Cardinality(StoredVersions)
    BY <1>2, <1>3, <2>3, StoredFinite DEF UsageInv, CountInv
  <2>5. CASE a \in Owned
    <3>1. StoredAssets' = StoredAssets \ {a} /\ a \in StoredAssets
      BY <1>4, <2>2, <2>5, AssetStoreAssumption DEF StoredAssets
    <3>2. Cardinality(StoredAssets') = Cardinality(StoredAssets) - 1 BY <3>1, StoredFinite, FS_RemoveElement
    <3>3. StoredVersions' = StoredVersions \ Of(a) /\ Of(a) = StoredVersions \cap Of(a)
      BY <1>4, <2>5, AssetStoreAssumption DEF StoredVersions, Of
    <3>4. Cardinality(StoredVersions') = Cardinality(StoredVersions) - Cardinality(Of(a))
      BY <3>3, StoredFinite, FS_Difference
    <3>5. Cardinality(Of(a)) <= Cardinality(StoredVersions) BY <3>3, StoredFinite, FS_Subset
    <3>6. Cardinality(Of(a)) \in Nat /\ Cardinality(StoredAssets) \in Nat /\ Cardinality(StoredVersions) \in Nat
      BY StoredFinite
    <3>7. Cardinality(StoredAssets) # 0 BY <3>1, StoredFinite, FS_EmptySet
    <3>8. usage'.size = usage.size - (1 + Cardinality(Of(a)))
      <4>1. PICK n \in Nat : n = 1 + Cardinality(Of(a)) BY <3>6
      <4>2. usage' = Discounted(n) BY <1>5, <2>2, <2>5, <4>1
      <4>3. usage.size >= n BY <2>4, <3>5, <3>6, <3>7, <4>1
      <4>4. Discounted(n).size = usage.size - n BY <4>3, DiscountedFacts
      <4>5. QED BY <4>1, <4>2, <4>4
    <3>9. CountInv' BY <2>3, <2>4, <3>2, <3>4, <3>5, <3>6, <3>7, <3>8 DEF CountInv
    <3>10. QED BY <2>1, <3>9
  <2>6. CASE a \notin Owned
    <3>1. StoredAssets' = StoredAssets /\ StoredVersions' = StoredVersions
      BY <1>4, <2>6, AssetStoreAssumption DEF StoredAssets, StoredVersions
    <3>2. CountInv' BY <1>5, <2>3, <2>4, <2>6, <3>1, StoredFinite DEF CountInv
    <3>3. QED BY <2>1, <3>2
  <2>7. QED BY <2>5, <2>6
<1>20. QED BY <1>9, <1>10, <1>11, <1>12, <1>13, <1>14, <1>15, <1>16, <1>17, <1>18, <1>19

LEMMA WipeAssetKeeps ==
  ASSUME StoreInv, NEW s \in Slots, WipeAsset(s)
  PROVE  StoreInv'
<1> USE DEF StoreInv
<1>1. PICK a \in Assets :
      /\ slot[s].op = "delete" /\ slot[s].at = "wipe" /\ slot[s].key = <<a, None>> /\ Asset(s) = a
      /\ slot[s].key[1] = a /\ slot[s].key[2] = None
  BY RequestFacts DEF WipeAsset, At, Asset
<1>2. calm => cron = Cron /\ cron.at = "idle" /\ \A t \in Slots \ {s} : slot[t].op = "idle"
  BY <1>1, AloneFacts
<1>3. <<a, None>> \in Keys BY <1>1 DEF Keys
<1>4. /\ SlotsOK' /\ CronsOK' /\ cron' = cron /\ \A t \in Slots \ {s} : slot'[t] = slot[t]
      /\ slot'[s].op \in {"idle", "delete"} /\ (slot'[s].op = "idle" => slot'[s].at = "idle")
      /\ slot'[s].op = "delete" => slot'[s].at = "unqueue" /\ slot'[s].key = slot[s].key /\ slot'[s].row = slot[s].row
      /\ calm' \in BOOLEAN /\ faults' \in 0..MaxFaults /\ (calm' => calm)
      /\ objects' \subseteq objects /\ \A k \in objects : k \in objects' \/ k[1] = a
      /\ slot'[s].op = "delete" => \A k \in objects' : k[1] # a
  <2>1. CASE WipeDone(<<a, None>>) /\ GoTo(s, "unqueue") BY <2>1, <1>1, <1>3, GoesOn, Wipes DEF Places, Below
  <2>2. CASE WipePartial(<<a, None>>) /\ Return(s) BY <2>2, <1>3, <1>1, Returns, Wipes DEF Below
  <2>3. CASE Fault /\ Return(s) /\ UNCHANGED objects BY <2>3, <1>1, Returns, FaultFacts
  <2>4. QED BY <1>1, <2>1, <2>2, <2>3 DEF WipeAsset
<1>5. a \in gone /\ a \in born BY <1>1 DEF GoneInv, KnownInv
<1>6. UNCHANGED <<asset, born, version, usage, pending, session, multipart, active, ids, gone, doomed>>
  BY DEF WipeAsset, rows, store, history
<1>7. TypeInv' BY <1>1, <1>4, <1>5, <1>6 DEF TypeInv, TypeOK, Keys
<1>8. KnownInv' BY <1>1, <1>4, <1>5, <1>6 DEF KnownInv, Known, Busy, Asset
<1>9. FreshInv' BY <1>1, <1>4, <1>5, <1>6 DEF FreshInv, New, Putting, Busy, At
<1>10. GoneInv' BY <1>1, <1>4, <1>5, <1>6 DEF GoneInv, Asset
<1>11. SessionInv' BY <1>1, <1>4, <1>5, <1>6 DEF SessionInv, KnownInv, Known, Asset
<1>12. WipedInv' BY <1>1, <1>4, <1>5, <1>6 DEF WipedInv, Below, KnownInv, Known, GoneInv, At, Asset
<1>13. DoomedIsQueued' BY <1>1, <1>4, <1>5, <1>6 DEF DoomedIsQueued, Covered, KnownInv, Known
<1>14. RetryFindsTheObject' BY <1>1, <1>4, <1>5, <1>6 DEF RetryFindsTheObject
<1>15. AloneInv' BY <1>1, <1>2, <1>4, <1>5, <1>6 DEF AloneInv, Busy
<1>16. FilesInv'
  BY <1>1, <1>2, <1>4, <1>5, <1>6 DEF FilesInv, Filed, Unhurried, StayGone, SessionsEnd, Unborn, Uploaded,
       Present, Committing, At, Asset
<1>17. UsageInv'
  <2>1. calm' => calm /\ DeletingInv' BY <1>1, <1>4, <1>6 DEF UsageInv, DeletingInv, At, Asset
  <2>2. StoredAssets' = StoredAssets /\ StoredVersions' = StoredVersions BY <1>1, <1>4, <1>6 DEF StoredAssets, StoredVersions
  <2>3. Uncounted' = Uncounted BY <1>1, <1>4, <1>6 DEF Uncounted, Asset
  <2>4. QED BY <2>1, <2>2, <2>3, <1>1, <1>4, <1>6, SameUsage
<1>18. QED BY <1>7, <1>8, <1>9, <1>10, <1>11, <1>12, <1>13, <1>14, <1>15, <1>16, <1>17

LEMMA UnqueueKeeps ==
  ASSUME StoreInv, NEW s \in Slots, Unqueue(s)
  PROVE  StoreInv'
<1> USE DEF StoreInv
<1>1. PICK a \in Assets :
      /\ slot[s].op = "delete" /\ slot[s].at = "unqueue" /\ slot[s].key = <<a, None>> /\ Asset(s) = a
      /\ slot[s].key[1] = a /\ slot[s].key[2] = None
  BY RequestFacts DEF Unqueue, At, Asset
<1>2. calm => cron = Cron /\ cron.at = "idle" /\ \A t \in Slots \ {s} : slot[t].op = "idle"
  BY <1>1, AloneFacts
<1>3. /\ SlotsOK' /\ CronsOK' /\ cron' = cron /\ \A t \in Slots \ {s} : slot'[t] = slot[t]
      /\ slot'[s].op = "idle" /\ slot'[s].at = "idle" /\ slot'[s].key[2] = None
      /\ calm' \in BOOLEAN /\ faults' \in 0..MaxFaults /\ calm' = calm
  BY <1>1, Returns, SameFacts DEF Unqueue
<1>4. pending' = pending \ {<<a, None>>} BY <1>1 DEF Unqueue
<1>5. UNCHANGED <<asset, born, version, usage, objects, session, multipart, active, ids, gone, doomed>>
  BY DEF Unqueue, rows, store, history
<1>6. TypeInv' BY <1>1, <1>3, <1>4, <1>5 DEF TypeInv, TypeOK, Keys
<1>7. KnownInv' BY <1>1, <1>3, <1>4, <1>5 DEF KnownInv, Known, Busy, Asset
<1>8. FreshInv' BY <1>1, <1>3, <1>4, <1>5 DEF FreshInv, New, Putting, Busy, At
<1>9. GoneInv' BY <1>1, <1>3, <1>4, <1>5 DEF GoneInv, Asset
<1>10. SessionInv' BY <1>1, <1>3, <1>4, <1>5 DEF SessionInv, KnownInv, Known, Asset
<1>11. WipedInv' BY <1>1, <1>3, <1>4, <1>5 DEF WipedInv, Below, KnownInv, Known, GoneInv, At, Asset
<1>12. DoomedIsQueued'
  <2> SUFFICES ASSUME NEW k \in doomed \cap objects PROVE Covered(k)'
    BY <1>5 DEF DoomedIsQueued
  <2>1. PICK p \in pending : k \in Under(p) BY DEF DoomedIsQueued, Covered
  <2>2. k[1] # a BY <1>1 DEF WipedInv, At
  <2>3. \A q \in Under(<<a, None>>) : q[1] = a BY DEF Under
  <2>4. p # <<a, None>> BY <2>1, <2>2, <2>3
  <2>5. QED BY <1>4, <2>1, <2>4 DEF Covered
<1>13. RetryFindsTheObject' BY <1>1, <1>3, <1>4, <1>5 DEF RetryFindsTheObject
<1>14. AloneInv' BY <1>1, <1>2, <1>3, <1>4, <1>5 DEF AloneInv, Busy
<1>15. FilesInv'
  BY <1>1, <1>2, <1>3, <1>4, <1>5 DEF FilesInv, Filed, Unhurried, StayGone, SessionsEnd, Unborn, Uploaded,
       Present, Committing, At, Asset
<1>16. UsageInv'
  <2>1. calm' => calm /\ DeletingInv' BY <1>1, <1>3, <1>5 DEF UsageInv, DeletingInv, At, Asset
  <2>2. StoredAssets' = StoredAssets /\ StoredVersions' = StoredVersions BY <1>1, <1>3, <1>5 DEF StoredAssets, StoredVersions
  <2>3. Uncounted' = Uncounted BY <1>1, <1>3, <1>5 DEF Uncounted, Asset
  <2>4. QED BY <2>1, <2>2, <2>3, <1>1, <1>3, <1>5, SameUsage
<1>17. QED BY <1>6, <1>7, <1>8, <1>9, <1>10, <1>11, <1>12, <1>13, <1>14, <1>15, <1>16

LEMMA SaveReportKeeps ==
  ASSUME StoreInv, NEW s \in Slots, SaveReport(s)
  PROVE  StoreInv'
<1> USE DEF StoreInv
<1>1. PICK a \in Assets, v \in Versions \cup {None} :
      /\ slot[s].op = "report" /\ slot[s].at = "save" /\ slot[s].key = <<a, v>> /\ Asset(s) = a
      /\ slot[s].key[1] = a /\ slot[s].key[2] = v
  <2>1. slot[s].op = "report" /\ slot[s].at = "save" /\ slot[s].key \in Keys BY RequestFacts DEF SaveReport, At
  <2>2. PICK a \in Assets, v \in Versions \cup {None} : slot[s].key = <<a, v>> BY <2>1 DEF Keys
  <2>3. QED BY <2>1, <2>2 DEF Asset
<1>2. calm => cron = Cron /\ cron.at = "idle" /\ \A t \in Slots \ {s} : slot[t].op = "idle"
  BY <1>1, AloneFacts
<1>3. /\ SlotsOK' /\ CronsOK' /\ cron' = cron /\ \A t \in Slots \ {s} : slot'[t] = slot[t]
      /\ slot'[s].op = "idle" /\ slot'[s].at = "idle" /\ slot'[s].key[2] = None
      /\ calm' \in BOOLEAN /\ faults' \in 0..MaxFaults /\ calm' = calm
  BY <1>1, Returns, SameFacts DEF SaveReport
<1>4. /\ asset' \in [Assets -> AssetRows \cup {None}] /\ \A b \in Assets \ {a} : asset'[b] = asset[b]
      /\ slot[s].row = None => asset'[a] = asset[a]
      /\ slot[s].row # None => asset'[a] # None /\ a \in born
  <2>1. slot[s].row # None => a \in born BY <1>1 DEF KnownInv
  <2>2. PICK r \in AssetRows \cup {None} : slot[s].row = r BY <1>1, RequestFacts
  <2>3. CASE r = None BY <1>1, <2>2, <2>3 DEF SaveReport, TypeInv, TypeOK
  <2>4. CASE r # None
    <3>1. r \in AssetRows BY <2>4
    <3>2. Extended(r) \in AssetRows BY <3>1 DEF Extended, AssetRows
    <3>3. PICK row \in {r, Extended(r)} : asset' = [asset EXCEPT ![a] = row] BY <1>1, <2>2, <2>4 DEF SaveReport
    <3>4. row \in AssetRows BY <3>1, <3>2
    <3>5. QED BY <2>1, <2>2, <2>4, <3>3, <3>4, AssetStoreAssumption DEF TypeInv, TypeOK
  <2>5. QED BY <2>3, <2>4
<1>5. active' \subseteq active BY DEF SaveReport
<1>6. calm => \A b \in Assets : asset'[b] # None <=> asset[b] # None
  BY <1>1, <1>4 DEF FilesInv, Present
<1>7. UNCHANGED <<born, version, usage, pending, objects, session, multipart, ids, gone, doomed>>
  BY DEF SaveReport, rows, store, history
<1>8. TypeInv' BY <1>1, <1>3, <1>4, <1>5, <1>7 DEF TypeInv, TypeOK, Keys
<1>9. KnownInv' BY <1>1, <1>3, <1>4, <1>5, <1>7 DEF KnownInv, Known, Busy, Asset
<1>10. FreshInv' BY <1>1, <1>3, <1>4, <1>5, <1>7 DEF FreshInv, New, Putting, Busy, At
<1>11. GoneInv' BY <1>1, <1>3, <1>4, <1>5, <1>7 DEF GoneInv, Asset
<1>12. SessionInv' BY <1>1, <1>3, <1>4, <1>5, <1>7 DEF SessionInv, KnownInv, Known, Asset
<1>13. WipedInv' BY <1>1, <1>3, <1>4, <1>5, <1>7 DEF WipedInv, Below, KnownInv, Known, GoneInv, At, Asset
<1>14. DoomedIsQueued' BY <1>1, <1>3, <1>4, <1>5, <1>7 DEF DoomedIsQueued, Covered, KnownInv, Known
<1>15. RetryFindsTheObject' BY <1>1, <1>3, <1>4, <1>5, <1>7 DEF RetryFindsTheObject
<1>16. AloneInv' BY <1>1, <1>2, <1>3, <1>4, <1>5, <1>6, <1>7 DEF AloneInv, Busy
<1>17. FilesInv'
  BY <1>1, <1>2, <1>3, <1>4, <1>5, <1>6, <1>7 DEF FilesInv, Filed, Unhurried, StayGone, SessionsEnd, Unborn,
       Uploaded, Present, Committing, At, Asset
<1>18. UsageInv'
  <2> SUFFICES ASSUME calm' PROVE UsageInv' BY DEF UsageInv
  <2>1. calm' => calm /\ DeletingInv' BY <1>1, <1>3, <1>6, <1>7, AssetStoreAssumption DEF UsageInv, DeletingInv, At, Asset
  <2>2. StoredAssets' = StoredAssets /\ StoredVersions' = StoredVersions BY <1>1, <1>3, <1>6, <1>7, AssetStoreAssumption DEF StoredAssets, StoredVersions
  <2>3. Uncounted' = Uncounted BY <1>1, <1>3, <1>6, <1>7, AssetStoreAssumption DEF Uncounted, Asset
  <2>4. QED BY <2>1, <2>2, <2>3, <1>1, <1>3, <1>6, <1>7, AssetStoreAssumption, SameUsage
<1>19. QED BY <1>8, <1>9, <1>10, <1>11, <1>12, <1>13, <1>14, <1>15, <1>16, <1>17, <1>18

LEMMA SaveExtractKeeps ==
  ASSUME StoreInv, NEW s \in Slots, SaveExtract(s)
  PROVE  StoreInv'
<1> USE DEF StoreInv
<1>1. PICK a \in Assets :
      /\ slot[s].op = "extract" /\ slot[s].at = "save" /\ slot[s].key = <<a, None>> /\ Asset(s) = a
      /\ slot[s].key[1] = a /\ slot[s].key[2] = None
  BY RequestFacts DEF SaveExtract, At, Asset
<1>2. calm => cron = Cron /\ cron.at = "idle" /\ \A t \in Slots \ {s} : slot[t].op = "idle"
  BY <1>1, AloneFacts
<1>3. /\ SlotsOK' /\ CronsOK' /\ cron' = cron /\ \A t \in Slots \ {s} : slot'[t] = slot[t]
      /\ slot'[s].op = "idle" /\ slot'[s].at = "idle" /\ slot'[s].key[2] = None
      /\ calm' \in BOOLEAN /\ faults' \in 0..MaxFaults /\ calm' = calm
  BY <1>1, Returns, SameFacts DEF SaveExtract
<1>4. /\ asset' \in [Assets -> AssetRows \cup {None}] /\ \A b \in Assets \ {a} : asset'[b] = asset[b]
      /\ slot[s].row = None => asset'[a] = asset[a]
      /\ slot[s].row # None => asset'[a] # None /\ a \in born
  <2>1. slot[s].row # None => a \in born BY <1>1 DEF KnownInv
  <2>2. slot[s].row \in AssetRows BY <1>1, RequestFacts
  <2>3. asset' = [asset EXCEPT ![a] = slot[s].row] BY <1>1 DEF SaveExtract
  <2>4. QED BY <2>1, <2>2, <2>3, AssetStoreAssumption DEF TypeInv, TypeOK
<1>5. active' = active \cup {<<a, None>>} BY <1>1 DEF SaveExtract
<1>6. calm => \A b \in Assets : asset'[b] # None <=> asset[b] # None
  BY <1>1, <1>4 DEF FilesInv, Present
<1>7. UNCHANGED <<born, version, usage, pending, objects, session, multipart, ids, gone, doomed>>
  BY DEF SaveExtract, rows, store, history
<1>8. TypeInv' BY <1>1, <1>3, <1>4, <1>5, <1>7 DEF TypeInv, TypeOK, Keys
<1>9. KnownInv' BY <1>1, <1>3, <1>4, <1>5, <1>7 DEF KnownInv, Known, Busy, Asset
<1>10. FreshInv' BY <1>1, <1>3, <1>4, <1>5, <1>7, AssetStoreAssumption DEF FreshInv, New, Putting, Busy, At
<1>11. GoneInv' BY <1>1, <1>3, <1>4, <1>5, <1>7 DEF GoneInv, Asset
<1>12. SessionInv' BY <1>1, <1>3, <1>4, <1>5, <1>7 DEF SessionInv, KnownInv, Known, Asset
<1>13. WipedInv' BY <1>1, <1>3, <1>4, <1>5, <1>7 DEF WipedInv, Below, KnownInv, Known, GoneInv, At, Asset
<1>14. DoomedIsQueued' BY <1>1, <1>3, <1>4, <1>5, <1>7 DEF DoomedIsQueued, Covered, KnownInv, Known
<1>15. RetryFindsTheObject' BY <1>1, <1>3, <1>4, <1>5, <1>7 DEF RetryFindsTheObject
<1>16. AloneInv' BY <1>1, <1>2, <1>3, <1>4, <1>5, <1>6, <1>7 DEF AloneInv, Busy
<1>17. FilesInv'
  BY <1>1, <1>2, <1>3, <1>4, <1>5, <1>6, <1>7 DEF FilesInv, Filed, Unhurried, StayGone, SessionsEnd, Unborn,
       Uploaded, Present, Committing, At, Asset
<1>18. UsageInv'
  <2> SUFFICES ASSUME calm' PROVE UsageInv' BY DEF UsageInv
  <2>1. calm' => calm /\ DeletingInv' BY <1>1, <1>3, <1>6, <1>7, AssetStoreAssumption DEF UsageInv, DeletingInv, At, Asset
  <2>2. StoredAssets' = StoredAssets /\ StoredVersions' = StoredVersions BY <1>1, <1>3, <1>6, <1>7, AssetStoreAssumption DEF StoredAssets, StoredVersions
  <2>3. Uncounted' = Uncounted BY <1>1, <1>3, <1>6, <1>7, AssetStoreAssumption DEF Uncounted, Asset
  <2>4. QED BY <2>1, <2>2, <2>3, <1>1, <1>3, <1>6, <1>7, AssetStoreAssumption, SameUsage
<1>19. QED BY <1>8, <1>9, <1>10, <1>11, <1>12, <1>13, <1>14, <1>15, <1>16, <1>17, <1>18

LEMMA DieKeeps ==
  ASSUME StoreInv, NEW s \in Slots, Die(s)
  PROVE  StoreInv'
<1> USE DEF StoreInv
<1>1. /\ SlotsOK' /\ CronsOK' /\ cron' = cron /\ \A t \in Slots \ {s} : slot'[t] = slot[t]
      /\ slot'[s].op = "idle" /\ slot'[s].at = "idle" /\ slot'[s].key[2] = None
      /\ calm' \in BOOLEAN /\ faults' \in 0..MaxFaults /\ ~calm'
  BY Returns, FaultFacts DEF Die
<1>2. UNCHANGED <<asset, born, version, usage, pending, objects, session, multipart, active, ids, gone, doomed>>
  BY DEF Die, rows, store, history
<1>3. TypeInv' BY <1>1, <1>2 DEF TypeInv, TypeOK, Keys
<1>4. KnownInv' BY <1>1, <1>2 DEF KnownInv, Known, Busy, Asset
<1>5. FreshInv' BY <1>1, <1>2 DEF FreshInv, New, Putting, Busy, At
<1>6. GoneInv' BY <1>1, <1>2 DEF GoneInv, Asset
<1>7. SessionInv' BY <1>1, <1>2 DEF SessionInv, KnownInv, Known, Asset
<1>8. WipedInv' BY <1>1, <1>2 DEF WipedInv, Below, KnownInv, Known, GoneInv, At, Asset
<1>9. DoomedIsQueued' BY <1>1, <1>2 DEF DoomedIsQueued, Covered, KnownInv, Known
<1>10. RetryFindsTheObject' BY <1>1, <1>2 DEF RetryFindsTheObject
<1>11. AloneInv' BY <1>1, <1>2 DEF AloneInv, Busy
<1>12. FilesInv'
  BY <1>1 DEF FilesInv
<1>13. UsageInv'
  BY <1>1 DEF UsageInv
<1>14. QED BY <1>3, <1>4, <1>5, <1>6, <1>7, <1>8, <1>9, <1>10, <1>11, <1>12, <1>13

LEMMA CronStartKeeps ==
  ASSUME StoreInv, CronStart
  PROVE  StoreInv'
<1> USE DEF StoreInv
<1>1. cron.at = "idle" BY CronFacts DEF CronStart
<1>2. /\ SlotsOK' /\ CronsOK' /\ slot' = slot
      /\ cron'.at = "expired" /\ cron'.todo \subseteq Assets \cap born
  <2> DEFINE T == {a \in Assets : asset[a] # None /\ asset[a].expires = "past"}
  <2>1. cron' = [at |-> "expired", todo |-> T, now |-> None] /\ slot' = slot BY DEF CronStart, Tick
  <2>2. T \subseteq Assets \cap born BY DEF KnownInv
  <2> HIDE DEF T
  <2>3. QED BY <2>1, <2>2, Ticking
<1>3. calm' \in BOOLEAN /\ faults' \in 0..MaxFaults /\ (calm' => calm /\ \A s \in Slots : slot[s].op = "idle")
  BY IdleFacts DEF CronStart, Quiet, TypeInv, TypeOK
<1>4. UNCHANGED <<asset, born, version, usage, pending, objects, session, multipart, active, slot, ids, gone, doomed>>
  BY DEF CronStart, rows, store, history
<1>5. TypeInv' BY <1>1, <1>2, <1>3, <1>4 DEF TypeInv, TypeOK, Keys
<1>6. KnownInv' BY <1>1, <1>2, <1>3, <1>4 DEF KnownInv, Known, Busy, Asset
<1>7. FreshInv' BY <1>1, <1>2, <1>3, <1>4 DEF FreshInv, New, Putting, Busy, At
<1>8. GoneInv' BY <1>1, <1>2, <1>3, <1>4 DEF GoneInv, Asset
<1>9. SessionInv' BY <1>1, <1>2, <1>3, <1>4 DEF SessionInv, KnownInv, Known, Asset
<1>10. WipedInv' BY <1>1, <1>2, <1>3, <1>4 DEF WipedInv, Below, KnownInv, Known, GoneInv, At, Asset
<1>11. DoomedIsQueued' BY <1>1, <1>2, <1>3, <1>4 DEF DoomedIsQueued, Covered, KnownInv, Known
<1>12. RetryFindsTheObject' BY <1>1, <1>2, <1>3, <1>4 DEF RetryFindsTheObject
<1>13. AloneInv' BY <1>1, <1>2, <1>3, <1>4 DEF AloneInv, Busy
<1>14. FilesInv'
  BY <1>1, <1>2, <1>3, <1>4 DEF FilesInv, Filed, Unhurried, StayGone, SessionsEnd, Unborn, Uploaded, Present,
       Committing, At, Asset
<1>15. UsageInv'
  <2>1. calm' => calm /\ DeletingInv' BY <1>1, <1>2, <1>3, <1>4 DEF UsageInv, DeletingInv, At, Asset
  <2>2. StoredAssets' = StoredAssets /\ StoredVersions' = StoredVersions BY <1>1, <1>2, <1>3, <1>4 DEF StoredAssets, StoredVersions
  <2>3. Uncounted' = Uncounted BY <1>1, <1>2, <1>3, <1>4 DEF Uncounted, Asset
  <2>4. QED BY <2>1, <2>2, <2>3, <1>1, <1>2, <1>3, <1>4, SameUsage
<1>16. QED BY <1>5, <1>6, <1>7, <1>8, <1>9, <1>10, <1>11, <1>12, <1>13, <1>14, <1>15

LEMMA CronGuardKeeps ==
  ASSUME StoreInv, NEW a \in Assets, CronGuard(a)
  PROVE  StoreInv'
<1> USE DEF StoreInv
<1>1. /\ cron.at = "expired" /\ a \in cron.todo /\ a \in born /\ cron.todo \subseteq Assets
  BY DEF CronGuard, KnownInv, TypeInv, CronsOK, CronOK
<1>2. calm => \A s \in Slots : slot[s].op = "idle"
  BY <1>1, TickAlone
<1>3. /\ SlotsOK' /\ CronsOK' /\ slot' = slot
      /\ cron'.at \in {"expired", "wipe"} /\ (cron'.at = "wipe" => <<a, None>> \notin active)
      /\ cron'.todo = cron.todo \ {a} /\ cron'.now = a
  <2>1. PICK at \in {"expired", "wipe"} : Next1(at, a) /\ (at = "wipe" => <<a, None>> \notin active) BY DEF CronGuard
  <2>2. cron' = [at |-> at, todo |-> cron.todo \ {a}, now |-> a] /\ slot' = slot BY <2>1 DEF Next1, CronGuard
  <2>3. QED BY <1>1, <2>1, <2>2, Ticking
<1>4. /\ calm' \in BOOLEAN /\ faults' \in 0..MaxFaults /\ calm' = calm
  BY SameFacts DEF CronGuard
<1>5. UNCHANGED <<asset, born, version, usage, pending, objects, session, multipart, active, slot, ids, gone, doomed>>
  BY DEF CronGuard, rows, store, history
<1>6. TypeInv' BY <1>1, <1>3, <1>4, <1>5 DEF TypeInv, TypeOK, Keys
<1>7. KnownInv' BY <1>1, <1>3, <1>4, <1>5 DEF KnownInv, Known, Busy, Asset
<1>8. FreshInv' BY <1>1, <1>3, <1>4, <1>5 DEF FreshInv, New, Putting, Busy, At
<1>9. GoneInv' BY <1>1, <1>3, <1>4, <1>5 DEF GoneInv, Asset
<1>10. SessionInv' BY <1>1, <1>3, <1>4, <1>5 DEF SessionInv, KnownInv, Known, Asset
<1>11. WipedInv' BY <1>1, <1>3, <1>4, <1>5 DEF WipedInv, Below, KnownInv, Known, GoneInv, At, Asset
<1>12. DoomedIsQueued' BY <1>1, <1>3, <1>4, <1>5 DEF DoomedIsQueued, Covered, KnownInv, Known
<1>13. RetryFindsTheObject' BY <1>1, <1>3, <1>4, <1>5 DEF RetryFindsTheObject
<1>14. AloneInv' BY <1>1, <1>2, <1>3, <1>4, <1>5 DEF AloneInv, Busy
<1>15. FilesInv'
  BY <1>1, <1>2, <1>3, <1>4, <1>5 DEF FilesInv, Filed, Unhurried, StayGone, SessionsEnd, Unborn, Uploaded,
       Present, Committing, At, Asset
<1>16. UsageInv'
  <2>1. calm' => calm /\ DeletingInv' BY <1>1, <1>3, <1>4, <1>5 DEF UsageInv, DeletingInv, At, Asset
  <2>2. StoredAssets' = StoredAssets /\ StoredVersions' = StoredVersions BY <1>1, <1>3, <1>4, <1>5 DEF StoredAssets, StoredVersions
  <2>3. Uncounted' = Uncounted BY <1>1, <1>3, <1>4, <1>5 DEF Uncounted, Asset
  <2>4. QED BY <2>1, <2>2, <2>3, <1>1, <1>3, <1>4, <1>5, SameUsage
<1>17. QED BY <1>6, <1>7, <1>8, <1>9, <1>10, <1>11, <1>12, <1>13, <1>14, <1>15, <1>16

LEMMA CronWipeKeeps ==
  ASSUME StoreInv, CronWipe
  PROVE  StoreInv'
<1> USE DEF StoreInv
<1>1. PICK a \in Assets : cron.at = "wipe" /\ cron.now = a /\ a \in born /\ cron.todo \subseteq Assets
  BY DEF CronWipe, KnownInv, TypeInv, CronsOK, CronOK
<1>2. calm => \A s \in Slots : slot[s].op = "idle"
  BY <1>1, TickAlone
<1>3. <<a, None>> \in Keys BY DEF Keys
<1>4. /\ SlotsOK' /\ CronsOK' /\ slot' = slot
      /\ cron'.at \in {"versions", "list"} /\ (calm' => cron'.at = "versions")
      /\ cron'.todo = cron.todo /\ cron'.now = cron.now
      /\ calm' \in BOOLEAN /\ faults' \in 0..MaxFaults /\ (calm' => calm)
      /\ objects' \subseteq objects /\ \A k \in objects : k \in objects' \/ k[1] = a
  <2>1. CASE WipeDone(<<a, None>>) /\ Step("versions")
    BY <1>1, <1>3, <2>1, Stepping, Wipes DEF CronWipe, Below
  <2>2. CASE WipePartial(<<a, None>>) /\ Step("list")
    BY <1>1, <1>3, <2>2, Stepping, Wipes, FaultFacts DEF CronWipe, Below, WipePartial
  <2>3. QED BY <1>1, <2>1, <2>2 DEF CronWipe
<1>5. UNCHANGED <<asset, born, version, usage, pending, session, multipart, active, slot, ids, gone, doomed>>
  BY DEF CronWipe, rows, store, history
<1>6. TypeInv' BY <1>1, <1>4, <1>5 DEF TypeInv, TypeOK, Keys
<1>7. KnownInv' BY <1>1, <1>4, <1>5 DEF KnownInv, Known, Busy, Asset
<1>8. FreshInv' BY <1>1, <1>4, <1>5 DEF FreshInv, New, Putting, Busy, At
<1>9. GoneInv' BY <1>1, <1>4, <1>5 DEF GoneInv, Asset
<1>10. SessionInv' BY <1>1, <1>4, <1>5 DEF SessionInv, KnownInv, Known, Asset
<1>11. WipedInv' BY <1>1, <1>4, <1>5 DEF WipedInv, Below, KnownInv, Known, GoneInv, At, Asset
<1>12. DoomedIsQueued' BY <1>1, <1>4, <1>5 DEF DoomedIsQueued, Covered, KnownInv, Known
<1>13. RetryFindsTheObject' BY <1>1, <1>4, <1>5 DEF RetryFindsTheObject
<1>14. AloneInv' BY <1>1, <1>2, <1>4, <1>5 DEF AloneInv, Busy
<1>15. FilesInv'
  BY <1>1, <1>2, <1>4, <1>5 DEF FilesInv, Filed, Unhurried, StayGone, SessionsEnd, Unborn, Uploaded, Present,
       Committing, At, Asset
<1>16. UsageInv'
  <2>1. calm' => calm /\ DeletingInv' BY <1>1, <1>4, <1>5 DEF UsageInv, DeletingInv, At, Asset
  <2>2. StoredAssets' = StoredAssets /\ StoredVersions' = StoredVersions BY <1>1, <1>4, <1>5 DEF StoredAssets, StoredVersions
  <2>3. Uncounted' = Uncounted BY <1>1, <1>4, <1>5 DEF Uncounted, Asset
  <2>4. QED BY <2>1, <2>2, <2>3, <1>1, <1>4, <1>5, SameUsage
<1>17. QED BY <1>6, <1>7, <1>8, <1>9, <1>10, <1>11, <1>12, <1>13, <1>14, <1>15, <1>16

LEMMA CronVersionsKeeps ==
  ASSUME StoreInv, CronVersions
  PROVE  StoreInv'
<1> USE DEF StoreInv
<1>1. PICK a \in Assets : cron.at = "versions" /\ cron.now = a
  BY DEF CronVersions, TypeInv, CronsOK, CronOK
<1>2. calm => \A s \in Slots : slot[s].op = "idle"
  BY <1>1, TickAlone
<1>3. /\ SlotsOK' /\ CronsOK' /\ slot' = slot
      /\ cron'.at = "row" /\ cron'.todo = cron.todo /\ cron'.now = cron.now
      /\ calm' \in BOOLEAN /\ faults' \in 0..MaxFaults /\ calm' = calm
  BY <1>1, Stepping, SameFacts DEF CronVersions
<1>4. /\ version' \in [Versions -> Assets \cup {None}]
      /\ \A u \in Versions : version'[u] = IF version[u] = a THEN None ELSE version[u]
  BY <1>1 DEF CronVersions, TypeInv, TypeOK, Of
<1>5. UNCHANGED <<asset, born, usage, pending, objects, session, multipart, active, slot, ids, gone, doomed>>
  BY DEF CronVersions, rows, store, history
<1>6. TypeInv' BY <1>1, <1>3, <1>4, <1>5 DEF TypeInv, TypeOK, Keys
<1>7. KnownInv' BY <1>1, <1>3, <1>4, <1>5 DEF KnownInv, Known, Busy, Asset
<1>8. FreshInv' BY <1>1, <1>3, <1>4, <1>5 DEF FreshInv, New, Putting, Busy, At
<1>9. GoneInv' BY <1>1, <1>3, <1>4, <1>5 DEF GoneInv, Asset
<1>10. SessionInv' BY <1>1, <1>3, <1>4, <1>5 DEF SessionInv, KnownInv, Known, Asset
<1>11. WipedInv' BY <1>1, <1>3, <1>4, <1>5 DEF WipedInv, Below, KnownInv, Known, GoneInv, At, Asset
<1>12. DoomedIsQueued' BY <1>1, <1>3, <1>4, <1>5 DEF DoomedIsQueued, Covered, KnownInv, Known
<1>13. RetryFindsTheObject' BY <1>1, <1>3, <1>4, <1>5 DEF RetryFindsTheObject
<1>14. AloneInv' BY <1>1, <1>2, <1>3, <1>4, <1>5 DEF AloneInv, Busy
<1>15. FilesInv'
  BY <1>1, <1>2, <1>3, <1>4, <1>5 DEF FilesInv, Filed, Unhurried, StayGone, SessionsEnd, Unborn, Uploaded,
       Present, Committing, At, Asset
<1>16. UsageInv'
  <2> SUFFICES ASSUME calm' PROVE (DeletingInv /\ CountInv)' BY DEF UsageInv
  <2>1. DeletingInv' BY <1>2, <1>3 DEF DeletingInv, At
  <2>2. CASE a \in Owned BY <1>1, <1>3, <2>1, <2>2 DEF CountInv
  <2>3. CASE a \notin Owned
    <3>1. StoredAssets' = StoredAssets /\ StoredVersions' = StoredVersions /\ Uncounted' = Uncounted
      BY <1>3, <1>4, <1>5, <2>3, AssetStoreAssumption DEF StoredAssets, StoredVersions, Uncounted, Asset
    <3>2. CountInv' BY <1>1, <1>3, <1>5, <3>1 DEF UsageInv, CountInv
    <3>3. QED BY <2>1, <3>2
  <2>4. QED BY <2>2, <2>3
<1>17. QED BY <1>6, <1>7, <1>8, <1>9, <1>10, <1>11, <1>12, <1>13, <1>14, <1>15, <1>16

LEMMA CronRowKeeps ==
  ASSUME StoreInv, CronRow
  PROVE  StoreInv'
<1> USE DEF StoreInv
<1>1. PICK a \in Assets : cron.at = "row" /\ cron.now = a
  BY DEF CronRow, TypeInv, CronsOK, CronOK
<1>2. calm => \A s \in Slots : slot[s].op = "idle"
  BY <1>1, TickAlone
<1>3. /\ SlotsOK' /\ CronsOK' /\ slot' = slot
      /\ cron'.at = "job" /\ cron'.todo = cron.todo /\ cron'.now = cron.now
      /\ calm' \in BOOLEAN /\ faults' \in 0..MaxFaults /\ (calm' => calm /\ a \notin Owned)
  BY <1>1, Stepping DEF CronRow, TypeInv, TypeOK
<1>4. /\ asset' \in [Assets -> AssetRows \cup {None}] /\ asset'[a] = None /\ \A b \in Assets \ {a} : asset'[b] = asset[b]
  BY <1>1 DEF CronRow, TypeInv, TypeOK
<1>5. UNCHANGED <<born, version, usage, pending, objects, session, multipart, active, slot, ids, gone, doomed>>
  BY DEF CronRow, rows, store, history
<1>6. TypeInv' BY <1>1, <1>3, <1>4, <1>5 DEF TypeInv, TypeOK, Keys
<1>7. KnownInv' BY <1>1, <1>3, <1>4, <1>5 DEF KnownInv, Known, Busy, Asset
<1>8. FreshInv' BY <1>1, <1>3, <1>4, <1>5 DEF FreshInv, New, Putting, Busy, At
<1>9. GoneInv' BY <1>1, <1>3, <1>4, <1>5 DEF GoneInv, Asset
<1>10. SessionInv' BY <1>1, <1>3, <1>4, <1>5 DEF SessionInv, KnownInv, Known, Asset
<1>11. WipedInv' BY <1>1, <1>3, <1>4, <1>5 DEF WipedInv, Below, KnownInv, Known, GoneInv, At, Asset
<1>12. DoomedIsQueued' BY <1>1, <1>3, <1>4, <1>5 DEF DoomedIsQueued, Covered, KnownInv, Known
<1>13. RetryFindsTheObject' BY <1>1, <1>3, <1>4, <1>5 DEF RetryFindsTheObject
<1>14. AloneInv' BY <1>1, <1>2, <1>3, <1>4, <1>5 DEF AloneInv, Busy
<1>15. FilesInv'
  BY <1>1, <1>2, <1>3, <1>4, <1>5 DEF FilesInv, Filed, Unhurried, StayGone, SessionsEnd, Unborn, Uploaded,
       Present, Committing, At, Asset
<1>16. UsageInv'
  <2> SUFFICES ASSUME calm' PROVE (DeletingInv /\ CountInv)' BY DEF UsageInv
  <2>1. DeletingInv' BY <1>2, <1>3 DEF DeletingInv, At
  <2>2. StoredAssets' = StoredAssets /\ StoredVersions' = StoredVersions /\ Uncounted' = Uncounted
    BY <1>3, <1>4, <1>5, AssetStoreAssumption DEF StoredAssets, StoredVersions, Uncounted, Asset
  <2>3. CountInv' BY <1>1, <1>3, <1>5, <2>2 DEF UsageInv, CountInv
  <2>4. QED BY <2>1, <2>3
<1>17. QED BY <1>6, <1>7, <1>8, <1>9, <1>10, <1>11, <1>12, <1>13, <1>14, <1>15, <1>16

LEMMA CronJobKeeps ==
  ASSUME StoreInv, CronJob
  PROVE  StoreInv'
<1> USE DEF StoreInv
<1>1. PICK a \in Assets : cron.at = "job" /\ cron.now = a
  BY DEF CronJob, TypeInv, CronsOK, CronOK
<1>2. calm => \A s \in Slots : slot[s].op = "idle"
  BY <1>1, TickAlone
<1>3. /\ SlotsOK' /\ CronsOK' /\ slot' = slot
      /\ cron'.at = "expired" /\ cron'.todo = cron.todo /\ cron'.now = cron.now
      /\ calm' \in BOOLEAN /\ faults' \in 0..MaxFaults /\ calm' = calm
  BY <1>1, Stepping, SameFacts DEF CronJob
<1>4. active' \subseteq active BY DEF CronJob
<1>5. UNCHANGED <<asset, born, version, usage, pending, objects, session, multipart, slot, ids, gone, doomed>>
  BY DEF CronJob, rows, store, history
<1>6. TypeInv' BY <1>1, <1>3, <1>4, <1>5 DEF TypeInv, TypeOK, Keys
<1>7. KnownInv' BY <1>1, <1>3, <1>4, <1>5 DEF KnownInv, Known, Busy, Asset
<1>8. FreshInv' BY <1>1, <1>3, <1>4, <1>5 DEF FreshInv, New, Putting, Busy, At
<1>9. GoneInv' BY <1>1, <1>3, <1>4, <1>5 DEF GoneInv, Asset
<1>10. SessionInv' BY <1>1, <1>3, <1>4, <1>5 DEF SessionInv, KnownInv, Known, Asset
<1>11. WipedInv' BY <1>1, <1>3, <1>4, <1>5 DEF WipedInv, Below, KnownInv, Known, GoneInv, At, Asset
<1>12. DoomedIsQueued' BY <1>1, <1>3, <1>4, <1>5 DEF DoomedIsQueued, Covered, KnownInv, Known
<1>13. RetryFindsTheObject' BY <1>1, <1>3, <1>4, <1>5 DEF RetryFindsTheObject
<1>14. AloneInv' BY <1>1, <1>2, <1>3, <1>4, <1>5 DEF AloneInv, Busy
<1>15. FilesInv'
  BY <1>1, <1>2, <1>3, <1>4, <1>5 DEF FilesInv, Filed, Unhurried, StayGone, SessionsEnd, Unborn, Uploaded,
       Present, Committing, At, Asset
<1>16. UsageInv'
  <2>1. calm' => calm /\ DeletingInv' BY <1>1, <1>3, <1>5 DEF UsageInv, DeletingInv, At, Asset
  <2>2. StoredAssets' = StoredAssets /\ StoredVersions' = StoredVersions BY <1>1, <1>3, <1>5 DEF StoredAssets, StoredVersions
  <2>3. Uncounted' = Uncounted BY <1>1, <1>3, <1>5 DEF Uncounted, Asset
  <2>4. QED BY <2>1, <2>2, <2>3, <1>1, <1>3, <1>5, SameUsage
<1>17. QED BY <1>6, <1>7, <1>8, <1>9, <1>10, <1>11, <1>12, <1>13, <1>14, <1>15, <1>16

LEMMA CronPendingKeeps ==
  ASSUME StoreInv, CronPending
  PROVE  StoreInv'
<1> USE DEF StoreInv
<1>1. cron.at \in {"list", "expired"} BY DEF CronPending
<1>2. calm => \A s \in Slots : slot[s].op = "idle"
  BY <1>1, TickAlone
<1>3. /\ SlotsOK' /\ CronsOK' /\ slot' = slot
      /\ cron'.at = "drain" /\ cron'.todo = pending
  <2>1. cron' = [at |-> "drain", todo |-> pending, now |-> None] /\ slot' = slot BY DEF CronPending
  <2>2. pending \subseteq Keys BY DEF TypeInv, TypeOK
  <2>3. QED BY <2>1, <2>2, Ticking
<1>4. /\ calm' \in BOOLEAN /\ faults' \in 0..MaxFaults /\ calm' = calm
  BY SameFacts DEF CronPending
<1>5. UNCHANGED <<asset, born, version, usage, pending, objects, session, multipart, active, slot, ids, gone, doomed>>
  BY DEF CronPending, rows, store, history
<1>6. TypeInv' BY <1>1, <1>3, <1>4, <1>5 DEF TypeInv, TypeOK, Keys
<1>7. KnownInv' BY <1>1, <1>3, <1>4, <1>5 DEF KnownInv, Known, Busy, Asset
<1>8. FreshInv' BY <1>1, <1>3, <1>4, <1>5 DEF FreshInv, New, Putting, Busy, At
<1>9. GoneInv' BY <1>1, <1>3, <1>4, <1>5 DEF GoneInv, Asset
<1>10. SessionInv' BY <1>1, <1>3, <1>4, <1>5 DEF SessionInv, KnownInv, Known, Asset
<1>11. WipedInv' BY <1>1, <1>3, <1>4, <1>5 DEF WipedInv, Below, KnownInv, Known, GoneInv, At, Asset
<1>12. DoomedIsQueued' BY <1>1, <1>3, <1>4, <1>5 DEF DoomedIsQueued, Covered, KnownInv, Known
<1>13. RetryFindsTheObject' BY <1>1, <1>3, <1>4, <1>5 DEF RetryFindsTheObject
<1>14. AloneInv' BY <1>1, <1>2, <1>3, <1>4, <1>5 DEF AloneInv, Busy
<1>15. FilesInv'
  BY <1>1, <1>2, <1>3, <1>4, <1>5 DEF FilesInv, Filed, Unhurried, StayGone, SessionsEnd, Unborn, Uploaded,
       Present, Committing, At, Asset
<1>16. UsageInv'
  <2>1. calm' => calm /\ DeletingInv' BY <1>1, <1>3, <1>4, <1>5 DEF UsageInv, DeletingInv, At, Asset
  <2>2. StoredAssets' = StoredAssets /\ StoredVersions' = StoredVersions BY <1>1, <1>3, <1>4, <1>5 DEF StoredAssets, StoredVersions
  <2>3. Uncounted' = Uncounted BY <1>1, <1>3, <1>4, <1>5 DEF Uncounted, Asset
  <2>4. QED BY <2>1, <2>2, <2>3, <1>1, <1>3, <1>4, <1>5, SameUsage
<1>17. QED BY <1>6, <1>7, <1>8, <1>9, <1>10, <1>11, <1>12, <1>13, <1>14, <1>15, <1>16

LEMMA DrainWipeKeeps ==
  ASSUME StoreInv, NEW p \in Keys, DrainWipe(p)
  PROVE  StoreInv'
<1> USE DEF StoreInv
<1>1. cron.at = "drain" /\ p \in cron.todo /\ cron.todo \subseteq Keys
  BY DEF DrainWipe, TypeInv, CronsOK, CronOK
<1>2. calm => \A s \in Slots : slot[s].op = "idle"
  BY <1>1, TickAlone
<1>3. /\ SlotsOK' /\ CronsOK' /\ slot' = slot
      /\ cron'.at \in {"idle", "remove"} /\ cron'.todo \subseteq cron.todo /\ (cron'.at = "idle" => cron' = Cron)
      /\ cron'.at = "remove" => cron'.now = p /\ \A k \in objects' : ~Below(k, p)
  <2>1. CASE WipeDone(p) /\ Next1("remove", p)
    <3>1. cron' = [at |-> "remove", todo |-> cron.todo \ {p}, now |-> p] /\ slot' = slot BY <2>1 DEF Next1, DrainWipe
    <3>2. QED BY <1>1, <2>1, <3>1, Ticking, Wipes
  <2>2. CASE cron' = Cron BY <2>2, Resting DEF DrainWipe
  <2>3. QED BY <2>1, <2>2 DEF DrainWipe
<1>4. /\ calm' \in BOOLEAN /\ faults' \in 0..MaxFaults /\ (calm' => calm)
      /\ objects' \subseteq objects /\ \A k \in objects : k \in objects' \/ Below(k, p)
  BY Wipes DEF DrainWipe
<1>5. (p[2] = None => p[1] \in gone /\ p[1] \in born) /\ (p[2] # None => p[2] \in Versions) /\ p[1] \in Assets /\ Known(p)
  BY <1>1, KeyFacts DEF GoneInv, KnownInv
<1>6. UNCHANGED <<asset, born, version, usage, pending, session, multipart, active, slot, ids, gone, doomed>>
  BY DEF DrainWipe, rows, store, history
<1>7. TypeInv' BY <1>1, <1>3, <1>4, <1>5, <1>6 DEF TypeInv, TypeOK, Keys
<1>8. KnownInv' BY <1>1, <1>3, <1>4, <1>5, <1>6 DEF KnownInv, Known, Busy, Asset
<1>9. FreshInv' BY <1>1, <1>3, <1>4, <1>5, <1>6 DEF FreshInv, New, Putting, Busy, At
<1>10. GoneInv' BY <1>1, <1>3, <1>4, <1>5, <1>6 DEF GoneInv, Asset
<1>11. SessionInv' BY <1>1, <1>3, <1>4, <1>5, <1>6 DEF SessionInv, KnownInv, Known, Asset
<1>12. WipedInv' BY <1>1, <1>3, <1>4, <1>5, <1>6 DEF WipedInv, Below, KnownInv, Known, GoneInv, At, Asset, Cron
<1>13. DoomedIsQueued' BY <1>1, <1>3, <1>4, <1>5, <1>6 DEF DoomedIsQueued, Covered, KnownInv, Known
<1>14. RetryFindsTheObject' BY <1>1, <1>3, <1>4, <1>5, <1>6, AssetStoreAssumption DEF RetryFindsTheObject, Below
<1>15. AloneInv' BY <1>1, <1>2, <1>3, <1>4, <1>5, <1>6 DEF AloneInv, Busy
<1>16. FilesInv'
  BY <1>1, <1>2, <1>3, <1>4, <1>5, <1>6 DEF FilesInv, Filed, Unhurried, StayGone, SessionsEnd, Unborn, Uploaded,
       Present, Committing, At, Asset, Below
<1>17. UsageInv'
  <2>1. calm' => calm /\ DeletingInv' BY <1>1, <1>3, <1>4, <1>6 DEF UsageInv, DeletingInv, At, Asset
  <2>2. StoredAssets' = StoredAssets /\ StoredVersions' = StoredVersions BY <1>1, <1>3, <1>4, <1>6 DEF StoredAssets, StoredVersions
  <2>3. Uncounted' = Uncounted BY <1>1, <1>3, <1>4, <1>6 DEF Uncounted, Asset
  <2>4. QED BY <2>1, <2>2, <2>3, <1>1, <1>3, <1>4, <1>6, SameUsage
<1>18. QED BY <1>7, <1>8, <1>9, <1>10, <1>11, <1>12, <1>13, <1>14, <1>15, <1>16, <1>17

LEMMA DrainRemoveKeeps ==
  ASSUME StoreInv, DrainRemove
  PROVE  StoreInv'
<1> USE DEF StoreInv
<1>1. PICK p \in Keys : cron.at = "remove" /\ cron.now = p /\ cron.todo \subseteq Keys
  BY DEF DrainRemove, TypeInv, CronsOK, CronOK
<1>2. calm => \A s \in Slots : slot[s].op = "idle"
  BY <1>1, TickAlone
<1>3. /\ SlotsOK' /\ CronsOK' /\ slot' = slot
      /\ cron'.at = "drain" /\ cron'.todo = cron.todo
  <2>1. cron' = [at |-> "drain", todo |-> cron.todo, now |-> p] /\ slot' = slot
    BY <1>1 DEF DrainRemove, Step, TypeInv, CronsOK, Ticks
  <2>2. QED BY <1>1, <2>1, Ticking
<1>4. /\ calm' \in BOOLEAN /\ faults' \in 0..MaxFaults /\ calm' = calm
  BY SameFacts DEF DrainRemove
<1>5. pending' = pending \ {p} BY <1>1 DEF DrainRemove
<1>6. UNCHANGED <<asset, born, version, usage, objects, session, multipart, active, slot, ids, gone, doomed>>
  BY DEF DrainRemove, rows, store, history
<1>7. TypeInv' BY <1>1, <1>3, <1>4, <1>5, <1>6 DEF TypeInv, TypeOK, Keys
<1>8. KnownInv' BY <1>1, <1>3, <1>4, <1>5, <1>6 DEF KnownInv, Known, Busy, Asset
<1>9. FreshInv' BY <1>1, <1>3, <1>4, <1>5, <1>6 DEF FreshInv, New, Putting, Busy, At
<1>10. GoneInv' BY <1>1, <1>3, <1>4, <1>5, <1>6 DEF GoneInv, Asset
<1>11. SessionInv' BY <1>1, <1>3, <1>4, <1>5, <1>6 DEF SessionInv, KnownInv, Known, Asset
<1>12. WipedInv' BY <1>1, <1>3, <1>4, <1>5, <1>6 DEF WipedInv, Below, KnownInv, Known, GoneInv, At, Asset
<1>13. DoomedIsQueued'
  <2> SUFFICES ASSUME NEW k \in doomed \cap objects PROVE Covered(k)'
    BY <1>6 DEF DoomedIsQueued
  <2>1. PICK q \in pending : k \in Under(q) BY DEF DoomedIsQueued, Covered
  <2>2. k \in Keys BY DEF TypeInv, TypeOK
  <2>3. ~Below(k, p) BY <1>1 DEF WipedInv
  <2>4. q # p BY <2>1, <2>2, <2>3, KeyFacts
  <2>5. QED BY <1>5, <2>1, <2>4 DEF Covered
<1>14. RetryFindsTheObject' BY <1>1, <1>3, <1>4, <1>5, <1>6 DEF RetryFindsTheObject
<1>15. AloneInv' BY <1>1, <1>2, <1>3, <1>4, <1>5, <1>6 DEF AloneInv, Busy
<1>16. FilesInv'
  BY <1>1, <1>2, <1>3, <1>4, <1>5, <1>6 DEF FilesInv, Filed, Unhurried, StayGone, SessionsEnd, Unborn, Uploaded,
       Present, Committing, At, Asset
<1>17. UsageInv'
  <2>1. calm' => calm /\ DeletingInv' BY <1>1, <1>3, <1>4, <1>6 DEF UsageInv, DeletingInv, At, Asset
  <2>2. StoredAssets' = StoredAssets /\ StoredVersions' = StoredVersions BY <1>1, <1>3, <1>4, <1>6 DEF StoredAssets, StoredVersions
  <2>3. Uncounted' = Uncounted BY <1>1, <1>3, <1>4, <1>6 DEF Uncounted, Asset
  <2>4. QED BY <2>1, <2>2, <2>3, <1>1, <1>3, <1>4, <1>6, SameUsage
<1>18. QED BY <1>7, <1>8, <1>9, <1>10, <1>11, <1>12, <1>13, <1>14, <1>15, <1>16, <1>17

LEMMA CronEndKeeps ==
  ASSUME StoreInv, CronEnd
  PROVE  StoreInv'
<1> USE DEF StoreInv
<1>1. cron.at = "drain" BY DEF CronEnd
<1>2. calm => \A s \in Slots : slot[s].op = "idle"
  BY <1>1, TickAlone
<1>3. /\ SlotsOK' /\ CronsOK' /\ slot' = slot
      /\ cron' = Cron /\ cron'.at = "idle" /\ cron'.todo = {}
  BY Resting DEF CronEnd
<1>4. /\ calm' \in BOOLEAN /\ faults' \in 0..MaxFaults /\ calm' = calm
  BY SameFacts DEF CronEnd
<1>5. UNCHANGED <<asset, born, version, usage, pending, objects, session, multipart, active, slot, ids, gone, doomed>>
  BY DEF CronEnd, rows, store, history
<1>6. TypeInv' BY <1>1, <1>3, <1>4, <1>5 DEF TypeInv, TypeOK, Keys
<1>7. KnownInv' BY <1>1, <1>3, <1>4, <1>5 DEF KnownInv, Known, Busy, Asset
<1>8. FreshInv' BY <1>1, <1>3, <1>4, <1>5 DEF FreshInv, New, Putting, Busy, At
<1>9. GoneInv' BY <1>1, <1>3, <1>4, <1>5 DEF GoneInv, Asset
<1>10. SessionInv' BY <1>1, <1>3, <1>4, <1>5 DEF SessionInv, KnownInv, Known, Asset
<1>11. WipedInv' BY <1>1, <1>3, <1>4, <1>5 DEF WipedInv, Below, KnownInv, Known, GoneInv, At, Asset
<1>12. DoomedIsQueued' BY <1>1, <1>3, <1>4, <1>5 DEF DoomedIsQueued, Covered, KnownInv, Known
<1>13. RetryFindsTheObject' BY <1>1, <1>3, <1>4, <1>5 DEF RetryFindsTheObject
<1>14. AloneInv' BY <1>1, <1>2, <1>3, <1>4, <1>5 DEF AloneInv, Busy
<1>15. FilesInv'
  BY <1>1, <1>2, <1>3, <1>4, <1>5 DEF FilesInv, Filed, Unhurried, StayGone, SessionsEnd, Unborn, Uploaded,
       Present, Committing, At, Asset
<1>16. UsageInv'
  <2>1. calm' => calm /\ DeletingInv' BY <1>1, <1>3, <1>4, <1>5 DEF UsageInv, DeletingInv, At, Asset
  <2>2. StoredAssets' = StoredAssets /\ StoredVersions' = StoredVersions BY <1>1, <1>3, <1>4, <1>5 DEF StoredAssets, StoredVersions
  <2>3. Uncounted' = Uncounted BY <1>1, <1>3, <1>4, <1>5 DEF Uncounted, Asset
  <2>4. QED BY <2>1, <2>2, <2>3, <1>1, <1>3, <1>4, <1>5, SameUsage
<1>17. QED BY <1>6, <1>7, <1>8, <1>9, <1>10, <1>11, <1>12, <1>13, <1>14, <1>15, <1>16

LEMMA CronDiesKeeps ==
  ASSUME StoreInv, CronDies
  PROVE  StoreInv'
<1> USE DEF StoreInv
<1>1. /\ SlotsOK' /\ CronsOK' /\ slot' = slot
      /\ cron' = Cron /\ cron'.at = "idle" /\ cron'.todo = {}
  BY Resting DEF CronDies
<1>2. /\ calm' \in BOOLEAN /\ faults' \in 0..MaxFaults /\ ~calm'
  BY FaultFacts DEF CronDies
<1>3. UNCHANGED <<asset, born, version, usage, pending, objects, session, multipart, active, slot, ids, gone, doomed>>
  BY DEF CronDies, rows, store, history
<1>4. TypeInv' BY <1>1, <1>2, <1>3 DEF TypeInv, TypeOK, Keys
<1>5. KnownInv' BY <1>1, <1>2, <1>3 DEF KnownInv, Known, Busy, Asset
<1>6. FreshInv' BY <1>1, <1>2, <1>3 DEF FreshInv, New, Putting, Busy, At
<1>7. GoneInv' BY <1>1, <1>2, <1>3 DEF GoneInv, Asset
<1>8. SessionInv' BY <1>1, <1>2, <1>3 DEF SessionInv, KnownInv, Known, Asset
<1>9. WipedInv' BY <1>1, <1>2, <1>3 DEF WipedInv, Below, KnownInv, Known, GoneInv, At, Asset
<1>10. DoomedIsQueued' BY <1>1, <1>2, <1>3 DEF DoomedIsQueued, Covered, KnownInv, Known
<1>11. RetryFindsTheObject' BY <1>1, <1>2, <1>3 DEF RetryFindsTheObject
<1>12. AloneInv' BY <1>1, <1>2, <1>3 DEF AloneInv, Busy
<1>13. FilesInv'
  BY <1>2 DEF FilesInv
<1>14. UsageInv'
  BY <1>2 DEF UsageInv
<1>15. QED BY <1>4, <1>5, <1>6, <1>7, <1>8, <1>9, <1>10, <1>11, <1>12, <1>13, <1>14

LEMMA LapseKeeps ==
  ASSUME StoreInv, NEW a \in Assets, Lapse(a)
  PROVE  StoreInv'
<1> USE DEF StoreInv
<1>1. /\ SlotsOK' /\ CronsOK' /\ slot' = slot /\ cron' = cron
      /\ calm' = calm /\ calm' \in BOOLEAN /\ faults' \in 0..MaxFaults
  BY Still DEF Lapse, rows, store, history
<1>2. /\ asset' \in [Assets -> AssetRows \cup {None}] /\ \A b \in Assets : asset'[b] # None <=> asset[b] # None
  <2>1. asset[a] \in AssetRows /\ asset' = [asset EXCEPT ![a].expires = "past"] BY DEF Lapse, TypeInv, TypeOK
  <2>2. QED BY <2>1, AssetStoreAssumption DEF TypeInv, TypeOK, AssetRows
<1>3. UNCHANGED <<born, version, usage, pending, objects, session, multipart, active, slot, cron, ids, gone, doomed, calm, faults>>
  BY DEF Lapse, rows, store, history
<1>4. \A s \in Slots : slot[s].op # "idle" => Asset(s) \in Assets BY RequestFacts
<1>5. TypeInv' BY <1>1, <1>2, <1>3 DEF TypeInv, TypeOK, Keys
<1>6. KnownInv' BY <1>1, <1>2, <1>3 DEF KnownInv, Known, Busy, Asset
<1>7. FreshInv' BY <1>1, <1>2, <1>3 DEF FreshInv, New, Putting, Busy, At
<1>8. GoneInv' BY <1>1, <1>2, <1>3 DEF GoneInv, Asset
<1>9. SessionInv' BY <1>1, <1>2, <1>3 DEF SessionInv, KnownInv, Known, Asset
<1>10. WipedInv' BY <1>1, <1>2, <1>3 DEF WipedInv, Below, KnownInv, Known, GoneInv, At, Asset
<1>11. DoomedIsQueued' BY <1>1, <1>2, <1>3 DEF DoomedIsQueued, Covered, KnownInv, Known
<1>12. RetryFindsTheObject' BY <1>1, <1>2, <1>3 DEF RetryFindsTheObject
<1>13. AloneInv' BY <1>1, <1>2, <1>3, <1>4 DEF AloneInv, Busy
<1>14. FilesInv'
  BY <1>1, <1>2, <1>3, <1>4 DEF FilesInv, Filed, Unhurried, StayGone, SessionsEnd, Unborn, Uploaded, Present,
       Committing, At, Asset
<1>15. UsageInv'
  <2>1. calm' => calm /\ DeletingInv' BY <1>1, <1>2, <1>3, AssetStoreAssumption DEF UsageInv, DeletingInv, At, Asset
  <2>2. StoredAssets' = StoredAssets /\ StoredVersions' = StoredVersions BY <1>1, <1>2, <1>3, AssetStoreAssumption DEF StoredAssets, StoredVersions
  <2>3. Uncounted' = Uncounted BY <1>1, <1>2, <1>3, AssetStoreAssumption DEF Uncounted, Asset
  <2>4. QED BY <2>1, <2>2, <2>3, <1>1, <1>2, <1>3, AssetStoreAssumption, SameUsage
<1>16. QED BY <1>5, <1>6, <1>7, <1>8, <1>9, <1>10, <1>11, <1>12, <1>13, <1>14, <1>15

-------------------------------------------------------------------------------
(* The theorems.                                                           *)

LEMMA InitStarts == Init => StoreInv
<1> SUFFICES ASSUME Init PROVE StoreInv OBVIOUS
<1> USE DEF Init
<1>1. \A s \in Slots : slot[s] = Idle /\ slot[s].op = "idle" /\ slot[s].at = "idle" BY IdleFacts
<1>2. cron = Cron /\ cron.at = "idle" /\ cron.todo = {} BY CronFacts
<1>3. SlotsOK BY <1>1, IdleFacts DEF SlotsOK
<1>4. CronsOK BY <1>2, CronFacts DEF CronsOK, CronOK
<1>5. TypeInv BY <1>2, <1>3, <1>4, AssetStoreAssumption DEF TypeInv, TypeOK
<1>6. KnownInv BY <1>1, <1>2, FS_EmptySet DEF KnownInv, Busy
<1>7. FreshInv BY <1>1 DEF FreshInv, New, Putting, At
<1>8. GoneInv BY <1>1, <1>2 DEF GoneInv
<1>9. SessionInv BY <1>1 DEF SessionInv
<1>10. WipedInv BY <1>1, <1>2 DEF WipedInv, At
<1>11. DoomedIsQueued BY DEF DoomedIsQueued
<1>12. RetryFindsTheObject BY AssetStoreAssumption DEF RetryFindsTheObject
<1>13. AloneInv BY <1>1 DEF AloneInv, Busy
<1>14. FilesInv
  BY <1>1, <1>2 DEF FilesInv, Filed, Unhurried, StayGone, SessionsEnd, Unborn, Uploaded, Present, Committing, At
<1>15. UsageInv
  <2>1. StoredAssets = {} /\ Uncounted = {} BY <1>1, AssetStoreAssumption DEF StoredAssets, Uncounted
  <2>2. StoredVersions = {} BY AssetStoreAssumption DEF StoredVersions
  <2>3. CountInv BY <2>1, <2>2, FS_EmptySet DEF CountInv
  <2>4. QED BY <2>3, <1>1 DEF UsageInv, DeletingInv, At
<1>16. QED
  BY <1>5, <1>6, <1>7, <1>8, <1>9, <1>10, <1>11, <1>12, <1>13, <1>14, <1>15 DEF StoreInv

LEMMA NothingMoves == StoreInv /\ UNCHANGED vars => StoreInv'
<1> SUFFICES ASSUME StoreInv, UNCHANGED vars PROVE StoreInv' OBVIOUS
<1>1. asset' = asset /\ born' = born /\ version' = version /\ usage' = usage /\ pending' = pending /\
      objects' = objects /\ session' = session /\ multipart' = multipart /\ active' = active /\
      slot' = slot /\ cron' = cron /\ ids' = ids /\ gone' = gone /\ doomed' = doomed /\ calm' = calm /\
      faults' = faults
  BY DEF vars, rows, store, history
<1> USE <1>1 DEF StoreInv
<1>2. TypeInv' BY DEF TypeInv, TypeOK, SlotsOK, CronsOK, CronOK
<1>3. KnownInv' BY DEF KnownInv, Known, Busy, Asset
<1>4. FreshInv' BY DEF FreshInv, New, Putting, Busy, At
<1>5. GoneInv' BY DEF GoneInv, Asset
<1>6. SessionInv' BY DEF SessionInv, Asset
<1>7. WipedInv' BY DEF WipedInv, Below, At, Asset
<1>8. DoomedIsQueued' BY DEF DoomedIsQueued, Covered
<1>9. RetryFindsTheObject' BY DEF RetryFindsTheObject
<1>10. AloneInv' BY DEF AloneInv, Busy
<1>11. FilesInv'
  BY DEF FilesInv, Filed, Unhurried, StayGone, SessionsEnd, Unborn, Uploaded, Present, Committing, At, Asset
<1>12. UsageInv' BY DEF UsageInv, DeletingInv, CountInv, StoredAssets, StoredVersions, Uncounted, At, Asset
<1>13. QED BY <1>2, <1>3, <1>4, <1>5, <1>6, <1>7, <1>8, <1>9, <1>10, <1>11, <1>12

LEMMA ServeKeeps ==
  ASSUME StoreInv, NEW s \in Slots, Serve(s)
  PROVE  StoreInv'
BY UploadCommitKeeps, UndoKeeps, CompleteExistingKeeps, CompleteHeadKeeps, CompleteCommitKeeps,
   CompleteDropKeeps, PutVersionKeeps, VersionCommitKeeps, DeleteVersionRowKeeps, ReadActiveKeeps,
   ResetActiveKeeps, WipeVersionKeeps, QueueVersionKeeps, CountVersionKeeps, CheckVersionKeeps,
   UpdateRowKeeps, DeleteRowsKeeps, WipeAssetKeeps, UnqueueKeeps, SaveReportKeeps, SaveExtractKeeps
   DEF Serve

LEMMA RequestKeeps ==
  ASSUME StoreInv, NEW s \in Slots, Request(s)
  PROVE  StoreInv'
BY UploadKeeps, CompleteKeeps, DeleteAssetKeeps, ExtractKeeps, UploadVersionKeeps, UpdateAssetKeeps,
   DeleteVersionKeeps, ReportKeeps
   DEF Request

LEMMA WorkKeeps ==
  ASSUME StoreInv, Work
  PROVE  StoreInv'
BY CronGuardKeeps, CronWipeKeeps, CronVersionsKeeps, CronRowKeeps, CronJobKeeps, CronPendingKeeps,
   DrainWipeKeeps, DrainRemoveKeeps, CronEndKeeps
   DEF Work

\* The invariant holds in every state of the store, whatever requests, ticks, faults and deaths come together.
THEOREM Invariance == Spec => []StoreInv
<1>1. Init => StoreInv BY InitStarts
<1>2. ASSUME StoreInv, Next PROVE StoreInv'
  BY <1>2, ServeKeeps, RequestKeeps, DieKeeps, OpenSessionKeeps, ClientPutKeeps, SessionExpiresKeeps, LapseKeeps,
     CronStartKeeps, WorkKeeps, CronDiesKeeps
     DEF Next
<1>3. StoreInv /\ [Next]_vars => StoreInv' BY <1>2, NothingMoves
<1>4. QED BY <1>1, <1>3, PTL DEF Spec

\* The tables, the objects and the queue of prefixes hold what their schema says (adapters/sql/stores.ts).
THEOREM TypeCorrect == Spec => []TypeOK
<1>1. StoreInv => TypeOK BY DEF StoreInv, TypeInv
<1>2. QED BY <1>1, Invariance, PTL

\* What an asset had in the store when it was deleted is queued for the cron as long as any of it is there:
\* no order of requests, ticks and failures of delete.ts and cleanup/usecase.ts forgets an object.
THEOREM DoomedStaysQueued == Spec => []DoomedIsQueued
<1>1. StoreInv => DoomedIsQueued BY DEF StoreInv
<1>2. QED BY <1>1, Invariance, PTL

\* Until a completed multipart upload has become an asset, its object stays for the client's retry
\* (complete-upload-session.ts:102-109).
THEOREM RetrySucceeds == Spec => []RetryFindsTheObject
<1>1. StoreInv => RetryFindsTheObject BY DEF StoreInv
<1>2. QED BY <1>1, Invariance, PTL

\* In sequence, and at every step of the tick, the archive of a running extraction is there
\* (cleanup/usecase.ts:71-82).
THEOREM ArchiveKept == Spec => []ExtractionKeepsItsArchive
<1>1. StoreInv => ExtractionKeepsItsArchive
  BY DEF StoreInv, FilesInv, Filed, Unhurried, ExtractionKeepsItsArchive
<1>2. QED BY <1>1, Invariance, PTL

\* In sequence the project's counter is the number of its stored files (writes.ts, delete-version.ts).
THEOREM UsageExact == Spec => []UsageExactInSequence
<1>1. StoreInv => UsageExactInSequence
  <2> SUFFICES ASSUME StoreInv, calm, Quiet, cron = Cron PROVE usage.size = Stored
    BY DEF UsageExactInSequence
  <2>1. Uncounted = {} BY IdleFacts DEF Uncounted, Quiet
  <2>2. cron.at # "row" BY CronFacts
  <2>3. usage.size = Cardinality(StoredAssets) + Cardinality(StoredVersions)
    BY <2>1, <2>2, StoredFinite DEF StoreInv, UsageInv, CountInv
  <2>4. QED BY <2>3 DEF Stored, StoredAssets, StoredVersions
<1>2. QED BY <1>1, Invariance, PTL

===============================================================================
