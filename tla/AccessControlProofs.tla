-------------------------- MODULE AccessControlProofs --------------------------
(***************************************************************************)
(* Password protection for any assets, clients, passwords, secrets, limits *)
(* and any number of requests in flight: who is let in is entitled to it,  *)
(* cookies that stopped admitting stay so, and the limiter charges an      *)
(* address for its own failures only.                                      *)
(***************************************************************************)
EXTENDS AccessControl, FiniteSetTheorems, TLAPS

-------------------------------------------------------------------------------
(* The invariant.                                                          *)

Rows == [access : {"gone", "public", "password"}, hash : Passwords \cup {None}, version : Nat]
Counters == [count : Nat, resetAt : Nat]
Cookies == [key : Secrets \cup {None}, asset : Assets, version : Nat, exp : Nat]
Memories == [asset : Assets, version : Nat, password : Passwords, exp : Nat]
Demands == Passwords \cup {"public", "gone"}
Requests ==
  [at : {"idle", "protection", "attempt", "clear", "count", "put", "answered"}, form : BOOLEAN,
   client : Clients \cup {None}, asset : Assets \cup {None}, guess : Passwords \cup {None},
   hash : Passwords \cup {None}, version : Nat, clock : Nat, read : Counters \cup {None},
   proof : {None, "none", "cookie", "form", "basic"}, seen : SUBSET Demands]

TypeOK ==
  /\ row \in [Assets -> Rows] /\ secret \in Secrets \cup {None}
  /\ bucket \in [Assets -> [Ips \cup {None} -> Counters \cup {None}]]
  /\ memo \subseteq Memories /\ jar \in [Clients -> [Assets -> Cookies \cup {None}]]
  /\ now \in Nat /\ slot \in [Slots -> Requests]
  /\ told \in [Clients -> SUBSET (Assets \X Passwords)]
  /\ failed \in [Assets -> [Ips \cup {None} -> Seq(Nat)]]
  /\ calm \in BOOLEAN /\ revived \in BOOLEAN

\* A row has a hash exactly while it is protected.
HashesInv == \A a \in Assets : row[a].access = "password" <=> row[a].hash # None

Attempting(r) == r.at \in {"attempt", "clear", "count", "put"}

\* A request has seen what the row demands; the hash it checks is one it has seen.
SlotOK(s) == LET r == slot[s] IN
  /\ r.at # "answered" => r.proof = None
  /\ r.at # "idle" => r.client \in Clients /\ r.asset \in Assets
  /\ Running(s) => Demand(row[r.asset]) \in r.seen
  /\ Attempting(r) => r.hash \in Passwords \cap r.seen /\ r.clock <= now
  /\ r.at = "clear" => r.guess = r.hash
SlotsInv == \A s \in Slots : SlotOK(s)

\* Somewhere it is written that p is the password of a's version v.
Says(a, v, p) ==
  \/ row[a].access = "password" /\ row[a].version = v /\ row[a].hash = p
  \/ \E e \in memo : e.asset = a /\ e.version = v /\ e.password = p
  \/ \E s \in Slots : Attempting(slot[s]) /\ slot[s].asset = a /\ slot[s].version = v /\ slot[s].hash = p

\* A version of a row has one password, and is not ahead of the row.
VersionsAgree ==
  \A a \in Assets, v \in Nat, p \in Passwords : Says(a, v, p) =>
    /\ \A q \in Passwords : Says(a, v, q) => p = q
    /\ Present(a) => v <= row[a].version

\* The holder of a cookie was let in with the password of the cookie's version.
Earned(c, a, v) == \E p \in Passwords : <<a, p>> \in told[c] /\ \A q \in Passwords : Says(a, v, q) => p = q
CookiesEarned ==
  \A c \in Clients, a \in Assets : jar[c][a] # None =>
    /\ Present(a) => jar[c][a].version <= row[a].version
    /\ Earned(c, a, jar[c][a].version)

Justified(r) ==
  /\ r.proof = "none" => "public" \in r.seen
  /\ r.proof \in {"basic", "form"} => r.guess \in r.seen
  /\ r.proof = "cookie" => \E p \in r.seen \cap Passwords : <<r.asset, p>> \in told[r.client]

\* All of it until a deleted row is written back.
EntryInv == revived \/ (VersionsAgree /\ CookiesEarned /\ \A s \in Slots : Justified(slot[s]))

\* What is counted was failed in the window, also by what a request has read.
Fair(b, a, i) == b # None => b.count <= Charged(a, i, b.resetAt - Window) /\ b.resetAt - Window <= now
CountersInv ==
  /\ \A a \in Assets, i \in Ips \cup {None} : Fair(bucket[a][i], a, i)
  /\ \A s \in Slots : slot[s].at = "put" => Fair(slot[s].read, slot[s].asset, Address[slot[s].client])

\* One request at a time checks the limiter and counts without another in between.
LimitInv == calm =>
  /\ \A s, t \in Slots : Running(s) /\ Running(t) => s = t
  /\ \A a \in Assets, i \in Ips \cup {None} : bucket[a][i] # None => bucket[a][i].count <= Limit(i)
  /\ \A s \in Slots : LET r == slot[s] IN
       /\ r.at = "count" => ~Spent(Counter(s), Address[r.client], r.clock)
       /\ r.at = "put" => (r.read # None => r.read.count + 1 <= Limit(Address[r.client]))

AccessInv == TypeOK /\ HashesInv /\ SlotsInv /\ EntryInv /\ CountersInv /\ LimitInv

-------------------------------------------------------------------------------
(* Counting failures.                                                      *)

Since(f, from) == {n \in DOMAIN f : f[n] >= from}

LEMMA SinceFinite ==
  ASSUME NEW f \in Seq(Nat), NEW from
  PROVE  IsFiniteSet(Since(f, from)) /\ Cardinality(Since(f, from)) \in Nat
<1>1. DOMAIN f = 1 .. Len(f) /\ Len(f) \in Nat OBVIOUS
<1>2. IsFiniteSet(1 .. Len(f)) BY <1>1, FS_Interval
<1>3. QED BY <1>1, <1>2, FS_Subset, FS_CardinalityType DEF Since

LEMMA SinceAppend ==
  ASSUME NEW f \in Seq(Nat), NEW t \in Nat, NEW from \in Int
  PROVE  /\ Append(f, t) \in Seq(Nat)
         /\ Cardinality(Since(Append(f, t), from)) >= Cardinality(Since(f, from))
         /\ from <= t => Cardinality(Since(Append(f, t), from)) = Cardinality(Since(f, from)) + 1
<1>1. Append(f, t) \in Seq(Nat) OBVIOUS
<1>2. DOMAIN Append(f, t) = 1 .. Len(f) + 1 /\ DOMAIN f = 1 .. Len(f) /\ Len(f) \in Nat OBVIOUS
<1>3. (\A i \in 1 .. Len(f) : Append(f, t)[i] = f[i]) /\ Append(f, t)[Len(f) + 1] = t OBVIOUS
<1>4. IsFiniteSet(Since(f, from)) /\ Cardinality(Since(f, from)) \in Nat BY SinceFinite
<1>5. Len(f) + 1 \notin Since(f, from) BY <1>2 DEF Since
<1>6. CASE from <= t
  <2>1. Since(Append(f, t), from) = Since(f, from) \cup {Len(f) + 1} BY <1>2, <1>3, <1>6 DEF Since
  <2>2. Cardinality(Since(f, from) \cup {Len(f) + 1}) = Cardinality(Since(f, from)) + 1
    BY <1>4, <1>5, FS_AddElement
  <2>3. QED BY <1>1, <1>4, <2>1, <2>2
<1>7. CASE ~(from <= t)
  <2>1. Since(Append(f, t), from) = Since(f, from) BY <1>2, <1>3, <1>7 DEF Since
  <2>2. QED BY <1>1, <1>4, <1>7, <2>1
<1>8. QED BY <1>6, <1>7

-------------------------------------------------------------------------------
(* Requests.                                                               *)

IdleAt(r) == r.at \in {"idle", "answered"}

LEMMA IdleType == Idle \in Requests /\ Idle.at = "idle" /\ Idle.proof = None
BY DEF Idle, Requests

LEMMA PutSlot ==
  ASSUME TypeOK, NEW s \in Slots, NEW r \in Requests, slot' = [slot EXCEPT ![s] = r]
  PROVE  slot' \in [Slots -> Requests] /\ slot'[s] = r /\ \A t \in Slots \ {s} : slot'[t] = slot[t]
BY DEF TypeOK

LEMMA RefusedType ==
  ASSUME TypeOK, NEW s \in Slots, Answer(s, None)
  PROVE  slot' = [slot EXCEPT ![s] = Idle]
BY DEF Answer

Answered(r, proof) ==
  [r EXCEPT !.at = "answered", !.proof = proof, !.hash = None, !.version = 0, !.clock = 0, !.read = None]

LEMMA AnsweredType ==
  ASSUME NEW r \in Requests, NEW proof \in {"none", "cookie", "form", "basic"}
  PROVE  LET x == Answered(r, proof) IN
         /\ x \in Requests /\ x.at = "answered" /\ x.proof = proof
         /\ x.seen = r.seen /\ x.guess = r.guess /\ x.asset = r.asset /\ x.client = r.client
BY DEF Answered, Requests

LEMMA AnswerType ==
  ASSUME TypeOK, NEW s \in Slots, NEW proof \in {"none", "cookie", "form", "basic"}, Answer(s, proof)
  PROVE  slot' = [slot EXCEPT ![s] = Answered(slot[s], proof)]
<1>1. proof # None BY AccessAssumption
<1>2. QED BY <1>1 DEF Answer, Answered, TypeOK

\* A request goes on: types, and what it has seen.
LEMMA RequestStep ==
  ASSUME TypeOK, HashesInv, SlotsInv, NEW s \in Slots, NEW r \in Requests, slot' = [slot EXCEPT ![s] = r],
         UNCHANGED <<row, secret, now, revived>>,
         memo' \subseteq Memories, bucket' \in [Assets -> [Ips \cup {None} -> Counters \cup {None}]],
         jar' \in [Clients -> [Assets -> Cookies \cup {None}]],
         told' \in [Clients -> SUBSET (Assets \X Passwords)],
         failed' \in [Assets -> [Ips \cup {None} -> Seq(Nat)]], calm' \in BOOLEAN,
         r.at # "answered" => r.proof = None,
         r.at # "idle" => r.client \in Clients /\ r.asset \in Assets,
         ~IdleAt(r) => Demand(row[r.asset]) \in r.seen,
         Attempting(r) => r.hash \in Passwords \cap r.seen /\ r.clock <= now,
         r.at = "clear" => r.guess = r.hash
  PROVE  TypeOK' /\ HashesInv' /\ SlotsInv'
<1>1. slot' \in [Slots -> Requests] /\ slot'[s] = r /\ \A t \in Slots \ {s} : slot'[t] = slot[t] BY PutSlot
<1>2. TypeOK' BY <1>1 DEF TypeOK
<1>3. HashesInv' BY DEF HashesInv
<1>4. ASSUME NEW t \in Slots PROVE SlotOK(t)'
  <2>1. CASE t = s BY <1>1, <2>1 DEF SlotOK, Running, IdleAt, Demand, Attempting
  <2>2. CASE t # s BY <1>1, <2>2 DEF SlotOK, Running, Demand, Attempting, SlotsInv
  <2>3. QED BY <2>1, <2>2
<1>5. QED BY <1>2, <1>3, <1>4 DEF SlotsInv

\* A request says of a version only what was said of it before.
LEMMA SaysStep ==
  ASSUME TypeOK, NEW s \in Slots, NEW r \in Requests, slot' = [slot EXCEPT ![s] = r], UNCHANGED row,
         \A e \in memo' : e \in memo \/ Says(e.asset, e.version, e.password),
         Attempting(r) => Says(r.asset, r.version, r.hash)
  PROVE  \A a \in Assets, v \in Nat, p \in Passwords : Says(a, v, p)' => Says(a, v, p)
<1>1. slot'[s] = r /\ \A t \in Slots \ {s} : slot'[t] = slot[t] BY PutSlot
<1> SUFFICES ASSUME NEW a \in Assets, NEW v \in Nat, NEW p \in Passwords, Says(a, v, p)' PROVE Says(a, v, p)
  OBVIOUS
<1>2. CASE row'[a].access = "password" /\ row'[a].version = v /\ row'[a].hash = p BY <1>2 DEF Says
<1>3. ASSUME NEW e \in memo', e.asset = a, e.version = v, e.password = p PROVE Says(a, v, p)
  <2>1. CASE e \in memo BY <1>3, <2>1 DEF Says
  <2>2. CASE Says(e.asset, e.version, e.password) BY <1>3, <2>2
  <2>3. QED BY <2>1, <2>2
<1>4. ASSUME NEW t \in Slots, Attempting(slot'[t]), slot'[t].asset = a, slot'[t].version = v, slot'[t].hash = p
      PROVE  Says(a, v, p)
  <2>1. CASE t = s BY <1>1, <1>4, <2>1
  <2>2. CASE t # s BY <1>1, <1>4, <2>2 DEF Says
  <2>3. QED BY <2>1, <2>2
<1>5. QED BY <1>2, <1>3, <1>4 DEF Says, Attempting

\* Nothing new is said, nothing is forgotten, and each new cookie is earned.
LEMMA EntryStep ==
  ASSUME SlotsInv, EntryInv, revived => revived',
         ~revived' => \A a \in Assets : Present(a)' => Present(a) /\ row[a].version <= row'[a].version,
         ~revived' => \A a \in Assets, v \in Nat, p \in Passwords : Says(a, v, p)' => Says(a, v, p),
         TypeOK, TypeOK', \A c \in Clients : told[c] \subseteq told'[c],
         ~revived' => \A c \in Clients, a \in Assets : jar'[c][a] # None =>
           \/ jar'[c][a] = jar[c][a]
           \/ /\ Present(a) => jar'[c][a].version <= row[a].version
              /\ \E p \in Passwords : <<a, p>> \in told'[c] /\ \A q \in Passwords : Says(a, jar'[c][a].version, q) => q = p,
         ~revived' => \A s \in Slots : slot'[s].proof = None \/ slot'[s] = slot[s] \/ Justified(slot[s])'
  PROVE  EntryInv'
<1> SUFFICES ASSUME ~revived'
             PROVE  VersionsAgree' /\ CookiesEarned' /\ \A s \in Slots : Justified(slot[s])'
  BY DEF EntryInv
<1>1. VersionsAgree /\ CookiesEarned /\ \A s \in Slots : Justified(slot[s]) BY DEF EntryInv
<1>2. \A a \in Assets : row[a].version \in Nat /\ row'[a].version \in Nat BY DEF TypeOK, Rows
<1>3. VersionsAgree' BY <1>1, <1>2 DEF VersionsAgree
<1>4. ASSUME NEW c \in Clients, NEW a \in Assets, jar'[c][a] # None
      PROVE  (Present(a)' => jar'[c][a].version <= row'[a].version) /\ Earned(c, a, jar[c][a].version)'
  <2>1. jar'[c][a] \in Cookies BY <1>4 DEF TypeOK
  <2>2. jar'[c][a].version \in Nat BY <2>1 DEF Cookies
  <2>3. CASE jar'[c][a] = jar[c][a]
    <3>1. (Present(a) => jar'[c][a].version <= row[a].version) /\ Earned(c, a, jar'[c][a].version)
      BY <1>1, <1>4, <2>3 DEF CookiesEarned
    <3>2. QED BY <1>2, <2>2, <3>1 DEF Earned
  <2>4. CASE /\ Present(a) => jar'[c][a].version <= row[a].version
             /\ \E p \in Passwords : <<a, p>> \in told'[c] /\ \A q \in Passwords : Says(a, jar'[c][a].version, q) => q = p
    BY <1>2, <2>2, <2>4 DEF Earned
  <2>5. QED BY <1>4, <2>3, <2>4
<1>5. CookiesEarned' BY <1>4 DEF CookiesEarned
<1>6. ASSUME NEW s \in Slots PROVE Justified(slot[s])'
  <2>1. CASE slot'[s].proof = None BY <2>1, AccessAssumption DEF Justified
  <2>2. CASE slot'[s] = slot[s]
    <3>1. slot[s] \in Requests BY DEF TypeOK
    <3>2. CASE slot[s].proof = "cookie"
      <4>1. PICK p \in slot[s].seen \cap Passwords : <<slot[s].asset, p>> \in told[slot[s].client]
        BY <1>1, <3>2 DEF Justified
      <4>2. <<slot[s].asset, p>> \in told'[slot[s].client]
        <5>1. slot[s].client \in Clients BY <3>2, AccessAssumption DEF SlotsInv, SlotOK
        <5>2. QED BY <4>1, <5>1
      <4>3. QED BY <2>2, <3>2, <4>1, <4>2 DEF Justified
    <3>3. CASE slot[s].proof # "cookie" BY <1>1, <2>2, <3>3 DEF Justified
    <3>4. QED BY <3>2, <3>3
  <2>3. CASE Justified(slot[s])' BY <2>3
  <2>4. QED BY <2>1, <2>2, <2>3
<1>7. QED BY <1>3, <1>5, <1>6

-------------------------------------------------------------------------------
(* Counters.                                                               *)

LEMMA FairStays ==
  ASSUME TypeOK, NEW b \in Counters \cup {None}, NEW a \in Assets, NEW i \in Ips \cup {None}, Fair(b, a, i),
         UNCHANGED failed, now' \in Nat, now <= now'
  PROVE  Fair(b, a, i)'
<1>1. now \in Nat /\ Window \in Nat BY AccessAssumption DEF TypeOK
<1>2. b # None => b.resetAt - Window \in Int BY <1>1 DEF Counters
<1>3. QED BY <1>1, <1>2 DEF Fair, Charged

LEMMA CounterAt ==
  ASSUME TypeOK, SlotsInv, NEW s \in Slots, slot[s].at # "idle"
  PROVE  /\ slot[s].asset \in Assets /\ Address[slot[s].client] \in Ips \cup {None}
         /\ Counter(s) \in Counters \cup {None}
<1>1. slot[s].asset \in Assets /\ slot[s].client \in Clients BY DEF SlotsInv, SlotOK
<1>2. Address[slot[s].client] \in Ips \cup {None} BY <1>1, AccessAssumption
<1>3. QED BY <1>1, <1>2 DEF TypeOK, Counter

\* No counter is written.
LEMMA UncountedStep ==
  ASSUME TypeOK, SlotsInv, CountersInv, UNCHANGED <<bucket, failed>>, now' \in Nat, now <= now',
         \A s \in Slots : slot'[s].at = "put" =>
           \/ /\ slot[s].at = "put" /\ slot'[s].read = slot[s].read /\ slot'[s].asset = slot[s].asset
              /\ slot'[s].client = slot[s].client
           \/ /\ slot[s].at # "idle" /\ slot'[s].asset = slot[s].asset /\ slot'[s].client = slot[s].client
              /\ slot'[s].read \in {None, Counter(s)}
  PROVE  CountersInv'
<1>1. ASSUME NEW a \in Assets, NEW i \in Ips \cup {None} PROVE Fair(bucket[a][i], a, i)'
  <2>1. bucket[a][i] \in Counters \cup {None} /\ Fair(bucket[a][i], a, i) BY DEF TypeOK, CountersInv
  <2>2. QED BY <2>1, FairStays DEF Fair, Charged
<1>2. ASSUME NEW s \in Slots, slot'[s].at = "put"
      PROVE  Fair(slot[s].read, slot[s].asset, Address[slot[s].client])'
  <2> DEFINE a == slot[s].asset
             i == Address[slot[s].client]
             b == slot'[s].read
  <2>1. slot[s].at # "idle" /\ slot'[s].asset = a /\ slot'[s].client = slot[s].client BY <1>2
  <2>2. a \in Assets /\ i \in Ips \cup {None} /\ Counter(s) \in Counters \cup {None} BY <2>1, CounterAt
  <2>3. b \in Counters \cup {None} /\ Fair(b, a, i)
    <3>1. CASE slot[s].at = "put" /\ b = slot[s].read
      BY <3>1 DEF CountersInv, TypeOK, Requests
    <3>2. CASE b \in {None, Counter(s)}
      <4>1. Fair(Counter(s), a, i) BY <2>2 DEF CountersInv, Counter
      <4>2. QED BY <2>2, <3>2, <4>1 DEF Fair
    <3>3. QED BY <1>2, <3>1, <3>2
  <2>4. now \in Nat /\ Window \in Nat BY AccessAssumption DEF TypeOK
  <2>5. b # None => b.resetAt - Window \in Int BY <2>3, <2>4 DEF Counters
  <2> HIDE DEF b
  <2>6. b # None => b.count <= Charged(a, i, b.resetAt - Window) /\ b.resetAt - Window <= now'
    BY <2>3, <2>4, <2>5 DEF Fair
  <2>7. QED BY <2>1, <2>6 DEF Fair, Charged, b
<1>3. QED BY <1>1, <1>2 DEF CountersInv

\* A request goes on without writing a counter.
LEMMA LimitStep ==
  ASSUME TypeOK, LimitInv, NEW s \in Slots, NEW r \in Requests, slot' = [slot EXCEPT ![s] = r],
         UNCHANGED bucket, calm' => calm,
         calm' => Running(s) \/ IdleAt(r) \/ Quiet,
         r.at = "count" => ~Spent(bucket[r.asset][Address[r.client]], Address[r.client], r.clock),
         r.at = "put" /\ calm /\ r.read # None => r.read.count + 1 <= Limit(Address[r.client])
  PROVE  LimitInv'
<1> SUFFICES ASSUME calm' PROVE LimitInv' BY DEF LimitInv
<1>1. slot'[s] = r /\ \A t \in Slots \ {s} : slot'[t] = slot[t] BY PutSlot
<1>2. /\ \A t, u \in Slots : Running(t) /\ Running(u) => t = u
      /\ \A t \in Slots : slot[t].at = "count" => ~Spent(Counter(t), Address[slot[t].client], slot[t].clock)
      /\ \A t \in Slots : slot[t].at = "put" =>
           (slot[t].read # None => slot[t].read.count + 1 <= Limit(Address[slot[t].client]))
      /\ \A a \in Assets, i \in Ips \cup {None} : bucket[a][i] # None => bucket[a][i].count <= Limit(i)
  BY DEF LimitInv
<1>3. \A t \in Slots \ {s} : Running(t)' <=> Running(t) BY <1>1 DEF Running
<1>4. Running(s)' <=> ~IdleAt(r) BY <1>1 DEF Running, IdleAt
<1>5. \A t, u \in Slots : Running(t)' /\ Running(u)' => t = u BY <1>2, <1>3, <1>4 DEF Quiet
<1>6. \A t \in Slots : slot'[t].at = "count" => ~Spent(Counter(t), Address[slot[t].client], slot[t].clock)'
  BY <1>1, <1>2 DEF Counter, Spent, Live
<1>7. \A t \in Slots : slot'[t].at = "put" =>
           (slot'[t].read # None => slot'[t].read.count + 1 <= Limit(Address[slot'[t].client]))
  BY <1>1, <1>2
<1>8. QED BY <1>2, <1>5, <1>6, <1>7 DEF LimitInv

-------------------------------------------------------------------------------
(* Steps of a request.                                                     *)

LEMMA Typed == AccessInv => TypeOK /\ HashesInv /\ SlotsInv /\ EntryInv /\ CountersInv /\ LimitInv
BY DEF AccessInv

\* Only the request itself changes.
LEMMA PlainStep ==
  ASSUME AccessInv, NEW s \in Slots, NEW r \in Requests, slot' = [slot EXCEPT ![s] = r],
         UNCHANGED <<row, secret, bucket, memo, jar, now, told, failed, revived>>,
         calm' \in BOOLEAN, calm' => calm, calm' => Running(s) \/ IdleAt(r) \/ Quiet,
         r.at # "answered" => r.proof = None,
         r.at # "idle" => r.client \in Clients /\ r.asset \in Assets,
         ~IdleAt(r) => Demand(row[r.asset]) \in r.seen,
         Attempting(r) => r.hash \in Passwords \cap r.seen /\ r.clock <= now /\ Says(r.asset, r.version, r.hash),
         r.at = "clear" => r.guess = r.hash,
         r.at = "answered" => revived \/ Justified(r),
         r.at = "count" => ~Spent(bucket[r.asset][Address[r.client]], Address[r.client], r.clock),
         r.at = "put" => /\ slot[s].at # "idle" /\ r.asset = slot[s].asset /\ r.client = slot[s].client
                         /\ r.read \in {None, Counter(s)}
                         /\ calm => (r.read # None => r.read.count + 1 <= Limit(Address[r.client]))
  PROVE  AccessInv'
<1>1. TypeOK /\ HashesInv /\ SlotsInv /\ EntryInv /\ CountersInv /\ LimitInv BY Typed
<1>2. slot'[s] = r /\ \A t \in Slots \ {s} : slot'[t] = slot[t] BY <1>1, PutSlot
<1>3. TypeOK' /\ HashesInv' /\ SlotsInv'
  <2>1. /\ memo' \subseteq Memories /\ bucket' \in [Assets -> [Ips \cup {None} -> Counters \cup {None}]]
        /\ jar' \in [Clients -> [Assets -> Cookies \cup {None}]]
        /\ told' \in [Clients -> SUBSET (Assets \X Passwords)]
        /\ failed' \in [Assets -> [Ips \cup {None} -> Seq(Nat)]]
    BY <1>1 DEF TypeOK
  <2>2. QED BY <1>1, <2>1, RequestStep
<1>4. EntryInv'
  <2>1. \A a \in Assets, v \in Nat, p \in Passwords : Says(a, v, p)' => Says(a, v, p) BY <1>1, SaysStep
  <2>2. \A a \in Assets : Present(a)' => Present(a) /\ row[a].version <= row'[a].version
    BY <1>1 DEF Present, TypeOK, Rows
  <2>3. ~revived' => \A t \in Slots : slot'[t].proof = None \/ slot'[t] = slot[t] \/ Justified(slot[t])'
    BY <1>2 DEF Justified
  <2>4. QED BY <1>1, <1>3, <2>1, <2>2, <2>3, EntryStep
<1>5. CountersInv'
  <2>1. now' \in Nat /\ now <= now' BY <1>1 DEF TypeOK
  <2>2. QED BY <1>1, <1>2, <2>1, UncountedStep
<1>6. LimitInv' BY <1>1, LimitStep
<1>7. QED BY <1>3, <1>4, <1>5, <1>6 DEF AccessInv

LEMMA RefusedStep ==
  ASSUME AccessInv, NEW s \in Slots, slot' = [slot EXCEPT ![s] = Idle],
         UNCHANGED <<row, secret, bucket, memo, jar, now, told, failed, calm, revived>>
  PROVE  AccessInv'
<1>1. calm \in BOOLEAN BY DEF AccessInv, TypeOK
<1>2. ~Attempting(Idle) /\ IdleAt(Idle) BY IdleType DEF Attempting, IdleAt
<1>3. QED BY <1>1, <1>2, IdleType, PlainStep

LEMMA ArriveStep ==
  ASSUME AccessInv, NEW s \in Slots, NEW c \in Clients, NEW a \in Assets, NEW form \in BOOLEAN,
         NEW guess \in Passwords \cup {None}, Arrive(s, c, a, form, guess)
  PROVE  AccessInv'
<1> DEFINE seen == {Demand(row[a])}
           request == [Idle EXCEPT !.form = form, !.client = c, !.asset = a, !.guess = guess, !.seen = seen]
           r == IF row[a].access = "password" /\ secret # None THEN [request EXCEPT !.at = "protection"]
                ELSE IF row[a].access = "public" /\ ~form
                     THEN [request EXCEPT !.at = "answered", !.proof = "none"]
                     ELSE Idle
<1>1. TypeOK /\ HashesInv BY Typed
<1>2. row[a] \in Rows /\ Demand(row[a]) \in Demands
  BY <1>1 DEF TypeOK, HashesInv, Rows, Demand, Demands
<1>3. seen \in SUBSET Demands BY <1>2
<1> HIDE DEF seen
<1>4. /\ request \in Requests /\ request.at = "idle" /\ request.proof = None /\ request.client = c
      /\ request.asset = a /\ request.seen = seen
  <2>1. ASSUME NEW x \in Requests
        PROVE  LET y == [x EXCEPT !.form = form, !.client = c, !.asset = a, !.guess = guess, !.seen = seen] IN
               /\ y \in Requests /\ y.at = x.at /\ y.proof = x.proof /\ y.client = c /\ y.asset = a /\ y.seen = seen
    BY <1>3 DEF Requests
  <2>2. QED BY <2>1, IdleType
<1> HIDE DEF request
<1>5. /\ r \in Requests /\ r.at \in {"idle", "protection", "answered"}
      /\ r.at # "answered" => r.proof = None
      /\ r.at # "idle" => r.client = c /\ r.asset = a /\ r.seen = seen
      /\ r.at = "answered" => r.proof = "none" /\ Demand(row[a]) = "public"
  BY <1>4, IdleType, SMTT(30), ZenonT(40) DEF Requests, Demand
<1>6. /\ slot' = [slot EXCEPT ![s] = r] /\ calm' = (calm /\ Quiet)
      /\ UNCHANGED <<row, secret, bucket, memo, jar, now, told, failed, revived>>
  BY DEF Arrive, request, seen
<1> HIDE DEF r
<1>7. calm' \in BOOLEAN /\ (calm' => calm) /\ (calm' => Quiet) BY <1>6
<1>8. ~Attempting(r) /\ (r.at = "answered" => Justified(r))
  BY <1>5, AccessAssumption DEF Attempting, Justified, seen
<1>9. ~IdleAt(r) => Demand(row[r.asset]) \in r.seen BY <1>5 DEF IdleAt, seen
<1>10. QED BY <1>5, <1>6, <1>7, <1>8, <1>9, PlainStep

LEMMA SlotFacts ==
  ASSUME AccessInv, NEW s \in Slots, slot[s].at # "idle"
  PROVE  /\ slot[s] \in Requests /\ slot[s].client \in Clients /\ slot[s].asset \in Assets
         /\ Running(s) => slot[s].proof = None /\ Demand(row[slot[s].asset]) \in slot[s].seen
         /\ Attempting(slot[s]) => /\ Running(s) /\ slot[s].hash \in Passwords \cap slot[s].seen /\ slot[s].clock <= now
                                   /\ Says(slot[s].asset, slot[s].version, slot[s].hash)
BY DEF AccessInv, TypeOK, SlotsInv, SlotOK, Running, Attempting, Says

LEMMA ReadProtectionStep ==
  ASSUME AccessInv, NEW s \in Slots, ReadProtection(s)
  PROVE  AccessInv'
<1> DEFINE a == slot[s].asset
           c == slot[s].client
<1>1. TypeOK /\ HashesInv /\ EntryInv /\ slot[s].at = "protection"
      /\ UNCHANGED <<row, secret, bucket, memo, jar, now, told, failed, calm, revived>>
  BY Typed DEF ReadProtection, history
<1>2. slot[s] \in Requests /\ c \in Clients /\ a \in Assets /\ slot[s].proof = None /\ Running(s)
      /\ Demand(row[a]) \in slot[s].seen /\ row[a] \in Rows
  BY <1>1, SlotFacts DEF Running, TypeOK
<1>3. CASE row[a].hash = None BY <1>1, <1>3, RefusedType, RefusedStep DEF ReadProtection
<1>4. CASE row[a].hash # None
  <2>1. row[a].access = "password" /\ Demand(row[a]) = row[a].hash /\ row[a].hash \in Passwords
        /\ row[a].version \in Nat
    BY <1>1, <1>2, <1>4 DEF HashesInv, Demand, Rows
  <2>2. Says(a, row[a].version, row[a].hash) BY <2>1 DEF Says
  <2>3. CASE ~slot[s].form /\ CookieOk(jar[c][a], a, row[a].version)
    <3> DEFINE r == Answered(slot[s], "cookie")
    <3>1. slot' = [slot EXCEPT ![s] = r] BY <1>1, <1>4, <2>3, AnswerType DEF ReadProtection
    <3>2. r \in Requests /\ r.at = "answered" /\ r.proof = "cookie" /\ r.seen = slot[s].seen
          /\ r.asset = a /\ r.client = c
      BY <1>2, AnsweredType
    <3> HIDE DEF r
    <3>3. ASSUME ~revived PROVE Justified(r)
      <4>1. jar[c][a] # None /\ jar[c][a].version = row[a].version BY <2>3 DEF CookieOk
      <4>2. PICK p \in Passwords : <<a, p>> \in told[c] /\ \A q \in Passwords : Says(a, row[a].version, q) => q = p
        BY <1>1, <1>2, <3>3, <4>1 DEF EntryInv, CookiesEarned, Earned
      <4>3. p = row[a].hash BY <2>1, <2>2, <4>2
      <4>4. QED BY <1>2, <2>1, <3>2, <4>2, <4>3 DEF Justified
    <3>4. ~Attempting(r) /\ IdleAt(r) BY <3>2 DEF Attempting, IdleAt
    <3>5. calm \in BOOLEAN BY <1>1 DEF TypeOK
    <3>6. QED BY <1>1, <1>2, <3>1, <3>2, <3>3, <3>4, <3>5, PlainStep
  <2>4. CASE ~(~slot[s].form /\ CookieOk(jar[c][a], a, row[a].version))
    <3> DEFINE r == [slot[s] EXCEPT !.at = "attempt", !.hash = row[a].hash, !.version = row[a].version, !.clock = now]
    <3>1. slot' = [slot EXCEPT ![s] = r] BY <1>1, <1>4, <2>4 DEF ReadProtection, TypeOK
    <3>2. now \in Nat /\ calm \in BOOLEAN BY <1>1 DEF TypeOK
    <3>3. /\ r \in Requests /\ r.at = "attempt" /\ r.proof = None /\ r.seen = slot[s].seen /\ r.asset = a
          /\ r.client = c /\ r.hash = row[a].hash /\ r.version = row[a].version /\ r.clock = now
      BY <1>2, <2>1, <3>2 DEF Requests
    <3> HIDE DEF r
    <3>4. /\ Demand(row[r.asset]) \in r.seen /\ r.hash \in Passwords \cap r.seen /\ r.clock <= now
          /\ Says(r.asset, r.version, r.hash)
      BY <1>2, <2>1, <2>2, <3>2, <3>3
    <3>5. QED BY <1>1, <1>2, <3>1, <3>2, <3>3, <3>4, PlainStep
  <2>5. QED BY <2>3, <2>4
<1>5. QED BY <1>3, <1>4

LEMMA ChallengeDieStep ==
  ASSUME AccessInv, NEW s \in Slots, Challenge(s) \/ Die(s)
  PROVE  AccessInv'
BY Typed, RefusedType, RefusedStep DEF Challenge, Die, history

LEMMA CheckRateLimitStep ==
  ASSUME AccessInv, NEW s \in Slots, CheckRateLimit(s)
  PROVE  AccessInv'
<1> DEFINE i == Address[slot[s].client]
<1>1. TypeOK /\ slot[s].at = "attempt" /\ Attempting(slot[s])
      /\ UNCHANGED <<row, secret, bucket, memo, jar, now, told, failed, calm, revived>> /\ calm \in BOOLEAN
  BY Typed DEF CheckRateLimit, history, Attempting, TypeOK
<1>2. CASE Spent(Counter(s), i, slot[s].clock) BY <1>1, <1>2, RefusedType, RefusedStep DEF CheckRateLimit
<1>3. CASE ~Spent(Counter(s), i, slot[s].clock)
  <2> DEFINE r == [slot[s] EXCEPT !.at = IF Verifies(slot[s].guess, slot[s].hash) THEN "clear" ELSE "count"]
  <2>1. slot' = [slot EXCEPT ![s] = r] BY <1>1, <1>3 DEF CheckRateLimit, TypeOK
  <2>2. slot[s] \in Requests BY <1>1 DEF TypeOK
  <2>3. /\ r \in Requests /\ r.at \in {"clear", "count"} /\ r.proof = slot[s].proof /\ r.seen = slot[s].seen
        /\ r.asset = slot[s].asset /\ r.client = slot[s].client /\ r.hash = slot[s].hash
        /\ r.version = slot[s].version /\ r.clock = slot[s].clock /\ r.guess = slot[s].guess
        /\ (r.at = "clear" => r.guess = r.hash)
    BY <2>2 DEF Requests, Verifies
  <2> HIDE DEF r
  <2>4. QED BY <1>1, <1>3, <2>1, <2>3, SlotFacts, PlainStep DEF IdleAt, Counter
<1>4. QED BY <1>2, <1>3

LEMMA ReadFailuresStep ==
  ASSUME AccessInv, NEW s \in Slots, ReadFailures(s)
  PROVE  AccessInv'
<1> DEFINE i == Address[slot[s].client]
           b == IF Live(Counter(s), slot[s].clock) THEN Counter(s) ELSE None
           r == [slot[s] EXCEPT !.at = "put", !.read = b]
<1>1. /\ TypeOK /\ SlotsInv /\ LimitInv /\ slot[s].at = "count" /\ Attempting(slot[s])
      /\ UNCHANGED <<row, secret, bucket, memo, jar, now, told, failed, calm, revived>> /\ calm \in BOOLEAN
      /\ slot[s] \in Requests
  BY Typed DEF ReadFailures, history, Attempting, TypeOK
<1>2. slot' = [slot EXCEPT ![s] = r] BY <1>1 DEF ReadFailures, TypeOK
<1>3. Counter(s) \in Counters \cup {None} /\ i \in Ips \cup {None} BY <1>1, CounterAt
<1>4. b \in Counters \cup {None} /\ b \in {None, Counter(s)} BY <1>3
<1>5. calm => (b # None => b.count + 1 <= Limit(i))
  <2> SUFFICES ASSUME calm, b # None PROVE b.count + 1 <= Limit(i) OBVIOUS
  <2>1. ~Spent(Counter(s), i, slot[s].clock) BY <1>1 DEF LimitInv
  <2>2. Live(Counter(s), slot[s].clock) /\ b = Counter(s) OBVIOUS
  <2>3. ~(b.count >= Limit(i)) BY <2>1, <2>2 DEF Spent
  <2>4. b.count \in Nat /\ Limit(i) \in Nat BY <1>4, AccessAssumption DEF Counters, Limit
  <2>5. QED BY <2>3, <2>4
<1> HIDE DEF b
<1>6. /\ r \in Requests /\ r.at = "put" /\ r.read = b /\ r.proof = slot[s].proof /\ r.seen = slot[s].seen
      /\ r.asset = slot[s].asset /\ r.client = slot[s].client /\ r.hash = slot[s].hash
      /\ r.version = slot[s].version /\ r.clock = slot[s].clock
  BY <1>1, <1>4 DEF Requests
<1> HIDE DEF r
<1>7. QED BY <1>1, <1>2, <1>4, <1>5, <1>6, SlotFacts, PlainStep DEF IdleAt

\* A right password lets the client in: the cookie it is given is earned.
LEMMA AdmitStep ==
  ASSUME AccessInv, NEW s \in Slots, Attempting(slot[s]), slot[s].guess \in Passwords,
         ~revived => slot[s].guess = slot[s].hash, Admit(s),
         UNCHANGED <<row, secret, now, failed, calm, revived>>,
         memo' \subseteq Memories, \A e \in memo' : e \in memo \/ Says(e.asset, e.version, e.password),
         bucket' \in [Assets -> [Ips \cup {None} -> Counters \cup {None}]]
  PROVE  /\ TypeOK' /\ HashesInv' /\ SlotsInv' /\ EntryInv'
         /\ \E r \in Requests : r.at = "answered" /\ slot' = [slot EXCEPT ![s] = r]
<1> DEFINE proof == IF slot[s].form THEN "form" ELSE "basic"
           r == Answered(slot[s], proof)
           a == slot[s].asset
           c == slot[s].client
           k == MintedCookie(s)
<1>1. TypeOK /\ HashesInv /\ SlotsInv /\ EntryInv BY Typed
<1>2. /\ slot[s] \in Requests /\ c \in Clients /\ a \in Assets /\ slot[s].clock \in Nat /\ slot[s].version \in Nat
      /\ slot[s].hash \in Passwords \cap slot[s].seen /\ Says(a, slot[s].version, slot[s].hash)
  BY SlotFacts DEF Attempting, Requests
<1>3. proof \in {"form", "basic"} OBVIOUS
<1>4. slot' = [slot EXCEPT ![s] = r] BY <1>1, <1>3, AnswerType DEF Admit
<1>5. /\ r \in Requests /\ r.at = "answered" /\ r.proof = proof /\ r.seen = slot[s].seen
      /\ r.guess = slot[s].guess /\ r.asset = a /\ r.client = c
  BY <1>2, <1>3, AnsweredType
<1> HIDE DEF r, proof
<1>6. k \in Cookies /\ k.version = slot[s].version
  <2>1. Lifetime \in Nat BY AccessAssumption
  <2>2. QED BY <1>1, <1>2, <2>1 DEF MintedCookie, Cookies, TypeOK
<1>7. /\ told' \in [Clients -> SUBSET (Assets \X Passwords)] /\ <<a, slot[s].guess>> \in told'[c]
      /\ \A x \in Clients : told[x] \subseteq told'[x]
  BY <1>1, <1>2 DEF Admit, TypeOK
<1>8. /\ jar' \in [Clients -> [Assets -> Cookies \cup {None}]]
      /\ \A x \in Clients, b \in Assets : jar'[x][b] = jar[x][b] \/ (x = c /\ b = a /\ jar'[x][b] = k)
  <2> HIDE DEF k
  <2>1. jar' = IF slot[s].form THEN [jar EXCEPT ![c][a] = k] ELSE jar BY DEF Admit, k
  <2>2. QED BY <1>1, <1>2, <1>6, <2>1 DEF TypeOK
<1>9. failed' \in [Assets -> [Ips \cup {None} -> Seq(Nat)]] /\ calm' \in BOOLEAN BY <1>1 DEF TypeOK
<1>10. ~Attempting(r) /\ IdleAt(r) BY <1>5 DEF Attempting, IdleAt
<1>11. TypeOK' /\ HashesInv' /\ SlotsInv' BY <1>1, <1>2, <1>4, <1>5, <1>7, <1>8, <1>9, <1>10, RequestStep
<1>12. EntryInv'
  <2>1. \A b \in Assets, v \in Nat, p \in Passwords : Says(b, v, p)' => Says(b, v, p)
    BY <1>1, <1>4, <1>5, <1>10, SaysStep
  <2>2. \A b \in Assets : Present(b)' => Present(b) /\ row[b].version <= row'[b].version
    BY <1>1 DEF Present, TypeOK, Rows
  <2>3. ASSUME ~revived', NEW x \in Clients, NEW b \in Assets, jar'[x][b] # jar[x][b]
        PROVE  /\ Present(b) => jar'[x][b].version <= row[b].version
               /\ \E p \in Passwords : <<b, p>> \in told'[x] /\ \A q \in Passwords : Says(b, jar'[x][b].version, q) => q = p
    <3>1. x = c /\ b = a /\ jar'[x][b].version = slot[s].version BY <1>6, <1>8, <2>3
    <3>2. VersionsAgree /\ slot[s].guess = slot[s].hash BY <1>1, <2>3 DEF EntryInv
    <3>3. /\ Present(a) => slot[s].version <= row[a].version
          /\ \A q \in Passwords : Says(a, slot[s].version, q) => q = slot[s].hash
      BY <1>2, <3>2 DEF VersionsAgree
    <3>4. QED BY <1>2, <1>7, <3>1, <3>2, <3>3
  <2>4. ~revived' => Justified(slot[s])'
    <3>1. slot'[s] = r BY <1>1, <1>4, <1>5, PutSlot
    <3>2. QED BY <1>2, <1>5, <3>1 DEF Justified, proof
  <2>5. ~revived' => \A t \in Slots : slot'[t].proof = None \/ slot'[t] = slot[t] \/ Justified(slot[t])'
    BY <1>1, <1>4, <1>5, <2>4, PutSlot
  <2>6. QED BY <1>1, <1>7, <1>11, <2>1, <2>2, <2>3, <2>5, EntryStep
<1>13. QED BY <1>4, <1>5, <1>11, <1>12

\* A request that is over, alone if no two overlap, leaves counters within the limit.
LEMMA LastStep ==
  ASSUME TypeOK, LimitInv, NEW s \in Slots, NEW r \in Requests, slot' = [slot EXCEPT ![s] = r],
         Running(s), IdleAt(r), UNCHANGED calm,
         calm => \A a \in Assets, i \in Ips \cup {None} : bucket'[a][i] # None => bucket'[a][i].count <= Limit(i)
  PROVE  LimitInv'
<1> SUFFICES ASSUME calm PROVE LimitInv' BY DEF LimitInv
<1>1. slot'[s] = r /\ \A t \in Slots \ {s} : slot'[t] = slot[t] BY PutSlot
<1>2. \A t \in Slots : ~Running(t)' BY <1>1 DEF LimitInv, Running, IdleAt
<1>3. QED BY <1>2 DEF LimitInv, Running

LEMMA RememberStep ==
  ASSUME AccessInv, NEW s \in Slots, Remember(s)
  PROVE  AccessInv'
<1> DEFINE a == slot[s].asset
           v == slot[s].version
<1>1. /\ TypeOK /\ SlotsInv /\ EntryInv /\ CountersInv /\ LimitInv /\ Attempting(slot[s]) /\ Running(s) /\ Admit(s)
      /\ UNCHANGED <<row, secret, bucket, memo, now, failed, calm, revived>>
  BY Typed DEF Remember, Attempting, Running
<1>2. PICK e \in memo : e.asset = a /\ e.version = v /\ e.password = slot[s].guess BY DEF Remember, MemoHit
<1>3. e \in Memories BY <1>1 DEF TypeOK
<1>4. a \in Assets /\ v \in Nat /\ slot[s].guess \in Passwords /\ Says(a, v, slot[s].guess)
  BY <1>2, <1>3 DEF Memories, Says
<1>5. slot[s].hash \in Passwords /\ Says(a, v, slot[s].hash) BY <1>1, SlotFacts DEF Attempting
<1>6. ~revived => slot[s].guess = slot[s].hash BY <1>1, <1>4, <1>5 DEF EntryInv, VersionsAgree
<1>7. /\ memo' \subseteq Memories /\ bucket' \in [Assets -> [Ips \cup {None} -> Counters \cup {None}]]
      /\ now' \in Nat /\ now <= now'
  <2>1. memo' = memo /\ bucket' = bucket /\ now' = now BY <1>1
  <2>2. now' \in Nat /\ now <= now' BY <1>1, <2>1 DEF TypeOK
  <2>3. memo' \subseteq Memories BY <1>1, <2>1 DEF TypeOK
  <2>4. bucket' \in [Assets -> [Ips \cup {None} -> Counters \cup {None}]] BY <1>1, <2>1 DEF TypeOK
  <2>5. QED BY <2>2, <2>3, <2>4
<1>8. /\ TypeOK' /\ HashesInv' /\ SlotsInv' /\ EntryInv'
      /\ \E r \in Requests : r.at = "answered" /\ slot' = [slot EXCEPT ![s] = r]
  BY <1>1, <1>4, <1>6, <1>7, AdmitStep
<1>9. PICK r \in Requests : r.at = "answered" /\ slot' = [slot EXCEPT ![s] = r] BY <1>8
<1>10. LimitInv' BY <1>1, <1>9, LastStep DEF IdleAt, LimitInv
<1>11. CountersInv' BY <1>1, <1>7, <1>9, PutSlot, UncountedStep
<1>12. QED BY <1>8, <1>10, <1>11 DEF AccessInv

LEMMA ClearFailuresStep ==
  ASSUME AccessInv, NEW s \in Slots, ClearFailures(s)
  PROVE  AccessInv'
<1> DEFINE e == [asset |-> slot[s].asset, version |-> slot[s].version, password |-> slot[s].guess,
                 exp |-> slot[s].clock + MemoTTL]
<1>1. /\ TypeOK /\ SlotsInv /\ CountersInv /\ LimitInv /\ Attempting(slot[s]) /\ Running(s) /\ Admit(s)
      /\ SetCounter(s, None) /\ memo' = memo \cup {e} /\ slot[s].at = "clear"
      /\ UNCHANGED <<row, secret, now, failed, calm, revived>>
  BY Typed DEF ClearFailures, Attempting, Running
<1>2. slot[s].guess = slot[s].hash BY <1>1 DEF SlotsInv, SlotOK
<1>3. /\ slot[s].asset \in Assets /\ slot[s].version \in Nat /\ slot[s].clock \in Nat /\ slot[s].hash \in Passwords
      /\ Says(slot[s].asset, slot[s].version, slot[s].hash)
  BY <1>1, SlotFacts DEF Attempting, Requests
<1>4. e \in Memories /\ Says(e.asset, e.version, e.password)
  <2>1. MemoTTL \in Nat BY AccessAssumption
  <2>2. QED BY <1>2, <1>3, <2>1 DEF Memories
<1> HIDE DEF e
<1>5. memo' \subseteq Memories /\ \A x \in memo' : x \in memo \/ Says(x.asset, x.version, x.password)
  BY <1>1, <1>4 DEF TypeOK
<1>6. /\ bucket' \in [Assets -> [Ips \cup {None} -> Counters \cup {None}]]
      /\ \A a \in Assets, i \in Ips \cup {None} : bucket'[a][i] = bucket[a][i] \/ bucket'[a][i] = None
  <2>1. /\ slot[s].asset \in Assets /\ Address[slot[s].client] \in Ips \cup {None}
        /\ bucket \in [Assets -> [Ips \cup {None} -> Counters \cup {None}]]
    BY <1>1, CounterAt DEF TypeOK
  <2>2. bucket' = [bucket EXCEPT ![slot[s].asset][Address[slot[s].client]] = None] BY <1>1 DEF SetCounter
  <2>3. QED BY <2>1, <2>2
<1>7. /\ TypeOK' /\ HashesInv' /\ SlotsInv' /\ EntryInv'
      /\ \E r \in Requests : r.at = "answered" /\ slot' = [slot EXCEPT ![s] = r]
  BY <1>1, <1>2, <1>3, <1>5, <1>6, AdmitStep
<1>8. PICK r \in Requests : r.at = "answered" /\ slot' = [slot EXCEPT ![s] = r] BY <1>7
<1>9. LimitInv'
  <2>1. calm => \A a \in Assets, i \in Ips \cup {None} : bucket'[a][i] # None => bucket'[a][i].count <= Limit(i)
    BY <1>1, <1>6 DEF LimitInv
  <2>2. QED BY <1>1, <1>8, <2>1, LastStep DEF IdleAt
<1>10. CountersInv'
  <2>1. slot'[s] = r /\ \A t \in Slots \ {s} : slot'[t] = slot[t] BY <1>1, <1>8, PutSlot
  <2>2. \A a \in Assets, i \in Ips \cup {None} : Fair(bucket[a][i], a, i)' BY <1>1, <1>6, ZenonT(40) DEF CountersInv, Fair, Charged
  <2>3. \A t \in Slots : slot'[t].at = "put" => Fair(slot[t].read, slot[t].asset, Address[slot[t].client])'
    BY <1>1, <1>8, <2>1, SMTT(30) DEF CountersInv, Fair, Charged
  <2>4. QED BY <2>2, <2>3 DEF CountersInv
<1>11. QED BY <1>7, <1>9, <1>10 DEF AccessInv

LEMMA PutFailuresStep ==
  ASSUME AccessInv, NEW s \in Slots, PutFailures(s)
  PROVE  AccessInv'
<1> DEFINE read == slot[s].read
<1>1. /\ TypeOK /\ HashesInv /\ SlotsInv /\ EntryInv /\ CountersInv /\ LimitInv
      /\ slot[s].at = "put" /\ Attempting(slot[s]) /\ Running(s) /\ SetCounter(s, OneMore(s))
      /\ failed' = [failed EXCEPT ![slot[s].asset][Address[slot[s].client]] = Append(@, now)]
      /\ UNCHANGED <<row, secret, memo, jar, now, told, calm, revived>>
  BY Typed DEF PutFailures, Attempting, Running
<1>2. slot' = [slot EXCEPT ![s] = Idle] BY <1>1, RefusedType DEF PutFailures
<1>3. slot'[s] = Idle /\ \A t \in Slots \ {s} : slot'[t] = slot[t] BY <1>1, <1>2, IdleType, PutSlot
<1>4. PICK a0 \in Assets, i0 \in Ips \cup {None} : a0 = slot[s].asset /\ i0 = Address[slot[s].client]
  BY <1>1, CounterAt
<1>5. /\ read \in Counters \cup {None} /\ slot[s].clock \in Nat /\ slot[s].clock <= now /\ now \in Nat
      /\ Window \in Nat
  BY <1>1, SlotFacts, AccessAssumption DEF TypeOK, Requests
<1>6. PICK b0 \in Counters : /\ b0 = OneMore(s) /\ b0.count = (IF read = None THEN 1 ELSE read.count + 1)
                             /\ b0.resetAt = (IF read = None THEN slot[s].clock + Window ELSE read.resetAt)
  <2>1. CASE read = None
    <3>1. slot[s].clock + Window \in Nat BY <1>5
    <3>2. OneMore(s) = [count |-> 1, resetAt |-> slot[s].clock + Window] BY <2>1 DEF OneMore
    <3>3. QED BY <2>1, <3>1, <3>2 DEF Counters
  <2>2. CASE read # None
    <3>1. read \in Counters BY <1>5, <2>2
    <3>2. OneMore(s) = [read EXCEPT !.count = @ + 1] BY <2>2 DEF OneMore
    <3>3. QED BY <2>2, <3>1, <3>2 DEF Counters
  <2>3. QED BY <2>1, <2>2
<1>7. /\ bucket' \in [Assets -> [Ips \cup {None} -> Counters \cup {None}]]
      /\ \A a \in Assets, i \in Ips \cup {None} : bucket'[a][i] = IF a = a0 /\ i = i0 THEN b0 ELSE bucket[a][i]
  <2>1. bucket \in [Assets -> [Ips \cup {None} -> Counters \cup {None}]] BY <1>1 DEF TypeOK
  <2>2. bucket' = [bucket EXCEPT ![a0][i0] = b0] BY <1>1, <1>4, <1>6 DEF SetCounter
  <2>3. QED BY <2>1, <2>2
<1>8. /\ failed[a0][i0] \in Seq(Nat) /\ Append(failed[a0][i0], now) \in Seq(Nat)
      /\ failed' \in [Assets -> [Ips \cup {None} -> Seq(Nat)]]
      /\ \A a \in Assets, i \in Ips \cup {None} :
           failed'[a][i] = IF a = a0 /\ i = i0 THEN Append(failed[a][i], now) ELSE failed[a][i]
  <2> DEFINE f == Append(failed[a0][i0], now)
  <2>1. failed \in [Assets -> [Ips \cup {None} -> Seq(Nat)]] BY <1>1 DEF TypeOK
  <2>2. failed[a0][i0] \in Seq(Nat) /\ f \in Seq(Nat) BY <1>5, <2>1
  <2> HIDE DEF f
  <2>3. failed' = [failed EXCEPT ![a0][i0] = f] BY <1>1, <1>4, <2>1 DEF f
  <2>4. /\ failed' \in [Assets -> [Ips \cup {None} -> Seq(Nat)]]
        /\ \A a \in Assets, i \in Ips \cup {None} : failed'[a][i] = IF a = a0 /\ i = i0 THEN f ELSE failed[a][i]
    BY <2>1, <2>2, <2>3
  <2>5. QED BY <2>2, <2>4 DEF f
<1>9. ASSUME NEW a \in Assets, NEW i \in Ips \cup {None}, NEW from \in Int
      PROVE  /\ Charged(a, i, from) \in Nat /\ Charged(a, i, from)' \in Nat /\ Charged(a, i, from)' >= Charged(a, i, from)
             /\ a = a0 /\ i = i0 /\ from <= now => Charged(a, i, from)' = Charged(a, i, from) + 1
  <2>1. failed[a][i] \in Seq(Nat) /\ failed'[a][i] \in Seq(Nat) BY <1>1, <1>8 DEF TypeOK
  <2>2. Charged(a, i, from) = Cardinality(Since(failed[a][i], from))
        /\ Charged(a, i, from)' = Cardinality(Since(failed'[a][i], from))
    BY DEF Charged, Since
  <2>3. Cardinality(Since(failed[a][i], from)) \in Nat /\ Cardinality(Since(failed'[a][i], from)) \in Nat
    BY <2>1, SinceFinite
  <2>4. CASE a = a0 /\ i = i0
    <3>1. failed'[a][i] = Append(failed[a][i], now) BY <1>8, <2>4
    <3>2. QED BY <1>5, <2>1, <2>2, <2>3, <3>1, SinceAppend
  <2>5. CASE ~(a = a0 /\ i = i0) BY <1>8, <2>2, <2>3, <2>5
  <2>6. QED BY <2>4, <2>5
<1>10. ASSUME NEW b \in Counters \cup {None}, NEW a \in Assets, NEW i \in Ips \cup {None}, Fair(b, a, i)
       PROVE  Fair(b, a, i)'
  <2> SUFFICES ASSUME b # None PROVE Fair(b, a, i)' BY DEF Fair
  <2>1. b.resetAt - Window \in Int /\ b.count \in Nat BY <1>5 DEF Counters
  <2>2. b.count <= Charged(a, i, b.resetAt - Window) /\ b.resetAt - Window <= now BY <1>10 DEF Fair
  <2>3. b.count <= Charged(a, i, b.resetAt - Window)' BY <1>9, <2>1, <2>2, SMTT(30)
  <2>4. QED BY <1>1, <2>2, <2>3 DEF Fair, Charged
<1>11. Fair(b0, a0, i0)'
  <2>1. PICK from \in Int : /\ from = b0.resetAt - Window /\ from <= now
                            /\ b0.count <= Charged(a0, i0, from) + 1
    <3>1. CASE read = None
      <4>1. b0.resetAt - Window = slot[s].clock /\ b0.count = 1 BY <1>5, <1>6, <3>1
      <4>2. Charged(a0, i0, slot[s].clock) \in Nat BY <1>5, <1>9
      <4>3. QED BY <1>5, <4>1, <4>2
    <3>2. CASE read # None
      <4>1. Fair(read, a0, i0) BY <1>1, <1>4 DEF CountersInv
      <4>2. read \in Counters BY <1>5, <3>2
      <4>3. read.count \in Nat /\ read.resetAt \in Nat /\ b0.resetAt = read.resetAt /\ b0.count = read.count + 1
        BY <1>6, <3>2, <4>2 DEF Counters
      <4>4. read.resetAt - Window \in Int BY <1>5, <4>3
      <4>5. read.count <= Charged(a0, i0, read.resetAt - Window) /\ read.resetAt - Window <= now
        BY <3>2, <4>1 DEF Fair
      <4>6. Charged(a0, i0, read.resetAt - Window) \in Nat BY <1>9, <4>4
      <4>7. QED BY <4>3, <4>4, <4>5, <4>6
    <3>3. QED BY <3>1, <3>2
  <2>2. Charged(a0, i0, from)' = Charged(a0, i0, from) + 1 BY <1>9, <2>1
  <2>3. b0.count <= Charged(a0, i0, from)' BY <2>1, <2>2
  <2>4. QED BY <1>1, <2>1, <2>3 DEF Fair, Charged
<1>12. CountersInv'
  <2>1. ASSUME NEW a \in Assets, NEW i \in Ips \cup {None} PROVE Fair(bucket[a][i], a, i)'
    <3>1. CASE a = a0 /\ i = i0
      <4>1. bucket'[a][i] = b0 BY <1>7, <3>1
      <4>2. QED BY <1>11, <3>1, <4>1 DEF Fair, Charged
    <3>2. CASE ~(a = a0 /\ i = i0)
      <4>1. bucket'[a][i] = bucket[a][i] BY <1>7, <3>2
      <4>2. bucket[a][i] \in Counters \cup {None} /\ Fair(bucket[a][i], a, i) BY <1>1 DEF TypeOK, CountersInv
      <4>3. QED BY <1>10, <4>1, <4>2 DEF Fair, Charged
    <3>3. QED BY <3>1, <3>2
  <2>2. ASSUME NEW t \in Slots, slot'[t].at = "put"
        PROVE  Fair(slot[t].read, slot[t].asset, Address[slot[t].client])'
    <3>1. slot'[t] = slot[t] BY <1>3, <2>2, IdleType
    <3>2. slot[t].asset \in Assets /\ Address[slot[t].client] \in Ips \cup {None} BY <1>1, <2>2, <3>1, CounterAt
    <3>3. slot[t].read \in Counters \cup {None} /\ Fair(slot[t].read, slot[t].asset, Address[slot[t].client])
      BY <1>1, <2>2, <3>1 DEF TypeOK, Requests, CountersInv
    <3>4. QED BY <1>10, <3>1, <3>2, <3>3 DEF Fair, Charged
  <2>3. QED BY <2>1, <2>2 DEF CountersInv
<1>13. LimitInv'
  <2>1. calm => b0.count <= Limit(i0)
    <3>1. Limit(i0) \in Nat /\ 1 <= Limit(i0) BY AccessAssumption DEF Limit
    <3>2. calm => (read # None => read.count + 1 <= Limit(i0)) BY <1>1, <1>4 DEF LimitInv
    <3>3. QED BY <1>6, <3>1, <3>2
  <2>2. calm => \A a \in Assets, i \in Ips \cup {None} : bucket'[a][i] # None => bucket'[a][i].count <= Limit(i)
    BY <1>1, <1>7, <2>1 DEF LimitInv
  <2>3. QED BY <1>1, <1>2, <2>2, IdleType, LastStep DEF IdleAt
<1>14. TypeOK' /\ HashesInv' /\ SlotsInv'
  <2>1. /\ memo' \subseteq Memories /\ jar' \in [Clients -> [Assets -> Cookies \cup {None}]]
        /\ told' \in [Clients -> SUBSET (Assets \X Passwords)] /\ calm' \in BOOLEAN
    BY <1>1 DEF TypeOK
  <2>2. ~Attempting(Idle) /\ IdleAt(Idle) BY IdleType DEF Attempting, IdleAt
  <2>3. QED BY <1>1, <1>2, <1>7, <1>8, <2>1, <2>2, IdleType, RequestStep
<1>15. EntryInv'
  <2>1. ~Attempting(Idle) BY IdleType DEF Attempting
  <2>2. \A a \in Assets, v \in Nat, p \in Passwords : Says(a, v, p)' => Says(a, v, p)
    BY <1>1, <1>2, <2>1, IdleType, SaysStep
  <2>3. \A a \in Assets : Present(a)' => Present(a) /\ row[a].version <= row'[a].version
    BY <1>1 DEF Present, TypeOK, Rows
  <2>4. \A t \in Slots : slot'[t].proof = None \/ slot'[t] = slot[t] BY <1>3, IdleType
  <2>5. QED BY <1>1, <1>14, <2>2, <2>3, <2>4, EntryStep
<1>16. QED BY <1>12, <1>13, <1>14, <1>15 DEF AccessInv

-------------------------------------------------------------------------------
(* The owner, deployments and time.                                        *)

\* One statement on a row: requests in flight have seen what it demands now.
LEMMA WriteStep ==
  ASSUME AccessInv, NEW a \in Assets, NEW r \in Rows, r.access = "password" <=> r.hash # None, Write(a, r),
         UNCHANGED <<secret, bucket, memo, jar, now, told, failed, calm>>, revived' \in BOOLEAN, revived => revived'
  PROVE  /\ TypeOK' /\ HashesInv' /\ SlotsInv' /\ CountersInv' /\ LimitInv'
         /\ row'[a] = r /\ \A b \in Assets \ {a} : row'[b] = row[b]
         /\ \A s \in Slots : /\ slot'[s].at = slot[s].at /\ slot'[s].asset = slot[s].asset
                             /\ slot'[s].version = slot[s].version /\ slot'[s].hash = slot[s].hash
                             /\ slot'[s].proof = None \/ slot'[s] = slot[s]
<1>1. TypeOK /\ HashesInv /\ SlotsInv /\ CountersInv /\ LimitInv BY Typed
<1>2. /\ row' = [row EXCEPT ![a] = r]
      /\ slot' = [s \in Slots |-> IF slot[s].asset = a /\ Running(s)
                                  THEN [slot[s] EXCEPT !.seen = @ \cup {Demand(r)}] ELSE slot[s]]
  BY DEF Write
<1>3. /\ row' \in [Assets -> Rows] /\ row'[a] = r /\ \A b \in Assets \ {a} : row'[b] = row[b]
  BY <1>1, <1>2 DEF TypeOK
<1>4. Demand(r) \in Demands BY DEF Rows, Demand, Demands
<1>5. ASSUME NEW s \in Slots
      PROVE  LET x == slot'[s] IN
             /\ x \in Requests /\ x.at = slot[s].at /\ x.asset = slot[s].asset /\ x.client = slot[s].client
             /\ x.version = slot[s].version /\ x.hash = slot[s].hash /\ x.guess = slot[s].guess
             /\ x.clock = slot[s].clock /\ x.read = slot[s].read /\ x.proof = slot[s].proof
             /\ slot[s].seen \subseteq x.seen
             /\ slot[s].asset = a /\ Running(s) => Demand(r) \in x.seen
             /\ ~Running(s) => x = slot[s]
  <2>1. slot[s] \in Requests BY <1>1 DEF TypeOK
  <2>2. CASE slot[s].asset = a /\ Running(s)
    <3>1. slot'[s] = [slot[s] EXCEPT !.seen = @ \cup {Demand(r)}] BY <1>2, <2>2
    <3>2. QED BY <1>4, <2>1, <2>2, <3>1 DEF Requests
  <2>3. CASE ~(slot[s].asset = a /\ Running(s)) BY <1>2, <2>1, <2>3
  <2>4. QED BY <2>2, <2>3
<1>6. slot' \in [Slots -> Requests] BY <1>2, <1>5
<1>7. TypeOK' BY <1>1, <1>3, <1>6 DEF TypeOK
<1>8. HashesInv' BY <1>1, <1>3 DEF HashesInv
<1>9. ASSUME NEW s \in Slots PROVE SlotOK(s)'
  <2>1. SlotOK(s) BY <1>1 DEF SlotsInv
  <2>2. Running(s)' <=> Running(s) BY <1>5 DEF Running
  <2>3. Running(s) => Demand(row'[slot'[s].asset]) \in slot'[s].seen
    BY <1>3, <1>5, <2>1 DEF SlotOK, Running
  <2>4. QED BY <1>5, <2>1, <2>2, <2>3 DEF SlotOK, Attempting, Demand
<1>10. SlotsInv' BY <1>9 DEF SlotsInv
<1>11. CountersInv'
  <2>1. now' \in Nat /\ now <= now' BY <1>1 DEF TypeOK
  <2>2. QED BY <1>1, <1>5, <2>1, UncountedStep
<1>12. LimitInv'
  <2>1. \A s \in Slots : (Running(s)' <=> Running(s)) /\ Counter(s)' = Counter(s) BY <1>5 DEF Running, Counter
  <2>2. QED BY <1>1, <1>5, <2>1 DEF LimitInv, Spent, Live
<1>13. \A s \in Slots : slot'[s].proof = None \/ slot'[s] = slot[s]
  BY <1>1, <1>5 DEF SlotsInv, SlotOK, Running
<1>14. QED BY <1>3, <1>5, <1>7, <1>8, <1>10, <1>11, <1>12, <1>13

\* The row does not become protected anew, and its version does not go back.
LEMMA LessSaidStep ==
  ASSUME AccessInv, NEW a \in Assets, NEW r \in Rows, r.access = "password" <=> r.hash # None, Write(a, r),
         UNCHANGED <<secret, bucket, memo, jar, now, told, failed, calm>>, revived' \in BOOLEAN, revived => revived',
         ~revived' => /\ r.access = "password" => r = row[a]
                      /\ r.access # "gone" => Present(a) /\ row[a].version <= r.version
  PROVE  AccessInv'
<1>1. /\ TypeOK' /\ HashesInv' /\ SlotsInv' /\ CountersInv' /\ LimitInv'
      /\ row'[a] = r /\ \A b \in Assets \ {a} : row'[b] = row[b]
      /\ \A s \in Slots : /\ slot'[s].at = slot[s].at /\ slot'[s].asset = slot[s].asset
                          /\ slot'[s].version = slot[s].version /\ slot'[s].hash = slot[s].hash
                          /\ slot'[s].proof = None \/ slot'[s] = slot[s]
  BY WriteStep
<1>2. TypeOK /\ SlotsInv /\ EntryInv BY Typed
<1>3. ~revived' => \A b \in Assets : Present(b)' => Present(b) /\ row[b].version <= row'[b].version
  <2>1. \A b \in Assets : row[b].version \in Nat BY <1>2 DEF TypeOK, Rows
  <2>2. ~revived' => (Present(a)' => Present(a) /\ row[a].version <= row'[a].version) BY <1>1, <2>1 DEF Present
  <2>3. \A b \in Assets \ {a} : Present(b)' => Present(b) /\ row[b].version <= row'[b].version
    BY <1>1, <2>1 DEF Present
  <2>4. QED BY <2>2, <2>3
<1>4. ~revived' => \A b \in Assets, v \in Nat, p \in Passwords : Says(b, v, p)' => Says(b, v, p)
  BY <1>1 DEF Says, Attempting
<1>5. EntryInv' BY <1>1, <1>2, <1>3, <1>4, EntryStep
<1>6. QED BY <1>1, <1>5 DEF AccessInv

\* A new password comes with a version that nothing speaks of yet.
LEMMA ProtectStep ==
  ASSUME AccessInv, NEW a \in Assets, NEW p \in Passwords, Protect(a, p)
  PROVE  AccessInv'
<1> DEFINE r == Protected(a, p)
<1>1. TypeOK /\ SlotsInv /\ EntryInv BY Typed
<1>2. row[a] \in Rows /\ row[a].version \in Nat BY <1>1 DEF TypeOK, Rows
<1>3. /\ r \in Rows /\ r.access = "password" /\ r.hash = p /\ r.version = row[a].version + 1 /\ r.hash # None
  BY <1>2, AccessAssumption DEF Protected, Rows
<1>4. /\ Write(a, r) /\ Present(a) /\ UNCHANGED <<secret, bucket, memo, jar, now, told, failed, calm, revived>>
      /\ revived' \in BOOLEAN
  BY <1>1 DEF Protect, TypeOK
<1> HIDE DEF r
<1>5. /\ TypeOK' /\ HashesInv' /\ SlotsInv' /\ CountersInv' /\ LimitInv'
      /\ row'[a] = r /\ \A b \in Assets \ {a} : row'[b] = row[b]
      /\ \A s \in Slots : /\ slot'[s].at = slot[s].at /\ slot'[s].asset = slot[s].asset
                          /\ slot'[s].version = slot[s].version /\ slot'[s].hash = slot[s].hash
                          /\ slot'[s].proof = None \/ slot'[s] = slot[s]
  BY <1>3, <1>4, WriteStep
<1>6. EntryInv'
  <2> SUFFICES ASSUME ~revived PROVE VersionsAgree' /\ CookiesEarned' /\ \A s \in Slots : Justified(slot[s])'
    BY <1>4 DEF EntryInv
  <2>1. VersionsAgree /\ CookiesEarned /\ \A s \in Slots : Justified(slot[s]) BY <1>1 DEF EntryInv
  <2>2. \A b \in Assets, v \in Nat, q \in Passwords :
          Says(b, v, q)' => Says(b, v, q) \/ (b = a /\ v = row[a].version + 1 /\ q = p)
    BY <1>3, <1>4, <1>5 DEF Says, Attempting
  <2>3. \A q \in Passwords : ~Says(a, row[a].version + 1, q)
    BY <1>2, <1>4, <2>1 DEF VersionsAgree
  <2>4. \A b \in Assets : (Present(b)' <=> Present(b)) /\ row[b].version <= row'[b].version /\ row[b].version \in Nat
                          /\ row'[b].version \in Nat /\ (b = a => row'[b].version = row[a].version + 1)
    BY <1>1, <1>2, <1>3, <1>4, <1>5 DEF Present, TypeOK, Rows
  <2>5. VersionsAgree' BY <2>1, <2>2, <2>3, <2>4 DEF VersionsAgree
  <2>6. ASSUME NEW c \in Clients, NEW b \in Assets, jar'[c][b] # None
        PROVE  (Present(b)' => jar'[c][b].version <= row'[b].version) /\ Earned(c, b, jar[c][b].version)'
    <3>1. jar[c][b] \in Cookies /\ jar'[c][b] = jar[c][b] BY <1>1, <1>4, <2>6 DEF TypeOK
    <3>2. jar[c][b].version \in Nat BY <3>1 DEF Cookies
    <3>3. (Present(b) => jar[c][b].version <= row[b].version) /\ Earned(c, b, jar[c][b].version)
      BY <2>1, <2>6, <3>1 DEF CookiesEarned
    <3>4. b = a => jar[c][b].version # row[a].version + 1 BY <1>2, <1>4, <3>2, <3>3
    <3>5. QED BY <1>4, <2>2, <2>4, <3>1, <3>2, <3>3, <3>4 DEF Earned
  <2>7. CookiesEarned' BY <2>6 DEF CookiesEarned
  <2>8. ASSUME NEW s \in Slots PROVE Justified(slot[s])'
    <3>1. CASE slot'[s].proof = None BY <3>1, AccessAssumption DEF Justified
    <3>2. CASE slot'[s] = slot[s] BY <1>4, <2>1, <3>2 DEF Justified
    <3>3. QED BY <1>5, <3>1, <3>2
  <2>9. QED BY <2>5, <2>7, <2>8
<1>7. QED BY <1>5, <1>6 DEF AccessInv

LEMMA OwnerStep ==
  ASSUME AccessInv, NEW a \in Assets, Unprotect(a) \/ DeleteAsset(a) \/ Upsert(a)
  PROVE  AccessInv'
<1>1. TypeOK /\ HashesInv /\ row[a] \in Rows /\ row[a].version \in Nat /\ revived \in BOOLEAN
  BY Typed DEF TypeOK, Rows
<1>2. \A v \in Nat : /\ Public(v) \in Rows /\ Public(v).access = "public" /\ Public(v).hash = None
                     /\ Public(v).version = v
  BY DEF Public, Rows
<1>3. CASE Unprotect(a)
  <2>1. /\ Write(a, Public(row[a].version)) /\ Present(a)
        /\ UNCHANGED <<secret, bucket, memo, jar, now, told, failed, calm, revived>>
    BY <1>3 DEF Unprotect, Unprotected, Present
  <2>2. QED BY <1>1, <1>2, <2>1, LessSaidStep
<1>4. CASE DeleteAsset(a)
  <2>1. Gone \in Rows /\ Gone.access = "gone" /\ Gone.hash = None BY DEF Gone, Rows
  <2>2. /\ Write(a, Gone) /\ UNCHANGED <<secret, bucket, memo, jar, now, told, failed, calm, revived>>
    BY <1>4 DEF DeleteAsset
  <2>3. QED BY <1>1, <2>1, <2>2, LessSaidStep
<1>5. CASE Upsert(a)
  <2>1. /\ Write(a, Carried(a)) /\ UNCHANGED <<secret, bucket, memo, jar, now, told, failed, calm>>
        /\ revived' = (revived \/ ~Present(a))
    BY <1>5 DEF Upsert
  <2>2. CASE Present(a)
    <3>1. Carried(a) = row[a] /\ (revived' <=> revived) /\ revived' \in BOOLEAN BY <2>1, <2>2 DEF Carried
    <3>2. row[a].access = "password" <=> row[a].hash # None BY <1>1 DEF HashesInv
    <3>3. QED BY <1>1, <2>1, <2>2, <3>1, <3>2, LessSaidStep
  <2>3. CASE ~Present(a)
    <3>1. Carried(a) = Public(0) /\ revived' /\ revived' \in BOOLEAN BY <2>1, <2>3 DEF Carried
    <3>2. QED BY <1>1, <1>2, <2>1, <3>1, LessSaidStep
  <2>4. QED BY <2>2, <2>3
<1>6. QED BY <1>3, <1>4, <1>5

\* Isolates forget, or time passes.
LEMMA WorldStep ==
  ASSUME AccessInv, Tick \/ \E k \in Secrets \cup {None} : Redeploy(k)
  PROVE  AccessInv'
<1>1. TypeOK /\ HashesInv /\ SlotsInv /\ EntryInv /\ CountersInv /\ LimitInv BY Typed
<1>2. /\ UNCHANGED <<row, bucket, jar, slot, told, failed, calm, revived>> /\ secret' \in Secrets \cup {None}
      /\ memo' \subseteq memo /\ now' \in Nat /\ now <= now'
  BY <1>1 DEF Tick, Redeploy, history, TypeOK
<1>3. TypeOK' BY <1>1, <1>2 DEF TypeOK
<1>4. HashesInv' BY <1>1, <1>2 DEF HashesInv
<1>5. SlotsInv'
  <2>1. ASSUME NEW s \in Slots PROVE SlotOK(s)'
    <3>1. SlotOK(s) /\ slot[s] \in Requests /\ slot[s].clock \in Nat /\ now \in Nat
      BY <1>1 DEF SlotsInv, TypeOK, Requests
    <3>2. QED BY <1>2, <3>1 DEF SlotOK, Running, Demand, Attempting
  <2>2. QED BY <2>1 DEF SlotsInv
<1>6. EntryInv'
  <2>1. \A a \in Assets, v \in Nat, p \in Passwords : Says(a, v, p)' => Says(a, v, p)
    BY <1>2 DEF Says, Attempting
  <2>2. \A a \in Assets : Present(a)' => Present(a) /\ row[a].version <= row'[a].version
    BY <1>1, <1>2 DEF Present, TypeOK, Rows
  <2>3. QED BY <1>1, <1>2, <1>3, <2>1, <2>2, EntryStep
<1>7. CountersInv' BY <1>1, <1>2, UncountedStep
<1>8. LimitInv' BY <1>1, <1>2 DEF LimitInv, Running, Counter, Spent, Live
<1>9. QED BY <1>3, <1>4, <1>5, <1>6, <1>7, <1>8 DEF AccessInv

LEMMA AccessInit == Init => AccessInv
<1> SUFFICES ASSUME Init PROVE AccessInv OBVIOUS
<1> USE DEF Init
<1>1. <<>> \in Seq(Nat) OBVIOUS
<1>2. Public(0) \in Rows /\ Public(0).access = "public" /\ Public(0).hash = None BY DEF Public, Rows
<1>3. TypeOK BY <1>1, <1>2, IdleType DEF TypeOK
<1>4. HashesInv BY <1>2 DEF HashesInv
<1>5. \A s \in Slots : ~Running(s) /\ ~Attempting(slot[s]) /\ slot[s].at = "idle" /\ slot[s].proof = None
  BY IdleType DEF Running, Attempting
<1>6. SlotsInv BY <1>5 DEF SlotsInv, SlotOK
<1>7. EntryInv
  <2>1. \A a \in Assets, v \in Nat, p \in Passwords : ~Says(a, v, p) BY <1>2, <1>5 DEF Says
  <2>2. QED BY <1>5, <2>1, AccessAssumption DEF EntryInv, VersionsAgree, CookiesEarned, Justified
<1>8. CountersInv BY <1>5 DEF CountersInv, Fair
<1>9. LimitInv BY <1>5 DEF LimitInv
<1>10. QED BY <1>3, <1>4, <1>6, <1>7, <1>8, <1>9 DEF AccessInv

LEMMA AccessNext ==
  ASSUME AccessInv, [Next]_vars
  PROVE  AccessInv'
<1>1. CASE Owner
  <2>1. PICK a \in Assets : (\E p \in Passwords : Protect(a, p)) \/ Unprotect(a) \/ DeleteAsset(a) \/ Upsert(a)
    BY <1>1 DEF Owner
  <2>2. QED BY <2>1, ProtectStep, OwnerStep
<1>2. CASE Tick \/ \E k \in Secrets \cup {None} : Redeploy(k) BY <1>2, WorldStep
<1>3. ASSUME NEW s \in Slots, Handle(s) PROVE AccessInv'
  <2>1. CASE \E c \in Clients, a \in Assets, form \in BOOLEAN, guess \in Passwords \cup {None} :
               Arrive(s, c, a, form, guess)
    <3>1. PICK c \in Clients, a \in Assets, form \in BOOLEAN, guess \in Passwords \cup {None} :
            Arrive(s, c, a, form, guess)
      BY <2>1
    <3>2. QED BY <3>1, ArriveStep
  <2>2. CASE ReadProtection(s) \/ Remember(s) BY <2>2, ReadProtectionStep, RememberStep
  <2>3. CASE Challenge(s) \/ Die(s) BY <2>3, ChallengeDieStep
  <2>4. CASE CheckRateLimit(s) \/ ReadFailures(s) BY <2>4, CheckRateLimitStep, ReadFailuresStep
  <2>5. CASE ClearFailures(s) \/ PutFailures(s) BY <2>5, ClearFailuresStep, PutFailuresStep
  <2>6. QED BY <1>3, <2>1, <2>2, <2>3, <2>4, <2>5 DEF Handle
<1>4. CASE UNCHANGED vars
  <2>1. TypeOK' BY <1>4 DEF vars, AccessInv, TypeOK
  <2>2. HashesInv' BY <1>4 DEF vars, AccessInv, HashesInv
  <2>3. SlotsInv' BY <1>4 DEF vars, AccessInv, SlotsInv, SlotOK, Running, Demand, Attempting
  <2>4. EntryInv'
    <3>1. \A a \in Assets, v \in Nat, p \in Passwords : Says(a, v, p)' => Says(a, v, p)
      BY <1>4 DEF vars, Says, Attempting
    <3>2. \A a \in Assets : Present(a)' => Present(a) /\ row[a].version <= row'[a].version
      BY <1>4 DEF vars, AccessInv, TypeOK, Rows, Present
    <3>3. QED BY <1>4, <2>1, <3>1, <3>2, Typed, EntryStep DEF vars
  <2>5. CountersInv' BY <1>4 DEF vars, AccessInv, CountersInv, Fair, Charged
  <2>6. LimitInv' BY <1>4 DEF vars, AccessInv, LimitInv, Running, Counter, Spent, Live
  <2>7. QED BY <2>1, <2>2, <2>3, <2>4, <2>5, <2>6 DEF AccessInv
<1>5. QED BY <1>1, <1>2, <1>3, <1>4 DEF Next

\* Neither time nor a row that was written back is undone.
LEMMA NothingGoesBack ==
  ASSUME now \in Nat, [Next]_vars
  PROVE  now <= now' /\ (revived => revived')
<1>1. CASE Owner
  <2>1. PICK a \in Assets : (\E p \in Passwords : Protect(a, p)) \/ Unprotect(a) \/ DeleteAsset(a) \/ Upsert(a)
    BY <1>1 DEF Owner
  <2>2. now' = now BY <2>1 DEF Protect, Unprotect, DeleteAsset, Upsert
  <2>3. revived => revived'
    <3>1. CASE Upsert(a)
      <4>1. revived' = (revived \/ ~Present(a)) BY <3>1 DEF Upsert
      <4>2. QED BY <4>1
    <3>2. CASE ~Upsert(a)
      <4>1. revived' = revived BY <2>1, <3>2 DEF Protect, Unprotect, DeleteAsset
      <4>2. QED BY <4>1
    <3>3. QED BY <3>1, <3>2
  <2>4. QED BY <2>2, <2>3
<1>2. CASE Tick \/ \E k \in Secrets \cup {None} : Redeploy(k) BY <1>2 DEF Tick, Redeploy, history
<1>3. ASSUME NEW s \in Slots, Handle(s) PROVE now' = now /\ revived' = revived
  BY <1>3 DEF Handle, history, Arrive, ReadProtection, Remember, Challenge, CheckRateLimit, ClearFailures,
              ReadFailures, PutFailures, Die
<1>4. CASE UNCHANGED vars BY <1>4 DEF vars
<1>5. QED BY <1>1, <1>2, <1>3, <1>4 DEF Next

\* The invariant holds in every reachable state, whatever interleaves, dies or expires.
THEOREM Invariance == Spec => []AccessInv
<1>1. Init => AccessInv BY AccessInit
<1>2. AccessInv /\ [Next]_vars => AccessInv' BY AccessNext
<1>3. QED BY <1>1, <1>2, PTL DEF Spec

-------------------------------------------------------------------------------
(* Theorems.                                                               *)

(* Nobody is let in by serve-gate.ts but on a demand the asset made while   *)
(* the request ran, as long as no deleted row was written back.             *)
THEOREM AdmissionHolds == Spec => []AdmissionIsJustified
<1>1. AccessInv => AdmissionIsJustified BY DEF AccessInv, EntryInv, Justified, AdmissionIsJustified
<1>2. QED BY <1>1, Invariance, PTL

(* rate-limit.ts, for any limits and window: an address is charged at most   *)
(* what it failed in the window, and never beyond the limit while requests   *)
(* come one at a time.                                                      *)
THEOREM LimiterHolds == Spec => []LimiterChargesFailures
<1>1. AccessInv => LimiterChargesFailures
  BY DEF AccessInv, CountersInv, Fair, LimitInv, LimiterChargesFailures, Live
<1>2. QED BY <1>1, Invariance, PTL

(* token.ts and set-access.ts: versions only grow, so a cookie that does not  *)
(* admit is of a version that is past, or expired.                          *)
THEOREM RetiredStayRetired == Spec => RetiredCookiesStayRetired
<1>1. ASSUME AccessInv, [Next]_vars, NEW c \in Clients, NEW a \in Assets,
             jar'[c][a] = jar[c][a], ~Admits(c, a), Admits(c, a)', secret' = secret, ~revived'
      PROVE  FALSE
  <2> DEFINE k == jar[c][a]
  <2>1. AccessInv' BY <1>1, AccessNext
  <2>2. /\ row'[a].access = "password" /\ k # None /\ k.key = secret /\ k.asset = a
        /\ k.version = row'[a].version /\ k.exp > now'
    BY <1>1 DEF Admits, CookieOk
  <2>3. TypeOK /\ TypeOK' /\ EntryInv BY <1>1, <2>1, Typed DEF AccessInv
  <2>4. k \in Cookies /\ k.version \in Nat /\ k.exp \in Nat /\ now \in Nat /\ now' \in Nat
    BY <2>2, <2>3 DEF TypeOK, Cookies
  <2>5. now <= now' /\ (revived => revived')
    BY <1>1, <2>3, NothingGoesBack DEF TypeOK
  <2>6. ~(row[a].access = "password" /\ k.version = row[a].version)
    BY <1>1, <2>2, <2>4, <2>5 DEF Admits, CookieOk
  <2>7. row'[a].access = "password" /\ row'[a] # row[a] BY <2>2, <2>6
  <2>8. \/ \E p \in Passwords : Protect(a, p)
        \/ Unprotect(a) \/ DeleteAsset(a) \/ Upsert(a)
    <3>1. row' # row BY <2>7, SMTT(30), ZenonT(40)
    <3>2. Owner
      BY <1>1, <3>1, ZenonT(40) DEF Next, vars, Tick, Redeploy, history, Handle,
         Arrive, ReadProtection, Remember, Challenge, CheckRateLimit, ClearFailures, ReadFailures, PutFailures, Die
    <3>3. PICK b \in Assets : (\E p \in Passwords : Protect(b, p)) \/ Unprotect(b) \/ DeleteAsset(b) \/ Upsert(b)
      BY <3>2 DEF Owner
    <3>4. b = a
      BY <2>3, <2>7, <3>3 DEF Protect, Unprotect, DeleteAsset, Upsert, Write, TypeOK
    <3>5. QED BY <3>3, <3>4
  <2>9. CASE \E p \in Passwords : Protect(a, p)
    <3>1. PICK p \in Passwords : Protect(a, p) BY <2>9
    <3>2. Present(a) /\ row'[a].version = row[a].version + 1 /\ row[a].version \in Nat
      BY <2>3, <3>1 DEF Protect, Protected, Write, TypeOK, Rows
    <3>3. k.version <= row[a].version BY <1>1, <2>2, <2>3, <2>5, <3>2 DEF EntryInv, CookiesEarned
    <3>4. QED BY <2>2, <2>4, <3>2, <3>3
  <2>10. CASE Unprotect(a) \/ DeleteAsset(a)
    BY <2>3, <2>7, <2>10 DEF Unprotect, Unprotected, DeleteAsset, Write, TypeOK, Public, Gone
  <2>11. CASE Upsert(a)
    BY <1>1, <2>3, <2>7, <2>11 DEF Upsert, Carried, Write, TypeOK
  <2>12. QED BY <2>8, <2>9, <2>10, <2>11
<1>2. AccessInv /\ [Next]_vars =>
        [\A c \in Clients, a \in Assets :
           jar'[c][a] = jar[c][a] /\ ~Admits(c, a) /\ Admits(c, a)' => secret' # secret \/ revived']_vars
  BY <1>1
<1>3. QED BY <1>2, Invariance, PTL DEF Spec, RetiredCookiesStayRetired

===============================================================================
