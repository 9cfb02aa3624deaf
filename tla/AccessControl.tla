----------------------------- MODULE AccessControl -----------------------------
(***************************************************************************)
(* Password protection of an asset (core/access, asset/usecase/set-access, *)
(* adapters/sql/stores.ts): who is let in while the owner rotates, removes *)
(* or restores the password, requests run from await to await, and failed  *)
(* attempts are counted in a store without an atomic increment.            *)
(*                                                                         *)
(* Hashes and MACs are perfect: a hash is the password it was made of, and *)
(* a cookie exists only if it was minted.  `now` counts abstract units;    *)
(* Window, MemoTTL and Lifetime are the source's durations in those units. *)
(* `memo` is the union of what the isolates remember: a request may reach  *)
(* an isolate that never had the entry, or evicted it, and then misses.    *)
(***************************************************************************)
EXTENDS Integers, Sequences, FiniteSets

CONSTANTS
  Assets, Clients, Passwords, Secrets, Slots, None,
  Sites,              \* the assets that are archives of a project
  Ips, Address,       \* the address each client is seen under, None if unknown
  LimitPerIp, LimitGlobal, Window, MemoTTL, Lifetime,
  MaxTime, MaxWrites, MaxRequests     \* bounds on the clock, writes of the row, requests

ASSUME AccessAssumption ==
  /\ Sites \subseteq Assets /\ Address \in [Clients -> Ips \cup {None}]
  /\ {LimitPerIp, LimitGlobal, Window, MemoTTL, Lifetime} \subseteq Nat \ {0}
  /\ {MaxTime, MaxWrites, MaxRequests} \subseteq Nat
  /\ None \notin Passwords \cup Secrets \cup Ips
  /\ {"public", "gone"} \cap Passwords = {}
  /\ None \notin {"none", "cookie", "form", "basic"}

VARIABLES
  row,                \* assets.access, password_hash, password_version
  secret,             \* SIGNING_SECRET of the deployment, or None
  bucket,             \* the key-value store's failure counters
  memo, jar,          \* what isolates remember; the cookie each client holds for each asset
  now, slot,
  told, failed, calm, revived, writes, requests    \* history, see below

vars == <<row, secret, bucket, memo, jar, now, slot, told, failed, calm, revived, writes, requests>>
history == <<told, failed, calm, revived, writes, requests>>

Idle == [at |-> "idle", form |-> FALSE, client |-> None, asset |-> None, guess |-> None,
         hash |-> None, version |-> 0, clock |-> 0, read |-> None, proof |-> None, seen |-> {}]

Gone == [access |-> "gone", hash |-> None, version |-> 0]
Public(version) == [access |-> "public", hash |-> None, version |-> version]

Init ==
  /\ row = [a \in Assets |-> Public(0)]
  /\ secret \in Secrets \cup {None}
  /\ bucket = [a \in Assets |-> [i \in Ips \cup {None} |-> None]]
  /\ memo = {} /\ jar = [c \in Clients |-> [a \in Assets |-> None]]
  /\ now = 0 /\ slot = [s \in Slots |-> Idle]
  /\ told = [c \in Clients |-> {}]          \* <<asset, password>> a client was let in with
  /\ failed = [a \in Assets |-> [i \in Ips \cup {None} |-> <<>>]]    \* when an address failed
  /\ calm = TRUE                            \* no two requests overlapped
  /\ revived = FALSE                        \* a deleted row was written back
  /\ writes = 0 /\ requests = 0

-------------------------------------------------------------------------------
(* The owner: PATCH of `access`, and what other components do to the row.  *)

\* What a row demands of a visitor: nothing, one password, or it is not there.
Demand(r) == IF r.access = "password" THEN r.hash ELSE r.access

Running(s) == slot[s].at \notin {"idle", "answered"}
Quiet == \A s \in Slots : ~Running(s)

\* One statement on the row; requests in flight live through both demands.
Write(a, r) ==
  /\ writes < MaxWrites /\ writes' = writes + 1
  /\ row' = [row EXCEPT ![a] = r]
  /\ slot' = [s \in Slots |-> IF slot[s].asset = a /\ Running(s)
                               THEN [slot[s] EXCEPT !.seen = @ \cup {Demand(r)}] ELSE slot[s]]

\* UPDATE ... WHERE id: nothing happens to a row that is gone.
Present(a) == row[a].access # "gone"

Protected(a, p) == [access |-> "password", hash |-> p, version |-> row[a].version + 1]

MutantUnprotected(a) == Public(0)
Unprotected(a) == Public(row[a].version)

Protect(a, p) ==
  /\ a \in Sites /\ secret # None
  /\ Present(a)
  /\ Write(a, Protected(a, p))
  /\ UNCHANGED <<secret, bucket, memo, jar, now, told, failed, calm, revived, requests>>

Unprotect(a) ==
  /\ a \in Sites /\ row[a].access = "password"
  /\ Write(a, Unprotected(a))
  /\ UNCHANGED <<secret, bucket, memo, jar, now, told, failed, calm, revived, requests>>

DeleteAsset(a) ==
  /\ Present(a)
  /\ Write(a, Gone)
  /\ UNCHANGED <<secret, bucket, memo, jar, now, told, failed, calm, revived, requests>>

\* INSERT OR REPLACE of a row read earlier (a job's status, mostly): the access
\* columns are taken from the row being replaced, if there is one.
Carried(a) == IF Present(a) THEN row[a] ELSE Public(0)

Upsert(a) ==
  /\ Write(a, Carried(a))
  /\ revived' = (revived \/ ~Present(a))
  /\ UNCHANGED <<secret, bucket, memo, jar, now, told, failed, calm, requests>>

\* A deployment with another secret, or with none.  A request in flight ends
\* with the isolate and the secret it began with, so the change is made between
\* requests.
Redeploy(k) ==
  /\ k # secret /\ Quiet
  /\ secret' = k
  /\ memo' = {}
  /\ UNCHANGED <<row, bucket, jar, now, slot, history>>

Tick ==
  /\ now < MaxTime
  /\ now' = now + 1
  /\ UNCHANGED <<row, secret, bucket, memo, jar, slot, history>>

-------------------------------------------------------------------------------
(* A request: a GET (with the client's cookie, and Basic credentials if it  *)
(* has a guess) or the password form.  One that is refused (401, 404, 429,  *)
(* 503) is over at once; one that is let in leaves its answer in the slot.   *)

Answer(s, proof) ==
  slot' = [slot EXCEPT ![s] = IF proof = None THEN Idle ELSE [@ EXCEPT !.at = "answered", !.proof = proof,
                         !.hash = None, !.version = 0, !.clock = 0, !.read = None]]

\* The handler reads the asset's row; only a protected asset goes on.
Arrive(s, c, a, form, guess) ==
  /\ ~Running(s) /\ requests < MaxRequests
  /\ requests' = requests + 1
  /\ calm' = (calm /\ Quiet)
  /\ LET request == [Idle EXCEPT !.form = form, !.client = c, !.asset = a, !.guess = guess,
                                 !.seen = {Demand(row[a])}]
     IN  slot' = [slot EXCEPT ![s] =
           IF row[a].access = "password" /\ secret # None THEN [request EXCEPT !.at = "protection"]
           ELSE IF row[a].access = "public" /\ ~form
                THEN [request EXCEPT !.at = "answered", !.proof = "none"]
                ELSE Idle]
  /\ UNCHANGED <<row, secret, bucket, memo, jar, now, told, failed, revived, writes>>

CookieOk(k, a, version) ==
  /\ k # None
  /\ k.key = secret /\ k.asset = a /\ k.version = version /\ k.exp > now

MutantMemoHit(a, version, p) == \E e \in memo : e.asset = a /\ e.password = p /\ e.exp > now
MemoHit(a, version, p) ==
  \E e \in memo : e.asset = a /\ e.version = version /\ e.password = p /\ e.exp > now

\* The clock is read once, here.  Without a hash on the row nothing can verify.
ReadProtection(s) ==
  /\ slot[s].at = "protection"
  /\ LET a == slot[s].asset IN
     IF row[a].hash = None THEN Answer(s, None)
     ELSE IF ~slot[s].form /\ CookieOk(jar[slot[s].client][a], a, row[a].version)
          THEN Answer(s, "cookie")
          ELSE slot' = [slot EXCEPT ![s].at = "attempt", ![s].hash = row[a].hash,
                                    ![s].version = row[a].version, ![s].clock = now]
  /\ UNCHANGED <<row, secret, bucket, memo, jar, now, history>>

MintedCookie(s) == [key |-> secret, asset |-> slot[s].asset, version |-> slot[s].version,
                    exp |-> slot[s].clock + Lifetime]

\* The password was right: a form answers with a cookie, Basic with the bytes.
Admit(s) ==
  /\ Answer(s, IF slot[s].form THEN "form" ELSE "basic")
  /\ told' = [told EXCEPT ![slot[s].client] = @ \cup {<<slot[s].asset, slot[s].guess>>}]
  /\ jar' = IF slot[s].form THEN [jar EXCEPT ![slot[s].client][slot[s].asset] = MintedCookie(s)]
                            ELSE jar

\* A guess this isolate has seen succeed costs neither a hash nor the limiter.
Remember(s) ==
  /\ slot[s].at = "attempt" /\ MemoHit(slot[s].asset, slot[s].version, slot[s].guess)
  /\ Admit(s)
  /\ UNCHANGED <<row, secret, bucket, memo, now, failed, calm, revived, writes, requests>>

\* A GET without Basic credentials is challenged.
Challenge(s) ==
  /\ slot[s].at = "attempt" /\ ~slot[s].form /\ slot[s].guess = None
  /\ Answer(s, None)
  /\ UNCHANGED <<row, secret, bucket, memo, jar, now, history>>

-------------------------------------------------------------------------------
(* attemptPassword: the limiter, the hash, the counter.                    *)

Limit(ip) == IF ip = None THEN LimitGlobal ELSE LimitPerIp
Counter(s) == bucket[slot[s].asset][Address[slot[s].client]]
SetCounter(s, b) == bucket' = [bucket EXCEPT ![slot[s].asset][Address[slot[s].client]] = b]
Live(b, clock) == b # None /\ b.resetAt > clock

MutantSpent(b, ip, clock) == Live(b, clock) /\ b.count > Limit(ip)
Spent(b, ip, clock) == Live(b, clock) /\ b.count >= Limit(ip)

\* PBKDF2 of the guess under the stored salt gives the stored hash.
Verifies(guess, hash) == guess = hash

CheckRateLimit(s) ==
  /\ slot[s].at = "attempt" /\ (slot[s].form \/ slot[s].guess # None)
  /\ IF Spent(Counter(s), Address[slot[s].client], slot[s].clock) THEN Answer(s, None)
     ELSE slot' = [slot EXCEPT ![s].at = IF Verifies(slot[s].guess, slot[s].hash) THEN "clear" ELSE "count"]
  /\ UNCHANGED <<row, secret, bucket, memo, jar, now, history>>

ClearFailures(s) ==
  /\ slot[s].at = "clear"
  /\ SetCounter(s, None)
  /\ memo' = memo \cup {[asset |-> slot[s].asset, version |-> slot[s].version,
                         password |-> slot[s].guess, exp |-> slot[s].clock + MemoTTL]}
  /\ Admit(s)
  /\ UNCHANGED <<row, secret, now, failed, calm, revived, writes, requests>>

\* recordFailure reads the counter and writes it back one higher: two steps.
ReadFailures(s) ==
  /\ slot[s].at = "count"
  /\ slot' = [slot EXCEPT ![s].at = "put",
                          ![s].read = IF Live(Counter(s), slot[s].clock) THEN Counter(s) ELSE None]
  /\ UNCHANGED <<row, secret, bucket, memo, jar, now, history>>

MutantOneMore(s) ==
  IF slot[s].read = None THEN [count |-> 1, resetAt |-> slot[s].clock + Window]
  ELSE [count |-> slot[s].read.count + 1, resetAt |-> now + Window]
OneMore(s) ==
  IF slot[s].read = None THEN [count |-> 1, resetAt |-> slot[s].clock + Window]
  ELSE [slot[s].read EXCEPT !.count = @ + 1]

PutFailures(s) ==
  /\ slot[s].at = "put"
  /\ SetCounter(s, OneMore(s))
  /\ failed' = [failed EXCEPT ![slot[s].asset][Address[slot[s].client]] = Append(@, now)]
  /\ Answer(s, None)
  /\ UNCHANGED <<row, secret, memo, jar, now, told, calm, revived, writes, requests>>

\* The isolate dies, or a store call fails: nothing is answered.
Die(s) ==
  /\ Running(s)
  /\ slot' = [slot EXCEPT ![s] = Idle]
  /\ UNCHANGED <<row, secret, bucket, memo, jar, now, history>>

Owner == \E a \in Assets :
  \/ \E p \in Passwords : Protect(a, p)
  \/ Unprotect(a) \/ DeleteAsset(a) \/ Upsert(a)

Handle(s) ==
  \/ \E c \in Clients, a \in Assets, form \in BOOLEAN, guess \in Passwords \cup {None} :
       Arrive(s, c, a, form, guess)
  \/ ReadProtection(s) \/ Remember(s) \/ Challenge(s) \/ CheckRateLimit(s)
  \/ ClearFailures(s) \/ ReadFailures(s) \/ PutFailures(s) \/ Die(s)

Next == Owner \/ Tick \/ (\E k \in Secrets \cup {None} : Redeploy(k)) \/ \E s \in Slots : Handle(s)

Spec == Init /\ [][Next]_vars

-------------------------------------------------------------------------------
(* Whoever is let in is entitled to it by a demand the asset made while the *)
(* request was running: the asset was public, or the client sent the        *)
(* password demanded, now or (for a cookie) in an earlier request that was   *)
(* let in.  Holds until a deleted row is written back, which forgets the     *)
(* version.                                                                 *)
AdmissionIsJustified ==
  revived \/ \A s \in Slots : LET r == slot[s] IN
    /\ r.proof = "none" => "public" \in r.seen
    /\ r.proof \in {"basic", "form"} => r.guess \in r.seen
    /\ r.proof = "cookie" => \E p \in r.seen \cap Passwords : <<r.asset, p>> \in told[r.client]

(* The counter never charges more than the wrong answers its own address    *)
(* was given within the window, so that nobody is refused for what others   *)
(* did; and requests that come one at a time get Limit guesses, no more.    *)
Charged(a, i, from) == Cardinality({n \in DOMAIN failed[a][i] : failed[a][i][n] >= from})

LimiterChargesFailures ==
  \A a \in Assets, i \in Ips \cup {None} : LET b == bucket[a][i] IN
    Live(b, now) => /\ b.count <= Charged(a, i, b.resetAt - Window)
                    /\ calm => b.count <= Limit(i)

(* A cookie that has stopped admitting (the password was changed or taken   *)
(* away, or it expired) never admits again, whatever the owner does later.  *)
Admits(c, a) == row[a].access = "password" /\ CookieOk(jar[c][a], a, row[a].version)

RetiredCookiesStayRetired ==
  [][\A c \in Clients, a \in Assets :
       jar'[c][a] = jar[c][a] /\ ~Admits(c, a) /\ Admits(c, a)' => secret' # secret \/ revived']_vars
===============================================================================
