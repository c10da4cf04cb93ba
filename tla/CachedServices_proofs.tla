------------------------ MODULE CachedServices_proofs ------------------------
(***************************************************************************)
(* Theorems about MemoryCache, for any keys and any number of calls of     *)
(* Set, and about the services: for any handlers, lifetimes and failures   *)
(* they use the cache as MemoryCache says it is used.                      *)
(***************************************************************************)
EXTENDS CachedServices, TLAPS

-----------------------------------------------------------------------------
(* The cache. *)

\* A key that is set or deleted does not disturb the timer of another key: the
\* entries of two keys are data of different calls.
CacheInv == CacheTypeOK /\ EntryHasTimer

LEMMA InitCacheInv == CacheInit => CacheInv
BY CacheAssumption DEF CacheInit, CacheInv, CacheTypeOK, EntryHasTimer, Nothing

LEMMA NextCacheInv == CacheInv /\ [CacheNext]_cacheVars => CacheInv'
<1> SUFFICES ASSUME CacheInv, [CacheNext]_cacheVars
             PROVE  CacheInv'
    OBVIOUS
<1> USE CacheAssumption DEF CacheInv, CacheTypeOK, EntryHasTimer, Nothing
<1>1. ASSUME NEW k \in CacheKey, Set(k)
      PROVE  CacheInv'
    <2>1. Len(calls) \in Nat /\ DOMAIN calls = 1..Len(calls)
        OBVIOUS
    <2>2. /\ calls' \in Seq(CacheKey)
          /\ Len(calls') = Len(calls) + 1
          /\ DOMAIN calls' = 1..(Len(calls) + 1)
          /\ \A n \in 1..Len(calls): calls'[n] = calls[n]
          /\ calls'[Len(calls) + 1] = k
        BY <1>1 DEF Set
    <2>3. CacheTypeOK'
        BY <1>1, <2>1, <2>2 DEF Set, Restart, NextCall
    <2>4. ASSUME NEW j \in CacheKey, entry'[j] # Nothing
          PROVE  entry'[j] \in armed' \union fired' /\ calls'[entry'[j]] = j
        <3>1. CASE j = k
            BY <1>1, <2>1, <2>2, <3>1 DEF Set, Restart, NextCall
        <3>2. CASE j # k
            <4>1. entry'[j] = entry[j] /\ entry[j] \in 1..Len(calls)
                BY <1>1, <2>1, <2>4, <3>2 DEF Set
            <4>2. entry[j] # entry[k]
                BY <2>1, <3>2, <4>1
            <4>3. QED
                BY <1>1, <2>2, <4>1, <4>2 DEF Set, Restart
        <3>3. QED
            BY <3>1, <3>2
    <2>5. QED
        BY <2>3, <2>4
<1>2. ASSUME NEW n \in DOMAIN calls, Fire(n)
      PROVE  CacheInv'
    BY <1>2 DEF Fire
<1>3. ASSUME NEW n \in DOMAIN calls, DeleteKey(n)
      PROVE  CacheInv'
    <2>1. calls[n] \in CacheKey
        OBVIOUS
    <2>2. \A j \in CacheKey \ {calls[n]}: entry'[j] = entry[j] /\ entry[j] # n
        BY <1>3, <2>1 DEF DeleteKey
    <2>3. QED
        BY <1>3, <2>1, <2>2 DEF DeleteKey
<1>4. CASE UNCHANGED cacheVars
    BY <1>4 DEF cacheVars
<1>5. QED
    BY <1>1, <1>2, <1>3, <1>4 DEF CacheNext

LEMMA CacheInvHolds == CacheSpec => []CacheInv
BY InitCacheInv, NextCacheInv, PTL DEF CacheSpec

\* The variables keep their types.
THEOREM CacheTypeCorrect == CacheSpec => []CacheTypeOK
BY CacheInvHolds, PTL DEF CacheInv

\* Whatever is in the cache has a timer, or a callback about to run, that will
\* take it out, however the calls of Set and the timers of all keys interleave.
THEOREM NothingIsCachedForGood == CacheSpec => []EntryHasTimer
BY CacheInvHolds, PTL DEF CacheInv

-----------------------------------------------------------------------------
(* The services. *)

\* What a request stores its answer under is a key of the cache.
KindInv ==
    /\ served \in Services
    /\ DOMAIN request = Handler
    /\ \A h \in Handler: "kind" \in DOMAIN request[h] /\ request[h].kind \in Kind

LEMMA InitKindInv == Init => KindInv
BY DEF Init, KindInv, Idle, Kind, Keys

\* The services a behaviour may be about serve kinds of requests.
LEMMA ServedKinds == served \in Services => served \subseteq Kind
BY DEF Services, AssetKind, Kind, Keys

LEMMA KindIsKey == Kind \subseteq CacheKey
BY KeysAssumption DEF Kind

\* A handler that goes on or answers keeps or loses its request.
LEMMA NextKindInv == KindInv /\ [Next]_vars => KindInv'
<1> SUFFICES ASSUME KindInv, [Next]_vars
             PROVE  KindInv'
    OBVIOUS
<1>1. ASSUME NEW h \in Handler, Serve(h)
      PROVE  KindInv'
    <2>1. ASSUME NEW kind \in served, NEW minutes \in Minutes \union {0}, Begin(h, kind, minutes)
          PROVE  KindInv'
        BY <2>1, ServedKinds DEF KindInv, Begin, worldVars
    <2>2. CASE Look(h)
        BY <2>2 DEF KindInv, Look, Answer, GoTo, Idle, Kind, Keys, worldVars
    <2>3. CASE LookTotal(h)
        BY <2>3 DEF KindInv, LookTotal, TotalIs, Answer, GoTo, Idle, Kind, Keys, worldVars
    <2>4. CASE AskTotal(h)
        BY <2>4 DEF KindInv, AskTotal, TotalIs, Answer, Idle, Kind, Keys, worldVars
    <2>5. CASE StoreTotal(h)
        BY <2>5 DEF KindInv, StoreTotal, TotalIs, Answer, Idle, Kind, Keys, worldVars
    <2>6. CASE AskAnswered(h)
        BY <2>6 DEF KindInv, AskAnswered, Answer, Idle, Kind, Keys, worldVars
    <2>7. CASE AskFails(h)
        BY <2>7 DEF KindInv, AskFails, Answer, GoTo, Idle, Kind, Keys, worldVars
    <2>8. CASE LookBackup(h)
        BY <2>8 DEF KindInv, LookBackup, Answer, Idle, Kind, Keys, worldVars
    <2>9. CASE StoreAnswer(h)
        BY <2>9 DEF KindInv, StoreAnswer, Answer, GoTo, Idle, Kind, Keys, worldVars
    <2>10. CASE StoreBackup(h)
        BY <2>10 DEF KindInv, StoreBackup, Answer, Idle, Kind, Keys, worldVars
    <2>11. CASE StoreAssets(h) \/ ReadBack(h)
        BY <2>11 DEF KindInv, StoreAssets, ReadBack, Answer, GoTo, Idle, Kind, Keys, worldVars
    <2>12. QED
        BY <1>1, <2>1, <2>2, <2>3, <2>4, <2>5, <2>6, <2>7, <2>8, <2>9, <2>10, <2>11 DEF Serve
<1>2. ASSUME NEW n \in DOMAIN calls, Expire(n) \/ Delete(n)
      PROVE  KindInv'
    BY <1>2 DEF KindInv, Expire, Delete, worldVars
<1>3. CASE Tick \/ Execute \/ Sync
    BY <1>3 DEF KindInv, Tick, Execute, Sync
<1>4. CASE UNCHANGED vars
    BY <1>4 DEF KindInv, vars
<1>5. QED
    BY <1>1, <1>2, <1>3, <1>4 DEF Next

\* Every step of the services is a step of the cache or leaves it alone.
LEMMA NextIsCacheNext == KindInv /\ [Next]_vars => [CacheNext]_cacheVars
<1> SUFFICES ASSUME KindInv, [Next]_vars
             PROVE  [CacheNext]_cacheVars
    OBVIOUS
<1>1. ASSUME NEW k \in CacheKey, NEW value, NEW total, Store(k, value, total)
      PROVE  CacheNext
    BY <1>1 DEF Store, CacheNext
<1>2. {"total", "backup", "coin", "token"} \subseteq CacheKey
    BY KeysAssumption DEF Keys
<1>3. ASSUME NEW h \in Handler, Serve(h)
      PROVE  [CacheNext]_cacheVars
    <2>1. CASE StoreTotal(h)
        BY <1>1, <1>2, <2>1 DEF StoreTotal
    <2>2. CASE StoreAnswer(h)
        BY <1>1, <2>2, KindIsKey DEF StoreAnswer, KindInv
    <2>3. CASE StoreBackup(h)
        BY <1>1, <1>2, <2>3 DEF StoreBackup
    <2>4. CASE StoreAssets(h)
        BY <1>1, <1>2, <2>4 DEF StoreAssets
    <2>5. ASSUME NEW kind \in served, NEW minutes \in Minutes \union {0}, Begin(h, kind, minutes)
          PROVE  UNCHANGED cacheVars
        BY <2>5 DEF Begin
    <2>6. CASE Look(h) \/ LookTotal(h) \/ AskTotal(h) \/ AskAnswered(h) \/ AskFails(h)
          \/ LookBackup(h) \/ ReadBack(h)
        BY <2>6 DEF Look, LookTotal, AskTotal, AskAnswered, AskFails, LookBackup, ReadBack
    <2>7. QED
        BY <1>3, <2>1, <2>2, <2>3, <2>4, <2>5, <2>6 DEF Serve
<1>4. ASSUME NEW n \in DOMAIN calls, Expire(n) \/ Delete(n)
      PROVE  CacheNext
    BY <1>4 DEF Expire, Delete, CacheNext
<1>5. CASE Tick \/ Execute \/ Sync
    BY <1>5 DEF Tick, Execute, Sync
<1>6. CASE UNCHANGED vars
    BY <1>6 DEF vars
<1>7. QED
    BY <1>3, <1>4, <1>5, <1>6 DEF Next

\* The services use the cache as MemoryCache says: its specification is theirs.
THEOREM ServicesUseTheCache == Spec => CacheSpec
<1>1. Init => CacheInit
    BY DEF Init
<1>2. QED
    BY <1>1, InitKindInv, NextKindInv, NextIsCacheNext, PTL DEF Spec, CacheSpec

\* No service keeps an answer for good: whatever any of them has cached has a
\* timer, or a callback about to run, that takes it out.
THEOREM ServicesKeepNothingForGood == Spec => []EntryHasTimer
BY ServicesUseTheCache, NothingIsCachedForGood, PTL

-----------------------------------------------------------------------------
\* What the cache, the clock and the requests agree on, for the freshness and
\* the truth of what is answered.

\* The clock has begun, and nothing is dated in the future.
WorldFits ==
    /\ now >= 1
    /\ synced.executed <= trade /\ trade <= now
    /\ synced.executed <= synced.created /\ synced.created <= now

\* What was stored was news within the request that stored it: dated when it was
\* learnt, with a total that was cached before.  Health is dated by the chain or
\* the table, which have only gone on.
StoredFits(k, d) ==
    /\ d.value # 0
    /\ k \notin HealthKind => d.value + MaxRequest >= d.at
    /\ k = "circulating" /\ d.total # 0 => d.total + CacheTtl + 2 * MaxRequest >= d.at
    /\ k = "market" => d.value <= trade
    /\ k = "aggregator" => d.value <= synced.created

DataFits ==
    /\ \A n \in DOMAIN calls: calls[n] \in Keys /\ data[n].at <= now
          /\ StoredFits(calls[n], data[n])
    /\ \A m, n \in DOMAIN calls: m <= n => data[m].at <= data[n].at

\* No timer is late, and none is early.
TimersFit ==
    /\ \A n \in armed \union fired: Due(n) >= now
    /\ \A n \in fired: Due(n) <= now

\* The cache holds what was stored last, until that is due or an earlier timer
\* spoils it.
EntriesFit ==
    /\ \A k \in Keys: entry[k] # Nothing =>
          \A n \in DOMAIN calls: calls[n] = k => n <= entry[k]
    /\ \A n \in DOMAIN calls: Due(n) > now => entry[calls[n]] # Nothing \/ calls[n] \in spoiled

CacheFits == WorldFits /\ DataFits /\ TimersFit /\ EntriesFit

\* Every kind of request goes through the stages of its service.
StageFits(r) ==
    /\ r.stage \in {"lookTotal", "askTotal", "storeTotal"} => r.kind \in {"total", "circulating"}
    /\ r.stage \in {"look", "ask"} => r.kind # "total"
    /\ r.stage = "store" => r.kind \notin AssetKind \union {"total"}
    /\ r.stage \in {"storeBackup", "lookBackup"} => r.kind = "prices"
    /\ r.stage \in {"storeCoin", "storeToken", "readBack"} => r.kind \in AssetKind

\* A request knows of nothing that was not said since it began, but for a total
\* that was cached.
RequestFits(r) ==
    /\ StageFits(r)
    /\ r.began <= now /\ now <= r.began + MaxRequest
    /\ r.stage \in {"store", "storeBackup", "storeCoin", "storeToken"} =>
          r.value # 0 /\ (r.kind \notin HealthKind => r.began <= r.value)
    /\ r.stage = "storeTotal" => r.total # 0 /\ r.began <= r.total
    /\ r.total # 0 => r.total + CacheTtl + MaxRequest >= r.began

\* The health a request is about to store and to tell.
HealthFits(r) ==
    /\ r.kind = "market" => r.seen <= trade /\ r.value <= trade
    /\ r.kind = "aggregator" => r.seen <= synced.executed /\ r.value <= synced.created
    /\ r.kind \in HealthKind /\ r.stage = "store" =>
          /\ r.healthy => r.value + r.minutes > r.began
          /\ ~r.healthy => r.seen = 0 \/ r.seen + r.minutes <= now

\* Key k was stored since minute t.
StoredSince(k, t) == \E n \in DOMAIN calls: calls[n] = k /\ data[n].at >= t

\* The assets a request has stored so far.
AssetsFit(r) ==
    /\ r.stage = "storeToken" => StoredSince("coin", r.began)
    /\ r.stage = "readBack" => \A k \in AssetKind: StoredSince(k, r.began)

RequestsFit ==
    \A h \in Handler: request[h] # Idle =>
        RequestFits(request[h]) /\ HealthFits(request[h]) /\ AssetsFit(request[h])

\* No request takes as long as an asset stays in the cache.
RequestsAreShort == MaxRequest < RegistryTtl

RepliesFit ==
    /\ AnswersAreFresh
    /\ HealthIsTrue
    /\ NoPricesMeansNone
    /\ RequestsAreShort => AssetsAreFound

ServicesInv == TypeOK /\ CacheFits /\ RequestsFit /\ RepliesFit

-----------------------------------------------------------------------------
LEMMA Lifetimes ==
    /\ \A k: Ttl(k) \in Nat \ {0}
    /\ Ttl("prices") = PricesTtl /\ Ttl("backup") = BackupTtl
    /\ Ttl("total") = CacheTtl /\ Ttl("circulating") = CacheTtl /\ Ttl("articles") = CacheTtl
    /\ \A k \in AssetKind: Ttl(k) = RegistryTtl
    /\ \A k \in HealthKind: Ttl(k) = HealthTtl
BY ServicesAssumption DEF Ttl, AssetKind, HealthKind

LEMMA NumbersAre ==
    /\ Time \subseteq Nat
    /\ Minutes \union {0} \subseteq Nat
    /\ {MaxRequest, MaxFaults, Horizon} \subseteq Nat
    /\ {PricesTtl, BackupTtl, CacheTtl, HealthTtl, RegistryTtl} \subseteq Nat \ {0}
BY ServicesAssumption DEF Time

RequestType == [stage: Stage, kind: Kind, minutes: Minutes \union {0}, began: Time,
                value: Time, total: Time, healthy: BOOLEAN, seen: Time]
ReplyType == [kind: Kind, minutes: Minutes \union {0}, began: Time, at: Time,
              value: Time, total: Time, healthy: BOOLEAN, failed: BOOLEAN, seen: Time]
DataType == [value: Time, total: Time, at: Time]

LEMMA IdleTypes == Idle \in RequestType /\ NoReply \in ReplyType
BY ServicesAssumption DEF Idle, NoReply, RequestType, ReplyType, Stage, Kind, Keys, Time

LEMMA KindsAre ==
    /\ Kind \subseteq Keys /\ HealthKind \subseteq Kind /\ AssetKind \subseteq Kind
    /\ HealthKind \intersect AssetKind = {}
    /\ {"total", "circulating", "prices", "articles"} \intersect (HealthKind \union AssetKind) = {}
    /\ Kind = {"prices", "total", "circulating", "articles"} \union HealthKind \union AssetKind
BY DEF Kind, Keys, HealthKind, AssetKind

\* What a look into the cache finds.
LEMMA CachedData ==
    ASSUME TypeOK, CacheInv, CacheFits, NEW k \in Keys, Cached(k)
    PROVE  LET n == entry[k]
           IN  /\ n \in DOMAIN calls /\ calls[n] = k /\ data[n] \in DataType
               /\ StoredFits(k, data[n])
               /\ data[n].at <= now /\ now <= data[n].at + Ttl(k)
<1> DEFINE n == entry[k]
<1>1. k \in CacheKey
    BY KeysAssumption
<1>2. n \in armed \union fired /\ calls[n] = k
    BY <1>1 DEF CacheInv, EntryHasTimer, Cached
<1>3. n \in DOMAIN calls
    BY <1>2 DEF CacheInv, CacheTypeOK
<1>4. n \in 1..Len(data) /\ data \in Seq(DataType)
    BY <1>3 DEF TypeOK, CacheTypeOK, DataType
<1>5. data[n] \in DataType
    BY <1>4
<1>6. now <= data[n].at + Ttl(k)
    <2>1. Due(n) >= now
        BY <1>2 DEF CacheFits, TimersFit
    <2>2. QED
        BY <1>2, <2>1 DEF Due
<1>7. QED
    BY <1>2, <1>3, <1>5, <1>6 DEF CacheFits, DataFits

-----------------------------------------------------------------------------
\* The steps that leave the cache alone.
QuietStep == UNCHANGED <<cacheVars, data, spoiled>> /\ UNCHANGED worldVars

LEMMA QuietKeepsCache == CacheFits /\ QuietStep => CacheFits'
<1> SUFFICES ASSUME CacheFits, QuietStep
             PROVE  CacheFits'
    OBVIOUS
<1>1. UNCHANGED <<calls, entry, armed, fired, data, spoiled, served, now, trade, synced>>
    BY DEF QuietStep, cacheVars, worldVars
<1>2. WorldFits' /\ TimersFit' /\ EntriesFit'
    BY <1>1 DEF CacheFits, WorldFits, TimersFit, EntriesFit, Due
<1>3. DataFits'
    BY <1>1 DEF CacheFits, DataFits, StoredFits
<1>4. QED
    BY <1>2, <1>3 DEF CacheFits

\* What Store asks of what it is given.
StoreStep(k, value, total) ==
    /\ Store(k, value, total)
    /\ k \in Keys
    /\ StoredFits(k, [value |-> value, total |-> total, at |-> now])
    /\ UNCHANGED worldVars

\* Data and calls are appended to.
LEMMA StoreAppends ==
    ASSUME TypeOK, NEW k \in Keys, NEW value \in Time, NEW total \in Time, Store(k, value, total)
    PROVE  /\ DOMAIN calls' = DOMAIN calls \union {NextCall} /\ NextCall \notin DOMAIN calls
           /\ \A n \in DOMAIN calls: n < NextCall
           /\ NextCall \in Nat /\ DOMAIN calls \subseteq Nat
           /\ calls'[NextCall] = k /\ data'[NextCall] = [value |-> value, total |-> total, at |-> now]
           /\ \A n \in DOMAIN calls: calls'[n] = calls[n] /\ data'[n] = data[n]
           /\ data' \in Seq(DataType) /\ Len(data') = Len(calls')
           /\ spoiled' = spoiled \ {k}
           /\ entry'[k] = NextCall /\ \A j \in Keys: j # k => entry'[j] = entry[j]
           /\ armed' = (armed \ {entry[k]}) \union {NextCall} /\ fired' = fired
<1> DEFINE d == [value |-> value, total |-> total, at |-> now]
<1>1. d \in DataType
    BY DEF DataType, TypeOK
<1>2. /\ calls \in Seq(CacheKey) /\ data \in Seq(DataType) /\ Len(data) = Len(calls)
      /\ entry \in [CacheKey -> 0..Len(calls)]
    BY DEF TypeOK, CacheTypeOK, DataType
<1>3. /\ calls' = Append(calls, k) /\ data' = Append(data, d) /\ spoiled' = spoiled \ {k}
      /\ entry' = [entry EXCEPT ![k] = NextCall]
      /\ armed' = (armed \ {entry[k]}) \union {NextCall} /\ fired' = fired
    BY DEF Store, Set, Restart
<1> HIDE DEF d
<1>4. k \in CacheKey /\ Keys \subseteq CacheKey
    BY KeysAssumption
<1>5. /\ DOMAIN calls' = DOMAIN calls \union {NextCall} /\ NextCall \notin DOMAIN calls
      /\ NextCall \in Nat /\ DOMAIN calls \subseteq Nat
      /\ \A n \in DOMAIN calls: n < NextCall
    BY <1>2, <1>3, <1>4 DEF NextCall
<1>6. calls'[NextCall] = k /\ data'[NextCall] = d
    BY <1>1, <1>2, <1>3, <1>4 DEF NextCall
<1>7. \A n \in DOMAIN calls: calls'[n] = calls[n] /\ data'[n] = data[n]
    BY <1>1, <1>2, <1>3, <1>4 DEF NextCall
<1>8. data' \in Seq(DataType) /\ Len(data') = Len(calls')
    BY <1>1, <1>2, <1>3, <1>4
<1>9. entry'[k] = NextCall /\ \A j \in Keys: j # k => entry'[j] = entry[j]
    BY <1>2, <1>3, <1>4
<1>10. QED
    BY <1>3, <1>5, <1>6, <1>7, <1>8, <1>9 DEF d

LEMMA StoreKeepsCache ==
    ASSUME TypeOK, CacheInv, CacheFits, NEW k \in Keys, NEW value \in Time, NEW total \in Time,
           StoreStep(k, value, total)
    PROVE  CacheFits'
<1> DEFINE d == [value |-> value, total |-> total, at |-> now]
<1>1. PICK c \in Nat: c = NextCall
    BY StoreAppends DEF StoreStep
<1>2. /\ DOMAIN calls' = DOMAIN calls \union {c} /\ c \notin DOMAIN calls
      /\ \A n \in DOMAIN calls: n < c
      /\ DOMAIN calls \subseteq Nat
      /\ calls'[c] = k /\ data'[c] = d
      /\ \A n \in DOMAIN calls: calls'[n] = calls[n] /\ data'[n] = data[n]
      /\ spoiled' = spoiled \ {k}
      /\ entry'[k] = c /\ \A j \in Keys: j # k => entry'[j] = entry[j]
      /\ armed' = (armed \ {entry[k]}) \union {c} /\ fired' = fired
    BY <1>1, StoreAppends DEF StoreStep
<1>3. d.at = now /\ StoredFits(k, d)
    BY DEF StoreStep
<1> HIDE DEF d
<1>4. UNCHANGED <<served, now, trade, synced>>
    BY DEF StoreStep, worldVars
<1>5. c # Nothing
    BY <1>1 DEF NextCall, Nothing, TypeOK, CacheTypeOK
<1>6. now \in Nat /\ \A n \in DOMAIN calls: data[n].at \in Nat
    <2>1. now \in Nat
        BY NumbersAre DEF TypeOK
    <2>2. ASSUME NEW n \in DOMAIN calls
          PROVE  data[n].at \in Nat
        <3>1. n \in 1..Len(data) /\ data \in Seq(DataType)
            BY <2>2 DEF TypeOK, CacheTypeOK, DataType
        <3>2. data[n] \in DataType
            BY <3>1
        <3>3. QED
            BY <3>2, NumbersAre DEF DataType
    <2>3. QED
        BY <2>1, <2>2
<1>7. WorldFits'
    BY <1>4 DEF CacheFits, WorldFits
<1>8. DataFits'
    <2>1. ASSUME NEW n \in DOMAIN calls'
          PROVE  (calls[n] \in Keys /\ data[n].at <= now /\ StoredFits(calls[n], data[n]))'
        <3>1. \A j, e: StoredFits(j, e)' <=> StoredFits(j, e)
            BY <1>4 DEF StoredFits
        <3>2. CASE n = c
            BY <1>2, <1>3, <1>4, <1>6, <3>2 DEF StoredFits
        <3>3. CASE n \in DOMAIN calls
            BY <1>2, <1>4, <3>3 DEF CacheFits, DataFits, StoredFits
        <3>4. QED
            BY <1>2, <3>2, <3>3
    <2>2. ASSUME NEW m \in DOMAIN calls', NEW n \in DOMAIN calls', m <= n
          PROVE  data'[m].at <= data'[n].at
        <3>1. CASE n \in DOMAIN calls
            BY <1>2, <2>2, <3>1 DEF CacheFits, DataFits
        <3>2. CASE n = c /\ m \in DOMAIN calls
            BY <1>2, <1>3, <3>2 DEF CacheFits, DataFits
        <3>3. CASE n = c /\ m = c
            BY <1>2, <1>3, <1>6, <3>3
        <3>4. QED
            BY <1>2, <3>1, <3>2, <3>3
    <2>3. QED
        BY <2>1, <2>2 DEF DataFits
<1>9. armed \union fired \subseteq DOMAIN calls
    BY DEF CacheInv, CacheTypeOK
<1>10. \A n \in DOMAIN calls: Due(n)' = Due(n)
    BY <1>2 DEF Due
<1>11. Due(c)' > now
    <2>1. Due(c)' = now + Ttl(k)
        BY <1>2, <1>3 DEF Due
    <2>2. QED
        BY <1>6, <2>1, Lifetimes
<1>12. TimersFit'
    <2>1. now \in Nat /\ Due(c)' \in Nat
        BY <1>2, <1>3, <1>6, Lifetimes DEF Due
    <2>2. Due(c)' >= now
        BY <1>11, <2>1
    <2>3. QED
        BY <1>2, <1>4, <1>9, <1>10, <2>2 DEF CacheFits, TimersFit
<1>13. EntriesFit'
    <2>1. ASSUME NEW j \in Keys, entry'[j] # Nothing, NEW n \in DOMAIN calls', calls'[n] = j
          PROVE  n <= entry'[j]
        <3>1. CASE j = k
            BY <1>2, <2>1, <3>1
        <3>2. CASE j # k
            BY <1>2, <2>1, <3>2 DEF CacheFits, EntriesFit
        <3>3. QED
            BY <3>1, <3>2
    <2>2. ASSUME NEW n \in DOMAIN calls', Due(n)' > now'
          PROVE  entry'[calls'[n]] # Nothing \/ calls'[n] \in spoiled'
        <3>1. CASE calls'[n] = k
            BY <1>2, <1>5, <3>1
        <3>2. CASE calls'[n] # k
            <4>1. n \in DOMAIN calls /\ calls'[n] = calls[n] /\ calls[n] \in Keys
                BY <1>2, <3>2 DEF CacheFits, DataFits
            <4>2. Due(n) > now
                BY <1>4, <1>10, <2>2, <4>1
            <4>3. QED
                BY <1>2, <3>2, <4>1, <4>2 DEF CacheFits, EntriesFit
        <3>3. QED
            BY <3>1, <3>2
    <2>3. QED
        BY <2>1, <2>2 DEF EntriesFit
<1>14. QED
    BY <1>7, <1>8, <1>12, <1>13 DEF CacheFits

-----------------------------------------------------------------------------
\* What was stored stays stored.
Grown == \A n \in DOMAIN calls: n \in DOMAIN calls' /\ calls'[n] = calls[n] /\ data'[n] = data[n]

LEMMA StoredStays ==
    Grown => \A k, t: StoredSince(k, t) => StoredSince(k, t)'
BY DEF Grown, StoredSince

\* One handler goes on; its request fits, and those of the others still do.
LEMMA OneMoves ==
    ASSUME TypeOK, RequestsFit, Grown, UNCHANGED worldVars, NEW h \in Handler,
           NEW r \in RequestType,
           request' = [request EXCEPT ![h] = r],
           r # Idle => RequestFits(r) /\ HealthFits(r) /\ AssetsFit(r)'
    PROVE  request' \in [Handler -> RequestType] /\ RequestsFit'
<1>1. request \in [Handler -> RequestType]
    BY DEF TypeOK, RequestType
<1>2. request' \in [Handler -> RequestType] /\ request'[h] = r /\ \A g \in Handler: g # h
      => request'[g] = request[g]
    BY <1>1
<1>3. UNCHANGED <<now, trade, synced>>
    BY DEF worldVars
<1>4. \A q: /\ RequestFits(q)' <=> RequestFits(q)
            /\ HealthFits(q)' <=> HealthFits(q)
            /\ AssetsFit(q) => AssetsFit(q)'
    BY <1>3, StoredStays DEF RequestFits, StageFits, HealthFits, AssetsFit
<1>5. ASSUME NEW g \in Handler, (request[g] # Idle)'
      PROVE  (RequestFits(request[g]) /\ HealthFits(request[g]) /\ AssetsFit(request[g]))'
    <2>1. CASE g = h
        BY <1>2, <1>4, <1>5, <2>1 DEF RequestFits, StageFits, HealthFits, AssetsFit
    <2>2. CASE g # h
        BY <1>2, <1>4, <1>5, <2>2 DEF RequestsFit, RequestFits, StageFits, HealthFits, AssetsFit
    <2>3. QED
        BY <2>1, <2>2
<1>6. QED
    BY <1>2, <1>5 DEF RequestsFit

-----------------------------------------------------------------------------
LEMMA NothingAnswered == NoAnswer => reply' \in ReplyType /\ RepliesFit'
BY IdleTypes DEF NoAnswer, NoReply, RepliesFit, AnswersAreFresh, Fresh, HealthIsTrue,
   NoPricesMeansNone,
       AssetsAreFound, HealthKind, AssetKind

\* What an answer to r may be.
FreshAnswer(r, value, total, failed) ==
    /\ r.kind = "prices" /\ value # 0 =>
          value + MaxRequest + (IF failed THEN BackupTtl ELSE PricesTtl) >= r.began
    /\ r.kind \in {"total", "circulating", "articles"} /\ value # 0
          => value + CacheTtl + MaxRequest >= r.began
    /\ r.kind = "circulating" /\ total # 0 => total + 2 * (CacheTtl + MaxRequest) >= r.began
    /\ r.kind \in AssetKind /\ value # 0 => value + RegistryTtl + MaxRequest >= r.began

TrueAnswer(r, healthy, failed) ==
    /\ r.kind = "market" /\ healthy => trade + r.minutes > r.began
    /\ r.kind = "aggregator" /\ healthy => synced.created + r.minutes > r.began
    /\ r.kind \in HealthKind /\ ~healthy /\ ~failed => r.seen = 0 \/ r.seen + r.minutes <= now

FoundAnswer(r, value, failed) ==
    value = 0 =>
        /\ r.kind = "prices" /\ "backup" \notin spoiled =>
              \A n \in DOMAIN calls: calls[n] = "backup" => data[n].at + BackupTtl <= now
        /\ r.kind \in AssetKind /\ RequestsAreShort => failed \/ r.kind \in spoiled

LEMMA AnswerFits ==
    ASSUME TypeOK, NEW h \in Handler, NEW value \in Time, NEW total \in Time,
           NEW healthy \in BOOLEAN,
           NEW failed \in BOOLEAN, Answer(h, value, total, healthy, failed), UNCHANGED worldVars,
           UNCHANGED <<calls, data, spoiled>> \/ value # 0,
           FreshAnswer(request[h], value, total, failed), TrueAnswer(request[h], healthy, failed),
           FoundAnswer(request[h], value, failed)
    PROVE  reply' \in ReplyType /\ RepliesFit'
<1> DEFINE r == request[h]
<1>1. r \in RequestType
    BY DEF TypeOK, RequestType
<1>2. reply' = [kind |-> r.kind, minutes |-> r.minutes, began |-> r.began, at |-> now, value |-> value,
                total |-> total, healthy |-> healthy, failed |-> failed, seen |-> r.seen]
    BY DEF Answer
<1>3. FreshAnswer(r, value, total, failed) /\ TrueAnswer(r, healthy, failed)
      /\ FoundAnswer(r, value, failed)
    OBVIOUS
<1> HIDE DEF r
<1>4. now \in Time
    BY DEF TypeOK
<1>5. reply' \in ReplyType
    BY <1>1, <1>2, <1>4 DEF RequestType, ReplyType
<1>6. /\ reply'.kind = r.kind /\ reply'.minutes = r.minutes /\ reply'.began = r.began
            /\ reply'.at = now
      /\ reply'.value = value /\ reply'.total = total /\ reply'.healthy = healthy
            /\ reply'.failed = failed
      /\ reply'.seen = r.seen
    BY <1>2
<1>7. r.kind \in Kind /\ {r.minutes, r.began, r.seen, value, total, now} \subseteq Nat
    BY <1>1, <1>4, NumbersAre DEF RequestType
<1>8. UNCHANGED <<now, trade, synced>>
    BY DEF worldVars
<1>9. AnswersAreFresh'
    <2>1. CASE r.kind = "prices"
        BY <1>3, <1>6, <1>7, <2>1, NumbersAre DEF FreshAnswer, AnswersAreFresh, Fresh
    <2>2. CASE r.kind = "circulating"
        BY <1>3, <1>6, <1>7, <2>2, NumbersAre DEF FreshAnswer, AnswersAreFresh, Fresh
    <2>3. CASE r.kind \in {"total", "articles"}
        BY <1>3, <1>6, <1>7, <2>3, NumbersAre DEF FreshAnswer, AnswersAreFresh, Fresh
    <2>4. CASE r.kind \in AssetKind
        BY <1>3, <1>6, <1>7, <2>4, NumbersAre DEF FreshAnswer, AnswersAreFresh, Fresh, AssetKind
    <2>5. CASE r.kind \in HealthKind
        BY <1>6, <2>5 DEF AnswersAreFresh, HealthKind, AssetKind
    <2>6. QED
        BY <1>7, <2>1, <2>2, <2>3, <2>4, <2>5, KindsAre
<1>10. HealthIsTrue'
    BY <1>3, <1>6, <1>8 DEF TrueAnswer, HealthIsTrue, HealthKind
<1>11. NoPricesMeansNone'
    BY <1>3, <1>6, <1>8 DEF FoundAnswer, NoPricesMeansNone
<1>12. RequestsAreShort => AssetsAreFound'
    BY <1>3, <1>6 DEF FoundAnswer, AssetsAreFound
<1>13. QED
    BY <1>5, <1>9, <1>10, <1>11, <1>12 DEF RepliesFit, RequestsAreShort

\* A step of a handler that stores nothing.
LEMMA QuietServe ==
    ASSUME ServicesInv, CacheInv', QuietStep, NEW h \in Handler, NEW r \in RequestType,
           request' = [request EXCEPT ![h] = r], faults' \in 0..MaxFaults,
           r # Idle => RequestFits(r) /\ HealthFits(r) /\ AssetsFit(r),
           reply' \in ReplyType, RepliesFit'
    PROVE  ServicesInv'
<1>1. UNCHANGED <<calls, data, served, now, trade, synced, spoiled>>
    BY DEF QuietStep, cacheVars, worldVars
<1>2. CacheFits'
    BY QuietKeepsCache DEF ServicesInv
<1>3. Grown /\ AssetsFit(r)' = AssetsFit(r)
    BY <1>1 DEF Grown, AssetsFit, StoredSince
<1>4. request' \in [Handler -> RequestType] /\ RequestsFit'
    BY <1>3, OneMoves DEF ServicesInv, QuietStep
<1>5. TypeOK'
    BY <1>1, <1>4 DEF ServicesInv, TypeOK, CacheInv, RequestType, ReplyType
<1>6. QED
    BY <1>2, <1>4, <1>5 DEF ServicesInv

\* A step that stores an answer.
LEMMA StoreServe ==
    ASSUME ServicesInv, CacheInv, CacheInv', NEW k \in Keys, NEW value \in Time, NEW total \in Time,
           StoreStep(k, value, total), NEW h \in Handler, NEW r \in RequestType,
           request' = [request EXCEPT ![h] = r], faults' = faults,
           r # Idle => RequestFits(r) /\ HealthFits(r) /\ AssetsFit(r)',
           reply' \in ReplyType, RepliesFit'
    PROVE  ServicesInv'
<1>1. UNCHANGED <<served, now, trade, synced>>
    BY DEF StoreStep, worldVars
<1>2. CacheFits'
    BY StoreKeepsCache DEF ServicesInv
<1>3. Grown /\ data' \in Seq(DataType) /\ Len(data') = Len(calls') /\ spoiled' = spoiled \ {k}
    BY StoreAppends DEF Grown, StoreStep, ServicesInv
<1>4. request' \in [Handler -> RequestType] /\ RequestsFit'
    BY <1>3, OneMoves DEF ServicesInv, StoreStep
<1>5. TypeOK'
    BY <1>1, <1>3, <1>4 DEF ServicesInv, TypeOK, CacheInv, RequestType, ReplyType, DataType
<1>6. QED
    BY <1>2, <1>4, <1>5 DEF ServicesInv

-----------------------------------------------------------------------------
\* What is known of a handler at work.
LEMMA Busy ==
    ASSUME ServicesInv, NEW h \in Handler, request[h].stage # "idle"
    PROVE  /\ request[h] \in RequestType
           /\ RequestFits(request[h]) /\ HealthFits(request[h]) /\ AssetsFit(request[h])
<1>1. request[h] # Idle
    BY DEF Idle
<1>2. QED
    BY <1>1 DEF ServicesInv, TypeOK, RequestsFit, RequestType

LEMMA NumberTypes ==
    ASSUME NEW r \in RequestType
    PROVE  /\ {r.minutes, r.began, r.value, r.total, r.seen} \subseteq Nat
           /\ {r.began, r.value, r.total, r.seen} \subseteq Time
           /\ r.kind \in Kind /\ r.kind \in Keys /\ r.stage \in Stage /\ r.healthy \in BOOLEAN
BY NumbersAre, KindsAre DEF RequestType

LEMMA WorldTypes ==
    ASSUME ServicesInv
    PROVE  /\ {now, trade, synced.executed, synced.created} \subseteq Time
           /\ {now, trade, synced.executed, synced.created} \subseteq Nat
           /\ faults \in 0..MaxFaults
           /\ now >= 1 /\ now # 0 /\ 0 \in Time
           /\ WorldFits
BY NumbersAre, ServicesAssumption DEF ServicesInv, TypeOK, CacheFits, WorldFits, Time

LEMMA BeginKeepsInv ==
    ASSUME ServicesInv, CacheInv', NEW h \in Handler, NEW kind \in served,
           NEW minutes \in Minutes \union {0},
           Begin(h, kind, minutes)
    PROVE  ServicesInv'
<1> DEFINE r == [stage |-> IF kind = "total" THEN "lookTotal" ELSE "look",
                 kind |-> kind, minutes |-> minutes, began |-> now,
                 value |-> 0, total |-> 0, healthy |-> FALSE,
                 seen |-> CASE kind = "market" -> trade
                            [] kind = "aggregator" -> synced.executed
                            [] OTHER -> 0]
<1>1. request' = [request EXCEPT ![h] = r] /\ NoAnswer /\ QuietStep /\ faults' = faults
    BY DEF Begin, QuietStep
<1>2. kind \in Kind
    BY ServedKinds DEF ServicesInv, TypeOK
<1>3. r.seen \in Time
    BY WorldTypes
<1>4. r \in RequestType
    BY <1>2, <1>3, WorldTypes DEF RequestType, Stage
<1>5. RequestFits(r)
    <2>1. StageFits(r)
        BY <1>2 DEF StageFits
    <2>2. r.began <= now /\ now <= r.began + MaxRequest
        BY WorldTypes, NumbersAre
    <2>3. QED
        BY <2>1, <2>2 DEF RequestFits
<1>6. HealthFits(r)
    BY WorldTypes DEF HealthFits
<1>7. AssetsFit(r)
    BY DEF AssetsFit
<1>8. QED
    BY <1>1, <1>4, <1>5, <1>6, <1>7, NothingAnswered, QuietServe, WorldTypes

\* A handler gives its answer and is idle.
LEMMA QuietAnswer ==
    ASSUME ServicesInv, CacheInv', QuietStep, NEW h \in Handler, faults' \in 0..MaxFaults,
           NEW value \in Time, NEW total \in Time, NEW healthy \in BOOLEAN, NEW failed \in BOOLEAN,
           Answer(h, value, total, healthy, failed),
           FreshAnswer(request[h], value, total, failed), TrueAnswer(request[h], healthy, failed),
           FoundAnswer(request[h], value, failed)
    PROVE  ServicesInv'
<1>1. UNCHANGED <<calls, data, spoiled>> /\ UNCHANGED worldVars
    BY DEF QuietStep, cacheVars
<1>2. reply' \in ReplyType /\ RepliesFit'
    BY <1>1, AnswerFits DEF ServicesInv
<1>3. request' = [request EXCEPT ![h] = Idle]
    BY DEF Answer
<1>4. QED
    BY <1>2, <1>3, IdleTypes, QuietServe

LEMMA StoreAndAnswer ==
    ASSUME ServicesInv, CacheInv, CacheInv', NEW k \in Keys, NEW v \in Time, NEW t \in Time,
           StoreStep(k, v, t), NEW h \in Handler, faults' = faults,
           NEW value \in Time, NEW total \in Time, NEW healthy \in BOOLEAN, value # 0,
           Answer(h, value, total, healthy, FALSE),
           FreshAnswer(request[h], value, total, FALSE), TrueAnswer(request[h], healthy, FALSE)
    PROVE  ServicesInv'
<1>1. FoundAnswer(request[h], value, FALSE)
    BY DEF FoundAnswer
<1>2. reply' \in ReplyType /\ RepliesFit'
    BY <1>1, AnswerFits DEF ServicesInv, StoreStep
<1>3. request' = [request EXCEPT ![h] = Idle]
    BY DEF Answer
<1>4. QED
    BY <1>2, <1>3, IdleTypes, StoreServe

\* What is cached under the key of a request answers it.
LEMMA CachedAnswers ==
    ASSUME ServicesInv, CacheInv, NEW r \in RequestType, r.began <= now, NEW k \in Keys, Cached(k),
           k = r.kind \/ (k = "backup" /\ r.kind = "prices"), NEW failed \in BOOLEAN,
                 failed <=> k = "backup"
    PROVE  LET d == data[entry[k]]
           IN  /\ d \in DataType /\ d.value \in Time /\ d.total \in Time /\ d.value # 0
               /\ FreshAnswer(r, d.value, d.total, failed)
<1> DEFINE d == data[entry[k]]
<1>1. d \in DataType /\ StoredFits(k, d) /\ d.at <= now /\ now <= d.at + Ttl(k)
    BY CachedData DEF ServicesInv
<1> HIDE DEF d
<1>2. {d.at, d.value, d.total} \subseteq Nat /\ d.value \in Time /\ d.total \in Time
    BY <1>1, NumbersAre DEF DataType
<1>3. now \in Nat /\ r.began \in Nat
    BY WorldTypes, NumberTypes
<1>4. FreshAnswer(r, d.value, d.total, failed)
    <2>1. ASSUME r.kind = "prices", d.value # 0
          PROVE  d.value + MaxRequest + (IF failed THEN BackupTtl ELSE PricesTtl) >= r.began
        <3>1. d.value + MaxRequest >= d.at
            BY <1>1, <2>1 DEF StoredFits, HealthKind
        <3>2. CASE k = "prices"
            BY <1>1, <1>2, <1>3, <3>1, <3>2, Lifetimes, NumbersAre
        <3>3. CASE k = "backup"
            BY <1>1, <1>2, <1>3, <3>1, <3>3, Lifetimes, NumbersAre
        <3>4. QED
            BY <2>1, <3>2, <3>3
    <2>2. ASSUME r.kind \in {"total", "circulating", "articles"}, d.value # 0
          PROVE  d.value + CacheTtl + MaxRequest >= r.began
        <3>1. d.value + MaxRequest >= d.at
            BY <1>1, <2>2 DEF StoredFits, HealthKind
        <3>2. now <= d.at + CacheTtl
            BY <1>1, <2>2, Lifetimes
        <3>3. QED
            BY <1>2, <1>3, <3>1, <3>2, NumbersAre
    <2>3. ASSUME r.kind = "circulating", d.total # 0
          PROVE  d.total + 2 * (CacheTtl + MaxRequest) >= r.began
        <3>1. d.total + CacheTtl + 2 * MaxRequest >= d.at
            BY <1>1, <2>3 DEF StoredFits
        <3>2. now <= d.at + CacheTtl
            BY <1>1, <2>3, Lifetimes
        <3>3. QED
            BY <1>2, <1>3, <3>1, <3>2, NumbersAre
    <2>4. ASSUME r.kind \in AssetKind, d.value # 0
          PROVE  d.value + RegistryTtl + MaxRequest >= r.began
        <3>1. k \in AssetKind /\ k \notin HealthKind
            BY <2>4, KindsAre DEF AssetKind
        <3>2. d.value + MaxRequest >= d.at
            BY <1>1, <3>1 DEF StoredFits
        <3>3. now <= d.at + RegistryTtl
            BY <1>1, <3>1, Lifetimes
        <3>4. QED
            BY <1>2, <1>3, <3>2, <3>3, NumbersAre
    <2>5. QED
        BY <2>1, <2>2, <2>3, <2>4 DEF FreshAnswer
<1>5. QED
    BY <1>1, <1>2, <1>4 DEF d, StoredFits

-----------------------------------------------------------------------------
\* A request that goes on to look or to ask knows what it knew.
LEMMA GoesOn ==
    ASSUME NEW q \in RequestType, RequestFits(q), HealthFits(q),
           NEW stage \in {"lookTotal", "askTotal", "ask", "lookBackup"},
                 StageFits([q EXCEPT !.stage = stage])
    PROVE  LET r == [q EXCEPT !.stage = stage]
           IN  r \in RequestType /\ r # Idle /\ RequestFits(r) /\ HealthFits(r) /\ AssetsFit(r)
<1> DEFINE r == [q EXCEPT !.stage = stage]
<1>1. r \in RequestType
    BY DEF RequestType, Stage
<1>2. /\ r.stage = stage /\ r.kind = q.kind /\ r.minutes = q.minutes /\ r.began = q.began
            /\ r.value = q.value
      /\ r.total = q.total /\ r.healthy = q.healthy /\ r.seen = q.seen /\ StageFits(r)
    BY DEF RequestType
<1> HIDE DEF r
<1>3. r # Idle
    BY <1>2 DEF Idle
<1>4. RequestFits(r)
    BY <1>2 DEF RequestFits
<1>5. HealthFits(r)
    BY <1>2 DEF HealthFits
<1>6. AssetsFit(r)
    BY <1>2 DEF AssetsFit
<1>7. QED
    BY <1>1, <1>3, <1>4, <1>5, <1>6 DEF r

LEMMA LookKeepsInv == ASSUME ServicesInv, CacheInv, CacheInv', NEW h \in Handler,
      Look(h) PROVE ServicesInv'
<1> DEFINE q == request[h]
           n == entry[q.kind]
<1>1. q.stage = "look" /\ QuietStep /\ faults' = faults
    BY DEF Look, QuietStep
<1>2. q \in RequestType /\ RequestFits(q) /\ HealthFits(q)
    BY <1>1, Busy
<1>3. faults' \in 0..MaxFaults
    BY <1>1, WorldTypes
<1>4. ASSUME Cached(q.kind), Usable(q.kind, q.minutes, n),
             Answer(h, data[n].value, data[n].total, q.kind \in HealthKind, FALSE)
      PROVE  ServicesInv'
    <2>1. q.began <= now
        BY <1>2 DEF RequestFits
    <2>2. q.kind \in Keys /\ q.kind # "backup"
        BY <1>2, NumberTypes DEF Kind
    <2>3. /\ data[n].value \in Time /\ data[n].total \in Time /\ data[n].value # 0
          /\ FreshAnswer(q, data[n].value, data[n].total, FALSE)
        BY <1>2, <1>4, <2>1, <2>2, CachedAnswers
    <2>4. FoundAnswer(q, data[n].value, FALSE)
        BY <2>3 DEF FoundAnswer
    <2>5. TrueAnswer(q, q.kind \in HealthKind, FALSE)
        <3>1. StoredFits(q.kind, data[n])
            BY <1>4, <2>2, CachedData DEF ServicesInv
        <3>2. q.kind \in HealthKind => now < data[n].value + q.minutes
            BY <1>4 DEF Usable, Recent
        <3>3. {q.began, q.minutes, data[n].value, now, trade, synced.created} \subseteq Nat
            BY <1>2, <2>3, NumberTypes, NumbersAre, WorldTypes
        <3>4. q.kind = "market" => trade + q.minutes > q.began
            BY <2>1, <3>1, <3>2, <3>3 DEF StoredFits, HealthKind
        <3>5. q.kind = "aggregator" => synced.created + q.minutes > q.began
            BY <2>1, <3>1, <3>2, <3>3 DEF StoredFits, HealthKind
        <3>6. QED
            BY <3>4, <3>5 DEF TrueAnswer
    <2>6. (q.kind \in HealthKind) \in BOOLEAN
        OBVIOUS
    <2>7. QED
        BY <1>1, <1>3, <1>4, <2>3, <2>4, <2>5, <2>6, QuietAnswer
<1>5. ASSUME GoTo(h, IF q.kind = "circulating" THEN "lookTotal" ELSE "ask"), NoAnswer
      PROVE  ServicesInv'
    <2> DEFINE stage == IF q.kind = "circulating" THEN "lookTotal" ELSE "ask"
               r == [q EXCEPT !.stage = stage]
    <2>1. request' = [request EXCEPT ![h] = r]
        BY <1>5 DEF GoTo
    <2>2. StageFits(r)
        BY <1>1, <1>2 DEF StageFits, RequestFits, RequestType
    <2>3. stage \in {"lookTotal", "askTotal", "ask", "lookBackup"}
        OBVIOUS
    <2> HIDE DEF stage
    <2>4. r \in RequestType /\ RequestFits(r) /\ HealthFits(r) /\ AssetsFit(r)
        BY <1>2, <2>2, <2>3, GoesOn
    <2>5. QED
        BY <1>1, <1>3, <1>5, <2>1, <2>4, NothingAnswered, QuietServe
<1>6. QED
    BY <1>4, <1>5 DEF Look

\* A total is the answer, or is learnt for the circulating supply.
LEMMA TotalLearnt ==
    ASSUME ServicesInv, CacheInv', QuietStep, NEW h \in Handler, faults' \in 0..MaxFaults,
           request[h].stage \in {"lookTotal", "askTotal"}, NEW total \in Time,
                 NEW failed \in BOOLEAN,
           TotalIs(h, total, failed),
           total # 0 => total + CacheTtl + MaxRequest >= request[h].began
    PROVE  ServicesInv'
<1> DEFINE q == request[h]
<1>1. q \in RequestType /\ RequestFits(q) /\ HealthFits(q)
    BY Busy
<1>2. ASSUME q.kind = "total", Answer(h, total, 0, FALSE, failed)
      PROVE  ServicesInv'
    <2>1. FreshAnswer(q, total, 0, failed) /\ TrueAnswer(q, FALSE, failed)
          /\ FoundAnswer(q, total, failed)
        BY <1>2 DEF FreshAnswer, TrueAnswer, FoundAnswer, HealthKind, AssetKind
    <2>2. QED
        BY <1>2, <2>1, QuietAnswer, WorldTypes
<1>3. ASSUME q.kind = "circulating", request' = [request EXCEPT ![h].stage = "ask", ![h].total = total], NoAnswer
      PROVE  ServicesInv'
    <2> DEFINE r == [q EXCEPT !.stage = "ask", !.total = total]
    <2>1. request' = [request EXCEPT ![h] = r]
        BY <1>1, <1>3 DEF ServicesInv, TypeOK
    <2>2. r \in RequestType
        BY <1>1 DEF RequestType, Stage
    <2>3. /\ r.stage = "ask" /\ r.kind = "circulating" /\ r.began = q.began /\ r.total = total
        BY <1>1, <1>3 DEF RequestType
    <2> HIDE DEF r
    <2>4. RequestFits(r)
        BY <1>1, <2>3 DEF RequestFits, StageFits
    <2>5. HealthFits(r) /\ AssetsFit(r)
        BY <2>3 DEF HealthFits, AssetsFit, HealthKind
    <2>6. QED
        BY <1>3, <2>1, <2>2, <2>4, <2>5, NothingAnswered, QuietServe
<1>4. QED
    BY <1>2, <1>3 DEF TotalIs

LEMMA LookTotalKeepsInv == ASSUME ServicesInv, CacheInv, CacheInv', NEW h \in Handler,
      LookTotal(h) PROVE ServicesInv'
<1> DEFINE q == request[h]
           t == data[entry["total"]].value
<1>1. q.stage = "lookTotal" /\ QuietStep /\ faults' \in 0..MaxFaults
    BY WorldTypes DEF LookTotal, QuietStep
<1>2. q \in RequestType /\ RequestFits(q) /\ HealthFits(q)
    BY <1>1, Busy
<1>3. ASSUME Cached("total"), TotalIs(h, t, FALSE)
      PROVE  ServicesInv'
    <2> DEFINE d == data[entry["total"]]
    <2>1. d \in DataType /\ StoredFits("total", d) /\ now <= d.at + Ttl("total")
        BY <1>3, CachedData DEF ServicesInv, Keys
    <2> HIDE DEF d
    <2>2. d.value + MaxRequest >= d.at /\ now <= d.at + CacheTtl
        BY <2>1, Lifetimes DEF StoredFits, HealthKind
    <2>3. d.value \in Time /\ {d.value, d.at, now, q.began} \subseteq Nat
        BY <1>2, <2>1, NumberTypes, NumbersAre, WorldTypes DEF DataType
    <2>4. q.began <= now
        BY <1>2 DEF RequestFits
    <2>5. d.value + CacheTtl + MaxRequest >= q.began
        BY <2>2, <2>3, <2>4, NumbersAre
    <2>6. d.value = t
        BY DEF d
    <2>7. QED
        BY <1>1, <1>3, <2>3, <2>5, <2>6, TotalLearnt
<1>4. ASSUME GoTo(h, "askTotal"), NoAnswer
      PROVE  ServicesInv'
    <2> DEFINE r == [q EXCEPT !.stage = "askTotal"]
    <2>1. request' = [request EXCEPT ![h] = r]
        BY <1>4 DEF GoTo
    <2>2. StageFits(r)
        BY <1>1, <1>2 DEF StageFits, RequestFits, RequestType
    <2>3. r \in RequestType /\ RequestFits(r) /\ HealthFits(r) /\ AssetsFit(r)
        BY <1>2, <2>2, GoesOn
    <2>4. QED
        BY <1>1, <1>4, <2>1, <2>3, NothingAnswered, QuietServe
<1>5. QED
    BY <1>3, <1>4 DEF LookTotal

LEMMA AskTotalKeepsInv == ASSUME ServicesInv, CacheInv', NEW h \in Handler,
      AskTotal(h) PROVE ServicesInv'
<1> DEFINE q == request[h]
<1>1. q.stage = "askTotal" /\ QuietStep
    BY DEF AskTotal, QuietStep
<1>2. q \in RequestType /\ RequestFits(q) /\ HealthFits(q)
    BY <1>1, Busy
<1>3. ASSUME request' = [request EXCEPT ![h].stage = "storeTotal", ![h].total = now], NoAnswer,
             faults' = faults
      PROVE  ServicesInv'
    <2> DEFINE r == [q EXCEPT !.stage = "storeTotal", !.total = now]
    <2>1. request' = [request EXCEPT ![h] = r]
        BY <1>2, <1>3 DEF ServicesInv, TypeOK
    <2>2. r \in RequestType
        BY <1>2, WorldTypes DEF RequestType, Stage
    <2>3. r.stage = "storeTotal" /\ r.kind = q.kind /\ r.began = q.began /\ r.total = now
        BY <1>2 DEF RequestType
    <2> HIDE DEF r
    <2>4. q.kind \in {"total", "circulating"} /\ q.began <= now /\ now <= q.began + MaxRequest
        BY <1>1, <1>2 DEF RequestFits, StageFits
    <2>5. now + CacheTtl + MaxRequest >= q.began
        BY <1>2, <2>4, NumberTypes, NumbersAre, WorldTypes
    <2>6. RequestFits(r)
        BY <2>3, <2>4, <2>5, WorldTypes DEF RequestFits, StageFits
    <2>7. HealthFits(r) /\ AssetsFit(r)
        BY <2>3, <2>4 DEF HealthFits, AssetsFit, HealthKind
    <2>8. QED
        BY <1>1, <1>3, <2>1, <2>2, <2>6, <2>7, NothingAnswered, QuietServe, WorldTypes
<1>4. ASSUME faults < MaxFaults, faults' = faults + 1, TotalIs(h, 0, TRUE)
      PROVE  ServicesInv'
    <2>1. faults' \in 0..MaxFaults
        BY <1>4, WorldTypes, NumbersAre
    <2>2. QED
        BY <1>1, <1>4, <2>1, TotalLearnt, WorldTypes
<1>5. QED
    BY <1>3, <1>4 DEF AskTotal

\* A value learnt in this request is fit to be stored under its key.
LEMMA FitToStore ==
    ASSUME ServicesInv, NEW q \in RequestType, RequestFits(q), HealthFits(q), NEW value \in Time,
           NEW total \in Time,
           NEW k \in Keys, value # 0, k \in HealthKind => k = q.kind /\ value = q.value,
           k \notin HealthKind => value >= q.began,
           k = "circulating" => total = q.total
    PROVE  StoredFits(k, [value |-> value, total |-> total, at |-> now])
<1> DEFINE d == [value |-> value, total |-> total, at |-> now]
<1>1. d.value = value /\ d.total = total /\ d.at = now
    OBVIOUS
<1> HIDE DEF d
<1>2. {value, total, now, q.began, q.total, MaxRequest, CacheTtl} \subseteq Nat
    BY NumberTypes, NumbersAre, WorldTypes
<1>3. now <= q.began + MaxRequest
    BY DEF RequestFits
<1>4. k \notin HealthKind => d.value + MaxRequest >= d.at
    BY <1>1, <1>2, <1>3
<1>5. k = "circulating" /\ d.total # 0 => d.total + CacheTtl + 2 * MaxRequest >= d.at
    <2>1. q.total # 0 => q.total + CacheTtl + MaxRequest >= q.began
        BY DEF RequestFits
    <2>2. q.total # 0 => q.total + CacheTtl + 2 * MaxRequest >= now
        BY <1>2, <1>3, <2>1
    <2>3. QED
        BY <1>1, <2>2
<1>6. (k = "market" => d.value <= trade) /\ (k = "aggregator" => d.value <= synced.created)
    BY <1>1 DEF HealthFits, HealthKind
<1>7. StoredFits(k, d)
    BY <1>1, <1>4, <1>5, <1>6 DEF StoredFits
<1>8. QED
    BY <1>7 DEF d

LEMMA StoreTotalKeepsInv == ASSUME ServicesInv, CacheInv, CacheInv', NEW h \in Handler,
      StoreTotal(h) PROVE ServicesInv'
<1> DEFINE q == request[h]
<1>1. q.stage = "storeTotal" /\ faults' = faults /\ Store("total", q.total, 0)
      /\ TotalIs(h, q.total, FALSE)
      /\ UNCHANGED worldVars
    BY DEF StoreTotal
<1>2. q \in RequestType /\ RequestFits(q) /\ HealthFits(q)
    BY <1>1, Busy
<1>3. /\ q.total # 0 /\ q.began <= q.total /\ q.total + CacheTtl + MaxRequest >= q.began
      /\ q.total \in Time /\ {q.total, q.began} \subseteq Nat
    BY <1>1, <1>2, NumberTypes DEF RequestFits
<1>4. "total" \in Keys /\ "total" \notin HealthKind
    BY DEF Keys, HealthKind
<1>5. StoreStep("total", q.total, 0)
    <2>1. StoredFits("total", [value |-> q.total, total |-> 0, at |-> now])
        BY <1>2, <1>3, <1>4, FitToStore, WorldTypes
    <2>2. QED
        BY <1>1, <1>4, <2>1 DEF StoreStep
<1>6. ASSUME q.kind = "total", Answer(h, q.total, 0, FALSE, FALSE)
      PROVE  ServicesInv'
    <2>1. FreshAnswer(q, q.total, 0, FALSE) /\ TrueAnswer(q, FALSE, FALSE)
        BY <1>3, <1>6 DEF FreshAnswer, TrueAnswer, HealthKind, AssetKind
    <2>2. QED
        BY <1>1, <1>3, <1>4, <1>5, <1>6, <2>1, StoreAndAnswer, WorldTypes
<1>7. ASSUME q.kind = "circulating", request' = [request EXCEPT ![h].stage = "ask", ![h].total = q.total], NoAnswer
      PROVE  ServicesInv'
    <2>1. [q EXCEPT !.stage = "ask", !.total = q.total] \in RequestType
        BY <1>2 DEF RequestType, Stage
    <2>2. PICK r \in RequestType: r = [q EXCEPT !.stage = "ask", !.total = q.total]
        BY <2>1
    <2>3. /\ r.stage = "ask" /\ r.kind = "circulating" /\ r.began = q.began /\ r.total = q.total
          /\ request' = [request EXCEPT ![h] = r]
        BY <1>2, <1>7, <2>2 DEF RequestType, ServicesInv, TypeOK
    <2>4. RequestFits(r)
        BY <1>2, <2>3 DEF RequestFits, StageFits
    <2>5. HealthFits(r) /\ AssetsFit(r)'
        BY <2>3 DEF HealthFits, AssetsFit, HealthKind
    <2>6. QED
        BY <1>1, <1>3, <1>4, <1>5, <1>7, <2>3, <2>4, <2>5, NothingAnswered, StoreServe, WorldTypes
<1>8. QED
    BY <1>1, <1>6, <1>7 DEF TotalIs

LEMMA AskAnsweredKeepsInv == ASSUME ServicesInv, CacheInv', NEW h \in Handler,
      AskAnswered(h) PROVE ServicesInv'
<1> DEFINE q == request[h]
           found == IF now <= synced.executed + q.minutes THEN synced ELSE NoRow
           value == CASE q.kind = "market" -> trade
                      [] q.kind = "aggregator" -> found.created
                      [] OTHER -> now
           executed == IF q.kind = "market" THEN trade ELSE found.executed
<1>1. q.stage = "ask" /\ QuietStep /\ faults' \in 0..MaxFaults
    BY WorldTypes DEF AskAnswered, QuietStep
<1>2. q \in RequestType /\ RequestFits(q) /\ HealthFits(q) /\ q.kind # "total"
    BY <1>1, Busy DEF RequestFits, StageFits
<1>3. {found.created, found.executed} \subseteq Time /\ found.executed <= found.created
    BY WorldTypes DEF NoRow, WorldFits
<1>4. value \in Time /\ executed \in Time
    BY <1>3, WorldTypes
<1>5. /\ q.kind = "market" => value = trade /\ executed = trade
      /\ q.kind = "aggregator" => value = found.created /\ executed = found.executed
      /\ q.kind \notin HealthKind => value = now
    BY DEF HealthKind
<1>6. {q.seen, q.minutes, q.began, now, value, executed, trade, synced.executed, synced.created}
      \subseteq Nat
    BY <1>2, <1>4, NumberTypes, NumbersAre, WorldTypes
<1>7. q.kind = "aggregator" =>
          IF now <= synced.executed + q.minutes
          THEN value = synced.created /\ executed = synced.executed
          ELSE value = 0 /\ executed = 0
    BY <1>5 DEF NoRow
<1>8. /\ q.kind = "market" => q.seen <= trade
      /\ q.kind = "aggregator" => q.seen <= synced.executed
      /\ synced.executed <= synced.created
    BY <1>2, WorldTypes DEF HealthFits, WorldFits
<1>9. q.began <= now /\ now <= q.began + MaxRequest
    BY <1>2 DEF RequestFits
<1>10. \/ value = 0 /\ Answer(h, 0, 0, FALSE, FALSE)
       \/ /\ value # 0
          /\ request' = [request EXCEPT
                 ![h].stage = IF q.kind \in AssetKind THEN "storeCoin" ELSE "store",
                       ![h].value = value,
                 ![h].healthy = q.kind \in HealthKind /\ Recent(executed, q.minutes)]
          /\ NoAnswer
    BY DEF AskAnswered
<1> HIDE DEF found, value, executed
<1>11. ASSUME value = 0, Answer(h, 0, 0, FALSE, FALSE)
       PROVE  ServicesInv'
    <2>1. q.kind \in HealthKind
        BY <1>5, <1>11, WorldTypes
    <2>2. FreshAnswer(q, 0, 0, FALSE) /\ FoundAnswer(q, 0, FALSE)
        BY <2>1 DEF FreshAnswer, FoundAnswer, HealthKind, AssetKind
    <2>3. q.seen = 0 \/ q.seen + q.minutes <= now
        <3>1. CASE q.kind = "market"
            BY <1>5, <1>6, <1>8, <1>11, <3>1
        <3>2. CASE q.kind = "aggregator"
            BY <1>6, <1>7, <1>8, <1>11, <3>2
        <3>3. QED
            BY <2>1, <3>1, <3>2 DEF HealthKind
    <2>4. TrueAnswer(q, FALSE, FALSE)
        BY <2>3 DEF TrueAnswer
    <2>5. QED
        BY <1>1, <1>11, <2>2, <2>4, QuietAnswer, WorldTypes
<1>12. ASSUME value # 0, NoAnswer,
              request' = [request EXCEPT
                 ![h].stage = IF q.kind \in AssetKind THEN "storeCoin" ELSE "store",
                       ![h].value = value,
                 ![h].healthy = q.kind \in HealthKind /\ Recent(executed, q.minutes)]
       PROVE  ServicesInv'
    <2> DEFINE stage == IF q.kind \in AssetKind THEN "storeCoin" ELSE "store"
               healthy == q.kind \in HealthKind /\ Recent(executed, q.minutes)
               r == [q EXCEPT !.stage = stage, !.value = value, !.healthy = healthy]
    <2>1. request' = [request EXCEPT ![h] = r]
        BY <1>2, <1>12 DEF ServicesInv, TypeOK
    <2>2. healthy \in BOOLEAN /\ stage \in {"store", "storeCoin"}
        BY DEF Recent
    <2>3. stage = "store" => q.kind \notin AssetKind
        OBVIOUS
    <2>4. stage = "storeCoin" => q.kind \in AssetKind
        OBVIOUS
    <2>5. healthy => q.kind \in HealthKind /\ executed # 0 /\ now < executed + q.minutes
        BY DEF Recent
    <2>6. ~healthy /\ q.kind \in HealthKind => executed = 0 \/ ~(now < executed + q.minutes)
        BY DEF Recent
    <2> HIDE DEF stage, healthy
    <2>7. r \in RequestType
        BY <1>2, <1>4, <2>2 DEF RequestType, Stage
    <2>8. /\ r.stage = stage /\ r.kind = q.kind /\ r.minutes = q.minutes /\ r.began = q.began
                /\ r.value = value
          /\ r.total = q.total /\ r.healthy = healthy /\ r.seen = q.seen
        BY <1>2 DEF RequestType
    <2> HIDE DEF r
    <2>9. RequestFits(r)
        <3>1. StageFits(r)
            BY <1>2, <2>2, <2>3, <2>4, <2>8 DEF StageFits
        <3>2. r.kind \notin HealthKind => r.began <= r.value
            BY <1>5, <1>9, <2>8
        <3>3. QED
            BY <1>2, <1>12, <2>2, <2>8, <3>1, <3>2 DEF RequestFits
    <2>10. AssetsFit(r)
        BY <2>2, <2>8 DEF AssetsFit
    <2>11. HealthFits(r)
        <3>1. ASSUME q.kind = "market"
              PROVE  /\ q.seen <= trade /\ value <= trade
                     /\ healthy => value + q.minutes > q.began
                     /\ ~healthy => q.seen = 0 \/ q.seen + q.minutes <= now
            BY <1>5, <1>6, <1>8, <1>9, <2>5, <2>6, <3>1 DEF HealthKind
        <3>2. ASSUME q.kind = "aggregator"
              PROVE  /\ q.seen <= synced.executed /\ value <= synced.created
                     /\ healthy => value + q.minutes > q.began
                     /\ ~healthy => q.seen = 0 \/ q.seen + q.minutes <= now
            <4>1. value = synced.created /\ executed = synced.executed
                BY <1>7, <1>12, <3>2
            <4>2. q.kind \in HealthKind
                BY <3>2 DEF HealthKind
            <4>3. QED
                BY <1>6, <1>8, <1>9, <2>5, <2>6, <3>2, <4>1, <4>2
        <3>3. QED
            BY <2>8, <3>1, <3>2 DEF HealthFits, HealthKind
    <2>12. QED
        BY <1>1, <1>12, <2>1, <2>7, <2>9, <2>10, <2>11, NothingAnswered, QuietServe
<1>13. QED
    BY <1>10, <1>11, <1>12

LEMMA AskFailsKeepsInv == ASSUME ServicesInv, CacheInv', NEW h \in Handler,
      AskFails(h) PROVE ServicesInv'
<1> DEFINE q == request[h]
<1>1. q.stage = "ask" /\ QuietStep
    BY DEF AskFails, QuietStep
<1>2. q \in RequestType /\ RequestFits(q) /\ HealthFits(q)
    BY <1>1, Busy
<1>3. faults' \in 0..MaxFaults
    BY WorldTypes, NumbersAre DEF AskFails
<1>4. ASSUME q.kind = "prices", GoTo(h, "lookBackup"), NoAnswer
      PROVE  ServicesInv'
    <2> DEFINE r == [q EXCEPT !.stage = "lookBackup"]
    <2>1. request' = [request EXCEPT ![h] = r]
        BY <1>4 DEF GoTo
    <2>2. StageFits(r)
        BY <1>2, <1>4 DEF StageFits, RequestType
    <2>3. r \in RequestType /\ RequestFits(r) /\ HealthFits(r) /\ AssetsFit(r)
        BY <1>2, <2>2, GoesOn
    <2>4. QED
        BY <1>1, <1>3, <1>4, <2>1, <2>3, NothingAnswered, QuietServe
<1>5. ASSUME q.kind = "articles", request' = [request EXCEPT ![h].stage = "store", ![h].value = now], NoAnswer
      PROVE  ServicesInv'
    <2> DEFINE r == [q EXCEPT !.stage = "store", !.value = now]
    <2>1. request' = [request EXCEPT ![h] = r]
        BY <1>2, <1>5 DEF ServicesInv, TypeOK
    <2>2. r \in RequestType
        BY <1>2, WorldTypes DEF RequestType, Stage
    <2>3. r.stage = "store" /\ r.kind = "articles" /\ r.began = q.began /\ r.value = now
          /\ r.total = q.total
        BY <1>2, <1>5 DEF RequestType
    <2> HIDE DEF r
    <2>4. RequestFits(r)
        BY <1>2, <2>3, WorldTypes DEF RequestFits, StageFits, AssetKind
    <2>5. HealthFits(r) /\ AssetsFit(r)
        BY <2>3 DEF HealthFits, AssetsFit, HealthKind
    <2>6. QED
        BY <1>1, <1>3, <1>5, <2>1, <2>2, <2>4, <2>5, NothingAnswered, QuietServe
<1>6. ASSUME q.kind \notin {"prices", "articles"}, Answer(h, 0, 0, FALSE, TRUE)
      PROVE  ServicesInv'
    <2>1. FreshAnswer(q, 0, 0, TRUE) /\ TrueAnswer(q, FALSE, TRUE) /\ FoundAnswer(q, 0, TRUE)
        BY <1>6 DEF FreshAnswer, TrueAnswer, FoundAnswer
    <2>2. QED
        BY <1>1, <1>3, <1>6, <2>1, QuietAnswer, WorldTypes
<1>7. QED
    BY <1>4, <1>5, <1>6 DEF AskFails

LEMMA LookBackupKeepsInv == ASSUME ServicesInv, CacheInv, CacheInv', NEW h \in Handler,
      LookBackup(h) PROVE ServicesInv'
<1> DEFINE q == request[h]
           d == data[entry["backup"]]
<1>1. /\ q.stage = "lookBackup" /\ QuietStep /\ faults' \in 0..MaxFaults
      /\ Answer(h, IF Cached("backup") THEN d.value ELSE 0, 0, FALSE, TRUE)
    BY WorldTypes DEF LookBackup, QuietStep
<1>2. q \in RequestType /\ RequestFits(q) /\ HealthFits(q) /\ q.kind = "prices" /\ q.began <= now
    BY <1>1, Busy DEF RequestFits, StageFits
<1>3. TrueAnswer(q, FALSE, TRUE)
    BY <1>2 DEF TrueAnswer
<1>4. ASSUME Cached("backup")
      PROVE  ServicesInv'
    <2>1. d.value \in Time /\ d.value # 0 /\ FreshAnswer(q, d.value, d.total, TRUE)
        BY <1>2, <1>4, CachedAnswers DEF Keys
    <2>2. FreshAnswer(q, d.value, 0, TRUE) /\ FoundAnswer(q, d.value, TRUE)
        BY <1>2, <2>1 DEF FreshAnswer, FoundAnswer
    <2> HIDE DEF d
    <2>3. Answer(h, d.value, 0, FALSE, TRUE)
        BY <1>1, <1>4
    <2>4. QED
        BY <1>1, <1>3, <2>1, <2>2, <2>3, QuietAnswer, WorldTypes
<1>5. ASSUME ~Cached("backup")
      PROVE  ServicesInv'
    <2>1. FreshAnswer(q, 0, 0, TRUE)
        BY DEF FreshAnswer
    <2>2. ASSUME "backup" \notin spoiled, NEW n \in DOMAIN calls, calls[n] = "backup"
          PROVE  data[n].at + BackupTtl <= now
        <3>1. ~(Due(n) > now)
            BY <1>5, <2>2 DEF Cached, ServicesInv, CacheFits, EntriesFit
        <3>2. Due(n) = data[n].at + BackupTtl
            BY <2>2, Lifetimes DEF Due
        <3>3. n \in 1..Len(data) /\ data \in Seq(DataType)
            BY DEF ServicesInv, TypeOK, CacheTypeOK, DataType
        <3>4. data[n] \in DataType
            BY <3>3
        <3>5. data[n].at \in Nat
            BY <3>4, NumbersAre DEF DataType
        <3>6. QED
            BY <3>1, <3>2, <3>5, NumbersAre, WorldTypes
    <2>3. FoundAnswer(q, 0, TRUE)
        BY <2>2 DEF FoundAnswer
    <2>4. Answer(h, 0, 0, FALSE, TRUE)
        BY <1>1, <1>5
    <2>5. QED
        BY <1>1, <1>3, <2>1, <2>3, <2>4, QuietAnswer, WorldTypes
<1>6. QED
    BY <1>4, <1>5

\* What a request is about to store may be answered.
LEMMA StoredAnswers ==
    ASSUME ServicesInv, NEW q \in RequestType, RequestFits(q), HealthFits(q),
           q.stage \in {"store", "storeBackup"}, NEW total \in {q.total, 0}
    PROVE  FreshAnswer(q, q.value, total, FALSE)
          /\ (q.stage = "store" => TrueAnswer(q, q.healthy, FALSE))
<1>1. {q.value, q.total, q.began, q.minutes, q.seen, now, trade, synced.created} \subseteq Nat
    BY NumberTypes, WorldTypes
<1>2. q.kind \notin HealthKind => q.began <= q.value
    BY DEF RequestFits
<1>3. q.kind \in {"prices", "total", "circulating", "articles"} \union AssetKind
      => q.began <= q.value
    BY <1>2 DEF HealthKind, AssetKind
<1>4. total # 0 => total + 2 * (CacheTtl + MaxRequest) >= q.began
    <2>1. q.total # 0 => q.total + CacheTtl + MaxRequest >= q.began
        BY DEF RequestFits
    <2>2. QED
        BY <1>1, <2>1, NumbersAre
<1>5. FreshAnswer(q, q.value, total, FALSE)
    BY <1>1, <1>3, <1>4, NumbersAre DEF FreshAnswer
<1>6. ASSUME q.stage = "store"
      PROVE  TrueAnswer(q, q.healthy, FALSE)
    <2>1. q.kind = "market" /\ q.healthy => trade + q.minutes > q.began
        BY <1>1, <1>6 DEF HealthFits, HealthKind
    <2>2. q.kind = "aggregator" /\ q.healthy => synced.created + q.minutes > q.began
        BY <1>1, <1>6 DEF HealthFits, HealthKind
    <2>3. q.kind \in HealthKind /\ ~q.healthy => q.seen = 0 \/ q.seen + q.minutes <= now
        BY <1>6 DEF HealthFits
    <2>4. QED
        BY <2>1, <2>2, <2>3 DEF TrueAnswer
<1>7. QED
    BY <1>5, <1>6

LEMMA StoreAnswerKeepsInv == ASSUME ServicesInv, CacheInv, CacheInv', NEW h \in Handler,
      StoreAnswer(h) PROVE ServicesInv'
<1> DEFINE q == request[h]
<1>1. q.stage = "store" /\ faults' = faults /\ Store(q.kind, q.value, q.total)
      /\ UNCHANGED worldVars
    BY DEF StoreAnswer
<1>2. q \in RequestType /\ RequestFits(q) /\ HealthFits(q)
    BY <1>1, Busy
<1>3. q.value # 0 /\ (q.kind \notin HealthKind => q.began <= q.value)
    BY <1>1, <1>2 DEF RequestFits
<1>4. {q.value, q.total} \subseteq Time /\ {q.value, q.began} \subseteq Nat /\ q.kind \in Keys
      /\ q.healthy \in BOOLEAN
    BY <1>2, NumberTypes
<1>5. StoreStep(q.kind, q.value, q.total)
    <2>1. q.kind \notin HealthKind => q.value >= q.began
        BY <1>3, <1>4
    <2>2. StoredFits(q.kind, [value |-> q.value, total |-> q.total, at |-> now])
        BY <1>2, <1>3, <1>4, <2>1, FitToStore
    <2>3. QED
        BY <1>1, <1>4, <2>2 DEF StoreStep
<1>6. ASSUME q.kind = "prices", GoTo(h, "storeBackup"), NoAnswer
      PROVE  ServicesInv'
    <2>1. [q EXCEPT !.stage = "storeBackup"] \in RequestType
        BY <1>2 DEF RequestType, Stage
    <2>2. PICK r \in RequestType: r = [q EXCEPT !.stage = "storeBackup"]
        BY <2>1
    <2>3. /\ r.stage = "storeBackup" /\ r.kind = "prices" /\ r.began = q.began
                /\ r.value = q.value /\ r.total = q.total
          /\ request' = [request EXCEPT ![h] = r]
        BY <1>2, <1>6, <2>2 DEF RequestType, GoTo
    <2>4. RequestFits(r)
        BY <1>2, <1>3, <1>6, <2>3 DEF RequestFits, StageFits, HealthKind
    <2>5. HealthFits(r) /\ AssetsFit(r)'
        BY <2>3 DEF HealthFits, AssetsFit, HealthKind
    <2>6. QED
        BY <1>1, <1>4, <1>5, <1>6, <2>3, <2>4, <2>5, NothingAnswered, StoreServe
<1>7. ASSUME q.kind # "prices", Answer(h, q.value, q.total, q.healthy, FALSE)
      PROVE  ServicesInv'
    <2>1. FreshAnswer(q, q.value, q.total, FALSE) /\ TrueAnswer(q, q.healthy, FALSE)
        BY <1>1, <1>2, StoredAnswers
    <2>2. QED
        BY <1>1, <1>3, <1>4, <1>5, <1>7, <2>1, StoreAndAnswer
<1>8. QED
    BY <1>6, <1>7 DEF StoreAnswer

LEMMA StoreBackupKeepsInv == ASSUME ServicesInv, CacheInv, CacheInv', NEW h \in Handler,
      StoreBackup(h) PROVE ServicesInv'
<1> DEFINE q == request[h]
<1>1. /\ q.stage = "storeBackup" /\ faults' = faults /\ Store("backup", q.value, 0)
            /\ UNCHANGED worldVars
      /\ Answer(h, q.value, 0, FALSE, FALSE)
    BY DEF StoreBackup
<1>2. q \in RequestType /\ RequestFits(q) /\ HealthFits(q) /\ q.kind = "prices"
    BY <1>1, Busy DEF RequestFits, StageFits
<1>3. q.value # 0 /\ q.began <= q.value
    BY <1>1, <1>2 DEF RequestFits, HealthKind
<1>4. q.value \in Time /\ {q.value, q.began} \subseteq Nat /\ 0 \in Time
    BY <1>2, NumberTypes, WorldTypes
<1>5. "backup" \in Keys /\ "backup" \notin HealthKind
    BY DEF Keys, HealthKind
<1>6. StoreStep("backup", q.value, 0)
    <2>1. StoredFits("backup", [value |-> q.value, total |-> 0, at |-> now])
        BY <1>2, <1>3, <1>4, <1>5, FitToStore
    <2>2. QED
        BY <1>1, <1>5, <2>1 DEF StoreStep
<1>7. FreshAnswer(q, q.value, 0, FALSE) /\ TrueAnswer(q, FALSE, FALSE)
    BY <1>1, <1>2, StoredAnswers DEF TrueAnswer, HealthKind
<1>8. QED
    BY <1>1, <1>3, <1>4, <1>5, <1>6, <1>7, StoreAndAnswer

\* A key is stored now, and so since the request began.
LEMMA StoredNow ==
    ASSUME ServicesInv, NEW k \in Keys, NEW value \in Time, NEW total \in Time,
           Store(k, value, total), NEW t, t <= now
    PROVE  StoredSince(k, t)'
<1>1. PICK c: c = NextCall
    OBVIOUS
<1>2. /\ c \in DOMAIN calls' /\ calls'[c] = k
      /\ data'[c] = [value |-> value, total |-> total, at |-> now]
    BY <1>1, StoreAppends DEF ServicesInv
<1>3. data'[c].at >= t
    BY <1>2
<1>4. QED
    BY <1>2, <1>3 DEF StoredSince

LEMMA StoreAssetsKeepsInv == ASSUME ServicesInv, CacheInv, CacheInv', NEW h \in Handler,
      StoreAssets(h) PROVE ServicesInv'
<1> DEFINE q == request[h]
<1>1. faults' = faults /\ NoAnswer /\ UNCHANGED worldVars /\ q.stage \in {"storeCoin", "storeToken"}
    BY DEF StoreAssets
<1>2. q \in RequestType /\ RequestFits(q) /\ HealthFits(q) /\ AssetsFit(q)
    BY <1>1, Busy
<1>3. q.kind \in AssetKind /\ q.kind \notin HealthKind /\ q.value # 0 /\ q.began <= q.value
      /\ q.began <= now
    BY <1>1, <1>2, KindsAre DEF RequestFits, StageFits
<1>4. q.value \in Time /\ {q.value, q.began} \subseteq Nat /\ 0 \in Time
    BY <1>2, NumberTypes, WorldTypes
<1>5. AssetKind \subseteq Keys /\ "coin" \in AssetKind /\ "token" \in AssetKind
      /\ AssetKind = {"coin", "token"}
    BY DEF Keys, AssetKind
<1>6. PICK t: t = q.began
    OBVIOUS
<1>7. ASSUME NEW k \in AssetKind, Store(k, q.value, 0)
      PROVE  /\ StoreStep(k, q.value, 0) /\ StoredSince(k, t)'
             /\ \A j: StoredSince(j, t) => StoredSince(j, t)'
    <2>1. k \in Keys /\ k \notin HealthKind /\ k # "circulating"
        BY <1>5 DEF HealthKind, AssetKind
    <2>2. StoredFits(k, [value |-> q.value, total |-> 0, at |-> now])
        BY <1>2, <1>3, <1>4, <2>1, FitToStore
    <2>3. StoreStep(k, q.value, 0)
        BY <1>1, <1>7, <2>1, <2>2 DEF StoreStep
    <2>4. StoredSince(k, t)'
        BY <1>3, <1>4, <1>6, <1>7, <2>1, StoredNow
    <2>5. Grown
        BY <1>4, <1>7, <2>1, StoreAppends DEF Grown, ServicesInv
    <2>6. QED
        BY <2>3, <2>4, <2>5, StoredStays
\* The request goes on to another stage that knows as much.
<1>8. ASSUME NEW k \in AssetKind, Store(k, q.value, 0), NEW stage \in {"storeToken", "readBack"},
             GoTo(h, stage),
             stage = "storeToken" => StoredSince("coin", t)',
             stage = "readBack" => \A j \in AssetKind: StoredSince(j, t)'
      PROVE  ServicesInv'
    <2>1. [q EXCEPT !.stage = stage] \in RequestType
        BY <1>2 DEF RequestType, Stage
    <2>2. PICK r \in RequestType: r = [q EXCEPT !.stage = stage]
        BY <2>1
    <2>3. /\ r.stage = stage /\ r.kind = q.kind /\ r.began = t /\ r.value = q.value
                /\ r.total = q.total
          /\ request' = [request EXCEPT ![h] = r]
        BY <1>2, <1>6, <1>8, <2>2 DEF RequestType, GoTo
    <2>4. RequestFits(r)
        <3>1. StageFits(r)
            BY <1>3, <2>3 DEF StageFits
        <3>2. QED
            BY <1>2, <1>3, <1>6, <2>3, <3>1 DEF RequestFits
    <2>5. HealthFits(r)
        BY <1>3, <2>3 DEF HealthFits, HealthKind
    <2>6. AssetsFit(r)'
        BY <1>8, <2>3 DEF AssetsFit
    <2>7. StoreStep(k, q.value, 0) /\ k \in Keys
        BY <1>5, <1>7, <1>8
    <2>8. QED
        BY <1>1, <1>4, <2>3, <2>4, <2>5, <2>6, <2>7, NothingAnswered, StoreServe
<1>9. CASE q.stage = "storeCoin" /\ Store("coin", q.value, 0) /\ GoTo(h, "storeToken")
    BY <1>5, <1>7, <1>8, <1>9
<1>10. CASE q.stage = "storeToken" /\ Store("token", q.value, 0) /\ GoTo(h, "readBack")
    <2>1. StoredSince("coin", t)
        BY <1>2, <1>6, <1>10 DEF AssetsFit
    <2>2. StoredSince("coin", t)' /\ StoredSince("token", t)'
        BY <1>5, <1>7, <1>10, <2>1
    <2>3. QED
        BY <1>5, <1>8, <1>10, <2>2
<1>11. QED
    BY <1>9, <1>10 DEF StoreAssets

LEMMA ReadBackKeepsInv == ASSUME ServicesInv, CacheInv, CacheInv', NEW h \in Handler,
      ReadBack(h) PROVE ServicesInv'
<1> DEFINE q == request[h]
           d == data[entry[q.kind]]
<1>1. /\ q.stage = "readBack" /\ QuietStep /\ faults' \in 0..MaxFaults
      /\ Answer(h, IF Cached(q.kind) THEN d.value ELSE 0, 0, FALSE, FALSE)
    BY WorldTypes DEF ReadBack, QuietStep
<1>2. q \in RequestType /\ RequestFits(q) /\ AssetsFit(q) /\ q.kind \in AssetKind
      /\ q.kind \in Keys /\ q.kind # "backup"
    BY <1>1, Busy DEF RequestFits, StageFits, AssetKind, Keys
<1>3. q.began <= now /\ now <= q.began + MaxRequest
    BY <1>2 DEF RequestFits
<1>4. TrueAnswer(q, FALSE, FALSE)
    BY <1>2 DEF TrueAnswer, HealthKind, AssetKind
<1>5. ASSUME Cached(q.kind)
      PROVE  ServicesInv'
    <2>1. d.value \in Time /\ d.value # 0 /\ FreshAnswer(q, d.value, d.total, FALSE)
        BY <1>2, <1>3, <1>5, CachedAnswers
    <2>2. FreshAnswer(q, d.value, 0, FALSE) /\ FoundAnswer(q, d.value, FALSE)
        BY <1>2, <2>1 DEF FreshAnswer, FoundAnswer, AssetKind
    <2> HIDE DEF d
    <2>3. Answer(h, d.value, 0, FALSE, FALSE)
        BY <1>1, <1>5
    <2>4. QED
        BY <1>1, <1>4, <2>1, <2>2, <2>3, QuietAnswer, WorldTypes
<1>6. ASSUME ~Cached(q.kind)
      PROVE  ServicesInv'
    <2>1. FreshAnswer(q, 0, 0, FALSE)
        BY DEF FreshAnswer
    <2>2. ASSUME RequestsAreShort
          PROVE  q.kind \in spoiled
        <3>1. PICK n \in DOMAIN calls: calls[n] = q.kind /\ data[n].at >= q.began
            BY <1>1, <1>2 DEF AssetsFit, StoredSince
        <3>2. Due(n) = data[n].at + RegistryTtl
            BY <1>2, <3>1, Lifetimes DEF Due
        <3>3. n \in 1..Len(data) /\ data \in Seq(DataType)
            BY DEF ServicesInv, TypeOK, CacheTypeOK, DataType
        <3>4. data[n] \in DataType
            BY <3>3
        <3>5. {data[n].at, q.began, now} \subseteq Nat
            BY <1>2, <3>4, NumbersAre, NumberTypes, WorldTypes DEF DataType
        <3>6. Due(n) > now
            BY <1>3, <2>2, <3>1, <3>2, <3>5, NumbersAre DEF RequestsAreShort
        <3>7. QED
            BY <1>6, <3>1, <3>6 DEF Cached, ServicesInv, CacheFits, EntriesFit
    <2>3. FoundAnswer(q, 0, FALSE)
        BY <1>2, <2>2 DEF FoundAnswer, AssetKind
    <2>4. Answer(h, 0, 0, FALSE, FALSE)
        BY <1>1, <1>6
    <2>5. QED
        BY <1>1, <1>4, <2>1, <2>3, <2>4, QuietAnswer, WorldTypes
<1>7. QED
    BY <1>5, <1>6

-----------------------------------------------------------------------------
\* The steps of the timers, the clock and the world answer nothing and leave the
\* requests and what was stored alone.  The world only goes on.
LEMMA WorldStep ==
    ASSUME ServicesInv, CacheInv', CacheFits', NoAnswer, UNCHANGED <<calls, data, served,
           request, faults>>,
           spoiled' \subseteq Keys, now' \in Time, trade' \in Time,
                 synced' \in [executed: Time, created: Time],
           trade <= trade', synced.executed <= synced'.executed,
                 synced.created <= synced'.created, now <= now',
           \A h \in Handler: request[h] # Idle => now' <= request[h].began + MaxRequest
    PROVE  ServicesInv'
<1>1. TypeOK'
    <2>1. reply' \in ReplyType
        BY NothingAnswered
    <2>2. QED
        BY <2>1 DEF ServicesInv, TypeOK, CacheInv, ReplyType
<1>2. RepliesFit'
    BY NothingAnswered
<1>3. ASSUME NEW h \in Handler, request[h] # Idle
      PROVE  (RequestFits(request[h]) /\ HealthFits(request[h]) /\ AssetsFit(request[h]))'
    <2> DEFINE q == request[h]
    <2>1. q \in RequestType /\ RequestFits(q) /\ HealthFits(q) /\ AssetsFit(q)
        BY <1>3 DEF ServicesInv, TypeOK, RequestsFit, RequestType
    <2>2. q' = q /\ now' <= q.began + MaxRequest
        BY <1>3
    <2> HIDE DEF q
    <2>3. /\ {q.began, q.value, q.seen, q.minutes} \subseteq Nat
          /\ {now, now', trade, trade', synced.executed, synced'.executed, synced.created, synced'.created} \subseteq Nat
        BY <2>1, NumberTypes, WorldTypes, NumbersAre
    <2>4. q.began <= now'
        BY <2>1, <2>3 DEF RequestFits
    <2>5. RequestFits(q)'
        BY <2>1, <2>2, <2>4 DEF RequestFits, StageFits
    <2>6. HealthFits(q)'
        <3>1. q.kind = "market" => q.seen <= trade' /\ q.value <= trade'
            BY <2>1, <2>3 DEF HealthFits
        <3>2. q.kind = "aggregator" => q.seen <= synced'.executed /\ q.value <= synced'.created
            BY <2>1, <2>3 DEF HealthFits
        <3>3. q.seen + q.minutes <= now => q.seen + q.minutes <= now'
            BY <2>3
        <3>4. QED
            BY <2>1, <2>2, <3>1, <3>2, <3>3 DEF HealthFits
    <2>7. AssetsFit(q)'
        BY <2>1, <2>2 DEF AssetsFit, StoredSince
    <2>8. QED
        BY <2>5, <2>6, <2>7 DEF q
<1>4. RequestsFit'
    BY <1>3 DEF RequestsFit
<1>5. QED
    BY <1>1, <1>2, <1>4 DEF ServicesInv

\* Requests that are at work take no longer than they may.
LEMMA RequestsInTime == ServicesInv => \A h \in Handler: request[h] # Idle
      => now <= request[h].began + MaxRequest
BY DEF ServicesInv, RequestsFit, RequestFits

LEMMA NumbersGoOn == \A n \in Nat: n <= n
OBVIOUS

LEMMA ExpireKeepsInv == ASSUME ServicesInv, CacheInv', NEW n \in DOMAIN calls,
      Expire(n) PROVE ServicesInv'
<1>1. /\ Due(n) <= now /\ NoAnswer /\ n \in armed /\ armed' = armed \ {n} /\ fired' = fired
            \union {n}
      /\ UNCHANGED <<calls, entry, data, served, now, trade, synced, request, spoiled, faults>>
    BY DEF Expire, Fire, worldVars
<1>2. WorldFits' /\ DataFits' /\ EntriesFit'
    BY <1>1 DEF ServicesInv, CacheFits, WorldFits, DataFits, StoredFits, EntriesFit, Due
<1>3. TimersFit'
    BY <1>1 DEF ServicesInv, CacheFits, TimersFit, Due
<1>4. CacheFits'
    BY <1>2, <1>3 DEF CacheFits
<1>5. /\ spoiled' \subseteq Keys /\ now' \in Time /\ trade' \in Time
            /\ synced' \in [executed: Time, created: Time]
    BY <1>1 DEF ServicesInv, TypeOK
<1>6. trade <= trade' /\ synced.executed <= synced'.executed /\ synced.created <= synced'.created
      /\ now <= now'
    BY <1>1, NumbersGoOn, WorldTypes
<1>7. \A h \in Handler: request[h] # Idle => now' <= request[h].began + MaxRequest
    BY <1>1, RequestsInTime
<1>8. QED
    BY <1>1, <1>4, <1>5, <1>6, <1>7, WorldStep

LEMMA DeleteKeepsInv == ASSUME ServicesInv, CacheInv, CacheInv', NEW n \in DOMAIN calls,
      Delete(n) PROVE ServicesInv'
<1> DEFINE k == calls[n]
<1>1. /\ n \in fired /\ fired' = fired \ {n} /\ entry' = [entry EXCEPT ![k] = Nothing] /\ NoAnswer
      /\ spoiled' = IF entry[k] \in {n, Nothing} THEN spoiled ELSE spoiled \union {k}
      /\ UNCHANGED <<calls, armed, data, served, now, trade, synced, request, faults>>
    BY DEF Delete, DeleteKey, worldVars
<1>2. k \in Keys /\ k \in CacheKey
    BY KeysAssumption DEF ServicesInv, CacheFits, DataFits
<1>3. entry'[k] = Nothing /\ \A j \in Keys: j # k => entry'[j] = entry[j]
    BY <1>1, <1>2, KeysAssumption DEF CacheInv, CacheTypeOK
<1>4. WorldFits' /\ DataFits' /\ TimersFit'
    BY <1>1 DEF ServicesInv, CacheFits, WorldFits, DataFits, StoredFits, TimersFit, Due
<1>5. EntriesFit'
    <2>1. ASSUME NEW j \in Keys, entry'[j] # Nothing, NEW m \in DOMAIN calls, calls[m] = j
          PROVE  m <= entry'[j]
        BY <1>3, <2>1 DEF ServicesInv, CacheFits, EntriesFit
    <2>2. ASSUME NEW m \in DOMAIN calls, Due(m) > now
          PROVE  entry'[calls[m]] # Nothing \/ calls[m] \in spoiled'
        <3>1. calls[m] \in Keys /\ (entry[calls[m]] # Nothing \/ calls[m] \in spoiled)
            BY <2>2 DEF ServicesInv, CacheFits, EntriesFit, DataFits
        <3>2. CASE calls[m] # k
            BY <1>1, <1>3, <3>1, <3>2
        <3>3. CASE calls[m] = k /\ entry[k] = Nothing
            BY <1>1, <3>1, <3>3
        <3>4. CASE calls[m] = k /\ entry[k] = n
            <4>1. n # Nothing
                BY DEF ServicesInv, TypeOK, CacheTypeOK, Nothing
            <4>2. m <= n
                BY <1>2, <3>4, <4>1 DEF ServicesInv, CacheFits, EntriesFit
            <4>3. data[m].at <= data[n].at
                BY <4>2 DEF ServicesInv, CacheFits, DataFits
            <4>4. Due(n) <= now
                BY <1>1 DEF ServicesInv, CacheFits, TimersFit
            <4>5. n \in 1..Len(data) /\ m \in 1..Len(data) /\ data \in Seq(DataType)
                BY DEF ServicesInv, TypeOK, CacheTypeOK, DataType
            <4>6. data[n] \in DataType /\ data[m] \in DataType
                BY <4>5
            <4>7. {data[n].at, data[m].at, now} \subseteq Nat
                BY <4>6, NumbersAre, WorldTypes DEF DataType
            <4>8. Due(m) = data[m].at + Ttl(k) /\ Due(n) = data[n].at + Ttl(k) /\ Ttl(k) \in Nat
                BY <3>4, Lifetimes DEF Due
            <4>9. QED
                BY <2>2, <4>3, <4>4, <4>7, <4>8
        <3>5. CASE calls[m] = k /\ entry[k] \notin {n, Nothing}
            BY <1>1, <3>5
        <3>6. QED
            BY <3>2, <3>3, <3>4, <3>5
    <2>3. \A m: Due(m)' = Due(m)
        BY <1>1 DEF Due
    <2>4. QED
        BY <1>1, <2>1, <2>2, <2>3 DEF EntriesFit
<1>6. CacheFits'
    BY <1>4, <1>5 DEF CacheFits
<1>7. /\ spoiled' \subseteq Keys /\ now' \in Time /\ trade' \in Time
            /\ synced' \in [executed: Time, created: Time]
    BY <1>1, <1>2 DEF ServicesInv, TypeOK
<1>8. trade <= trade' /\ synced.executed <= synced'.executed /\ synced.created <= synced'.created
      /\ now <= now'
    BY <1>1, NumbersGoOn, WorldTypes
<1>9. \A h \in Handler: request[h] # Idle => now' <= request[h].began + MaxRequest
    BY <1>1, RequestsInTime
<1>10. QED
    BY <1>1, <1>6, <1>7, <1>8, <1>9, WorldStep

\* The dates of what was stored are numbers.
LEMMA DatesAre ==
    ASSUME ServicesInv, NEW n \in DOMAIN calls
    PROVE  {data[n].at, data[n].value, data[n].total, Due(n)} \subseteq Nat
<1>1. n \in 1..Len(data) /\ data \in Seq(DataType)
    BY DEF ServicesInv, TypeOK, CacheTypeOK, DataType
<1>2. data[n] \in DataType
    BY <1>1
<1>3. {data[n].at, data[n].value, data[n].total} \subseteq Nat
    BY <1>2, NumbersAre DEF DataType
<1>4. Ttl(calls[n]) \in Nat
    BY Lifetimes
<1>5. QED
    BY <1>3, <1>4 DEF Due

LEMMA TickKeepsInv == ASSUME ServicesInv, CacheInv, CacheInv', Tick PROVE ServicesInv'
<1>1. /\ now < Horizon /\ fired = {} /\ now' = now + 1 /\ NoAnswer
      /\ \A n \in armed: Due(n) > now
      /\ \A h \in Handler: request[h] # Idle => now < request[h].began + MaxRequest
      /\ UNCHANGED <<calls, entry, armed, fired, served, data, trade, synced, request, spoiled,
         faults>>
    BY DEF Tick, cacheVars
<1>2. now' \in Time /\ now \in Nat /\ now' \in Nat
    BY <1>1, WorldTypes, NumbersAre DEF Time
<1>3. \A n: Due(n)' = Due(n)
    BY <1>1 DEF Due
<1>4. WorldFits'
    BY <1>1, <1>2, WorldTypes DEF WorldFits
<1>5. DataFits'
    <2>1. ASSUME NEW n \in DOMAIN calls
          PROVE  data[n].at <= now'
        BY <1>1, <1>2, DatesAre DEF ServicesInv, CacheFits, DataFits
    <2>2. QED
        BY <1>1, <2>1 DEF ServicesInv, CacheFits, DataFits, StoredFits
<1>6. TimersFit'
    <2>1. ASSUME NEW n \in armed
          PROVE  Due(n) >= now'
        <3>1. n \in DOMAIN calls
            BY DEF CacheInv, CacheTypeOK
        <3>2. Due(n) \in Nat
            BY <3>1, DatesAre
        <3>3. QED
            BY <1>1, <1>2, <3>2
    <2>2. QED
        BY <1>1, <1>3, <2>1 DEF TimersFit
<1>7. EntriesFit'
    <2>1. ASSUME NEW n \in DOMAIN calls, Due(n) > now'
          PROVE  Due(n) > now
        BY <1>1, <1>2, <2>1, DatesAre
    <2>2. QED
        BY <1>1, <1>3, <2>1 DEF ServicesInv, CacheFits, EntriesFit
<1>8. CacheFits'
    BY <1>4, <1>5, <1>6, <1>7 DEF CacheFits
<1>9. spoiled' \subseteq Keys /\ trade' \in Time /\ synced' \in [executed: Time, created: Time]
    BY <1>1 DEF ServicesInv, TypeOK
<1>10. trade <= trade' /\ synced.executed <= synced'.executed
      /\ synced.created <= synced'.created /\ now <= now'
    BY <1>1, <1>2, NumbersGoOn, WorldTypes
<1>11. ASSUME NEW h \in Handler, request[h] # Idle
       PROVE  now' <= request[h].began + MaxRequest
    <2>1. request[h].began \in Nat
        BY NumberTypes DEF ServicesInv, TypeOK, RequestType
    <2>2. QED
        BY <1>1, <1>2, <1>11, <2>1, NumbersAre
<1>12. QED
    BY <1>1, <1>2, <1>8, <1>9, <1>10, <1>11, WorldStep

LEMMA ExecuteOrSyncKeepsInv == ASSUME ServicesInv, CacheInv', Execute \/ Sync PROVE ServicesInv'
<1>1. /\ NoAnswer
      /\ UNCHANGED <<calls, entry, armed, fired, served, now, data, request, spoiled, faults>>
    BY DEF Execute, Sync, cacheVars
<1>2. \/ trade < now /\ trade' = now /\ synced' = synced
      \/ trade # 0 /\ synced' = [executed |-> trade, created |-> now] /\ trade' = trade
    BY DEF Execute, Sync
<1>3. trade' \in Time /\ synced' \in [executed: Time, created: Time]
    BY <1>2 DEF ServicesInv, TypeOK
<1>4. {now, trade, trade', synced.executed, synced.created, synced'.executed, synced'.created}
      \subseteq Nat
    BY <1>3, WorldTypes, NumbersAre
<1>5. trade <= trade' /\ synced.executed <= synced'.executed /\ synced.created <= synced'.created
      /\ now <= now'
    BY <1>1, <1>2, <1>4, WorldTypes DEF WorldFits
<1>6. WorldFits'
    BY <1>1, <1>2, <1>4, WorldTypes DEF WorldFits
<1>7. DataFits'
    <2>1. ASSUME NEW n \in DOMAIN calls
          PROVE  StoredFits(calls[n], data[n])'
        <3>1. data[n].value \in Nat
            BY DatesAre
        <3>2. StoredFits(calls[n], data[n])
            BY DEF ServicesInv, CacheFits, DataFits
        <3>3. /\ data[n].value <= trade => data[n].value <= trade'
              /\ data[n].value <= synced.created => data[n].value <= synced'.created
            BY <1>4, <1>5, <3>1
        <3>4. QED
            BY <1>1, <3>2, <3>3 DEF StoredFits
    <2>2. QED
        BY <1>1, <2>1 DEF ServicesInv, CacheFits, DataFits
<1>8. TimersFit' /\ EntriesFit'
    BY <1>1 DEF ServicesInv, CacheFits, TimersFit, EntriesFit, Due
<1>9. CacheFits'
    BY <1>6, <1>7, <1>8 DEF CacheFits
<1>10. spoiled' \subseteq Keys /\ now' \in Time
    BY <1>1 DEF ServicesInv, TypeOK
<1>11. \A h \in Handler: request[h] # Idle => now' <= request[h].began + MaxRequest
    BY <1>1, RequestsInTime
<1>12. QED
    BY <1>1, <1>3, <1>5, <1>9, <1>10, <1>11, WorldStep

LEMMA InitServicesInv == Init /\ CacheInv => ServicesInv
<1> SUFFICES ASSUME Init, CacheInv
             PROVE  ServicesInv
    OBVIOUS
<1>1. DOMAIN calls = {} /\ armed = {} /\ fired = {} /\ \A k \in Keys: entry[k] = Nothing
    BY KeysAssumption DEF Init, CacheInit
<1>2. TypeOK
    <2>1. now \in Time /\ trade \in Time /\ synced \in [executed: Time, created: Time]
          /\ faults \in 0..MaxFaults
        BY ServicesAssumption DEF Init, Time, NoRow
    <2>2. data \in Seq([value: Time, total: Time, at: Time]) /\ Len(data) = Len(calls)
        BY DEF Init, CacheInit
    <2>3. QED
        BY <2>1, <2>2, IdleTypes DEF Init, TypeOK, CacheInv, RequestType, ReplyType
<1>3. CacheFits
    BY <1>1, ServicesAssumption DEF Init, CacheFits, WorldFits, DataFits, TimersFit, EntriesFit,
       NoRow
<1>4. RequestsFit
    BY DEF Init, RequestsFit
<1>5. RepliesFit
    BY DEF Init, NoReply, RepliesFit, AnswersAreFresh, Fresh, HealthIsTrue, NoPricesMeansNone,
       AssetsAreFound,
           HealthKind, AssetKind
<1>6. QED
    BY <1>2, <1>3, <1>4, <1>5 DEF ServicesInv

LEMMA NextServicesInv == ServicesInv /\ CacheInv /\ CacheInv' /\ [Next]_vars => ServicesInv'
<1> SUFFICES ASSUME ServicesInv, CacheInv, CacheInv', [Next]_vars
             PROVE  ServicesInv'
    OBVIOUS
<1>1. ASSUME NEW h \in Handler, Serve(h)
      PROVE  ServicesInv'
    <2>1. ASSUME NEW kind \in served, NEW minutes \in Minutes \union {0}, Begin(h, kind, minutes)
          PROVE  ServicesInv'
        BY <2>1, BeginKeepsInv
    <2>2. CASE Look(h) \/ LookTotal(h) \/ AskTotal(h) \/ StoreTotal(h)
        BY <2>2, LookKeepsInv, LookTotalKeepsInv, AskTotalKeepsInv, StoreTotalKeepsInv
    <2>3. CASE AskAnswered(h) \/ AskFails(h) \/ LookBackup(h) \/ StoreAnswer(h)
        BY <2>3, AskAnsweredKeepsInv, AskFailsKeepsInv, LookBackupKeepsInv, StoreAnswerKeepsInv
    <2>4. CASE StoreBackup(h) \/ StoreAssets(h) \/ ReadBack(h)
        BY <2>4, StoreBackupKeepsInv, StoreAssetsKeepsInv, ReadBackKeepsInv
    <2>5. QED
        BY <1>1, <2>1, <2>2, <2>3, <2>4 DEF Serve
<1>2. ASSUME NEW n \in DOMAIN calls, Expire(n) \/ Delete(n)
      PROVE  ServicesInv'
    BY <1>2, ExpireKeepsInv, DeleteKeepsInv
<1>3. CASE Tick \/ Execute \/ Sync
    BY <1>3, TickKeepsInv, ExecuteOrSyncKeepsInv
<1>4. CASE UNCHANGED vars
    <2>1. UNCHANGED <<calls, entry, armed, fired, served, now, data, trade, synced, request,
          reply, spoiled, faults>>
        BY <1>4 DEF vars, cacheVars
    <2>2. TypeOK'
        BY <2>1 DEF ServicesInv, TypeOK, CacheInv
    <2>3. CacheFits'
        BY <2>1, QuietKeepsCache DEF ServicesInv, QuietStep, cacheVars, worldVars
    <2>4. RequestsFit'
        BY <2>1 DEF ServicesInv, RequestsFit, RequestFits, StageFits, HealthFits, AssetsFit,
           StoredSince
    <2>5. RepliesFit'
        BY <2>1 DEF ServicesInv, RepliesFit, AnswersAreFresh, Fresh, HealthIsTrue,
           NoPricesMeansNone, AssetsAreFound,
               RequestsAreShort
    <2>6. QED
        BY <2>2, <2>3, <2>4, <2>5 DEF ServicesInv
<1>5. QED
    BY <1>1, <1>2, <1>3, <1>4 DEF Next

LEMMA ServicesInvHolds == Spec => []ServicesInv
<1>1. Spec => []CacheInv
    BY ServicesUseTheCache, CacheInvHolds, PTL
<1>2. Init /\ CacheInv => ServicesInv
    BY InitServicesInv
<1>3. QED
    BY <1>1, <1>2, NextServicesInv, PTL DEF Spec

-----------------------------------------------------------------------------
\* The variables of the services keep their types.
THEOREM ServicesTypeCorrect == Spec => []TypeOK
BY ServicesInvHolds, PTL DEF ServicesInv

\* What a service answers is no older than the lifetime of its entry and the
\* request that stored it, whatever requests and timers come in between.
THEOREM AnswersAreFreshTheorem == Spec => []AnswersAreFresh
BY ServicesInvHolds, PTL DEF ServicesInv, RepliesFit

\* A market or an aggregator is called healthy, or not, for a reason that holds
\* for the minutes that are asked for, cached or not.
THEOREM HealthIsTrueTheorem == Spec => []HealthIsTrue
BY ServicesInvHolds, PTL DEF ServicesInv, RepliesFit

\* While the provider fails there are prices as long as the backup lives, but
\* for a timer that Stop came too late for.
THEOREM NoPricesMeansNoneTheorem == Spec => []NoPricesMeansNone
BY ServicesInvHolds, PTL DEF ServicesInv, RepliesFit

\* An asset that was stored is found by the look that follows, if no request
\* takes as long as an asset stays in the cache.
THEOREM AssetsAreFoundTheorem == RequestsAreShort => (Spec => []AssetsAreFound)
<1> SUFFICES ASSUME RequestsAreShort
             PROVE  Spec => []AssetsAreFound
    OBVIOUS
<1>1. ServicesInv => AssetsAreFound
    BY DEF ServicesInv, RepliesFit
<1>2. QED
    BY <1>1, ServicesInvHolds, PTL
=============================================================================
