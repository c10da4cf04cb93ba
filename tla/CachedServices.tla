--------------------------- MODULE CachedServices ---------------------------
(***************************************************************************)
(* The services that answer from the in-memory cache: prices.go,           *)
(* supply.go, medium.go and health.go of app/service, and registry.go of   *)
(* data_provider, which the sync commands use as well.  Handlers run at    *)
(* the same time; each looks into the cache, asks a source if it finds     *)
(* nothing, and stores what it was told.  Nothing is locked between the    *)
(* look and the store.                                                     *)
(*                                                                         *)
(* What a source says at minute t is the number t, so that a value is its  *)
(* own date; 0 is "nothing".  No two services use the same key, those that *)
(* share a cache included (supply and registry), so a behaviour is about   *)
(* one service, chosen at the start, or about none of them.  Requests are  *)
(* about one known denomination and one market, and about two assets the   *)
(* registry lists, "coin" first.                                           *)
(***************************************************************************)
EXTENDS MemoryCache

CONSTANTS
    Handler,       \* request handlers, each answering one request at a time
    Minutes,       \* the windows a health request may ask for
    PricesTtl, BackupTtl, CacheTtl, HealthTtl, RegistryTtl,    \* lifetimes of entries
    MaxRequest,    \* bound: minutes a request takes
    TradeTimes,    \* bound: minutes at which a trade may be executed
    MaxFaults,     \* bound: questions a source fails to answer
    Horizon        \* bound: the last minute

ASSUME ServicesAssumption ==
    /\ Minutes \subseteq Nat \ {0}
    /\ {PricesTtl, BackupTtl, CacheTtl, HealthTtl, RegistryTtl} \subseteq Nat \ {0}
    /\ TradeTimes \subseteq Nat
    /\ {MaxRequest, MaxFaults} \subseteq Nat
    /\ Horizon \in Nat \ {0}

VARIABLES
    served,     \* the kinds of requests of the service this behaviour is about
    now,        \* the clock, in minutes
    data,       \* data[n]: what the n-th call of Set stored, and when
    trade,      \* the market's newest trade on the chain, 0 if there is none
    synced,     \* the newest row of market_history, as a sync has stored it
    request,    \* request[h]: the request handler h works on, or Idle
    reply,      \* the answer the last step gave, NoReply if it gave none
    spoiled,    \* keys whose entry was deleted by the timer of an earlier call
    faults

vars == <<cacheVars, served, now, data, trade, synced, request, reply, spoiled, faults>>

Keys == {"prices", "backup", "total", "circulating", "articles", "market", "aggregator", "coin", "token"}
Kind == Keys \ {"backup"}

ASSUME KeysAssumption == Keys \subseteq CacheKey

HealthKind == {"market", "aggregator"}
AssetKind == {"coin", "token"}

\* PricesService, Supply, Medium, ChainRegistry, and the two keys of Health,
\* whose requests have nothing in common.
Services == {{}, {"prices"}, {"total", "circulating"}, {"articles"}, AssetKind, {"market"}, {"aggregator"}}

Stage == {"idle", "look", "lookTotal", "askTotal", "storeTotal", "ask", "store", "storeBackup", "lookBackup",
          "storeCoin", "storeToken", "readBack"}

\* Mutant: the backup lives no longer than the prices.
ShortBackup(k) == CASE k \in {"prices", "backup"} -> PricesTtl
                    [] k \in HealthKind -> HealthTtl
                    [] k \in AssetKind -> RegistryTtl
                    [] OTHER -> CacheTtl

Ttl(k) == CASE k = "prices" -> PricesTtl
            [] k = "backup" -> BackupTtl
            [] k \in HealthKind -> HealthTtl
            [] k \in AssetKind -> RegistryTtl
            [] OTHER -> CacheTtl

\* value and total are what has been learnt so far: total is the total supply a
\* circulating supply is computed from.  seen is the newest trade a health
\* request could have been told of when it began.
Idle == [stage |-> "idle", kind |-> "prices", minutes |-> 0, began |-> 0,
         value |-> 0, total |-> 0, healthy |-> FALSE, seen |-> 0]

NoReply == [kind |-> "prices", minutes |-> 0, began |-> 0, at |-> 0,
            value |-> 0, total |-> 0, healthy |-> FALSE, failed |-> FALSE, seen |-> 0]

worldVars == <<served, now, trade, synced>>

NoAnswer == reply' = NoReply

GoTo(h, stage) == request' = [request EXCEPT ![h].stage = stage]

Answer(h, value, total, healthy, failed) ==
    LET r == request[h]
    IN  /\ reply' = [kind |-> r.kind, minutes |-> r.minutes, began |-> r.began, at |-> now, value |-> value,
                     total |-> total, healthy |-> healthy, failed |-> failed, seen |-> r.seen]
        /\ request' = [request EXCEPT ![h] = Idle]

\* minDateNeeded.Before(t): t lies within the minutes asked for.
Recent(t, minutes) == t # 0 /\ now < t + minutes

\* Mutant: whatever is cached is good enough.
AlwaysUsable(kind, minutes, n) == TRUE

\* A cached health answer counts only if it is healthy for the minutes that are
\* asked for now: getCachedMarketHealth, getCachedAggregatorHealth.
Usable(kind, minutes, n) == kind \in HealthKind => Recent(data[n].value, minutes)

\* cache.Get finds an entry.
Cached(k) == entry[k] # Nothing

\* cache.Set with the lifetime of k.
Store(k, value, total) ==
    /\ Set(k)
    /\ data' = Append(data, [value |-> value, total |-> total, at |-> now])
    /\ spoiled' = spoiled \ {k}

-----------------------------------------------------------------------------
NoRow == [executed |-> 0, created |-> 0]

\* A request comes in.
Begin(h, kind, minutes) ==
    /\ request[h] = Idle
    /\ kind \notin HealthKind => minutes = 0
    /\ kind \in HealthKind => minutes \in Minutes
    /\ request' = [request EXCEPT ![h] =
           [stage |-> IF kind = "total" THEN "lookTotal" ELSE "look",
            kind |-> kind, minutes |-> minutes, began |-> now,
            value |-> 0, total |-> 0, healthy |-> FALSE,
            seen |-> CASE kind = "market" -> trade
                       [] kind = "aggregator" -> synced.executed
                       [] OTHER -> 0]]
    /\ NoAnswer
    /\ UNCHANGED <<cacheVars, data, spoiled, faults>>
    /\ UNCHANGED worldVars

\* The first look into the cache of every service.
Look(h) ==
    LET r == request[h]
        n == entry[r.kind]
    IN  /\ r.stage = "look"
        /\ \/ /\ Cached(r.kind) /\ Usable(r.kind, r.minutes, n)
              /\ Answer(h, data[n].value, data[n].total, r.kind \in HealthKind, FALSE)
           \/ /\ ~(Cached(r.kind) /\ Usable(r.kind, r.minutes, n))
              /\ GoTo(h, IF r.kind = "circulating" THEN "lookTotal" ELSE "ask")
              /\ NoAnswer
        /\ UNCHANGED <<cacheVars, data, spoiled, faults>>
        /\ UNCHANGED worldVars

\* GetTotalSupply has the total: it is the answer, or what GetCirculatingSupply
\* goes on with, which takes the total's failure for a total of zero.
TotalIs(h, total, failed) ==
    \/ /\ request[h].kind = "total"
       /\ Answer(h, total, 0, FALSE, failed)
    \/ /\ request[h].kind = "circulating"
       /\ request' = [request EXCEPT ![h].stage = "ask", ![h].total = total]
       /\ NoAnswer

LookTotal(h) ==
    /\ request[h].stage = "lookTotal"
    /\ IF Cached("total")
       THEN TotalIs(h, data[entry["total"]].value, FALSE)
       ELSE GoTo(h, "askTotal") /\ NoAnswer
    /\ UNCHANGED <<cacheVars, data, spoiled, faults>>
    /\ UNCHANGED worldVars

AskTotal(h) ==
    /\ request[h].stage = "askTotal"
    /\ \/ /\ request' = [request EXCEPT ![h].stage = "storeTotal", ![h].total = now]
          /\ NoAnswer
          /\ UNCHANGED faults
       \/ /\ faults < MaxFaults
          /\ faults' = faults + 1
          /\ TotalIs(h, 0, TRUE)
    /\ UNCHANGED <<cacheVars, data, spoiled>>
    /\ UNCHANGED worldVars

StoreTotal(h) ==
    /\ request[h].stage = "storeTotal"
    /\ Store("total", request[h].total, 0)
    /\ TotalIs(h, request[h].total, FALSE)
    /\ UNCHANGED faults
    /\ UNCHANGED worldVars

\* The source answers.  The aggregator's health keeps the date on which the row
\* was stored, and is told of no row that was executed before its window.
\* Without a trade or a row there is nothing to store.
AskAnswered(h) ==
    LET r == request[h]
        found == IF now <= synced.executed + r.minutes THEN synced ELSE NoRow
        value == CASE r.kind = "market" -> trade
                   [] r.kind = "aggregator" -> found.created
                   [] OTHER -> now
        executed == IF r.kind = "market" THEN trade ELSE found.executed
    IN  /\ r.stage = "ask"
        /\ \/ /\ value = 0
              /\ Answer(h, 0, 0, FALSE, FALSE)
           \/ /\ value # 0
              /\ request' = [request EXCEPT
                     ![h].stage = IF r.kind \in AssetKind THEN "storeCoin" ELSE "store", ![h].value = value,
                     ![h].healthy = r.kind \in HealthKind /\ Recent(executed, r.minutes)]
              /\ NoAnswer
        /\ UNCHANGED <<cacheVars, data, spoiled, faults>>
        /\ UNCHANGED worldVars

\* The source fails.  Prices fall back on the backup; no articles are articles
\* to store, as good as any of this minute; the others answer that there is
\* nothing.
AskFails(h) ==
    LET r == request[h]
    IN  /\ r.stage = "ask"
        /\ faults < MaxFaults
        /\ faults' = faults + 1
        /\ CASE r.kind = "prices" -> GoTo(h, "lookBackup") /\ NoAnswer
             [] r.kind = "articles" ->
                    request' = [request EXCEPT ![h].stage = "store", ![h].value = now] /\ NoAnswer
             [] OTHER -> Answer(h, 0, 0, FALSE, TRUE)
        /\ UNCHANGED <<cacheVars, data, spoiled>>
        /\ UNCHANGED worldVars

LookBackup(h) ==
    /\ request[h].stage = "lookBackup"
    /\ Answer(h, IF Cached("backup") THEN data[entry["backup"]].value ELSE 0, 0, FALSE, TRUE)
    /\ UNCHANGED <<cacheVars, data, spoiled, faults>>
    /\ UNCHANGED worldVars

\* The answer is stored and given; prices are stored twice.
StoreAnswer(h) ==
    LET r == request[h]
    IN  /\ r.stage = "store"
        /\ Store(r.kind, r.value, r.total)
        /\ \/ /\ r.kind = "prices"
              /\ GoTo(h, "storeBackup")
              /\ NoAnswer
           \/ /\ r.kind # "prices"
              /\ Answer(h, r.value, r.total, r.healthy, FALSE)
        /\ UNCHANGED faults
        /\ UNCHANGED worldVars

StoreBackup(h) ==
    /\ request[h].stage = "storeBackup"
    /\ Store("backup", request[h].value, 0)
    /\ Answer(h, request[h].value, 0, FALSE, FALSE)
    /\ UNCHANGED faults
    /\ UNCHANGED worldVars

\* Mutant: the list is left when the first asset has been stored.
StoreFirst(h) ==
    /\ request[h].stage = "storeCoin"
    /\ Store("coin", request[h].value, 0)
    /\ GoTo(h, "readBack")
    /\ NoAnswer
    /\ UNCHANGED faults
    /\ UNCHANGED worldVars

\* GetAssetDetails stores every asset of the list, one call after the other.
StoreAssets(h) ==
    /\ \/ /\ request[h].stage = "storeCoin"
          /\ Store("coin", request[h].value, 0)
          /\ GoTo(h, "storeToken")
       \/ /\ request[h].stage = "storeToken"
          /\ Store("token", request[h].value, 0)
          /\ GoTo(h, "readBack")
    /\ NoAnswer
    /\ UNCHANGED faults
    /\ UNCHANGED worldVars

\* It answers with what the cache then holds, be it nothing.
ReadBack(h) ==
    LET k == request[h].kind
    IN  /\ request[h].stage = "readBack"
        /\ Answer(h, IF Cached(k) THEN data[entry[k]].value ELSE 0, 0, FALSE, FALSE)
        /\ UNCHANGED <<cacheVars, data, spoiled, faults>>
        /\ UNCHANGED worldVars

Serve(h) ==
    \/ \E kind \in served, minutes \in Minutes \union {0}: Begin(h, kind, minutes)
    \/ Look(h) \/ LookTotal(h) \/ AskTotal(h) \/ StoreTotal(h)
    \/ AskAnswered(h) \/ AskFails(h) \/ LookBackup(h) \/ StoreAnswer(h) \/ StoreBackup(h)
    \/ StoreAssets(h) \/ ReadBack(h)

-----------------------------------------------------------------------------
Due(n) == data[n].at + Ttl(calls[n])

\* A timer fires when it is due, and its callback runs within the minute.
Expire(n) ==
    /\ Due(n) <= now
    /\ Fire(n)
    /\ NoAnswer
    /\ UNCHANGED <<data, request, spoiled, faults>>
    /\ UNCHANGED worldVars

\* Stop came too late for the callback of an earlier call: it deletes the entry
\* of the latest one.
Delete(n) ==
    /\ DeleteKey(n)
    /\ spoiled' = IF entry[calls[n]] \in {n, Nothing} THEN spoiled ELSE spoiled \union {calls[n]}
    /\ NoAnswer
    /\ UNCHANGED <<data, request, faults>>
    /\ UNCHANGED worldVars

\* A minute passes: no timer is late and no request takes too long.
Tick ==
    /\ now < Horizon
    /\ \A n \in armed: Due(n) > now
    /\ fired = {}
    /\ \A h \in Handler: request[h] # Idle => now < request[h].began + MaxRequest
    /\ now' = now + 1
    /\ NoAnswer
    /\ UNCHANGED <<cacheVars, served, data, trade, synced, request, spoiled, faults>>

\* A trade is executed on the market; only the health service asks for it.
Execute ==
    /\ served \in {{"market"}, {"aggregator"}}
    /\ trade < now /\ now \in TradeTimes
    /\ trade' = now
    /\ NoAnswer
    /\ UNCHANGED <<cacheVars, served, now, data, synced, request, spoiled, faults>>

\* A sync stores the trades from the newest stored second on.  Those of this
\* second are deleted and inserted again, and dated anew.
Sync ==
    /\ trade # 0
    /\ synced' = [executed |-> trade, created |-> now]
    /\ NoAnswer
    /\ UNCHANGED <<cacheVars, served, now, data, trade, request, spoiled, faults>>

Init ==
    /\ CacheInit
    /\ served \in Services
    /\ now = 1
    /\ data = <<>>
    /\ trade = 0
    /\ synced = NoRow
    /\ request = [h \in Handler |-> Idle]
    /\ reply = NoReply
    /\ spoiled = {}
    /\ faults = 0

Next ==
    \/ \E h \in Handler: Serve(h)
    \/ \E n \in DOMAIN calls: Expire(n) \/ Delete(n)
    \/ Tick \/ Execute \/ Sync

Spec == Init /\ [][Next]_vars

-----------------------------------------------------------------------------
Time == 0..Horizon

TypeOK ==
    /\ CacheTypeOK
    /\ served \in Services
    /\ now \in Time
    /\ data \in Seq([value: Time, total: Time, at: Time])
    /\ Len(data) = Len(calls)
    /\ trade \in Time
    /\ synced \in [executed: Time, created: Time]
    /\ request \in [Handler -> [stage: Stage, kind: Kind, minutes: Minutes \union {0}, began: Time,
                                value: Time, total: Time, healthy: BOOLEAN, seen: Time]]
    /\ reply \in [kind: Kind, minutes: Minutes \union {0}, began: Time, at: Time,
                  value: Time, total: Time, healthy: BOOLEAN, failed: BOOLEAN, seen: Time]
    /\ spoiled \subseteq Keys
    /\ faults \in 0..MaxFaults

\* Within reach t of the minute a request began.
Fresh(t, reach) == t # 0 => t + reach >= reply.began

\* However requests, stores and timers interleave, what is answered is no older
\* than the lifetime of its entry and of the request that stored it: prices
\* older than that are given only if the source failed, and then the backup's.
\* A circulating supply may hold a total that was itself cached.  An empty
\* list of articles is as old as the failure it stands for.
AnswersAreFresh ==
    CASE reply.kind = "prices" ->
            Fresh(reply.value, MaxRequest + (IF reply.failed THEN BackupTtl ELSE PricesTtl))
      [] reply.kind = "circulating" ->
            /\ Fresh(reply.value, CacheTtl + MaxRequest)
            /\ Fresh(reply.total, 2 * (CacheTtl + MaxRequest))
      [] reply.kind \in {"total", "articles"} -> Fresh(reply.value, CacheTtl + MaxRequest)
      [] reply.kind \in AssetKind -> Fresh(reply.value, RegistryTtl + MaxRequest)
      [] OTHER -> TRUE

\* A cached health is judged by the minutes that are asked for now, not by
\* those it was stored for: a healthy market has had a trade in the window; for
\* a healthy aggregator a sync has stored a trade in the window, which may have
\* been executed before it; called unhealthy by a source that answers, they had
\* no trade of the window when the request began.
HealthIsTrue ==
    reply.kind \in HealthKind =>
        LET newest == IF reply.kind = "market" THEN trade ELSE synced.created
        IN  /\ reply.healthy => newest + reply.minutes > reply.began
            /\ ~reply.healthy /\ ~reply.failed => reply.seen = 0 \/ reply.seen + reply.minutes <= reply.at

\* The prices' provider failing, the answer is empty only if no prices have
\* been kept for the backup's lifetime, or if Stop was too late for the timer
\* of an earlier call.
NoPricesMeansNone ==
    reply # NoReply /\ reply.kind = "prices" /\ reply.value = 0 /\ "backup" \notin spoiled =>
        \A n \in DOMAIN calls: calls[n] = "backup" => data[n].at + BackupTtl <= now

\* An asset of the registry's list is found, whichever of the assets is asked
\* for and whatever other requests store and timers delete between the store
\* and the look that follows it, unless the registry did not answer or Stop was
\* too late for the timer of an earlier call.
AssetsAreFound ==
    reply.kind \in AssetKind /\ reply.value = 0 => reply.failed \/ reply.kind \in spoiled
=============================================================================
