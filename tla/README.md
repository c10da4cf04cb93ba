# A verification of bze-aggregator-api in TLA+

`bze-agg` copies what happens on the exchange of the BeeZee chain (module
`tradebin`) into MySQL and answers HTTP requests from there. It runs as two
kinds of operating system processes:

* **sync processes** (`bze-agg sync listener | history | orders | intervals |
  markets`). The listener syncs every market once, subscribes to the chain's
  events and starts a goroutine for each; the other commands do one kind of
  sync and end. They exclude each other with mutexes that live in one
  process's memory, so a command beside the listener is not excluded.
* **the HTTP process**, which answers from the tables the sync processes write
  and, for prices, supply, articles and health, from an in-memory cache in
  front of other services.

Paths below are relative to the repository; modules are in this directory.

## Inventory

| part | state | operations | what is hard | what makes it correct |
|---|---|---|---|---|
| history sync (`app/service/sync/history.go`, `repository/market_history.go`) | table `market_history`, a lock per market | `SyncHistory`: newest stored order, pages newest first, one delete-and-insert transaction per page | a failure between two pages, trades that share a second, two goroutines, two processes | no trade twice, none lost, no hole below the newest one, a successful call is complete |
| interval sync (`sync/interval.go`, `repository/market_history_interval.go`) | `market_history_interval`, the column `i_added_to_interval` | `SyncIntervals`: oldest unmarked trade, recompute from its day on, save in batches, mark in goroutines | the history sync replaces the rows meanwhile, half-failed batches, the limit on the rows read | a marked trade is in its intervals, intervals never shrink |
| interval aggregation (`interval/interval.go`) | one interval's figures | `AddOrder` | ties, the first trade, zero averages | figures are those of the trades |
| order sync (`sync/order.go`, `repository/market_order.go`) | `market_order` | `SyncMarket`: read buys, read sells, replace | sides read at different heights, late syncs, an empty book | each side is a register that only moves forward |
| order book answers (`dex/orders.go`, `dex/tickers.go`) | none of its own | two queries while the table is replaced | a sync between the queries | each side answered is the top of a whole side |
| history answers (`dex/history.go`, `repository/market_history.go`) | none of its own | one query: market, span of time, limit | rows replaced between two pages of a client, seconds that come on two pages, the name of the market | nothing that was stored is missed, the market asked for is the one answered |
| in-memory locker (`lock/in_memory.go`) | a map of mutexes | `Lock`, `Unlock`: look up, then lock or unlock | creation races, unlocking the wrong mutex | a lock per key, no fatal unlock |
| listener (`cmd/handlers/listener.go`, `listener/ws.go`) | the map of markets, subscriptions | initial sync, one handler per event | nested locks, unlocked reads of the map, events in any order, lost events | handled means synced, the process catches up, nobody waits for good |
| market sync (`sync/market.go`, `repository/market.go`) | `market` | `SyncMarkets`: list, date, ask for the first trade, save over the row | two handlers at once, the date given to a market | it is dated before its first trade, which can be shown |
| gRPC client (`client/grpc.go`) | one connection under a lock | `getConnection` | taken inside other locks | no deadlock |
| interval and ticker answers (`dex/intervals.go`, `dex/tickers.go`) | none | filling the series, adding up a day | boundaries of time, two looks at the clock with a query between them, rows of one second in any order | whole series, right windows |
| memory cache (`memory_cache.go`) | entries with timers | `Get`, `Set`, the timers' callbacks | `Stop` comes too late for a fired timer | nothing is kept for good |
| cached services (`prices.go`, `supply.go`, `medium.go`, `health.go`) | the cache | look, ask, store | two requests at once, failing sources, entries read under other parameters | answers are fresh, health is true |
| chain registry (`data_provider/registry.go`) | the cache | look, ask, store the whole list, look again | a timer between the store and the look | a listed asset is found |
| gathered answers (`dex/tickers.go`, `GetNodesHealth` of `health.go`, `health/balances_health.go`) | none that survives the request | a goroutine per market, node or address | error variables all goroutines assign, levels that change while they are asked for | failures of all are told, the verdict was true at some time |
| conversions, HTTP clients, other handlers of the controllers, entities, factories | none | conversions, I/O, wiring | little but arithmetic and I/O | not modelled, see the end |

Interactions: the listener calls the four syncs; the interval sync reads what
the history sync writes; all take the locker's locks and ask the chain through
the gRPC client; the HTTP process shares only the tables with them.

## Modules

| module | models | extends / uses |
|---|---|---|
| `TradeArchive` | abstract: the archive of trades the history sync promises | |
| `HistorySync` | history sync of one market | implements `TradeArchive` |
| `HistoryAnswers` | clients that read the history while syncs replace its rows | extends `HistorySync` |
| `HistorySync_proofs` | theorems about the history sync and its readers | extends `HistoryAnswers` |
| `IntervalSync`, `IntervalSync_proofs` | interval sync of one market, with the history sync's transactions beside it; its theorems | |
| `OrderTable` | abstract: the table of orders the order sync promises, a register per side | |
| `OrderSync` | order sync of one market | implements `OrderTable` |
| `OrderBook` | requests that read the book while it is replaced | extends `OrderSync` |
| `OrderSync_proofs` | that the order sync implements `OrderTable`, and what requests are answered | extends `OrderBook` |
| `KeyLocks` | abstract: a lock per key | |
| `InMemoryLocker`, `InMemoryLocker_proofs` | the locker; its theorems | implements `KeyLocks` |
| `Listener` | the listener's process: initial sync, subscriptions, handlers, every lock they take, how markets are dated | extends `InMemoryLocker` |
| `Listener_proofs` | its theorems | extends `InMemoryLocker_proofs` |
| `IntervalAggregate` | `AddOrder` as operators | |
| `MarketView`, `MarketView_proofs` | intervals and tickers as they are answered, over every history; its theorems | extends `IntervalAggregate` |
| `MemoryCache` | the cache and its timers | |
| `CachedServices`, `CachedServices_proofs` | the services in front of the cache, the chain registry among them; theorems about the cache and what they answer | extends `MemoryCache` |
| `GatheredAnswers` | requests answered by a goroutine per market, node or address | |
| `HttpProcess` | the HTTP process: one of the services, or a gathered answer | extends `CachedServices`, `GatheredAnswers` |
| `HttpProcess_proofs` | theorems about the gathered answers and the process | extends `CachedServices_proofs` |
| `MCHistorySync`, `MCIntervalSync`, `MCOrderSync`, `MCListener`, `MCMarketView`, `MCCachedServices` | values of constants for TLC; `MCHistorySync` extends `HistoryAnswers`, `MCOrderSync` `OrderBook`, `MCCachedServices` `HttpProcess` | |

### How state and actions correspond to the code

**HistorySync.** `rows[t]` counts the rows of trade `t`; `locked[p]` is the
mutex of `getHistoryLockKey` in process `p`; `last`, `key`, `page` are the local
variables of `SyncHistory`. `Call`, `AcquireLock`, `ReadLast`, `FetchPage`,
`RejectPage` (a trade that cannot be converted fails its page), `SavePage` (the
transaction, and whether the loop goes on) follow the function from top to
bottom; every early return is in the action it belongs to, with the deferred
`Unlock`. `Fail` is an error of any call, `Crash` the end of a process,
`log.Fatalln` included. `target` and `outcome` remember what a call could have
stored and what it returned.

**HistoryAnswers.** A request is the parameters it ends up with: `LimitFor` is the
default and the greatest limit, `Valid` is `Validate`, `Selected` and
`GetHistoryBy` are the query: a market named by its id, a span if both ends are
given, the newest rows first, as many as the limit. Rows of one second come in
any order, so the answer is one of several. A client reads a whole history by
asking again for what is no newer than the oldest trade of the last answer;
`owed` is what it has still to see, and `OtherRows` are the trades of another
market. Requests that name an address, which `Validate` accepts without a market,
are not among those modelled.

**IntervalSync.** `status[t]` says whether a trade has a row and whether the row
is marked; `saved[i]` is the set of trades interval `i` was computed from.
`HistoryTransaction` replaces any run of rows, which become unmarked and get new
ids. `toMark` is what a worker will mark, from its read of the rows on, and loses
them, as an `UPDATE ... WHERE id IN` of ids that are gone would. A failed save is
logged and the sync goes on (`SaveFails`). `limit` is the limit of
`GetByExecutedAt`, one of `RowLimits`: when as many rows as that are read, the
last interval of each length may lack its end. `partial`, a history variable,
holds the intervals whose last write failed or was of such rows.

**OrderSync, OrderBook.** A row is a side and a price level; `asOf`, a history
variable, keeps the heights the two sides of the table were read at. `Fetch`
answers at the height of the moment;
`Upsert` is one transaction; `NothingToStore` is `syncList`'s early return. In
`OrderBook` a request reads the sides in two steps, in any order for
`GetMarketOrders` (two goroutines), the bid first for `buildTicker`; a side is
sorted by price, bids from the highest down, before the limit is applied. `OrderTable`
knows neither workers nor locks: `Replace` puts in each side of the table a side
of a book that is no older than the one it was of.

**InMemoryLocker, Listener.** `Lock` and `Unlock` are two steps each, `LoadOrStore`
or `Load` and then the mutex. A goroutine of the listener is the program it
still has to run, written with the locks each call takes; a failed call skips
the rest of its part but not the deferred unlocks. `history` is the event of the
newest stored trade, `intervals` the one up to which trades are marked as added,
`book` the one the stored book has come to: what a failure inside a sync leaves out
below these numbers (a hole in the history, an interval whose write failed) is the
matter of `HistorySync` and `IntervalSync`, not of this module. A failed sync of the
history may have stored its first page, hence the newest trade. An event may take
the last order of a side (`bare`, `Leaves`), and a sync that gets no order of either
side returns without touching the table (`StoreBook`). A date is the number of the
last event before it. Every event gets a goroutine of its own: `Idle` takes one
that has nothing to do, any. `SyncMarkets` dates the markets it was
given, then asks for their first trades, then saves its rows over the ones there
are; the code does this market by market, which only separates a date from its
question by fewer steps. A refresh that fails sets the map to nil, as the code
does. Events are received only on streams already subscribed to, in any order;
`missed` remembers those nobody received.

**IntervalAggregate, MarketView.** One market, a clock in minutes, up to three
trades. `orders` is the history as `ORDER BY executed_at` returns it: rows of one
second come in any order, so a new trade is put anywhere among those of its second
(`Places`). A request for intervals reads the market (`GetMarket`), then the clock
(`ReadClock`, `time.Now()` in `getQueryParams`), then the rows (`ReadRows`), and works
out its answer at a clock that has gone on (`now`, the second `time.Now()`); a
ticker reads a clock of its own for the last price (`StartWindow`,
`GetMarketsWithLastExecuted`) first. Trades, syncs of the markets and minutes come
between these steps; after the rows are read the tables are not followed, since
the answer no longer depends on them. `GetIntervals` is the answer for a length and
a limit; `Before` is the clock read, less some minutes, and a comparison, so that
the present minute counts as begun. `Ticker` adds the rows `GetIntervalsByExecutedAt`
selects. `Row` goes over all trades and adds those of the interval, as
`Group.AddOrder` hands each trade to the interval it belongs to. All rows with a
given second were written by one sync last, so they have seen its trades in one
order; `Ascending` is the `ORDER BY` of a query. Prices, amounts and quote amounts
are numbers; `QuoteUnit` is what `GetQuoteAmount` cuts: with 1 nothing is cut, and an
average is a fraction.

**MemoryCache, CachedServices.** The calls of `Set` are numbered and the number
names the data and the timer. A timer's expiry and its callback are two steps;
the callback deletes the key, whoever set it last. A request looks, asks and
stores in separate steps, several requests at a time. No two services use the same
key, those that share a cache (supply and registry) included, so a behaviour is
about one of them. `Sync` stores the newest trade, and storing the rows of its second
again dates them anew, which is what the aggregator's health is judged by. What a source says at
minute `t` is `t`: a value is its own date. `GetCirculatingSupply` runs
`GetTotalSupply` inside, and takes its failure for zero. `GetAssetDetails` stores
the assets of the list one by one (`StoreAssets`, for a list of two) and looks
again (`ReadBack`). `seen` and `spoiled` are history variables.

**GatheredAnswers, HttpProcess.** `gathered` says which of the three requests a
behaviour is about; it shares nothing with other requests. Each item has a
goroutine: it asks (`Ask`), and its result goes into the list or the map under
the mutex (`List`). The goroutines of `GetTickers` also assign `err` and `gErr`,
which `buildTicker`'s callers share without a lock: a read of either is a choice
between the goroutine's own value and the last one assigned (`Check`, `Copy`).
`level` changes while they run, and `least` and `most`, history variables, remember
between which bounds. The services and the gathered answers share no state, so
`HttpProcess` runs one or the other.

## Runs

| run | shows |
|---|---|
| `HistorySync_onepage` | new trades fit a page, seconds may be shared, trades may refuse conversion, two failures or crashes: the table stays a prefix (`NoHoles`), successes are complete, no trade is stored twice, nothing is forgotten; a client that reads page by page meanwhile misses nothing (`PagingMissesNothing`) |
| `HistorySync_pages` | several pages, two goroutines, no failure: the lock hides half-stored histories, every call returns and stores, and the module implements `TradeArchive` |
| `HistorySync_resume` | **violation** of `SuccessIsComplete`: after a failure between two pages the next sync reports success over a hole |
| `IntervalSync` | only a failed write, or the limit on the rows, keeps a marked trade out of an interval, and that very interval; intervals never shrink but there; a call aggregates what was stored, if the limit is not reached |
| `IntervalSync_savefails` | **violation** of `AddedIsAggregated`: such a failed write is never repaired by itself |
| `OrderSync` | the table is an `OrderTable`, settling on the latest book; answers are the top of whole sides |
| `OrderSync_rundry` | **violation** of `RestsOnLatest`: an empty book leaves the old rows |
| `Listener` | a market that is there and one to come, initial sync, two handlers at a time, books that run dry on either side, a failure: the locker implements `KeyLocks`, locks never fatal or deadly, handled means synced but for a book that ran dry, the process catches up |
| `Listener_markets` | two markets to come and three events: creations and first trades handled at once never date a market after its first trade, the map forgets nothing |
| `MarketView` | figures of intervals and tickers whatever the order within a second, agreement of lengths, whole series although time passes between the reads |
| `MarketView_first` | **violation** of `FirstTradeIsShown`: the interval of a market's first trade is not shown |
| `CachedServices` | nothing is cached for good, answers are fresh, health is judged by the minutes asked for, empty prices mean none were kept, a listed asset is found; tickers do not hide that all markets failed, and the health of nodes and balances was true at some time |

The four violations are the findings in `PROJECT.json`, each with the sentence of
the repository it contradicts.

### Bounds, and why they are enough

Every bound is a constant named in its module. Two callers suffice for a lock
and for a stale write (one holds, one waits or overtakes). A page of two with
four trades gives first, middle and last pages; a page of four with four trades
is the case in which a sync has one page. One failure is enough where a failure
is the question; two allow one during the recovery from another. Intervals of
two lengths, with three trades, have full, shared and neighbouring buckets; the
batches of two are split, and a limit of two rows cuts a day of three trades
off while one of four does not. Three heights let a sync read its sides at two of
them and be overtaken by the third. The listener has two handlers besides the main
goroutine. Events are numbered up to three. In `Listener` the first number is the past
of the market that is there, so two more are emitted: enough for one sync to be
overtaken by another, and for a book to run dry and fill again. In
`Listener_markets` no market is there and all three are emitted: one market is
created, another one is, and the first is traded, which is what it takes for a
sync of the markets to store a date that another has corrected. `MarketView` lets trades fall on any of minutes three to seven of a market
that appears at minute three, which crosses boundaries of both its lengths, two
and four, and leaves minutes for an interval to begin between two looks at the
clock; three trades may share a second. In `CachedServices` four calls of
`Set` are two rounds of prices and backup, or of a list of two assets, and four
minutes outlive every lifetime; the registry's entries live longer than a request
takes, as they do in the code. Three items let one fail, one succeed and one
overwrite what the others assigned; levels up to two are less than, equal to and
more than the amount or the difference allowed, which is one. A client's limit
of two or three with four trades gives several pages, and one of `OtherRows`
falls between them. Handlers, items and workers are symmetric where the runs
say so, and no such run has a liveness property.

`MCCachedServices` gives TLC a `VIEW`, which leaves out what a call of `Set` stored
once its entry is gone and its timer has run out. No action reads it any more:
`data[n]` is read through `entry`, or for the due time of an armed timer, and by
`NoPricesMeansNone`, whose backups the view keeps. Two states that the view takes
for one have therefore the same behaviours and satisfy the same properties.

`CHECK_DEADLOCK FALSE` is used where a bound ends the behaviour (no more
events, heights, trades or calls) or the process has stopped.

### Fairness

Goroutines that can take a step do (weak fairness of the steps of a sync, a
handler, an unlock): the Go scheduler is preemptive and every call returns or
fails. A `sync.Mutex` hands itself to a waiter that has waited more than a
millisecond (starvation mode), hence strong fairness of acquiring. Nothing is
assumed of the chain, of callers, of failures and crashes. `SettlesOnLatest`
also needs that each event gets its goroutine, which `ListenAndSync` does. In
`Listener` only the steps of goroutines are fair (`SF` of `AcquireLock`, `WF` of
`Run`): nothing makes the chain emit an event or the process receive one, and
`EverythingReturns` holds without it.

### Assumptions about what is outside

* A transaction is atomic and a single statement reads one state of the table.
* A chain's query answers from one height; the history's order and seconds
  never change, and seconds never go back.
* Where pages are more than one, in `HistorySync_pages` and in the theorems about
  several pages, each trade has a second of its own (`0 \notin Gaps`): with a
  shared second split between two pages, the delete of one page takes rows of the
  other with it. `HistorySync_onepage` covers shared seconds on one page.
* A market's first trade is never before the market was listed, and the clock
  that dates a market and the chain's agree to the minute (`Listener`).
* Nodes only grow in height while they are asked; balances go either way.
* The callback of an expired timer runs within the minute (`CachedServices`),
  and a request takes at most `MaxRequest` minutes.

## Proofs

`PROJECT.json` lists the theorems; each is proved by TLAPS for every value of the
constants that its module's `ASSUME`s and its own hypotheses admit. Every
property a run checks of a component that has a proof module is proved too, but
for liveness. The invariants were checked by TLC before they were proved.

**What the theorems assume.**

* `OneProcess`: all syncs of a market run in one process. The locks are mutexes in
  memory, so without it the theorems about what a lock protects are false, and
  commands beside the listener are not protected. Types, `NoDuplicates`,
  `MutualExclusion` and `NothingForgotten` do without it.
* `OnePage` (`MaxTrades <= Batch`): what the history sync has to store fits a page.
  With it, failures and crashes are allowed. Over several pages the theorems
  need `Undisturbed` (no call fails, every trade can be converted): a failure
  between two pages leaves a hole that the next sync reports success over, which
  is the violation `HistorySync_resume` shows. They also need `0 \notin Gaps`.
* `"ticker_id" \notin Naming`, for `PagingMissesNothingTheorem`, as in the runs: a client
  names its market by its id. By its ticker it would be shown the trades of all
  markets (see below).
* The longest interval is made of each of the others (`IntervalAssumption`): the
  code's durations are 5, 15, 60, 240 and 1440 minutes.
* Books are finite and levels are numbers (`BookAssumption`); the markets of the
  start are finitely many (`ListenerAssumption`).
* `QuoteUnit = 1`, for `VolumesAreSumsTheorem`: no decimal of a quote amount is cut.
  Where decimals are cut, the quotient of the volumes can lie below the lowest
  price by what was cut, as the code's own average does.
* `NoneForFree`, for `LengthsAgreeTheorem` and `TickerIsRecentTheorem`: no trade is so
  small that its quote amount is cut to nothing. `AddOrder` takes an average of zero
  for an interval without trades and would start its volumes again.
* `RequestsAreShort` (`MaxRequest < RegistryTtl`), for `AssetsAreFoundTheorem`: the
  registry's entries live for half an hour and a request does not.

**`HistorySync_proofs`.** `TypeInv` adds to the types that pages, marks and targets
are of trades of the chain. `NoDuplicates`: a transaction clears the seconds of
the trades it inserts, so a row is cleared or of another second. `MutualExclusion`
by `LockInv`: a mutex is locked while one of its workers is inside.
`NothingForgotten`: if no two trades share a second, what is deleted is inserted
again. For one page the inductive invariant is `PageInv`: the table is a prefix of
the history at every moment, what a worker's mark does not cover is in its page,
and nobody marks what is not stored; `OnePageIsComplete`, `OnePageHasNoHoles` and
`OnePageForgetsNothing` follow. For many pages it is `PagesInv`: whoever is inside
has stored what was known and the pages it has seen, which leaves one hole, the
pages still to come (`RoundOf`), and nobody else looks (`WholeAtRest`). From it
come `PagesAreComplete`, `PagesHaveNoHoles` and `HistoryIsAnArchive`: a page that
leaves a hole does not change the longest complete prefix and is a stutter of
`TradeArchive`, the page that closes it is its `Archive` or `Answer`. For readers
`ReaderInv` says that what a client has still to see is stored and no newer than
where it goes on; an answer as long as the limit and all of one second is what
the property leaves out.

**`IntervalSync_proofs`.** `IInv` has, beside types and `AloneInside`, that intervals
hold stored trades only, that rows are read from the start of a day on
(`ReadsWholeDays`), hence all of an interval or of its end only what the limit cut
off (`WritesWhole`), and that what is to be marked is of the rows read and, once
marking begins, written (`MarksWritten`). `OnlyFailedWritesMissTheorem` and `NeverShrinksTheorem` follow; the
history's transactions beside the sync are one of the steps.

**`OrderSync_proofs`.** `OrderInv` adds to the types that who is inside is there alone
with the lock (`AloneInside`) and that what it has read is no older than the table
(`ReadsAreLater`), which makes every write a `Replace` of `OrderTable`
(`OrdersAreATable`). For `OrderBook`, `BoundsInv` and `QueriesInv` are the types; in
`AnswersInv` a side of the table is a side of one book and the table has not gone
back since a request came in. That the sorted list of a side exists and is
unique, by taking the best level away from a smallest counterexample, turns this
into `AnswersAreWholeTheorem`.

**`InMemoryLocker_proofs`.** `LockerInv`: the map never changes a mutex once stored,
owners hold the mutex of their key, and who is about to unlock owns the key.
`ExclusiveOwners`, `UnlocksAreSafe`, and `KeysAreLocks`, that look-ups and mutex
operations implement `KeyLocks`.

**`Listener_proofs`.** `ListenerInv` is about programs. `Never(a, b)` lists the pairs of
instructions no part has in that order, and holds of every part by
concatenation; `Fits` says what the part in progress has locked and asked for,
`Whole` that a part to come locks and asks for itself what it stores,
`MapIsLocked` that `initialSync` locks in one part what it uses in the next,
`NothingIsNewer` that no table is ahead of the chain. The listener's steps are then
steps of `LockerSpec` or leave the locker alone (`ListenerUsesLocker`), which carries
over the locker's theorems (`LocksAreExclusive`, `NoUnlockIsFatal`), and
`RowsAreDatedInTime` and `NoMarketIsForgottenTheorem` follow: a list is got and stored
under the lock of the map. `HandlersInv` says how far a handler has come with its
event (`Progress`): each table has the event or a part to come stores it, and a
book that was asked for after the event has it, unless both its sides have been
empty since (`BookReaches`); hence `HandledIsSyncedTheorem`.
`CoverInv` says of the last trade, the last change of the book and the creation of
every market that they are in the tables, were lost, or wait: in `pending`, with a
handler, or with `initialSync`, whose program is followed from its first part over
the list of markets to the round of each market (`MapWaits`, `RoundWaits`,
`RoundGoesOn`). When everything is quiet nothing waits: `CatchesUpTheorem`.

**`MarketView_proofs`.** `ViewInv` is short: trades in the order of their seconds, none
later than now, each with its quote amount, and a request's clock that is no later
than now. A trade put among those of its second keeps the order
(`TradeKeepsOrder`). The work is in the figures, which are folds and sorted lists. A
fold is taken for the list of its intermediate results (`StepsOf`; it exists, by a
least length for which it would not), and what is said
of the result is shown of each of them by counting up (`Upward`):

* a row after the first trades has the prices of those that are its own (`Priced`),
  and the trade it opens with is one of the oldest second (`OpensWithOldest`), hence
  `PricesAreRightTheorem`; it has the sums of their volumes (`Summed`), and an
  average that is their quotient between low and high (`Balanced`), hence
  `VolumesAreSumsTheorem`;
* the ascending list of a finite set of minutes exists and is unique
  (`AscendingExists`, `AscendingUnique`); the loop of `GetIntervals`, downward from the
  present interval, has a closed form (`FillIs`), which turned round is that list
  of the intervals begun (`FilledIs`). Of those begun when the clock was read there
  are at most as many as the limit (`TimelyAreFew`), so either the `LIMIT` of the query
  cuts no row off or an interval has begun since, and the rows left are the newest
  (`NewestAre`, `EntriesAre`): `SeriesIsWholeTheorem`;
* the short intervals within a long one part its trades (`SameTrades`), the first of
  them has the trade it opens with and the last the one it closes with
  (`PartsOpenAndClose`), and sums over parts add up (`SumOfTwo`, `PartsSum`):
  `LengthsAgreeTheorem`, and in the same way, over the rows of a window,
  `TickerIsRecentTheorem`.

**`CachedServices_proofs`.** The entry of a key is the data of a
call for that key, so what is done to one key never stops the timer of another
(`NothingIsCachedForGood`). `ServicesUseTheCache`: the services store only under keys
of the cache and otherwise leave it alone, so its theorems are theirs. What they
answer needs `ServicesInv`: how old the data of a key may be and that an entry not
yet due is only missing if a late callback spoiled it (`CacheFits`), what a request
knows at each stage (`RequestsFit`), and the answers themselves (`RepliesFit`).

**`HttpProcess_proofs`.** `GatherInv`: an error variable that the goroutines share is
an error of one of their markets, and if all failed it is set by the time the
first of them reads it (`ErrorsAreTheirs`); what was heard lies between the bounds
the levels have moved in (`LevelsWithin`). `ProcessServesAndGathers` shows that the
process is both specifications at once, and `HttpAnswersHold` collects what follows.

**What induction there is.** The induction theorems of the library take an
operator as a parameter, which no installed prover instantiates. Where a proof
needs induction over numbers or finite sets, it takes a least counterexample by
`WFMin` from `NatLessThanWellFounded` or `FS_StrictSubsetOrderingWellFounded`, whose
parameters are sets.

**Only model-checked** are

* liveness and the fairness behind it: `EveryCallReturns`, `CallStores`,
  `CallAggregates`, `SettlesOnLatest`, `EverythingReturns`; the prover has no rules for
  fairness;
* the violations, which are single behaviours.

## Not modelled

The components with status `not_modelled` in `PROJECT.json` are pure I/O,
conversions without state, plain structures and wiring. Left out of modelled
parts:

* the decimal arithmetic of prices and amounts, the rounding of figures, the
  formats of answers; so the price factor printed with two decimals
  (`converter/price.go:33`) is a hazard without a property;
* the filters of a history by order type and address, which only say which rows
  are meant, and requests that name an address and no market;
* the limit of 10000 levels a side in the order sync's question to the chain
  (`data_provider/order.go:68`);
* what a zero average does to the figures of later trades
  (`interval/interval.go:82`): in the runs nothing is cut (`QuoteUnit = 1`), and the
  theorems on figures built from averages exclude it (`NoneForFree`);
* the merging of a market's duplicate last prices in `repository/market.go`;
* whether the gRPC connection is ready, and the connections that are replaced and
  never closed (`client/grpc.go:72`); the goroutine of the keep-alive ping
  (`listener/ws.go`), which changes no state;
* that the shared `err` of `GetTickers`, an interface of two words, might be read
  half written; and the `err` the goroutines of `SyncIntervals` assign while they
  mark, which is only logged;
* the commands' loop over the markets, which share nothing but the connection;
* binding, JSON, and handlers that pass parameters on.

### Where the repository's README and the code differ

The repository's `README.md` differs from the code in ways that show by reading a
line or two, so no run is spent on them:

* `ticker_id` of the history, "If present, market_id is not required" (line 137):
  `Validate` accepts such a request, but `GetHistoryBy` filters by `market_id` only
  (`app/repository/market_history.go:134`) and nothing turns the ticker into a
  market. The answer is the newest trades of all markets. `Selected` of
  `HistoryAnswers` says so; the runs' clients name the market by its id.
* The default limit of the history is not 10 (line 134) but `defaultLimit` of
  `app/dto/request/dex_history.go`, and that of the intervals (line 169) is
  `defaultIntervalsLimit` of `app/dto/request/dex_interval.go`.
* A `start_time` or `end_time` of the history without the other (lines 138, 139) is
  ignored, since `GetHistoryBy` looks at a span only when it has both ends.
* The example answer of the intervals (lines 173 to 200) lists the newest first,
  while the code sorts by `start_at` ascending (`app/service/dex/intervals.go:202`).
  `SeriesIsWhole` states the code's order.

## Plan

Done, in this order: `HistorySync` with `TradeArchive` and its theorems, then
`IntervalSync`, `OrderSync`, `InMemoryLocker`, `Listener`, `IntervalAggregate` with
`MarketView`, `MemoryCache` with `CachedServices`, `OrderBook`; then the dates of
markets in `Listener`, `KeyLocks` and `OrderTable` with the theorems that they are
implemented, `HistoryAnswers`, the chain registry, `GatheredAnswers` and the limit
on the rows of `IntervalSync`.

Then the theorems: types and safety of every module, each module's refinement of
its abstract specification, the action properties, and the figures of `MarketView`.

Left are the conversions of numbers and the state of the gRPC connection, which
no module models.
