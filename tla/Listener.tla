------------------------------ MODULE Listener ------------------------------
(***************************************************************************)
(* `bze-agg sync listener` (cmd/handlers/listener.go): the process syncs   *)
(* every market, then subscribes to the chain's events and handles each in *)
(* a goroutine of its own.  The handlers meet in the locks of lock.go, the *)
(* lock of the gRPC connection (client/grpc.go) and the lock of the map of *)
(* markets, and read that map without it.                                  *)
(*                                                                         *)
(* A goroutine is the program it still has to run: a sequence of parts,    *)
(* each a sequence of instructions.  A call that fails ends its part but   *)
(* for the deferred Unlocks.  The syncs themselves are HistorySync,        *)
(* IntervalSync and OrderSync; here each is the event number up to which   *)
(* it has brought its table.  What a failure inside a sync leaves out below *)
(* that number, and for good, is the question of those modules.            *)
(***************************************************************************)
EXTENDS InMemoryLocker, Sequences, FiniteSets

CONSTANTS
    Main,       \* the goroutine of ListenAndSync
    Market,     \* the markets there may be
    Listed,     \* the markets of the chain when the process starts
    Leaves,     \* Leaves[type]: the sets of sides such an event may leave without orders
    MaxEvents,  \* bound: events
    MaxFaults   \* bound: failed calls

\* The keys of lock.go, listener.go and grpc.go.
GetHistoryLockKey(m) == <<"history", m>>
GetIntervalLockKey(m) == <<"interval", m>>
GetOrderLockKey(m) == <<"order", m>>
LockMarketsKey == <<"markets">>
GrpcLockName == <<"grpc">>

LockKeys ==
    {LockMarketsKey, GrpcLockName} \union
    UNION {{GetHistoryLockKey(m), GetIntervalLockKey(m), GetOrderLockKey(m)}: m \in Market}

ASSUME ListenerAssumption ==
    /\ LockKeys \subseteq Key
    /\ Main \in Goroutine
    /\ Listed \subseteq Market /\ IsFiniteSet(Listed)
    /\ Leaves \in [{"OrderExecuted", "OrderSaved"} -> SUBSET SUBSET {"buy", "sell"}]
    /\ MaxEvents \in Nat \ {0}
    /\ MaxFaults \in Nat

VARIABLES
    created,    \* the markets of the chain
    emitted,    \* events so far, which number them
    event,      \* event[m]: the number of the last event of m's orders
    trade,      \* trade[m]: the number of its last OrderExecutedEvent
    first,      \* first[m]: the number of its first one, 0 before it
    bare,       \* bare[s][m]: the number of the last event that left side s of its book empty
    pending,    \* events received and not yet handled
    subscribed, \* the streams of events the process has subscribed to
    markets,    \* l.markets; nil is the empty map
    rows,       \* the markets in table market
    createdAt,  \* i_created_at of these rows: a moment is the number of the last event
    history,    \* history[m]: the newest trade in market_history is this event's
    intervals,  \* the trades up to this event's are marked as added to the intervals
    book,       \* market_order is the book of this event or a later one
    todo,       \* what each goroutine still has to do
    handles,    \* the event each goroutine handles, as long as no call failed
    list,       \* the markets a goroutine has got from the chain
    dates,      \* the dates it has given them
    height,     \* the event number of the book whose buy side it has got
    hasBuys,    \* whether that side had orders
    running,    \* the process
    missed,     \* history variable: the last event of m that was lost
    faults      \* calls failed so far

chainVars == <<created, emitted, event, trade, first, bare>>
tables == <<rows, createdAt, history, intervals, book>>
local == <<handles, list, dates, height, hasBuys>>
vars == <<lockerVars, chainVars, pending, subscribed, markets, tables, todo, local,
          running, missed, faults>>

Handler == Goroutine \ {Main}
Stream == {"NewBlock", "Tx"}
EventType == {"MarketCreated", "OrderExecuted", "OrderSaved"}
Event == [type: EventType, market: Market, number: 1..MaxEvents]
NoEvent == <<>>
NoDates == [m \in Market |-> 0]
Side == {"buy", "sell"}

\* The last event of m left the side without orders that can be converted, or
\* none has ever had any.
Empty(side, m) == bare[side][m] = event[m]

-----------------------------------------------------------------------------
(* The programs. *)

Do(what, on) == [do |-> what, on |-> on]

\* Lock, and the deferred Unlock.
WithLock(k, body) == <<Do("lock", k)>> \o body \o <<Do("unlock", k)>>

\* Mutant: the early return of a ready connection keeps the lock.
ConnectAndKeep == <<Do("lock", GrpcLockName)>>

GetConnection == WithLock(GrpcLockName, <<>>)

SyncHistory(m) == WithLock(GetHistoryLockKey(m), GetConnection \o <<Do("history", m)>>)
SyncIntervals(m) == WithLock(GetIntervalLockKey(m), <<Do("intervals", m)>>)
SyncMarket(m) ==
    WithLock(GetOrderLockKey(m),
             GetConnection \o <<Do("buys", m)>> \o GetConnection \o <<Do("book", m)>>)

\* Mutant: the markets are dated after the chain was asked for their trades.
AskThenDate ==
    GetConnection \o <<Do("list", Main)>> \o GetConnection
        \o <<Do("firsts", Main), Do("dates", Main), Do("rows", Main)>>

\* The list of markets, their dates, the first trade of each, and the rows.  A
\* market is dated and then asked for, one market after the other; what they
\* share is that each date is older than its question.
SyncMarkets ==
    GetConnection \o <<Do("list", Main), Do("dates", Main)>>
        \o GetConnection \o <<Do("firsts", Main), Do("rows", Main)>>
GetMarketsMap == GetConnection \o <<Do("list", Main), Do("map", Main)>>

\* Mutants: the list is got before the lock; the intervals are synced before
\* the history; the executed orders stay in the book.
ListThenLock ==
    GetConnection \o <<Do("list", Main)>> \o WithLock(LockMarketsKey, <<Do("map", Main)>>)
IntervalsFirst(m) == <<SyncIntervals(m), SyncHistory(m), SyncMarket(m)>>
NoFallthrough(m) == <<SyncHistory(m), SyncIntervals(m)>>

RefreshMarkets == WithLock(LockMarketsKey, GetMarketsMap)
OrderExecuted(m) == <<SyncHistory(m), SyncIntervals(m), SyncMarket(m)>>

\* What handleMessage does of an event, if its market is in the map.
Program(e) ==
    CASE e.type = "MarketCreated" -> <<SyncMarkets, RefreshMarkets>>
      [] e.type = "OrderExecuted" -> OrderExecuted(e.market)
      [] e.type = "OrderSaved" -> <<SyncMarket(e.market)>>

\* initialSync.  The loop over the map follows when the map is there.
InitialSync == <<<<Do("lock", LockMarketsKey)>> \o SyncMarkets, GetMarketsMap>>
SyncEach(order) ==
    [n \in DOMAIN order |->
        SyncHistory(order[n]) \o SyncMarket(order[n]) \o SyncIntervals(order[n])]
        \o <<<<Do("unlock", LockMarketsKey)>>>>

-----------------------------------------------------------------------------
(* Running the programs. *)

Next1(g) == Head(Head(todo[g]))
Runs(g, what) == running /\ todo[g] # <<>> /\ pc[g] = "run" /\ Next1(g).do = what

\* The program of g after its next instruction.
Rest(parts) == IF Len(Head(parts)) = 1 THEN Tail(parts) ELSE <<Tail(Head(parts))>> \o Tail(parts)

\* The program of g after a call that failed: of its part the deferred Unlock
\* is left.  No call is made under two locks of one part.
Deferred(g) ==
    LET part == Head(todo[g])
        owed == {n \in DOMAIN part: part[n].do = "unlock" /\ part[n].on \in owns[g]}
    IN  IF owed = {} THEN Tail(todo[g])
        ELSE <<<<part[CHOOSE n \in owed: TRUE]>>>> \o Tail(todo[g])

\* The event is handled when nothing is left to do.
GoOn(g, parts) ==
    /\ todo' = [todo EXCEPT ![g] = parts]
    /\ handles' = [handles EXCEPT ![g] = IF parts = <<>> THEN NoEvent ELSE @]

Done(g) == GoOn(g, Rest(todo[g]))

\* The local variables of a call that returns.
Forget(g) ==
    /\ list' = [list EXCEPT ![g] = {}]
    /\ dates' = [dates EXCEPT ![g] = NoDates]
    /\ height' = [height EXCEPT ![g] = 0]
    /\ hasBuys' = [hasBuys EXCEPT ![g] = FALSE]

AcquireLock(g) ==
    \/ /\ Runs(g, "lock")
       /\ FindForLock(g, Next1(g).on)
       /\ UNCHANGED <<chainVars, pending, subscribed, markets, tables, todo, local,
                      running, missed, faults>>
    \/ /\ running
       /\ LockMutex(g)
       /\ Done(g)
       /\ UNCHANGED <<chainVars, pending, subscribed, markets, tables, list, dates,
                      height, hasBuys, running, missed, faults>>

ReleaseLock(g) ==
    \/ /\ Runs(g, "unlock")
       /\ FindForUnlock(g, Next1(g).on)
       /\ UNCHANGED <<chainVars, pending, subscribed, markets, tables, todo, local,
                      running, missed, faults>>
    \/ /\ running
       /\ UnlockMutex(g)
       /\ Done(g)
       /\ UNCHANGED <<chainVars, pending, subscribed, markets, tables, list, dates,
                      height, hasBuys, running, missed, faults>>

\* The syncs of a market: what a successful call leaves in the tables.  The
\* newest trade comes with the first page; a hole that an earlier sync left below
\* the newest stored trade stays (HistorySync).
StoreHistory(g) ==
    /\ Runs(g, "history")
    /\ history' = [history EXCEPT ![Next1(g).on] = trade[Next1(g).on]]
    /\ Done(g)
    /\ UNCHANGED <<rows, createdAt, intervals, book, list, dates, height, hasBuys, markets>>

\* The trades are marked even if a Save of intervals failed and was only logged,
\* and what a cut at the row limit or such a Save leaves out stays out
\* (IntervalSync).
StoreIntervals(g) ==
    /\ Runs(g, "intervals")
    /\ intervals' = [intervals EXCEPT ![Next1(g).on] = history[Next1(g).on]]
    /\ Done(g)
    /\ UNCHANGED <<rows, createdAt, history, book, list, dates, height, hasBuys, markets>>

GetBuys(g) ==
    /\ Runs(g, "buys")
    /\ height' = [height EXCEPT ![g] = event[Next1(g).on]]
    /\ hasBuys' = [hasBuys EXCEPT ![g] = ~Empty("buy", Next1(g).on)]
    /\ Done(g)
    /\ UNCHANGED <<tables, list, dates, markets>>

\* Mutant: whether there is anything to store is told from the sells alone.
SellsOnly(g) == ~Empty("sell", Next1(g).on)

\* The orders of both sides together, each as it was when it was asked for.
SomeOrders(g) == hasBuys[g] \/ ~Empty("sell", Next1(g).on)

\* syncList: without a single order it returns before it touches the table, and
\* without an error.
StoreBook(g) ==
    /\ Runs(g, "book")
    /\ book' = IF SomeOrders(g) THEN [book EXCEPT ![Next1(g).on] = height[g]] ELSE book
    /\ Forget(g)
    /\ Done(g)
    /\ UNCHANGED <<rows, createdAt, history, intervals, markets>>

GetAllMarkets(g) ==
    /\ Runs(g, "list")
    /\ list' = [list EXCEPT ![g] = created]
    /\ Done(g)
    /\ UNCHANGED <<tables, dates, height, hasBuys, markets>>

\* NewMarketEntity: the present is the date of a market without trades.
DateMarkets(g) ==
    /\ Runs(g, "dates")
    /\ dates' = [dates EXCEPT ![g] = [m \in Market |-> IF m \in list[g] THEN emitted ELSE 0]]
    /\ Done(g)
    /\ UNCHANGED <<tables, list, height, hasBuys, markets>>

\* GetFirstMarketOrderTime: a market with trades is dated just before the first.
AskFirstTrades(g) ==
    /\ Runs(g, "firsts")
    /\ dates' = [dates EXCEPT ![g] =
           [m \in Market |-> IF m \in list[g] /\ first[m] # 0 THEN first[m] - 1 ELSE @[m]]]
    /\ Done(g)
    /\ UNCHANGED <<tables, list, height, hasBuys, markets>>

\* SaveIfNotExists: the date of a row that exists is overwritten.
StoreMarkets(g) ==
    /\ Runs(g, "rows")
    /\ rows' = rows \union list[g]
    /\ createdAt' = [m \in Market |-> IF m \in list[g] THEN dates[g][m] ELSE createdAt[m]]
    /\ Forget(g)
    /\ Done(g)
    /\ UNCHANGED <<history, intervals, book, markets>>

\* The map is replaced.  initialSync then ranges over it, in any order.
StoreMap(g) ==
    /\ Runs(g, "map")
    /\ markets' = list[g]
    /\ \/ g # Main /\ Done(g)
       \/ /\ g = Main
          /\ \E order \in [1..Cardinality(list[g]) -> list[g]]:
               /\ list[g] = {order[n]: n \in DOMAIN order}
               /\ GoOn(g, SyncEach(order))
    /\ Forget(g)
    /\ UNCHANGED tables

Call(g) ==
    /\ \/ StoreHistory(g) \/ StoreIntervals(g) \/ GetBuys(g) \/ StoreBook(g)
       \/ GetAllMarkets(g) \/ DateMarkets(g) \/ AskFirstTrades(g)
       \/ StoreMarkets(g) \/ StoreMap(g)
    /\ UNCHANGED <<lockerVars, chainVars, pending, subscribed, running, missed, faults>>

Later(a, b) == IF a < b THEN b ELSE a

\* The call is logged and its part of the program ends.  A sync of the history
\* may fail after it has stored its first page, the newest one.
CallFails(g) ==
    /\ \E what \in {"history", "intervals", "buys", "book", "list", "firsts", "rows"}: Runs(g, what)
    /\ Next1(g).do = "list" => Head(todo[g])[2].do # "map"
    /\ faults < MaxFaults
    /\ faults' = faults + 1
    /\ todo' = [todo EXCEPT ![g] = Deferred(g)]
    /\ handles' = [handles EXCEPT ![g] = NoEvent]
    /\ missed' = [m \in Market |->
                    IF m # Next1(g).on THEN missed[m]
                    ELSE IF g = Main THEN event[m]
                    ELSE IF handles[g] = NoEvent THEN missed[m]
                    ELSE Later(missed[m], handles[g].number)]
    /\ \/ history' = history
       \/ /\ Runs(g, "history")
          /\ history' = [history EXCEPT ![Next1(g).on] = trade[Next1(g).on]]
    /\ Forget(g)
    /\ UNCHANGED <<lockerVars, chainVars, pending, subscribed, markets, rows, createdAt,
                   intervals, book, running>>

\* getMarketsMap fails: the map becomes nil, and initialSync gives up.
MapFails(g) ==
    /\ Runs(g, "list")
    /\ Len(Head(todo[g])) > 1 /\ Head(todo[g])[2].do = "map"
    /\ faults < MaxFaults
    /\ faults' = faults + 1
    /\ markets' = {}
    /\ todo' = [todo EXCEPT ![g] = Deferred(g)]
    /\ handles' = [handles EXCEPT ![g] = NoEvent]
    /\ running' = (g # Main)
    /\ Forget(g)
    /\ UNCHANGED <<lockerVars, chainVars, pending, subscribed, tables, missed>>

-----------------------------------------------------------------------------
(* The chain, the subscriptions and the events. *)

\* A block changes a market.  Its event reaches who has subscribed to the stream.
\* OrderSaved stands for OrderCanceledEvent too: any of the three may take the last
\* order of a side away.
Emit(type, m, stream) ==
    LET e == [type |-> type, market |-> m, number |-> emitted + 1]
    IN  /\ running
        /\ emitted < MaxEvents
        /\ emitted' = emitted + 1
        /\ m \in created <=> type # "MarketCreated"
        /\ created' = created \union {m}
        /\ event' = IF type = "MarketCreated" THEN event ELSE [event EXCEPT ![m] = emitted + 1]
        /\ trade' = IF type = "OrderExecuted" THEN [trade EXCEPT ![m] = emitted + 1] ELSE trade
        /\ first' = IF type = "OrderExecuted" /\ first[m] = 0
                      THEN [first EXCEPT ![m] = emitted + 1] ELSE first
        /\ \/ type = "MarketCreated" /\ bare' = bare
           \/ /\ type # "MarketCreated"
              /\ \E left \in Leaves[type]:
                   bare' = [s \in Side |-> IF s \in left THEN [bare[s] EXCEPT ![m] = emitted + 1]
                                          ELSE bare[s]]
        /\ pending' = IF stream \in subscribed THEN pending \union {e} ELSE pending
        /\ missed' = IF stream \in subscribed THEN missed ELSE [missed EXCEPT ![m] = emitted + 1]
        /\ UNCHANGED <<lockerVars, subscribed, markets, tables, todo, local, running, faults>>

\* Listen, after initialSync: first one stream, then the other.
Subscribe(stream) ==
    /\ running
    /\ todo[Main] = <<>>
    /\ subscribed = (IF stream = "NewBlock" THEN {} ELSE {"NewBlock"})
    /\ subscribed' = subscribed \union {stream}
    /\ UNCHANGED <<lockerVars, chainVars, pending, markets, tables, todo, local, running,
                   missed, faults>>

\* Every event gets a goroutine of its own: one that has nothing to do, and it
\* does not matter which.
Idle == CHOOSE g \in Handler: todo[g] = <<>>

\* handleMessage begins with a look at the map, without its lock.
HandleMessage(g, e) ==
    LET known == e.type = "MarketCreated" \/ e.market \in markets
    IN  /\ running
        /\ subscribed = Stream
        /\ todo[g] = <<>> /\ g = Idle
        /\ pending' = pending \ {e}
        /\ todo' = IF known THEN [todo EXCEPT ![g] = Program(e)] ELSE todo
        /\ handles' = IF known THEN [handles EXCEPT ![g] = e] ELSE handles
        /\ missed' = IF known THEN missed
                     ELSE [missed EXCEPT ![e.market] = Later(@, e.number)]
        /\ UNCHANGED <<lockerVars, chainVars, subscribed, markets, tables, list, dates,
                       height, hasBuys, running, faults>>

\* A stream is closed, a subscription fails or the database is gone: the
\* process ends with what it has in memory, of which the locks matter no more.
Stop ==
    /\ running
    /\ faults < MaxFaults
    /\ faults' = faults + 1
    /\ running' = FALSE
    /\ pending' = {} /\ subscribed' = {} /\ markets' = {}
    /\ todo' = [g \in Goroutine |-> <<>>]
    /\ handles' = [g \in Goroutine |-> NoEvent]
    /\ list' = [g \in Goroutine |-> {}]
    /\ dates' = [g \in Goroutine |-> NoDates]
    /\ height' = [g \in Goroutine |-> 0]
    /\ hasBuys' = [g \in Goroutine |-> FALSE]
    /\ UNCHANGED <<lockerVars, chainVars, tables, missed>>

-----------------------------------------------------------------------------
\* NewListener has synced the rows and the map; the tables may be behind.  What
\* the markets there are have seen so far counts as one event.
Init ==
    /\ LockerInit
    /\ created = Listed
    /\ emitted = IF created = {} THEN 0 ELSE 1
    /\ event = [m \in Market |-> IF m \in created THEN 1 ELSE 0]
    /\ trade = event
    /\ first = event
    /\ \E left \in [created -> Leaves["OrderExecuted"]]:
         bare = [s \in Side |->
                   [m \in Market |-> IF m \in created /\ s \in left[m] THEN 1 ELSE 0]]
    /\ pending = {}
    /\ subscribed = {}
    /\ markets = created
    /\ rows = created
    /\ createdAt = NoDates
    /\ history = [m \in Market |-> 0]
    /\ intervals = [m \in Market |-> 0]
    /\ book = [m \in Market |-> 0]
    /\ todo = [g \in Goroutine |-> IF g = Main THEN InitialSync ELSE <<>>]
    /\ handles = [g \in Goroutine |-> NoEvent]
    /\ list = [g \in Goroutine |-> {}]
    /\ dates = [g \in Goroutine |-> NoDates]
    /\ height = [g \in Goroutine |-> 0]
    /\ hasBuys = [g \in Goroutine |-> FALSE]
    /\ running = TRUE
    /\ missed = [m \in Market |-> 0]
    /\ faults = 0

Listen(g) == \E e \in pending: HandleMessage(g, e)

Run(g) == ReleaseLock(g) \/ Call(g)

Next ==
    \/ \E g \in Goroutine:
         AcquireLock(g) \/ Run(g) \/ CallFails(g) \/ MapFails(g)
    \/ \E g \in Handler: Listen(g)
    \/ \E type \in EventType, m \in Market, stream \in Stream: Emit(type, m, stream)
    \/ \E stream \in Stream: Subscribe(stream)
    \/ Stop

Spec == Init /\ [][Next]_vars

\* Goroutines run, and a mutex is handed to a waiter that has waited long
\* enough.  Nothing says that the chain emits events or when they are received.
FairSpec ==
    /\ Spec
    /\ \A g \in Goroutine: SF_vars(AcquireLock(g)) /\ WF_vars(Run(g))

-----------------------------------------------------------------------------
TypeOK ==
    /\ LockerTypeOK
    /\ created \subseteq Market /\ markets \subseteq Market /\ rows \subseteq Market
    /\ emitted \in 0..MaxEvents
    /\ {event, trade, first, createdAt, history, intervals, book, missed}
           \subseteq [Market -> 0..MaxEvents]
    /\ pending \subseteq Event
    /\ subscribed \subseteq Stream
    /\ handles \in [Goroutine -> Event \union {NoEvent}]
    /\ list \in [Goroutine -> SUBSET Market]
    /\ dates \in [Goroutine -> [Market -> 0..MaxEvents]]
    /\ height \in [Goroutine -> 0..MaxEvents]
    /\ hasBuys \in [Goroutine -> BOOLEAN]
    /\ bare \in [Side -> [Market -> 0..MaxEvents]]
    /\ running \in BOOLEAN
    /\ faults \in 0..MaxFaults

\* market_order is the book of event n or a later one, or either side of the book
\* has been empty since: then the table may still hold the orders of before.
BookReaches(m, n) == n <= book[m] \/ \A s \in Side: n <= bare[s][m]

Reflects(e) ==
    CASE e.type = "MarketCreated" -> e.market \in markets /\ e.market \in rows
      [] e.type = "OrderSaved" -> BookReaches(e.market, e.number)
      [] e.type = "OrderExecuted" ->
            BookReaches(e.market, e.number) /\ e.number <= history[e.market]
                                            /\ e.number <= intervals[e.market]

\* A handler none of whose calls failed leaves every table that its event is
\* about with this event or a later one, whatever the other handlers do
\* meanwhile: the book, unless both of its sides ran dry, the newest trade of
\* the history and the trades taken for added.
HandledIsSynced ==
    [][\A g \in Handler, e \in Event:
        handles[g] = e /\ handles'[g] = NoEvent /\ faults' = faults => Reflects(e)']_vars

\* A market that is in the map stays in it, unless a refresh of the map failed:
\* an older list never replaces a newer one.
NoMarketIsForgotten == [][faults' = faults => markets \subseteq markets']_vars

\* A row is never dated later than the first trade of its market, or the trade
\* could not be shown: not by a sync that found no trade and saves its answer
\* after another one found the first.
DatedInTime == \A m \in rows: first[m] # 0 => createdAt[m] < first[m]

Quiet == running /\ subscribed = Stream /\ pending = {} /\ \A g \in Goroutine: todo[g] = <<>>

\* When everything is handled the tables have reached the chain's last block,
\* except for a market whose last event was lost: its next event catches up.  A
\* book without any orders is not among them: the rows of before are kept.
CatchesUp ==
    Quiet =>
        \A m \in created:
            /\ missed[m] < trade[m] => history[m] = trade[m] /\ intervals[m] = trade[m]
            /\ missed[m] < event[m] => book[m] = event[m] \/ \A s \in Side: Empty(s, m)
            /\ missed[m] = 0 /\ faults = 0 => m \in markets /\ m \in rows

\* Whoever has something to do gets it done: no two goroutines wait for each
\* other's locks.
EverythingReturns ==
    \A g \in Goroutine: []<>(todo[g] = <<>> \/ ~running)
=============================================================================
