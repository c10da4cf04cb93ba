----------------------------- MODULE MarketView -----------------------------
(***************************************************************************)
(* What the API says of one market: the intervals of                       *)
(* app/service/dex/intervals.go and the ticker of                          *)
(* app/service/dex/tickers.go, from the rows the sync process keeps, at    *)
(* every moment of a market's life.  The tables are those of a sync that   *)
(* has caught up (IntervalSync says when they are).                        *)
(*                                                                         *)
(* A request reads the market, the clock and the rows one after the other, *)
(* and trades, syncs of the markets and minutes pass in between.  The      *)
(* length and the limit it asks for are those the properties quantify      *)
(* over, and its answer is worked out from what it has read, at a clock    *)
(* that still goes on.                                                     *)
(*                                                                         *)
(* Time is in whole minutes; a request arrives in the middle of a minute,  *)
(* as time.Now() with its nanoseconds is never the start of an interval.   *)
(* An instant of the code is then the first whole minute at or after it.   *)
(***************************************************************************)
EXTENDS IntervalAggregate, SequencesExt

CONSTANTS
    Deals,       \* <<price, base amount>> of trades
    Lengths,     \* the lengths of the intervals
    Limits,      \* the limits clients ask for, or 0 for none
    DefaultLimit,  \* defaultIntervalsLimit
    IntervalLength, \* the length tickers are made of (intervalLength)
    Tickers,     \* minutes a ticker is about (tickersHours)
    Births,      \* minutes at which the market may appear
    MaxOrders,   \* bound: trades
    Horizon      \* bound: minutes

ASSUME ViewAssumption ==
    /\ Deals \subseteq (Nat \ {0}) \X (Nat \ {0})
    /\ Lengths \subseteq Nat \ {0} /\ IntervalLength \in Lengths
    /\ Limits \subseteq Nat /\ {DefaultLimit, Tickers} \subseteq Nat \ {0}
    /\ Births \subseteq 1..Horizon
    /\ {MaxOrders, Horizon} \subseteq Nat

VARIABLES
    now,        \* the minute
    orders,     \* market_history as ORDER BY executed_at returns it, the rows of
                \* one second in any order: [at, price, amount, quote]
    createdAt,  \* market.i_created_at
    request,    \* "none", "intervals" or "ticker"
    step,       \* what the request has done: "none", or it has read the clock of the
                \* last price ("window"), the "market", the "clock", the "rows"
    market,     \* the createdAt it read
    last,       \* the trade whose price it read as the last one, if there is one
    asked       \* the minute of its last time.Now()

tables == <<orders, createdAt>>
vars == <<now, tables, request, step, market, last, asked>>

\* Mutant: an instant that is rounded down.
RoundedDown(minutes) == IF asked < minutes THEN 0 ELSE asked - minutes

\* time.Now() less some minutes.
Before(minutes) == IF asked < minutes THEN 0 ELSE asked + 1 - minutes

-----------------------------------------------------------------------------
(* The tables. *)

\* Mutant: rounded to the nearest start.
RoundedStart(at, length) == ((at + length \div 2) \div length) * length

\* GetTimestampInterval.
StartOf(at, length) == (at \div length) * length

\* The rows of market_history_interval: the sync goes over all trades, and
\* Group.AddOrder adds each to the interval that starts where the trade's does.
\* All intervals with a given second were last written by one run, so they have
\* seen its trades in one order.
Starts(length) == {StartOf(orders[n].at, length): n \in DOMAIN orders}
Row(start, length) ==
    FoldLeft(LAMBDA row, o: IF StartOf(o.at, length) = start THEN AddOrder(row, o) ELSE row,
             NewInterval, orders)

\* ORDER BY start_at: the list in which every start is later than those before it.
Ascending(starts) ==
    CHOOSE list \in [1..Cardinality(starts) -> starts]:
        \A i, j \in DOMAIN list: i < j => list[i] < list[j]

-----------------------------------------------------------------------------
(* GetIntervals and GetTradingViewIntervals. *)

\* DexInterval.Validate.
Limit(ask) == IF ask = 0 THEN DefaultLimit ELSE ask

\* getQueryParams.
StartAt(length, limit) ==
    IF Before(limit * length) < market THEN market ELSE Before(limit * length)

\* intervalsByRows: the newest rows, limit of them.
Entries(length, limit) ==
    LET from == {s \in Starts(length): s >= StartAt(length, limit)}
    IN  {s \in from: Cardinality({r \in from: r > s}) < limit}

\* The loop that goes down from the interval of the second time.Now() and fills
\* up what has no row.
Fill(length, limit) ==
    LET down[s \in 0..Horizon] ==
            IF s < StartAt(length, limit) THEN <<>>
            ELSE IF s < length THEN <<s>> ELSE <<s>> \o down[s - length]
    IN  down[StartOf(now, length)]

\* The answer, oldest first: the start of each interval, with its row or zeros.
Shown(s, length, limit) ==
    IF s \in Entries(length, limit) THEN Row(s, length) ELSE NewInterval
GetIntervals(length, limit) ==
    LET starts == IF Cardinality(Entries(length, limit)) = limit
                    THEN Ascending(Entries(length, limit))
                    ELSE Reverse(Fill(length, limit))
    IN  [n \in DOMAIN starts |->
            [start |-> starts[n], interval |-> Shown(starts[n], length, limit)]]

-----------------------------------------------------------------------------
(* buildTicker. *)

\* GetIntervalsByExecutedAt, oldest first.
TickerRows ==
    LET starts == Ascending({s \in Starts(IntervalLength): s >= Before(Tickers)})
    IN  [n \in DOMAIN starts |-> Row(starts[n], IntervalLength)]

\* Mutant: a low that starts at zero and stays there.
AddLow(ticker, row) ==
    [ticker EXCEPT !.base = @ + row.base, !.quote = @ + row.quote,
        !.high = IF row.high > @ THEN row.high ELSE @,
        !.low = IF row.low < @ THEN row.low ELSE @]

AddRow(ticker, row) ==
    [ticker EXCEPT !.base = @ + row.base, !.quote = @ + row.quote,
        !.high = IF row.high > @ THEN row.high ELSE @,
        !.low = IF row.low < @ \/ @ = 0 THEN row.low ELSE @]

\* GetMarketsWithLastExecuted: a trade of the newest second of the window.
LastTrades ==
    LET recent == {n \in DOMAIN orders: orders[n].at >= Before(Tickers)}
    IN  {orders[n]: n \in {n \in recent: orders[n].at = orders[Len(orders)].at}}

Ticker ==
    FoldLeft(AddRow,
             [open |-> IF TickerRows = <<>> THEN 0 ELSE TickerRows[1].open,
              base |-> 0, quote |-> 0, high |-> 0, low |-> 0],
             TickerRows)

-----------------------------------------------------------------------------
(* The life of the market.  What happens to the tables after the request   *)
(* has read its rows does not reach the answer, and is not followed.       *)

\* Mutant: a market without trades is dated like an interval that ends.
CreatedAhead(list) == IF list = <<>> THEN now + 2 ELSE list[1].at

\* SyncMarkets: a minute before the first trade, or now if there is none.
CreatedAt(list) == IF list = <<>> THEN now + 1 ELSE list[1].at - 1

SyncMarkets ==
    /\ step # "rows"
    /\ createdAt' = CreatedAt(orders)
    /\ UNCHANGED <<now, orders, request, step, market, last, asked>>

\* The places of a new trade: after all of earlier seconds, and anywhere among
\* those of its own.
Places == {p \in 1..Len(orders) + 1: \A n \in DOMAIN orders: orders[n].at < now => n < p}

Trade ==
    /\ step # "rows" /\ Len(orders) < MaxOrders
    /\ \E deal \in Deals, place \in Places:
         orders' = InsertAt(orders, place, [at |-> now, price |-> deal[1], amount |-> deal[2],
                                            quote |-> GetQuoteAmount(deal[2], deal[1])])
    /\ UNCHANGED <<now, createdAt, request, step, market, last, asked>>

Tick ==
    /\ now < Horizon
    /\ now' = now + 1
    /\ UNCHANGED <<tables, request, step, market, last, asked>>

-----------------------------------------------------------------------------
(* The request. *)

\* GetIntervals and GetTradingViewIntervals: the market.
GetMarket ==
    /\ step = "none"
    /\ request' = "intervals" /\ step' = "market" /\ market' = createdAt
    /\ UNCHANGED <<now, tables, last, asked>>

\* GetMarketsWithLastExecuted: time.Now(), and then the query.
StartWindow ==
    /\ step = "none"
    /\ request' = "ticker" /\ step' = "window" /\ asked' = now
    /\ UNCHANGED <<now, tables, market, last>>
GetMarketsWithLastExecuted ==
    /\ step = "window"
    /\ step' = "market"
    /\ last' \in IF LastTrades = {} THEN {{}} ELSE {{o}: o \in LastTrades}
    /\ UNCHANGED <<now, tables, request, market, asked>>

\* time.Now() in getQueryParams, or in buildTicker, and then the query.
ReadClock ==
    /\ step = "market"
    /\ step' = "clock" /\ asked' = now
    /\ UNCHANGED <<now, tables, request, market, last>>
ReadRows ==
    /\ step = "clock"
    /\ step' = "rows"
    /\ UNCHANGED <<now, tables, request, market, last, asked>>

Init ==
    /\ now \in Births
    /\ orders = <<>>
    /\ createdAt = CreatedAt(orders)
    /\ request = "none" /\ step = "none" /\ market = 0 /\ last = {} /\ asked = 0

Next ==
    \/ SyncMarkets \/ Trade \/ Tick
    \/ GetMarket \/ StartWindow \/ GetMarketsWithLastExecuted \/ ReadClock \/ ReadRows

Spec == Init /\ [][Next]_vars

-----------------------------------------------------------------------------
TypeOK ==
    /\ now \in 0..Horizon /\ asked \in 0..now
    /\ {createdAt, market} \subseteq 0..Horizon + 1
    /\ Len(orders) <= MaxOrders
    /\ \A n \in DOMAIN orders: orders[n].at <= now /\ (n > 1 => orders[n - 1].at <= orders[n].at)
    /\ request \in {"none", "intervals", "ticker"}
    /\ step \in {"none", "window", "market", "clock", "rows"}
    /\ \A o \in last: \E n \in DOMAIN orders: orders[n] = o

\* The trades of an interval, those of their oldest and of their newest second,
\* their prices, and the sum of what they have of something.
TradesOf(start, length) == {n \in DOMAIN orders: StartOf(orders[n].at, length) = start}
OldestOf(trades) == {n \in trades: \A m \in trades: orders[n].at <= orders[m].at}
NewestOf(trades) == {n \in trades: \A m \in trades: orders[m].at <= orders[n].at}
PricesOf(trades) == {orders[n].price: n \in trades}
Sum(numbers) == FoldLeft(LAMBDA sum, x: sum + x, 0, numbers)
SumOf(trades, Field(_)) ==
    Sum([n \in DOMAIN orders |-> IF n \in trades THEN Field(orders[n]) ELSE 0])

\* Low and high are the extreme prices, open the price of a trade of the oldest
\* second and close of one of the newest, however many trades share a second and
\* in whatever order they come.
PricesAreRight ==
    \A length \in Lengths: \A s \in Starts(length):
        LET own == TradesOf(s, length)
            row == Row(s, length)
        IN  /\ row.low = Min(PricesOf(own))
            /\ row.high = Max(PricesOf(own))
            /\ row.open \in PricesOf(OldestOf(own))
            /\ row.close \in PricesOf(NewestOf(own))

\* No trade is left out of the volumes or counted twice, and the average price
\* is the quote volume over the base volume, so it lies between the lowest and
\* the highest price.
VolumesAreSums ==
    \A length \in Lengths: \A s \in Starts(length):
        LET own == TradesOf(s, length)
            row == Row(s, length)
        IN  /\ row.base = SumOf(own, LAMBDA o: o.amount)
            /\ row.quote = SumOf(own, LAMBDA o: o.quote)
            /\ row.average.num * row.base = row.average.den * row.quote
            /\ row.low * row.average.den <= row.average.num
            /\ row.average.num <= row.high * row.average.den

\* A long interval says what the short ones in it say together: charts of two
\* lengths never contradict each other, although each row has been aggregated
\* on its own.
LengthsAgree ==
    \A long, short \in Lengths:
        long % short = 0 =>
            \A s \in Starts(long):
                LET parts == Ascending({r \in Starts(short): s <= r /\ r < s + long})
                    row(n) == Row(parts[n], short)
                IN  /\ parts # <<>>
                    /\ Row(s, long).open = row(1).open
                    /\ Row(s, long).close = row(Len(parts)).close
                    /\ Row(s, long).high = Max({row(n).high: n \in DOMAIN parts})
                    /\ Row(s, long).low = Min({row(n).low: n \in DOMAIN parts})
                    /\ Row(s, long).base = Sum([n \in DOMAIN parts |-> row(n).base])

\* The answer has every interval that began since the start asked for, each
\* once, in order, up to the interval of the moment the answer is given, and each
\* with what has been read of its trades.  There are no more than the limit,
\* unless an interval began after the clock was read: such an interval comes in
\* addition, or, when as many rows as the limit were read, only these are shown,
\* and none with trades is left out for an older one.
SeriesIsWhole ==
    request = "intervals" /\ step = "rows" =>
        \A length \in Lengths, ask \in Limits:
            LET answer == GetIntervals(length, Limit(ask))
                from == StartAt(length, Limit(ask))
                began == {s \in 0..now: s % length = 0 /\ s >= from}
                late == {s \in began: s > asked}
                shown == {answer[n].start: n \in DOMAIN answer}
            IN  /\ Len(answer) <= Limit(ask) + Cardinality(late)
                /\ [n \in DOMAIN answer |-> answer[n].start] = Ascending(shown)
                /\ \/ shown = began
                   \/ /\ late # {} /\ Len(answer) = Limit(ask)
                      /\ shown \subseteq began \cap Starts(length)
                /\ \A s \in began \cap Starts(length): s \in shown \/ \A r \in shown: s < r
                /\ \A n \in DOMAIN answer: answer[n].interval = Row(answer[n].start, length)

\* A ticker is about the trades of the intervals that began in its window, and
\* about no older trade.  The last price is read before them by a query of its
\* own: if its trade is one of them, it lies between low and high, whatever has
\* been traded in between.
TickerIsRecent ==
    LET counted == {n \in DOMAIN orders: StartOf(orders[n].at, IntervalLength) >= Before(Tickers)}
    IN  request = "ticker" /\ step = "rows" =>
        /\ Ticker.base = SumOf(counted, LAMBDA o: o.amount)
        /\ Ticker.quote = SumOf(counted, LAMBDA o: o.quote)
        /\ counted # {} =>
            /\ Ticker.open \in PricesOf(OldestOf(counted))
            /\ Ticker.low = Min(PricesOf(counted)) /\ Ticker.high = Max(PricesOf(counted))
        /\ \A o \in last: StartOf(o.at, IntervalLength) >= Before(Tickers) =>
               Ticker.low <= o.price /\ o.price <= Ticker.high

\* app/service/sync/market.go:61: the market is dated a minute before its first
\* trade "to make sure first order is included", so whoever asks for the whole
\* life of the market is shown the interval of that trade.
FirstTradeIsShown ==
    \A length \in Lengths, ask \in Limits:
        LET first == StartOf(orders[1].at, length)
            answer == GetIntervals(length, Limit(ask))
        IN  /\ request = "intervals" /\ step = "rows" /\ orders # <<>>
            /\ market = CreatedAt(orders)
            /\ Before(Limit(ask) * length) <= first
            => \E n \in DOMAIN answer: answer[n].start = first
=============================================================================
