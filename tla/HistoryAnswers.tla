--------------------------- MODULE HistoryAnswers ---------------------------
(***************************************************************************)
(* The rows of market_history as the HTTP process answers from them while  *)
(* syncs add and replace rows: HistoryService.GetHistory                   *)
(* (app/service/dex/history.go) over GetHistoryBy                          *)
(* (app/repository/market_history.go).  A client that wants more than one  *)
(* answer holds asks again for what is no newer than the oldest trade it   *)
(* was shown.                                                              *)
(*                                                                         *)
(* A request names a market, or a ticker, and a span of time.  The filters *)
(* by type and address, which only say which rows are meant, are left out; *)
(* a request with an address is valid without a market.                    *)
(***************************************************************************)
EXTENDS HistorySync, FiniteSetsExt

CONSTANTS
    Client,        \* clients that read the market's history
    OtherRows,     \* the seconds of the rows of another market
    Naming,        \* what clients name the market by: "market_id", "ticker_id"
    Asked,         \* the limits clients ask for, 0 for none
    DefaultLimit,  \* defaultLimit
    MaxLimit       \* maxLimit

ASSUME AnswersAssumption ==
    /\ OtherRows \subseteq Nat \ {0}
    /\ Naming \subseteq {"market_id", "ticker_id"}
    /\ Asked \subseteq Nat
    /\ {DefaultLimit, MaxLimit} \subseteq Nat \ {0}

VARIABLE reading    \* reading[c]: how far client c has come

historyVars == <<vars, reading>>

This == "this market"
Other == "the other market"
Nobody == "no market"    \* the empty string

\* owed is what was stored when the client began and it has not seen yet; end is
\* the second its next page ends with.
NotReading == [stage |-> "idle", by |-> "market_id", limit |-> 0, end |-> 0, owed |-> {}]

-----------------------------------------------------------------------------
(* A request and its answer. *)

\* NewHistoryParams.
LimitFor(asked) == IF asked = 0 THEN DefaultLimit ELSE Min({asked, MaxLimit})

\* HistoryParams.Validate of a request without an address.
Valid(params) == params.market # Nobody \/ params.ticker # Nobody

\* The rows of the table, a trade of this market by its number.
Table ==
    {[market |-> This, at |-> SecondOf(t), trade |-> t]: t \in Stored} \union
    {[market |-> Other, at |-> second, trade |-> 0]: second \in OtherRows}

\* Mutant: the end of the span is not part of it.
BeforeEnd(params, row) ==
    params.start > 0 /\ params.end > 0 => params.start <= row.at /\ row.at < params.end

\* BETWEEN, when both ends are given.
InSpan(params, row) ==
    params.start > 0 /\ params.end > 0 => params.start <= row.at /\ row.at <= params.end

\* WHERE: the market, if it is named by its id, and the span.  Nothing looks at
\* the ticker: a request that names its market so selects the rows of all.
Selected(params) ==
    {row \in Table: (params.market # Nobody => row.market = params.market) /\ InSpan(params, row)}

\* ORDER BY executed_at DESC LIMIT: the newest rows.  Which of the oldest second
\* are among them is up to the database.
GetHistoryBy(params) ==
    LET rs == Selected(params)
    IN  {answer \in kSubset(Min({params.limit, Cardinality(rs)}), rs):
            \A a \in answer, b \in rs \ answer: a.at >= b.at}

-----------------------------------------------------------------------------
(* A client that reads the whole history, a page at a time. *)

BeginReading(c) ==
    /\ reading[c].stage = "idle"
    /\ \E by \in Naming, asked \in Asked:
         reading' = [reading EXCEPT ![c] = [stage |-> "page", by |-> by, limit |-> LimitFor(asked),
                                            end |-> 0, owed |-> Stored]]
    /\ UNCHANGED vars

\* The newest page has no span; the next ones end with the second of the oldest
\* trade shown.  The client stops at an answer that is not full or has nothing
\* older.
Parameters(c) ==
    [market |-> IF reading[c].by = "market_id" THEN This ELSE Nobody,
     ticker |-> IF reading[c].by = "ticker_id" THEN This ELSE Nobody,
     limit |-> reading[c].limit,
     start |-> IF reading[c].end = 0 THEN 0 ELSE 1, end |-> reading[c].end]

\* HistoryHandler, GetHistory: one query, at one moment of the table.
GetHistory(c) ==
    /\ reading[c].stage = "page"
    /\ Valid(Parameters(c))
    /\ \E answer \in GetHistoryBy(Parameters(c)):
         LET oldest == Min({row.at: row \in answer})
             final == Cardinality(answer) < reading[c].limit \/ oldest = reading[c].end
         IN  reading' = [reading EXCEPT
                 ![c].stage = IF final THEN "done" ELSE "page",
                 ![c].end = IF final THEN 0 ELSE oldest,
                 ![c].owed = @ \ {row.trade: row \in answer}]
    /\ UNCHANGED vars

HistoryInit ==
    /\ Init
    /\ reading = [c \in Client |-> NotReading]

HistoryNext ==
    \/ Next /\ UNCHANGED reading
    \/ \E c \in Client: BeginReading(c) \/ GetHistory(c)

HistorySpec == HistoryInit /\ [][HistoryNext]_historyVars

\* What is fair about the syncs is fair next to any number of readers.
HistoryFairSpec == HistorySpec /\ Fairness

-----------------------------------------------------------------------------
\* Fewer trades than an answer holds share one second.
Spread(limit) ==
    \A t \in 1..Len(chain): Cardinality({u \in 1..Len(chain): SecondOf(u) = SecondOf(t)}) < limit

\* A client that reads back in time misses no trade that was stored when it
\* began, although syncs delete and insert rows between its pages and the
\* trades of a second may come on two pages: the ends of a span are part of it.
\* Only a second with more trades than an answer holds can stop it.
PagingMissesNothing ==
    \A c \in Client:
        reading[c].stage = "done" /\ Spread(reading[c].limit) => reading[c].owed = {}
=============================================================================
