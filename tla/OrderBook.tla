----------------------------- MODULE OrderBook -----------------------------
(***************************************************************************)
(* The rows of market_order as the HTTP process answers from them while    *)
(* the listener's process replaces them: OrdersService.GetMarketOrders     *)
(* (app/service/dex/orders.go), whose two goroutines read a side each, and *)
(* the bid and the ask of Tickers.buildTicker (app/service/dex/tickers.go),*)
(* read one after the other.  No transaction holds the two reads together. *)
(***************************************************************************)
EXTENDS OrderSync, SequencesExt

CONSTANTS
    Client,       \* requests that may be answered at the same time
    Depths,       \* the depths a request may ask for
    MaxQueries    \* bound: requests

\* Levels are ordered as their prices are, and a book is finite.
ASSUME BookAssumption ==
    /\ \A b \in Books: \A s \in Side: b[s] \subseteq Nat /\ IsFiniteSet(b[s])
    /\ Depths \subseteq Nat
    /\ MaxQueries \in Nat

VARIABLES
    query,      \* query[c]: the request c is answering, or NoQuery
    queries     \* requests so far

bookVars == <<vars, query, queries>>

\* limit is the number of rows asked for of each side, 0 for all of them; since
\* says how old each side of the table was when the request came in.
NoQuery == [kind |-> "none", limit |-> 0, read |-> {}, since |-> Unread, got |-> [s \in Side |-> <<>>]]

Better(side, a, b) == IF side = "buy" THEN a > b ELSE a < b

\* The rows of a side, and the lists that may be made of them.
RowsOf(side) == {r \in rows: r.side = side}
Lists(side) == [1..Cardinality(RowsOf(side)) -> RowsOf(side)]

\* Mutant: both sides are sorted by ascending prices.
Ascending(side) ==
    CHOOSE list \in Lists(side): \A i, j \in DOMAIN list: i < j => list[i].level < list[j].level

\* ORDER BY price_dec, descending for the buys: the list in which every row is
\* better than those after it.
Sorted(side) ==
    CHOOSE list \in Lists(side):
        \A i, j \in DOMAIN list: i < j => Better(side, list[i].level, list[j].level)

\* LIMIT, which is left out of the query for a limit of 0.
Limited(seq, limit) == IF limit > 0 /\ limit < Len(seq) THEN SubSeq(seq, 1, limit) ELSE seq

\* GetMarketOrdersWithDepth: buys are turned round, so that prices ascend.
GetMarketOrdersWithDepth(side, limit) ==
    LET best == Limited(Sorted(side), limit)
    IN  IF side = "buy" THEN Reverse(best) ELSE best

\* GetHighestBuy, GetLowestSell.
BestOrder(side) == Limited(Sorted(side), 1)

Ask(c, kind, limit) ==
    /\ query[c] = NoQuery
    /\ queries < MaxQueries
    /\ queries' = queries + 1
    /\ query' = [query EXCEPT ![c] = [NoQuery EXCEPT !.kind = kind, !.limit = limit, !.since = asOf]]
    /\ UNCHANGED vars

\* getMarketOrders: half of the depth is asked of each side.
GetMarketOrders(c) == \E depth \in Depths: Ask(c, "orders", depth \div 2)

BuildTicker(c) == Ask(c, "ticker", 1)

\* The goroutines of an orders request read in any order; a ticker has the bid
\* before it looks for the ask.
ReadSide(c, side) ==
    LET q == query[c]
    IN  /\ side \notin q.read
        /\ \/ /\ q.kind = "orders"
              /\ query' = [query EXCEPT ![c].got[side] = GetMarketOrdersWithDepth(side, q.limit),
                                        ![c].read = @ \union {side}]
           \/ /\ q.kind = "ticker" /\ (side = "sell" => "buy" \in q.read)
              /\ query' = [query EXCEPT ![c].got[side] = BestOrder(side),
                                        ![c].read = @ \union {side}]
        /\ UNCHANGED <<vars, queries>>

\* Both sides have been read, or one of the reads fails and there is no answer.
Respond(c) ==
    /\ query[c] # NoQuery
    /\ \/ query[c].read = Side /\ UNCHANGED faults
       \/ query[c].read # Side /\ faults < MaxFaults /\ faults' = faults + 1
    /\ query' = [query EXCEPT ![c] = NoQuery]
    /\ UNCHANGED <<books, events, rows, asOf, locked, pc, height, queries>>

BookInit ==
    /\ Init
    /\ query = [c \in Client |-> NoQuery]
    /\ queries = 0

BookNext ==
    \/ Next /\ UNCHANGED <<query, queries>>
    \/ \E c \in Client:
           \/ GetMarketOrders(c) \/ BuildTicker(c)
           \/ \E side \in Side: ReadSide(c, side)
           \/ Respond(c)

BookSpec == BookInit /\ [][BookNext]_bookVars

\* What is fair about the syncs is fair next to any number of requests.
BookFairSpec ==
    /\ BookSpec
    /\ WF_vars(\E w \in Worker: Handle(w))
    /\ \A w \in Worker: WF_vars(Step(w)) /\ SF_vars(AcquireLock(w))

-----------------------------------------------------------------------------
BookTypeOK ==
    /\ TypeOK
    /\ query \in [Client -> [kind: {"none", "orders", "ticker"}, limit: Nat, read: SUBSET Side,
                             since: [Side -> 0..MaxHeight], got: [Side -> Seq(Row)]]]
    /\ queries \in 0..MaxQueries

\* However the syncs move the table during a request, each side of its answer
\* is the top of one book of the chain, by ascending prices, of a height no
\* older than what was stored when the request came in.  A side is answered
\* empty only if nothing of it was stored before the request or the chain had
\* none of it.
AnswersAreWhole ==
    \A c \in Client: \A s \in query[c].read:
        LET got == query[c].got[s]
            shown == {got[i].level: i \in DOMAIN got}
            limit == query[c].limit
        IN  \E h \in query[c].since[s]..Len(books):
                LET side == IF h = 0 THEN {} ELSE books[h][s] \ Unreadable
                IN  /\ \A i, j \in DOMAIN got: i < j => got[i].level < got[j].level
                    /\ shown \subseteq side
                    /\ \A hidden \in side \ shown:
                           Len(got) = limit /\ \A level \in shown: Better(s, level, hidden)
=============================================================================
