----------------------------- MODULE OrderSync -----------------------------
(***************************************************************************)
(* Order.SyncMarket (app/service/sync/order.go) for one market, called by  *)
(* the listener for every event that changed the market's order book: the  *)
(* buy side and then the sell side are read from the chain, which may have *)
(* moved between the two, and replace the rows of market_order.            *)
(*                                                                         *)
(* An order is its side and its price level.                               *)
(***************************************************************************)
EXTENDS Naturals, Sequences, FiniteSets

CONSTANTS
    Worker,       \* goroutines and commands that call SyncMarket
    Process,      \* operating system processes
    ProcessOf,    \* the process each worker runs in
    Books,        \* the order books the chain can hold: [buy, sell: sets of levels]
    Unreadable,   \* levels that cannot be converted
    MaxHeight,    \* bound: heights of the chain
    MaxFaults     \* bound: failed calls and crashes

Side == {"buy", "sell"}

ASSUME OrderAssumption ==
    /\ ProcessOf \in [Worker -> Process]
    /\ \A b \in Books: DOMAIN b = Side
    /\ MaxHeight \in Nat \ {0}
    /\ MaxFaults \in Nat

VARIABLES
    books,    \* books[h]: the order book of the market at height h
    events,   \* events of the market not yet handled
    rows,     \* market_order: [side, level]
    asOf,     \* history variable: the height each side of the table was read at
    locked,   \* locked[p]: the mutex of the order key in process p
    pc,       \* what each worker does next
    height,   \* height[w][s]: where worker w read side s, 0 before it did
    faults    \* failures so far

vars == <<books, events, rows, asOf, locked, pc, height, faults>>

Level == UNION {b[s]: b \in Books, s \in Side}
Row == [side: Side, level: Level]
Unread == [s \in Side |-> 0]

\* What a worker that has read both sides got.
Fetched(w) ==
    {r \in Row: r.level \in books[height[w][r.side]][r.side]}

\* convertAggregatedOrder: an order that cannot be converted is skipped.
Converted(w) == {r \in Fetched(w): r.level \notin Unreadable}

-----------------------------------------------------------------------------
\* A block changes the book and emits the event.
Block ==
    /\ Len(books) < MaxHeight
    /\ \E b \in Books \ {books[Len(books)]}: books' = Append(books, b)
    /\ events' = events + 1
    /\ UNCHANGED <<rows, asOf, locked, pc, height, faults>>

-----------------------------------------------------------------------------
(* SyncMarket. *)

Inside == {"buy", "sell", "upsert"}

Return(w) ==
    /\ pc' = [pc EXCEPT ![w] = "idle"]
    /\ locked' = [locked EXCEPT ![ProcessOf[w]] = FALSE]
    /\ height' = [height EXCEPT ![w] = Unread]

\* Mutants: no mutex to wait for, and a goroutine without an event.
NoLock(w) == w \in Worker
HandleNothing(w) ==
    /\ pc[w] = "idle"
    /\ events' = events - 1
    /\ pc' = [pc EXCEPT ![w] = "lock"]
    /\ UNCHANGED <<books, rows, asOf, locked, height, faults>>

Free(w) == ~locked[ProcessOf[w]]

\* The listener starts a goroutine for an event.
Handle(w) ==
    /\ pc[w] = "idle"
    /\ events > 0
    /\ events' = events - 1
    /\ pc' = [pc EXCEPT ![w] = "lock"]
    /\ UNCHANGED <<books, rows, asOf, locked, height, faults>>

AcquireLock(w) ==
    /\ pc[w] = "lock"
    /\ Free(w)
    /\ locked' = [locked EXCEPT ![ProcessOf[w]] = TRUE]
    /\ pc' = [pc EXCEPT ![w] = "buy"]
    /\ UNCHANGED <<books, events, rows, asOf, height, faults>>

\* GetActiveBuyOrders, GetActiveSellOrders: each answers at the height the
\* chain has when it is called.  That they ask for 10000 levels at most is left
\* out: books are smaller.
Fetch(w, side, next) ==
    /\ pc[w] = side
    /\ height' = [height EXCEPT ![w][side] = Len(books)]
    /\ pc' = [pc EXCEPT ![w] = next]
    /\ UNCHANGED <<books, events, rows, asOf, locked, faults>>

\* syncList: an empty book, or one of which nothing can be converted, ends
\* the sync without a word to the database.
NothingToStore(w) ==
    /\ pc[w] = "upsert"
    /\ Converted(w) = {}
    /\ Return(w)
    /\ UNCHANGED <<books, events, rows, asOf, faults>>

\* Mutant: the list is inserted and nothing is deleted.
InsertOnly(w) ==
    /\ pc[w] = "upsert"
    /\ Converted(w) # {}
    /\ rows' = rows \union Converted(w)
    /\ asOf' = height[w]
    /\ Return(w)
    /\ UNCHANGED <<books, events, faults>>

\* Upsert: one transaction deletes the orders of the market and inserts the list.
Upsert(w) ==
    /\ pc[w] = "upsert"
    /\ Converted(w) # {}
    /\ rows' = Converted(w)
    /\ asOf' = height[w]
    /\ Return(w)
    /\ UNCHANGED <<books, events, faults>>

\* A side, the assets of the market or the transaction fails: the sync ends.
Fail(w) ==
    /\ faults < MaxFaults
    /\ faults' = faults + 1
    /\ pc[w] \in Inside
    /\ Return(w)
    /\ UNCHANGED <<books, events, rows, asOf>>

\* The process ends; the events its goroutines were handling are not redelivered.
Crash(p) ==
    /\ faults < MaxFaults
    /\ faults' = faults + 1
    /\ locked' = [locked EXCEPT ![p] = FALSE]
    /\ pc' = [w \in Worker |-> IF ProcessOf[w] = p THEN "idle" ELSE pc[w]]
    /\ height' = [w \in Worker |-> IF ProcessOf[w] = p THEN Unread ELSE height[w]]
    /\ UNCHANGED <<books, events, rows, asOf>>

-----------------------------------------------------------------------------
Init ==
    /\ \E b \in Books: books = <<b>>
    /\ events = 1
    /\ rows = {}
    /\ asOf = Unread
    /\ locked = [p \in Process |-> FALSE]
    /\ pc = [w \in Worker |-> "idle"]
    /\ height = [w \in Worker |-> Unread]
    /\ faults = 0

Step(w) ==
    \/ Fetch(w, "buy", "sell")
    \/ Fetch(w, "sell", "upsert")
    \/ NothingToStore(w)
    \/ Upsert(w)

Next ==
    \/ Block
    \/ \E w \in Worker: Handle(w) \/ AcquireLock(w) \/ Step(w) \/ Fail(w)
    \/ \E p \in Process: Crash(p)

Spec == Init /\ [][Next]_vars

\* Every event gets its goroutine, goroutines run, and the mutex is fair to
\* those that wait (sync.Mutex starvation mode).
FairSpec ==
    /\ Spec
    /\ WF_vars(\E w \in Worker: Handle(w))
    /\ \A w \in Worker: WF_vars(Step(w)) /\ SF_vars(AcquireLock(w))

-----------------------------------------------------------------------------
TypeOK ==
    /\ books \in Seq(Books) /\ Len(books) \in 1..MaxHeight
    /\ events \in 0..MaxHeight
    /\ rows \subseteq Row
    /\ asOf \in [Side -> 0..MaxHeight]
    /\ locked \in [Process -> BOOLEAN]
    /\ pc \in [Worker -> {"idle", "lock"} \union Inside]
    /\ height \in [Worker -> [Side -> 0..MaxHeight]]
    /\ faults \in 0..MaxFaults

Latest == books[Len(books)]

StoredBook == [s \in Side |-> {r.level: r \in {r \in rows: r.side = s}}]
LatestBook == [s \in Side |-> Latest[s] \ Unreadable]

Table == INSTANCE OrderTable
    WITH Book <- Books, Hidden <- Unreadable, chain <- books, table <- StoredBook

\* However the goroutines of the listener overlap and fail, readers of the table
\* see a register per side that moves from book to book and only forward: a
\* side is never made of two books, a sync that read early never overwrites one
\* that read late, and the two sides change in one step.
ImplementsOrderTable == Table!Spec

\* When the chain has come to rest and the events have been handled, the table
\* holds the latest book.
AtRest == Len(books) = MaxHeight /\ events = 0 /\ \A w \in Worker: pc[w] = "idle"
RestsOnLatest == AtRest => StoredBook = LatestBook

\* The events of a book that no longer changes and has an order that can be
\* stored are handled, and then the table holds that book for good, unless a
\* call failed.
SettlesOnLatest ==
    (Len(books) = MaxHeight /\ \E s \in Side: LatestBook[s] # {})
        ~> (faults > 0 \/ [](StoredBook = LatestBook \/ faults > 0))
=============================================================================
