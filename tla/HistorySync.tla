---------------------------- MODULE HistorySync ----------------------------
(***************************************************************************)
(* History.SyncHistory (app/service/sync/history.go) for one market: the   *)
(* goroutines and commands that copy the trades of the chain into the      *)
(* table market_history, newest page first, under a lock that lives in the *)
(* memory of one operating system process.                                 *)
(*                                                                         *)
(* A trade is its position in the chain's history.  A row of the table is  *)
(* identified by the trade it holds and rows[t] counts the rows of t: the  *)
(* table has no key that would refuse a second one.                        *)
(***************************************************************************)
EXTENDS Naturals, Sequences, FiniteSets

CONSTANTS
    Worker,       \* goroutines and commands that call SyncHistory
    Process,      \* operating system processes
    ProcessOf,    \* the process each worker runs in
    Batch,        \* history orders asked for per page (batchSize)
    Gaps,         \* seconds that may pass from one trade to the next
    Convertible,  \* what converting a trade may answer: {TRUE} or BOOLEAN
    MaxTrades,    \* bound: trades the chain executes
    MaxFaults     \* bound: failed calls and crashes

ASSUME HistoryAssumption ==
    /\ ProcessOf \in [Worker -> Process]
    /\ Batch \in Nat \ {0}
    /\ Gaps \subseteq Nat
    /\ Convertible \subseteq BOOLEAN
    /\ MaxTrades \in Nat
    /\ MaxFaults \in Nat

VARIABLES
    chain,    \* the market's history on the chain, oldest first
    rows,     \* market_history: rows[t] is the number of rows holding trade t
    locked,   \* locked[p]: the mutex of the history key in process p
    pc,       \* what each worker does next
    last,     \* second of the last stored order read when the sync began
    key,      \* pagination key: the trade the next page begins with, or NoKey
    page,     \* the history orders of the page being handled
    target,   \* trades the chain held when the first page was served
    outcome,  \* what the worker's latest finished call returned
    faults    \* failures so far

vars == <<chain, rows, locked, pc, last, key, page, target, outcome, faults>>

Trade == 1..MaxTrades
NoKey == 0     \* the empty pagination key
NoOrder == 0   \* no stored order: seconds of trades are positive

-----------------------------------------------------------------------------
(* The chain, and what its paginated query answers. *)

SecondOf(t) == chain[t].at

\* A block executes a trade.  Seconds never go back.
Execute ==
    /\ Len(chain) < MaxTrades
    /\ \E gap \in Gaps, fine \in Convertible:
         LET now == IF chain = <<>> THEN 1 ELSE SecondOf(Len(chain)) + gap
         IN  chain' = Append(chain, [at |-> now, fine |-> fine])
    /\ UNCHANGED <<rows, locked, pc, last, key, page, target, outcome, faults>>

\* The page that starts at key k, newest first, and the key after it.
PageHead(k) == IF k = NoKey THEN Len(chain) ELSE k
PageAt(k) == {t \in 1..PageHead(k): t + Batch > PageHead(k)}

\* Mutants: a key computed without looking for the end, one that skips a trade.
NextKeyUnbounded(k) == PageHead(k) - Batch
NextKeySkipping(k) == IF PageHead(k) > Batch + 1 THEN PageHead(k) - Batch - 1 ELSE NoKey

NextKey(k) == IF PageHead(k) > Batch THEN PageHead(k) - Batch ELSE NoKey

-----------------------------------------------------------------------------
(* The table market_history. *)

Stored == {t \in 1..Len(chain): rows[t] > 0}

\* GetLastHistoryOrder: the second of the newest stored order, or NoOrder.
LastSeconds ==
    {s \in {NoOrder} \union {SecondOf(t): t \in Stored}: \A t \in Stored: SecondOf(t) <= s}

\* Mutants: the insert without the delete; a delete that begins a second early.
SaveWithoutDelete(list) ==
    [t \in Trade |-> rows[t] + (IF t \in list THEN 1 ELSE 0)]
DeleteSecondBefore(list) ==
    LET cleared == {SecondOf(t): t \in list} \union {SecondOf(t) - 1: t \in list}
    IN  [t \in Trade |->
            (IF t <= Len(chain) /\ SecondOf(t) \in cleared THEN 0 ELSE rows[t])
            + (IF t \in list THEN 1 ELSE 0)]

\* SaveMarketHistoryOrders: one transaction deletes the rows of the market
\* executed in the seconds of the list and inserts the list.
SaveMarketHistoryOrders(list) ==
    LET cleared == {SecondOf(t): t \in list}
    IN  [t \in Trade |->
            (IF t <= Len(chain) /\ SecondOf(t) \in cleared THEN 0 ELSE rows[t])
            + (IF t \in list THEN 1 ELSE 0)]

-----------------------------------------------------------------------------
(* SyncHistory. *)

\* Where a worker holds the lock of its process.
Inside == {"last", "fetch", "save"}

\* Mutant: a return that leaves the mutex locked.
ReturnLocked(w, answer) ==
    /\ pc' = [pc EXCEPT ![w] = "idle"]
    /\ outcome' = [outcome EXCEPT ![w] = answer]
    /\ page' = [page EXCEPT ![w] = {}]
    /\ UNCHANGED locked

\* return: the deferred Unlock, and the answer to the caller.
Return(w, answer) ==
    /\ pc' = [pc EXCEPT ![w] = "idle"]
    /\ locked' = [locked EXCEPT ![ProcessOf[w]] = FALSE]
    /\ outcome' = [outcome EXCEPT ![w] = answer]
    /\ page' = [page EXCEPT ![w] = {}]

Call(w) ==
    /\ pc[w] = "idle"
    /\ pc' = [pc EXCEPT ![w] = "lock"]
    /\ outcome' = [outcome EXCEPT ![w] = "none"]
    /\ UNCHANGED <<chain, rows, locked, last, key, page, target, faults>>

\* Mutant: no mutex to wait for.
NoLock(w) == w \in Worker

\* The mutex of the worker's process is free.
Free(w) == ~locked[ProcessOf[w]]

AcquireLock(w) ==
    /\ pc[w] = "lock"
    /\ Free(w)
    /\ locked' = [locked EXCEPT ![ProcessOf[w]] = TRUE]
    /\ pc' = [pc EXCEPT ![w] = "last"]
    /\ UNCHANGED <<chain, rows, last, key, page, target, outcome, faults>>

ReadLast(w) ==
    /\ pc[w] = "last"
    /\ \E s \in LastSeconds: last' = [last EXCEPT ![w] = s]
    /\ key' = [key EXCEPT ![w] = NoKey]
    /\ pc' = [pc EXCEPT ![w] = "fetch"]
    /\ UNCHANGED <<chain, rows, locked, page, target, outcome, faults>>

FetchPage(w) ==
    /\ pc[w] = "fetch"
    /\ target' = [target EXCEPT ![w] = IF key[w] = NoKey THEN Len(chain) ELSE @]
    /\ \/ /\ PageAt(key[w]) = {}
          /\ Return(w, "ok")
          /\ UNCHANGED <<key, rows>>
       \/ /\ PageAt(key[w]) # {}
          /\ page' = [page EXCEPT ![w] = PageAt(key[w])]
          /\ key' = [key EXCEPT ![w] = NextKey(key[w])]
          /\ pc' = [pc EXCEPT ![w] = "save"]
          /\ UNCHANGED <<rows, locked, outcome>>
    /\ UNCHANGED <<chain, last, faults>>

\* Mutant: the second of the last stored order is taken for complete.
UnsyncedAfter(w) == {t \in page[w]: \A u \in page[w]: u >= t => last[w] < SecondOf(u)}

\* syncHistoryList walks the page from its newest order and stops at the
\* first one older than the last stored order.
Unsynced(w) == {t \in page[w]: \A u \in page[w]: u >= t => last[w] <= SecondOf(u)}
ReachedLast(w) == Unsynced(w) # page[w]
Fine(list) == \A t \in list: chain[t].fine

\* One order of the page that cannot be converted fails the whole page.
RejectPage(w) ==
    /\ pc[w] = "save"
    /\ ~Fine(Unsynced(w))
    /\ Return(w, "error")
    /\ UNCHANGED <<chain, rows, last, key, target, faults>>

\* The page is committed; the loop ends at the last stored order or at the
\* end of the history, and asks for the next page otherwise.
SavePage(w) ==
    /\ pc[w] = "save"
    /\ Fine(Unsynced(w))
    /\ rows' = IF Unsynced(w) = {} THEN rows ELSE SaveMarketHistoryOrders(Unsynced(w))
    /\ \/ /\ ReachedLast(w) \/ key[w] = NoKey
          /\ Return(w, "ok")
       \/ /\ ~ReachedLast(w) /\ key[w] # NoKey
          /\ pc' = [pc EXCEPT ![w] = "fetch"]
          /\ page' = [page EXCEPT ![w] = {}]
          /\ UNCHANGED <<locked, outcome>>
    /\ UNCHANGED <<chain, last, key, target, faults>>

\* A call of the sync fails: the assets of the market (NewTypesConverter), the
\* last order, a page, the transaction, which is rolled back.
Fail(w) ==
    /\ faults < MaxFaults
    /\ faults' = faults + 1
    /\ pc[w] \in Inside
    /\ Return(w, "error")
    /\ UNCHANGED <<chain, rows, last, key, target>>

\* The process ends (log.Fatalln when no transaction can begin, a panic, a
\* restart): its locks and its goroutines are gone, the table stays.
Crash(p) ==
    /\ faults < MaxFaults
    /\ faults' = faults + 1
    /\ locked' = [locked EXCEPT ![p] = FALSE]
    /\ pc' = [w \in Worker |-> IF ProcessOf[w] = p THEN "idle" ELSE pc[w]]
    /\ page' = [w \in Worker |-> IF ProcessOf[w] = p THEN {} ELSE page[w]]
    /\ outcome' = [w \in Worker |-> IF ProcessOf[w] = p THEN "none" ELSE outcome[w]]
    /\ UNCHANGED <<chain, rows, last, key, target>>

-----------------------------------------------------------------------------
Init ==
    /\ chain = <<>>
    /\ rows = [t \in Trade |-> 0]
    /\ locked = [p \in Process |-> FALSE]
    /\ pc = [w \in Worker |-> "idle"]
    /\ last = [w \in Worker |-> NoOrder]
    /\ key = [w \in Worker |-> NoKey]
    /\ page = [w \in Worker |-> {}]
    /\ target = [w \in Worker |-> 0]
    /\ outcome = [w \in Worker |-> "none"]
    /\ faults = 0

Step(w) == ReadLast(w) \/ FetchPage(w) \/ RejectPage(w) \/ SavePage(w)

Next ==
    \/ Execute
    \/ \E w \in Worker: Call(w) \/ AcquireLock(w) \/ Step(w) \/ Fail(w)
    \/ \E p \in Process: Crash(p)

Spec == Init /\ [][Next]_vars

\* A goroutine that can run does, and a sync.Mutex is handed to a waiter that
\* has waited long enough (its starvation mode).  Nobody has to call.
Fairness ==
    \A w \in Worker: WF_vars(Step(w)) /\ SF_vars(AcquireLock(w))

FairSpec == Spec /\ Fairness

-----------------------------------------------------------------------------
TypeOK ==
    /\ chain \in Seq([at: Nat \ {0}, fine: BOOLEAN])
    /\ Len(chain) <= MaxTrades
    /\ rows \in [Trade -> Nat]
    /\ locked \in [Process -> BOOLEAN]
    /\ pc \in [Worker -> {"idle", "lock"} \union Inside]
    /\ last \in [Worker -> Nat]
    /\ key \in [Worker -> Nat]
    /\ page \in [Worker -> SUBSET Trade]
    /\ target \in [Worker -> Nat]
    /\ outcome \in [Worker -> {"none", "ok", "error"}]
    /\ faults \in 0..MaxFaults

\* A trade is stored at most once, whatever the pages, processes and crashes:
\* the transaction that inserts a trade clears its second first.
NoDuplicateTrades == \A t \in Trade: rows[t] <= 1

\* Inside one process the syncs of a market exclude each other.
OneSyncPerProcess ==
    \A v, w \in Worker:
        v # w /\ ProcessOf[v] = ProcessOf[w] => ~(pc[v] \in Inside /\ pc[w] \in Inside)

\* A sync that returned no error has stored every trade the chain held when it
\* asked for its first page, and they are still stored.
SuccessIsComplete ==
    \A w \in Worker: outcome[w] = "ok" => 1..target[w] \subseteq Stored

\* When no sync runs the table holds the history without a hole: the newest
\* stored trade bounds what the next sync looks at.
NoHoles ==
    (\A w \in Worker: pc[w] \notin Inside) =>
        \A t \in Stored: 1..t \subseteq Stored

\* No step takes a stored trade out of the table: the rows a transaction
\* deletes are inserted again by the same transaction.
NeverForgets == [][Stored \subseteq Stored']_vars

\* Every call returns: the lock is released on every path out of the sync.
EveryCallReturns == \A w \in Worker: pc[w] = "lock" ~> pc[w] = "idle"

\* A call stores what the chain held when it was made: what the listener
\* relies on when it answers an executed order with one call.
CallStores ==
    \A w \in Worker, t \in Trade:
        (pc[w] = "lock" /\ t <= Len(chain)) ~> (t <= Len(chain) /\ t \in Stored)

(* What is promised: the stored history as a prefix of the chain's. *)

Prefix == CHOOSE n \in 0..Len(chain): 1..n \subseteq Stored /\ n + 1 \notin Stored

Promised == [w \in Worker |-> IF outcome[w] = "ok" THEN target[w] ELSE 0]

Archive == INSTANCE TradeArchive
    WITH Caller <- Worker, published <- Len(chain), archived <- Prefix, promised <- Promised

\* Read through its longest complete prefix, the table behaves as an archive
\* that only grows and that vouches for what a successful call covered, in
\* spite of pages being stored newest first.
ImplementsArchive == Archive!Spec
=============================================================================
