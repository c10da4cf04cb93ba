---------------------------- MODULE IntervalSync ----------------------------
(***************************************************************************)
(* IntervalSync.SyncIntervals (app/service/sync/interval.go) for one       *)
(* market: the stored trades are aggregated into intervals of every        *)
(* length, the intervals are written over the stored ones and the trades   *)
(* are marked as added, while the history sync, under another lock, keeps  *)
(* deleting and inserting rows of market_history.                          *)
(*                                                                         *)
(* Trade t executes in second t.  What an interval row says is the set of  *)
(* trades it aggregates.  The ids of the rows are left out: a transaction  *)
(* that replaces a row gives it a new id, so the ids a sync has read are   *)
(* the trades it has read less the ones replaced since.                    *)
(***************************************************************************)
EXTENDS Integers, FiniteSets, FiniteSetsExt

CONSTANTS
    Worker,      \* goroutines and commands that call SyncIntervals
    Process,     \* operating system processes
    ProcessOf,   \* the process each worker runs in
    Trades,      \* bound: trades of the market
    Lengths,     \* the durations of the intervals: a multiple of all is among them
    RowLimits,   \* what the limit of GetByExecutedAt (50000) may be
    SaveBatch,   \* intervals written per statement (1000)
    MarkBatch,   \* trades marked per statement (1000)
    MaxFaults    \* bound: failed calls and crashes

ASSUME IntervalAssumption ==
    /\ ProcessOf \in [Worker -> Process]
    /\ Trades \in Nat
    /\ Lengths \subseteq Nat \ {0}
    /\ \E day \in Lengths: \A length \in Lengths: day % length = 0
    /\ RowLimits \union {SaveBatch, MarkBatch} \subseteq Nat \ {0}
    /\ MaxFaults \in Nat

VARIABLES
    limit,   \* rows GetByExecutedAt returns at most
    status,  \* status[t]: no row of t, a row not added to intervals, or an added one
    saved,   \* market_history_interval: the trades each interval row aggregates
    locked,  \* locked[p]: the mutex of the interval key in process p
    pc,      \* what each worker does next
    from,    \* first second of the day the sync reads from, 0 while it has none
    loaded,  \* the trades read from the history
    toSave,  \* intervals still to be written
    toMark,  \* the ids read, in batches, still to be marked: one goroutine each
    partial, \* history: the intervals whose last write failed, or was of rows
             \* that the limit may have cut off inside the interval
    faults   \* failures so far

vars == <<limit, status, saved, locked, pc, from, loaded, toSave, toMark, partial, faults>>

Trade == 1..Trades
Stored == {t \in Trade: status[t] # "absent"}
Fresh == {t \in Trade: status[t] = "fresh"}
Added == {t \in Trade: status[t] = "added"}

\* Mutant: an interval that is not aligned.
StartUnaligned(second, length) == second - length

\* GetTimestampInterval: the start of the interval of a length that holds a second.
StartOf(second, length) == (second \div length) * length
Interval == {<<length, StartOf(t, length)>>: length \in Lengths, t \in Trade}
Holds(i, t) == StartOf(t, i[1]) = i[2]

\* Mutant: GetBiggestDuration answers another duration.
SmallestDuration == Min(Lengths)

BiggestDuration == Max(Lengths)

-----------------------------------------------------------------------------
(* The history sync beside it. *)

\* SaveMarketHistoryOrders replaces or adds the rows of a run of trades.
\* The rows are new: not added, and with ids that nobody has read.
Replace(list) ==
    /\ status' = [t \in Trade |-> IF t \in list THEN "fresh" ELSE status[t]]
    /\ toMark' = [w \in Worker |-> {batch \ list: batch \in toMark[w]}]

HistoryTransaction ==
    /\ \E low, high \in Trade: low <= high /\ Replace(low..high)
    /\ UNCHANGED <<limit, saved, locked, pc, from, loaded, toSave, partial, faults>>

-----------------------------------------------------------------------------
(* SyncIntervals. *)

Inside == {"oldest", "read", "save", "mark"}

\* Mutants: a return that leaves the mutex locked, and no mutex to wait for.
KeepLock(w) == UNCHANGED locked
NoLock(w) == w \in Worker

Free(w) == ~locked[ProcessOf[w]]
Unlock(w) == locked' = [locked EXCEPT ![ProcessOf[w]] = FALSE]
Goto(w, label) == pc' = [pc EXCEPT ![w] = label]

Call(w) ==
    /\ pc[w] = "idle"
    /\ Goto(w, "lock")
    /\ UNCHANGED <<limit, status, saved, locked, from, loaded, toSave, toMark, partial, faults>>

AcquireLock(w) ==
    /\ pc[w] = "lock"
    /\ Free(w)
    /\ locked' = [locked EXCEPT ![ProcessOf[w]] = TRUE]
    /\ Goto(w, "oldest")
    /\ UNCHANGED <<limit, status, saved, from, loaded, toSave, toMark, partial, faults>>

\* GetOldestNotAddedToInterval.  Nothing to add is answered with an error.
ReadOldest(w) ==
    /\ pc[w] = "oldest"
    /\ \/ /\ Fresh = {}
          /\ Unlock(w) /\ Goto(w, "idle")
          /\ UNCHANGED from
       \/ /\ Fresh # {}
          /\ from' = [from EXCEPT ![w] = StartOf(Min(Fresh), BiggestDuration)]
          /\ Goto(w, "read")
          /\ UNCHANGED locked
    /\ UNCHANGED <<limit, status, saved, loaded, toSave, toMark, partial, faults>>

\* GetByExecutedAt: the oldest trades stored from a second on, up to the limit.
FirstFrom(second) ==
    {t \in Stored: t >= second /\ Cardinality({u \in Stored: second <= u /\ u < t}) < limit}

\* The intervals the trades fall into, of every length: interval.Map.
IntervalsOf(trades) == {i \in Interval: \E t \in trades: Holds(i, t)}

\* SplitIntSlice: consecutive trades, MarkBatch in each.
Rank(t, trades) == Cardinality({u \in trades: u < t})
MarkBatches(trades) ==
    {{t \in trades: Rank(t, trades) \div MarkBatch = Rank(u, trades) \div MarkBatch}: u \in trades}

\* The ids to mark are those of the rows as they are now.
ReadRows(w) ==
    /\ pc[w] = "read"
    /\ LET rows == FirstFrom(from[w])
       IN  /\ loaded' = [loaded EXCEPT ![w] = rows]
           /\ toSave' = [toSave EXCEPT ![w] = IntervalsOf(rows)]
           /\ toMark' = [toMark EXCEPT ![w] = MarkBatches(rows)]
    /\ from' = [from EXCEPT ![w] = 0]
    /\ Goto(w, "save")
    /\ UNCHANGED <<limit, status, saved, locked, partial, faults>>

\* A batch of the intervals, in no order: they come out of a map.
Batches(w) ==
    {b \in SUBSET toSave[w]: b # {} /\ Cardinality(b) = Min({SaveBatch, Cardinality(toSave[w])})}

\* After the last batch the goroutines that mark the trades are started.
BatchDone(w, b) ==
    /\ toSave' = [toSave EXCEPT ![w] = @ \ b]
    /\ IF toSave[w] = b THEN Goto(w, "mark") ELSE UNCHANGED pc

\* The intervals of the last row of an answer that is as long as it may be.
CutOff(w) == {i \in Interval: Cardinality(loaded[w]) = limit /\ Holds(i, Max(loaded[w]))}

\* ON DUPLICATE KEY UPDATE: what was stored for the interval is overwritten.
SaveIntervals(w) ==
    /\ pc[w] = "save"
    /\ \E b \in Batches(w):
         /\ saved' = [i \in Interval |->
                        IF i \in b THEN {t \in loaded[w]: Holds(i, t)} ELSE saved[i]]
         /\ partial' = (partial \ b) \union (b \intersect CutOff(w))
         /\ BatchDone(w, b)
    /\ UNCHANGED <<limit, status, locked, from, loaded, toMark, faults>>

\* A batch that cannot be written is logged, and the sync goes on.
SaveFails(w) ==
    /\ faults < MaxFaults
    /\ faults' = faults + 1
    /\ pc[w] = "save"
    /\ \E b \in Batches(w): partial' = partial \union b /\ BatchDone(w, b)
    /\ UNCHANGED <<limit, status, saved, locked, from, loaded, toMark>>

\* MarkAsAddedToInterval, by id: rows replaced since they were read stay fresh.
MarkAdded(w) ==
    /\ pc[w] = "mark"
    /\ \E b \in toMark[w]:
         /\ status' = [t \in Trade |-> IF t \in b THEN "added" ELSE status[t]]
         /\ toMark' = [toMark EXCEPT ![w] = @ \ {b}]
    /\ UNCHANGED <<limit, saved, locked, pc, from, loaded, toSave, partial, faults>>

\* A batch that cannot be marked is logged.
MarkFails(w) ==
    /\ faults < MaxFaults
    /\ faults' = faults + 1
    /\ pc[w] = "mark"
    /\ \E b \in toMark[w]: toMark' = [toMark EXCEPT ![w] = @ \ {b}]
    /\ UNCHANGED <<limit, status, saved, locked, pc, from, loaded, toSave, partial>>

\* Every goroutine is done (wg.Wait): the sync returns.
Return(w) ==
    /\ pc[w] = "mark"
    /\ toMark[w] = {}
    /\ Unlock(w) /\ Goto(w, "idle")
    /\ loaded' = [loaded EXCEPT ![w] = {}]
    /\ UNCHANGED <<limit, status, saved, from, toSave, toMark, partial, faults>>

\* One of the two reads fails and the sync returns the error.
ReadFails(w) ==
    /\ faults < MaxFaults
    /\ faults' = faults + 1
    /\ pc[w] \in {"oldest", "read"}
    /\ Unlock(w) /\ Goto(w, "idle")
    /\ from' = [from EXCEPT ![w] = 0]
    /\ UNCHANGED <<limit, status, saved, loaded, toSave, toMark, partial>>

\* The process ends at any point.
Crash(p) ==
    LET gone(w) == ProcessOf[w] = p
    IN  /\ faults < MaxFaults
        /\ faults' = faults + 1
        /\ locked' = [locked EXCEPT ![p] = FALSE]
        /\ pc' = [w \in Worker |-> IF gone(w) THEN "idle" ELSE pc[w]]
        /\ from' = [w \in Worker |-> IF gone(w) THEN 0 ELSE from[w]]
        /\ loaded' = [w \in Worker |-> IF gone(w) THEN {} ELSE loaded[w]]
        /\ toSave' = [w \in Worker |-> IF gone(w) THEN {} ELSE toSave[w]]
        /\ toMark' = [w \in Worker |-> IF gone(w) THEN {} ELSE toMark[w]]
        /\ UNCHANGED <<limit, status, saved, partial>>

-----------------------------------------------------------------------------
Init ==
    /\ limit \in RowLimits
    /\ status = [t \in Trade |-> "absent"]
    /\ saved = [i \in Interval |-> {}]
    /\ locked = [p \in Process |-> FALSE]
    /\ pc = [w \in Worker |-> "idle"]
    /\ from = [w \in Worker |-> 0]
    /\ loaded = [w \in Worker |-> {}]
    /\ toSave = [w \in Worker |-> {}]
    /\ toMark = [w \in Worker |-> {}]
    /\ partial = {}
    /\ faults = 0

Step(w) == ReadOldest(w) \/ ReadRows(w) \/ SaveIntervals(w) \/ MarkAdded(w) \/ Return(w)

Next ==
    \/ HistoryTransaction
    \/ \E w \in Worker:
         Call(w) \/ AcquireLock(w) \/ Step(w) \/ SaveFails(w) \/ MarkFails(w) \/ ReadFails(w)
    \/ \E p \in Process: Crash(p)

Spec == Init /\ [][Next]_vars

\* A goroutine that can run does, and a sync.Mutex is handed to a waiter that
\* has waited long enough (its starvation mode).
FairSpec == Spec /\ \A w \in Worker: WF_vars(Step(w)) /\ SF_vars(AcquireLock(w))

-----------------------------------------------------------------------------
TypeOK ==
    /\ limit \in RowLimits
    /\ status \in [Trade -> {"absent", "fresh", "added"}]
    /\ saved \in [Interval -> SUBSET Trade]
    /\ locked \in [Process -> BOOLEAN]
    /\ pc \in [Worker -> {"idle", "lock"} \union Inside]
    /\ from \in [Worker -> Nat]
    /\ loaded \in [Worker -> SUBSET Trade]
    /\ toSave \in [Worker -> SUBSET Interval]
    /\ toMark \in [Worker -> SUBSET SUBSET Trade]
    /\ partial \subseteq Interval
    /\ faults \in 0..MaxFaults

\* A trade marked as added is counted by its interval of every length: the
\* mark is what keeps a later sync from looking at the trade again.
AddedIsAggregated ==
    \A t \in Added, i \in Interval: Holds(i, t) => t \in saved[i]

\* Nothing but a failed write of that very interval, or the limit on the rows
\* cutting that very interval off, with no later write of it, keeps an added
\* trade out of one of its intervals: not the rows replaced under the sync, not
\* a failed read or mark, not a crash, and no limit in any other interval.
OnlyFailedWritesMiss ==
    \A t \in Added, i \in Interval: Holds(i, t) => t \in saved[i] \/ i \in partial

\* Overwriting an interval never takes a trade out of it, but where the limit
\* on the rows cuts the interval off.
NeverShrinks == [][\A i \in Interval: saved[i] \subseteq saved'[i] \/ i \in partial']_vars

\* A trade stored when a sync is asked for is aggregated in the end, even if
\* the history sync replaces its row in the meantime, unless a call failed, or
\* the limit is less than the trades there may be: with more trades in a day
\* than the limit, every sync would read the first ones again.
CallAggregates ==
    \A w \in Worker, t \in Trade:
        (pc[w] = "lock" /\ t \in Stored /\ limit >= Trades) ~>
            (faults > 0 \/ \A i \in Interval: Holds(i, t) => t \in saved[i])
=============================================================================
