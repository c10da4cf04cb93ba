------------------------- MODULE HistorySync_proofs -------------------------
(***************************************************************************)
(* Theorems about HistorySync and its readers (HistoryAnswers), for any    *)
(* number of workers, processes and clients, any page size, any history    *)
(* and any number of failures, as each theorem says.                       *)
(***************************************************************************)
EXTENDS HistoryAnswers, SequenceTheorems, FiniteSetTheorems, WellFoundedInduction, TLAPS

-----------------------------------------------------------------------------
(* Lemmas about the operators. *)

\* The seconds of the trades on the chain are positive numbers.
LEMMA TradeTyped ==
    ASSUME TypeOK, NEW t \in 1..Len(chain)
    PROVE  SecondOf(t) \in Nat \ {0}
<1>1. chain \in Seq([at: Nat \ {0}, fine: BOOLEAN])
    BY DEF TypeOK
<1>2. chain[t] \in [at: Nat \ {0}, fine: BOOLEAN]
    BY <1>1, ElementOfSeq
<1>3. QED
    BY <1>2 DEF SecondOf

\* A page and what is left of it to store hold trades of the chain.
LEMMA PageOfTrades ==
    ASSUME TypeOK, NEW k \in Nat
    PROVE  /\ NextKey(k) \in Nat
           /\ k <= Len(chain) => PageAt(k) \subseteq 1..Len(chain) /\ NextKey(k) <= Len(chain)
<1>1. Batch \in Nat \ {0} /\ Len(chain) \in Nat
    BY HistoryAssumption DEF TypeOK
<1>2. QED
    BY <1>1 DEF PageAt, NextKey, PageHead, NoKey

\* The transaction leaves one row of every trade it inserts and takes the
\* others away or leaves them alone: no trade gains a second row.
LEMMA SavedOnce ==
    ASSUME rows \in [Trade -> Nat], NoDuplicateTrades,
           NEW list \in SUBSET (1..Len(chain))
    PROVE  /\ SaveMarketHistoryOrders(list) \in [Trade -> Nat]
           /\ \A t \in Trade: SaveMarketHistoryOrders(list)[t] <= 1
<1> DEFINE cleared == {SecondOf(t): t \in list}
<1>1. ASSUME NEW t \in Trade
      PROVE  /\ SaveMarketHistoryOrders(list)[t] \in Nat
             /\ SaveMarketHistoryOrders(list)[t] <= 1
    <2>1. rows[t] \in Nat /\ rows[t] <= 1
        BY <1>1 DEF NoDuplicateTrades
    <2>2. SaveMarketHistoryOrders(list)[t]
            = (IF t <= Len(chain) /\ SecondOf(t) \in cleared THEN 0 ELSE rows[t])
              + (IF t \in list THEN 1 ELSE 0)
        BY <1>1 DEF SaveMarketHistoryOrders
    <2>3. CASE t \in list
        BY <2>1, <2>2, <2>3
    <2>4. CASE t \notin list
        BY <2>1, <2>2, <2>4
    <2>5. QED
        BY <2>3, <2>4
<1>2. QED
    BY <1>1 DEF SaveMarketHistoryOrders

-----------------------------------------------------------------------------
(* Type correctness, with what keeps the pages inside the history. *)

\* Keys and pages point into the history the chain has.
PagesInside ==
    /\ \A w \in Worker: key[w] <= Len(chain)
    /\ \A w \in Worker: page[w] \subseteq 1..Len(chain)

\* The inductive form of the type invariant.
TypeInv == TypeOK /\ PagesInside

LEMMA InitTypeInv == Init => TypeInv
BY HistoryAssumption DEF Init, TypeInv, TypeOK, PagesInside, Inside, NoOrder, NoKey, Trade

LEMMA NextTypeInv == TypeInv /\ [Next]_vars => TypeInv'
<1> SUFFICES ASSUME TypeInv, [Next]_vars
             PROVE  TypeInv'
    OBVIOUS
<1> USE HistoryAssumption DEF TypeInv, TypeOK, PagesInside, Inside
<1>1. CASE Execute
    <2>1. PICK gap \in Gaps, fine \in Convertible:
            chain' = Append(chain, [at |-> IF chain = <<>> THEN 1 ELSE SecondOf(Len(chain)) + gap,
                                    fine |-> fine])
        BY <1>1 DEF Execute
    <2>2. (IF chain = <<>> THEN 1 ELSE SecondOf(Len(chain)) + gap) \in Nat \ {0}
        <3>1. CASE chain = <<>>
            BY <3>1
        <3>2. CASE chain # <<>>
            <4>1. Len(chain) \in 1..Len(chain)
                BY <3>2
            <4>2. SecondOf(Len(chain)) \in Nat \ {0}
                BY <4>1, TradeTyped
            <4>3. gap \in Nat
                OBVIOUS
            <4>4. QED
                BY <3>2, <4>2, <4>3
        <3>3. QED
            BY <3>1, <3>2
    <2>3. chain' \in Seq([at: Nat \ {0}, fine: BOOLEAN]) /\ Len(chain') = Len(chain) + 1
        BY <2>1, <2>2
    <2>4. QED
        BY <1>1, <2>3 DEF Execute
<1>2. ASSUME NEW w \in Worker, Call(w) PROVE TypeInv'
    BY <1>2 DEF Call
<1>3. ASSUME NEW w \in Worker, AcquireLock(w) PROVE TypeInv'
    BY <1>3 DEF AcquireLock
<1>4. ASSUME NEW w \in Worker, ReadLast(w) PROVE TypeInv'
    <2>1. LastSeconds \subseteq Nat
        BY TradeTyped DEF LastSeconds, Stored, NoOrder
    <2>2. QED
        BY <1>4, <2>1 DEF ReadLast, NoKey
<1>5. ASSUME NEW w \in Worker, FetchPage(w) PROVE TypeInv'
    <2>1. /\ NextKey(key[w]) \in Nat /\ NextKey(key[w]) <= Len(chain)
          /\ PageAt(key[w]) \subseteq 1..Len(chain)
        BY PageOfTrades
    <2>2. PageAt(key[w]) \subseteq Trade
        BY <2>1 DEF Trade
    <2>3. target' \in [Worker -> Nat]
        BY <1>5 DEF FetchPage
    <2>4. UNCHANGED <<chain, last, faults, rows>>
        BY <1>5 DEF FetchPage
    <2>5. CASE Return(w, "ok") /\ UNCHANGED key
        BY <2>3, <2>4, <2>5 DEF Return
    <2>6. CASE /\ page' = [page EXCEPT ![w] = PageAt(key[w])]
               /\ key' = [key EXCEPT ![w] = NextKey(key[w])]
               /\ pc' = [pc EXCEPT ![w] = "save"]
               /\ UNCHANGED <<locked, outcome>>
        BY <2>1, <2>2, <2>3, <2>4, <2>6
    <2>7. QED
        BY <1>5, <2>5, <2>6 DEF FetchPage
<1>6. ASSUME NEW w \in Worker, RejectPage(w) PROVE TypeInv'
    BY <1>6 DEF RejectPage, Return
<1>7. ASSUME NEW w \in Worker, SavePage(w) PROVE TypeInv'
    <2>1. rows' \in [Trade -> Nat]
        BY <1>7 DEF SavePage, SaveMarketHistoryOrders
    <2>2. CASE Return(w, "ok")
        BY <1>7, <2>1, <2>2 DEF SavePage, Return
    <2>3. CASE ~Return(w, "ok")
        BY <1>7, <2>1, <2>3 DEF SavePage
    <2>4. QED
        BY <2>2, <2>3
<1>8. ASSUME NEW w \in Worker, Fail(w) PROVE TypeInv'
    BY <1>8 DEF Fail, Return
<1>9. ASSUME NEW p \in Process, Crash(p) PROVE TypeInv'
    BY <1>9 DEF Crash
<1>10. CASE UNCHANGED vars
    BY <1>10 DEF vars
<1>11. QED
    BY <1>1, <1>2, <1>3, <1>4, <1>5, <1>6, <1>7, <1>8, <1>9, <1>10 DEF Next, Step

\* Every variable of the history sync keeps its type.
THEOREM TypeCorrect == Spec => []TypeOK
<1>1. Spec => []TypeInv
    BY InitTypeInv, NextTypeInv, PTL DEF Spec
<1>2. QED
    BY <1>1, PTL DEF TypeInv

LEMMA TypeInvHolds == Spec => []TypeInv
BY InitTypeInv, NextTypeInv, PTL DEF Spec

-----------------------------------------------------------------------------
(* No trade is stored twice. *)

LEMMA UnsyncedOnChain ==
    ASSUME TypeInv, NEW w \in Worker
    PROVE  Unsynced(w) \in SUBSET (1..Len(chain))
BY DEF Unsynced, TypeInv, PagesInside

LEMMA NextNoDuplicates ==
    TypeInv /\ NoDuplicateTrades /\ [Next]_vars => NoDuplicateTrades'
<1> SUFFICES ASSUME TypeInv, NoDuplicateTrades, [Next]_vars
             PROVE  NoDuplicateTrades'
    OBVIOUS
<1>1. CASE UNCHANGED rows
    BY <1>1 DEF NoDuplicateTrades
<1>2. ASSUME NEW w \in Worker, SavePage(w) PROVE NoDuplicateTrades'
    <2>1. CASE Unsynced(w) = {}
        BY <1>1, <1>2, <2>1 DEF SavePage
    <2>2. CASE Unsynced(w) # {}
        <3>1. rows' = SaveMarketHistoryOrders(Unsynced(w))
            BY <1>2, <2>2 DEF SavePage
        <3>2. rows \in [Trade -> Nat]
            BY DEF TypeInv, TypeOK
        <3>3. \A t \in Trade: SaveMarketHistoryOrders(Unsynced(w))[t] <= 1
            BY <3>2, SavedOnce, UnsyncedOnChain
        <3>4. QED
            BY <3>1, <3>3 DEF NoDuplicateTrades
    <2>3. QED
        BY <2>1, <2>2
<1>3. QED
    BY <1>1, <1>2
    DEF Next, Step, vars, Execute, Call, AcquireLock, ReadLast, FetchPage, RejectPage,
        Fail, Crash

\* No trade is ever stored twice, for any workers, processes and failures.
THEOREM NoDuplicates == Spec => []NoDuplicateTrades
<1>1. Init => NoDuplicateTrades
    BY DEF Init, NoDuplicateTrades
<1>2. QED
    BY <1>1, NextNoDuplicates, TypeInvHolds, PTL DEF Spec

-----------------------------------------------------------------------------
(* The lock of a process admits one sync. *)

\* The inductive form: the mutex of a process is held while one of its workers
\* is inside, so a second one cannot acquire it.
LockInv ==
    /\ \A w \in Worker: pc[w] \in Inside => locked[ProcessOf[w]]
    /\ OneSyncPerProcess

\* A worker that leaves the sync takes nobody else's lock away.
LEMMA ReturnKeepsLocks ==
    ASSUME TypeOK, LockInv, NEW w \in Worker, pc[w] \in Inside,
           NEW answer, Return(w, answer)
    PROVE  LockInv'
BY HistoryAssumption DEF TypeOK, LockInv, OneSyncPerProcess, Return, Inside

LEMMA NextLockInv == TypeOK /\ LockInv /\ [Next]_vars => LockInv'
<1> SUFFICES ASSUME TypeOK, LockInv, [Next]_vars
             PROVE  LockInv'
    OBVIOUS
<1>1. CASE UNCHANGED <<pc, locked>>
    BY <1>1 DEF LockInv, OneSyncPerProcess
<1>2. ASSUME NEW w \in Worker, Call(w) PROVE LockInv'
    BY <1>2 DEF Call, TypeOK, LockInv, OneSyncPerProcess, Inside
<1>3. ASSUME NEW w \in Worker, AcquireLock(w) PROVE LockInv'
    BY <1>3, HistoryAssumption
    DEF AcquireLock, Free, TypeOK, LockInv, OneSyncPerProcess, Inside
<1>4. ASSUME NEW w \in Worker, pc[w] \in Inside, UNCHANGED locked,
             NEW s \in Inside, pc' = [pc EXCEPT ![w] = s]
      PROVE  LockInv'
    BY <1>4, HistoryAssumption DEF TypeOK, LockInv, OneSyncPerProcess, Inside
<1>5. ASSUME NEW w \in Worker, Step(w) PROVE LockInv'
    <2>1. CASE ReadLast(w)
        BY <1>4, <2>1 DEF ReadLast, Inside
    <2>2. CASE FetchPage(w)
        BY <1>4, <2>2, ReturnKeepsLocks DEF FetchPage, Inside
    <2>3. CASE RejectPage(w)
        BY <2>3, ReturnKeepsLocks DEF RejectPage, Inside
    <2>4. CASE SavePage(w)
        BY <1>4, <2>4, ReturnKeepsLocks DEF SavePage, Inside
    <2>5. QED
        BY <1>5, <2>1, <2>2, <2>3, <2>4 DEF Step
<1>6. ASSUME NEW w \in Worker, Fail(w) PROVE LockInv'
    BY <1>6, ReturnKeepsLocks DEF Fail
<1>7. ASSUME NEW p \in Process, Crash(p) PROVE LockInv'
    BY <1>7, HistoryAssumption DEF Crash, TypeOK, LockInv, OneSyncPerProcess, Inside
<1>8. QED
    BY <1>1, <1>2, <1>3, <1>5, <1>6, <1>7 DEF Next, vars, Execute

\* Two syncs of the market are never inside together in one process.
THEOREM MutualExclusion == Spec => []OneSyncPerProcess
<1>1. Init => LockInv
    BY DEF Init, LockInv, OneSyncPerProcess, Inside
<1>2. Spec => []LockInv
    BY <1>1, NextLockInv, TypeCorrect, PTL DEF Spec
<1>3. QED
    BY <1>2, PTL DEF LockInv

-----------------------------------------------------------------------------
(* Nothing stored is lost while no two trades share a second. *)

\* Seconds grow along the history.
Ascending ==
    \A t, u \in 1..Len(chain): t < u => SecondOf(t) < SecondOf(u)

LEMMA NextAscending ==
    ASSUME 0 \notin Gaps
    PROVE  TypeInv /\ Ascending /\ [Next]_vars => Ascending'
<1> SUFFICES ASSUME TypeInv, Ascending, [Next]_vars
             PROVE  Ascending'
    OBVIOUS
<1>1. CASE UNCHANGED chain
    BY <1>1 DEF Ascending, SecondOf
<1>2. CASE Execute
    <2>1. PICK gap \in Gaps, fine \in Convertible:
            chain' = Append(chain, [at |-> IF chain = <<>> THEN 1 ELSE SecondOf(Len(chain)) + gap,
                                    fine |-> fine])
        BY <1>2 DEF Execute
    <2>2. chain \in Seq([at: Nat \ {0}, fine: BOOLEAN]) /\ gap \in Nat \ {0}
        BY HistoryAssumption DEF TypeInv, TypeOK
    <2>3. Len(chain') = Len(chain) + 1 /\ Len(chain) \in Nat
        BY <2>1, <2>2
    <2>4. \A t \in 1..Len(chain): chain'[t] = chain[t]
        BY <2>1, <2>2
    <2>5. chain'[Len(chain')].at = IF chain = <<>> THEN 1 ELSE SecondOf(Len(chain)) + gap
        BY <2>1, <2>2, <2>3
    <2>6. ASSUME NEW t \in 1..Len(chain') , NEW u \in 1..Len(chain'), t < u
          PROVE  chain'[t].at < chain'[u].at
        <3>1. t \in 1..Len(chain)
            BY <2>3, <2>6
        <3>2. CASE u \in 1..Len(chain)
            BY <2>4, <2>6, <3>1, <3>2 DEF Ascending, SecondOf
        <3>3. CASE u = Len(chain')
            <4>1. chain # <<>> /\ Len(chain) \in 1..Len(chain)
                BY <2>2, <3>1
            <4>2. SecondOf(t) \in Nat /\ SecondOf(Len(chain)) \in Nat
                BY <3>1, <4>1, TradeTyped DEF TypeInv
            <4>3. SecondOf(t) <= SecondOf(Len(chain))
                BY <3>1, <4>1, <4>2 DEF Ascending
            <4>4. chain'[u].at = SecondOf(Len(chain)) + gap
                BY <2>5, <3>3, <4>1
            <4>5. chain'[t].at = SecondOf(t)
                BY <2>4, <3>1 DEF SecondOf
            <4>6. QED
                BY <2>2, <4>2, <4>3, <4>4, <4>5
        <3>4. QED
            BY <2>3, <3>2, <3>3
    <2>7. QED
        BY <2>6 DEF Ascending, SecondOf
<1>3. QED
    BY <1>1, <1>2
    DEF Next, Step, vars, Call, AcquireLock, ReadLast, FetchPage, RejectPage, SavePage,
        Fail, Crash

\* A transaction that clears a second inserts the one trade of that second.
LEMMA SaveKeepsStored ==
    ASSUME TypeInv, Ascending, NEW list \in SUBSET (1..Len(chain)),
           NEW t \in Stored
    PROVE  SaveMarketHistoryOrders(list)[t] > 0
<1>1. t \in 1..Len(chain) /\ t \in Trade /\ rows[t] \in Nat /\ rows[t] > 0
    <2>1. t \in 1..Len(chain) /\ rows[t] > 0
        BY DEF Stored
    <2>2. Len(chain) \in Nat /\ Len(chain) <= MaxTrades /\ MaxTrades \in Nat
        BY HistoryAssumption DEF TypeInv, TypeOK
    <2>3. t \in Trade
        BY <2>1, <2>2 DEF Trade
    <2>4. rows[t] \in Nat
        BY <2>3 DEF TypeInv, TypeOK
    <2>5. QED
        BY <2>1, <2>3, <2>4
<1>2. CASE t \in list
    BY <1>1, <1>2 DEF SaveMarketHistoryOrders
<1>3. CASE t \notin list
    <2>1. SecondOf(t) \notin {SecondOf(u): u \in list}
        <3>1. SUFFICES ASSUME NEW u \in list, SecondOf(u) = SecondOf(t)
                       PROVE  FALSE
            OBVIOUS
        <3>2. u \in 1..Len(chain) /\ (u < t \/ t < u)
            BY <1>1, <1>3, <3>1
        <3>3. SecondOf(t) \in Nat
            BY <1>1, TradeTyped DEF TypeInv
        <3>4. QED
            BY <1>1, <3>1, <3>2, <3>3 DEF Ascending
    <2>2. QED
        BY <1>1, <1>3, <2>1 DEF SaveMarketHistoryOrders
<1>4. QED
    BY <1>2, <1>3

\* When every trade has a second of its own, no page, failure, crash or
\* concurrent process takes a stored trade out of the table.
THEOREM NothingForgotten ==
    ASSUME 0 \notin Gaps
    PROVE  Spec => NeverForgets
<1>1. Init => Ascending
    BY DEF Init, Ascending
<1>2. TypeInv /\ Ascending /\ [Next]_vars => Stored \subseteq Stored'
    <2> SUFFICES ASSUME TypeInv, Ascending, [Next]_vars
                 PROVE  Stored \subseteq Stored'
        OBVIOUS
    <2>1. CASE UNCHANGED <<chain, rows>>
        BY <2>1 DEF Stored
    <2>2. CASE Execute
        <3>1. Len(chain') = Len(chain) + 1 /\ Len(chain) \in Nat
            BY <2>2 DEF Execute, TypeInv, TypeOK
        <3>2. QED
            BY <2>2, <3>1 DEF Execute, Stored
    <2>3. ASSUME NEW w \in Worker, SavePage(w) PROVE Stored \subseteq Stored'
        <3>1. CASE Unsynced(w) = {}
            BY <2>1, <2>3, <3>1 DEF SavePage
        <3>2. CASE Unsynced(w) # {}
            <4>1. rows' = SaveMarketHistoryOrders(Unsynced(w)) /\ chain' = chain
                BY <2>3, <3>2 DEF SavePage
            <4>2. \A t \in Stored: rows'[t] > 0
                BY <4>1, SaveKeepsStored, UnsyncedOnChain
            <4>3. QED
                BY <4>1, <4>2 DEF Stored
        <3>3. QED
            BY <3>1, <3>2
    <2>4. QED
        BY <2>1, <2>2, <2>3
        DEF Next, Step, vars, Call, AcquireLock, ReadLast, FetchPage, RejectPage, Fail, Crash
<1>3. QED
    BY <1>1, <1>2, NextAscending, TypeInvHolds, PTL DEF Spec, NeverForgets

-----------------------------------------------------------------------------
(* A history that fits one page is stored without holes. *)

\* The page size exceeds the history: every sync has one page.
OnePage == MaxTrades <= Batch

OneProcess == \A v, w \in Worker: ProcessOf[v] = ProcessOf[w]

\* Seconds never go back along the history.
InOrder == \A t, u \in 1..Len(chain): t < u => SecondOf(t) <= SecondOf(u)

\* A new trade has the number after the last one and no earlier second.
LEMMA ExecutedTrade ==
    ASSUME TypeInv, Execute
    PROVE  /\ Len(chain') = Len(chain) + 1 /\ Len(chain) \in Nat
           /\ \A t \in 1..Len(chain): chain'[t] = chain[t]
           /\ chain'[Len(chain')].fine \in Convertible
           /\ chain = <<>> \/ \E gap \in Gaps:
                                chain'[Len(chain')].at = SecondOf(Len(chain)) + gap
<1>1. PICK gap \in Gaps, fine \in Convertible:
        chain' = Append(chain, [at |-> IF chain = <<>> THEN 1 ELSE SecondOf(Len(chain)) + gap,
                                fine |-> fine])
    BY DEF Execute
<1>2. chain \in Seq([at: Nat \ {0}, fine: BOOLEAN])
    BY DEF TypeInv, TypeOK
<1>3. Len(chain') = Len(chain) + 1 /\ Len(chain) \in Nat
    BY <1>1, <1>2
<1>4. \A t \in 1..Len(chain): chain'[t] = chain[t]
    BY <1>1, <1>2
<1>5. chain'[Len(chain')] = [at |-> IF chain = <<>> THEN 1 ELSE SecondOf(Len(chain)) + gap,
                             fine |-> fine]
    BY <1>1, <1>2, <1>3
<1>6. QED
    BY <1>3, <1>4, <1>5

\* Every other step leaves the chain alone.
LEMMA OnlyExecute == [Next]_vars => Execute \/ chain' = chain
BY DEF Next, Step, vars, Call, AcquireLock, ReadLast, FetchPage, RejectPage, SavePage, Fail, Crash

LEMMA NextInOrder == TypeInv /\ InOrder /\ [Next]_vars => InOrder'
<1> SUFFICES ASSUME TypeInv, InOrder, [Next]_vars
             PROVE  InOrder'
    OBVIOUS
<1>1. CASE chain' = chain
    BY <1>1 DEF InOrder, SecondOf
<1>2. CASE Execute
    <2> SUFFICES ASSUME NEW t \in 1..Len(chain'), NEW u \in 1..Len(chain'), t < u
                 PROVE  chain'[t].at <= chain'[u].at
        BY DEF InOrder, SecondOf
    <2>1. Len(chain') = Len(chain) + 1 /\ Len(chain) \in Nat
        BY <1>2, ExecutedTrade
    <2>2. t \in 1..Len(chain) /\ chain'[t].at = SecondOf(t)
        BY <2>1, <1>2, ExecutedTrade DEF SecondOf
    <2>3. CASE u \in 1..Len(chain)
        <3>1. chain'[u].at = SecondOf(u)
            BY <2>3, <1>2, ExecutedTrade DEF SecondOf
        <3>2. QED
            BY <2>2, <2>3, <3>1 DEF InOrder
    <2>4. CASE u = Len(chain')
        <3>1. chain # <<>> /\ Len(chain) \in 1..Len(chain)
            BY <2>1, <2>2 DEF TypeInv, TypeOK
        <3>2. PICK gap \in Gaps: chain'[u].at = SecondOf(Len(chain)) + gap
            BY <1>2, <2>4, <3>1, ExecutedTrade
        <3>3. SecondOf(t) \in Nat /\ SecondOf(Len(chain)) \in Nat /\ gap \in Nat
            BY <2>2, <3>1, TradeTyped, HistoryAssumption DEF TypeInv
        <3>4. SecondOf(t) <= SecondOf(Len(chain))
            BY <2>1, <2>2, <3>1, <3>3 DEF InOrder
        <3>5. QED
            BY <2>2, <3>2, <3>3, <3>4
    <2>5. QED
        BY <2>1, <2>3, <2>4
<1>3. QED
    BY <1>1, <1>2, OnlyExecute

\* What a transaction stores: its list, and what is of none of its seconds.
LEMMA SavedRows ==
    ASSUME TypeInv, NEW w \in Worker, SavePage(w)
    PROVE  Stored' = Unsynced(w)
                     \union {t \in Stored: \A u \in Unsynced(w): SecondOf(u) # SecondOf(t)}
<1> DEFINE list == Unsynced(w)
<1>1. list \subseteq 1..Len(chain) /\ chain' = chain
    BY UnsyncedOnChain DEF SavePage
<1>2. rows \in [Trade -> Nat] /\ 1..Len(chain) \subseteq Trade
    BY HistoryAssumption DEF TypeInv, TypeOK, Trade
<1>3. CASE list = {}
    BY <1>1, <1>3 DEF SavePage, Stored
<1>4. CASE list # {}
    <2> DEFINE kept(t) == IF SecondOf(t) \in {SecondOf(u): u \in list} THEN 0 ELSE rows[t]
    <2>1. rows' = SaveMarketHistoryOrders(list)
        BY <1>4 DEF SavePage
    <2>2. ASSUME NEW t \in 1..Len(chain)
          PROVE  rows'[t] = kept(t) + (IF t \in list THEN 1 ELSE 0)
        BY <1>2, <2>1, <2>2 DEF SaveMarketHistoryOrders, TypeInv, TypeOK
    <2>3. \A t \in 1..Len(chain): kept(t) \in Nat
        BY <1>2
    <2> HIDE DEF list
    <2>4. ASSUME NEW t \in 1..Len(chain)
          PROVE  rows'[t] > 0 <=> t \in list \/ kept(t) > 0
        BY <2>2, <2>3
    <2>5. \A t \in 1..Len(chain): kept(t) > 0 <=> rows[t] > 0
          /\ \A u \in list: SecondOf(u) # SecondOf(t)
        OBVIOUS
    <2> HIDE DEF kept
    <2>6. Stored' = list \union {t \in Stored: \A u \in list: SecondOf(u) # SecondOf(t)}
        BY <1>1, <2>4, <2>5 DEF Stored
    <2>7. QED
        BY <2>6 DEF list
<1>5. QED
    BY <1>3, <1>4

\* A sync stores what it has not seen stored, and where seconds are each
\* trade's own it takes nothing away.
LEMMA SavedAlone ==
    ASSUME TypeInv, Ascending, NEW w \in Worker, SavePage(w)
    PROVE  Stored' = Stored \union Unsynced(w)
<1>1. ASSUME NEW t \in Stored, NEW u \in Unsynced(w), SecondOf(u) = SecondOf(t)
      PROVE  t = u
    <2>1. t \in 1..Len(chain) /\ u \in 1..Len(chain) /\ Len(chain) \in Nat
        BY UnsyncedOnChain DEF Stored, TypeInv, TypeOK
    <2>2. SecondOf(t) \in Nat
        BY <2>1, TradeTyped DEF TypeInv
    <2>3. QED
        BY <1>1, <2>1, <2>2 DEF Ascending
<1>2. QED
    BY <1>1, SavedRows

\* The rows a sync of one page stores complete the table.
LEMMA SavedPage ==
    ASSUME TypeInv, InOrder, NEW w \in Worker, SavePage(w),
           NEW m \in 0..Len(chain), page[w] = 1..m,
           \A t \in 1..Len(chain): SecondOf(t) < last[w] => t \in Stored,
           Ascending \/ Stored \subseteq page[w]
    PROVE  /\ 1..m \subseteq Stored'
           /\ Stored \subseteq Stored'
           /\ Stored' \subseteq Stored \union 1..m
<1>1. Len(chain) \in Nat /\ last[w] \in Nat
    BY DEF TypeInv, TypeOK
<1>2. \A t \in 1..Len(chain): SecondOf(t) \in Nat
    BY TradeTyped DEF TypeInv
<1>3. Unsynced(w) = {t \in 1..m: last[w] <= SecondOf(t)}
    <2>1. ASSUME NEW t \in 1..m, last[w] <= SecondOf(t), NEW u \in 1..m, u >= t
          PROVE  last[w] <= SecondOf(u)
        <3>1. t \in 1..Len(chain) /\ u \in 1..Len(chain)
            BY <1>1
        <3>2. SecondOf(t) <= SecondOf(u)
            BY <1>2, <2>1, <3>1 DEF InOrder
        <3>3. QED
            BY <1>1, <1>2, <2>1, <3>1, <3>2
    <2>2. QED
        BY <2>1 DEF Unsynced
<1>4. ASSUME NEW t \in 1..m
      PROVE  t \in Stored'
    <2>1. t \in 1..Len(chain)
        BY <1>1
    <2>2. CASE last[w] <= SecondOf(t)
        BY <1>3, <2>2, SavedRows
    <2>3. CASE SecondOf(t) < last[w]
        <3>1. t \in Stored
            BY <2>1, <2>3
        <3>2. \A u \in Unsynced(w): SecondOf(u) # SecondOf(t)
            <4>1. SUFFICES ASSUME NEW u \in Unsynced(w), SecondOf(u) = SecondOf(t)
                           PROVE  FALSE
                OBVIOUS
            <4>2. last[w] <= SecondOf(t)
                BY <1>3, <4>1
            <4>3. QED
                BY <1>1, <1>2, <2>1, <2>3, <4>2
        <3>3. QED
            BY <3>1, <3>2, SavedRows
    <2>4. QED
        BY <1>1, <1>2, <2>1, <2>2, <2>3
<1>5. Stored \subseteq Stored'
    BY <1>4, SavedAlone
<1>6. Stored' \subseteq Stored \union 1..m
    BY <1>3, SavedRows
<1>7. QED
    BY <1>4, <1>5, <1>6

-----------------------------------------------------------------------------
\* The stored trades are the first ones of the chain.
Whole == \A t \in Stored: 1..t \subseteq Stored

\* What a sync takes for stored is stored.
OlderAreStored ==
    \A w \in Worker: pc[w] \in {"fetch", "save"} =>
        \A t \in 1..Len(chain): SecondOf(t) < last[w] => t \in Stored

\* Its mark is the second of a trade, if there was one.
MarkIsATrade ==
    \A w \in Worker: pc[w] \in {"fetch", "save"} =>
        last[w] = NoOrder \/ \E u \in 1..Len(chain): last[w] = SecondOf(u)

\* Rows are of trades the chain has executed.
RowsAreTrades == \A t \in Trade: rows[t] > 0 => t <= Len(chain)

\* A sync has one page, and it is all there was when it was asked for.
PageIsAll ==
    \A w \in Worker:
        /\ pc[w] \in {"fetch", "save"} => key[w] = NoKey
        /\ pc[w] = "save" => target[w] <= Len(chain) /\ page[w] = 1..target[w]

\* Nobody stores anything while a sync of the only process has its page.
NobodyAhead == OneProcess => \A w \in Worker: pc[w] = "save" => Stored \subseteq page[w]

\* A call that has not returned has not answered.
NoAnswerYet == \A w \in Worker: pc[w] # "idle" => outcome[w] = "none"

\* The inductive invariant: the table is a prefix at every moment, so what is
\* older than the newest stored trade needs no look.
PageInv ==
    /\ RowsAreTrades
    /\ Whole
    /\ OlderAreStored
    /\ MarkIsATrade
    /\ PageIsAll
    /\ NobodyAhead
    /\ NoAnswerYet
    /\ SuccessIsComplete

LEMMA InitPageInv == Init => PageInv
BY DEF Init, PageInv, RowsAreTrades, Whole, Stored, OlderAreStored, MarkIsATrade, PageIsAll,
       NobodyAhead, NoAnswerYet, SuccessIsComplete

\* A block adds a trade that nobody has looked at.
LEMMA ExecuteStored ==
    ASSUME TypeInv, RowsAreTrades, Execute
    PROVE  Stored' = Stored /\ \A t \in 1..Len(chain): SecondOf(t)' = SecondOf(t)
<1>1. Len(chain') = Len(chain) + 1 /\ Len(chain) \in Nat /\ rows' = rows
    BY ExecutedTrade DEF Execute
<1>2. Len(chain) + 1 \in Trade
    BY <1>1, HistoryAssumption DEF Execute, Trade
<1>3. ~(rows[Len(chain) + 1] > 0)
    BY <1>1, <1>2 DEF RowsAreTrades
<1>4. QED
    BY <1>1, <1>3, ExecutedTrade DEF Stored, SecondOf

\* What is stored stays when a step only moves workers.
LEMMA QuietPageInv ==
    ASSUME TypeInv, PageInv, UNCHANGED <<chain, rows>>,
           \A v \in Worker: pc'[v] \in {"fetch", "save"} =>
               pc[v] = pc'[v] /\ UNCHANGED <<last[v], key[v], page[v], target[v]>>,
           \A v \in Worker: pc'[v] # "idle" => outcome'[v] = "none",
           \A v \in Worker: outcome'[v] = "ok" =>
               (outcome[v] = "ok" /\ target'[v] = target[v]) \/ target'[v] = 0
    PROVE  PageInv'
<1>1. Stored' = Stored /\ \A t \in 1..Len(chain): SecondOf(t)' = SecondOf(t)
    BY DEF Stored, SecondOf
<1>2. RowsAreTrades' /\ Whole'
    BY <1>1 DEF PageInv, RowsAreTrades, Whole
<1>3. OlderAreStored'
    BY <1>1 DEF PageInv, OlderAreStored
<1>4. MarkIsATrade'
    BY <1>1 DEF PageInv, MarkIsATrade
<1>5. PageIsAll'
    BY DEF PageInv, PageIsAll
<1>6. NobodyAhead'
    BY <1>1 DEF PageInv, NobodyAhead, OneProcess
<1>7. NoAnswerYet'
    BY DEF NoAnswerYet
<1>8. SuccessIsComplete'
    BY <1>1 DEF PageInv, SuccessIsComplete
<1>9. QED
    BY <1>2, <1>3, <1>4, <1>5, <1>6, <1>7, <1>8 DEF PageInv

LEMMA ExecutePageInv ==
    ASSUME TypeInv, InOrder, PageInv, Execute, InOrder'
    PROVE  PageInv'
<1>1. Len(chain') = Len(chain) + 1 /\ Len(chain) \in Nat
    BY ExecutedTrade
<1>2. Stored' = Stored /\ \A t \in 1..Len(chain): SecondOf(t)' = SecondOf(t)
    BY ExecuteStored DEF PageInv
<1>3. UNCHANGED <<rows, pc, last, key, page, target, outcome>>
    BY DEF Execute
<1>4. RowsAreTrades' /\ Whole'
    <2>1. RowsAreTrades'
        BY <1>1, <1>3 DEF PageInv, RowsAreTrades, Trade
    <2>2. QED
        BY <1>2, <2>1 DEF PageInv, Whole
<1>5. OlderAreStored' /\ MarkIsATrade'
    <2> SUFFICES ASSUME NEW w \in Worker, pc[w] \in {"fetch", "save"}
                 PROVE  /\ \A t \in 1..Len(chain'): SecondOf(t)' < last[w] => t \in Stored
                        /\ last[w] = NoOrder \/ \E u \in 1..Len(chain'): last[w] = SecondOf(u)'
        BY <1>2, <1>3 DEF OlderAreStored, MarkIsATrade
    <2>1. last[w] = NoOrder \/ \E u \in 1..Len(chain): last[w] = SecondOf(u)'
        BY <1>2 DEF PageInv, MarkIsATrade
    <2>2. 1..Len(chain') = 1..Len(chain) \union {Len(chain')}
        BY <1>1
    <2> DEFINE n == Len(chain')
    <2>3. chain'[n].at \in Nat
        <3>1. chain' \in Seq([at: Nat \ {0}, fine: BOOLEAN])
            BY NextTypeInv DEF Next, TypeInv, TypeOK
        <3>2. n \in 1..Len(chain')
            BY <1>1
        <3>3. chain'[n] \in [at: Nat \ {0}, fine: BOOLEAN]
            BY <3>1, <3>2, ElementOfSeq
        <3>4. QED
            BY <3>3
    <2>4. ~(chain'[n].at < last[w])
        <3>1. CASE last[w] = NoOrder
            BY <2>3, <3>1 DEF NoOrder
        <3>2. ASSUME NEW u \in 1..Len(chain), last[w] = SecondOf(u)
              PROVE  ~(chain'[n].at < last[w])
            <4>1. chain'[u].at <= chain'[n].at
                BY <1>1 DEF InOrder, SecondOf
            <4>2. SecondOf(u) \in Nat /\ chain'[u].at = SecondOf(u)
                BY TradeTyped, ExecutedTrade DEF TypeInv, SecondOf
            <4>3. QED
                BY <2>3, <3>2, <4>1, <4>2
        <3>3. QED
            BY <1>2, <2>1, <3>1, <3>2
    <2>5. \A t \in 1..Len(chain): chain'[t].at < last[w] => t \in Stored
        BY <1>2 DEF PageInv, OlderAreStored, SecondOf
    <2>6. \A t \in 1..Len(chain'): chain'[t].at < last[w] => t \in Stored
        BY <2>2, <2>4, <2>5
    <2>7. QED
        BY <2>1, <2>2, <2>6 DEF SecondOf
<1>6. PageIsAll'
    <2>1. target \in [Worker -> Nat]
        BY DEF TypeInv, TypeOK
    <2>2. QED
        BY <1>1, <1>3, <2>1 DEF PageInv, PageIsAll
<1>7. NobodyAhead' /\ NoAnswerYet' /\ SuccessIsComplete'
    BY <1>2, <1>3 DEF PageInv, NobodyAhead, NoAnswerYet, SuccessIsComplete, OneProcess
<1>8. QED
    BY <1>4, <1>5, <1>6, <1>7 DEF PageInv

LEMMA ReadLastPageInv ==
    ASSUME TypeInv, InOrder, PageInv, NEW w \in Worker, ReadLast(w)
    PROVE  PageInv'
<1>1. UNCHANGED <<chain, rows, page, target, outcome>>
    BY DEF ReadLast
<1>2. Stored' = Stored /\ \A t \in 1..Len(chain): SecondOf(t)' = SecondOf(t)
    BY <1>1 DEF Stored, SecondOf
<1>3. PICK s \in LastSeconds: last' = [last EXCEPT ![w] = s]
    BY DEF ReadLast
<1>4. /\ s = NoOrder \/ \E t \in Stored: s = SecondOf(t)
      /\ \A t \in Stored: SecondOf(t) <= s
    BY DEF LastSeconds
<1>5. last'[w] = s /\ key'[w] = NoKey /\ pc'[w] = "fetch" /\ pc[w] = "last"
    BY <1>3 DEF ReadLast, TypeInv, TypeOK
<1>6. \A v \in Worker \ {w}: UNCHANGED <<last[v], key[v], pc[v]>>
    BY <1>3 DEF ReadLast, TypeInv, TypeOK
<1>7. \A t \in 1..Len(chain): SecondOf(t) < s => t \in Stored
    <2> SUFFICES ASSUME NEW t \in 1..Len(chain), SecondOf(t) < s
                 PROVE  t \in Stored
        OBVIOUS
    <2>1. Len(chain) \in Nat /\ SecondOf(t) \in Nat
        BY TradeTyped DEF TypeInv, TypeOK
    <2>2. PICK u \in Stored: s = SecondOf(u)
        BY <1>4, <2>1 DEF NoOrder
    <2>3. u \in 1..Len(chain) /\ SecondOf(u) \in Nat
        BY TradeTyped DEF TypeInv, Stored
    <2>4. t < u
        BY <2>1, <2>2, <2>3 DEF InOrder
    <2>5. QED
        BY <2>1, <2>3, <2>4 DEF PageInv, Whole
<1>8. RowsAreTrades' /\ Whole'
    BY <1>1, <1>2 DEF PageInv, RowsAreTrades, Whole
<1>9. OlderAreStored'
    BY <1>1, <1>2, <1>5, <1>6, <1>7 DEF PageInv, OlderAreStored
<1>10. MarkIsATrade'
    BY <1>1, <1>2, <1>4, <1>5, <1>6 DEF PageInv, MarkIsATrade, Stored
<1>11. PageIsAll'
    BY <1>1, <1>5, <1>6 DEF PageInv, PageIsAll
<1>12. NobodyAhead' /\ NoAnswerYet' /\ SuccessIsComplete'
    BY <1>1, <1>2, <1>5, <1>6 DEF PageInv, NobodyAhead, NoAnswerYet, SuccessIsComplete, OneProcess
<1>13. QED
    BY <1>8, <1>9, <1>10, <1>11, <1>12 DEF PageInv

LEMMA FetchPageInv ==
    ASSUME TypeInv, OnePage, PageInv, NEW w \in Worker, FetchPage(w)
    PROVE  PageInv'
<1>1. UNCHANGED <<chain, rows, last>> /\ pc[w] = "fetch" /\ key[w] = NoKey
    BY DEF FetchPage, PageInv, PageIsAll
<1>2. Stored' = Stored /\ \A t \in 1..Len(chain): SecondOf(t)' = SecondOf(t)
    BY <1>1 DEF Stored, SecondOf
<1>3. Len(chain) \in Nat /\ Len(chain) <= Batch /\ Batch \in Nat \ {0}
    BY HistoryAssumption DEF TypeInv, TypeOK, OnePage
<1>4. target' = [target EXCEPT ![w] = Len(chain)]
    BY <1>1 DEF FetchPage
<1>5. PageAt(key[w]) = 1..Len(chain) /\ NextKey(key[w]) = NoKey
    BY <1>1, <1>3 DEF PageAt, NextKey, PageHead
<1>6. CASE PageAt(key[w]) = {} /\ Return(w, "ok") /\ UNCHANGED key
    <2>1. Len(chain) = 0
        BY <1>3, <1>5, <1>6
    <2>2. \A v \in Worker \ {w}: UNCHANGED <<pc[v], page[v], outcome[v], target[v]>>
        BY <1>4, <1>6 DEF Return, TypeInv, TypeOK
    <2>3. pc'[w] = "idle" /\ target'[w] = 0
        BY <1>4, <1>6, <2>1 DEF Return, TypeInv, TypeOK
    <2>4. QED
        BY <1>1, <1>6, <2>2, <2>3, QuietPageInv DEF PageInv, NoAnswerYet
<1>7. CASE /\ page' = [page EXCEPT ![w] = PageAt(key[w])]
           /\ key' = [key EXCEPT ![w] = NextKey(key[w])]
           /\ pc' = [pc EXCEPT ![w] = "save"]
           /\ UNCHANGED <<locked, outcome>>
    <2>1. /\ page'[w] = 1..Len(chain) /\ key'[w] = NoKey /\ pc'[w] = "save"
          /\ target'[w] = Len(chain)
        BY <1>4, <1>5, <1>7 DEF TypeInv, TypeOK
    <2>2. \A v \in Worker \ {w}: UNCHANGED <<pc[v], page[v], key[v], target[v]>>
        BY <1>4, <1>7 DEF TypeInv, TypeOK
    <2>3. RowsAreTrades' /\ Whole'
        BY <1>1, <1>2 DEF PageInv, RowsAreTrades, Whole
    <2>4. OlderAreStored' /\ MarkIsATrade'
        BY <1>1, <1>2, <2>1, <2>2 DEF PageInv, OlderAreStored, MarkIsATrade
    <2>5. PageIsAll'
        BY <1>1, <1>3, <2>1, <2>2 DEF PageInv, PageIsAll
    <2>6. NobodyAhead'
        BY <1>2, <2>1, <2>2 DEF PageInv, NobodyAhead, OneProcess, Stored
    <2>7. NoAnswerYet' /\ SuccessIsComplete'
        BY <1>1, <1>2, <1>7, <2>1, <2>2 DEF PageInv, NoAnswerYet, SuccessIsComplete
    <2>8. QED
        BY <2>3, <2>4, <2>5, <2>6, <2>7 DEF PageInv
<1>8. QED
    BY <1>1, <1>6, <1>7 DEF FetchPage

\* The one page of a sync makes the table the prefix it was of.
LEMMA SavePageInv ==
    ASSUME TypeInv, InOrder, LockInv, PageInv, OneProcess \/ Ascending,
           NEW w \in Worker, SavePage(w)
    PROVE  PageInv' /\ Stored \subseteq Stored'
<1> DEFINE m == target[w]
<1>1. UNCHANGED <<chain, last, key, target>> /\ pc[w] = "save" /\ key[w] = NoKey
    BY DEF SavePage, PageInv, PageIsAll
<1>2. m \in 0..Len(chain) /\ page[w] = 1..m /\ Len(chain) \in Nat
    BY <1>1 DEF PageInv, PageIsAll, TypeInv, TypeOK
<1>3. /\ 1..m \subseteq Stored'
      /\ Stored \subseteq Stored'
      /\ Stored' \subseteq Stored \union 1..m
    <2>1. \A t \in 1..Len(chain): SecondOf(t) < last[w] => t \in Stored
        BY <1>1 DEF PageInv, OlderAreStored
    <2>2. Ascending \/ Stored \subseteq page[w]
        BY <1>1 DEF PageInv, NobodyAhead
    <2> HIDE DEF m
    <2>3. QED
        BY <1>2, <2>1, <2>2, SavedPage
<1>4. Return(w, "ok")
    BY <1>1 DEF SavePage
<1>5. pc'[w] = "idle" /\ outcome'[w] = "ok"
    BY <1>4 DEF Return, TypeInv, TypeOK
<1>6. \A v \in Worker \ {w}: UNCHANGED <<pc[v], page[v], outcome[v]>>
    BY <1>4 DEF Return, TypeInv, TypeOK
<1>7. \A t \in 1..Len(chain): SecondOf(t)' = SecondOf(t)
    BY <1>1 DEF SecondOf
<1>8. RowsAreTrades'
    <2>1. \A t \in Trade: t > Len(chain) => rows'[t] = rows[t]
        <3>1. \A t \in Trade: t > Len(chain) => t \notin Unsynced(w) /\ rows[t] \in Nat
            <4>1. \A t \in Trade: rows[t] \in Nat
                BY DEF TypeInv, TypeOK
            <4>2. \A t \in Trade: t > Len(chain) => t \notin 1..Len(chain)
                BY <1>2, HistoryAssumption DEF Trade
            <4>3. QED
                BY <4>1, <4>2, UnsyncedOnChain
        <3>2. CASE Unsynced(w) = {}
            BY <3>2 DEF SavePage
        <3>3. CASE rows' = SaveMarketHistoryOrders(Unsynced(w))
            BY <1>2, <3>1, <3>3, HistoryAssumption DEF SaveMarketHistoryOrders, Trade
        <3>4. QED
            BY <3>2, <3>3 DEF SavePage
    <2>2. QED
        BY <1>1, <1>2, <2>1, HistoryAssumption DEF PageInv, RowsAreTrades, Trade
<1>9. Whole'
    <2>1. ASSUME NEW t \in 1..m PROVE 1..t \subseteq 1..m
        BY <1>2
    <2>2. QED
        BY <1>3, <2>1 DEF PageInv, Whole
<1>10. OlderAreStored' /\ MarkIsATrade'
    BY <1>1, <1>3, <1>5, <1>6, <1>7 DEF PageInv, OlderAreStored, MarkIsATrade
<1>11. PageIsAll'
    BY <1>1, <1>5, <1>6 DEF PageInv, PageIsAll
<1>12. NobodyAhead'
    <2>1. OneProcess => \A v \in Worker \ {w}: pc[v] # "save"
        BY <1>1 DEF OneProcess, LockInv, OneSyncPerProcess, Inside
    <2>2. QED
        BY <1>5, <1>6, <2>1 DEF NobodyAhead, OneProcess
<1>13. NoAnswerYet' /\ SuccessIsComplete'
    BY <1>1, <1>3, <1>5, <1>6 DEF PageInv, NoAnswerYet, SuccessIsComplete
<1>14. QED
    BY <1>3, <1>8, <1>9, <1>10, <1>11, <1>12, <1>13 DEF PageInv

LEMMA NextPageInv ==
    ASSUME OnePage
    PROVE  TypeInv /\ InOrder /\ LockInv /\ (OneProcess \/ Ascending) /\ PageInv /\ [Next]_vars
               => PageInv' /\ Stored \subseteq Stored'
<1> SUFFICES ASSUME TypeInv, InOrder, LockInv, OneProcess \/ Ascending, PageInv, [Next]_vars
             PROVE  PageInv' /\ Stored \subseteq Stored'
    OBVIOUS
<1>1. CASE Execute
    <2>1. InOrder'
        BY NextInOrder
    <2>2. QED
        BY <1>1, <2>1, ExecutePageInv, ExecuteStored DEF PageInv
<1>2. ASSUME NEW w \in Worker, Call(w)
      PROVE  PageInv' /\ Stored' = Stored
    <2>1. Stored' = Stored
        BY <1>2 DEF Call, Stored
    <2>2. PageInv'
        BY <1>2, QuietPageInv DEF Call, TypeInv, TypeOK, PageInv, NoAnswerYet
    <2>3. QED
        BY <2>1, <2>2
<1>3. ASSUME NEW w \in Worker, AcquireLock(w)
      PROVE  PageInv' /\ Stored' = Stored
    <2>1. Stored' = Stored
        BY <1>3 DEF AcquireLock, Stored
    <2>2. PageInv'
        BY <1>3, QuietPageInv DEF AcquireLock, TypeInv, TypeOK, PageInv, NoAnswerYet
    <2>3. QED
        BY <2>1, <2>2
<1>4. ASSUME NEW w \in Worker, ReadLast(w)
      PROVE  PageInv' /\ Stored' = Stored
    BY <1>4, ReadLastPageInv DEF ReadLast, Stored
<1>5. ASSUME NEW w \in Worker, FetchPage(w)
      PROVE  PageInv' /\ Stored' = Stored
    <2>1. UNCHANGED <<chain, rows>>
        BY <1>5 DEF FetchPage
    <2>2. QED
        BY <1>5, <2>1, FetchPageInv DEF Stored
<1>6. ASSUME NEW w \in Worker, Return(w, "error"), UNCHANGED <<chain, rows, last, key, target>>
      PROVE  PageInv' /\ Stored' = Stored
    <2>1. Stored' = Stored
        BY <1>6 DEF Stored
    <2>2. PageInv'
        BY <1>6, QuietPageInv DEF Return, TypeInv, TypeOK, PageInv, NoAnswerYet
    <2>3. QED
        BY <2>1, <2>2
<1>7. ASSUME NEW w \in Worker, SavePage(w)
      PROVE  PageInv' /\ Stored \subseteq Stored'
    BY <1>7, SavePageInv
<1>8. ASSUME NEW p \in Process, Crash(p)
      PROVE  PageInv' /\ Stored' = Stored
    <2>1. Stored' = Stored
        BY <1>8 DEF Crash, Stored
    <2>2. PageInv'
        BY <1>8, QuietPageInv DEF Crash, TypeInv, TypeOK, PageInv, NoAnswerYet
    <2>3. QED
        BY <2>1, <2>2
<1>9. CASE UNCHANGED vars
    <2>1. Stored' = Stored
        BY <1>9 DEF vars, Stored
    <2>2. PageInv'
        BY <1>9, QuietPageInv DEF vars, PageInv, NoAnswerYet
    <2>3. QED
        BY <2>1, <2>2
<1>10. QED
    BY <1>1, <1>2, <1>3, <1>4, <1>5, <1>6, <1>7, <1>8, <1>9
    DEF Next, Step, RejectPage, Fail

LEMMA PageInvHolds ==
    ASSUME OnePage, OneProcess \/ 0 \notin Gaps
    PROVE  Spec => []PageInv /\ NeverForgets
<1>1. Init => InOrder /\ Ascending /\ LockInv /\ PageInv
    BY InitPageInv DEF Init, InOrder, Ascending, LockInv, OneSyncPerProcess, Inside
<1>2. Spec => [](TypeInv /\ InOrder /\ LockInv)
    BY <1>1, NextInOrder, NextLockInv, TypeInvHolds, TypeCorrect, PTL DEF Spec
<1>3. Spec => [](OneProcess \/ Ascending)
    <2>1. CASE OneProcess
        BY <2>1, PTL
    <2>2. CASE 0 \notin Gaps
        <3>1. TypeInv /\ Ascending /\ [Next]_vars => Ascending'
            BY <2>2, NextAscending
        <3>2. QED
            BY <1>1, <3>1, TypeInvHolds, PTL DEF Spec
    <2>3. QED
        BY <2>1, <2>2
<1>4. Spec => []PageInv
    BY <1>1, <1>2, <1>3, NextPageInv, PTL DEF Spec
<1>5. QED
    BY <1>2, <1>3, <1>4, NextPageInv, PTL DEF Spec, NeverForgets

\* If the history fits a page, and all syncs run in one process or each trade
\* has a second of its own, a call that returned no error has stored all there
\* was, for any failures, crashes and trades that cannot be converted.
THEOREM OnePageIsComplete ==
    ASSUME OnePage, OneProcess \/ 0 \notin Gaps
    PROVE  Spec => []SuccessIsComplete
<1>1. PageInv => SuccessIsComplete
    BY DEF PageInv
<1>2. QED
    BY <1>1, PageInvHolds, PTL

\* Then the stored history has no hole either, whoever is inside.
THEOREM OnePageHasNoHoles ==
    ASSUME OnePage, OneProcess \/ 0 \notin Gaps
    PROVE  Spec => []NoHoles
<1>1. PageInv => NoHoles
    BY DEF PageInv, Whole, NoHoles
<1>2. QED
    BY <1>1, PageInvHolds, PTL

\* And nothing is forgotten, though trades of one second are deleted together.
THEOREM OnePageForgetsNothing ==
    ASSUME OnePage, OneProcess \/ 0 \notin Gaps
    PROVE  Spec => NeverForgets
BY PageInvHolds

-----------------------------------------------------------------------------
(* Many pages, and no failures: the lock hides a half-stored history. *)

\* Calls do not fail, and every trade can be converted.
Undisturbed == MaxFaults = 0 /\ Convertible \subseteq {TRUE}

\* The trades a worker's mark stands for.
Known(w) == {t \in 1..Len(chain): SecondOf(t) <= last[w]}

\* The trades of the chain, of which worker w has still to see those up to the
\* first n.
Half(w, n) == Known(w) \union (n + 1)..target[w]

\* Between two pages the table holds what was known and the newest pages: the
\* hole between them is the rest of the history a worker has still to see.
RoundOf(w) ==
    /\ pc[w] = "fetch" /\ key[w] = NoKey => Stored = Known(w)
    /\ pc[w] = "fetch" /\ key[w] # NoKey =>
          /\ key[w] < target[w] /\ target[w] <= Len(chain) /\ Known(w) \subseteq 1..target[w]
          /\ Stored = Half(w, key[w])
    /\ pc[w] = "save" =>
          /\ target[w] <= Len(chain) /\ Known(w) \subseteq 1..target[w]
          /\ \E top \in 1..target[w]:
                /\ page[w] = {t \in 1..top: t + Batch > top}
                /\ key[w] = IF top > Batch THEN top - Batch ELSE NoKey
                /\ Stored = Half(w, top)

RoundInv == \A w \in Worker: RoundOf(w)

\* With nobody between two pages there is no hole.
WholeAtRest == (\A w \in Worker: pc[w] \notin {"fetch", "save"}) => Whole

\* The inductive invariant of undisturbed syncs.
PagesInv ==
    /\ Fine(1..Len(chain))
    /\ RowsAreTrades
    /\ MarkIsATrade
    /\ RoundInv
    /\ WholeAtRest
    /\ NoAnswerYet
    /\ SuccessIsComplete

LEMMA InitPagesInv == Init => PagesInv
BY DEF Init, PagesInv, Fine, RowsAreTrades, MarkIsATrade, RoundInv, RoundOf, WholeAtRest, Whole,
       Stored,
       NoAnswerYet, SuccessIsComplete

\* Who is inside the only process is there alone.
LEMMA Alone ==
    ASSUME OneProcess, LockInv, NEW w \in Worker, pc[w] \in Inside
    PROVE  \A v \in Worker \ {w}: pc[v] \notin {"fetch", "save"}
BY DEF OneProcess, LockInv, OneSyncPerProcess, Inside

\* Steps that neither store anything nor bring a worker between its pages.
LEMMA QuietPagesInv ==
    ASSUME TypeInv, PagesInv, UNCHANGED <<chain, rows>>,
           \A v \in Worker: pc'[v] \in {"fetch", "save"} =>
               pc[v] = pc'[v] /\ UNCHANGED <<last[v], key[v], page[v], target[v]>>,
           \A v \in Worker: pc'[v] # "idle" => outcome'[v] = "none",
           \A v \in Worker: outcome'[v] = "ok" =>
               (outcome[v] = "ok" /\ target'[v] = target[v]) \/ target'[v] = 0,
           Whole \/ \A v \in Worker: pc[v] \in {"fetch", "save"} => pc'[v] = pc[v]
    PROVE  PagesInv'
<1>1. /\ Stored' = Stored
      /\ \A t \in 1..Len(chain): SecondOf(t)' = SecondOf(t)
      /\ Fine(1..Len(chain))'
    BY DEF Stored, SecondOf, PagesInv, Fine
<1>2. RowsAreTrades'
    BY DEF PagesInv, RowsAreTrades
<1>3. MarkIsATrade'
    BY <1>1 DEF PagesInv, MarkIsATrade
<1>4. RoundInv'
    <2> SUFFICES ASSUME NEW v \in Worker, pc'[v] \in {"fetch", "save"}
                 PROVE  RoundOf(v)'
        BY DEF RoundInv, RoundOf
    <2>1. UNCHANGED <<pc[v], last[v], key[v], page[v], target[v]>>
        OBVIOUS
    <2>2. Known(v)' = Known(v)
        BY <1>1, <2>1 DEF Known
    <2>3. UNCHANGED Half(v, key[v]) /\ \A n \in 1..target[v]: Half(v, n)' = Half(v, n)
        BY <2>1, <2>2 DEF Half
    <2>4. RoundOf(v)
        BY DEF PagesInv, RoundInv
    <2>5. QED
        BY <1>1, <2>1, <2>2, <2>3, <2>4 DEF RoundOf
<1>5. WholeAtRest'
    BY <1>1 DEF PagesInv, WholeAtRest, Whole
<1>6. NoAnswerYet' /\ SuccessIsComplete'
    BY <1>1 DEF PagesInv, NoAnswerYet, SuccessIsComplete
<1>7. QED
    BY <1>1, <1>2, <1>3, <1>4, <1>5, <1>6 DEF PagesInv

\* A new trade is of no second that a sync takes for stored.
LEMMA ExecutePagesInv ==
    ASSUME TypeInv, Undisturbed, PagesInv, Execute, Ascending'
    PROVE  PagesInv' /\ Stored' = Stored
<1> DEFINE n == Len(chain')
<1>1. Len(chain') = Len(chain) + 1 /\ Len(chain) \in Nat
    BY ExecutedTrade
<1>2. Stored' = Stored /\ \A t \in 1..Len(chain): SecondOf(t)' = SecondOf(t)
    BY ExecuteStored DEF PagesInv
<1>3. UNCHANGED <<rows, pc, last, key, page, target, outcome>>
    BY DEF Execute
<1>4. Fine(1..Len(chain))' /\ RowsAreTrades'
    <2>1. chain'[n].fine = TRUE
        BY ExecutedTrade DEF Undisturbed
    <2>2. \A t \in 1..Len(chain): chain'[t].fine
        BY ExecutedTrade DEF PagesInv, Fine
    <2>3. Fine(1..Len(chain))'
        BY <1>1, <2>1, <2>2 DEF Fine
    <2>4. RowsAreTrades'
        BY <1>1, <1>3 DEF PagesInv, RowsAreTrades, Trade
    <2>5. QED
        BY <2>3, <2>4
<1>5. MarkIsATrade'
    BY <1>1, <1>2, <1>3 DEF PagesInv, MarkIsATrade
<1>6. ASSUME NEW w \in Worker, pc[w] \in {"fetch", "save"}
      PROVE  Known(w)' = Known(w)
    <2>1. chain'[n].at \in Nat \ {0}
        <3>1. chain' \in Seq([at: Nat \ {0}, fine: BOOLEAN])
            BY NextTypeInv DEF Next, TypeInv, TypeOK
        <3>2. n \in 1..Len(chain')
            BY <1>1
        <3>3. chain'[n] \in [at: Nat \ {0}, fine: BOOLEAN]
            BY <3>1, <3>2, ElementOfSeq
        <3>4. QED
            BY <3>3
    <2>2. ~(chain'[n].at <= last[w])
        <3>1. CASE last[w] = NoOrder
            BY <2>1, <3>1 DEF NoOrder
        <3>2. ASSUME NEW u \in 1..Len(chain), last[w] = SecondOf(u)
              PROVE  ~(chain'[n].at <= last[w])
            <4>1. chain'[u].at < chain'[n].at
                BY <1>1 DEF Ascending, SecondOf
            <4>2. SecondOf(u) \in Nat /\ chain'[u].at = SecondOf(u)
                BY TradeTyped, ExecutedTrade DEF TypeInv, SecondOf
            <4>3. QED
                BY <2>1, <3>2, <4>1, <4>2
        <3>3. QED
            BY <1>6, <3>1, <3>2 DEF PagesInv, MarkIsATrade
    <2>3. 1..n = 1..Len(chain) \union {n} /\ n \notin 1..Len(chain)
        BY <1>1
    <2>4. Known(w)' = {t \in 1..n: chain'[t].at <= last[w]}
        BY <1>3 DEF Known, SecondOf
    <2>5. \A t \in 1..Len(chain): chain'[t].at = SecondOf(t)
        BY <1>2 DEF SecondOf
    <2>6. QED
        BY <2>2, <2>3, <2>4, <2>5 DEF Known
<1>7. RoundInv'
    <2> SUFFICES ASSUME NEW w \in Worker, pc[w] \in {"fetch", "save"}
                 PROVE  RoundOf(w)'
        BY <1>3 DEF RoundInv, RoundOf
    <2>1. UNCHANGED <<pc[w], key[w], page[w], target[w], Known(w)>>
        BY <1>3, <1>6
    <2>2. UNCHANGED Half(w, key[w]) /\ \A top \in 1..target[w]: Half(w, top)' = Half(w, top)
        BY <2>1 DEF Half
    <2>3. RoundOf(w) /\ target[w] \in Nat
        BY DEF PagesInv, RoundInv, TypeInv, TypeOK
    <2>4. target[w] <= Len(chain) => target[w] <= Len(chain')
        BY <1>1, <2>3
    <2>5. QED
        BY <1>2, <2>1, <2>2, <2>3, <2>4 DEF RoundOf
<1>8. WholeAtRest' /\ NoAnswerYet' /\ SuccessIsComplete'
    BY <1>2, <1>3 DEF PagesInv, WholeAtRest, Whole, NoAnswerYet, SuccessIsComplete
<1>9. QED
    BY <1>2, <1>4, <1>5, <1>7, <1>8 DEF PagesInv

\* The mark of a sync that begins stands for what is stored.
LEMMA ReadLastPagesInv ==
    ASSUME TypeInv, Ascending, OneProcess, LockInv, PagesInv, NEW w \in Worker, ReadLast(w)
    PROVE  PagesInv'
<1>1. UNCHANGED <<chain, rows, page, target, outcome>> /\ pc[w] = "last"
    BY DEF ReadLast
<1>2. /\ Stored' = Stored /\ Fine(1..Len(chain))'
      /\ \A t \in 1..Len(chain): SecondOf(t)' = SecondOf(t)
    BY <1>1 DEF Stored, SecondOf, PagesInv, Fine
<1>3. PICK s \in LastSeconds: last' = [last EXCEPT ![w] = s]
    BY DEF ReadLast
<1>4. /\ s = NoOrder \/ \E t \in Stored: s = SecondOf(t)
      /\ \A t \in Stored: SecondOf(t) <= s
    BY DEF LastSeconds
<1>5. last'[w] = s /\ key'[w] = NoKey /\ pc'[w] = "fetch"
    BY <1>3 DEF ReadLast, TypeInv, TypeOK
<1>6. \A v \in Worker \ {w}: pc'[v] \notin {"fetch", "save"} /\ pc'[v] = pc[v]
    BY <1>1, Alone DEF Inside, ReadLast, TypeInv, TypeOK
<1>7. Whole
    BY <1>1, Alone DEF Inside, PagesInv, WholeAtRest
<1>8. Stored = {t \in 1..Len(chain): SecondOf(t) <= s}
    <2>1. ASSUME NEW t \in 1..Len(chain), SecondOf(t) <= s
          PROVE  t \in Stored
        <3>1. Len(chain) \in Nat /\ SecondOf(t) \in Nat \ {0}
            BY TradeTyped DEF TypeInv, TypeOK
        <3>2. PICK u \in Stored: s = SecondOf(u)
            BY <1>4, <2>1, <3>1 DEF NoOrder
        <3>3. u \in 1..Len(chain) /\ SecondOf(u) \in Nat
            BY TradeTyped DEF TypeInv, Stored
        <3>4. t <= u
            BY <2>1, <3>1, <3>2, <3>3 DEF Ascending
        <3>5. QED
            BY <1>7, <3>1, <3>3, <3>4 DEF Whole
    <2>2. Stored \subseteq 1..Len(chain)
        BY DEF Stored
    <2>3. QED
        BY <1>4, <2>1, <2>2
<1>9. RoundInv'
    <2>1. Known(w)' = {t \in 1..Len(chain): SecondOf(t) <= s}
        BY <1>1, <1>2, <1>5 DEF Known
    <2>2. RoundOf(w)'
        BY <1>2, <1>5, <1>8, <2>1 DEF RoundOf
    <2>3. QED
        BY <1>6, <2>2 DEF RoundInv, RoundOf
<1>10. RowsAreTrades' /\ NoAnswerYet' /\ SuccessIsComplete'
    BY <1>1, <1>2, <1>5, <1>6 DEF PagesInv, RowsAreTrades, NoAnswerYet, SuccessIsComplete
<1>11. MarkIsATrade'
    BY <1>1, <1>2, <1>4, <1>5, <1>6 DEF MarkIsATrade, Stored
<1>12. WholeAtRest'
    BY <1>5 DEF WholeAtRest
<1>13. QED
    BY <1>2, <1>9, <1>10, <1>11, <1>12 DEF PagesInv

\* A page that is fetched begins where what the worker has to see ends.
LEMMA FetchPagesInv ==
    ASSUME TypeInv, OneProcess, LockInv, PagesInv, NEW w \in Worker, FetchPage(w)
    PROVE  PagesInv'
<1> DEFINE top == PageHead(key[w])
<1>1. UNCHANGED <<chain, rows, last>> /\ pc[w] = "fetch"
    BY DEF FetchPage
<1>2. /\ Stored' = Stored /\ Fine(1..Len(chain))'
      /\ \A t \in 1..Len(chain): SecondOf(t)' = SecondOf(t)
    BY <1>1 DEF Stored, SecondOf, PagesInv, Fine
<1>3. Len(chain) \in Nat /\ Batch \in Nat \ {0} /\ key[w] \in Nat /\ target \in [Worker -> Nat]
    BY HistoryAssumption DEF TypeInv, TypeOK
<1>4. target' = [target EXCEPT ![w] = IF key[w] = NoKey THEN Len(chain) ELSE @]
    BY DEF FetchPage
<1>5. \A v \in Worker \ {w}: pc[v] \notin {"fetch", "save"}
    BY <1>1, Alone DEF Inside
<1>6. RoundOf(w)
    BY DEF PagesInv, RoundInv
<1>7. CASE PageAt(key[w]) = {} /\ Return(w, "ok") /\ UNCHANGED key
    <2>1. key[w] = NoKey /\ Len(chain) = 0
        <3>1. top = 0
            <4>1. top \in Nat
                BY <1>3 DEF PageHead
            <4>2. SUFFICES ASSUME top \in Nat \ {0}
                           PROVE  FALSE
                BY <4>1
            <4>3. top \in PageAt(key[w])
                BY <1>3, <4>2 DEF PageAt
            <4>4. QED
                BY <1>7, <4>3
        <3>2. QED
            BY <1>3, <3>1 DEF PageHead, NoKey
    <2>2. pc'[w] = "idle" /\ target'[w] = 0
        BY <1>4, <1>7, <2>1 DEF Return, TypeInv, TypeOK
    <2>3. \A v \in Worker \ {w}: UNCHANGED <<pc[v], page[v], outcome[v], target[v]>>
        BY <1>4, <1>7 DEF Return, TypeInv, TypeOK
    <2>4. Whole
        BY <2>1 DEF Whole, Stored
    <2>5. QED
        BY <1>1, <1>7, <2>2, <2>3, <2>4, QuietPagesInv DEF PagesInv, NoAnswerYet
<1>8. CASE /\ PageAt(key[w]) # {}
           /\ page' = [page EXCEPT ![w] = PageAt(key[w])]
           /\ key' = [key EXCEPT ![w] = NextKey(key[w])]
           /\ pc' = [pc EXCEPT ![w] = "save"]
           /\ UNCHANGED <<locked, outcome>>
    <2>1. /\ page'[w] = {t \in 1..top: t + Batch > top} /\ pc'[w] = "save"
          /\ key'[w] = IF top > Batch THEN top - Batch ELSE NoKey
        BY <1>8 DEF TypeInv, TypeOK, PageAt, NextKey
    <2>2. \A v \in Worker \ {w}: UNCHANGED <<pc[v], page[v], key[v], target[v], outcome[v]>>
        BY <1>4, <1>8 DEF TypeInv, TypeOK
    <2>3. Known(w)' = Known(w)
        BY <1>1, <1>2 DEF Known
    <2>4. /\ top \in 1..target'[w] /\ target'[w] <= Len(chain) /\ Known(w) \subseteq 1..target'[w]
          /\ Stored = Known(w) \union (top + 1)..target'[w]
        <3>1. CASE key[w] = NoKey
            <4>1. top = Len(chain) /\ target'[w] = Len(chain)
                BY <1>3, <1>4, <3>1 DEF PageHead
            <4>2. top # 0
                BY <1>8, <4>1 DEF PageAt
            <4>3. Stored = Known(w) /\ Known(w) \subseteq 1..Len(chain)
                BY <1>1, <1>6, <3>1 DEF RoundOf, Known
            <4>4. (top + 1)..target'[w] = {}
                BY <1>3, <4>1
            <4>5. QED
                BY <1>3, <4>1, <4>2, <4>3, <4>4
        <3>2. CASE key[w] # NoKey
            <4>1. top = key[w] /\ target'[w] = target[w] /\ target[w] \in Nat
                BY <1>3, <1>4, <3>2 DEF PageHead
            <4>2. /\ key[w] < target[w] /\ target[w] <= Len(chain)
                  /\ Known(w) \subseteq 1..target[w] /\ Stored = Half(w, key[w])
                BY <1>1, <1>6, <3>2 DEF RoundOf
            <4>3. top \in 1..target'[w]
                BY <1>3, <3>2, <4>1, <4>2 DEF NoKey
            <4>4. QED
                BY <4>1, <4>2, <4>3 DEF Half
        <3>3. QED
            BY <3>1, <3>2
    <2> HIDE DEF top
    <2>5. RoundOf(w)'
        BY <1>1, <1>2, <2>1, <2>3, <2>4 DEF RoundOf, Half
    <2>6. RoundInv'
        BY <1>5, <2>2, <2>5 DEF RoundInv, RoundOf
    <2>7. RowsAreTrades' /\ MarkIsATrade'
        BY <1>1, <1>2, <1>5, <2>2 DEF PagesInv, RowsAreTrades, MarkIsATrade
    <2>8. WholeAtRest'
        BY <2>1 DEF WholeAtRest
    <2>9. NoAnswerYet' /\ SuccessIsComplete'
        BY <1>1, <1>2, <1>8, <2>2 DEF PagesInv, NoAnswerYet, SuccessIsComplete
    <2>10. QED
        BY <1>2, <2>6, <2>7, <2>8, <2>9 DEF PagesInv
<1>9. QED
    BY <1>7, <1>8 DEF FetchPage

\* A page that is stored moves the end of what the worker has to see down, and
\* the last page of a sync closes the hole.
LEMMA SavePagesInv ==
    ASSUME TypeInv, Ascending, OneProcess, LockInv, PagesInv, NEW w \in Worker, SavePage(w)
    PROVE  /\ PagesInv' /\ Stored \subseteq Stored'
           /\ UNCHANGED outcome \/ Return(w, "ok")
<1>1. UNCHANGED <<chain, last, key, target, faults>> /\ pc[w] = "save"
    BY DEF SavePage
<1>2. PICK top \in 1..target[w]:
        /\ page[w] = {t \in 1..top: t + Batch > top}
        /\ key[w] = IF top > Batch THEN top - Batch ELSE NoKey
        /\ Stored = Half(w, top)
    BY <1>1 DEF PagesInv, RoundInv, RoundOf
<1>3. target[w] <= Len(chain) /\ Known(w) \subseteq 1..target[w]
    BY <1>1 DEF PagesInv, RoundInv, RoundOf
<1>4. /\ Len(chain) \in Nat /\ Batch \in Nat \ {0} /\ target[w] \in Nat /\ last[w] \in Nat
      /\ top \in Nat
    BY HistoryAssumption DEF TypeInv, TypeOK
<1>5. \A t \in 1..target[w]: t \in 1..Len(chain) /\ SecondOf(t) \in Nat
    BY <1>3, <1>4, TradeTyped DEF TypeInv
<1>6. Stored' = Stored \union Unsynced(w)
    BY SavedAlone
<1>7. Unsynced(w) = {t \in page[w]: last[w] <= SecondOf(t)}
    <2>1. ASSUME NEW t \in page[w], last[w] <= SecondOf(t), NEW u \in page[w], u >= t
          PROVE  last[w] <= SecondOf(u)
        <3>1. t \in 1..target[w] /\ u \in 1..target[w]
            BY <1>2, <1>4
        <3>2. SecondOf(t) <= SecondOf(u)
            BY <1>4, <1>5, <2>1, <3>1 DEF Ascending
        <3>3. QED
            BY <1>4, <1>5, <2>1, <3>1, <3>2
    <2>2. page[w] \subseteq Nat
        BY <1>2, <1>4
    <2>3. QED
        BY <2>1, <2>2 DEF Unsynced
<1>8. \A v \in Worker \ {w}: pc[v] \notin {"fetch", "save"}
    BY <1>1, Alone DEF Inside
<1>9. Fine(1..Len(chain))' /\ \A t \in 1..Len(chain): SecondOf(t)' = SecondOf(t)
    BY <1>1 DEF PagesInv, Fine, SecondOf
<1>10. RowsAreTrades'
    <2>1. \A t \in Trade: t > Len(chain) => rows'[t] = rows[t]
        <3>1. \A t \in Trade: t > Len(chain) => t \notin Unsynced(w) /\ rows[t] \in Nat
            <4>1. \A t \in Trade: rows[t] \in Nat
                BY DEF TypeInv, TypeOK
            <4>2. \A t \in Trade: t > Len(chain) => t \notin 1..Len(chain)
                BY <1>4, HistoryAssumption DEF Trade
            <4>3. QED
                BY <4>1, <4>2, UnsyncedOnChain
        <3>2. CASE Unsynced(w) = {}
            BY <3>2 DEF SavePage
        <3>3. CASE rows' = SaveMarketHistoryOrders(Unsynced(w))
            BY <1>4, <3>1, <3>3, HistoryAssumption DEF SaveMarketHistoryOrders, Trade
        <3>4. QED
            BY <3>2, <3>3 DEF SavePage
    <2>2. QED
        BY <1>1, <1>4, <2>1, HistoryAssumption DEF PagesInv, RowsAreTrades, Trade
<1>11. CASE (ReachedLast(w) \/ key[w] = NoKey) /\ Return(w, "ok")
    <2>1. pc'[w] = "idle" /\ outcome'[w] = "ok"
        BY <1>11 DEF Return, TypeInv, TypeOK
    <2>2. \A v \in Worker \ {w}: UNCHANGED <<pc[v], page[v], outcome[v]>>
        BY <1>11 DEF Return, TypeInv, TypeOK
    <2>3. ASSUME NEW t \in 1..target[w]
          PROVE  t \in Stored'
        <3>1. SecondOf(t) \in Nat /\ t \in 1..Len(chain)
            BY <1>5
        <3>2. CASE t > top
            <4>1. t \in (top + 1)..target[w]
                BY <1>4, <3>2
            <4>2. QED
                BY <1>2, <1>6, <4>1 DEF Half
        <3>3. CASE t \in page[w] /\ last[w] <= SecondOf(t)
            BY <1>6, <1>7, <3>3
        <3>4. CASE SecondOf(t) < last[w]
            <4>1. t \in Known(w)
                BY <1>4, <3>1, <3>4 DEF Known
            <4>2. QED
                BY <1>2, <1>6, <4>1 DEF Half
        <3>5. CASE t <= top /\ t \notin page[w]
            <4>1. t + Batch <= top
                BY <1>2, <1>4, <3>5
            <4>2. key[w] # NoKey
                BY <1>2, <1>4, <4>1 DEF NoKey
            <4>3. PICK u \in page[w]: u \notin Unsynced(w)
                BY <1>11, <4>2 DEF ReachedLast, Unsynced
            <4>4. u \in 1..target[w] /\ t < u
                BY <1>2, <1>4, <4>1
            <4>5. SecondOf(t) < SecondOf(u) /\ SecondOf(u) \in Nat /\ ~(last[w] <= SecondOf(u))
                BY <1>5, <1>7, <4>3, <4>4 DEF Ascending
            <4>6. SecondOf(t) < last[w]
                BY <1>4, <3>1, <4>5
            <4>7. QED
                BY <3>4, <4>6
        <3>6. QED
            BY <1>4, <3>1, <3>2, <3>3, <3>4, <3>5
    <2>4. Stored' \subseteq 1..target[w]
        BY <1>2, <1>3, <1>4, <1>6, <1>7 DEF Half
    <2>5. Whole'
        <3>1. \A t \in 1..target[w]: 1..t \subseteq 1..target[w]
            BY <1>4
        <3>2. QED
            BY <2>3, <2>4, <3>1 DEF Whole
    <2>6. RoundInv' /\ WholeAtRest' /\ MarkIsATrade'
        BY <1>8, <2>1, <2>2, <2>5 DEF RoundInv, RoundOf, WholeAtRest, MarkIsATrade
    <2>7. NoAnswerYet' /\ SuccessIsComplete'
        BY <1>1, <1>6, <2>1, <2>2, <2>3 DEF PagesInv, NoAnswerYet, SuccessIsComplete
    <2>8. QED
        BY <1>6, <1>9, <1>10, <1>11, <2>6, <2>7 DEF PagesInv
<1>12. CASE /\ ~ReachedLast(w) /\ key[w] # NoKey
            /\ pc' = [pc EXCEPT ![w] = "fetch"]
            /\ page' = [page EXCEPT ![w] = {}]
            /\ UNCHANGED <<locked, outcome>>
    <2>1. pc'[w] = "fetch"
        BY <1>12 DEF TypeInv, TypeOK
    <2>2. \A v \in Worker \ {w}: UNCHANGED <<pc[v], page[v]>>
        BY <1>12 DEF TypeInv, TypeOK
    <2>3. key[w] = top - Batch /\ top > Batch
        BY <1>2, <1>12
    <2>4. Unsynced(w) = page[w]
        BY <1>12 DEF ReachedLast
    <2>5. Stored' = Half(w, key[w])
        <3>1. page[w] \union (top + 1)..target[w] = (key[w] + 1)..target[w]
            BY <1>2, <1>4, <2>3
        <3>2. QED
            BY <1>2, <1>6, <2>4, <3>1 DEF Half
    <2>6. Known(w)' = Known(w) /\ Half(w, key[w])' = Half(w, key[w])
        BY <1>1, <1>9 DEF Known, Half
    <2>7. key[w] < target[w]
        BY <1>4, <2>3
    <2>8. RoundOf(w)'
        BY <1>1, <1>3, <1>12, <2>1, <2>5, <2>6, <2>7 DEF RoundOf
    <2>9. RoundInv' /\ MarkIsATrade'
        BY <1>1, <1>8, <1>9, <2>2, <2>8 DEF PagesInv, RoundInv, RoundOf, MarkIsATrade
    <2>10. WholeAtRest'
        BY <2>1 DEF WholeAtRest
    <2>11. NoAnswerYet' /\ SuccessIsComplete'
        BY <1>1, <1>6, <1>12, <2>1, <2>2 DEF PagesInv, NoAnswerYet, SuccessIsComplete
    <2>12. QED
        BY <1>6, <1>9, <1>10, <1>12, <2>9, <2>10, <2>11 DEF PagesInv
<1>13. QED
    BY <1>11, <1>12 DEF SavePage

\* Nothing fails and no page is refused.
LEMMA NothingFails ==
    ASSUME TypeInv, Undisturbed, Fine(1..Len(chain))
    PROVE  /\ \A w \in Worker: ~Fail(w) /\ ~RejectPage(w)
           /\ \A p \in Process: ~Crash(p)
<1>1. ~(faults < MaxFaults)
    BY DEF Undisturbed, TypeInv, TypeOK
<1>2. \A w \in Worker: Fine(Unsynced(w))
    BY UnsyncedOnChain DEF Fine
<1>3. QED
    BY <1>1, <1>2 DEF Fail, Crash, RejectPage

LEMMA NextPagesInv ==
    ASSUME OneProcess, Undisturbed
    PROVE  TypeInv /\ Ascending /\ Ascending' /\ LockInv /\ PagesInv /\ [Next]_vars
               => PagesInv' /\ Stored \subseteq Stored'
<1> SUFFICES ASSUME TypeInv, Ascending, Ascending', LockInv, PagesInv, [Next]_vars
             PROVE  PagesInv' /\ Stored \subseteq Stored'
    OBVIOUS
<1>1. CASE Execute
    BY <1>1, ExecutePagesInv
<1>2. ASSUME NEW w \in Worker, Call(w)
      PROVE  PagesInv' /\ Stored' = Stored
    <2>1. Stored' = Stored
        BY <1>2 DEF Call, Stored
    <2>2. PagesInv'
        BY <1>2, QuietPagesInv DEF Call, TypeInv, TypeOK, PagesInv, NoAnswerYet
    <2>3. QED
        BY <2>1, <2>2
<1>3. ASSUME NEW w \in Worker, AcquireLock(w)
      PROVE  PagesInv' /\ Stored' = Stored
    <2>1. Stored' = Stored
        BY <1>3 DEF AcquireLock, Stored
    <2>2. PagesInv'
        BY <1>3, QuietPagesInv DEF AcquireLock, TypeInv, TypeOK, PagesInv, NoAnswerYet
    <2>3. QED
        BY <2>1, <2>2
<1>4. ASSUME NEW w \in Worker, ReadLast(w)
      PROVE  PagesInv' /\ Stored' = Stored
    BY <1>4, ReadLastPagesInv DEF ReadLast, Stored
<1>5. ASSUME NEW w \in Worker, FetchPage(w)
      PROVE  PagesInv' /\ Stored' = Stored
    <2>1. UNCHANGED <<chain, rows>>
        BY <1>5 DEF FetchPage
    <2>2. QED
        BY <1>5, <2>1, FetchPagesInv DEF Stored
<1>6. ASSUME NEW w \in Worker, SavePage(w)
      PROVE  PagesInv' /\ Stored \subseteq Stored'
    BY <1>6, SavePagesInv
<1>7. CASE UNCHANGED vars
    <2>1. Stored' = Stored
        BY <1>7 DEF vars, Stored
    <2>2. PagesInv'
        BY <1>7, QuietPagesInv DEF vars, PagesInv, NoAnswerYet
    <2>3. QED
        BY <2>1, <2>2
<1>8. QED
    BY <1>1, <1>2, <1>3, <1>4, <1>5, <1>6, <1>7, NothingFails DEF Next, Step, PagesInv

LEMMA PagesInvHolds ==
    ASSUME OneProcess, Undisturbed, 0 \notin Gaps
    PROVE  Spec => [](TypeInv /\ Ascending /\ LockInv /\ PagesInv)
<1>1. Init => Ascending /\ LockInv /\ PagesInv
    BY InitPagesInv DEF Init, Ascending, LockInv, OneSyncPerProcess, Inside
<1>2. TypeInv /\ Ascending /\ [Next]_vars => Ascending'
    BY NextAscending
<1>3. Spec => [](TypeInv /\ Ascending /\ LockInv)
    BY <1>1, <1>2, NextLockInv, TypeInvHolds, TypeCorrect, PTL DEF Spec
<1>4. QED
    BY <1>1, <1>3, NextPagesInv, PTL DEF Spec

\* However many pages a sync has, if no call fails and all syncs run in one
\* process, a call that returned has stored all there was.
THEOREM PagesAreComplete ==
    ASSUME OneProcess, Undisturbed, 0 \notin Gaps
    PROVE  Spec => []SuccessIsComplete
<1>1. PagesInv => SuccessIsComplete
    BY DEF PagesInv
<1>2. QED
    BY <1>1, PagesInvHolds, PTL

\* And no hole is seen while nobody is inside.
THEOREM PagesHaveNoHoles ==
    ASSUME OneProcess, Undisturbed, 0 \notin Gaps
    PROVE  Spec => []NoHoles
<1>1. PagesInv => NoHoles
    BY DEF PagesInv, WholeAtRest, Whole, NoHoles, Inside
<1>2. QED
    BY <1>1, PagesInvHolds, PTL

-----------------------------------------------------------------------------
(* The table, read through its longest complete prefix, is an archive. *)

\* A set of trades of the chain has a first one: the well-ordering of numbers.
LEMMA FirstOf ==
    ASSUME NEW S \in SUBSET Nat, S # {}
    PROVE  \E t \in S: \A u \in S: t <= u
<1>1. PICK t \in S: \A u \in S: ~(<<u, t>> \in OpToRel(<, Nat))
    BY NatLessThanWellFounded, WFMin
<1>2. \A u \in S: <<u, t>> \in OpToRel(<, Nat) <=> u < t
    BY DEF OpToRel
<1>3. \A u \in S: ~(u < t)
    BY <1>1, <1>2, Zenon
<1>4. QED
    BY <1>3

\* The longest complete beginning of a set of trades of a chain of length n.
Beginning(n, S) == CHOOSE k \in 0..n: 1..k \subseteq S /\ k + 1 \notin S

\* It is well defined: it ends before the first trade that is not in the set.
LEMMA BeginningIs ==
    ASSUME NEW n \in Nat, NEW S \in SUBSET (1..n)
    PROVE  /\ Beginning(n, S) \in 0..n
           /\ 1..Beginning(n, S) \subseteq S /\ Beginning(n, S) + 1 \notin S
<1> DEFINE missing == {t \in Nat \ {0}: t \notin S}
<1>1. n + 1 \in missing
    OBVIOUS
<1>2. PICK t \in missing: \A u \in missing: t <= u
    BY <1>1, FirstOf
<1>3. t - 1 \in 0..n /\ (t - 1) + 1 \notin S
    BY <1>1, <1>2
<1>4. 1..(t - 1) \subseteq S
    BY <1>2
<1>5. \E k \in 0..n: 1..k \subseteq S /\ k + 1 \notin S
    BY <1>3, <1>4
<1>6. QED
    BY <1>5 DEF Beginning

\* Nothing else is: a beginning that cannot be longer is the longest.
LEMMA OneBeginning ==
    ASSUME NEW S, NEW k \in Nat, 1..k \subseteq S, k + 1 \notin S, NEW l \in Nat, 1..l \subseteq S
    PROVE  l <= k
<1>1. l > k => k + 1 \in 1..l
    OBVIOUS
<1>2. QED
    BY <1>1

\* What the table holds, now and after a step, is part of the chain.
LEMMA StoredPart ==
    ASSUME TypeInv, [Next]_vars
    PROVE  /\ Len(chain) \in Nat /\ Stored \in SUBSET (1..Len(chain))
           /\ Len(chain') \in Nat /\ Stored' \in SUBSET (1..Len(chain'))
<1>1. TypeInv'
    BY NextTypeInv
<1>2. QED
    BY <1>1 DEF TypeInv, TypeOK, Stored

LEMMA InitArchive == Init => Archive!Init
<1> SUFFICES ASSUME Init
             PROVE  Archive!Init
    OBVIOUS
<1>1. Len(chain) = 0
    BY DEF Init
<1>2. Prefix = 0
    <2>1. Prefix = Beginning(0, {})
        BY <1>1 DEF Prefix, Beginning, Stored
    <2>2. QED
        BY <2>1, BeginningIs
<1>3. Promised = [c \in Worker |-> 0]
    BY DEF Init, Promised
<1>4. QED
    BY <1>1, <1>2, <1>3 DEF Archive!Init

\* The prefix is as long as what is stored allows, and it never gets shorter.
LEMMA PrefixGrows ==
    ASSUME TypeInv, [Next]_vars, Stored \subseteq Stored'
    PROVE  /\ Prefix \in 0..Len(chain) /\ Prefix' \in 0..Len(chain') /\ Prefix <= Prefix'
           /\ Stored' = Stored => Prefix' = Prefix
           /\ \A n \in Nat: 1..n \subseteq Stored' => n <= Prefix'
<1>1. PICK k: k = Prefix
    OBVIOUS
<1>2. PICK l: l = Prefix'
    OBVIOUS
<1>3. k = Beginning(Len(chain), Stored) /\ l = Beginning(Len(chain'), Stored')
    BY <1>1, <1>2 DEF Prefix, Beginning
<1>4. k \in 0..Len(chain) /\ 1..k \subseteq Stored /\ k + 1 \notin Stored
    BY <1>3, StoredPart, BeginningIs
<1>5. l \in 0..Len(chain') /\ 1..l \subseteq Stored' /\ l + 1 \notin Stored'
    BY <1>3, StoredPart, BeginningIs
<1>6. k \in Nat /\ l \in Nat
    BY <1>4, <1>5, StoredPart
<1>7. k <= l
    BY <1>4, <1>5, <1>6, OneBeginning
<1>8. Stored' = Stored => l <= k
    BY <1>4, <1>5, <1>6, OneBeginning
<1>9. \A n \in Nat: 1..n \subseteq Stored' => n <= l
    BY <1>5, <1>6, OneBeginning
<1>10. QED
    BY <1>1, <1>2, <1>4, <1>5, <1>6, <1>7, <1>8, <1>9

LEMMA NextArchive ==
    ASSUME OneProcess, Undisturbed
    PROVE  TypeInv /\ Ascending /\ Ascending' /\ LockInv /\ PagesInv /\ [Next]_vars
               => [Archive!Next]_(Archive!archiveVars)
<1> SUFFICES ASSUME TypeInv, Ascending, Ascending', LockInv, PagesInv, [Next]_vars
             PROVE  [Archive!Next]_(Archive!archiveVars)
    OBVIOUS
<1>1. Stored \subseteq Stored' /\ PagesInv'
    BY NextPagesInv
<1>2. /\ Prefix \in 0..Len(chain) /\ Prefix' \in 0..Len(chain') /\ Prefix <= Prefix'
      /\ Stored' = Stored => Prefix' = Prefix
      /\ \A n \in Nat: 1..n \subseteq Stored' => n <= Prefix'
    BY <1>1, PrefixGrows
<1>3. Len(chain) \in Nat /\ Len(chain') \in Nat
    BY StoredPart
<1>4. CASE Execute
    <2>1. Len(chain') = Len(chain) + 1 /\ Stored' = Stored
        BY <1>4, ExecutedTrade, ExecuteStored DEF PagesInv
    <2>2. Promised' = Promised
        BY <1>4 DEF Execute, Promised
    <2>3. QED
        BY <1>2, <2>1, <2>2 DEF Archive!Next, Archive!Publish
<1>5. ASSUME NEW w \in Worker, Call(w)
      PROVE  Archive!Ask(w)
    <2>1. Stored' = Stored /\ chain' = chain
        BY <1>5 DEF Call, Stored
    <2>2. Promised' = [Promised EXCEPT ![w] = 0]
        BY <1>5 DEF Call, Promised, TypeInv, TypeOK
    <2>3. QED
        BY <1>2, <2>1, <2>2 DEF Archive!Ask
<1>6. ASSUME UNCHANGED <<chain, rows, outcome>>,
             \A w \in Worker: outcome[w] = "ok" => target'[w] = target[w]
      PROVE  UNCHANGED Archive!archiveVars
    <2>1. Stored' = Stored
        BY <1>6 DEF Stored
    <2>2. Promised' = Promised
        BY <1>6 DEF Promised
    <2>3. QED
        BY <1>2, <1>6, <2>1, <2>2 DEF Archive!archiveVars
<1>7. ASSUME NEW w \in Worker, Return(w, "ok"), chain' = chain,
             \A v \in Worker \ {w}: target'[v] = target[v]
      PROVE  Archive!Answer(w)
    <2>1. outcome'[w] = "ok" /\ \A v \in Worker \ {w}: outcome'[v] = outcome[v]
        BY <1>7 DEF Return, TypeInv, TypeOK
    <2>2. target'[w] \in Nat /\ 1..target'[w] \subseteq Stored'
        BY <1>1, <2>1, NextTypeInv DEF PagesInv, SuccessIsComplete, TypeInv, TypeOK
    <2>3. target'[w] \in 0..Prefix'
        BY <1>2, <1>3, <2>2
    <2>4. Promised' = [Promised EXCEPT ![w] = target'[w]]
        BY <1>7, <2>1 DEF Promised
    <2>5. Prefix' \in Prefix..Len(chain)
        BY <1>2, <1>3, <1>7
    <2>6. QED
        BY <1>7, <2>3, <2>4, <2>5 DEF Archive!Answer
<1>8. ASSUME NEW w \in Worker, AcquireLock(w) \/ ReadLast(w)
      PROVE  UNCHANGED Archive!archiveVars
    BY <1>6, <1>8 DEF AcquireLock, ReadLast
<1>9. ASSUME NEW w \in Worker, FetchPage(w)
      PROVE  [Archive!Next]_(Archive!archiveVars)
    <2>1. /\ chain' = chain /\ rows' = rows /\ pc[w] = "fetch"
          /\ \A v \in Worker \ {w}: target'[v] = target[v]
        BY <1>9 DEF FetchPage, TypeInv, TypeOK
    <2>2. CASE Return(w, "ok")
        BY <1>7, <2>1, <2>2 DEF Archive!Next
    <2>3. CASE UNCHANGED outcome
        BY <1>6, <2>1, <2>3 DEF PagesInv, NoAnswerYet
    <2>4. QED
        BY <1>9, <2>2, <2>3 DEF FetchPage
<1>10. ASSUME NEW w \in Worker, SavePage(w)
       PROVE  [Archive!Next]_(Archive!archiveVars)
    <2>1. chain' = chain /\ target' = target
        BY <1>10 DEF SavePage
    <2>2. CASE Return(w, "ok")
        BY <1>7, <2>1, <2>2 DEF Archive!Next
    <2>3. CASE UNCHANGED outcome
        <3>1. Promised' = Promised
            BY <2>1, <2>3 DEF Promised
        <3>2. Prefix' = Prefix \/ Prefix' \in (Prefix + 1)..Len(chain)
            BY <1>2, <1>3, <2>1
        <3>3. QED
            BY <2>1, <3>1, <3>2 DEF Archive!Next, Archive!Archive, Archive!archiveVars
    <2>4. QED
        BY <1>10, <2>2, <2>3, SavePagesInv
<1>11. CASE UNCHANGED vars
    BY <1>6, <1>11 DEF vars
<1>12. QED
    BY <1>4, <1>5, <1>8, <1>9, <1>10, <1>11, NothingFails DEF Next, Step, PagesInv, Archive!Next

\* Newest page first, in as many transactions as it takes, and yet to its
\* callers the table is an archive that grows from the first trade on and keeps
\* what a call vouched for.
THEOREM HistoryIsAnArchive ==
    ASSUME OneProcess, Undisturbed, 0 \notin Gaps
    PROVE  Spec => ImplementsArchive
<1>1. TypeInv /\ Ascending /\ Ascending' /\ LockInv /\ PagesInv /\ [Next]_vars
          => [Archive!Next]_(Archive!archiveVars)
    BY NextArchive
<1>2. QED
    BY <1>1, InitArchive, PagesInvHolds, PTL DEF Spec, ImplementsArchive, Archive!Spec

-----------------------------------------------------------------------------
(* A client that reads the history while syncs replace its rows. *)

LEMMA MinOfTwo ==
    ASSUME NEW a \in Nat, NEW b \in Nat
    PROVE  Min({a, b}) \in {a, b} /\ Min({a, b}) <= a /\ Min({a, b}) <= b
<1>1. \E x \in {a, b}: \A y \in {a, b}: x <= y
    <2>1. CASE a <= b
        BY <2>1
    <2>2. CASE b <= a
        BY <2>2
    <2>3. QED
        BY <2>1, <2>2
<1>2. QED
    BY <1>1 DEF Min

LEMMA MinOfNaturals ==
    ASSUME NEW S \in SUBSET Nat, S # {}
    PROVE  Min(S) \in S /\ \A u \in S: Min(S) <= u
BY FirstOf DEF Min

LEMMA LimitsArePositive == ASSUME NEW asked \in Asked PROVE LimitFor(asked) \in Nat \ {0}
<1>1. asked \in Nat /\ MaxLimit \in Nat \ {0} /\ DefaultLimit \in Nat \ {0}
    BY AnswersAssumption
<1>2. QED
    BY <1>1, MinOfTwo DEF LimitFor

\* The row of a stored trade.
RowOf(t) == [market |-> This, at |-> SecondOf(t), trade |-> t]

\* What a query by the market's id and the end of a span selects.
Selection(end) == {RowOf(t): t \in {u \in Stored: end > 0 => SecondOf(u) <= end}}

LEMMA SelectedIs ==
    ASSUME TypeInv, NEW c \in Client, reading[c].by = "market_id", reading[c].end \in Nat
    PROVE  Selected(Parameters(c)) = Selection(reading[c].end)
<1> DEFINE params == Parameters(c)
           end == reading[c].end
<1>1. params.market = This /\ This # Nobody /\ This # Other
    BY DEF Parameters, This, Nobody, Other
<1>2. params.end = end /\ params.start = IF end = 0 THEN 0 ELSE 1
    BY DEF Parameters
<1>3. \A t \in Stored: SecondOf(t) \in Nat \ {0}
    BY TradeTyped DEF TypeInv, Stored
<1> HIDE DEF params
<1>4. \A row \in Table: row \in Selected(params) <=> row.market = This /\ InSpan(params, row)
    BY <1>1 DEF Selected
<1>5. \A row \in Table: row.market = This <=> \E t \in Stored: row = RowOf(t)
    BY <1>1 DEF Table, RowOf
<1>6. \A t \in Stored: RowOf(t) \in Table
    BY DEF Table, RowOf
<1>7. \A t \in Stored: InSpan(params, RowOf(t)) <=> (end > 0 => SecondOf(t) <= end)
    <2> SUFFICES ASSUME NEW t \in Stored
                 PROVE  InSpan(params, RowOf(t)) <=> (end > 0 => SecondOf(t) <= end)
        OBVIOUS
    <2>1. RowOf(t).at = SecondOf(t) /\ SecondOf(t) \in Nat \ {0}
        BY <1>3 DEF RowOf
    <2>2. QED
        BY <1>2, <2>1 DEF InSpan
<1> HIDE DEF end
<1>8. Selected(params) \subseteq Selection(end)
    <2>1. SUFFICES ASSUME NEW row \in Selected(params)
                   PROVE  row \in Selection(end)
        OBVIOUS
    <2>2. row \in Table
        BY DEF Selected
    <2>3. PICK t \in Stored: row = RowOf(t)
        BY <1>4, <1>5, <2>1, <2>2
    <2>4. InSpan(params, RowOf(t))
        BY <1>4, <2>1, <2>2, <2>3
    <2>5. QED
        BY <1>7, <2>3, <2>4 DEF Selection
<1>9. Selection(end) \subseteq Selected(params)
    <2>1. SUFFICES ASSUME NEW t \in Stored, end > 0 => SecondOf(t) <= end
                   PROVE  RowOf(t) \in Selected(params)
        BY DEF Selection
    <2>2. RowOf(t) \in Table /\ RowOf(t).market = This
        BY <1>6 DEF RowOf
    <2>3. QED
        BY <1>4, <1>7, <2>1, <2>2
<1>10. QED
    BY <1>8, <1>9 DEF params, end

\* Rows are as many as their trades.
LEMMA RowsAsTrades ==
    ASSUME TypeInv, NEW R, NEW T \in SUBSET (1..Len(chain)), R \subseteq {RowOf(t): t \in T}
    PROVE  /\ IsFiniteSet(R) /\ IsFiniteSet(T) /\ Cardinality(R) <= Cardinality(T)
           /\ Cardinality(R) \in Nat /\ Cardinality(T) \in Nat
<1> DEFINE f == [row \in R |-> row.trade]
<1>1. \A row \in R: row.trade \in T /\ row = RowOf(row.trade)
    BY DEF RowOf
<1>2. f \in [R -> T] /\ \A a, b \in R: f[a] = f[b] => a = b
    BY <1>1
<1> HIDE DEF f
<1>3. f \in Injection(R, T)
    BY <1>2 DEF Injection, IsInjective
<1>4. IsFiniteSet(1..Len(chain))
    BY FS_Interval DEF TypeInv, TypeOK
<1>5. IsFiniteSet(T)
    BY <1>4, FS_Subset
<1>6. IsFiniteSet(R) /\ Cardinality(R) <= Cardinality(T)
    BY <1>3, <1>5, FS_Injection
<1>7. QED
    BY <1>5, <1>6, FS_CardinalityType

\* The trades of the second of trade t.
SameSecond(t) == {u \in 1..Len(chain): SecondOf(u) = SecondOf(t)}

\* A crowded second stays crowded.
LEMMA CrowdedStays ==
    ASSUME TypeInv, [Next]_vars, NEW limit \in Nat, ~Spread(limit)
    PROVE  ~Spread(limit)'
<1>1. PICK t \in 1..Len(chain): ~(Cardinality(SameSecond(t)) < limit)
    BY DEF Spread, SameSecond
<1>2. /\ Len(chain) \in Nat /\ Len(chain') \in Nat /\ Len(chain) <= Len(chain')
      /\ \A u \in 1..Len(chain): chain'[u] = chain[u]
    <2>1. CASE Execute
        BY <2>1, ExecutedTrade
    <2>2. CASE chain' = chain
        BY <2>2 DEF TypeInv, TypeOK
    <2>3. QED
        BY <2>1, <2>2, OnlyExecute
<1> DEFINE later == {u \in 1..Len(chain'): chain'[u].at = chain'[t].at}
<1>3. t \in 1..Len(chain') /\ SameSecond(t) \subseteq later
    BY <1>2 DEF SameSecond, SecondOf
<1>4. IsFiniteSet(1..Len(chain'))
    BY <1>2, FS_Interval
<1>5. IsFiniteSet(later)
    BY <1>4, FS_Subset
<1>6. Cardinality(SameSecond(t)) <= Cardinality(later) /\ IsFiniteSet(SameSecond(t))
    BY <1>3, <1>5, FS_Subset
<1>7. Cardinality(SameSecond(t)) \in Nat /\ Cardinality(later) \in Nat
    BY <1>5, <1>6, FS_CardinalityType
<1> HIDE DEF later
<1>8. ~(Cardinality(later) < limit)
    BY <1>1, <1>6, <1>7
<1>9. QED
    BY <1>3, <1>8 DEF Spread, SecondOf, later

Reading == [stage: {"idle", "page", "done"}, by: {"market_id", "ticker_id"}, limit: Nat, end: Nat,
            owed: SUBSET Nat]

\* What a client is owed is stored, and no newer than the span it asks for next;
\* who is done is owed nothing, or met a second too crowded to get past.
OwedTo(c) ==
    LET r == reading[c]
    IN  /\ r.stage = "page" =>
              /\ r.by = "market_id" /\ r.limit > 0 /\ r.owed \subseteq Stored
              /\ r.end > 0 => \A t \in r.owed: SecondOf(t) <= r.end
        /\ r.stage = "done" => r.owed = {} \/ ~Spread(r.limit)

\* The inductive invariant of the clients.
ReaderInv == reading \in [Client -> Reading] /\ \A c \in Client: OwedTo(c)

\* An answer that stops short of the limit is all there is; a full one of one
\* second is proof of a crowd; any other leaves nothing newer than its oldest.
LEMMA AnswerOf ==
    ASSUME TypeInv, NEW end \in Nat, NEW limit \in Nat \ {0},
           NEW answer \in SUBSET Selection(end),
           Cardinality(answer) = Min({limit, Cardinality(Selection(end))}),
           \A a \in answer, b \in Selection(end) \ answer: a.at >= b.at
    PROVE  /\ Cardinality(answer) < limit => answer = Selection(end)
           /\ ~(Cardinality(answer) < limit) =>
                 /\ Min({row.at: row \in answer}) \in Nat \ {0}
                 /\ \A b \in Selection(end) \ answer: b.at <= Min({row.at: row \in answer})
                 /\ Min({row.at: row \in answer}) = end => ~Spread(limit)
<1> DEFINE rs == Selection(end)
           trades == {t \in Stored: end > 0 => SecondOf(t) <= end}
           seconds == {row.at: row \in answer}
           oldest == Min(seconds)
<1>1. trades \in SUBSET (1..Len(chain)) /\ rs \subseteq {RowOf(t): t \in trades}
    BY DEF Selection, Stored
<1>2. IsFiniteSet(rs) /\ Cardinality(rs) \in Nat
    BY <1>1, RowsAsTrades
<1>3. IsFiniteSet(answer) /\ Cardinality(answer) \in Nat
    BY <1>2, FS_Subset, FS_CardinalityType
<1>4. \A row \in rs: row.at \in Nat \ {0} /\ \E t \in trades: row = RowOf(t) /\ row.at = SecondOf(t)
    BY <1>1, TradeTyped DEF TypeInv, RowOf
<1>5. /\ Cardinality(answer) \in {limit, Cardinality(rs)}
      /\ Cardinality(answer) <= limit /\ Cardinality(answer) <= Cardinality(rs)
    BY <1>2, MinOfTwo
<1>6. ASSUME Cardinality(answer) < limit
      PROVE  answer = rs
    <2>1. Cardinality(answer) = Cardinality(rs)
        BY <1>5, <1>6
    <2>2. QED
        BY <1>2, <2>1, FS_Subset
<1>7. ASSUME ~(Cardinality(answer) < limit)
      PROVE  /\ oldest \in Nat \ {0}
             /\ \A b \in rs \ answer: b.at <= oldest
             /\ oldest = end => ~Spread(limit)
    <2>1. answer # {}
        BY <1>3, <1>7, FS_EmptySet
    <2>2. seconds \in SUBSET (Nat \ {0}) /\ seconds # {}
        BY <1>4, <2>1
    <2>3. oldest \in seconds /\ \A s \in seconds: oldest <= s
        BY <2>2, MinOfNaturals
    <2>4. PICK a \in answer: a.at = oldest
        BY <2>3
    <2>5. oldest \in Nat \ {0}
        BY <2>2, <2>3
    <2>6. \A b \in rs \ answer: b.at <= oldest
        <3>1. SUFFICES ASSUME NEW b \in rs \ answer
                       PROVE  b.at <= oldest
            OBVIOUS
        <3>2. a.at >= b.at /\ b.at \in Nat
            BY <1>4
        <3>3. QED
            BY <2>4, <2>5, <3>2
    <2>7. ASSUME oldest = end
          PROVE  ~Spread(limit)
        <3>1. \A row \in answer: row.at = end
            <4>1. SUFFICES ASSUME NEW row \in answer
                           PROVE  row.at = end
                OBVIOUS
            <4>2. row.at \in Nat /\ row.at <= end
                BY <1>4, <2>5, <2>7
            <4>3. oldest <= row.at
                BY <2>3
            <4>4. QED
                BY <2>7, <4>2, <4>3
        <3>2. PICK t \in trades: a = RowOf(t) /\ a.at = SecondOf(t)
            BY <1>4
        <3>3. SecondOf(t) = end /\ t \in 1..Len(chain)
            BY <1>1, <3>1, <3>2
        <3>4. answer \subseteq {RowOf(u): u \in SameSecond(t)}
            <4>1. SUFFICES ASSUME NEW row \in answer
                           PROVE  row \in {RowOf(u): u \in SameSecond(t)}
                OBVIOUS
            <4>2. PICK u \in trades: row = RowOf(u) /\ row.at = SecondOf(u)
                BY <1>4
            <4>3. u \in SameSecond(t)
                BY <1>1, <3>1, <3>3, <4>2 DEF SameSecond
            <4>4. QED
                BY <4>2, <4>3
        <3>5. SameSecond(t) \in SUBSET (1..Len(chain))
            BY DEF SameSecond
        <3>6. Cardinality(answer) <= Cardinality(SameSecond(t))
              /\ Cardinality(SameSecond(t)) \in Nat
            BY <3>4, <3>5, RowsAsTrades
        <3>7. ~(Cardinality(SameSecond(t)) < limit)
            BY <1>3, <1>7, <3>6
        <3>8. QED
            BY <3>3, <3>7 DEF Spread, SameSecond
    <2>8. QED
        BY <2>5, <2>6, <2>7
<1>8. QED
    BY <1>6, <1>7

\* A client's step does not touch what the others are owed.
LEMMA ReadingMoves ==
    ASSUME ReaderInv, UNCHANGED vars, NEW c \in Client, NEW r \in Reading,
           reading' = [reading EXCEPT ![c] = r],
           r.stage = "page" =>
              /\ r.by = "market_id" /\ r.limit > 0 /\ r.owed \subseteq Stored
              /\ r.end > 0 => \A t \in r.owed: SecondOf(t) <= r.end,
           r.stage = "done" => r.owed = {} \/ ~Spread(r.limit)
    PROVE  ReaderInv'
<1>1. reading' \in [Client -> Reading] /\ reading'[c] = r
    BY DEF ReaderInv
<1>2. /\ Stored' = Stored /\ \A t: SecondOf(t)' = SecondOf(t)
      /\ \A n: Spread(n)' <=> Spread(n)
    BY DEF vars, Stored, Spread, SecondOf
<1>3. OwedTo(c)'
    BY <1>1, <1>2 DEF OwedTo
<1>4. ASSUME NEW d \in Client \ {c}
      PROVE  OwedTo(d)'
    <2>1. reading'[d] = reading[d] /\ OwedTo(d)
        BY DEF ReaderInv
    <2>2. QED
        BY <1>2, <2>1 DEF OwedTo
<1>5. QED
    BY <1>1, <1>3, <1>4 DEF ReaderInv

LEMMA BeginReadingInv ==
    ASSUME TypeInv, "ticker_id" \notin Naming, ReaderInv, NEW c \in Client, BeginReading(c)
    PROVE  ReaderInv'
<1>1. PICK by \in Naming, asked \in Asked:
        reading' = [reading EXCEPT ![c] = [stage |-> "page", by |-> by, limit |-> LimitFor(asked),
                                           end |-> 0, owed |-> Stored]]
    BY DEF BeginReading
<1> DEFINE r == [stage |-> "page", by |-> by, limit |-> LimitFor(asked),
                 end |-> 0, owed |-> Stored]
<1>2. by = "market_id"
    BY AnswersAssumption
<1>3. LimitFor(asked) \in Nat \ {0}
    BY LimitsArePositive
<1>4. Stored \subseteq Nat
    BY DEF Stored
<1>5. r \in Reading
    BY <1>2, <1>3, <1>4 DEF Reading
<1>6. /\ r.stage = "page" /\ r.by = "market_id" /\ r.limit > 0 /\ r.owed = Stored
      /\ r.end = 0
    BY <1>2, <1>3
<1> HIDE DEF r
<1>7. UNCHANGED vars
    BY DEF BeginReading
<1>8. reading' = [reading EXCEPT ![c] = r]
    BY <1>1 DEF r
<1>9. r.stage # "done" /\ ~(r.end > 0)
    BY <1>6
<1>10. QED
    BY <1>5, <1>6, <1>7, <1>8, <1>9, ReadingMoves

LEMMA GetHistoryInv ==
    ASSUME TypeInv, ReaderInv, NEW c \in Client, GetHistory(c)
    PROVE  ReaderInv'
<1> DEFINE r == reading[c]
           rs == Selection(r.end)
<1>1. /\ r \in Reading /\ r.stage = "page" /\ r.by = "market_id" /\ r.limit > 0
            /\ r.owed \subseteq Stored
      /\ r.end > 0 => \A t \in r.owed: SecondOf(t) <= r.end
    BY DEF GetHistory, ReaderInv, OwedTo
<1>2. r.end \in Nat /\ r.limit \in Nat \ {0}
    BY <1>1 DEF Reading
<1>3. Parameters(c).limit = r.limit /\ Selected(Parameters(c)) = rs
    BY <1>1, <1>2, SelectedIs DEF Parameters
<1>4. PICK answer \in GetHistoryBy(Parameters(c)):
        LET oldest == Min({row.at: row \in answer})
            final == Cardinality(answer) < r.limit \/ oldest = r.end
        IN  reading' = [reading EXCEPT
                ![c].stage = IF final THEN "done" ELSE "page",
                ![c].end = IF final THEN 0 ELSE oldest,
                ![c].owed = @ \ {row.trade: row \in answer}]
    BY DEF GetHistory
<1> DEFINE oldest == Min({row.at: row \in answer})
           final == Cardinality(answer) < r.limit \/ oldest = r.end
           owed == r.owed \ {row.trade: row \in answer}
           q == [r EXCEPT !.stage = IF final THEN "done" ELSE "page",
                          !.end = IF final THEN 0 ELSE oldest, !.owed = owed]
<1>5. /\ answer \in SUBSET rs /\ Cardinality(answer) = Min({r.limit, Cardinality(rs)})
      /\ \A a \in answer, b \in rs \ answer: a.at >= b.at
    BY <1>3 DEF GetHistoryBy, kSubset
<1> HIDE DEF r, rs
<1>6. /\ Cardinality(answer) < r.limit => answer = Selection(r.end)
      /\ ~(Cardinality(answer) < r.limit) =>
            /\ oldest \in Nat \ {0}
            /\ \A b \in Selection(r.end) \ answer: b.at <= oldest
            /\ oldest = r.end => ~Spread(r.limit)
    BY <1>2, <1>5, AnswerOf DEF rs
<1>7. reading' = [reading EXCEPT ![c] = q]
    BY <1>1, <1>4 DEF r, Reading, ReaderInv
<1>8. owed \in SUBSET Nat /\ owed \subseteq Stored
    BY <1>1 DEF Stored
<1>9. \A t \in owed: RowOf(t) \in Selection(r.end) \ answer
    <2>1. ASSUME NEW t \in owed
          PROVE  RowOf(t) \in Selection(r.end)
        BY <1>1 DEF Selection
    <2>2. ASSUME NEW t \in owed
          PROVE  RowOf(t) \notin answer
        BY DEF RowOf
    <2>3. QED
        BY <2>1, <2>2
<1> HIDE DEF oldest, owed
<1>10. CASE final
    <2>1. q = [r EXCEPT !.stage = "done", !.end = 0, !.owed = owed]
        BY <1>10
    <2>2. q \in Reading /\ q.stage = "done" /\ q.owed = owed /\ q.limit = r.limit
        BY <1>1, <1>8, <2>1 DEF Reading
    <2>3. owed = {} \/ ~Spread(r.limit)
        BY <1>6, <1>9, <1>10
    <2>4. UNCHANGED vars
        BY DEF GetHistory
    <2> HIDE DEF q, final
    <2>5. QED
        BY <1>7, <2>2, <2>3, <2>4, ReadingMoves
<1>11. CASE ~final
    <2>1. q = [r EXCEPT !.stage = "page", !.end = oldest, !.owed = owed]
        BY <1>11
    <2>2. oldest \in Nat
        BY <1>6, <1>11
    <2>3. /\ q \in Reading /\ q.stage = "page" /\ q.owed = owed /\ q.limit = r.limit /\ q.by = r.by
          /\ q.end = oldest
        BY <1>1, <1>8, <2>1, <2>2 DEF Reading
    <2>4. \A t \in owed: SecondOf(t) <= oldest
        BY <1>6, <1>9, <1>11 DEF RowOf
    <2>5. UNCHANGED vars
        BY DEF GetHistory
    <2> HIDE DEF q, final
    <2>6. QED
        BY <1>1, <1>7, <1>8, <2>3, <2>4, <2>5, ReadingMoves
<1>12. QED
    BY <1>10, <1>11

\* A step of a sync that forgets nothing takes nothing a client is owed.
LEMMA SyncReaderInv ==
    ASSUME TypeInv, ReaderInv, [Next]_vars, UNCHANGED reading, Stored \subseteq Stored'
    PROVE  ReaderInv'
<1>1. /\ Len(chain) \in Nat /\ Len(chain') \in Nat /\ Len(chain) <= Len(chain')
      /\ \A u \in 1..Len(chain): SecondOf(u)' = SecondOf(u)
    <2>1. CASE Execute
        BY <2>1, ExecutedTrade DEF SecondOf
    <2>2. CASE chain' = chain
        BY <2>2 DEF TypeInv, TypeOK, SecondOf
    <2>3. QED
        BY <2>1, <2>2, OnlyExecute
<1>2. reading \in [Client -> Reading]
    BY DEF ReaderInv
<1>3. ASSUME NEW c \in Client
      PROVE  OwedTo(c)'
    <2>1. OwedTo(c) /\ reading[c] \in Reading /\ reading'[c] = reading[c]
        BY <1>2 DEF ReaderInv
    <2>2. reading[c].limit \in Nat
        BY <2>1 DEF Reading
    <2>3. PICK n \in Nat: n = reading[c].limit
        BY <2>2
    <2>4. ~Spread(n) => ~Spread(n)'
        BY CrowdedStays
    <2>5. (Spread(reading[c].limit))' <=> Spread(n)'
        BY <2>1, <2>3 DEF Spread
    <2>6. \A t \in Stored: SecondOf(t)' = SecondOf(t)
        BY <1>1 DEF Stored
    <2>7. QED
        BY <2>1, <2>3, <2>4, <2>5, <2>6 DEF OwedTo
<1>4. QED
    BY <1>2, <1>3 DEF ReaderInv

\* Clients read the tables of the syncs and leave the syncs alone.
LEMMA ReadersLeaveSyncsAlone == HistorySpec => Spec
<1>1. HistoryInit => Init
    BY DEF HistoryInit
<1>2. [HistoryNext]_historyVars => [Next]_vars
    BY DEF HistoryNext, historyVars, BeginReading, GetHistory
<1>3. QED
    BY <1>1, <1>2, PTL DEF HistorySpec, Spec

\* Whatever syncs delete and insert between the pages of a client, it misses no
\* trade that was stored when it began, as long as it names the market by its
\* id, no second holds more trades than an answer, and syncs forget nothing.
THEOREM PagingMissesNothingTheorem ==
    ASSUME "ticker_id" \notin Naming, 0 \notin Gaps \/ (OnePage /\ OneProcess)
    PROVE  HistorySpec => []PagingMissesNothing
<1>1. HistoryInit => ReaderInv
    <2>1. NotReading \in Reading /\ NotReading.stage = "idle"
        BY DEF NotReading, Reading
    <2>2. QED
        BY <2>1 DEF HistoryInit, ReaderInv, OwedTo
<1>2. Spec => NeverForgets
    BY NothingForgotten, OnePageForgetsNothing
<1>3. TypeInv /\ ReaderInv /\ [HistoryNext]_historyVars /\ [Stored \subseteq Stored']_vars
      => ReaderInv'
    <2> SUFFICES ASSUME TypeInv, ReaderInv, [HistoryNext]_historyVars,
          [Stored \subseteq Stored']_vars
                 PROVE  ReaderInv'
        OBVIOUS
    <2>1. UNCHANGED vars => Stored' = Stored
        BY DEF vars, Stored
    <2>2. CASE [Next]_vars /\ UNCHANGED reading
        BY <2>1, <2>2, SyncReaderInv
    <2>3. ASSUME NEW c \in Client, BeginReading(c)
          PROVE  ReaderInv'
        BY <2>3, BeginReadingInv
    <2>4. ASSUME NEW c \in Client, GetHistory(c)
          PROVE  ReaderInv'
        BY <2>4, GetHistoryInv
    <2>5. QED
        BY <2>2, <2>3, <2>4 DEF HistoryNext, historyVars
<1>4. ReaderInv => PagingMissesNothing
    BY DEF ReaderInv, OwedTo, PagingMissesNothing
<1>5. QED
    BY <1>1, <1>2, <1>3, <1>4, ReadersLeaveSyncsAlone, TypeInvHolds, PTL DEF HistorySpec,
       NeverForgets
=============================================================================
