-------------------------- MODULE OrderSync_proofs --------------------------
(***************************************************************************)
(* OrderSync implements OrderTable for any number of goroutines, any       *)
(* books, heights and failures, as long as all syncs of the market run in  *)
(* one process: the mutex of the order key is the process's own.  Then the *)
(* answers of OrderBook are whole, for any number of requests.             *)
(***************************************************************************)
EXTENDS OrderBook, SequenceTheorems, FiniteSetTheorems, WellFoundedInduction, TLAPS

OneProcess == \A v, w \in Worker: ProcessOf[v] = ProcessOf[w]

SyncTypeOK ==
    /\ books \in Seq(Books)
    /\ Len(books) >= 1
    /\ rows \subseteq Row
    /\ asOf \in [Side -> 0..Len(books)]
    /\ locked \in [Process -> BOOLEAN]
    /\ pc \in [Worker -> {"idle", "lock"} \union Inside]
    /\ height \in [Worker -> [Side -> 0..Len(books)]]

\* Who is inside has locked the mutex of its process, and is there alone.
AloneInside ==
    \A w \in Worker: pc[w] \in Inside =>
        /\ locked[ProcessOf[w]]
        /\ \A v \in Worker: pc[v] \in Inside => v = w

\* What a worker has read is no older than what the table holds.
ReadsAreLater ==
    \A w \in Worker:
        /\ pc[w] \in {"sell", "upsert"} => 1 <= height[w]["buy"] /\ asOf["buy"] <= height[w]["buy"]
        /\ pc[w] = "upsert" => /\ asOf["sell"] <= height[w]["sell"]
                               /\ height[w]["buy"] <= height[w]["sell"]

\* The inductive invariant: a worker that is alone between its reads and its
\* write finds the table as old as it was when it read.
OrderInv == SyncTypeOK /\ AloneInside /\ ReadsAreLater

LEMMA InitOrderInv == Init => OrderInv
<1> SUFFICES ASSUME Init
             PROVE  OrderInv
    OBVIOUS
<1>1. SyncTypeOK
    BY DEF Init, SyncTypeOK, Unread, Side
<1>2. AloneInside /\ ReadsAreLater
    BY DEF Init, AloneInside, ReadsAreLater, Inside
<1>3. QED
    BY <1>1, <1>2 DEF OrderInv

\* Returning to rest keeps the types, and leaves nobody else inside and the
\* lock to whoever comes.
LEMMA ReturnSyncTypeOK ==
    ASSUME SyncTypeOK, NEW w \in Worker, Return(w), UNCHANGED books,
           rows' \subseteq Row, asOf' \in [Side -> 0..Len(books)]
    PROVE  SyncTypeOK'
<1>1. locked' \in [Process -> BOOLEAN] /\ pc' \in [Worker -> {"idle", "lock"} \union Inside]
    BY OrderAssumption DEF SyncTypeOK, Return
<1>2. Unread \in [Side -> 0..Len(books)]
    BY DEF SyncTypeOK, Unread
<1>3. height' \in [Worker -> [Side -> 0..Len(books)]]
    BY <1>2 DEF SyncTypeOK, Return
<1>4. QED
    BY <1>1, <1>3 DEF SyncTypeOK

LEMMA ReturnOrderInv ==
    ASSUME OrderInv, NEW w \in Worker, pc[w] \in Inside, Return(w), OneProcess
    PROVE  AloneInside' /\ ReadsAreLater'
<1>1. \A v \in Worker: pc'[v] \notin Inside
    BY DEF OrderInv, AloneInside, SyncTypeOK, Return, Inside
<1>2. QED
    BY <1>1 DEF AloneInside, ReadsAreLater, Inside

\* What is converted are rows.
LEMMA ConvertedAreRows == ASSUME NEW w \in Worker PROVE Converted(w) \subseteq Row
BY DEF Converted, Fetched

LEMMA NextSyncTypeOK == SyncTypeOK /\ [Next]_vars => SyncTypeOK'
<1> SUFFICES ASSUME SyncTypeOK, [Next]_vars
             PROVE  SyncTypeOK'
    OBVIOUS
<1> USE OrderAssumption
<1>1. CASE Block
    BY <1>1 DEF Block, SyncTypeOK
<1>2. ASSUME NEW w \in Worker, Handle(w)
      PROVE  SyncTypeOK'
    BY <1>2 DEF Handle, SyncTypeOK
<1>3. ASSUME NEW w \in Worker, AcquireLock(w)
      PROVE  SyncTypeOK'
    BY <1>3 DEF AcquireLock, SyncTypeOK, Inside
<1>4. ASSUME NEW w \in Worker, Fetch(w, "buy", "sell") \/ Fetch(w, "sell", "upsert")
      PROVE  SyncTypeOK'
    <2>1. pc' \in [Worker -> {"idle", "lock"} \union Inside]
        BY <1>4 DEF Fetch, SyncTypeOK, Inside
    <2>2. PICK side \in Side: height' = [height EXCEPT ![w][side] = Len(books)]
        BY <1>4 DEF Fetch, Side
    <2>3. Len(books) \in 0..Len(books)
        BY DEF SyncTypeOK
    <2>4. height' \in [Worker -> [Side -> 0..Len(books)]]
        BY <2>2, <2>3 DEF SyncTypeOK
    <2>5. QED
        BY <1>4, <2>1, <2>4 DEF Fetch, SyncTypeOK
<1>5. ASSUME NEW w \in Worker, NothingToStore(w) \/ Fail(w)
      PROVE  SyncTypeOK'
    BY <1>5, ReturnSyncTypeOK DEF NothingToStore, Fail, SyncTypeOK
<1>6. ASSUME NEW w \in Worker, Upsert(w)
      PROVE  SyncTypeOK'
    <2>1. rows' \subseteq Row /\ asOf' \in [Side -> 0..Len(books)]
        BY <1>6, ConvertedAreRows DEF Upsert, SyncTypeOK
    <2>2. QED
        BY <1>6, <2>1, ReturnSyncTypeOK DEF Upsert
<1>7. ASSUME NEW p \in Process, Crash(p)
      PROVE  SyncTypeOK'
    BY <1>7 DEF Crash, SyncTypeOK, Unread
<1>8. CASE UNCHANGED vars
    BY <1>8 DEF vars, SyncTypeOK
<1>9. QED
    BY <1>1, <1>2, <1>3, <1>4, <1>5, <1>6, <1>7, <1>8 DEF Next, Step

LEMMA NextOrderInv == OneProcess /\ OrderInv /\ [Next]_vars => OrderInv'
<1> SUFFICES ASSUME OneProcess, OrderInv, [Next]_vars
             PROVE  OrderInv'
    OBVIOUS
<1>1. SUFFICES AloneInside' /\ ReadsAreLater'
    BY NextSyncTypeOK DEF OrderInv
<1> USE OrderAssumption
<1>2. CASE Block
    BY <1>2 DEF Block, OrderInv, AloneInside, ReadsAreLater
<1>3. ASSUME NEW w \in Worker, Handle(w)
      PROVE  AloneInside' /\ ReadsAreLater'
    BY <1>3 DEF Handle, OrderInv, SyncTypeOK, AloneInside, ReadsAreLater, Inside
<1>4. ASSUME NEW w \in Worker, AcquireLock(w)
      PROVE  AloneInside' /\ ReadsAreLater'
    <2>1. \A v \in Worker: pc[v] \notin Inside
        BY <1>4 DEF AcquireLock, Free, OrderInv, AloneInside, OneProcess
    <2>2. QED
        BY <1>4, <2>1 DEF AcquireLock, OrderInv, SyncTypeOK, AloneInside, ReadsAreLater, Inside
<1>5. ASSUME NEW w \in Worker, Fetch(w, "buy", "sell") \/ Fetch(w, "sell", "upsert")
      PROVE  AloneInside' /\ ReadsAreLater'
    <2>1. AloneInside'
        BY <1>5 DEF Fetch, OrderInv, SyncTypeOK, AloneInside, Inside
    <2>2. ReadsAreLater'
        BY <1>5 DEF Fetch, OrderInv, SyncTypeOK, AloneInside, ReadsAreLater, Inside, Side
    <2>3. QED
        BY <2>1, <2>2
<1>6. ASSUME NEW w \in Worker, NothingToStore(w) \/ Upsert(w) \/ Fail(w)
      PROVE  AloneInside' /\ ReadsAreLater'
    BY <1>6, ReturnOrderInv DEF NothingToStore, Upsert, Fail, Inside
<1>7. ASSUME NEW p \in Process, Crash(p)
      PROVE  AloneInside' /\ ReadsAreLater'
    BY <1>7 DEF Crash, OrderInv, SyncTypeOK, AloneInside, ReadsAreLater, Inside
<1>8. CASE UNCHANGED vars
    BY <1>8 DEF vars, OrderInv, SyncTypeOK, AloneInside, ReadsAreLater
<1>9. QED
    BY <1>2, <1>3, <1>4, <1>5, <1>6, <1>7, <1>8 DEF Next, Step

LEMMA InitTable == Init => Table!Init
BY DEF Init, Table!Init, StoredBook, Unread, Side, Table!Sides

\* The rows of a sync that read both sides are, side by side, the levels of the
\* books it read.
LEMMA ConvertedIsWhole ==
    ASSUME OrderInv, NEW w \in Worker, pc[w] = "upsert", NEW s \in Side
    PROVE  {r.level: r \in {r \in Converted(w): r.side = s}} = books[height[w][s]][s] \ Unreadable
<1> DEFINE book == books[height[w][s]]
<1>1. height[w][s] \in 1..Len(books)
    BY DEF OrderInv, SyncTypeOK, ReadsAreLater, Side
<1>2. book \in Books
    BY <1>1 DEF OrderInv, SyncTypeOK
<1>3. \A l \in book[s]: [side |-> s, level |-> l] \in Row
    BY <1>2 DEF Row, Level
<1>4. ASSUME NEW l \in book[s] \ Unreadable
      PROVE  l \in {r.level: r \in {r \in Converted(w): r.side = s}}
    <2>1. [side |-> s, level |-> l] \in Converted(w)
        BY <1>3 DEF Converted, Fetched
    <2>2. QED
        BY <2>1
<1>5. ASSUME NEW r \in Converted(w), r.side = s
      PROVE  r.level \in book[s] \ Unreadable
    BY <1>5 DEF Converted, Fetched
<1>6. QED
    BY <1>4, <1>5

\* Every step is one of the table's or leaves the table and the chain alone.
LEMMA NextTable == OneProcess /\ OrderInv /\ [Next]_vars => [Table!Next]_(Table!tableVars)
<1> SUFFICES ASSUME OneProcess, OrderInv, [Next]_vars
             PROVE  [Table!Next]_(Table!tableVars)
    OBVIOUS
<1>1. CASE Block
    BY <1>1 DEF Block, Table!Next, Table!Publish, StoredBook
<1>2. ASSUME NEW w \in Worker, Upsert(w)
      PROVE  Table!Replace
    <2>1. asOf' = height[w] /\ rows' = Converted(w) /\ UNCHANGED books /\ pc[w] = "upsert"
        BY <1>2 DEF Upsert
    <2>2. asOf' \in [Table!Sides -> 1..Len(books)]
        BY <2>1 DEF OrderInv, SyncTypeOK, ReadsAreLater, Side, Table!Sides
    <2>3. \A s \in Table!Sides: asOf[s] <= asOf'[s]
        BY <2>1 DEF OrderInv, SyncTypeOK, ReadsAreLater, Table!Sides
    <2>4. asOf'["buy"] <= asOf'["sell"]
        BY <2>1 DEF OrderInv, ReadsAreLater
    <2>5. StoredBook' = [s \in Table!Sides |-> books[asOf'[s]][s] \ Unreadable]
        BY <2>1, ConvertedIsWhole DEF StoredBook, Side, Table!Sides
    <2>6. QED
        BY <2>1, <2>2, <2>3, <2>4, <2>5 DEF Table!Replace
<1>3. ASSUME NEW w \in Worker, Handle(w) \/ AcquireLock(w) \/ Fail(w) \/ NothingToStore(w)
             \/ Fetch(w, "buy", "sell") \/ Fetch(w, "sell", "upsert")
      PROVE  UNCHANGED Table!tableVars
    BY <1>3 DEF Handle, AcquireLock, Fail, NothingToStore, Fetch, Table!tableVars, StoredBook
<1>4. ASSUME NEW p \in Process, Crash(p)
      PROVE  UNCHANGED Table!tableVars
    BY <1>4 DEF Crash, Table!tableVars, StoredBook
<1>5. CASE UNCHANGED vars
    BY <1>5 DEF vars, Table!tableVars, StoredBook
<1>6. QED
    BY <1>1, <1>2, <1>3, <1>4, <1>5 DEF Next, Step, Table!Next

\* However the goroutines of one process overlap, whatever the books are and
\* whichever of its calls fail, the order sync is a register per side that only
\* moves forward.
THEOREM OrdersAreATable == OneProcess => (Spec => ImplementsOrderTable)
<1> SUFFICES ASSUME OneProcess
             PROVE  Spec => ImplementsOrderTable
    OBVIOUS
<1>1. Init => OrderInv /\ Table!Init
    BY InitOrderInv, InitTable
<1>2. OrderInv /\ [Next]_vars => OrderInv' /\ [Table!Next]_(Table!tableVars)
    BY NextOrderInv, NextTable
<1>3. QED
    BY <1>1, <1>2, PTL DEF Spec, ImplementsOrderTable, Table!Spec

-----------------------------------------------------------------------------
(* The lists requests get. *)

\* A nonempty set of numbers has a least one.
LEMMA LeastOf ==
    ASSUME NEW S \in SUBSET Nat, S # {}
    PROVE  \E n \in S: \A m \in S: n <= m
<1>1. PICK n \in S: \A m \in S: ~(<<m, n>> \in OpToRel(<, Nat))
    BY NatLessThanWellFounded, WFMin
<1>2. \A m \in S: <<m, n>> \in OpToRel(<, Nat) <=> m < n
    BY DEF OpToRel
<1>3. \A m \in S: ~(m < n)
    BY <1>1, <1>2, Zenon
<1>4. QED
    BY <1>3

\* Rows of different levels, and the lists of them by ascending levels.
OneEach(R) == \A q, r \in R: q.level = r.level => q = r
AscendingLists(R) ==
    {f \in [1..Cardinality(R) -> R]: \A i, j \in 1..Cardinality(R): i < j => f[i].level < f[j].level}

\* A finite set of rows can be sorted: in a smallest one that cannot, the rows
\* after the first could.
LEMMA CanBeSorted ==
    ASSUME NEW S, IsFiniteSet(S), \A r \in S: r.level \in Nat, OneEach(S)
    PROVE  AscendingLists(S) # {}
<1> DEFINE bad == {T \in SUBSET S: AscendingLists(T) = {}}
<1>1. SUFFICES ASSUME AscendingLists(S) = {}
               PROVE  FALSE
    OBVIOUS
<1>2. bad # {} /\ bad \subseteq FiniteSubsetsOf(S)
    BY <1>1, FS_FiniteSubsetsOfFinite
<1>3. PICK T \in bad: \A U \in bad: ~(<<U, T>> \in StrictSubsetOrdering(S))
    BY <1>2, FS_StrictSubsetOrderingWellFounded, WFMin
<1>4. T \in SUBSET S /\ AscendingLists(T) = {} /\ IsFiniteSet(T)
    BY <1>3, FS_Subset
<1>5. CASE T = {}
    <2> DEFINE f == [i \in {} |-> i]
    <2>1. Cardinality(T) = 0
        BY <1>5, FS_EmptySet
    <2>2. 1..Cardinality(T) = {}
        BY <2>1
    <2>3. f \in AscendingLists(T)
        BY <1>5, <2>2 DEF AscendingLists
    <2>4. QED
        BY <1>4, <2>3
<1>6. CASE T # {}
    <2> DEFINE levels == {r.level: r \in T}
    <2>1. levels \in SUBSET Nat /\ levels # {}
        BY <1>4, <1>6
    <2>2. PICK least \in levels: \A l \in levels: least <= l
        BY <2>1, LeastOf
    <2>3. PICK first \in T: first.level = least
        BY <2>2
    <2> DEFINE U == T \ {first}
    <2>4. IsFiniteSet(U) /\ Cardinality(T) \in Nat /\ Cardinality(U) = Cardinality(T) - 1
        BY <1>4, FS_RemoveElement, FS_CardinalityType
    <2>5. Cardinality(U) \in Nat
        BY <2>4, FS_CardinalityType
    <2>6. U \subseteq T /\ U # T
        BY <2>3
    <2>7. <<U, T>> \in StrictSubsetOrdering(S)
        BY <1>4, <2>6 DEF StrictSubsetOrdering
    <2>8. AscendingLists(U) # {}
        BY <1>3, <1>4, <2>6, <2>7
    <2> DEFINE n == Cardinality(U)
    <2>9. PICK g \in [1..n -> U]: \A i, j \in 1..n: i < j => g[i].level < g[j].level
        BY <2>8 DEF AscendingLists
    <2>10. \A r \in U: first.level < r.level
        <3>1. SUFFICES ASSUME NEW r \in U
                       PROVE  first.level < r.level
            OBVIOUS
        <3>2. first.level \in Nat /\ r.level \in Nat /\ first.level # r.level
            BY <1>4 DEF OneEach
        <3>3. first.level <= r.level
            BY <2>2, <2>3
        <3>4. QED
            BY <3>2, <3>3
    <2> DEFINE f == [i \in 1..Cardinality(T) |-> IF i = 1 THEN first ELSE g[i - 1]]
    <2>11. Cardinality(T) = n + 1 /\ n \in Nat
        BY <2>4, <2>5
    <2> HIDE DEF U, n
    <2>12. \A i \in 1..Cardinality(T): f[i] = IF i = 1 THEN first ELSE g[i - 1]
        OBVIOUS
    <2>13. \A i \in 1..Cardinality(T): i # 1 => i - 1 \in 1..n
        BY <2>11
    <2>14. \A i \in 1..Cardinality(T): f[i] \in T
        BY <2>6, <2>9, <2>12, <2>13
    <2>15. f \in [1..Cardinality(T) -> T]
        BY <2>14
    <2> HIDE DEF f
    <2>16. ASSUME NEW i \in 1..Cardinality(T), NEW j \in 1..Cardinality(T), i < j
           PROVE  f[i].level < f[j].level
        <3>1. j # 1 /\ f[j] = g[j - 1] /\ j - 1 \in 1..n
            BY <2>11, <2>12, <2>13, <2>16
        <3>2. CASE i = 1
            BY <2>9, <2>10, <2>12, <3>1, <3>2
        <3>3. CASE i # 1
            <4>1. f[i] = g[i - 1] /\ i - 1 \in 1..n /\ i - 1 < j - 1
                BY <2>11, <2>12, <2>13, <2>16, <3>3
            <4>2. QED
                BY <2>9, <3>1, <4>1
        <3>4. QED
            BY <3>2, <3>3
    <2>17. f \in AscendingLists(T)
        BY <2>15, <2>16 DEF AscendingLists
    <2>18. QED
        BY <1>4, <2>17
<1>7. QED
    BY <1>5, <1>6

\* What sorting a side gives: each of its rows once, better ones first.
LEMMA SortedIs ==
    ASSUME rows \subseteq Row, NEW side \in Side, IsFiniteSet(RowsOf(side)), Level \subseteq Nat
    PROVE  LET n == Cardinality(RowsOf(side))
           IN  /\ n \in Nat
               /\ Sorted(side) \in [1..n -> RowsOf(side)]
               /\ \A i, j \in 1..n: i < j
                     => Better(side, Sorted(side)[i].level, Sorted(side)[j].level)
               /\ \A r \in RowsOf(side): \E i \in 1..n: Sorted(side)[i] = r
<1> DEFINE R == RowsOf(side)
           n == Cardinality(R)
           sorted(f) == \A i, j \in DOMAIN f: i < j => Better(side, f[i].level, f[j].level)
<1>1. n \in Nat
    BY FS_CardinalityType
<1>2. \A r \in R: r \in Row /\ r.side = side /\ r.level \in Nat
    BY DEF RowsOf, Row
<1>3. OneEach(R)
    BY <1>2 DEF OneEach, Row
<1> HIDE DEF R
<1>4. PICK f \in [1..n -> R]: \A i, j \in 1..n: i < j => f[i].level < f[j].level
    <2>1. AscendingLists(R) # {}
        BY <1>2, <1>3, CanBeSorted DEF R
    <2>2. QED
        BY <2>1 DEF AscendingLists
<1> HIDE DEF n
<1>5. \E list \in [1..n -> R]: sorted(list)
    <2>1. CASE side = "buy"
        <3> DEFINE g == [i \in 1..n |-> f[(n + 1) - i]]
        <3>1. \A i \in 1..n: (n + 1) - i \in 1..n
            BY <1>1
        <3>2. g \in [1..n -> R]
            BY <1>4, <3>1
        <3>3. ASSUME NEW i \in 1..n, NEW j \in 1..n, i < j
              PROVE  g[i].level > g[j].level
            <4>1. (n + 1) - j < (n + 1) - i
                BY <1>1, <3>3
            <4>2. g[i] = f[(n + 1) - i] /\ g[j] = f[(n + 1) - j]
                OBVIOUS
            <4>3. g[j].level < g[i].level
                BY <1>4, <3>1, <4>1, <4>2
            <4>4. g[i] \in R /\ g[j] \in R
                BY <3>2
            <4>5. g[i].level \in Nat /\ g[j].level \in Nat
                BY <1>2, <4>4
            <4>6. QED
                BY <4>3, <4>5
        <3>4. sorted(g)
            BY <2>1, <3>2, <3>3 DEF Better
        <3>5. QED
            BY <3>2, <3>4
    <2>2. CASE side # "buy"
        <3>1. sorted(f)
            BY <1>4, <2>2 DEF Better
        <3>2. QED
            BY <3>1
    <2>3. QED
        BY <2>1, <2>2
<1> DEFINE list == Sorted(side)
<1>6. list \in [1..n -> R] /\ sorted(list)
    <2>1. list = CHOOSE l \in [1..n -> R]: sorted(l)
        BY DEF Sorted, Lists, R, n
    <2>2. QED
        BY <1>5, <2>1
<1> HIDE DEF list
<1>7. \A i, j \in 1..n: i < j => Better(side, list[i].level, list[j].level)
    BY <1>6
<1>8. ASSUME NEW i \in 1..n, NEW j \in 1..n, list[i] = list[j]
      PROVE  i = j
    <2>1. list[i].level \in Nat
        BY <1>2, <1>6
    <2>2. ~(i < j) /\ ~(j < i)
        BY <1>7, <1>8, <2>1 DEF Better
    <2>3. QED
        BY <1>1, <2>2
<1>9. list \in Injection(1..n, R)
    BY <1>6, <1>8 DEF Injection, IsInjective
<1>10. IsFiniteSet(1..n) /\ Cardinality(1..n) = n /\ IsFiniteSet(R)
    BY <1>1, FS_Interval DEF R
<1>11. list \in Surjection(1..n, R)
    BY <1>9, <1>10, FS_Injection DEF n
<1>12. \A r \in R: \E i \in 1..n: list[i] = r
    BY <1>11 DEF Surjection
<1>13. QED
    BY <1>1, <1>6, <1>7, <1>12 DEF n, R, list

\* A list of rows is the top of a set of levels: ascending, part of it, and
\* short of a level only when it is as long as the limit and all it shows is
\* better.
TopOf(list, side, limit, levels) ==
    LET shown == {list[i].level: i \in DOMAIN list}
    IN  /\ \A i, j \in DOMAIN list: i < j => list[i].level < list[j].level
        /\ shown \subseteq levels
        /\ \A hidden \in levels \ shown:
               Len(list) = limit /\ \A level \in shown: Better(side, level, hidden)

\* Limiting a list keeps its first rows.
FirstRows(best, list, R, n, limit) ==
    \E m \in 0..n:
        /\ best \in [1..m -> R]
        /\ Len(best) = m
        /\ m < n => m = limit
        /\ limit = 1 => m <= 1
        /\ \A i \in 1..m: best[i] = list[i]

LEMMA LimitedIs ==
    ASSUME NEW R, NEW n \in Nat, NEW list \in [1..n -> R], NEW limit \in Nat
    PROVE  FirstRows(Limited(list, limit), list, R, n, limit)
<1>1. list \in Seq(R) /\ Len(list) = n /\ DOMAIN list = 1..n
    <2>1. list \in Seq(R)
        BY SeqDef
    <2>2. QED
        BY <2>1
<1>2. CASE limit > 0 /\ limit < n
    <2> DEFINE best == SubSeq(list, 1, limit)
    <2>1. Limited(list, limit) = best
        BY <1>1, <1>2 DEF Limited
    <2>2. best \in Seq(R) /\ Len(best) = limit /\ \A i \in 1..limit: best[i] = list[i]
        BY <1>1, <1>2
    <2>3. limit \in 0..n
        BY <1>2
    <2> HIDE DEF best
    <2>4. best \in [1..limit -> R]
        <3>1. PICK k \in Nat: best \in [1..k -> R]
            BY <2>2, SeqDef
        <3>2. k = limit
            BY <2>2, <3>1
        <3>3. QED
            BY <3>1, <3>2
    <2>5. QED
        BY <1>2, <2>1, <2>2, <2>3, <2>4 DEF FirstRows
<1>3. CASE ~(limit > 0 /\ limit < n)
    <2>1. Limited(list, limit) = list
        BY <1>1, <1>3 DEF Limited
    <2>2. limit = 1 => n <= 1
        BY <1>3
    <2>3. n \in 0..n
        OBVIOUS
    <2>4. QED
        BY <1>1, <2>1, <2>2, <2>3 DEF FirstRows
<1>4. QED
    BY <1>2, <1>3

\* What a request gets of a sorted side is the top of its levels.
LEMMA TopIs ==
    ASSUME NEW side \in Side, NEW R, \A r \in R: r.level \in Nat,
           NEW n \in Nat, NEW list \in [1..n -> R], NEW limit \in Nat,
           \A i, j \in 1..n: i < j => Better(side, list[i].level, list[j].level),
           \A r \in R: \E i \in 1..n: list[i] = r
    PROVE  LET best == Limited(list, limit)
               levels == {r.level: r \in R}
               turned == IF side = "buy" THEN Reverse(best) ELSE best
           IN  /\ best \in Seq(R) /\ turned \in Seq(R)
               /\ TopOf(turned, side, limit, levels)
               /\ limit = 1 => TopOf(best, side, limit, levels)
<1> DEFINE best == Limited(list, limit)
           levels == {r.level: r \in R}
           turned == IF side = "buy" THEN Reverse(best) ELSE best
<1>0. FirstRows(best, list, R, n, limit)
    BY LimitedIs
<1> HIDE DEF best
<1>1. PICK m \in 0..n:
          /\ best \in [1..m -> R]
          /\ Len(best) = m
          /\ m < n => m = limit
          /\ limit = 1 => m <= 1
          /\ \A i \in 1..m: best[i] = list[i]
    BY <1>0 DEF FirstRows
<1> DEFINE shown == {best[i].level: i \in 1..m}
<1>2. m \in Nat /\ DOMAIN best = 1..m /\ best \in Seq(R)
    <2>1. best \in Seq(R)
        BY <1>1, SeqDef
    <2>2. QED
        BY <1>1, <2>1
<1>3. shown \subseteq levels
    BY <1>1
<1>4. ASSUME NEW hidden \in levels \ shown
      PROVE  m = limit /\ \A level \in shown: Better(side, level, hidden)
    <2>1. PICK i \in 1..n: list[i].level = hidden
        <3>1. PICK r \in R: r.level = hidden
            OBVIOUS
        <3>2. QED
            BY <3>1
    <2>2. i \notin 1..m
        BY <1>1, <2>1
    <2>3. m < i /\ m < n
        BY <1>2, <2>2
    <2>4. ASSUME NEW j \in 1..m
          PROVE  Better(side, best[j].level, hidden)
        <3>1. j \in 1..n /\ j < i
            BY <1>1, <2>3
        <3>2. best[j] = list[j]
            BY <1>1
        <3>3. QED
            BY <2>1, <3>1, <3>2
    <2>5. QED
        BY <1>1, <2>3, <2>4
<1>5. \A i \in 1..m: best[i].level \in Nat
    BY <1>1
<1>6. \A i, j \in 1..m: i < j => Better(side, best[i].level, best[j].level)
    <2>1. SUFFICES ASSUME NEW i \in 1..m, NEW j \in 1..m, i < j
                   PROVE  Better(side, best[i].level, best[j].level)
        OBVIOUS
    <2>2. i \in 1..n /\ j \in 1..n /\ best[i] = list[i] /\ best[j] = list[j]
        BY <1>1, <1>2
    <2>3. QED
        BY <2>1, <2>2
<1> HIDE DEF levels
<1>7. ASSUME limit = 1
      PROVE  TopOf(best, side, limit, levels)
    <2>1. \A i, j \in 1..m: ~(i < j)
        BY <1>1, <1>7
    <2>2. \A hidden \in levels \ shown: Len(best) = limit
          /\ \A level \in shown: Better(side, level, hidden)
        BY <1>1, <1>4
    <2> HIDE DEF shown
    <2>3. shown = {best[i].level: i \in DOMAIN best}
        BY <1>2 DEF shown
    <2>4. QED
        BY <1>2, <1>3, <2>1, <2>2, <2>3 DEF TopOf
<1>8. turned \in Seq(R) /\ TopOf(turned, side, limit, levels)
    <2>1. CASE side = "buy"
        <3> DEFINE back == [i \in 1..m |-> best[(m - i) + 1]]
        <3>1. turned = back
            BY <1>1, <2>1 DEF Reverse
        <3>2. \A i \in 1..m: (m - i) + 1 \in 1..m /\ back[i] = best[(m - i) + 1]
            BY <1>2
        <3>3. back \in [1..m -> R]
            BY <1>1, <3>2
        <3>4. back \in Seq(R) /\ DOMAIN back = 1..m /\ Len(back) = m
            <4>1. back \in Seq(R)
                BY <1>2, <3>3, SeqDef
            <4>2. QED
                BY <1>2, <4>1
        <3> HIDE DEF back
        <3>5. \A i \in 1..m: best[i] = back[(m - i) + 1]
            <4>1. ASSUME NEW i \in 1..m
                  PROVE  best[i] = back[(m - i) + 1]
                <5>1. (m - i) + 1 \in 1..m /\ (m - ((m - i) + 1)) + 1 = i
                    BY <1>2
                <5>2. QED
                    BY <3>2, <5>1
            <4>2. QED
                BY <4>1
        <3>6. {back[i].level: i \in DOMAIN back} = shown
            <4>1. \A i \in 1..m: back[i].level \in shown
                BY <3>2
            <4>2. \A i \in 1..m: best[i].level \in {back[j].level: j \in 1..m}
                BY <3>2, <3>5
            <4>3. {back[i].level: i \in DOMAIN back} = {back[i].level: i \in 1..m}
                BY <3>4
            <4>4. QED
                BY <4>1, <4>2, <4>3
        <3>7. ASSUME NEW i \in 1..m, NEW j \in 1..m, i < j
              PROVE  back[i].level < back[j].level
            <4> DEFINE a == (m - i) + 1
                       b == (m - j) + 1
            <4>1. b < a
                BY <1>2, <3>7
            <4>2. a \in 1..m /\ b \in 1..m /\ back[i] = best[a] /\ back[j] = best[b]
                BY <3>2
            <4> HIDE DEF a, b
            <4>3. best[b].level > best[a].level
                BY <1>6, <2>1, <4>1, <4>2 DEF Better
            <4>4. QED
                BY <1>5, <4>2, <4>3
        <3>8. \A hidden \in levels \ shown:
                  Len(back) = limit /\ \A level \in shown: Better(side, level, hidden)
            BY <1>4, <3>4
        <3> HIDE DEF shown
        <3>9. TopOf(back, side, limit, levels)
            BY <1>3, <3>4, <3>6, <3>7, <3>8 DEF TopOf
        <3>10. QED
            BY <3>1, <3>4, <3>9
    <2>2. CASE side # "buy"
        <3>1. turned = best
            BY <2>2
        <3>2. \A i, j \in 1..m: i < j => best[i].level < best[j].level
            BY <1>6, <2>2 DEF Better
        <3>3. \A hidden \in levels \ shown:
                  Len(best) = limit /\ \A level \in shown: Better(side, level, hidden)
            BY <1>1, <1>4
        <3> HIDE DEF shown
        <3>4. shown = {best[i].level: i \in DOMAIN best}
            BY <1>2 DEF shown
        <3>5. TopOf(best, side, limit, levels)
            BY <1>2, <1>3, <3>2, <3>3, <3>4 DEF TopOf
        <3>6. QED
            BY <1>2, <3>1, <3>5
    <2>3. QED
        BY <2>1, <2>2
<1>9. QED
    BY <1>2, <1>7, <1>8 DEF best, levels

-----------------------------------------------------------------------------
(* Types and bounds. *)

\* The types, the bounds and what the reads of a goroutine know of their heights.
BoundsInv ==
    /\ SyncTypeOK
    /\ Len(books) <= MaxHeight
    /\ events \in 0..Len(books)
    /\ faults \in 0..MaxFaults
    /\ IsFiniteSet(rows)
    /\ \A w \in Worker:
           /\ pc[w] \in {"sell", "upsert"} => height[w]["buy"] >= 1
           /\ pc[w] = "upsert" => height[w]["sell"] >= 1

LEMMA InitBounds == Init => BoundsInv
<1> SUFFICES ASSUME Init
             PROVE  BoundsInv
    OBVIOUS
<1>1. SyncTypeOK
    BY DEF Init, SyncTypeOK, Unread, Side
<1>2. IsFiniteSet(rows)
    BY FS_EmptySet DEF Init
<1>3. QED
    BY <1>1, <1>2, OrderAssumption DEF Init, BoundsInv

\* A sync that has read both sides inserts finitely many rows.
LEMMA ConvertedIsFinite ==
    ASSUME BoundsInv, NEW w \in Worker, pc[w] = "upsert"
    PROVE  IsFiniteSet(Converted(w))
<1> DEFINE of(s) == {r \in Converted(w): r.side = s}
<1>1. ASSUME NEW s \in Side
      PROVE  IsFiniteSet(of(s))
    <2> DEFINE levels == books[height[w][s]][s]
               rowOf == [l \in levels |-> [side |-> s, level |-> l]]
    <2>1. height[w][s] \in 1..Len(books)
        BY <1>1 DEF BoundsInv, SyncTypeOK, Side
    <2>2. books[height[w][s]] \in Books
        BY <2>1 DEF BoundsInv, SyncTypeOK
    <2>3. IsFiniteSet(levels)
        BY <2>2, BookAssumption
    <2> HIDE DEF levels
    <2> DEFINE T == {rowOf[l]: l \in levels}
    <2>4. rowOf \in Surjection(levels, T)
        BY DEF Surjection
    <2>5. IsFiniteSet(T)
        BY <2>3, <2>4, FS_Surjection
    <2>6. of(s) \subseteq T
        <3>1. SUFFICES ASSUME NEW r \in of(s)
                       PROVE  r \in T
            OBVIOUS
        <3>2. r \in Row /\ r.side = s /\ r.level \in levels
            BY <3>1 DEF Converted, Fetched, levels
        <3>3. r = rowOf[r.level]
            BY <3>2 DEF Row
        <3>4. QED
            BY <3>2, <3>3
    <2> HIDE DEF T
    <2>7. QED
        BY <2>5, <2>6, FS_Subset
<1>2. Converted(w) = of("buy") \union of("sell")
    BY ConvertedAreRows DEF Row, Side
<1>3. IsFiniteSet(of("buy")) /\ IsFiniteSet(of("sell"))
    BY <1>1 DEF Side
<1> HIDE DEF of
<1>4. QED
    BY <1>2, <1>3, FS_Union

LEMMA NextBounds == BoundsInv /\ [Next]_vars => BoundsInv'
<1> SUFFICES ASSUME BoundsInv, [Next]_vars
             PROVE  BoundsInv'
    OBVIOUS
<1>1. SyncTypeOK /\ SyncTypeOK'
    BY NextSyncTypeOK DEF BoundsInv
<1> DEFINE read(w) == /\ pc[w] \in {"sell", "upsert"} => height[w]["buy"] >= 1
                      /\ pc[w] = "upsert" => height[w]["sell"] >= 1
<1>2. /\ Len(books)' <= MaxHeight
      /\ events' \in 0..Len(books)'
      /\ faults' \in 0..MaxFaults
    <2>1. MaxHeight \in Nat /\ MaxFaults \in Nat /\ Len(books) \in Nat
        BY <1>1, OrderAssumption DEF SyncTypeOK
    <2>2. CASE Block
        <3>1. Len(books)' = Len(books) + 1
            BY <1>1, <2>2 DEF Block, SyncTypeOK
        <3>2. QED
            BY <2>1, <2>2, <3>1 DEF Block, BoundsInv
    <2>3. CASE ~Block
        <3>1. UNCHANGED books
            BY <2>3 DEF Next, Step, Handle, AcquireLock, Fetch, NothingToStore, Upsert, Fail,
               Crash, vars
        <3>2. events' = events \/ (events > 0 /\ events' = events - 1)
            BY <2>3 DEF Next, Step, Handle, AcquireLock, Fetch, NothingToStore, Upsert, Fail,
               Crash, vars
        <3>3. faults' = faults \/ (faults < MaxFaults /\ faults' = faults + 1)
            BY <2>3 DEF Next, Step, Handle, AcquireLock, Fetch, NothingToStore, Upsert, Fail,
               Crash, vars
        <3>4. QED
            BY <2>1, <3>1, <3>2, <3>3 DEF BoundsInv
    <2>4. QED
        BY <2>2, <2>3
<1>3. IsFiniteSet(rows)'
    <2>1. CASE \E w \in Worker: Upsert(w)
        BY <2>1, ConvertedIsFinite DEF Upsert
    <2>2. CASE ~\E w \in Worker: Upsert(w)
        <3>1. UNCHANGED rows
            BY <2>2 DEF Next, Block, Step, Handle, AcquireLock, Fetch, NothingToStore, Fail,
               Crash, vars
        <3>2. QED
            BY <3>1 DEF BoundsInv
    <2>3. QED
        BY <2>1, <2>2
<1>4. \A v \in Worker: read(v)'
    <2>1. \A v \in Worker: read(v) /\ height[v] \in [Side -> 0..Len(books)]
        BY <1>1 DEF BoundsInv, SyncTypeOK
    <2>2. ASSUME NEW w \in Worker, Handle(w) \/ AcquireLock(w)
          PROVE  \A v \in Worker: read(v)'
        BY <1>1, <2>1, <2>2 DEF Handle, AcquireLock, SyncTypeOK
    <2>3. ASSUME NEW w \in Worker, Fetch(w, "buy", "sell")
          PROVE  \A v \in Worker: read(v)'
        BY <1>1, <2>1, <2>3 DEF Fetch, SyncTypeOK, Side
    <2>4. ASSUME NEW w \in Worker, Fetch(w, "sell", "upsert")
          PROVE  \A v \in Worker: read(v)'
        BY <1>1, <2>1, <2>4 DEF Fetch, SyncTypeOK, Side
    <2>5. ASSUME NEW w \in Worker, Return(w)
          PROVE  \A v \in Worker: read(v)'
        BY <1>1, <2>1, <2>5 DEF Return, SyncTypeOK
    <2>6. ASSUME NEW p \in Process, Crash(p)
          PROVE  \A v \in Worker: read(v)'
        BY <1>1, <2>1, <2>6 DEF Crash, SyncTypeOK
    <2>7. CASE Block \/ UNCHANGED vars
        BY <2>1, <2>7 DEF Block, vars
    <2>8. QED
        BY <2>2, <2>3, <2>4, <2>5, <2>6, <2>7 DEF Next, Step, NothingToStore, Upsert, Fail
<1>5. QED
    BY <1>1, <1>2, <1>3, <1>4 DEF BoundsInv

\* What a read of a side may answer.
Answer(s, limit) == {GetMarketOrdersWithDepth(s, limit)}
      \union (IF limit = 1 THEN {BestOrder(s)} ELSE {})

\* A read answers with rows, and they are the top of the side.
LEMMA ReadIsTop ==
    ASSUME BoundsInv, NEW s \in Side, NEW limit \in Nat, NEW got \in Answer(s, limit)
    PROVE  got \in Seq(Row) /\ TopOf(got, s, limit, StoredBook[s])
<1> DEFINE R == RowsOf(s)
           n == Cardinality(R)
<1>1. rows \subseteq Row /\ R \subseteq Row /\ IsFiniteSet(R)
    BY FS_Subset DEF BoundsInv, SyncTypeOK, RowsOf
<1>2. Level \subseteq Nat
    BY BookAssumption DEF Level
<1>3. /\ n \in Nat
      /\ Sorted(s) \in [1..n -> R]
      /\ \A i, j \in 1..n: i < j => Better(s, Sorted(s)[i].level, Sorted(s)[j].level)
      /\ \A r \in R: \E i \in 1..n: Sorted(s)[i] = r
    BY <1>1, <1>2, SortedIs
<1>4. \A r \in R: r.level \in Nat
    BY <1>1, <1>2 DEF Row
<1>5. StoredBook[s] = {r.level: r \in R}
    BY DEF StoredBook, RowsOf
<1> HIDE DEF R, n
<1> DEFINE best(l) == Limited(Sorted(s), l)
           turned(l) == IF s = "buy" THEN Reverse(best(l)) ELSE best(l)
<1>6. \A l \in Nat: /\ best(l) \in Seq(R) /\ turned(l) \in Seq(R)
                    /\ TopOf(turned(l), s, l, {r.level: r \in R})
                    /\ l = 1 => TopOf(best(l), s, l, {r.level: r \in R})
    BY <1>3, <1>4, TopIs
<1>7. got = turned(limit) \/ (limit = 1 /\ got = best(1))
    BY DEF Answer, GetMarketOrdersWithDepth, BestOrder
<1> HIDE DEF best, turned
<1>8. got \in Seq(R) /\ TopOf(got, s, limit, {r.level: r \in R})
    BY <1>6, <1>7
<1>9. got \in Seq(Row)
    BY <1>1, <1>8, SeqMonotonic DEF R
<1>10. QED
    BY <1>5, <1>8, <1>9

\* Requests: what they hold are rows, what they remember is not ahead of the
\* chain, and a ticker asks for one order of each side.
Requests(n) ==
    [kind: {"none", "orders", "ticker"}, limit: Nat, read: SUBSET Side,
     since: [Side -> 0..n], got: [Side -> Seq(Row)]]

QueriesInv ==
    /\ query \in [Client -> Requests(Len(books))]
    /\ \A c \in Client: query[c].kind = "ticker" => query[c].limit = 1
    /\ queries \in 0..MaxQueries

BookTypeInv == BoundsInv /\ QueriesInv

LEMMA NoQueryIs == ASSUME NEW n \in Nat PROVE NoQuery \in Requests(n)
<1>1. <<>> \in Seq(Row)
    OBVIOUS
<1>2. QED
    BY <1>1 DEF NoQuery, Requests, Unread, Side

LEMMA InitBookTypeInv == BookInit => BookTypeInv
<1> SUFFICES ASSUME BookInit
             PROVE  BookTypeInv
    OBVIOUS
<1>1. BoundsInv
    BY InitBounds DEF BookInit
<1>2. Len(books) \in Nat
    BY <1>1 DEF BoundsInv, SyncTypeOK
<1>3. query = [c \in Client |-> NoQuery] /\ queries = 0
    BY DEF BookInit
<1>4. query \in [Client -> Requests(Len(books))]
    BY <1>2, <1>3, NoQueryIs
<1>5. \A c \in Client: query[c].kind # "ticker"
    BY <1>3 DEF NoQuery
<1>6. QED
    BY <1>1, <1>3, <1>4, <1>5, BookAssumption DEF BookTypeInv, QueriesInv

\* What a request may do to its answer.
LEMMA ReadIs ==
    ASSUME BookTypeInv, NEW c \in Client, NEW s \in Side, ReadSide(c, s)
    PROVE  \E got \in Answer(s, query[c].limit):
               query' = [query EXCEPT ![c].got[s] = got, ![c].read = @ \union {s}]
<1>1. query[c].kind = "ticker" => query[c].limit = 1
    BY DEF BookTypeInv, QueriesInv
<1>2. QED
    BY <1>1 DEF ReadSide, Answer

LEMMA NextQueries ==
    ASSUME BookTypeInv, BoundsInv', [BookNext]_bookVars
    PROVE  QueriesInv'
<1>1. Len(books) \in Nat /\ Len(books') \in Nat
    BY DEF BookTypeInv, BoundsInv, SyncTypeOK
<1>2. ASSUME NEW c \in Client, NEW kind \in {"orders", "ticker"}, NEW limit \in Nat,
             kind = "ticker" => limit = 1, Ask(c, kind, limit)
      PROVE  QueriesInv'
    <2> DEFINE new == [NoQuery EXCEPT !.kind = kind, !.limit = limit, !.since = asOf]
    <2>1. asOf \in [Side -> 0..Len(books)]
        BY DEF BookTypeInv, BoundsInv, SyncTypeOK
    <2>2. new \in Requests(Len(books)) /\ (new.kind = "ticker" => new.limit = 1)
        BY <1>1, <1>2, <2>1, NoQueryIs DEF Requests
    <2>3. query' = [query EXCEPT ![c] = new] /\ UNCHANGED books
        BY <1>2 DEF Ask, vars
    <2>4. queries' \in 0..MaxQueries
        BY <1>2, BookAssumption DEF Ask, BookTypeInv, QueriesInv
    <2> HIDE DEF new
    <2>5. QED
        BY <2>2, <2>3, <2>4 DEF BookTypeInv, QueriesInv
<1>3. ASSUME NEW c \in Client, NEW s \in Side, ReadSide(c, s)
      PROVE  QueriesInv'
    <2>1. PICK got \in Answer(s, query[c].limit):
              query' = [query EXCEPT ![c].got[s] = got, ![c].read = @ \union {s}]
        BY <1>3, ReadIs
    <2>2. query[c] \in Requests(Len(books))
        BY DEF BookTypeInv, QueriesInv
    <2>3. got \in Seq(Row)
        BY <2>1, <2>2, ReadIsTop DEF BookTypeInv, Requests
    <2> DEFINE new == [query[c] EXCEPT !.got[s] = got, !.read = @ \union {s}]
    <2>4. new \in Requests(Len(books)) /\ new.kind = query[c].kind /\ new.limit = query[c].limit
        BY <2>2, <2>3 DEF Requests
    <2>5. query' = [query EXCEPT ![c] = new] /\ UNCHANGED <<books, queries>>
        BY <1>3, <2>1 DEF ReadSide, vars, BookTypeInv, QueriesInv
    <2> HIDE DEF new
    <2>6. QED
        BY <2>4, <2>5 DEF BookTypeInv, QueriesInv
<1>4. ASSUME NEW c \in Client, Respond(c)
      PROVE  QueriesInv'
    <2>1. NoQuery.kind # "ticker"
        BY DEF NoQuery
    <2>2. query' = [query EXCEPT ![c] = NoQuery] /\ UNCHANGED <<books, queries>>
        BY <1>4 DEF Respond
    <2> HIDE DEF NoQuery
    <2>3. QED
        BY <1>1, <2>1, <2>2, NoQueryIs DEF BookTypeInv, QueriesInv
<1>5. CASE [Next]_vars /\ UNCHANGED <<query, queries>>
    <2>1. Len(books) <= Len(books')
        <3>1. CASE Block
            BY <3>1 DEF Block, BookTypeInv, BoundsInv, SyncTypeOK
        <3>2. CASE ~Block
            <4>1. UNCHANGED books
                BY <1>5, <3>2 DEF Next, Step, Handle, AcquireLock, Fetch, NothingToStore, Upsert,
                   Fail,
                    Crash, vars
            <4>2. QED
                BY <1>1, <4>1
        <3>3. QED
            BY <3>1, <3>2
    <2>2. \A q \in Requests(Len(books)): q \in Requests(Len(books'))
        BY <1>1, <2>1 DEF Requests
    <2>3. QED
        BY <1>5, <2>2 DEF BookTypeInv, QueriesInv
<1>6. \A depth \in Depths: depth \div 2 \in Nat
    BY BookAssumption
<1>7. CASE \E c \in Client: GetMarketOrders(c) \/ BuildTicker(c)
    BY <1>2, <1>6, <1>7 DEF GetMarketOrders, BuildTicker
<1>8. QED
    BY <1>3, <1>4, <1>5, <1>7 DEF BookNext, bookVars

LEMMA NextBoundsOfBook == ASSUME BoundsInv, [BookNext]_bookVars PROVE BoundsInv'
<1>1. CASE [Next]_vars
    BY <1>1, NextBounds
<1>2. ASSUME NEW c \in Client, Respond(c)
      PROVE  BoundsInv'
    <2>1. faults' \in 0..MaxFaults
        BY <1>2, OrderAssumption DEF Respond, BoundsInv
    <2>2. QED
        BY <1>2, <2>1 DEF Respond, BoundsInv, SyncTypeOK
<1>3. CASE UNCHANGED vars
    BY <1>1, <1>3
<1>4. QED
    BY <1>1, <1>2, <1>3 DEF BookNext, GetMarketOrders, BuildTicker, Ask, ReadSide, bookVars

LEMMA BookTypeInvIsInductive == BookSpec => []BookTypeInv
<1>1. BookTypeInv /\ [BookNext]_bookVars => BookTypeInv'
    BY NextBoundsOfBook, NextQueries DEF BookTypeInv
<1>2. QED
    BY InitBookTypeInv, <1>1, PTL DEF BookSpec

\* However many processes sync and however many requests are answered, the
\* table, the chain and the answers keep their types and bounds.
THEOREM BookTypeCorrect == BookSpec => []BookTypeOK
<1>1. BookTypeInv => BookTypeOK
    <2> SUFFICES ASSUME BookTypeInv
                 PROVE  BookTypeOK
        OBVIOUS
    <2>1. Len(books) \in 1..MaxHeight /\ 0..Len(books) \subseteq 0..MaxHeight
        BY OrderAssumption DEF BookTypeInv, BoundsInv, SyncTypeOK
    <2>2. TypeOK
        BY <2>1 DEF TypeOK, BookTypeInv, BoundsInv, SyncTypeOK
    <2>3. \A q \in Requests(Len(books)): q \in Requests(MaxHeight)
        BY <2>1 DEF Requests
    <2>4. query \in [Client -> Requests(MaxHeight)] /\ queries \in 0..MaxQueries
        BY <2>3 DEF BookTypeInv, QueriesInv
    <2>5. QED
        BY <2>2, <2>4 DEF BookTypeOK, Requests
<1>2. QED
    BY <1>1, BookTypeInvIsInductive, PTL

-----------------------------------------------------------------------------
(* Answers are whole. *)

\* The levels a book of the chain has of a side, none at height 0.
LevelsAt(s, h) == IF h = 0 THEN {} ELSE books[h][s] \ Unreadable

\* Each side of the table is a side of one book.
SidesAreBooks == \A s \in Side: StoredBook[s] = LevelsAt(s, asOf[s])

\* The table has not gone back since a request came in.
NotBefore == \A c \in Client: \A s \in Side: query[c].since[s] <= asOf[s]

AnswersInv ==
    /\ BookTypeInv
    /\ OrderInv
    /\ SidesAreBooks
    /\ NotBefore
    /\ AnswersAreWhole

Whole(c, s) ==
    \E h \in query[c].since[s]..Len(books):
        TopOf(query[c].got[s], s, query[c].limit, LevelsAt(s, h))

LEMMA AnswersAreTops ==
    /\ AnswersAreWhole <=> \A c \in Client: \A s \in query[c].read: Whole(c, s)
    /\ AnswersAreWhole' <=> \A c \in Client: \A s \in query'[c].read: Whole(c, s)'
BY DEF AnswersAreWhole, Whole, TopOf, LevelsAt

LEMMA InitAnswersInv == BookInit => AnswersInv
<1> SUFFICES ASSUME BookInit
             PROVE  AnswersInv
    OBVIOUS
<1>1. BookTypeInv /\ OrderInv
    BY InitBookTypeInv, InitOrderInv DEF BookInit
<1>2. SidesAreBooks
    BY DEF BookInit, Init, SidesAreBooks, StoredBook, LevelsAt, Unread
<1>3. NotBefore
    BY DEF BookInit, Init, NotBefore, NoQuery, Unread
<1>4. \A c \in Client: query[c].read = {}
    BY DEF BookInit, NoQuery
<1>5. AnswersAreWhole
    BY <1>4 DEF AnswersAreWhole
<1>6. QED
    BY <1>1, <1>2, <1>3, <1>5 DEF AnswersInv

\* A step of the syncs adds books, keeps those there are, and moves the table
\* from book to book and forward.
LEMMA SyncsMoveForward ==
    ASSUME AnswersInv, OneProcess, [Next]_vars
    PROVE  /\ Len(books) <= Len(books')
           /\ \A s \in Side: \A h \in 0..Len(books): LevelsAt(s, h)' = LevelsAt(s, h)
           /\ \A s \in Side: asOf[s] <= asOf'[s]
           /\ SidesAreBooks'
<1>1. SyncTypeOK /\ Len(books) \in Nat /\ \A s \in Side: asOf[s] \in 0..Len(books)
    BY DEF AnswersInv, OrderInv, SyncTypeOK
<1>2. CASE Block
    <2>1. PICK b \in Books: books' = Append(books, b)
        BY <1>2 DEF Block
    <2>2. Len(books') = Len(books) + 1 /\ \A h \in 1..Len(books): books'[h] = books[h]
        BY <1>1, <2>1 DEF SyncTypeOK
    <2>3. \A s \in Side: \A h \in 0..Len(books): LevelsAt(s, h)' = LevelsAt(s, h)
        BY <1>1, <2>2 DEF LevelsAt
    <2>4. UNCHANGED <<rows, asOf>>
        BY <1>2 DEF Block
    <2>5. SidesAreBooks'
        BY <1>1, <2>3, <2>4 DEF SidesAreBooks, StoredBook, AnswersInv
    <2>6. QED
        BY <1>1, <2>2, <2>3, <2>4, <2>5
<1>3. ASSUME NEW w \in Worker, Upsert(w)
      PROVE  /\ UNCHANGED books
             /\ \A s \in Side: asOf[s] <= asOf'[s]
             /\ SidesAreBooks'
    <2>1. pc[w] = "upsert" /\ rows' = Converted(w) /\ asOf' = height[w] /\ UNCHANGED books
        BY <1>3 DEF Upsert
    <2>2. ASSUME NEW s \in Side
          PROVE  asOf[s] <= asOf'[s] /\ StoredBook'[s] = LevelsAt(s, asOf[s])'
        <3>1. asOf[s] <= height[w][s] /\ height[w][s] \in Nat /\ height[w][s] # 0
            BY <2>1 DEF AnswersInv, OrderInv, SyncTypeOK, ReadsAreLater, Side
        <3>2. StoredBook'[s] = {r.level: r \in {r \in Converted(w): r.side = s}}
            BY <2>1 DEF StoredBook
        <3>3. StoredBook'[s] = books[height[w][s]][s] \ Unreadable
            BY <2>1, <3>2, ConvertedIsWhole DEF AnswersInv
        <3>4. QED
            BY <2>1, <3>1, <3>3 DEF LevelsAt
    <2>3. QED
        BY <2>1, <2>2 DEF SidesAreBooks
<1>4. CASE ~Block /\ ~\E w \in Worker: Upsert(w)
    <2>1. UNCHANGED <<books, rows, asOf>>
        BY <1>4 DEF Next, Step, Handle, AcquireLock, Fetch, NothingToStore, Fail, Crash, vars
    <2>2. SidesAreBooks'
        BY <2>1 DEF SidesAreBooks, StoredBook, LevelsAt, AnswersInv
    <2>3. QED
        BY <1>1, <2>1, <2>2 DEF LevelsAt
<1>5. CASE \E w \in Worker: Upsert(w)
    <2>1. /\ UNCHANGED books
          /\ \A s \in Side: asOf[s] <= asOf'[s]
          /\ SidesAreBooks'
        BY <1>3, <1>5
    <2>2. \A s \in Side: \A h \in 0..Len(books): LevelsAt(s, h)' = LevelsAt(s, h)
        BY <2>1 DEF LevelsAt
    <2>3. QED
        BY <1>1, <2>1, <2>2
<1>6. QED
    BY <1>2, <1>4, <1>5

\* No step of a request moves the table or the chain.
LEMMA RequestsLeaveSyncsAlone ==
    ASSUME [BookNext]_bookVars, ~([Next]_vars /\ UNCHANGED <<query, queries>>)
    PROVE  /\ UNCHANGED <<books, rows, asOf, locked, pc, height>>
           /\ \E c \in Client:
                  \/ \E kind \in {"orders", "ticker"}, limit \in Nat:
                         query' = [query EXCEPT ![c] =
                                       [NoQuery EXCEPT !.kind = kind, !.limit = limit, !.since = asOf]]
                  \/ \E s \in Side: ReadSide(c, s)
                  \/ query' = [query EXCEPT ![c] = NoQuery]
<1>0. BookNext /\ ~(Next /\ UNCHANGED <<query, queries>>)
    <2>1. UNCHANGED bookVars => UNCHANGED vars /\ UNCHANGED <<query, queries>>
        BY DEF bookVars
    <2>2. QED
        BY <2>1
<1>1. PICK c \in Client:
          \/ GetMarketOrders(c) \/ BuildTicker(c)
          \/ \E s \in Side: ReadSide(c, s)
          \/ Respond(c)
    BY <1>0, Zenon DEF BookNext
<1>2. \A depth \in Depths: depth \div 2 \in Nat
    BY BookAssumption
<1>3. CASE GetMarketOrders(c) \/ BuildTicker(c)
    BY <1>2, <1>3 DEF GetMarketOrders, BuildTicker, Ask, vars
<1>4. CASE \E s \in Side: ReadSide(c, s)
    BY <1>4 DEF ReadSide, vars
<1>5. CASE Respond(c)
    BY <1>5 DEF Respond
<1>6. QED
    BY <1>1, <1>3, <1>4, <1>5

LEMMA NextAnswersInv ==
    ASSUME AnswersInv, OneProcess, [BookNext]_bookVars
    PROVE  AnswersInv'
<1>1. BookTypeInv /\ BookTypeInv'
    BY NextBoundsOfBook, NextQueries DEF AnswersInv, BookTypeInv
<1>2. Len(books) \in Nat /\ query \in [Client -> Requests(Len(books))]
      /\ \A s \in Side: asOf[s] \in 0..Len(books)
    BY <1>1 DEF BookTypeInv, BoundsInv, SyncTypeOK, QueriesInv
<1>3. \A c \in Client: /\ query[c].read \subseteq Side
                       /\ \A s \in Side: query[c].since[s] \in 0..Len(books)
    BY <1>2 DEF Requests
<1>4. CASE [Next]_vars /\ UNCHANGED <<query, queries>>
    <2>1. OrderInv'
        BY <1>4, NextOrderInv DEF AnswersInv
    <2>2. /\ Len(books) <= Len(books')
          /\ \A s \in Side: \A h \in 0..Len(books): LevelsAt(s, h)' = LevelsAt(s, h)
          /\ \A s \in Side: asOf[s] <= asOf'[s]
          /\ SidesAreBooks'
        BY <1>4, SyncsMoveForward
    <2>3. Len(books') \in Nat /\ \A s \in Side: asOf'[s] \in 0..Len(books')
        BY <1>1 DEF BookTypeInv, BoundsInv, SyncTypeOK
    <2>4. NotBefore'
        BY <1>2, <1>3, <1>4, <2>2, <2>3 DEF NotBefore, AnswersInv
    <2>5. AnswersAreWhole'
        <3>1. SUFFICES ASSUME NEW c \in Client, NEW s \in query[c].read
                       PROVE  Whole(c, s)'
            BY <1>4, AnswersAreTops DEF Whole
        <3>2. PICK h \in query[c].since[s]..Len(books):
                  TopOf(query[c].got[s], s, query[c].limit, LevelsAt(s, h))
            BY AnswersAreTops DEF AnswersInv, Whole
        <3>3. s \in Side /\ h \in 0..Len(books) /\ h \in query[c].since[s]..Len(books')
            BY <1>2, <1>3, <2>2, <2>3
        <3>4. LevelsAt(s, h)' = LevelsAt(s, h)
            BY <2>2, <3>3
        <3>5. QED
            BY <1>4, <3>2, <3>3, <3>4 DEF Whole
    <2>6. QED
        BY <1>1, <2>1, <2>2, <2>4, <2>5 DEF AnswersInv
<1>5. CASE ~([Next]_vars /\ UNCHANGED <<query, queries>>)
    <2>1. UNCHANGED <<books, rows, asOf, locked, pc, height>>
        BY <1>5, RequestsLeaveSyncsAlone
    <2>2. OrderInv' /\ SidesAreBooks'
        BY <2>1 DEF AnswersInv, OrderInv, SyncTypeOK, AloneInside, ReadsAreLater, SidesAreBooks,
            StoredBook, LevelsAt
    <2>3. ASSUME NEW c \in Client, NEW new,
                 query' = [query EXCEPT ![c] = new],
                 \A s \in Side: new.since[s] <= asOf[s],
                 \A s \in new.read: \E h \in new.since[s]..Len(books):
                     TopOf(new.got[s], s, new.limit, LevelsAt(s, h))
          PROVE  NotBefore' /\ AnswersAreWhole'
        <3>1. query'[c] = new /\ \A d \in Client \ {c}: query'[d] = query[d]
            BY <1>2, <2>3
        <3>2. NotBefore'
            BY <2>1, <2>3, <3>1 DEF NotBefore, AnswersInv
        <3>3. ASSUME NEW d \in Client, NEW s \in query'[d].read
              PROVE  Whole(d, s)'
            <4>1. \A h: LevelsAt(s, h)' = LevelsAt(s, h)
                BY <2>1 DEF LevelsAt
            <4>2. CASE d = c
                BY <2>1, <2>3, <3>1, <3>3, <4>1, <4>2 DEF Whole
            <4>3. CASE d # c
                <5>1. Whole(d, s)
                    BY <3>1, <3>3, <4>3, AnswersAreTops DEF AnswersInv
                <5>2. QED
                    BY <2>1, <3>1, <4>1, <4>3, <5>1 DEF Whole
            <4>4. QED
                BY <4>2, <4>3
        <3>4. AnswersAreWhole'
            BY <3>3, AnswersAreTops
        <3>5. QED
            BY <3>2, <3>4
    <2>4. ASSUME NEW c \in Client, NEW kind, NEW limit,
                 query' = [query EXCEPT ![c] =
                               [NoQuery EXCEPT !.kind = kind, !.limit = limit, !.since = asOf]]
          PROVE  NotBefore' /\ AnswersAreWhole'
        <3> DEFINE new == [NoQuery EXCEPT !.kind = kind, !.limit = limit, !.since = asOf]
        <3>1. new.since = asOf /\ new.read = {}
            BY DEF NoQuery
        <3>2. query' = [query EXCEPT ![c] = new] /\ \A s \in Side: new.since[s] <= asOf[s]
            BY <1>2, <2>4, <3>1
        <3> HIDE DEF new
        <3>3. QED
            BY <2>3, <3>1, <3>2
    <2>5. ASSUME NEW c \in Client, NEW s \in Side, ReadSide(c, s)
          PROVE  NotBefore' /\ AnswersAreWhole'
        <3>1. PICK got \in Answer(s, query[c].limit):
                  query' = [query EXCEPT ![c].got[s] = got, ![c].read = @ \union {s}]
            BY <1>1, <2>5, ReadIs
        <3>2. query[c] \in Requests(Len(books))
            BY <1>2
        <3>3. query[c].limit \in Nat
            BY <3>2 DEF Requests
        <3>4. TopOf(got, s, query[c].limit, LevelsAt(s, asOf[s]))
            <4>1. TopOf(got, s, query[c].limit, StoredBook[s])
                BY <1>1, <3>3, ReadIsTop DEF BookTypeInv
            <4>2. QED
                BY <4>1 DEF AnswersInv, SidesAreBooks
        <3> DEFINE new == [query[c] EXCEPT !.got[s] = got, !.read = @ \union {s}]
        <3>5. query' = [query EXCEPT ![c] = new]
            BY <1>2, <3>1
        <3>6. /\ new.since = query[c].since
              /\ new.limit = query[c].limit
              /\ new.read = query[c].read \union {s}
              /\ new.got[s] = got
              /\ \A t \in Side \ {s}: new.got[t] = query[c].got[t]
            BY <3>2 DEF Requests
        <3> HIDE DEF new
        <3>7. \A t \in Side: new.since[t] <= asOf[t]
            BY <3>6 DEF AnswersInv, NotBefore
        <3>8. ASSUME NEW t \in new.read
              PROVE  \E h \in new.since[t]..Len(books): TopOf(new.got[t], t, new.limit, LevelsAt(t, h))
            <4>1. CASE t = s
                <5>1. asOf[s] \in new.since[s]..Len(books)
                    BY <1>2, <1>3, <3>6, <3>7
                <5>2. QED
                    BY <3>4, <3>6, <4>1, <5>1
            <4>2. CASE t # s
                <5>1. t \in query[c].read /\ t \in Side \ {s}
                    BY <1>3, <3>6, <3>8, <4>2
                <5>2. Whole(c, t)
                    BY <5>1, AnswersAreTops DEF AnswersInv
                <5>3. QED
                    BY <3>6, <5>1, <5>2 DEF Whole
            <4>3. QED
                BY <4>1, <4>2
        <3>9. QED
            BY <2>3, <3>5, <3>7, <3>8
    <2>6. ASSUME NEW c \in Client, query' = [query EXCEPT ![c] = NoQuery]
          PROVE  NotBefore' /\ AnswersAreWhole'
        <3>1. NoQuery.read = {} /\ \A s \in Side: NoQuery.since[s] = 0
            BY DEF NoQuery, Unread
        <3> HIDE DEF NoQuery
        <3>2. \A s \in Side: NoQuery.since[s] <= asOf[s]
            BY <1>2, <3>1
        <3>3. QED
            BY <2>3, <2>6, <3>1, <3>2
    <2>7. NotBefore' /\ AnswersAreWhole'
        BY <1>5, <2>4, <2>5, <2>6, RequestsLeaveSyncsAlone
    <2>8. QED
        BY <1>1, <2>2, <2>7 DEF AnswersInv
<1>6. QED
    BY <1>4, <1>5

\* However the syncs of one process move the table while requests read it, for
\* any books, depths, goroutines, failures and crashes, each side of an answer
\* is the top of one book, no older than the table was when the request came
\* in: GetMarketOrders and buildTicker never mix two books in a side.
THEOREM AnswersAreWholeTheorem ==
    ASSUME OneProcess
    PROVE  BookSpec => []AnswersAreWhole
<1>1. AnswersInv /\ [BookNext]_bookVars => AnswersInv'
    BY NextAnswersInv
<1>2. AnswersInv => AnswersAreWhole
    BY DEF AnswersInv
<1>3. QED
    BY InitAnswersInv, <1>1, <1>2, PTL DEF BookSpec
=============================================================================
