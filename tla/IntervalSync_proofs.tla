------------------------ MODULE IntervalSync_proofs ------------------------
(***************************************************************************)
(* IntervalSync for any number of goroutines, trades, lengths, limits,     *)
(* batches and failures, as long as all syncs of the market's intervals    *)
(* run in one process, whose mutex keeps them apart.                       *)
(***************************************************************************)
EXTENDS IntervalSync, FiniteSetTheorems, WellFoundedInduction, TLAPS

OneProcess == \A v, w \in Worker: ProcessOf[v] = ProcessOf[w]

-----------------------------------------------------------------------------
(* Least and greatest elements, and the arithmetic of the intervals. *)

LEMMA SmallestExists ==
    ASSUME NEW S \in SUBSET Nat, S # {}
    PROVE  \E m \in S: \A x \in S: m <= x
<1> DEFINE R == OpToRel(<, Nat)
<1>1. IsWellFoundedOn(R, Nat)
    BY NatLessThanWellFounded
<1>2. \E m \in S: \A y \in S: ~(<<y, m>> \in R)
    <2> HIDE DEF R
    <2> QED BY <1>1, WFMin
<1>3. PICK m \in S: \A y \in S: ~(<<y, m>> \in R)
    BY <1>2
<1>4. ASSUME NEW y \in S PROVE m <= y
  <2>1. m \in Nat /\ y \in Nat /\ (y < m => <<y, m>> \in R)
    BY DEF OpToRel
  <2>2. ~(<<y, m>> \in R)
    BY <1>3
  <2> HIDE DEF R
  <2> QED BY <2>1, <2>2
<1>5. QED
    BY <1>4

\* Min and Max answer what their names say, where they are used.
LEMMA MinIsLeast ==
    ASSUME NEW S \in SUBSET Nat, S # {}
    PROVE  Min(S) \in S /\ \A x \in S: Min(S) <= x
<1>1. \E m \in S: \A x \in S: m <= x
    BY SmallestExists
<1>2. QED
    BY <1>1 DEF Min

LEMMA MaxIsGreatest ==
    ASSUME NEW S \in SUBSET Nat, S # {}, NEW n \in Nat, \A x \in S: x <= n
    PROVE  Max(S) \in S /\ \A x \in S: x <= Max(S)
<1> DEFINE D == {n - x: x \in S}
<1>1. \A x \in S: n - x \in Nat
    OBVIOUS
<1>2. D \in SUBSET Nat /\ D # {}
    <2>1. D \in SUBSET Nat
        BY <1>1
    <2>2. \A x \in S: n - x \in D
        OBVIOUS
    <2> QED BY <2>1, <2>2
<1>3. PICK d \in D: \A y \in D: d <= y
    BY <1>2, SmallestExists
<1>4. PICK m \in S: d = n - m
    BY <1>3
<1>5. \A x \in S: x <= m
    BY <1>3, <1>4
<1>6. QED
    BY <1>5 DEF Max

\* An interval holds the second it was computed from.
LEMMA StartBefore ==
    ASSUME NEW t \in Nat, NEW length \in Nat \ {0}
    PROVE  /\ StartOf(t, length) \in Nat
           /\ StartOf(t, length) <= t
           /\ t < StartOf(t, length) + length
BY DEF StartOf

\* No interval reaches over the start of an interval k times as long.
LEMMA StartAligned ==
    ASSUME NEW t \in Nat, NEW q \in Nat, NEW k \in Nat \ {0}, NEW length \in Nat \ {0},
           q * (k * length) <= t
    PROVE  q * (k * length) <= StartOf(t, length)
<1> DEFINE d == t \div length
<1>1. d \in Nat /\ t < (d + 1) * length
    OBVIOUS
<1>2. SUFFICES q * k <= d
    BY <1>1 DEF StartOf
<1>3. SUFFICES ASSUME d < q * k PROVE FALSE
    BY <1>1
<1>4. d + 1 <= q * k
    BY <1>1, <1>3
<1>5. (d + 1) * length <= (q * k) * length
    BY <1>1, <1>4
<1>6. QED
    BY <1>1, <1>5

\* FirstFrom counts the rows before a row.
LEMMA RanksAreNat ==
    ASSUME status \in [Trade -> {"absent", "fresh", "added"}], NEW second, NEW u
    PROVE  /\ IsFiniteSet({v \in Stored: second <= v /\ v < u})
           /\ Cardinality({v \in Stored: second <= v /\ v < u}) \in Nat
<1>1. IsFiniteSet(Trade)
    BY IntervalAssumption, FS_Interval DEF Trade
<1>2. {v \in Stored: second <= v /\ v < u} \in SUBSET Trade
    BY DEF Stored
<1>3. QED
    BY <1>1, <1>2, FS_Subset, FS_CardinalityType

\* The rows read have no gap, and are all there are unless the limit is reached.
LEMMA FirstFromIsWhole ==
    ASSUME TypeOK, NEW second \in Nat
    PROVE  /\ FirstFrom(second) \subseteq {t \in Stored: second <= t}
           /\ \A t \in FirstFrom(second),
              u \in Stored: second <= u /\ u < t => u \in FirstFrom(second)
           /\ Cardinality(FirstFrom(second)) # limit
                 => FirstFrom(second) = {t \in Stored: second <= t}
<1> DEFINE S == {t \in Stored: second <= t}
           Before(t) == {v \in Stored: second <= v /\ v < t}
           F == FirstFrom(second)
<1>1. limit \in Nat \ {0} /\ Trades \in Nat
    BY IntervalAssumption DEF TypeOK
<1>2. \A t: IsFiniteSet(Before(t)) /\ Cardinality(Before(t)) \in Nat
    BY RanksAreNat DEF TypeOK
<1>3. F = {t \in S: Cardinality(Before(t)) < limit} /\ S \subseteq Trade /\ F \subseteq S
    BY DEF FirstFrom, Stored
<1>4. ASSUME NEW t \in F, NEW u \in S, u < t
      PROVE  u \in F
    <2>1. Before(u) \in SUBSET Before(t)
        BY <1>3, <1>4 DEF Trade
    <2>2. Cardinality(Before(u)) <= Cardinality(Before(t))
        BY <1>2, <2>1, FS_Subset
    <2>3. Cardinality(Before(t)) < limit
        BY <1>3, <1>4
    <2>4. Cardinality(Before(u)) < limit
        BY <1>1, <1>2, <2>2, <2>3
    <2>5. QED
        BY <1>3, <2>4
<1>5. ASSUME S # F
      PROVE  Cardinality(F) = limit
    <2>1. S \ F \in SUBSET Nat /\ S \ F # {}
        BY <1>3, <1>5 DEF Trade
    <2>2. PICK m \in S \ F: \A u \in S \ F: m <= u
        BY <2>1, SmallestExists
    <2>3. F = Before(m)
        BY <1>3, <1>4, <2>2 DEF Trade
    <2>4. limit <= Cardinality(F)
        <3>1. ~(Cardinality(Before(m)) < limit)
            BY <1>3, <2>2
        <3>2. Cardinality(Before(m)) \in Nat
            BY <1>2
        <3>3. QED
            BY <1>1, <2>3, <3>1, <3>2
    <2>5. F # {}
        BY <1>1, <2>4, FS_EmptySet
    <2>6. F \in SUBSET Nat /\ \A t \in F: t <= Trades
        BY <1>1, <1>3 DEF Trade
    <2>7. PICK x \in F: \A u \in F: u <= x
        BY <1>1, <2>5, <2>6, MaxIsGreatest
    <2>8. F = Before(x) \union {x} /\ x \notin Before(x)
        <3>1. x \in Stored /\ second <= x /\ x \in Nat
            BY <1>3, <2>7 DEF Trade
        <3>2. \A u \in Before(x): u \in F
            BY <1>4, <2>7
        <3>3. ASSUME NEW u \in F
              PROVE  u \in Before(x) \union {x}
            <4>1. u \in Stored /\ second <= u /\ u \in Nat /\ u <= x
                BY <1>3, <2>7 DEF Trade
            <4>2. u < x \/ u = x
                BY <3>1, <4>1
            <4>3. QED
                BY <4>1, <4>2
        <3>4. x \notin Before(x)
            BY <3>1
        <3>5. F \subseteq Before(x) \union {x} /\ Before(x) \union {x} \subseteq F
            BY <2>7, <3>2, <3>3
        <3>6. QED
            BY <3>4, <3>5
    <2>9. Cardinality(F) = Cardinality(Before(x)) + 1
        BY <1>2, <2>8, FS_AddElement
    <2>10. Cardinality(Before(x)) < limit
        BY <1>3, <2>7
    <2>11. QED
        BY <1>1, <1>2, <2>4, <2>9, <2>10
<1>6. QED
    BY <1>3, <1>4, <1>5

\* A later second has no earlier interval.
LEMMA StartMonotone ==
    ASSUME NEW x \in Nat, NEW y \in Nat, x <= y, NEW length \in Nat \ {0}
    PROVE  StartOf(x, length) <= StartOf(y, length)
<1> DEFINE dx == x \div length
           dy == y \div length
<1>1. /\ dx \in Nat /\ dx * length <= x
      /\ dy \in Nat /\ y < (dy + 1) * length
    OBVIOUS
<1>2. dx <= dy
    <2>1. SUFFICES ASSUME dy + 1 <= dx PROVE FALSE
        BY <1>1
    <2>2. (dy + 1) * length <= dx * length
        BY <1>1, <2>1
    <2>3. QED
        BY <1>1, <2>2
<1>3. QED
    BY <1>1, <1>2 DEF StartOf

\* The biggest duration is the length that is a multiple of all.
LEMMA BiggestIsMultiple ==
    /\ BiggestDuration \in Lengths
    /\ \A length \in Lengths: \E k \in Nat \ {0}: BiggestDuration = k * length
<1>1. PICK day \in Lengths: \A length \in Lengths: day % length = 0
    BY IntervalAssumption
<1>2. \A length \in Lengths: \E k \in Nat \ {0}: day = k * length
    <2> SUFFICES ASSUME NEW length \in Lengths
                 PROVE  \E k \in Nat \ {0}: day = k * length
        OBVIOUS
    <2>1. day \in Nat \ {0} /\ length \in Nat \ {0} /\ day % length = 0
        BY <1>1, IntervalAssumption
    <2>2. day = (day \div length) * length /\ day \div length \in Nat
        BY <2>1
    <2>3. day \div length # 0
        BY <2>1, <2>2
    <2>4. QED
        BY <2>2, <2>3
<1>3. \A length \in Lengths: length <= day
    <2> SUFFICES ASSUME NEW length \in Lengths PROVE length <= day
        OBVIOUS
    <2>1. PICK k \in Nat \ {0}: day = k * length
        BY <1>2
    <2>2. length \in Nat
        BY IntervalAssumption
    <2>3. QED
        BY <2>1, <2>2
<1>4. BiggestDuration = day
    <2>1. \A m \in Lengths: (\A length \in Lengths: m >= length) => m = day
        BY <1>3, IntervalAssumption
    <2>2. \A length \in Lengths: day >= length
        BY <1>3, IntervalAssumption
    <2>3. QED
        BY <2>1, <2>2 DEF BiggestDuration, Max
<1>5. QED
    BY <1>2, <1>4

-----------------------------------------------------------------------------
(* Type correctness. *)

LEMMA TradesAreNat == Trade \subseteq Nat /\ Trades \in Nat
BY IntervalAssumption DEF Trade

LEMMA InitTypeOK == Init => TypeOK
BY IntervalAssumption DEF Init, TypeOK, Inside

LEMMA NextTypeOK == TypeOK /\ [Next]_vars => TypeOK'
<1> SUFFICES ASSUME TypeOK, [Next]_vars
             PROVE  TypeOK'
    OBVIOUS
<1> USE IntervalAssumption DEF TypeOK
<1>1. CASE HistoryTransaction
    BY <1>1 DEF HistoryTransaction, Replace
<1>2. ASSUME NEW w \in Worker, Call(w) \/ AcquireLock(w)
      PROVE  TypeOK'
    BY <1>2 DEF Call, AcquireLock, Goto, Inside
<1>3. ASSUME NEW w \in Worker, ReadOldest(w)
      PROVE  TypeOK'
    <2>1. CASE Fresh = {}
        BY <1>3, <2>1 DEF ReadOldest, Unlock, Goto, Inside
    <2>2. CASE Fresh # {}
        <3>1. Fresh \in SUBSET Nat
            BY TradesAreNat DEF Fresh
        <3>2. Min(Fresh) \in Nat
            BY <2>2, <3>1, MinIsLeast
        <3>3. BiggestDuration \in Nat \ {0}
            BY BiggestIsMultiple
        <3>4. StartOf(Min(Fresh), BiggestDuration) \in Nat
            BY <3>2, <3>3, StartBefore
        <3>5. QED
            BY <1>3, <2>2, <3>4 DEF ReadOldest, Goto, Inside
    <2>3. QED
        BY <2>1, <2>2
<1>4. ASSUME NEW w \in Worker, ReadRows(w)
      PROVE  TypeOK'
    <2>1. FirstFrom(from[w]) \subseteq Trade /\ IntervalsOf(FirstFrom(from[w])) \subseteq Interval
        BY DEF FirstFrom, Stored, IntervalsOf
    <2>2. MarkBatches(FirstFrom(from[w])) \subseteq SUBSET Trade
        BY <2>1 DEF MarkBatches
    <2>3. QED
        BY <1>4, <2>1, <2>2 DEF ReadRows, Goto, Inside
<1>5. ASSUME NEW w \in Worker, NEW b \in SUBSET toSave[w], BatchDone(w, b), pc[w] = "save"
      PROVE  /\ toSave' \in [Worker -> SUBSET Interval]
             /\ pc' \in [Worker -> {"idle", "lock"} \union Inside]
    BY <1>5 DEF BatchDone, Goto, Inside
<1>6. ASSUME NEW w \in Worker, SaveIntervals(w)
      PROVE  TypeOK'
    <2>1. PICK b \in Batches(w):
            /\ saved' = [i \in Interval |-> IF i \in b THEN {t \in loaded[w]: Holds(i, t)} ELSE saved[i]]
            /\ partial' = (partial \ b) \union (b \intersect CutOff(w))
            /\ BatchDone(w, b)
        BY <1>6 DEF SaveIntervals
    <2>2. b \in SUBSET toSave[w]
        BY DEF Batches
    <2>3. partial' \subseteq Interval
        BY <2>1 DEF CutOff
    <2>4. saved' \in [Interval -> SUBSET Trade]
        BY <2>1
    <2>5. QED
        BY <1>5, <1>6, <2>1, <2>2, <2>3, <2>4 DEF SaveIntervals
<1>7. ASSUME NEW w \in Worker, SaveFails(w)
      PROVE  TypeOK'
    <2>1. PICK b \in Batches(w): partial' = partial \union b /\ BatchDone(w, b)
        BY <1>7 DEF SaveFails
    <2>2. b \in SUBSET toSave[w]
        BY DEF Batches
    <2>3. partial' \subseteq Interval
        BY <2>1, <2>2
    <2>4. QED
        BY <1>5, <1>7, <2>1, <2>2, <2>3 DEF SaveFails
<1>8. ASSUME NEW w \in Worker, MarkAdded(w) \/ MarkFails(w)
      PROVE  TypeOK'
    <2>1. PICK b \in toMark[w]: toMark' = [toMark EXCEPT ![w] = @ \ {b}]
        BY <1>8 DEF MarkAdded, MarkFails
    <2>2. toMark' \in [Worker -> SUBSET SUBSET Trade]
        BY <2>1
    <2>3. status' \in [Trade -> {"absent", "fresh", "added"}]
        BY <1>8 DEF MarkAdded, MarkFails
    <2>4. CASE MarkAdded(w)
        BY <2>2, <2>3, <2>4 DEF MarkAdded
    <2>5. CASE MarkFails(w)
        BY <2>2, <2>5 DEF MarkFails
    <2>6. QED
        BY <1>8, <2>4, <2>5
<1>9. ASSUME NEW w \in Worker, Return(w) \/ ReadFails(w)
      PROVE  TypeOK'
    <2>1. CASE Return(w)
        BY <2>1 DEF Return, Unlock, Goto, Inside
    <2>2. CASE ReadFails(w)
        BY <2>2 DEF ReadFails, Unlock, Goto, Inside
    <2>3. QED
        BY <1>9, <2>1, <2>2
<1>10. ASSUME NEW p \in Process, Crash(p)
      PROVE  TypeOK'
    BY <1>10 DEF Crash, Inside
<1>11. CASE UNCHANGED vars
    BY <1>11 DEF vars
<1>12. QED
    BY <1>1, <1>2, <1>3, <1>4, <1>6, <1>7, <1>8, <1>9, <1>10, <1>11 DEF Next, Step

\* The variables keep their types for any workers, trades, lengths and limits.
THEOREM TypeCorrect == Spec => []TypeOK
BY InitTypeOK, NextTypeOK, PTL DEF Spec

-----------------------------------------------------------------------------
(* What a sync does not miss. *)

\* The mutex keeps the syncs apart.
AloneInside ==
    \A w \in Worker: pc[w] \in Inside =>
        locked[ProcessOf[w]] /\ \A v \in Worker: pc[v] \in Inside => v = w

\* The intervals hold stored trades, each its own, and so does what was read.
OnlyStored ==
    /\ \A i \in Interval: saved[i] \subseteq {t \in Stored: Holds(i, t)}
    /\ \A w \in Worker: loaded[w] \subseteq Stored

\* The rows are read from the start of a longest interval on.
ReadsWholeDays ==
    \A w \in Worker: pc[w] = "read" => \E q \in Nat: from[w] = q * BiggestDuration

\* Every trade that an interval still to be written may not lose was read,
\* but where the limit cut the interval off.
WritesWhole ==
    \A w \in Worker: pc[w] = "save" =>
        \A i \in toSave[w], t \in Trade:
            Holds(i, t) /\ (t \in Added \/ t \in saved[i]) => t \in loaded[w] \/ i \in CutOff(w)

\* Every trade that was read is in its intervals before it is marked.
MarksWritten ==
    \A w \in Worker:
        /\ pc[w] = "save" =>
             /\ \A batch \in toMark[w]: batch \subseteq loaded[w]
             /\ \A t \in loaded[w], i \in Interval:
                    Holds(i, t) => t \in saved[i] \/ i \in partial \/ i \in toSave[w]
        /\ pc[w] = "mark" =>
             \A b \in toMark[w]: \A t \in b, i \in Interval:
                 Holds(i, t) => t \in saved[i] \/ i \in partial

IInv ==
    /\ TypeOK
    /\ AloneInside
    /\ OnlyStored
    /\ ReadsWholeDays
    /\ WritesWhole
    /\ MarksWritten
    /\ OnlyFailedWritesMiss

\* An interval of which one trade was read had all its stored trades read, or
\* is the one that the last row falls into: the read starts at a day, of which
\* every length is a part.
LEMMA ReadsWholeIntervals ==
    ASSUME TypeOK, NEW q \in Nat, NEW i \in IntervalsOf(FirstFrom(q * BiggestDuration)),
           NEW t \in Stored, Holds(i, t), t \notin FirstFrom(q * BiggestDuration)
    PROVE  /\ Cardinality(FirstFrom(q * BiggestDuration)) = limit
           /\ Holds(i, Max(FirstFrom(q * BiggestDuration)))
<1> DEFINE second == q * BiggestDuration
           F == FirstFrom(second)
           length == i[1]
<1>1. PICK u \in F: Holds(i, u)
    BY DEF IntervalsOf
<1>2. length \in Lengths /\ length \in Nat \ {0}
    BY IntervalAssumption DEF IntervalsOf, Interval
<1>3. PICK k \in Nat \ {0}: BiggestDuration = k * length
    BY <1>2, BiggestIsMultiple
<1>4. second \in Nat /\ second = q * (k * length)
    BY <1>2, <1>3
<1>5. /\ F \subseteq {v \in Stored: second <= v}
      /\ \A v \in F, x \in Stored: second <= x /\ x < v => x \in F
      /\ Cardinality(F) # limit => F = {v \in Stored: second <= v}
    BY <1>4, FirstFromIsWhole
<1>6. Stored \subseteq Trade /\ Trade \subseteq Nat /\ Trades \in Nat /\ \A x \in Trade: x <= Trades
    BY IntervalAssumption DEF Stored, Trade
<1>7. /\ StartOf(u, length) = i[2] /\ StartOf(t, length) = i[2]
      /\ u \in Nat /\ t \in Nat /\ second <= u
    BY <1>1, <1>5, <1>6 DEF Holds
<1>8. second <= t
    <2>1. second <= StartOf(u, length)
        BY <1>2, <1>4, <1>7, StartAligned
    <2>2. StartOf(t, length) <= t /\ StartOf(t, length) \in Nat
        BY <1>2, <1>7, StartBefore
    <2>3. QED
        BY <1>4, <1>7, <2>1, <2>2
<1>9. Cardinality(F) = limit
    BY <1>5, <1>8
<1>10. Max(F) \in F /\ \A x \in F: x <= Max(F)
    <2>1. F \in SUBSET Nat /\ F # {} /\ \A x \in F: x <= Trades
        BY <1>1, <1>5, <1>6
    <2>2. QED
        BY <1>6, <2>1, MaxIsGreatest
<1>11. Max(F) \in Nat /\ u <= Max(F) /\ Max(F) <= t
    <2>1. Max(F) \in Nat
        BY <1>5, <1>6, <1>10
    <2>2. ~(t < Max(F))
        BY <1>5, <1>8, <1>10
    <2>3. QED
        BY <1>1, <1>7, <1>10, <2>1, <2>2
<1>12. /\ StartOf(u, length) <= StartOf(Max(F), length)
       /\ StartOf(Max(F), length) <= StartOf(t, length)
       /\ StartOf(Max(F), length) \in Nat
       /\ StartOf(t, length) \in Nat
    BY <1>2, <1>7, <1>11, StartMonotone, StartBefore
<1>13. StartOf(Max(F), length) = i[2]
    BY <1>7, <1>12
<1>14. QED
    BY <1>9, <1>13 DEF Holds

LEMMA InitIInv == Init => IInv
<1> SUFFICES ASSUME Init PROVE IInv
    OBVIOUS
<1>1. TypeOK
    BY InitTypeOK
<1>2. \A w \in Worker: pc[w] = "idle" /\ loaded[w] = {}
    BY DEF Init
<1>3. \A i \in Interval: saved[i] = {}
    BY DEF Init
<1>4. Added = {}
    BY DEF Init, Added
<1>5. AloneInside
    BY <1>2 DEF AloneInside, Inside
<1>6. OnlyStored
    BY <1>2, <1>3 DEF OnlyStored
<1>7. ReadsWholeDays /\ WritesWhole /\ MarksWritten
    BY <1>2 DEF ReadsWholeDays, WritesWhole, MarksWritten
<1>8. OnlyFailedWritesMiss
    BY <1>4 DEF OnlyFailedWritesMiss
<1>9. QED
    BY <1>1, <1>5, <1>6, <1>7, <1>8 DEF IInv

\* A step that writes no table and leads nobody into a write.
LEMMA QuietStep ==
    ASSUME IInv, UNCHANGED <<limit, status, saved, partial>>,
           \A v \in Worker:
               /\ loaded'[v] \subseteq loaded[v]
               /\ pc'[v] = "save" => pc[v] = "save" /\ loaded'[v] = loaded[v]
                     /\ toSave'[v] = toSave[v] /\ toMark'[v] = toMark[v]
               /\ pc'[v] = "mark" => pc[v] = "mark" /\ toMark'[v] \subseteq toMark[v]
    PROVE  OnlyStored' /\ WritesWhole' /\ MarksWritten' /\ OnlyFailedWritesMiss'
<1>1. Stored' = Stored /\ Added' = Added
    BY DEF Stored, Added
<1>2. OnlyStored'
    BY <1>1 DEF IInv, OnlyStored
<1>3. ASSUME NEW v \in Worker, pc'[v] = "save"
      PROVE  CutOff(v)' = CutOff(v)
    BY <1>3 DEF CutOff
<1>4. WritesWhole'
    BY <1>1, <1>3 DEF IInv, WritesWhole
<1>5. MarksWritten'
    BY DEF IInv, MarksWritten
<1>6. OnlyFailedWritesMiss'
    BY <1>1 DEF IInv, OnlyFailedWritesMiss
<1>7. QED
    BY <1>2, <1>4, <1>5, <1>6

LEMMA HistoryKeeps ==
    ASSUME IInv, HistoryTransaction
    PROVE  IInv'
<1> USE DEF IInv
<1>1. PICK low, high \in Trade: Replace(low..high)
    BY DEF HistoryTransaction
<1>2. TypeOK'
    BY NextTypeOK DEF Next
<1>3. Stored \subseteq Stored' /\ Added' \subseteq Added
    BY <1>1 DEF Replace, Stored, Added, TypeOK
<1>4. UNCHANGED <<limit, saved, locked, pc, from, loaded, toSave, partial>>
    BY DEF HistoryTransaction
<1>5. AloneInside' /\ ReadsWholeDays'
    BY <1>4 DEF AloneInside, ReadsWholeDays
<1>6. OnlyStored'
    BY <1>3, <1>4 DEF OnlyStored
<1>7. WritesWhole'
    <2>1. \A v \in Worker: CutOff(v)' = CutOff(v)
        BY <1>4 DEF CutOff
    <2>2. QED
        BY <1>3, <1>4, <2>1 DEF WritesWhole
<1>8. MarksWritten'
    <2>1. ASSUME NEW w \in Worker, NEW b \in toMark'[w]
          PROVE  \E batch \in toMark[w]: b \subseteq batch
        BY <1>1, <2>1 DEF Replace
    <2>2. QED
        BY <1>4, <2>1 DEF MarksWritten
<1>9. OnlyFailedWritesMiss'
    BY <1>3, <1>4 DEF OnlyFailedWritesMiss
<1>10. QED
    BY <1>2, <1>5, <1>6, <1>7, <1>8, <1>9

LEMMA ReadOldestKeeps ==
    ASSUME IInv, NEW w \in Worker, ReadOldest(w)
    PROVE  IInv'
<1> USE DEF IInv
<1>1. TypeOK'
    BY NextTypeOK DEF Next, Step
<1>2. /\ pc[w] = "oldest" /\ pc' \in {[pc EXCEPT ![w] = "idle"], [pc EXCEPT ![w] = "read"]}
      /\ UNCHANGED <<limit, status, saved, loaded, toSave, toMark, partial>>
    BY DEF ReadOldest, Goto
<1>3. OnlyStored' /\ WritesWhole' /\ MarksWritten' /\ OnlyFailedWritesMiss'
    BY <1>2, QuietStep DEF TypeOK
<1>4. CASE Fresh = {}
    <2>1. locked' = [locked EXCEPT ![ProcessOf[w]] = FALSE] /\ pc' = [pc EXCEPT ![w] = "idle"]
          /\ UNCHANGED from
        BY <1>4 DEF ReadOldest, Unlock, Goto
    <2>2. AloneInside'
        BY <1>2, <2>1 DEF AloneInside, Inside, TypeOK
    <2>3. ReadsWholeDays'
        BY <2>1 DEF ReadsWholeDays, TypeOK
    <2>4. QED
        BY <1>1, <1>3, <2>2, <2>3
<1>5. CASE Fresh # {}
    <2>1. /\ UNCHANGED locked /\ pc' = [pc EXCEPT ![w] = "read"]
          /\ from' = [from EXCEPT ![w] = StartOf(Min(Fresh), BiggestDuration)]
        BY <1>5 DEF ReadOldest, Goto
    <2>2. AloneInside'
        BY <1>2, <2>1 DEF AloneInside, Inside, TypeOK
    <2>3. \E q \in Nat: StartOf(Min(Fresh), BiggestDuration) = q * BiggestDuration
        <3>1. Fresh \in SUBSET Nat
            BY TradesAreNat DEF Fresh
        <3>2. Min(Fresh) \in Nat /\ BiggestDuration \in Nat \ {0}
            BY <1>5, <3>1, MinIsLeast, BiggestIsMultiple, IntervalAssumption
        <3>3. Min(Fresh) \div BiggestDuration \in Nat
            BY <3>2
        <3>4. QED
            BY <3>3 DEF StartOf
    <2>4. ReadsWholeDays'
        BY <2>1, <2>3 DEF ReadsWholeDays, TypeOK
    <2>5. QED
        BY <1>1, <1>3, <2>2, <2>4
<1>6. QED
    BY <1>4, <1>5

LEMMA ReadRowsKeeps ==
    ASSUME IInv, NEW w \in Worker, ReadRows(w)
    PROVE  IInv'
<1> USE DEF IInv
<1> DEFINE F == FirstFrom(from[w])
<1>1. TypeOK'
    BY NextTypeOK DEF Next, Step
<1>2. /\ pc[w] = "read" /\ pc' = [pc EXCEPT ![w] = "save"]
      /\ loaded' = [loaded EXCEPT ![w] = F]
      /\ toSave' = [toSave EXCEPT ![w] = IntervalsOf(F)]
      /\ toMark' = [toMark EXCEPT ![w] = MarkBatches(F)]
      /\ from' = [from EXCEPT ![w] = 0]
      /\ UNCHANGED <<limit, status, saved, locked, partial>>
    BY DEF ReadRows, Goto
<1>3. AloneInside' /\ ReadsWholeDays'
    BY <1>2 DEF AloneInside, Inside, ReadsWholeDays, TypeOK
<1>4. F \subseteq Stored /\ Stored' = Stored /\ Added' = Added
    BY <1>2 DEF FirstFrom, Stored, Added
<1>5. OnlyStored'
    BY <1>2, <1>4 DEF OnlyStored, TypeOK
<1>6. \A v \in Worker: pc'[v] \in Inside => v = w
    BY <1>2 DEF AloneInside, Inside, TypeOK
<1>7. pc'[w] = "save" /\ loaded'[w] = F /\ toSave'[w] = IntervalsOf(F)
    BY <1>2 DEF TypeOK
<1>8. WritesWhole'
    <2>1. PICK q \in Nat: from[w] = q * BiggestDuration
        BY <1>2 DEF ReadsWholeDays
    <2>2. ASSUME NEW i \in IntervalsOf(F), NEW t \in Trade,
                 Holds(i, t), t \in Added \/ t \in saved[i], t \notin F
          PROVE  i \in CutOff(w)'
        <3>1. t \in Stored /\ i \in Interval
            BY <2>2 DEF OnlyStored, Added, Stored, IntervalsOf
        <3>2. Cardinality(F) = limit /\ Holds(i, Max(F))
            BY <2>1, <2>2, <3>1, ReadsWholeIntervals
        <3>3. QED
            BY <1>2, <1>7, <3>1, <3>2 DEF CutOff
    <2>3. QED
        BY <1>2, <1>4, <1>6, <1>7, <2>2 DEF WritesWhole, Inside
<1>9. MarksWritten'
    <2>1. \A t \in F, i \in Interval: Holds(i, t) => i \in IntervalsOf(F)
        BY DEF IntervalsOf
    <2>2. toMark'[w] = MarkBatches(F) /\ \A batch \in MarkBatches(F): batch \subseteq F
        BY <1>2 DEF MarkBatches, TypeOK
    <2>3. QED
        BY <1>2, <1>6, <1>7, <2>1, <2>2 DEF MarksWritten, Inside
<1>10. OnlyFailedWritesMiss'
    BY <1>2, <1>4 DEF OnlyFailedWritesMiss
<1>11. QED
    BY <1>1, <1>3, <1>5, <1>8, <1>9, <1>10

\* What is left of a sync after a batch of its intervals.
LEMMA BatchKeeps ==
    ASSUME TypeOK, AloneInside, ReadsWholeDays,
           NEW w \in Worker, pc[w] = "save", NEW b \in Batches(w), BatchDone(w, b),
           UNCHANGED <<limit, status, locked, from, loaded, toMark>>
    PROVE  /\ b \in SUBSET toSave[w] /\ toSave'[w] = toSave[w] \ b
           /\ AloneInside' /\ ReadsWholeDays'
           /\ \A v \in Worker: pc'[v] \in Inside => v = w
           /\ pc'[w] = "save" \/ (pc'[w] = "mark" /\ toSave[w] = b)
           /\ CutOff(w)' = CutOff(w)
<1>1. b \in SUBSET toSave[w]
    BY DEF Batches
<1>2. toSave'[w] = toSave[w] \ b
    BY DEF BatchDone, TypeOK
<1>3. \/ pc' = pc
      \/ pc' = [pc EXCEPT ![w] = "mark"] /\ toSave[w] = b
    BY DEF BatchDone, Goto, TypeOK
<1>4. AloneInside'
    BY <1>3 DEF AloneInside, Inside, TypeOK
<1>5. ReadsWholeDays'
    BY <1>3 DEF ReadsWholeDays, TypeOK
<1>6. \A v \in Worker: pc'[v] \in Inside => v = w
    BY <1>3 DEF AloneInside, Inside, TypeOK
<1>7. pc'[w] = "save" \/ (pc'[w] = "mark" /\ toSave[w] = b)
    BY <1>3 DEF TypeOK
<1>8. CutOff(w)' = CutOff(w)
    BY DEF CutOff
<1>9. QED
    BY <1>1, <1>2, <1>4, <1>5, <1>6, <1>7, <1>8

LEMMA SaveIntervalsKeeps ==
    ASSUME IInv, NEW w \in Worker, SaveIntervals(w)
    PROVE  IInv'
<1> USE DEF IInv
<1>1. TypeOK'
    BY NextTypeOK DEF Next, Step
<1>2. pc[w] = "save" /\ UNCHANGED <<limit, status, locked, from, loaded, toMark>>
    BY DEF SaveIntervals
<1>3. PICK b \in Batches(w):
        /\ saved' = [i \in Interval |-> IF i \in b THEN {t \in loaded[w]: Holds(i, t)} ELSE saved[i]]
        /\ partial' = (partial \ b) \union (b \intersect CutOff(w))
        /\ BatchDone(w, b)
    BY DEF SaveIntervals
<1>4. /\ b \in SUBSET toSave[w] /\ toSave'[w] = toSave[w] \ b
      /\ AloneInside' /\ ReadsWholeDays'
      /\ \A v \in Worker: pc'[v] \in Inside => v = w
      /\ pc'[w] = "save" \/ (pc'[w] = "mark" /\ toSave[w] = b)
      /\ CutOff(w)' = CutOff(w)
    BY <1>2, <1>3, BatchKeeps
<1>5. Stored' = Stored /\ Added' = Added /\ loaded'[w] = loaded[w]
    BY <1>2 DEF Stored, Added
<1>6. \A i \in Interval: \/ i \in b /\ saved'[i] = {t \in loaded[w]: Holds(i, t)}
                         \/ i \notin b /\ saved'[i] = saved[i]
    BY <1>3
<1>7. OnlyStored'
    <2>1. \A v \in Worker: loaded'[v] \subseteq Stored'
        BY <1>2, <1>5 DEF OnlyStored
    <2>2. \A i \in Interval: saved'[i] \subseteq {t \in Stored': Holds(i, t)}
        BY <1>5, <1>6 DEF OnlyStored
    <2>3. QED
        BY <2>1, <2>2 DEF OnlyStored
<1>8. toSave[w] \subseteq Interval
    BY DEF TypeOK
<1>9. WritesWhole'
    <2>1. ASSUME pc'[w] = "save", NEW i \in toSave'[w], NEW t \in Trade,
                 Holds(i, t), t \in Added' \/ t \in saved'[i]
          PROVE  t \in loaded'[w] \/ i \in CutOff(w)'
        <3>1. i \in toSave[w] /\ (t \in Added \/ t \in saved[i])
            BY <1>4, <1>5, <1>6, <1>8, <2>1
        <3>2. QED
            BY <1>2, <1>4, <1>5, <2>1, <3>1 DEF WritesWhole
    <2>2. QED
        BY <1>4, <2>1 DEF WritesWhole, Inside
<1>10. ASSUME NEW t \in loaded[w], NEW i \in Interval, Holds(i, t)
       PROVE  t \in saved'[i] \/ i \in partial' \/ i \in toSave'[w]
    BY <1>2, <1>3, <1>4, <1>6, <1>10 DEF MarksWritten
<1>11. MarksWritten'
    <2>1. \A batch \in toMark'[w]: batch \subseteq loaded[w]
        BY <1>2 DEF MarksWritten
    <2>2. pc'[w] = "mark" => toSave'[w] = {}
        BY <1>4
    <2>3. QED
        BY <1>4, <1>5, <1>10, <2>1, <2>2 DEF MarksWritten, Inside
<1>12. OnlyFailedWritesMiss'
    <2>1. ASSUME NEW t \in Added, NEW i \in Interval, Holds(i, t)
          PROVE  t \in saved'[i] \/ i \in partial'
        <3>1. CASE i \in b
            <4>1. t \in loaded[w] \/ i \in CutOff(w)
                BY <1>2, <1>4, <2>1, <3>1 DEF WritesWhole, Added
            <4>2. QED
                BY <1>3, <1>6, <2>1, <3>1, <4>1
        <3>2. CASE i \notin b
            BY <1>3, <1>6, <2>1, <3>2 DEF OnlyFailedWritesMiss
        <3>3. QED
            BY <3>1, <3>2
    <2>2. QED
        BY <1>5, <2>1 DEF OnlyFailedWritesMiss
<1>13. QED
    BY <1>1, <1>4, <1>7, <1>9, <1>11, <1>12

LEMMA SaveFailsKeeps ==
    ASSUME IInv, NEW w \in Worker, SaveFails(w)
    PROVE  IInv'
<1> USE DEF IInv
<1>1. TypeOK'
    BY NextTypeOK DEF Next
<1>2. pc[w] = "save" /\ UNCHANGED <<limit, status, saved, locked, from, loaded, toMark>>
    BY DEF SaveFails
<1>3. PICK b \in Batches(w): partial' = partial \union b /\ BatchDone(w, b)
    BY DEF SaveFails
<1>4. /\ b \in SUBSET toSave[w] /\ toSave'[w] = toSave[w] \ b
      /\ AloneInside' /\ ReadsWholeDays'
      /\ \A v \in Worker: pc'[v] \in Inside => v = w
      /\ pc'[w] = "save" \/ (pc'[w] = "mark" /\ toSave[w] = b)
      /\ CutOff(w)' = CutOff(w)
    BY <1>2, <1>3, BatchKeeps
<1>5. Stored' = Stored /\ Added' = Added /\ loaded'[w] = loaded[w]
    BY <1>2 DEF Stored, Added
<1>6. OnlyStored'
    BY <1>2, <1>5 DEF OnlyStored
<1>7. WritesWhole'
    BY <1>2, <1>4, <1>5 DEF WritesWhole, Inside
<1>8. ASSUME NEW t \in loaded[w], NEW i \in Interval, Holds(i, t)
      PROVE  t \in saved'[i] \/ i \in partial' \/ i \in toSave'[w]
    BY <1>2, <1>3, <1>4, <1>8 DEF MarksWritten
<1>9. MarksWritten'
    <2>1. \A batch \in toMark'[w]: batch \subseteq loaded[w]
        BY <1>2 DEF MarksWritten
    <2>2. pc'[w] = "mark" => toSave'[w] = {}
        BY <1>4
    <2>3. QED
        BY <1>4, <1>5, <1>8, <2>1, <2>2 DEF MarksWritten, Inside
<1>10. OnlyFailedWritesMiss'
    BY <1>2, <1>3, <1>5 DEF OnlyFailedWritesMiss
<1>11. QED
    BY <1>1, <1>4, <1>6, <1>7, <1>9, <1>10

LEMMA MarkAddedKeeps ==
    ASSUME IInv, NEW w \in Worker, MarkAdded(w)
    PROVE  IInv'
<1> USE DEF IInv
<1>1. TypeOK'
    BY NextTypeOK DEF Next, Step
<1>2. pc[w] = "mark" /\ UNCHANGED <<limit, saved, locked, pc, from, loaded, toSave, partial>>
    BY DEF MarkAdded
<1>3. PICK b \in toMark[w]: /\ status' = [t \in Trade |-> IF t \in b THEN "added" ELSE status[t]]
                            /\ toMark' = [toMark EXCEPT ![w] = @ \ {b}]
    BY DEF MarkAdded
<1>4. Stored \subseteq Stored' /\ Added' \subseteq Added \union b
    BY <1>3 DEF Stored, Added
<1>5. AloneInside' /\ ReadsWholeDays'
    BY <1>2 DEF AloneInside, ReadsWholeDays
<1>6. OnlyStored'
    BY <1>2, <1>4 DEF OnlyStored
<1>7. WritesWhole'
    BY <1>2 DEF WritesWhole, AloneInside, Inside
<1>8. MarksWritten'
    BY <1>2, <1>3 DEF MarksWritten, TypeOK
<1>9. OnlyFailedWritesMiss'
    BY <1>2, <1>3, <1>4 DEF OnlyFailedWritesMiss, MarksWritten
<1>10. QED
    BY <1>1, <1>5, <1>6, <1>7, <1>8, <1>9

\* The mutex, the returns, the failures and a crash of the one process.
LEMMA OthersKeep ==
    ASSUME OneProcess, IInv, NEW w \in Worker,
           Call(w) \/ AcquireLock(w) \/ MarkFails(w) \/ Return(w) \/ ReadFails(w)
    PROVE  IInv'
<1> USE DEF IInv
<1>1. TypeOK'
    BY NextTypeOK DEF Next, Step
<1>2. CASE Call(w) \/ AcquireLock(w)
    <2>1. OnlyStored' /\ WritesWhole' /\ MarksWritten' /\ OnlyFailedWritesMiss'
        BY <1>2, QuietStep DEF Call, AcquireLock, Goto, TypeOK
    <2>2. ReadsWholeDays'
        BY <1>2 DEF Call, AcquireLock, Goto, TypeOK, ReadsWholeDays
    <2>3. AloneInside'
        BY <1>2, IntervalAssumption DEF Call, AcquireLock, Free, Goto, TypeOK, AloneInside,
           Inside, OneProcess
    <2>4. QED
        BY <1>1, <2>1, <2>2, <2>3
<1>3. CASE MarkFails(w)
    <2>1. OnlyStored' /\ WritesWhole' /\ MarksWritten' /\ OnlyFailedWritesMiss'
        BY <1>3, QuietStep DEF MarkFails, TypeOK
    <2>2. AloneInside' /\ ReadsWholeDays'
        BY <1>3 DEF MarkFails, AloneInside, ReadsWholeDays
    <2>3. QED
        BY <1>1, <2>1, <2>2
<1>4. CASE Return(w) \/ ReadFails(w)
    <2>1. OnlyStored' /\ WritesWhole' /\ MarksWritten' /\ OnlyFailedWritesMiss'
        BY <1>4, QuietStep DEF Return, ReadFails, Goto, TypeOK
    <2>2. ReadsWholeDays'
        BY <1>4 DEF Return, ReadFails, Goto, TypeOK, ReadsWholeDays
    <2>3. AloneInside'
        BY <1>4, IntervalAssumption DEF Return, ReadFails, Unlock, Goto, TypeOK, AloneInside, Inside
    <2>4. QED
        BY <1>1, <2>1, <2>2, <2>3
<1>5. QED
    BY <1>2, <1>3, <1>4

LEMMA CrashKeeps ==
    ASSUME IInv, NEW p \in Process, Crash(p)
    PROVE  IInv'
<1> USE DEF IInv
<1>1. TypeOK'
    BY NextTypeOK DEF Next
<1>2. OnlyStored' /\ WritesWhole' /\ MarksWritten' /\ OnlyFailedWritesMiss'
    BY QuietStep DEF Crash, TypeOK
<1>3. ReadsWholeDays'
    BY DEF Crash, ReadsWholeDays
<1>4. AloneInside'
    BY IntervalAssumption DEF Crash, AloneInside, Inside, TypeOK
<1>5. QED
    BY <1>1, <1>2, <1>3, <1>4

LEMMA NextIInv == OneProcess /\ IInv /\ [Next]_vars => IInv'
<1> SUFFICES ASSUME OneProcess, IInv, [Next]_vars
             PROVE  IInv'
    OBVIOUS
<1>1. CASE UNCHANGED vars
    <2>1. TypeOK'
        BY NextTypeOK DEF IInv
    <2>2. OnlyStored' /\ WritesWhole' /\ MarksWritten' /\ OnlyFailedWritesMiss'
        BY <1>1, QuietStep DEF vars
    <2>3. AloneInside' /\ ReadsWholeDays'
        BY <1>1 DEF vars, IInv, AloneInside, ReadsWholeDays
    <2>4. QED
        BY <2>1, <2>2, <2>3 DEF IInv
<1>2. QED
    BY <1>1, HistoryKeeps, ReadOldestKeeps, ReadRowsKeeps, SaveIntervalsKeeps, SaveFailsKeeps,
       MarkAddedKeeps, OthersKeep, CrashKeeps DEF Next, Step

\* A trade marked as added is in its interval of every length, but where a
\* write of that very interval failed, or the limit on the rows cut it off.
THEOREM OnlyFailedWritesMissTheorem == OneProcess => (Spec => []OnlyFailedWritesMiss)
<1> SUFFICES ASSUME OneProcess PROVE Spec => []OnlyFailedWritesMiss
    OBVIOUS
<1>1. IInv => OnlyFailedWritesMiss
    BY DEF IInv
<1>2. IInv /\ [Next]_vars => IInv'
    BY NextIInv
<1>3. QED
    BY InitIInv, <1>1, <1>2, PTL DEF Spec

\* Overwriting an interval takes no trade out of it, but where the limit on
\* the rows cuts the interval off.
THEOREM NeverShrinksTheorem == OneProcess => (Spec => NeverShrinks)
<1> SUFFICES ASSUME OneProcess PROVE Spec => NeverShrinks
    OBVIOUS
<1>1. IInv /\ [Next]_vars => [\A i \in Interval: saved[i] \subseteq saved'[i] \/ i \in partial']_vars
    <2> SUFFICES ASSUME IInv, Next
                 PROVE  \A i \in Interval: saved[i] \subseteq saved'[i] \/ i \in partial'
        OBVIOUS
    <2>1. CASE \E w \in Worker: SaveIntervals(w)
        <3>1. PICK w \in Worker: SaveIntervals(w)
            BY <2>1
        <3>2. PICK b \in Batches(w):
                /\ saved' = [i \in Interval |-> IF i \in b THEN {t \in loaded[w]: Holds(i, t)} ELSE saved[i]]
                /\ partial' = (partial \ b) \union (b \intersect CutOff(w))
            BY <3>1 DEF SaveIntervals
        <3>3. pc[w] = "save" /\ b \in SUBSET toSave[w]
            BY <3>1 DEF SaveIntervals, Batches
        <3>4. ASSUME NEW i \in Interval, i \notin partial', NEW t \in saved[i]
              PROVE  t \in saved'[i]
            <4>1. CASE i \in b
                <5>1. Holds(i, t) /\ t \in Trade
                    BY DEF IInv, OnlyStored, Stored
                <5>2. i \notin CutOff(w)
                    BY <3>2, <3>4, <4>1
                <5>3. t \in loaded[w]
                    BY <3>3, <4>1, <5>1, <5>2 DEF IInv, WritesWhole
                <5>4. QED
                    BY <3>2, <4>1, <5>1, <5>3
            <4>2. CASE i \notin b
                BY <3>2, <4>2
            <4>3. QED
                BY <4>1, <4>2
        <3>5. QED
            BY <3>4
    <2>2. CASE ~\E w \in Worker: SaveIntervals(w)
        <3>1. UNCHANGED saved
            BY <2>2 DEF Next, Step, HistoryTransaction, Call, AcquireLock, ReadOldest, ReadRows,
                              SaveFails, MarkAdded, MarkFails, Return, ReadFails, Crash
        <3>2. QED
            BY <3>1
    <2>3. QED
        BY <2>1, <2>2
<1>2. IInv /\ [Next]_vars => IInv'
    BY NextIInv
<1>3. QED
    BY InitIInv, <1>1, <1>2, PTL DEF Spec, NeverShrinks
=============================================================================
